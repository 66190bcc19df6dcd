---------------------------- MODULE ServerProofs ----------------------------
(***************************************************************************)
(* What holds of ServerImpl and its thread pool for any number of requests *)
(* and threads, wherever SIGINT comes and whatever Docker call fails.      *)
(***************************************************************************)
EXTENDS Server, TLAPS

\* How the pool stops: a thread that has left was told to and has emptied its queue,
\* none is told while requests are still accepted, and all have left when joined.
Stopping ==
    /\ \A t \in Threads : at[t] = "exit" => stopRequested[t] /\ queues[t] = << >>
    /\ \A t \in Threads : stopRequested[t] => main \notin {"construct", "serving"}
    /\ main \in {"joined", "exited"} => Joinable

\* A request that has not arrived has no handler, and only one whose handler is in
\* the service waits for a launcher or has one.
Using ==
    \A r \in Requests : /\ connection[r] = "none" => handler[r] = "none"
                        /\ user[r] \in {"wants", "has"} => handler[r] = "service"

\* Connections are open only while RESTinio serves them; a process that was aborted
\* leaves them as they were.
Closed == main \notin {"serving", "aborted"} => \A r \in Requests : connection[r] # "open"

\* A handler between the call of schedule and its end.
Active == {"queued", "service", "answer", "responded"}

Inv == TypeOK /\ NoSleeperWithWork /\ OnePlace /\ Stopping /\ Using /\ Closed /\ ReplyOnItsWay

Constants ==
    /\ LanguageOf \in [Requests -> Languages]
    /\ MaxFailures \in Nat
    /\ Launchers \in [Languages -> Nat]
    /\ NoTask \notin Requests
    /\ threadCount \in Nat \ {0}

LEMMA ConstantsHold == Constants
  BY ServerAssumption DEF Constants

-----------------------------------------------------------------------------
(* What the steps of the pool do to the queues.                            *)

\* A task is put at the end of one queue.
LEMMA Pushing ==
    ASSUME TypeOK, NEW t \in Threads, NEW r \in Requests, push(t, r)
    PROVE  /\ PoolTypeOK'
           /\ \A u \in Threads : \A i \in 1..Len(queues[u]) :
                i \in 1..Len(queues'[u]) /\ queues'[u][i] = queues[u][i]
           /\ \A u \in Threads : \A i \in 1..Len(queues'[u]) :
                \/ i \in 1..Len(queues[u]) /\ queues'[u][i] = queues[u][i]
                \/ u = t /\ i = Len(queues[t]) + 1 /\ queues'[u][i] = r
           /\ Len(queues[t]) + 1 \in 1..Len(queues'[t])
           /\ queues'[t][Len(queues[t]) + 1] = r
           /\ \A u \in Threads : /\ at'[u] # at[u] => at[u] = "wait" /\ at'[u] = "pop"
                                 /\ u # t => queues'[u] = queues[u] /\ at'[u] = at[u]
                                 /\ u = t /\ queues[u] = << >> => at'[u] # "wait"
           /\ UNCHANGED <<stopRequested, looked, task>>
  <1>1. /\ queues \in [Threads -> Seq(Requests)]
        /\ at \in [Threads -> {"scan", "pop", "wait", "execute", "exit"}]
        /\ queues' = [queues EXCEPT ![t] = Append(@, r)]
        /\ at' = IF queues[t] = << >> THEN Notified(t) ELSE at
        /\ UNCHANGED <<stopRequested, looked, task>>
    BY DEF push, TypeOK, PoolTypeOK
  <1>2. queues[t] \in Seq(Requests) /\ queues'[t] = Append(queues[t], r)
    BY <1>1
  <1>3. /\ Append(queues[t], r) \in Seq(Requests)
        /\ Len(queues[t]) \in Nat
        /\ Len(queues'[t]) = Len(queues[t]) + 1
        /\ \A i \in 1..Len(queues[t]) : queues'[t][i] = queues[t][i]
        /\ queues'[t][Len(queues[t]) + 1] = r
    BY <1>2
  <1>5. queues' \in [Threads -> Seq(Requests)]
    BY <1>1, <1>3, Zenon
  <1>6. /\ at' \in [Threads -> {"scan", "pop", "wait", "execute", "exit"}]
        /\ \A u \in Threads : /\ at'[u] # at[u] => at[u] = "wait" /\ at'[u] = "pop"
                              /\ u # t => at'[u] = at[u]
                              /\ u = t /\ queues[u] = << >> => at'[u] # "wait"
    BY <1>1, Zenon DEF Notified
  <1>7. PoolTypeOK'
    BY <1>1, <1>5, <1>6, Zenon DEF TypeOK, PoolTypeOK
  <1> QED
    BY <1>1, <1>6, <1>7

\* A thread takes the first task of a queue.
LEMMA Popping ==
    ASSUME TypeOK, NEW t \in Threads, NEW q \in Threads, Pops(t, q)
    PROVE  /\ PoolTypeOK'
           /\ 1 \in 1..Len(queues[q]) /\ task'[t] = queues[q][1] /\ task'[t] \in Requests
           /\ at'[t] = "execute"
           /\ \A u \in Threads : /\ u # t => at'[u] = at[u] /\ task'[u] = task[u]
                                 /\ u # q => queues'[u] = queues[u]
           /\ \A i \in 1..Len(queues'[q]) :
                i + 1 \in 1..Len(queues[q]) /\ queues'[q][i] = queues[q][i + 1]
           /\ \A i \in 1..Len(queues[q]) : i # 1 =>
                i - 1 \in 1..Len(queues'[q]) /\ queues'[q][i - 1] = queues[q][i]
           /\ queues[q] # << >>
           /\ UNCHANGED stopRequested
  <1>1. /\ queues \in [Threads -> Seq(Requests)]
        /\ at \in [Threads -> {"scan", "pop", "wait", "execute", "exit"}]
        /\ looked \in [Threads -> 0..(threadCount - 1)]
        /\ task \in [Threads -> Requests \cup {NoTask}]
        /\ queues[q] # << >>
        /\ task' = [task EXCEPT ![t] = Head(queues[q])]
        /\ queues' = [queues EXCEPT ![q] = Tail(@)]
        /\ at' = [at EXCEPT ![t] = "execute"]
        /\ looked' = [looked EXCEPT ![t] = 0]
        /\ UNCHANGED stopRequested
    BY Zenon DEF Pops, TypeOK, PoolTypeOK
  <1>3. /\ Head(queues[q]) \in Requests
        /\ Head(queues[q]) = queues[q][1]
        /\ Tail(queues[q]) \in Seq(Requests)
        /\ Len(queues[q]) \in Nat \ {0}
        /\ Len(queues'[q]) = Len(queues[q]) - 1
        /\ \A i \in 1..Len(queues'[q]) : queues'[q][i] = queues[q][i + 1]
    BY <1>1
  <1>4. queues' \in [Threads -> Seq(Requests)] /\ task' \in [Threads -> Requests \cup {NoTask}]
    BY <1>1, <1>3, Zenon
  <1>5. looked' \in [Threads -> 0..(threadCount - 1)]
    BY <1>1, ConstantsHold DEF Constants
  <1>6. PoolTypeOK'
    BY <1>1, <1>4, <1>5, Zenon DEF TypeOK, PoolTypeOK
  <1> QED
    BY <1>1, <1>6

\* A turn of a thread takes a task, or changes where the thread is and nothing else.
LEMMA Turning ==
    ASSUME TypeOK, NEW t \in Threads, try_pop(t) \/ pop(t)
    PROVE  \/ \E q \in Threads : Pops(t, q) /\ at[t] \in {"scan", "pop"}
           \/ /\ PoolTypeOK'
              /\ UNCHANGED <<queues, stopRequested, task>>
              /\ at[t] \in {"scan", "pop"}
              /\ at'[t] \in {"scan", "pop", "wait", "exit"}
              /\ at'[t] \in {"wait", "exit"} => queues[t] = << >>
              /\ at'[t] = "exit" => stopRequested[t]
              /\ \A u \in Threads : u # t => at'[u] = at[u]
  <1>0. /\ at \in [Threads -> {"scan", "pop", "wait", "execute", "exit"}]
        /\ looked \in [Threads -> 0..(threadCount - 1)]
        /\ threadCount \in Nat \ {0}
    BY ConstantsHold DEF TypeOK, PoolTypeOK, Constants
  <1>1. (t + looked[t]) % threadCount \in Threads
    <2>1. t + looked[t] \in Nat
      BY <1>0 DEF Threads
    <2>2. \A a \in Nat, n \in Nat \ {0} : a % n \in 0..(n - 1)
      OBVIOUS
    <2> QED
      BY <1>0, <2>1, <2>2, Zenon DEF Threads
  <1>2. CASE pop(t)
    <2>2. CASE /\ queues[t] = << >>
               /\ at' = [at EXCEPT ![t] = IF stopRequested[t] THEN "exit" ELSE "wait"]
               /\ UNCHANGED <<queues, stopRequested, looked, task>>
      BY <1>2, <2>2, Zenon DEF pop, TypeOK, PoolTypeOK
    <2> QED
      BY <1>2, <2>2, Zenon DEF pop
  <1>3. CASE try_pop(t)
    <2>1. CASE Pops(t, (t + looked[t]) % threadCount)
      BY <1>1, <1>3, <2>1, Zenon DEF try_pop
    <2>2. CASE /\ looked[t] < threadCount - 1
               /\ looked' = [looked EXCEPT ![t] = @ + 1]
               /\ UNCHANGED <<queues, stopRequested, at, task>>
      <3>1. looked' \in [Threads -> 0..(threadCount - 1)]
        BY <1>0, <2>2
      <3> QED
        BY <1>3, <2>2, <3>1, Zenon DEF try_pop, TypeOK, PoolTypeOK
    <2>3. CASE /\ looked' = [looked EXCEPT ![t] = 0]
               /\ at' = [at EXCEPT ![t] = "pop"]
               /\ UNCHANGED <<queues, stopRequested, task>>
      <3>1. looked' \in [Threads -> 0..(threadCount - 1)]
        BY <1>0, <2>3
      <3> QED
        BY <1>3, <2>3, <3>1, Zenon DEF try_pop, TypeOK, PoolTypeOK
    <2> QED
      BY <1>3, <2>1, <2>2, <2>3, Zenon DEF try_pop
  <1> QED
    BY <1>2, <1>3, Zenon

-----------------------------------------------------------------------------
(* Cases of a step.                                                        *)

Executing(r) == \E t \in Threads : at[t] = "execute" /\ task[t] = r

\* A step that leaves the threads alone: what it may do to the handlers.
Handles ==
    /\ UNCHANGED threadVars
    /\ \A r \in Requests : handler'[r] # handler[r] =>
         Executing(r) /\ handler[r] \in Active /\ handler'[r] \in Active

\* The thread that executes a request moves its handler on.
LEMMA Advancing ==
    ASSUME TypeOK, OnePlace, NEW t \in Threads, NEW from \in Active, NEW to \in Active,
           Executes(t, from), Handler(task[t], to), UNCHANGED threadVars
    PROVE  /\ Handles
           /\ task[t] \in Requests
           /\ handler' \in [Requests -> {"none", "queued", "service", "answer", "responded",
                                        "done"}]
  <1>1. /\ task[t] \in Requests /\ Executing(task[t])
        /\ handler[task[t]] = from
    BY Zenon DEF OnePlace, Executes, Executing
  <1>2. handler' = [handler EXCEPT ![task[t]] = to]
    BY DEF Handler
  <1>3. handler \in [Requests -> {"none", "queued", "service", "answer", "responded", "done"}]
    BY DEF TypeOK
  <1> QED
    BY <1>1, <1>2, <1>3, Zenon DEF Handles, Active

\* Every step handles requests, accepts one, or is a step of a thread of the pool.
LEMMA StepCases ==
    ASSUME TypeOK, OnePlace, [Next]_vars
    PROVE  \/ Handles
           \/ \E r \in Requests : Accept(r)
           \/ \E t \in Threads :
                \/ Turn(t) \/ Wakeup(t) \/ RequestStop(t)
                \/ Complete(t) /\ Executed(t) /\ Handler(task[t], "done")
  <1> USE DEF serverVars
  <1>1. ASSUME UNCHANGED <<threadVars, handler>> PROVE Handles
    BY <1>1 DEF Handles
  <1>2. CASE (\E l \in Languages : ConstructService(l)) \/ ConstructFails \/ start
    BY <1>1, <1>2, Zenon DEF ConstructService, ConstructFails, start
  <1>3. CASE (\E r \in Requests : Reject(r) \/ IO(r)) \/ Break
    BY <1>1, <1>3, Zenon DEF Reject, IO, Write, Timeout, Break
  <1>4. CASE DestroyScope \/ Join \/ DestroyService
    BY <1>1, <1>4, Zenon DEF DestroyScope, Join, DestroyService, Shuts
  <1>5. ASSUME NEW t \in Threads, processRequest(t) PROVE Handles
    BY <1>5, Advancing, Zenon DEF processRequest, Active
  <1>6. ASSUME NEW t \in Threads, Return(t) PROVE Handles
    BY <1>6, Advancing, Zenon DEF Return, Active
  <1>7. ASSUME NEW t \in Threads, Respond(t) PROVE Handles
    BY <1>1, <1>7, Advancing, Zenon DEF Respond, Abort, Active
  <1>8. ASSUME NEW t \in Threads, Call(t) \/ CallFails(t) \/ RespondThrows(t) PROVE Handles
    BY <1>1, <1>8, Zenon DEF Call, CallFails, RespondThrows, Abort
  <1>9. ASSUME NEW t \in Threads, Complete(t)
        PROVE  Handles \/ (Complete(t) /\ Executed(t) /\ Handler(task[t], "done"))
    BY <1>1, <1>9, Zenon DEF Complete, Abort
  <1>10. CASE Ended \/ UNCHANGED vars
    BY <1>1, <1>10, Zenon DEF Ended, vars
  <1> QED
    BY <1>2, <1>3, <1>4, <1>5, <1>6, <1>7, <1>8, <1>9, <1>10, Zenon DEF Next, Shutdown, Worker

-----------------------------------------------------------------------------
(* No task is forgotten or run twice.                                      *)

\* The parts of OnePlace.
QueuesApart ==
    \A t, u \in Threads : \A i \in 1..Len(queues[t]), j \in 1..Len(queues[u]) :
      queues[t][i] = queues[u][j] => t = u /\ i = j

ThreadsApart ==
    \A t, u \in Threads : at[t] = "execute" =>
      /\ task[t] \in Requests
      /\ \A i \in 1..Len(queues[u]) : queues[u][i] # task[t]
      /\ at[u] = "execute" /\ task[u] = task[t] => u = t

Followed ==
    \A r \in Requests : /\ handler[r] \in Active <=> InQueue(r) \/ Executing(r)
                        /\ InQueue(r) => handler[r] = "queued"

LEMMA Parts == OnePlace <=> QueuesApart /\ ThreadsApart /\ Followed
  BY DEF OnePlace, QueuesApart, ThreadsApart, Followed, Executing, Active

LEMMA PartsNext == OnePlace' <=> QueuesApart' /\ ThreadsApart' /\ Followed'
  BY DEF OnePlace, QueuesApart, ThreadsApart, Followed, Executing, Active

\* Two places of the queues with the same task are one.
LEMMA SamePlace ==
    ASSUME QueuesApart, NEW u \in Threads, NEW v \in Threads,
           NEW i \in 1..Len(queues[u]), NEW j \in 1..Len(queues[v]),
           queues[u][i] = queues[v][j]
    PROVE  u = v /\ i = j
  BY DEF QueuesApart

\* A request that nobody knows is put into a queue.
LEMMA PlaceAccepted ==
    ASSUME TypeOK, OnePlace, Using, NEW r \in Requests, Accept(r) PROVE OnePlace'
  <1>1. PICK t \in Threads : push(t, r)
    BY DEF Accept, enqueue
  <1>2. QueuesApart /\ ThreadsApart /\ Followed
    BY Parts
  <1>3. ~InQueue(r) /\ ~Executing(r)
    <2>1. handler[r] = "none"
      BY DEF Accept, Using
    <2> QED
      BY <1>2, <2>1 DEF Followed, Active
  <1>4. \A q \in Requests : handler'[q] = IF q = r THEN "queued" ELSE handler[q]
    BY DEF Accept, Handler, TypeOK
  <1> DEFINE n == Len(queues[t]) + 1
  <1>5. /\ \A u \in Threads : \A i \in 1..Len(queues[u]) :
             i \in 1..Len(queues'[u]) /\ queues'[u][i] = queues[u][i]
        /\ \A u \in Threads : \A i \in 1..Len(queues'[u]) :
             \/ i \in 1..Len(queues[u]) /\ queues'[u][i] = queues[u][i]
             \/ u = t /\ i = n /\ queues'[u][i] = r
        /\ n \in 1..Len(queues'[t]) /\ queues'[t][n] = r
        /\ task' = task
    BY <1>1, Pushing, Zenon
  <1>6. \A u \in Threads : at'[u] = "execute" <=> at[u] = "execute"
    <2>1. \A u \in Threads : at'[u] # at[u] => at[u] = "wait" /\ at'[u] = "pop"
      BY <1>1, Pushing, Zenon
    <2> QED
      BY <2>1
  <1> HIDE DEF n
  <1>7. \A u \in Threads : \A i \in 1..Len(queues[u]) : queues[u][i] # r
    BY <1>3 DEF InQueue
  <1>8. QueuesApart'
    <2> SUFFICES ASSUME NEW u \in Threads, NEW v \in Threads,
                        NEW i \in 1..Len(queues'[u]), NEW j \in 1..Len(queues'[v]),
                        queues'[u][i] = queues'[v][j]
                 PROVE  u = v /\ i = j
      BY DEF QueuesApart
    <2>1. /\ \/ i \in 1..Len(queues[u]) /\ queues'[u][i] = queues[u][i]
             \/ u = t /\ i = n /\ queues'[u][i] = r
          /\ \/ j \in 1..Len(queues[v]) /\ queues'[v][j] = queues[v][j]
             \/ v = t /\ j = n /\ queues'[v][j] = r
      BY <1>5, Zenon
    <2>2. CASE i \in 1..Len(queues[u]) /\ queues'[u][i] = queues[u][i]
      <3>1. j \in 1..Len(queues[v]) /\ queues[u][i] = queues[v][j]
        BY <1>7, <2>1, <2>2, Zenon
      <3> QED
        BY <1>2, <2>2, <3>1, SamePlace
    <2>3. CASE u = t /\ i = n /\ queues'[u][i] = r
      BY <1>7, <2>1, <2>3, Zenon
    <2> QED
      BY <2>1, <2>2, <2>3, Zenon
  <1>9. ThreadsApart'
    BY <1>2, <1>3, <1>5, <1>6 DEF ThreadsApart, Executing
  <1>10. ASSUME NEW q \in Requests
         PROVE  /\ InQueue(q)' <=> InQueue(q) \/ q = r
                /\ Executing(q)' <=> Executing(q)
    <2>1. InQueue(q)' => InQueue(q) \/ q = r
      BY <1>5 DEF InQueue
    <2>2. InQueue(q) => InQueue(q)'
      BY <1>5 DEF InQueue
    <2>3. InQueue(r)'
      BY <1>5, Zenon DEF InQueue
    <2>4. Executing(q)' <=> Executing(q)
      BY <1>5, <1>6, Zenon DEF Executing
    <2> QED
      BY <2>1, <2>2, <2>3, <2>4
  <1>11. Followed'
    BY <1>2, <1>4, <1>10, Zenon DEF Followed, Active
  <1> QED
    BY <1>8, <1>9, <1>11, PartsNext

\* A thread takes a task out of a queue, its own or another.
LEMMA PlacePopped ==
    ASSUME TypeOK, OnePlace, NEW t \in Threads, NEW q \in Threads,
           Pops(t, q), at[t] \in {"scan", "pop"}, UNCHANGED handler
    PROVE  OnePlace'
  <1>1. QueuesApart /\ ThreadsApart /\ Followed
    BY Parts
  <1>2. /\ 1 \in 1..Len(queues[q]) /\ task'[t] = queues[q][1] /\ task'[t] \in Requests
        /\ at'[t] = "execute"
        /\ \A u \in Threads : /\ u # t => at'[u] = at[u] /\ task'[u] = task[u]
                              /\ u # q => queues'[u] = queues[u]
        /\ \A i \in 1..Len(queues'[q]) :
             i + 1 \in 1..Len(queues[q]) /\ queues'[q][i] = queues[q][i + 1]
        /\ \A i \in 1..Len(queues[q]) : i # 1 =>
             i - 1 \in 1..Len(queues'[q]) /\ queues'[q][i - 1] = queues[q][i]
    BY Popping
  <1>3. \A u \in Threads : \A i \in 1..Len(queues'[u]) : \E k \in 1..Len(queues[u]) :
          /\ queues'[u][i] = queues[u][k]
          /\ u = q => k = i + 1
          /\ u # q => k = i
    BY <1>2
  <1>4. \A u \in Threads : \A i \in 1..Len(queues'[u]) : queues'[u][i] # task'[t]
    <2> TAKE u \in Threads
    <2> TAKE i \in 1..Len(queues'[u])
    <2>1. PICK k \in 1..Len(queues[u]) : /\ queues'[u][i] = queues[u][k]
                                         /\ u = q => k = i + 1
      BY <1>3
    <2>2. u = q => k # 1
      BY <2>1
    <2> QED
      BY <1>1, <1>2, <2>2 DEF QueuesApart
  <1>5. QueuesApart'
    <2> SUFFICES ASSUME NEW u \in Threads, NEW v \in Threads,
                        NEW i \in 1..Len(queues'[u]), NEW j \in 1..Len(queues'[v]),
                        queues'[u][i] = queues'[v][j]
                 PROVE  u = v /\ i = j
      BY DEF QueuesApart
    <2>1. PICK k \in 1..Len(queues[u]) : /\ queues'[u][i] = queues[u][k]
                                         /\ u = q => k = i + 1
                                         /\ u # q => k = i
      BY <1>3, Zenon
    <2>2. PICK m \in 1..Len(queues[v]) : /\ queues'[v][j] = queues[v][m]
                                         /\ v = q => m = j + 1
                                         /\ v # q => m = j
      BY <1>3, Zenon
    <2>3. queues[u][k] = queues[v][m]
      BY <2>1, <2>2, Zenon
    <2>4. u = v /\ k = m
      BY <1>1, <2>3, SamePlace
    <2> QED
      BY <2>1, <2>2, <2>4
  <1>6. ThreadsApart'
    <2> SUFFICES ASSUME NEW u \in Threads, NEW v \in Threads, at'[u] = "execute"
                 PROVE  /\ task'[u] \in Requests
                        /\ \A i \in 1..Len(queues'[v]) : queues'[v][i] # task'[u]
                        /\ at'[v] = "execute" /\ task'[v] = task'[u] => v = u
      BY DEF ThreadsApart
    <2>1. \A w \in Threads : w # t /\ at'[w] = "execute" =>
            /\ at[w] = "execute" /\ task'[w] = task[w] /\ task[w] \in Requests
            /\ \A i \in 1..Len(queues[v]) : queues[v][i] # task[w]
            /\ task[w] # task'[t]
      BY <1>1, <1>2 DEF ThreadsApart
    <2>2. CASE u = t
      BY <1>2, <1>4, <2>1, <2>2
    <2>3. CASE u # t
      <3>1. \A i \in 1..Len(queues'[v]) : queues'[v][i] # task'[u]
        BY <1>3, <2>1, <2>3
      <3> QED
        BY <1>1, <2>1, <2>3, <3>1 DEF ThreadsApart
    <2> QED
      BY <2>2, <2>3, Zenon
  <1>7. ASSUME NEW r \in Requests
        PROVE  /\ InQueue(r)' => InQueue(r)
               /\ InQueue(r) => InQueue(r)' \/ r = task'[t]
               /\ Executing(r)' <=> Executing(r) \/ r = task'[t]
    <2>1. InQueue(r)' => InQueue(r)
      BY <1>3 DEF InQueue
    <2>2. ASSUME InQueue(r), r # task'[t] PROVE InQueue(r)'
      <3>1. PICK u \in Threads : \E i \in 1..Len(queues[u]) : queues[u][i] = r
        BY <2>2 DEF InQueue
      <3>2. PICK i \in 1..Len(queues[u]) : queues[u][i] = r
        BY <3>1
      <3>3. \E k \in 1..Len(queues'[u]) : queues'[u][k] = r
        <4>1. CASE u = q
          <5>1. i # 1
            BY <1>2, <2>2, <3>2, <4>1, Zenon
          <5>2. i - 1 \in 1..Len(queues'[u]) /\ queues'[u][i - 1] = r
            BY <1>2, <3>2, <4>1, <5>1, Zenon
          <5> QED
            BY <5>2
        <4>2. CASE u # q
          BY <1>2, <3>2, <4>2, Zenon
        <4> QED
          BY <4>1, <4>2
      <3> QED
        BY <3>3 DEF InQueue
    <2>3. Executing(r)' <=> Executing(r) \/ r = task'[t]
      BY <1>2 DEF Executing
    <2> QED
      BY <2>1, <2>2, <2>3
  <1>8. InQueue(task'[t])
    BY <1>2, Zenon DEF InQueue
  <1>9. Followed'
    BY <1>1, <1>7, <1>8, Zenon DEF Followed, Active
  <1> QED
    BY <1>5, <1>6, <1>9, PartsNext

\* The queues and the tasks stay, and the same threads execute theirs.
LEMMA PlaceSame ==
    ASSUME OnePlace, UNCHANGED <<queues, task>>,
           \A t \in Threads : at'[t] = "execute" <=> at[t] = "execute",
           \A r \in Requests : handler'[r] # handler[r] =>
             Executing(r) /\ handler[r] \in Active /\ handler'[r] \in Active
    PROVE  OnePlace'
  <1>1. QueuesApart /\ ThreadsApart /\ Followed
    BY Parts
  <1>2. QueuesApart' /\ ThreadsApart'
    BY <1>1 DEF QueuesApart, ThreadsApart
  <1>3. \A r \in Requests : /\ InQueue(r)' <=> InQueue(r)
                            /\ Executing(r)' <=> Executing(r)
                            /\ ~(InQueue(r) /\ Executing(r))
    BY <1>1 DEF InQueue, Executing, ThreadsApart
  <1>4. Followed'
    BY <1>1, <1>3, Zenon DEF Followed
  <1> QED
    BY <1>2, <1>4, PartsNext

\* A thread is done with its task.
LEMMA PlaceLeft ==
    ASSUME TypeOK, OnePlace, NEW t \in Threads, Executed(t), Handler(task[t], "done")
    PROVE  OnePlace'
  <1>1. QueuesApart /\ ThreadsApart /\ Followed
    BY Parts
  <1>2. /\ at[t] = "execute" /\ queues' = queues
        /\ \A u \in Threads : /\ at'[u] = IF u = t THEN "scan" ELSE at[u]
                              /\ u # t => task'[u] = task[u]
    BY DEF Executed, TypeOK, PoolTypeOK
  <1>3. task[t] \in Requests /\ ~InQueue(task[t])
    BY <1>1, <1>2 DEF ThreadsApart, InQueue
  <1>4. \A r \in Requests : handler'[r] = IF r = task[t] THEN "done" ELSE handler[r]
    BY DEF Handler, TypeOK
  <1>5. QueuesApart'
    BY <1>1, <1>2 DEF QueuesApart
  <1>6. ThreadsApart'
    BY <1>1, <1>2 DEF ThreadsApart
  <1>7. \A r \in Requests : /\ InQueue(r)' <=> InQueue(r)
                            /\ Executing(r)' <=> Executing(r) /\ r # task[t]
    BY <1>1, <1>2 DEF InQueue, Executing, ThreadsApart
  <1>8. Followed'
    BY <1>1, <1>3, <1>4, <1>7 DEF Followed, Active
  <1> QED
    BY <1>5, <1>6, <1>8, PartsNext

\* A sleeper that is notified, by a spurious wakeup or by request_stop.
LEMMA Notifying ==
    ASSUME TypeOK, NEW t \in Threads, Wakeup(t) \/ RequestStop(t)
    PROVE  /\ UNCHANGED <<queues, task, sandboxVars, serverVars>>
           /\ PoolTypeOK'
           /\ \A u \in Threads : at'[u] = at[u] \/ (at[u] = "wait" /\ at'[u] = "pop")
           /\ \A u \in Threads : /\ stopRequested[u] => stopRequested'[u]
                                 /\ stopRequested'[u] => stopRequested[u] \/ main = "stopping"
  <1>1. /\ at' = [at EXCEPT ![t] = IF @ = "wait" THEN "pop" ELSE @]
        /\ UNCHANGED <<queues, looked, task, sandboxVars, serverVars>>
        /\ \/ stopRequested' = stopRequested
           \/ stopRequested' = [stopRequested EXCEPT ![t] = TRUE] /\ main = "stopping"
    BY DEF Wakeup, RequestStop, SpuriousWakeup, request_stop, Notified
  <1>2. /\ at' \in [Threads -> {"scan", "pop", "wait", "execute", "exit"}]
        /\ stopRequested' \in [Threads -> BOOLEAN]
    BY <1>1, Zenon DEF TypeOK, PoolTypeOK
  <1> QED
    BY <1>1, <1>2 DEF TypeOK, PoolTypeOK

\* No step forgets a request or gives it to two threads.
LEMMA PlaceStep == Inv /\ [Next]_vars => OnePlace'
  <1> SUFFICES ASSUME Inv, [Next]_vars PROVE OnePlace'
    OBVIOUS
  <1>a. TypeOK /\ OnePlace /\ Using
    BY DEF Inv
  <1>1. CASE Handles
    BY <1>a, <1>1, PlaceSame, Zenon DEF Handles, threadVars
  <1>2. ASSUME NEW r \in Requests, Accept(r) PROVE OnePlace'
    BY <1>a, <1>2, PlaceAccepted
  <1>3. ASSUME NEW t \in Threads, Turn(t) PROVE OnePlace'
    <2>1. (try_pop(t) \/ pop(t)) /\ handler' = handler
      BY <1>3 DEF Turn, serverVars
    <2>2. ASSUME NEW q \in Threads, Pops(t, q), at[t] \in {"scan", "pop"} PROVE OnePlace'
      BY <1>a, <2>1, <2>2, PlacePopped
    <2>3. CASE /\ UNCHANGED <<queues, stopRequested, task>>
               /\ at[t] \in {"scan", "pop"}
               /\ at'[t] \in {"scan", "pop", "wait", "exit"}
               /\ \A u \in Threads : u # t => at'[u] = at[u]
      BY <1>a, <2>1, <2>3, PlaceSame, Zenon
    <2> QED
      BY <1>a, <2>1, <2>2, <2>3, Turning, Zenon
  <1>4. ASSUME NEW t \in Threads, Wakeup(t) \/ RequestStop(t) PROVE OnePlace'
    BY <1>a, <1>4, Notifying, PlaceSame, Zenon DEF serverVars
  <1>5. ASSUME NEW t \in Threads, Executed(t), Handler(task[t], "done") PROVE OnePlace'
    BY <1>a, <1>5, PlaceLeft
  <1> QED
    BY <1>a, <1>1, <1>2, <1>3, <1>4, <1>5, StepCases, Zenon

-----------------------------------------------------------------------------
(* Sleeping and stopping.                                                  *)

\* No step lets a thread sleep on a task, leave one behind, or be told to stop
\* while requests are accepted.
LEMMA StopStep == Inv /\ [Next]_vars => NoSleeperWithWork' /\ Stopping'
  <1> SUFFICES ASSUME Inv, [Next]_vars PROVE NoSleeperWithWork' /\ Stopping'
    OBVIOUS
  <1> USE DEF NoSleeperWithWork, Stopping, Joinable
  <1>a. TypeOK /\ OnePlace /\ NoSleeperWithWork /\ Stopping
    BY DEF Inv
  <1>m. \/ main' = main
        \/ main = "construct" /\ main' = "serving"
        \/ main' \in {"returned", "stopping", "aborted"} /\ main \notin {"joined", "exited"}
        \/ main' = "joined" /\ UNCHANGED threadVars /\ Joinable
        \/ main = "joined" /\ main' = "exited"
        \/ main' = "aborted"
    BY ZenonT(30) DEF Next, vars, serverVars, ConstructService, ConstructFails, start, Accept,
       Reject, IO, Write, Timeout, Break, Shutdown, DestroyScope, Shuts, RequestStop, Join,
       DestroyService, Worker, Turn, Wakeup, processRequest, Call, CallFails, Return, Respond,
       RespondThrows, Complete, Abort, Ended
  <1>1. CASE Handles
    BY <1>a, <1>m, <1>1, Zenon DEF Handles, threadVars
  <1>2. ASSUME NEW r \in Requests, Accept(r) PROVE NoSleeperWithWork' /\ Stopping'
    <2>1. PICK t \in Threads : push(t, r)
      BY <1>2 DEF Accept, enqueue
    <2>2. /\ \A u \in Threads : /\ at'[u] # at[u] => at[u] = "wait" /\ at'[u] = "pop"
                                /\ u # t => queues'[u] = queues[u] /\ at'[u] = at[u]
                                /\ u = t /\ queues[u] = << >> => at'[u] # "wait"
          /\ UNCHANGED stopRequested
      BY <1>a, <2>1, Pushing, Zenon
    <2>3. main = "serving" /\ main' = main
      BY <1>2 DEF Accept
    <2> QED
      BY <1>a, <2>2, <2>3, Zenon
  <1>3. ASSUME NEW t \in Threads, Turn(t) PROVE NoSleeperWithWork' /\ Stopping'
    <2>1. (try_pop(t) \/ pop(t)) /\ main' = main
      BY <1>3 DEF Turn, serverVars
    <2>2. ASSUME NEW q \in Threads, Pops(t, q), at[t] \in {"scan", "pop"}
          PROVE  NoSleeperWithWork' /\ Stopping'
      <3>1. /\ at'[t] = "execute"
            /\ \A u \in Threads : /\ u # t => at'[u] = at[u]
                                  /\ u # q => queues'[u] = queues[u]
            /\ queues[q] # << >> /\ UNCHANGED stopRequested
        BY <1>a, <2>2, Popping
      <3> QED
        BY <1>a, <2>1, <3>1
    <2>3. CASE /\ UNCHANGED <<queues, stopRequested, task>>
               /\ at[t] \in {"scan", "pop"}
               /\ at'[t] \in {"wait", "exit"} => queues[t] = << >>
               /\ at'[t] = "exit" => stopRequested[t]
               /\ \A u \in Threads : u # t => at'[u] = at[u]
      BY <1>a, <2>1, <2>3, Zenon
    <2> QED
      BY <1>a, <2>1, <2>2, <2>3, Turning, Zenon
  <1>4. ASSUME NEW t \in Threads, Wakeup(t) \/ RequestStop(t)
        PROVE  NoSleeperWithWork' /\ Stopping'
    BY <1>a, <1>4, Notifying, Zenon DEF serverVars
  <1>5. ASSUME NEW t \in Threads, Complete(t), Executed(t)
        PROVE  NoSleeperWithWork' /\ Stopping'
    <2>1. /\ at[t] = "execute" /\ UNCHANGED <<queues, stopRequested>>
          /\ \A u \in Threads : at'[u] = IF u = t THEN "scan" ELSE at[u]
      BY <1>a, <1>5, Zenon DEF Executed, TypeOK, PoolTypeOK
    <2>2. main' = main \/ main' = "aborted"
      BY <1>5 DEF Complete, Abort
    <2> QED
      BY <1>a, <2>1, <2>2, Zenon
  <1> QED
    BY <1>a, <1>1, <1>2, <1>3, <1>4, <1>5, StepCases, Zenon

-----------------------------------------------------------------------------
(* Types, and the launchers in use.                                        *)

\* What the service does for a request keeps the provider's state well typed, and
\* leaves the other requests alone.
LEMMA Calling ==
    ASSUME TypeOK, NEW r \in Requests,
           \/ Ask(r) \/ Refuse(r) \/ Take(r) \/ Give(r) \/ Lose(r)
    PROVE  /\ SandboxTypeOK'
           /\ \A q \in Requests : q # r => user'[q] = user[q]
  <1>1. /\ open \in BOOLEAN /\ stock \in [Languages -> Nat] /\ offered \subseteq Languages
        /\ user \in [Requests -> {"out", "wants", "has", "over"}] /\ failures \in Nat
        /\ LanguageOf[r] \in Languages /\ MaxFailures \in Nat
    BY ConstantsHold, Zenon DEF TypeOK, SandboxTypeOK, Constants
  <1>2. /\ UNCHANGED <<open, offered>>
        /\ \E to \in {"wants", "has", "over"} : user' = [user EXCEPT ![r] = to]
    BY Zenon DEF Ask, Refuse, Take, Give, Lose, Becomes
  <1>3. stock' \in [Languages -> Nat]
    BY <1>1 DEF Ask, Refuse, Take, Give, Lose
  <1>4. failures' \in Nat
    BY <1>1 DEF Ask, Refuse, Take, Give, Lose
  <1> QED
    BY <1>1, <1>2, <1>3, <1>4, Zenon DEF SandboxTypeOK

\* Every step keeps the state well typed.
LEMMA TypeStep == Inv /\ [Next]_vars => TypeOK'
  <1> SUFFICES ASSUME Inv, [Next]_vars PROVE TypeOK'
    OBVIOUS
  <1> USE DEF serverVars, threadVars, sandboxVars
  <1>a. TypeOK /\ OnePlace /\ PoolTypeOK /\ SandboxTypeOK
    BY DEF Inv, TypeOK
  <1>b. \A t \in Threads : at[t] = "execute" => task[t] \in Requests
    BY <1>a, Zenon DEF OnePlace
  <1>1. ASSUME NEW l \in Languages, ConstructService(l) PROVE TypeOK'
    <2>1. PICK n \in 1..Launchers[l] : stock' = [stock EXCEPT ![l] = n] /\ Supply(l)
      BY <1>1, Zenon DEF ConstructService
    <2> QED
      BY <1>a, <1>1, Zenon DEF ConstructService, Supply, TypeOK, SandboxTypeOK, PoolTypeOK
  <1>2. ASSUME Fail, UNCHANGED <<threadVars, serverVars>> PROVE TypeOK'
    BY <1>a, <1>2 DEF Fail, TypeOK, SandboxTypeOK, PoolTypeOK
  <1>3. CASE start
    BY <1>a, <1>3, Zenon DEF start, Open, TypeOK, SandboxTypeOK, PoolTypeOK
  <1>4. ASSUME NEW r \in Requests, Accept(r) PROVE TypeOK'
    <2>1. PoolTypeOK'
      BY <1>a, <1>4, Pushing, Zenon DEF Accept, enqueue
    <2> QED
      BY <1>a, <1>4, <2>1, Zenon DEF Accept, Connection, Handler, TypeOK, SandboxTypeOK
  <1>5. ASSUME NEW r \in Requests, Reject(r) \/ Timeout(r) \/ Write(r) PROVE TypeOK'
    BY <1>a, <1>5, Zenon DEF Reject, Timeout, Write, Connection, TypeOK, SandboxTypeOK, PoolTypeOK
  <1>6. CASE Break
    BY <1>a, <1>6, Zenon DEF Break, TypeOK, SandboxTypeOK, PoolTypeOK
  <1>7. CASE DestroyScope \/ Join \/ DestroyService
    BY <1>a, <1>7, Zenon DEF DestroyScope, Join, DestroyService, Shuts, TypeOK, SandboxTypeOK,
       PoolTypeOK
  <1>8. ASSUME NEW t \in Threads, Wakeup(t) \/ RequestStop(t) PROVE TypeOK'
    <2>1. UNCHANGED <<sandboxVars, serverVars>> /\ PoolTypeOK'
      BY <1>a, <1>8, Notifying, Zenon
    <2> QED
      BY <1>a, <2>1, Zenon DEF TypeOK, SandboxTypeOK
  <1>9. ASSUME NEW t \in Threads, Turn(t) PROVE TypeOK'
    <2>1. PoolTypeOK'
      BY <1>a, <1>9, Turning, Popping, Zenon DEF Turn
    <2> QED
      BY <1>a, <1>9, <2>1, Zenon DEF Turn, TypeOK, SandboxTypeOK
  <1>10. ASSUME NEW t \in Threads, NEW to \in Active, Handler(task[t], to),
                UNCHANGED threadVars, SandboxTypeOK', at[t] = "execute",
                UNCHANGED <<main, connection>>, outbox' \subseteq Requests
         PROVE  TypeOK'
    BY <1>a, <1>10, Zenon DEF Handler, TypeOK, PoolTypeOK, Active
  <1>11. ASSUME UNCHANGED sandboxVars PROVE SandboxTypeOK'
    BY <1>a, <1>11 DEF SandboxTypeOK
  <1>12. ASSUME NEW t \in Threads, processRequest(t) PROVE TypeOK'
    <2>1. SandboxTypeOK'
      BY <1>a, <1>b, <1>11, <1>12, Calling, Zenon DEF processRequest, Executes
    <2>2. PICK to \in {"answer", "service"} : Handler(task[t], to)
      BY <1>12 DEF processRequest
    <2> QED
      BY <1>a, <1>10, <1>12, <2>1, Zenon DEF processRequest, Executes, Active, TypeOK
  <1>13. ASSUME NEW t \in Threads, Call(t) PROVE TypeOK'
    <2>1. SandboxTypeOK'
      BY <1>a, <1>b, <1>13, Calling, Zenon DEF Call, Executes
    <2> QED
      BY <1>a, <1>13, <2>1, Zenon DEF Call, TypeOK, PoolTypeOK
  <1>14. ASSUME NEW t \in Threads, Return(t) PROVE TypeOK'
    BY <1>a, <1>10, <1>11, <1>14, Zenon DEF Return, Executes, Active, TypeOK
  <1>15. CASE Abort
    BY <1>a, <1>15, Zenon DEF Abort, TypeOK, SandboxTypeOK, PoolTypeOK
  <1>16. ASSUME NEW t \in Threads, Respond(t) PROVE TypeOK'
    <2>1. CASE /\ Handler(task[t], "responded")
               /\ outbox' = IF main = "serving" THEN outbox \cup {task[t]} ELSE outbox
               /\ UNCHANGED <<sandboxVars, threadVars, main, connection>>
      <3>1. outbox' \subseteq Requests
        BY <1>a, <1>b, <1>16, <2>1, Zenon DEF Respond, Executes, TypeOK
      <3> QED
        BY <1>10, <1>11, <1>16, <2>1, <3>1, Zenon DEF Respond, Executes, Active
    <2> QED
      BY <1>15, <1>16, <2>1, Zenon DEF Respond
  <1>17. ASSUME NEW t \in Threads, Complete(t) PROVE TypeOK'
    <2>1. CASE Executed(t) /\ Handler(task[t], "done")
               /\ UNCHANGED <<sandboxVars, main, connection, outbox>>
      BY <1>a, <2>1, Zenon DEF Executed, Handler, TypeOK, SandboxTypeOK, PoolTypeOK
    <2> QED
      BY <1>15, <1>17, <2>1, Zenon DEF Complete
  <1>18. CASE UNCHANGED vars
    BY <1>a, <1>18, Zenon DEF vars, TypeOK, SandboxTypeOK, PoolTypeOK
  <1> QED
    BY <1>1, <1>2, <1>3, <1>4, <1>5, <1>6, <1>7, <1>8, <1>9, <1>12, <1>13, <1>14, <1>15, <1>16,
       <1>17, <1>18, Zenon DEF Next, ConstructFails, IO, Shutdown, Worker, CallFails,
       RespondThrows, Ended

\* No handler leaves the service while its request waits for a launcher or has one.
LEMMA UsingStep == Inv /\ [Next]_vars => Using'
  <1> SUFFICES ASSUME Inv, [Next]_vars PROVE Using'
    OBVIOUS
  <1> USE DEF serverVars, threadVars, sandboxVars
  <1>a. /\ TypeOK /\ OnePlace /\ Using
        /\ handler \in [Requests -> {"none", "queued", "service", "answer", "responded", "done"}]
        /\ connection \in [Requests -> {"none", "open", "answered", "rejected", "broken",
                                        "dropped"}]
        /\ user \in [Requests -> {"out", "wants", "has", "over"}]
    BY DEF Inv, TypeOK, SandboxTypeOK
  <1>b. \A t \in Threads : at[t] = "execute" => task[t] \in Requests
    BY <1>a, Zenon DEF OnePlace
  <1>1. ASSUME UNCHANGED <<user, handler>>,
               \A r \in Requests : connection'[r] = "none" => connection[r] = "none"
        PROVE  Using'
    BY <1>a, <1>1 DEF Using
  <1>2. CASE (\E l \in Languages : ConstructService(l)) \/ ConstructFails \/ start
    BY <1>1, <1>2, Zenon DEF ConstructService, Supply, ConstructFails, Fail, start, Open
  <1>3. ASSUME NEW r \in Requests, Accept(r) PROVE Using'
    BY <1>a, <1>3, Zenon DEF Accept, Connection, Handler, Using
  <1>4. CASE (\E r \in Requests : Reject(r) \/ IO(r)) \/ Break
    BY <1>a, <1>1, <1>4 DEF Reject, IO, Write, Timeout, Break, Connection
  <1>5. CASE Shutdown
    BY <1>1, <1>5, Zenon DEF Shutdown, DestroyScope, Join, DestroyService, Shuts, RequestStop
  <1>6. ASSUME NEW t \in Threads, Turn(t) \/ Wakeup(t) \/ CallFails(t) \/ RespondThrows(t)
        PROVE  Using'
    BY <1>1, <1>6, Zenon DEF Turn, Wakeup, CallFails, Fail, RespondThrows, Abort
  <1>7. ASSUME NEW t \in Threads, processRequest(t) PROVE Using'
    <2>1. /\ task[t] \in Requests /\ handler[task[t]] = "queued"
          /\ connection' = connection
          /\ \/ Handler(task[t], "answer") /\ user' = user
             \/ Handler(task[t], "service") /\ user' = [user EXCEPT ![task[t]] = "wants"]
      BY <1>b, <1>7, Zenon DEF processRequest, Executes, Ask, Becomes
    <2> QED
      BY <1>a, <2>1 DEF Handler, Using
  <1>8. ASSUME NEW t \in Threads, Call(t) PROVE Using'
    <2>1. /\ task[t] \in Requests /\ handler[task[t]] = "service"
          /\ UNCHANGED <<handler, connection>>
          /\ \A q \in Requests : q # task[t] => user'[q] = user[q]
      BY <1>a, <1>b, <1>8, Calling, Zenon DEF Call, Executes
    <2> QED
      BY <1>a, <2>1, Zenon DEF Using
  <1>9. ASSUME NEW t \in Threads, Return(t) PROVE Using'
    BY <1>a, <1>9, Zenon DEF Return, Executes, Handler, Using
  <1>10. ASSUME NEW t \in Threads, Respond(t) PROVE Using'
    BY <1>a, <1>10 DEF Respond, Abort, Executes, Handler, Using
  <1>11. ASSUME NEW t \in Threads, Complete(t) PROVE Using'
    BY <1>a, <1>11 DEF Complete, Abort, Executes, Handler, Using
  <1>12. CASE Ended \/ UNCHANGED vars
    BY <1>1, <1>12, Zenon DEF Ended, vars
  <1> QED
    BY <1>2, <1>3, <1>4, <1>5, <1>6, <1>7, <1>8, <1>9, <1>10, <1>11, <1>12, Zenon DEF Next, Worker

-----------------------------------------------------------------------------
(* The way of the replies.                                                 *)

\* No step closes the way of a reply, or answers a client too early.
LEMMA ReplyStep == Inv /\ [Next]_vars => Closed' /\ ReplyOnItsWay'
  <1> SUFFICES ASSUME Inv, [Next]_vars PROVE Closed' /\ ReplyOnItsWay'
    OBVIOUS
  <1> USE DEF serverVars
  <1>a. /\ Closed /\ ReplyOnItsWay /\ Using
        /\ handler \in [Requests -> {"none", "queued", "service", "answer", "responded", "done"}]
        /\ connection \in [Requests -> {"none", "open", "answered", "rejected", "broken",
                                        "dropped"}]
        /\ \A t \in Threads : at[t] = "execute" => task[t] \in Requests
    BY Zenon DEF Inv, TypeOK, OnePlace
  <1>1. ASSUME UNCHANGED <<connection, handler, outbox>>,
               \/ main' \in {main, "serving", "aborted"}
               \/ main \notin {"serving", "aborted"}
        PROVE  Closed' /\ ReplyOnItsWay'
    BY <1>a, <1>1, Zenon DEF Closed, ReplyOnItsWay
  <1>2. CASE (\E l \in Languages : ConstructService(l)) \/ ConstructFails \/ start
    BY <1>1, <1>2, Zenon DEF ConstructService, ConstructFails, start
  <1>3. ASSUME NEW r \in Requests, Accept(r) \/ Reject(r) PROVE Closed' /\ ReplyOnItsWay'
    BY <1>a, <1>3 DEF Accept, Reject, Connection, Handler, Closed, ReplyOnItsWay, Using
  <1>4. ASSUME NEW r \in Requests, IO(r) PROVE Closed' /\ ReplyOnItsWay'
    BY <1>a, <1>4 DEF IO, Write, Timeout, Connection, Closed, ReplyOnItsWay
  <1>5. CASE Break
    BY <1>a, <1>5 DEF Break, Closed, ReplyOnItsWay
  <1>6. CASE Shutdown
    BY <1>1, <1>6, Zenon DEF Shutdown, DestroyScope, Join, DestroyService, Shuts, RequestStop
  <1>7. ASSUME NEW t \in Threads,
               Turn(t) \/ Wakeup(t) \/ Call(t) \/ CallFails(t) \/ RespondThrows(t)
        PROVE  Closed' /\ ReplyOnItsWay'
    BY <1>1, <1>7, Zenon DEF Turn, Wakeup, Call, CallFails, RespondThrows, Abort
  <1>8. ASSUME NEW t \in Threads, processRequest(t) \/ Return(t) PROVE Closed' /\ ReplyOnItsWay'
    <2>1. /\ task[t] \in Requests /\ handler[task[t]] \in {"queued", "service"}
          /\ UNCHANGED <<main, connection, outbox>>
          /\ Handler(task[t], "answer") \/ Handler(task[t], "service")
      BY <1>a, <1>8, Zenon DEF processRequest, Return, Executes
    <2> QED
      BY <1>a, <2>1 DEF Handler, Closed, ReplyOnItsWay
  <1>9. ASSUME NEW t \in Threads, Respond(t) PROVE Closed' /\ ReplyOnItsWay'
    <2>1. CASE Abort
      BY <1>1, <2>1 DEF Abort
    <2>2. CASE /\ Handler(task[t], "responded")
               /\ outbox' = IF main = "serving" THEN outbox \cup {task[t]} ELSE outbox
               /\ UNCHANGED <<main, connection>>
      <3>1. /\ task[t] \in Requests
            /\ main # "serving" => \A r \in Requests : connection[r] # "open"
        BY <1>a, <1>9, Zenon DEF Respond, Executes, Alive, Closed
      <3> QED
        BY <1>a, <2>2, <3>1 DEF Handler, Closed, ReplyOnItsWay
    <2> QED
      BY <1>9, <2>1, <2>2, Zenon DEF Respond
  <1>10. ASSUME NEW t \in Threads, Complete(t) PROVE Closed' /\ ReplyOnItsWay'
    <2>1. CASE Abort
      BY <1>1, <2>1 DEF Abort
    <2>2. CASE Handler(task[t], "done") /\ UNCHANGED <<main, connection, outbox>>
      <3>1. task[t] \in Requests /\ handler[task[t]] = "responded"
        BY <1>a, <1>10, Zenon DEF Complete, Executes
      <3> QED
        BY <1>a, <2>2, <3>1 DEF Handler, Closed, ReplyOnItsWay
    <2> QED
      BY <1>10, <2>1, <2>2, Zenon DEF Complete
  <1>11. CASE Ended \/ UNCHANGED vars
    BY <1>1, <1>11, Zenon DEF Ended, vars
  <1> QED
    BY <1>2, <1>3, <1>4, <1>5, <1>6, <1>7, <1>8, <1>9, <1>10, <1>11, Zenon DEF Next, Worker

-----------------------------------------------------------------------------
(* The theorems.                                                           *)

LEMMA InitInv == Init => Inv
  <1> SUFFICES ASSUME Init PROVE Inv
    OBVIOUS
  <1> USE DEF Init, SandboxInit, PoolInit
  <1>1. TypeOK
    <2>1. SandboxTypeOK
      BY Zenon DEF SandboxTypeOK
    <2>2. looked \in [Threads -> 0..(threadCount - 1)]
      <3>1. 0 \in 0..(threadCount - 1)
        BY ConstantsHold DEF Constants
      <3> QED
        BY <3>1
    <2>3. PoolTypeOK
      BY <2>2 DEF PoolTypeOK
    <2> QED
      BY <2>1, <2>3 DEF TypeOK
  <1>2. \A t \in Threads : queues[t] = << >> /\ 1..Len(queues[t]) = {} /\ at[t] = "scan"
    OBVIOUS
  <1>3. \A r \in Requests : handler[r] = "none" /\ user[r] = "out" /\ connection[r] = "none"
    OBVIOUS
  <1>4. Stopping /\ Using /\ NoSleeperWithWork
    BY Zenon DEF Stopping, Using, NoSleeperWithWork
  <1>6. Closed /\ ReplyOnItsWay
    BY <1>3 DEF Closed, ReplyOnItsWay
  <1> HIDE DEF Init, SandboxInit, PoolInit
  <1>5. OnePlace
    BY <1>2, <1>3, Zenon DEF OnePlace, InQueue
  <1> QED
    BY <1>1, <1>4, <1>5, <1>6 DEF Inv

\* The inductive invariant: where each task is, which threads sleep or have left,
\* whose handler uses a launcher and where the replies are, in every reachable state.
THEOREM ServerInvariant == Spec => []Inv
  <1>1. Inv /\ [Next]_vars => Inv'
    BY TypeStep, StopStep, PlaceStep, UsingStep, ReplyStep DEF Inv
  <1> QED
    BY InitInv, <1>1, PTL DEF Spec

\* The server, its connections and handlers, the pool and the provider keep their
\* types, so no thread looks past the last queue.
THEOREM ServerTypeCorrect == Spec => []TypeOK
  <1>1. Inv => TypeOK
    BY DEF Inv
  <1> QED
    BY <1>1, ServerInvariant, PTL

\* thread_state::push and pop: whatever queue a task is put into or stolen from, no
\* thread sleeps while its own queue has a task.
THEOREM NoThreadSleepsOnWork == Spec => []NoSleeperWithWork
  <1>1. Inv => NoSleeperWithWork
    BY DEF Inv
  <1> QED
    BY <1>1, ServerInvariant, PTL

\* Work stealing in static_thread_pool: an accepted request is in one queue or with
\* one thread until its handler is done.
THEOREM TasksStayInOnePlace == Spec => []OnePlace
  <1>1. Inv => OnePlace
    BY DEF Inv
  <1> QED
    BY <1>1, ServerInvariant, PTL

\* internalProcessRequest and RESTinio: the reply of a processed request is on its way
\* or its connection has ended, and nobody is answered early, whatever the timeouts and
\* SIGINT do.
THEOREM RepliesAreNotLost == Spec => []ReplyOnItsWay
  <1>1. Inv => ReplyOnItsWay
    BY DEF Inv
  <1> QED
    BY <1>1, ServerInvariant, PTL

\* The order of the members of ServerImpl: the pool is empty, and no request waits
\* for a launcher or has one, when the service is destroyed.
THEOREM ServiceIsDestroyedLast == Spec => []ServiceOutlivesTasks
  <1>1. Inv => ServiceOutlivesTasks
    <2> SUFFICES ASSUME Inv, main \in {"joined", "exited"}
                 PROVE  /\ \A t \in Threads : at[t] # "execute" /\ queues[t] = << >>
                        /\ \A r \in Requests : user[r] \notin {"wants", "has"}
      BY DEF ServiceOutlivesTasks
    <2>1. \A t \in Threads : at[t] = "exit" /\ queues[t] = << >>
      BY DEF Inv, Stopping, Joinable
    <2>3. \A r \in Requests : handler[r] # "service"
      BY <2>1, Parts, Zenon DEF Inv, Followed, InQueue, Executing, Active
    <2> QED
      BY <2>1, <2>3 DEF Inv, Using
  <1> QED
    BY <1>1, ServerInvariant, PTL
=============================================================================
