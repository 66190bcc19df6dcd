------------------------------- MODULE Server -------------------------------
(***************************************************************************)
(* ServerImpl and AsyncContext: the thread of main runs RESTinio, accepts  *)
(* requests and writes replies; the threads of the pool process them, with *)
(* the launchers of Sandbox; a connection is broken after a time; SIGINT   *)
(* ends it all while requests are in progress.                             *)
(***************************************************************************)
EXTENDS Sandbox, Sequences, FiniteSets

CONSTANTS
    Launchers,      \* how many launchers Config asks for, of each language
    NoTask,
    threadCount

ASSUME ServerAssumption ==
    /\ LanguageOf \in [Requests -> Languages]
    /\ NoSources \subseteq Requests
    /\ MaxFailures \in Nat
    /\ Launchers \in [Languages -> Nat]
    /\ NoTask \notin Requests
    /\ threadCount \in Nat \ {0}

VARIABLES
    queues, stopRequested, at, looked, task,    \* the pool: see ThreadPool
    main,       \* where the thread of main is
    connection, \* the client's side of each request
    handler,    \* how far internalProcessRequest is
    outbox      \* replies handed to RESTinio and not yet written

INSTANCE ThreadPool WITH Tasks <- Requests

threadVars == <<queues, stopRequested, at, looked, task>>
serverVars == <<main, connection, handler, outbox>>
vars == <<sandboxVars, threadVars, serverVars>>

TypeOK ==
    /\ SandboxTypeOK
    /\ PoolTypeOK
    /\ main \in {"construct", "serving", "returned", "stopping", "joined", "exited",
                 "aborted"}
    /\ connection \in [Requests -> {"none", "open", "answered", "rejected", "broken",
                                    "dropped"}]
    /\ handler \in [Requests -> {"none", "queued", "service", "answer", "responded",
                                 "done"}]
    /\ outbox \subseteq Requests

Init ==
    /\ SandboxInit
    /\ PoolInit
    /\ main = "construct"
    /\ connection = [r \in Requests |-> "none"]
    /\ handler = [r \in Requests |-> "none"]
    /\ outbox = {}

Handler(r, where)    == handler' = [handler EXCEPT ![r] = where]
Connection(r, state) == connection' = [connection EXCEPT ![r] = state]

-----------------------------------------------------------------------------
(* The constructor of ServerImpl: m_service, then m_context.               *)

\* All the launchers that are configured, or fewer once a call has failed.
ConstructService(l) ==
    /\ main = "construct"
    /\ l \notin offered
    /\ \E n \in 1..Launchers[l] :
         /\ n = Launchers[l] \/ failures > 0
         /\ stock' = [stock EXCEPT ![l] = n]
         /\ Supply(l)
    /\ UNCHANGED <<threadVars, serverVars>>

ConstructFails ==
    /\ main = "construct"
    /\ Fail
    /\ UNCHANGED <<threadVars, serverVars>>

\* RESTinio serves, or cannot open its port: run throws, and nobody catches.
start ==
    /\ main = "construct"
    /\ \A l \in Languages : l \in offered \/ Launchers[l] = 0 \/ failures > 0
    /\ Open
    /\ main' \in {"serving", "aborted"}
    /\ UNCHANGED <<threadVars, connection, handler, outbox>>

-----------------------------------------------------------------------------
(* The thread of main inside restinio::run.                                *)

\* The request handler: a POST request is scheduled on the pool, others are not.
Accept(r) ==
    /\ main = "serving"
    /\ connection[r] = "none"
    /\ enqueue(r)
    /\ Connection(r, "open")
    /\ Handler(r, "queued")
    /\ UNCHANGED <<sandboxVars, main, outbox>>

Reject(r) ==
    /\ main = "serving"
    /\ connection[r] = "none"
    /\ Connection(r, "rejected")
    /\ UNCHANGED <<sandboxVars, threadVars, main, handler, outbox>>

\* check_timeout_impl after handle_request_timeout, which start sets to
\* kRequestTimeoutMinutes: the connection is closed, and nobody tells the thread
\* that serves the request.
Timeout(r) ==
    /\ main = "serving"
    /\ connection[r] = "open"
    /\ Connection(r, "broken")
    /\ UNCHANGED <<sandboxVars, threadVars, main, handler, outbox>>

\* Slip: a reply that cannot be written leaves the connection as it is.
Write_Forgets(r) ==
    /\ main = "serving"
    /\ r \in outbox
    /\ outbox' = outbox \ {r}
    /\ \/ UNCHANGED connection
       \/ connection[r] = "open" /\ Connection(r, "answered")
    /\ UNCHANGED <<sandboxVars, threadVars, main, handler>>

\* The task that write_response_parts left to the thread of main.  A reply to a
\* connection that is gone is dropped; one that cannot be written ends the connection.
Write(r) ==
    /\ main = "serving"
    /\ r \in outbox
    /\ outbox' = outbox \ {r}
    /\ IF connection[r] = "open"
       THEN Connection(r, "answered") \/ Connection(r, "broken")
       ELSE UNCHANGED connection
    /\ UNCHANGED <<sandboxVars, threadVars, main, handler>>

\* Slip: run returns without closing the connections.
Break_Open ==
    /\ main = "serving"
    /\ main' = "returned"
    /\ outbox' = {}
    /\ UNCHANGED <<sandboxVars, threadVars, connection, handler>>

\* SIGINT: run returns, and its io_context and the connections are gone.
Break ==
    /\ main = "serving"
    /\ main' = "returned"
    /\ connection' = [r \in Requests |->
                        IF connection[r] = "open" THEN "dropped" ELSE connection[r]]
    /\ outbox' = {}
    /\ UNCHANGED <<sandboxVars, threadVars, handler>>

-----------------------------------------------------------------------------
(* The destructor of ServerImpl: m_context (m_scope, then m_threadPool),   *)
(* then m_service.                                                         *)

Shuts(from, to) ==
    /\ main = from
    /\ main' = to
    /\ UNCHANGED <<sandboxVars, threadVars, connection, handler, outbox>>

\* ~async_scope asserts that the scope was joined; nobody joins it, so a build
\* with assertions ends here.
DestroyScope == Shuts("returned", "stopping") \/ Shuts("returned", "aborted")

\* ~static_thread_pool: request_stop, one thread after the other, and join.
RequestStop(t) ==
    /\ main = "stopping"
    /\ \A u \in Threads : u < t => stopRequested[u]
    /\ request_stop(t)
    /\ UNCHANGED <<sandboxVars, serverVars>>

Join == Shuts("stopping", "joined") /\ Joinable

DestroyService == Shuts("joined", "exited")

-----------------------------------------------------------------------------
(* The threads of the pool.                                                *)

Alive == main \notin {"construct", "exited", "aborted"}

Turn(t) ==
    /\ Alive
    /\ try_pop(t) \/ pop(t)
    /\ UNCHANGED <<sandboxVars, serverVars>>

Wakeup(t) ==
    /\ Alive
    /\ SpuriousWakeup(t)
    /\ UNCHANGED <<sandboxVars, serverVars>>

Executes(t, where) ==
    /\ Alive
    /\ at[t] = "execute"
    /\ handler[task[t]] = where

\* An unknown path or a body the parser refuses is answered at once; otherwise the
\* service is called.
processRequest(t) ==
    /\ Executes(t, "queued")
    /\ \/ Handler(task[t], "answer") /\ UNCHANGED sandboxVars
       \/ Handler(task[t], "service") /\ Ask(task[t])
    /\ UNCHANGED <<threadVars, main, connection, outbox>>

Call(t) ==
    /\ Executes(t, "service")
    /\ Refuse(task[t]) \/ Take(task[t]) \/ Give(task[t]) \/ Lose(task[t])
    /\ UNCHANGED <<threadVars, serverVars>>

\* A Docker call of a request fails.
CallFails(t) ==
    /\ Executes(t, "service")
    /\ user[task[t]] = "has"
    /\ Fail
    /\ UNCHANGED <<threadVars, serverVars>>

\* The service has returned or thrown: both give the text of an answer.
Return(t) ==
    /\ Executes(t, "service")
    /\ user[task[t]] = "over"
    /\ Handler(task[t], "answer")
    /\ UNCHANGED <<sandboxVars, threadVars, main, connection, outbox>>

\* An exception leaves the task: detached_spawn calls std::terminate.
Abort ==
    /\ main' = "aborted"
    /\ UNCHANGED <<sandboxVars, threadVars, connection, handler, outbox>>

\* Slip: no reply to a connection that is broken, and the thread keeps trying.
Respond_WhileOpen(t) ==
    /\ Executes(t, "answer")
    /\ connection[task[t]] # "broken"
    /\ Handler(task[t], "responded")
    /\ outbox' = IF main = "serving" THEN outbox \cup {task[t]} ELSE outbox
    /\ UNCHANGED <<sandboxVars, threadVars, main, connection>>

\* create_response takes the connection out of the request, done hands the reply
\* to RESTinio.  Once run has returned, that is a use of the destroyed io_context:
\* the reply is lost or the process ends.
Respond(t) ==
    /\ Executes(t, "answer")
    /\ \/ /\ Handler(task[t], "responded")
          /\ outbox' = IF main = "serving" THEN outbox \cup {task[t]} ELSE outbox
          /\ UNCHANGED <<sandboxVars, threadVars, main, connection>>
       \/ main # "serving" /\ Abort

\* An exception after create_response, in done or, with the reply handed over, in the
\* log call: the create_response of the catch block finds the connection taken and
\* throws in its turn.
RespondThrows(t) == (Executes(t, "answer") \/ Executes(t, "responded")) /\ Abort

\* The operation reports to its scope; that may have been destroyed meanwhile.
Complete(t) ==
    /\ Executes(t, "responded")
    /\ \/ /\ Executed(t)
          /\ Handler(task[t], "done")
          /\ UNCHANGED <<sandboxVars, main, connection, outbox>>
       \/ main \notin {"serving", "returned"} /\ Abort

\* The process has ended.
Ended == main \in {"exited", "aborted"} /\ UNCHANGED vars

-----------------------------------------------------------------------------

IO(r)     == Write(r) \/ Timeout(r)
Shutdown  == DestroyScope \/ (\E t \in Threads : RequestStop(t)) \/ Join \/ DestroyService
Worker(t) == \/ Turn(t) \/ processRequest(t) \/ Call(t) \/ Return(t) \/ Respond(t)
             \/ Complete(t)

Next ==
    \/ \E l \in Languages : ConstructService(l)
    \/ ConstructFails
    \/ start
    \/ \E r \in Requests : Accept(r) \/ Reject(r) \/ IO(r)
    \/ Break
    \/ Shutdown
    \/ \E t \in Threads : Worker(t) \/ Wakeup(t) \/ CallFails(t) \/ RespondThrows(t)
    \/ Ended

Spec == Init /\ [][Next]_vars

\* Threads that can run do, that of main inside RESTinio included.  Nothing rests on
\* the timers: they may fire or not.
Fairness ==
    /\ WF_vars(\E r \in Requests : Write(r))
    /\ WF_vars(Shutdown)
    /\ \A t \in Threads : WF_vars(Worker(t))

FairSpec == Spec /\ Fairness

-----------------------------------------------------------------------------
(* Properties.                                                             *)

InQueue(r) == \E t \in Threads : \E i \in 1..Len(queues[t]) : queues[t][i] = r

\* thread_state::pop and push: no thread of the pool sleeps while there is a task in
\* its own queue, so a task waits only while the thread of its queue is awake.
NoSleeperWithWork == \A t \in Threads : at[t] = "wait" => queues[t] = << >>

\* Every accepted request is in one place until it is done, in a queue or with a
\* thread, stolen or not: it is neither forgotten nor processed twice.
OnePlace ==
    /\ \A t, u \in Threads : \A i \in 1..Len(queues[t]), j \in 1..Len(queues[u]) :
         queues[t][i] = queues[u][j] => t = u /\ i = j
    /\ \A t, u \in Threads : at[t] = "execute" =>
         /\ task[t] \in Requests
         /\ \A i \in 1..Len(queues[u]) : queues[u][i] # task[t]
         /\ at[u] = "execute" /\ task[u] = task[t] => u = t
    /\ \A r \in Requests :
         /\ handler[r] \in {"queued", "service", "answer", "responded"} <=>
              InQueue(r) \/ \E t \in Threads : at[t] = "execute" /\ task[t] = r
         /\ InQueue(r) => handler[r] = "queued"

\* ServerImpl declares m_service before m_context: whenever SIGINT comes, all
\* accepted requests have been processed, and their launchers given back or lost,
\* when the service is destroyed.
ServiceOutlivesTasks ==
    main \in {"joined", "exited"} =>
      /\ \A t \in Threads : at[t] # "execute" /\ queues[t] = << >>
      /\ \A r \in Requests : user[r] \notin {"wants", "has"}

\* ~async_scope, "UNIFEX_ASSERT(use_count() == 0)": when AsyncContext destroys its
\* scope, none of the operations spawned in it is left.
ScopeEmptyWhenDestroyed ==
    [][main = "returned" /\ main' = "stopping" =>
         \A t \in Threads : at[t] # "execute" /\ queues[t] = << >>]_vars

\* A thread waits in extract for a language that has lost all its launchers.
Stuck ==
    \E r \in Requests :
      /\ user[r] = "wants" /\ r \notin NoSources
      /\ LanguageOf[r] \in offered
      /\ stock[LanguageOf[r]] = 0
      /\ ~\E q \in Requests : user[q] = "has" /\ LanguageOf[q] = LanguageOf[r]

\* Every accepted request is processed to its end, whether or not its connection
\* was broken meanwhile and whichever queue it is in, unless a thread is stuck.
EveryTaskRuns ==
    \A r \in Requests :
      handler[r] = "queued" ~> handler[r] = "done" \/ Stuck \/ main = "aborted"

\* internalProcessRequest, done: a thread of the pool hands the reply to the thread of
\* main, which may time the connection out or return from run meanwhile.  The reply of
\* a processed request is on its way, or its connection has ended; and nobody is
\* answered before the request has been processed.
ReplyOnItsWay ==
    \A r \in Requests :
      /\ r \in outbox \/ connection[r] = "answered" => handler[r] \in {"responded", "done"}
      /\ handler[r] \in {"responded", "done"} => r \in outbox \/ connection[r] # "open"

\* start and internalProcessRequest: a client that is not rejected is answered, or its
\* connection is broken or dropped, unless a thread is stuck.  It need not wait for the
\* timeout: queues, launchers, the handler and the writing all do their part.
ClientsAnswered ==
    \A r \in Requests :
      connection[r] = "open" ~> connection[r] # "open" \/ Stuck \/ main = "aborted"

\* After SIGINT the process ends, unless a thread is stuck.
Stops == main = "returned" ~> main \in {"exited", "aborted"} \/ Stuck
=============================================================================
