----------------------------- MODULE ThreadPool -----------------------------
(***************************************************************************)
(* unifex::static_thread_pool, the pool behind AsyncContext: a queue, a    *)
(* mutex and a condition variable per thread.  A task is put into one      *)
(* queue; a thread looks into all queues, its own first, and sleeps on its *)
(* own.  A queue is touched under its mutex only, so each access is one    *)
(* step; try_lock may fail at any time.                                    *)
(***************************************************************************)
EXTENDS Integers, Sequences

CONSTANTS
    Tasks,
    NoTask,         \* the null task_base*
    threadCount

Threads == 0..(threadCount - 1)

VARIABLES
    queues,         \* the queue_ of each thread's thread_state
    stopRequested,  \* its stopRequested_
    at,             \* where each thread is in context::run
    looked,         \* how many queues it has tried in this turn
    task            \* the task it executes

PoolTypeOK ==
    /\ queues \in [Threads -> Seq(Tasks)]
    /\ stopRequested \in [Threads -> BOOLEAN]
    /\ at \in [Threads -> {"scan", "pop", "wait", "execute", "exit"}]
    /\ looked \in [Threads -> 0..(threadCount - 1)]
    /\ task \in [Threads -> Tasks \cup {NoTask}]

PoolInit ==
    /\ queues = [t \in Threads |-> << >>]
    /\ stopRequested = [t \in Threads |-> FALSE]
    /\ at = [t \in Threads |-> "scan"]
    /\ looked = [t \in Threads |-> 0]
    /\ task = [t \in Threads |-> NoTask]

\* cv_.notify_one: nobody but the thread itself waits on its condition variable.
Notified(t) == [at EXCEPT ![t] = IF @ = "wait" THEN "pop" ELSE @]

\* Slip: the sleeper is not notified.
push_NoNotify(t, x) ==
    /\ queues' = [queues EXCEPT ![t] = Append(@, x)]
    /\ UNCHANGED <<stopRequested, at, looked, task>>

push(t, x) ==
    /\ queues' = [queues EXCEPT ![t] = Append(@, x)]
    /\ at' = IF queues[t] = << >> THEN Notified(t) ELSE at
    /\ UNCHANGED <<stopRequested, looked, task>>

\* From the next index on, the first queue whose mutex is free gets the task, or
\* else the one at that index: as try_lock may fail, it can be any.
enqueue(x) == \E t \in Threads : push(t, x)

\* Slip: the task stays in the queue it was stolen from.
Pops_Copy(t, q) ==
    /\ queues[q] # << >>
    /\ task' = [task EXCEPT ![t] = Head(queues[q])]
    /\ queues' = IF q = t THEN [queues EXCEPT ![q] = Tail(@)] ELSE queues
    /\ at' = [at EXCEPT ![t] = "execute"]
    /\ looked' = [looked EXCEPT ![t] = 0]
    /\ UNCHANGED stopRequested

\* queue_.pop_front, by thread t.
Pops(t, q) ==
    /\ queues[q] # << >>
    /\ task' = [task EXCEPT ![t] = Head(queues[q])]
    /\ queues' = [queues EXCEPT ![q] = Tail(@)]
    /\ at' = [at EXCEPT ![t] = "execute"]
    /\ looked' = [looked EXCEPT ![t] = 0]
    /\ UNCHANGED stopRequested

\* Slip: one queue too many.
try_pop_OnePast(t) ==
    /\ at[t] = "scan"
    /\ \/ Pops(t, (t + looked[t]) % threadCount)
       \/ /\ looked[t] < threadCount
          /\ looked' = [looked EXCEPT ![t] = @ + 1]
          /\ UNCHANGED <<queues, stopRequested, at, task>>
       \/ /\ looked[t] = threadCount
          /\ looked' = [looked EXCEPT ![t] = 0]
          /\ at' = [at EXCEPT ![t] = "pop"]
          /\ UNCHANGED <<queues, stopRequested, task>>

\* One turn of the loop over the queues; after the last one the thread turns to
\* the blocking pop.  A queue whose mutex is taken is passed over.
try_pop(t) ==
    /\ at[t] = "scan"
    /\ \/ Pops(t, (t + looked[t]) % threadCount)
       \/ /\ looked[t] < threadCount - 1
          /\ looked' = [looked EXCEPT ![t] = @ + 1]
          /\ UNCHANGED <<queues, stopRequested, at, task>>
       \/ /\ looked[t] = threadCount - 1
          /\ looked' = [looked EXCEPT ![t] = 0]
          /\ at' = [at EXCEPT ![t] = "pop"]
          /\ UNCHANGED <<queues, stopRequested, task>>

\* Slip: a thread told to stop leaves its queue behind.
pop_Leave(t) ==
    /\ at[t] = "pop"
    /\ \/ ~stopRequested[t] /\ Pops(t, t)
       \/ /\ ~stopRequested[t] => queues[t] = << >>
          /\ at' = [at EXCEPT ![t] = IF stopRequested[t] THEN "exit" ELSE "wait"]
          /\ UNCHANGED <<queues, stopRequested, looked, task>>

\* The own queue, under its mutex: take, leave or sleep.
pop(t) ==
    /\ at[t] = "pop"
    /\ \/ Pops(t, t)
       \/ /\ queues[t] = << >>
          /\ at' = [at EXCEPT ![t] = IF stopRequested[t] THEN "exit" ELSE "wait"]
          /\ UNCHANGED <<queues, stopRequested, looked, task>>

\* cv_.wait returns for no reason.
SpuriousWakeup(t) ==
    /\ at[t] = "wait"
    /\ at' = Notified(t)
    /\ UNCHANGED <<queues, stopRequested, looked, task>>

\* task->execute has returned.
Executed(t) ==
    /\ at[t] = "execute"
    /\ at' = [at EXCEPT ![t] = "scan"]
    /\ task' = [task EXCEPT ![t] = NoTask]
    /\ UNCHANGED <<queues, stopRequested, looked>>

\* Slip: a sleeper is not told.
request_stop_NoNotify(t) ==
    /\ ~stopRequested[t]
    /\ stopRequested' = [stopRequested EXCEPT ![t] = TRUE]
    /\ UNCHANGED <<queues, at, looked, task>>

request_stop(t) ==
    /\ ~stopRequested[t]
    /\ stopRequested' = [stopRequested EXCEPT ![t] = TRUE]
    /\ at' = Notified(t)
    /\ UNCHANGED <<queues, looked, task>>

Joinable == \A t \in Threads : at[t] = "exit"
=============================================================================
