-------------------------- MODULE ExtractingStorage --------------------------
(***************************************************************************)
(* core/code_launcher/detail/storage.hpp, one step per operation on the    *)
(* mutex and the condition variable.  One mutex and one condition variable *)
(* serve all the keys; addValue notifies after it has unlocked.  Threads   *)
(* are the most general callers: each may call extract or addValue at any  *)
(* time, with any key that start-up gave a list, and add any launcher      *)
(* nobody owns.                                                            *)
(***************************************************************************)
EXTENDS Naturals, Sequences

CONSTANTS Threads, Keys, Values, NoValue, InitPool, MaxCalls,
          Nobody,       \* the owner of an unlocked mutex
          MaxSpurious   \* bound on spurious wake-ups

ASSUME StorageAssumption ==
    /\ NoValue \notin Values
    /\ InitPool \in [Keys -> Seq(Values)]
    /\ MaxCalls \in Nat
    /\ Nobody \notin Threads
    /\ MaxSpurious \in Nat

\* unique_ptr: start-up put every launcher into one place.
ASSUME InitPoolAssumption ==
    \A k1, k2 \in Keys : \A i \in 1..Len(InitPool[k1]), j \in 1..Len(InitPool[k2]) :
      InitPool[k1][i] = InitPool[k2][j] => k1 = k2 /\ i = j

VARIABLES
    storage,    \* the list of each key
    mutex,      \* the thread that holds the mutex, or Nobody
    pc,         \* where each thread is
    key,        \* the key of its call
    value,      \* the launcher it owns
    calls,      \* calls made by each thread
    spurious    \* spurious wake-ups so far

vars == <<storage, mutex, pc, key, value, calls, spurious>>

\* "waiting" is blocked on storageFree; "lock" is blocked on the mutex in extract,
\* at the start or after a wake-up; "check" evaluates the predicate, and "sleep"
\* and "take" act on its value.
PCs == {"idle", "lock", "check", "sleep", "take", "waiting", "addLock", "push", "notify"}

TypeOK ==
    /\ storage \in [Keys -> Seq(Values)]
    /\ mutex \in Threads \cup {Nobody}
    /\ pc \in [Threads -> PCs]
    /\ key \in [Threads -> Keys]
    /\ value \in [Threads -> Values \cup {NoValue}]
    /\ \A t \in Threads : pc[t] \in {"addLock", "push"} => value[t] \in Values
    /\ calls \in [Threads -> 0..MaxCalls]
    /\ spurious \in 0..MaxSpurious

Init ==
    /\ storage = InitPool
    /\ mutex = Nobody
    /\ pc = [t \in Threads |-> "idle"]
    /\ key \in [Threads -> Keys]
    /\ value = [t \in Threads |-> NoValue]
    /\ calls = [t \in Threads |-> 0]
    /\ spurious = 0

Goto(t, where) == pc' = [pc EXCEPT ![t] = where]

-----------------------------------------------------------------------------

Call(t, where, k, v) ==
    /\ pc[t] = "idle"
    /\ calls[t] < MaxCalls
    /\ Goto(t, where)
    /\ key' = [key EXCEPT ![t] = k]
    /\ value' = [value EXCEPT ![t] = v]
    /\ calls' = [calls EXCEPT ![t] = @ + 1]
    /\ UNCHANGED <<storage, mutex, spurious>>

CallExtract(t, k) == Call(t, "lock", k, NoValue)

Unowned(t, v) ==
    /\ \A k \in Keys : \A i \in 1..Len(storage[k]) : storage[k][i] # v
    /\ \A u \in Threads \ {t} : value[u] # v

CallAddValue(t, k, v) == Unowned(t, v) /\ Call(t, "addLock", k, v)

Acquire(t, from, to) ==
    /\ pc[t] = from
    /\ mutex = Nobody
    /\ mutex' = t
    /\ Goto(t, to)
    /\ UNCHANGED <<storage, key, value, calls, spurious>>

\* extract: std::unique_lock lock(mutex), and the reacquisition inside wait.
ExtractLock(t) == Acquire(t, "lock", "check")

\* storageFree.wait: evaluate the predicate, ...
ExtractCheck(t) ==
    /\ pc[t] = "check"
    /\ Goto(t, IF storage[key[t]] = << >> THEN "sleep" ELSE "take")
    /\ UNCHANGED <<storage, mutex, key, value, calls, spurious>>

\* ... if it is false, unlock and block in one step, ...
ExtractWait(t) ==
    /\ pc[t] = "sleep"
    /\ mutex' = Nobody
    /\ Goto(t, "waiting")
    /\ UNCHANGED <<storage, key, value, calls, spurious>>

\* std::condition_variable::wait may return without a notification.
SpuriousWakeup(t) ==
    /\ pc[t] = "waiting"
    /\ spurious < MaxSpurious
    /\ spurious' = spurious + 1
    /\ Goto(t, "lock")
    /\ UNCHANGED <<storage, mutex, key, value, calls>>

\* Slip: the element is not popped.
ExtractTake_NoPop(t) ==
    /\ pc[t] = "take"
    /\ value' = [value EXCEPT ![t] = storage[key[t]][Len(storage[key[t]])]]
    /\ mutex' = Nobody
    /\ Goto(t, "idle")
    /\ UNCHANGED <<storage, key, calls, spurious>>

\* ... if it is true, take the last element, unlock, return it.
ExtractTake(t) ==
    /\ pc[t] = "take"
    /\ value' = [value EXCEPT ![t] = storage[key[t]][Len(storage[key[t]])]]
    /\ storage' = [storage EXCEPT ![key[t]] = SubSeq(@, 1, Len(@) - 1)]
    /\ mutex' = Nobody
    /\ Goto(t, "idle")
    /\ UNCHANGED <<key, calls, spurious>>

\* Slip: the list is changed without the mutex.
AddLock_Unlocked(t) ==
    /\ pc[t] = "addLock"
    /\ Goto(t, "push")
    /\ UNCHANGED <<storage, mutex, key, value, calls, spurious>>

\* addValue: lock, push_back and unlock, notify_all.
AddLock(t) == Acquire(t, "addLock", "push")

\* Slip: the launcher is pushed after it was moved away.
AddPush_MovedFrom(t) ==
    /\ pc[t] = "push"
    /\ storage' = [storage EXCEPT ![key[t]] = Append(@, NoValue)]
    /\ value' = [value EXCEPT ![t] = NoValue]
    /\ mutex' = Nobody
    /\ Goto(t, "notify")
    /\ UNCHANGED <<key, calls, spurious>>

AddPush(t) ==
    /\ pc[t] = "push"
    /\ storage' = [storage EXCEPT ![key[t]] = Append(@, value[t])]
    /\ value' = [value EXCEPT ![t] = NoValue]
    /\ mutex' = Nobody
    /\ Goto(t, "notify")
    /\ UNCHANGED <<key, calls, spurious>>

\* Slips: notify_one, though threads wait for different keys; no notification.
AddNotify_One(t) ==
    /\ pc[t] = "notify"
    /\ LET waiting == {u \in Threads : pc[u] = "waiting"}
       IN  \/ waiting = {} /\ Goto(t, "idle")
           \/ \E u \in waiting : pc' = [pc EXCEPT ![t] = "idle", ![u] = "lock"]
    /\ UNCHANGED <<storage, mutex, key, value, calls, spurious>>

AddNotify_None(t) ==
    /\ pc[t] = "notify"
    /\ Goto(t, "idle")
    /\ UNCHANGED <<storage, mutex, key, value, calls, spurious>>

AddNotify(t) ==
    /\ pc[t] = "notify"
    /\ pc' = [u \in Threads |-> IF u = t THEN "idle"
                                ELSE IF pc[u] = "waiting" THEN "lock" ELSE pc[u]]
    /\ UNCHANGED <<storage, mutex, key, value, calls, spurious>>

-----------------------------------------------------------------------------

Step(t) == \/ ExtractLock(t) \/ ExtractCheck(t) \/ ExtractWait(t) \/ ExtractTake(t)
           \/ AddLock(t) \/ AddPush(t) \/ AddNotify(t)

\* Every thread has made its calls, or waits for a launcher nobody will add.
Quiet ==
    /\ \A t \in Threads : pc[t] \in {"idle", "waiting"}
    /\ UNCHANGED vars

Next ==
    \/ \E t \in Threads :
         \/ Step(t)
         \/ SpuriousWakeup(t)
         \/ \E k \in Keys : CallExtract(t, k) \/ \E v \in Values : CallAddValue(t, k, v)
    \/ Quiet

Spec == Init /\ [][Next]_vars

\* A thread that can go on does so; nobody has to call, nothing wakes by itself.
FairSpec == Spec /\ \A t \in Threads : WF_vars(Step(t))

-----------------------------------------------------------------------------

\* The predicate's value is still good when extract acts on it: no thread is
\* between its lock and its unlock together with another, and a list does not
\* change between the check and the sleep or the take.
CheckStillGood ==
    \A t \in Threads :
      /\ pc[t] \in {"check", "sleep", "take", "push"} => mutex = t
      /\ pc[t] = "sleep" => storage[key[t]] = << >>
      /\ pc[t] = "take" => storage[key[t]] # << >>

\* storageFree is notified after the unlock and shared by all keys; still no
\* wake-up is lost: whenever a thread sleeps though its list has an element, a
\* notify_all is on its way.
NoLostWakeup ==
    (\E t \in Threads : pc[t] = "waiting" /\ storage[key[t]] # << >>)
      => \E u \in Threads : pc[u] = "notify"

\* "Each element can be accessed only one time": a launcher is in one list, once,
\* or with one thread.
SingleOwner ==
    /\ \A k1, k2 \in Keys : \A i \in 1..Len(storage[k1]), j \in 1..Len(storage[k2]) :
         storage[k1][i] = storage[k2][j] => k1 = k2 /\ i = j
    /\ \A t \in Threads, v \in Values :
         value[t] = v => Unowned(t, v)

\* The mutex and the condition variable implement the atomic pool.
Call2Pool(p) ==
    CASE p = "idle" -> "none"
      [] p \in {"lock", "check", "sleep", "take", "waiting"} -> "extract"
      [] p \in {"addLock", "push"} -> "add"
      [] p = "notify" -> "added"

Pool == INSTANCE LauncherPool
          WITH pool <- storage, call <- [t \in Threads |-> Call2Pool(pc[t])]

\* extract and addValue behave as the atomic operations of LauncherPool, and a
\* waiting extract gets a launcher as long as its list is not emptied by others.
ImplementsPool == Pool!FairPoolSpec

\* "Multithreading FIFO storage": what leaves a list is its oldest element.
FirstInFirstOut ==
    [][\A k \in Keys :
         Len(storage'[k]) < Len(storage[k]) => storage'[k] = Tail(storage[k])]_vars
=============================================================================
