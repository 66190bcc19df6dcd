---------------------------- MODULE LauncherPool ----------------------------
(***************************************************************************)
(* What ExtractingStorage promises its callers: extract and addValue act   *)
(* on the lists atomically, extract waits while the list of its key is     *)
(* empty, and it does not wait for ever while launchers of its key are     *)
(* there to take.                                                          *)
(***************************************************************************)
EXTENDS Naturals, Sequences

CONSTANTS
    Threads,
    Keys,
    Values,
    NoValue,        \* no launcher: the null unique_ptr
    InitPool,       \* the lists addValues built at start-up
    MaxCalls        \* bound on the calls of one thread

VARIABLES
    pool,   \* the free launchers of each key
    call,   \* what each thread is doing: "none", "extract", "add" or "added"
    key,    \* the key of its call
    value,  \* the launcher it owns: extracted, or about to be added
    calls   \* calls made by each thread

poolVars == <<pool, call, key, value, calls>>

PoolInit ==
    /\ pool = InitPool
    /\ call = [t \in Threads |-> "none"]
    /\ key \in [Threads -> Keys]
    /\ value = [t \in Threads |-> NoValue]
    /\ calls = [t \in Threads |-> 0]

Begin(t, what, k, v) ==
    /\ call[t] = "none"
    /\ calls[t] < MaxCalls
    /\ call' = [call EXCEPT ![t] = what]
    /\ key' = [key EXCEPT ![t] = k]
    /\ value' = [value EXCEPT ![t] = v]
    /\ calls' = [calls EXCEPT ![t] = @ + 1]
    /\ UNCHANGED pool

\* The launcher the thread had before, if any, is destroyed.
BeginExtract(t, k) == Begin(t, "extract", k, NoValue)

\* A launcher nobody else owns is handed over.
BeginAdd(t, k, v) ==
    /\ \A j \in Keys : \A i \in 1..Len(pool[j]) : pool[j][i] # v
    /\ \A u \in Threads \ {t} : value[u] # v
    /\ Begin(t, "add", k, v)

Extract(t) ==
    /\ call[t] = "extract"
    /\ pool[key[t]] # << >>
    /\ value' = [value EXCEPT ![t] = pool[key[t]][Len(pool[key[t]])]]
    /\ pool' = [pool EXCEPT ![key[t]] = SubSeq(@, 1, Len(@) - 1)]
    /\ call' = [call EXCEPT ![t] = "none"]
    /\ UNCHANGED <<key, calls>>

Add(t) ==
    /\ call[t] = "add"
    /\ pool' = [pool EXCEPT ![key[t]] = Append(@, value[t])]
    /\ value' = [value EXCEPT ![t] = NoValue]
    /\ call' = [call EXCEPT ![t] = "added"]
    /\ UNCHANGED <<key, calls>>

Return(t) ==
    /\ call[t] = "added"
    /\ call' = [call EXCEPT ![t] = "none"]
    /\ UNCHANGED <<pool, key, value, calls>>

PoolNext ==
    \E t \in Threads :
      \/ \E k \in Keys : BeginExtract(t, k) \/ \E v \in Values : BeginAdd(t, k, v)
      \/ Extract(t) \/ Add(t) \/ Return(t)

PoolSpec == PoolInit /\ [][PoolNext]_poolVars

\* As long as launchers of a key are left, some caller waiting for it gets one.
PoolFairness ==
    /\ \A k \in Keys : WF_poolVars(\E t \in Threads : key[t] = k /\ Extract(t))
    /\ \A t \in Threads : WF_poolVars(Add(t) \/ Return(t))

FairPoolSpec == PoolSpec /\ PoolFairness
=============================================================================
