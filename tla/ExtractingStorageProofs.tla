---------------------- MODULE ExtractingStorageProofs ----------------------
(***************************************************************************)
(* Proofs about ExtractingStorage for any number of threads, keys,         *)
(* launchers, calls and spurious wake-ups.                                 *)
(***************************************************************************)
EXTENDS ExtractingStorage, Integers, TLAPS

\* What pop_back leaves of a list, and what back() was.
LEMMA FrontLast ==
    ASSUME NEW S, NEW s \in Seq(S), s # << >>
    PROVE  /\ Len(s) \in Nat \ {0}
           /\ s[Len(s)] \in S
           /\ SubSeq(s, 1, Len(s) - 1) \in Seq(S)
           /\ Len(SubSeq(s, 1, Len(s) - 1)) = Len(s) - 1
           /\ \A i \in 1..Len(s) - 1 : SubSeq(s, 1, Len(s) - 1)[i] = s[i]
  <1>1. PICK n \in Nat : n = Len(s) - 1
    OBVIOUS
  <1> QED
    BY <1>1

\* Every thread keeps its variables well typed (the class's lists hold launchers).
LEMMA TypeStep == TypeOK /\ CheckStillGood /\ [Next]_vars => TypeOK'
  <1> SUFFICES ASSUME TypeOK, CheckStillGood, [Next]_vars PROVE TypeOK'
    OBVIOUS
  <1> USE StorageAssumption
  <1>1. ASSUME NEW t \in Threads, NEW k \in Keys, CallExtract(t, k) PROVE TypeOK'
    BY <1>1 DEF CallExtract, Call, Goto, TypeOK, PCs
  <1>2. ASSUME NEW t \in Threads, NEW k \in Keys, NEW v \in Values, CallAddValue(t, k, v)
        PROVE  TypeOK'
    BY <1>2 DEF CallAddValue, Call, Goto, TypeOK, PCs
  <1>3. ASSUME NEW t \in Threads, ExtractLock(t) PROVE TypeOK'
    BY <1>3 DEF ExtractLock, Acquire, Goto, TypeOK, PCs
  <1>4. ASSUME NEW t \in Threads, ExtractCheck(t) PROVE TypeOK'
    BY <1>4 DEF ExtractCheck, Goto, TypeOK, PCs
  <1>5. ASSUME NEW t \in Threads, ExtractWait(t) PROVE TypeOK'
    BY <1>5 DEF ExtractWait, Goto, TypeOK, PCs
  <1>6. ASSUME NEW t \in Threads, ExtractTake(t) PROVE TypeOK'
    <2>1. /\ storage[key[t]] \in Seq(Values)
          /\ storage[key[t]] # << >>
      BY <1>6 DEF ExtractTake, TypeOK, CheckStillGood
    <2>2. /\ storage[key[t]][Len(storage[key[t]])] \in Values
          /\ SubSeq(storage[key[t]], 1, Len(storage[key[t]]) - 1) \in Seq(Values)
      BY <2>1, FrontLast
    <2> QED
      BY <1>6, <2>2 DEF ExtractTake, Goto, TypeOK, PCs
  <1>7. ASSUME NEW t \in Threads, AddLock(t) PROVE TypeOK'
    BY <1>7 DEF AddLock, Acquire, Goto, TypeOK, PCs
  <1>8. ASSUME NEW t \in Threads, AddPush(t) PROVE TypeOK'
    <2>1. Append(storage[key[t]], value[t]) \in Seq(Values)
      BY <1>8 DEF AddPush, TypeOK
    <2> QED
      BY <1>8, <2>1 DEF AddPush, Goto, TypeOK, PCs
  <1>9. ASSUME NEW t \in Threads, AddNotify(t) PROVE TypeOK'
    BY <1>9 DEF AddNotify, TypeOK, PCs
  <1>10. ASSUME NEW t \in Threads, SpuriousWakeup(t) PROVE TypeOK'
    BY <1>10 DEF SpuriousWakeup, Goto, TypeOK, PCs
  <1>11. CASE UNCHANGED vars
    BY <1>11 DEF vars, TypeOK
  <1> QED
    BY <1>1, <1>2, <1>3, <1>4, <1>5, <1>6, <1>7, <1>8, <1>9, <1>10, <1>11
       DEF Next, Step, Quiet

\* The mutex keeps the evaluated predicate true or false until it is used.
LEMMA CheckStep == TypeOK /\ CheckStillGood /\ [Next]_vars => CheckStillGood'
  <1> SUFFICES ASSUME TypeOK, CheckStillGood, [Next]_vars PROVE CheckStillGood'
    OBVIOUS
  <1> USE StorageAssumption DEF TypeOK, CheckStillGood
  <1>1. ASSUME NEW t \in Threads, NEW k \in Keys, CallExtract(t, k) PROVE CheckStillGood'
    BY <1>1 DEF CallExtract, Call, Goto
  <1>2. ASSUME NEW t \in Threads, NEW k \in Keys, NEW v \in Values, CallAddValue(t, k, v)
        PROVE  CheckStillGood'
    BY <1>2 DEF CallAddValue, Call, Goto
  <1>3. ASSUME NEW t \in Threads, ExtractLock(t) \/ AddLock(t) PROVE CheckStillGood'
    BY <1>3 DEF ExtractLock, AddLock, Acquire, Goto
  <1>4. ASSUME NEW t \in Threads, ExtractCheck(t) PROVE CheckStillGood'
    BY <1>4 DEF ExtractCheck, Goto
  <1>5. ASSUME NEW t \in Threads, ExtractWait(t) PROVE CheckStillGood'
    BY <1>5 DEF ExtractWait, Goto
  <1>6. ASSUME NEW t \in Threads, ExtractTake(t) PROVE CheckStillGood'
    <2>1. \A u \in Threads \ {t} : pc[u] \notin {"check", "sleep", "take", "push"}
      BY <1>6 DEF ExtractTake
    <2> QED
      BY <1>6, <2>1 DEF ExtractTake, Goto
  <1>7. ASSUME NEW t \in Threads, AddPush(t) PROVE CheckStillGood'
    <2>1. \A u \in Threads \ {t} : pc[u] \notin {"check", "sleep", "take", "push"}
      BY <1>7 DEF AddPush
    <2> QED
      BY <1>7, <2>1 DEF AddPush, Goto
  <1>8. ASSUME NEW t \in Threads, AddNotify(t) PROVE CheckStillGood'
    BY <1>8 DEF AddNotify
  <1>9. ASSUME NEW t \in Threads, SpuriousWakeup(t) PROVE CheckStillGood'
    BY <1>9 DEF SpuriousWakeup, Goto
  <1>10. CASE UNCHANGED vars
    BY <1>10 DEF vars
  <1> QED
    BY <1>1, <1>2, <1>3, <1>4, <1>5, <1>6, <1>7, <1>8, <1>9, <1>10 DEF Next, Step, Quiet

\* The lists stay lists of launchers, because what extract found under the lock still
\* holds when it reads back().
THEOREM StorageInvariant == Spec => [](TypeOK /\ CheckStillGood)
  <1>1. Init => TypeOK /\ CheckStillGood
    BY StorageAssumption DEF Init, TypeOK, CheckStillGood, PCs
  <1> QED
    BY <1>1, TypeStep, CheckStep, PTL DEF Spec

\* Every list of the storage holds launchers, and every thread is at a place of extract
\* or addValue with the key and the launcher of its call.
THEOREM StorageTypeCorrect == Spec => []TypeOK
  BY StorageInvariant, PTL

\* The list whose back() extract reads is not empty.
THEOREM StorageCheckStillGood == Spec => []CheckStillGood
  BY StorageInvariant, PTL

-----------------------------------------------------------------------------

\* Only addValue makes a list non-empty, and it then has a notify_all to do.
LEMMA WakeupStep ==
    TypeOK /\ CheckStillGood /\ NoLostWakeup /\ [Next]_vars => NoLostWakeup'
  <1> SUFFICES ASSUME TypeOK, CheckStillGood, NoLostWakeup, [Next]_vars,
                      NEW w \in Threads, pc'[w] = "waiting", storage'[key'[w]] # << >>
               PROVE  \E u \in Threads : pc'[u] = "notify"
    BY DEF NoLostWakeup
  <1> USE DEF TypeOK
  \* A thread that slept before has a notifier; that one stays until it notifies.
  <1>1. ASSUME pc[w] = "waiting", storage[key[w]] # << >>
        PROVE  \E u \in Threads : pc[u] = "notify"
    BY <1>1 DEF NoLostWakeup
  <1>2. ASSUME NEW t \in Threads, NEW k \in Keys,
               \/ CallExtract(t, k)
               \/ \E v \in Values : CallAddValue(t, k, v)
        PROVE  \E u \in Threads : pc'[u] = "notify"
    BY <1>1, <1>2 DEF CallExtract, CallAddValue, Call, Goto
  <1>3. ASSUME NEW t \in Threads, ExtractLock(t) \/ AddLock(t)
        PROVE  \E u \in Threads : pc'[u] = "notify"
    BY <1>1, <1>3 DEF ExtractLock, AddLock, Acquire, Goto
  <1>4. ASSUME NEW t \in Threads, ExtractCheck(t)
        PROVE  \E u \in Threads : pc'[u] = "notify"
    BY <1>1, <1>4 DEF ExtractCheck, Goto
  <1>5. ASSUME NEW t \in Threads, ExtractWait(t)
        PROVE  \E u \in Threads : pc'[u] = "notify"
    BY <1>1, <1>5 DEF ExtractWait, Goto, CheckStillGood
  <1>6. ASSUME NEW t \in Threads, ExtractTake(t)
        PROVE  \E u \in Threads : pc'[u] = "notify"
    <2>1. pc[w] = "waiting"
      BY <1>6 DEF ExtractTake, Goto
    <2>2. storage[key[w]] # << >>
      BY <1>6 DEF ExtractTake, Goto, CheckStillGood
    <2> QED
      BY <1>1, <1>6, <2>1, <2>2 DEF ExtractTake, Goto
  <1>7. ASSUME NEW t \in Threads, AddPush(t)
        PROVE  \E u \in Threads : pc'[u] = "notify"
    BY <1>7 DEF AddPush, Goto
  <1>8. ASSUME NEW t \in Threads, AddNotify(t)
        PROVE  \E u \in Threads : pc'[u] = "notify"
    BY <1>8 DEF AddNotify
  <1>9. ASSUME NEW t \in Threads, SpuriousWakeup(t)
        PROVE  \E u \in Threads : pc'[u] = "notify"
    BY <1>1, <1>9 DEF SpuriousWakeup, Goto
  <1>10. CASE UNCHANGED vars
    BY <1>1, <1>10 DEF vars
  <1> QED
    BY <1>2, <1>3, <1>4, <1>5, <1>6, <1>7, <1>8, <1>9, <1>10 DEF Next, Step, Quiet

\* No wake-up of storageFree is ever lost.
THEOREM WakeupsArrive == Spec => []NoLostWakeup
  <1>1. Init => NoLostWakeup
    BY DEF Init, NoLostWakeup
  <1> QED
    BY <1>1, WakeupStep, StorageInvariant, PTL DEF Spec

-----------------------------------------------------------------------------

\* Launchers move between the lists and the threads; none is copied.
LEMMA OwnerStep ==
    TypeOK /\ CheckStillGood /\ SingleOwner /\ [Next]_vars => SingleOwner'
  <1> SUFFICES ASSUME TypeOK, CheckStillGood, SingleOwner, [Next]_vars
               PROVE  SingleOwner'
    OBVIOUS
  <1> USE StorageAssumption
  \* SingleOwner by positions.
  <1> DEFINE Apart == \A k1, k2 \in Keys :
                        \A i \in 1..Len(storage[k1]), j \in 1..Len(storage[k2]) :
                          storage[k1][i] = storage[k2][j] => k1 = k2 /\ i = j
             Off   == \A t \in Threads : value[t] \in Values =>
                        \A k \in Keys : \A i \in 1..Len(storage[k]) : storage[k][i] # value[t]
             Alone == \A t, u \in Threads : value[t] \in Values /\ t # u => value[u] # value[t]
  <1>0. TypeOK'
    BY TypeStep
  <1>1. Apart /\ Off /\ Alone
    BY DEF SingleOwner, Unowned, TypeOK
  <1>2. ASSUME Apart', Off', Alone' PROVE SingleOwner'
    BY <1>2 DEF SingleOwner, Unowned
  <1>3. ASSUME NEW t \in Threads, NEW k \in Keys, CallExtract(t, k) PROVE SingleOwner'
    <2>1. value' = [value EXCEPT ![t] = NoValue] /\ storage' = storage
      BY <1>3 DEF CallExtract, Call
    <2>2. /\ value'[t] \notin Values
          /\ \A u \in Threads : u # t => value'[u] = value[u]
      BY <2>1 DEF TypeOK
    <2>3. Off' /\ Alone'
      BY <1>1, <2>1, <2>2
    <2> QED
      BY <1>1, <1>2, <2>1, <2>3
  <1>4. ASSUME NEW t \in Threads, NEW k \in Keys, NEW v \in Values, CallAddValue(t, k, v)
        PROVE  SingleOwner'
    <2>1. value' = [value EXCEPT ![t] = v] /\ storage' = storage
      BY <1>4 DEF CallAddValue, Call
    <2>2. /\ \A j \in Keys : \A i \in 1..Len(storage[j]) : storage[j][i] # v
          /\ \A u \in Threads \ {t} : value[u] # v
      BY <1>4 DEF CallAddValue, Unowned
    <2>3. Off' /\ Alone'
      BY <1>1, <2>1, <2>2 DEF TypeOK
    <2> QED
      BY <1>1, <1>2, <2>1, <2>3
  <1>5. ASSUME NEW t \in Threads, ExtractTake(t) PROVE SingleOwner'
    <2> DEFINE k == key[t]
               n == Len(storage[k])
               rest == SubSeq(storage[k], 1, n - 1)
    <2>1. /\ k \in Keys /\ storage[k] \in Seq(Values) /\ storage[k] # << >>
          /\ value' = [value EXCEPT ![t] = storage[k][n]]
          /\ storage' = [storage EXCEPT ![k] = rest]
      BY <1>5 DEF ExtractTake, TypeOK, CheckStillGood
    <2>2. /\ n \in Nat \ {0}
          /\ storage[k][n] \in Values
          /\ Len(rest) = n - 1
          /\ \A i \in 1..n - 1 : rest[i] = storage[k][i]
      BY <2>1, FrontLast
    <2>3. \A j \in Keys : \A i \in 1..Len(storage'[j]) :
            /\ i \in 1..Len(storage[j])
            /\ storage'[j][i] = storage[j][i]
            /\ j = k => i # n
      <3> SUFFICES ASSUME NEW j \in Keys, NEW i \in 1..Len(storage'[j])
                   PROVE  /\ i \in 1..Len(storage[j])
                          /\ storage'[j][i] = storage[j][i]
                          /\ j = k => i # n
        OBVIOUS
      <3>1. CASE j = k
        <4>1. storage'[j] = rest
          BY <2>1, <3>1 DEF TypeOK
        <4> QED
          BY <2>2, <3>1, <4>1
      <3>2. CASE j # k
        BY <2>1, <3>2 DEF TypeOK
      <3> QED
        BY <3>1, <3>2
    <2>4. Apart'
      BY <1>1, <2>3
    <2>5. n \in 1..n
      BY <2>2
    <2>6. \A u \in Threads : u # t => value'[u] = value[u] /\ value[u] # storage[k][n]
      BY <1>1, <2>1, <2>2, <2>5 DEF TypeOK
    <2>7. value'[t] = storage[k][n]
      BY <2>1 DEF TypeOK
    <2>8. Alone'
      BY <1>1, <2>6, <2>7
    <2>9. \A j \in Keys : \A i \in 1..Len(storage'[j]) : storage'[j][i] # storage[k][n]
      <3> SUFFICES ASSUME NEW j \in Keys, NEW i \in 1..Len(storage'[j]),
                          storage[j][i] = storage[k][n]
                   PROVE  FALSE
        BY <2>2, <2>3
      <3>1. Apart /\ k \in Keys /\ i \in 1..Len(storage[j])
        BY <1>1, <2>1, <2>3
      <3> HIDE DEF n, k
      <3>2. j = k /\ i = n
        <4>1. \A m \in 1..Len(storage[k]) : storage[j][i] = storage[k][m] => j = k /\ i = m
          BY <3>1
        <4> QED
          BY <2>5, <4>1 DEF n
      <3> QED
        BY <2>3, <3>2
    <2>10. Off'
      BY <1>1, <2>3, <2>6, <2>7, <2>9
    <2> QED
      BY <1>2, <2>4, <2>8, <2>10
  <1>6. ASSUME NEW t \in Threads, AddPush(t) PROVE SingleOwner'
    <2> DEFINE k == key[t]
               n == Len(storage[k])
    <2>1. /\ k \in Keys /\ storage[k] \in Seq(Values) /\ value[t] \in Values
          /\ value' = [value EXCEPT ![t] = NoValue]
          /\ storage' = [storage EXCEPT ![k] = Append(storage[k], value[t])]
      BY <1>6 DEF AddPush, TypeOK
    <2>2. /\ n \in Nat
          /\ Len(Append(storage[k], value[t])) = n + 1
          /\ \A i \in 1..n : Append(storage[k], value[t])[i] = storage[k][i]
          /\ Append(storage[k], value[t])[n + 1] = value[t]
      BY <2>1
    <2>3. \A j \in Keys : \A i \in 1..Len(storage'[j]) :
            \/ i \in 1..Len(storage[j]) /\ storage'[j][i] = storage[j][i]
            \/ j = k /\ i = n + 1 /\ storage'[j][i] = value[t]
      <3> SUFFICES ASSUME NEW j \in Keys, NEW i \in 1..Len(storage'[j])
                   PROVE  \/ i \in 1..Len(storage[j]) /\ storage'[j][i] = storage[j][i]
                          \/ j = k /\ i = n + 1 /\ storage'[j][i] = value[t]
        OBVIOUS
      <3>1. CASE j = k
        <4>1. storage'[j] = Append(storage[k], value[t])
          BY <2>1, <3>1 DEF TypeOK
        <4>2. i \in 1..n \/ i = n + 1
          BY <2>2, <4>1
        <4> QED
          BY <2>2, <3>1, <4>1, <4>2
      <3>2. CASE j # k
        BY <2>1, <3>2 DEF TypeOK
      <3> QED
        BY <3>1, <3>2
    <2>4. Apart'
      BY <1>1, <2>1, <2>3
    <2>5. /\ value'[t] = NoValue
          /\ \A u \in Threads : u # t => value'[u] = value[u]
      BY <2>1 DEF TypeOK
    <2>6. Alone'
      BY <1>1, <2>5
    <2>7. Off'
      BY <1>1, <2>1, <2>3, <2>5
    <2> QED
      BY <1>2, <2>4, <2>6, <2>7
  <1>7. ASSUME UNCHANGED <<storage, value>> PROVE SingleOwner'
    BY <1>7 DEF SingleOwner, Unowned
  <1>8. ASSUME NEW t \in Threads,
               \/ ExtractLock(t) \/ ExtractCheck(t) \/ ExtractWait(t)
               \/ AddLock(t) \/ AddNotify(t) \/ SpuriousWakeup(t)
        PROVE  SingleOwner'
    BY <1>7, <1>8 DEF ExtractLock, ExtractCheck, ExtractWait, AddLock, Acquire, AddNotify,
                      SpuriousWakeup
  <1>9. CASE UNCHANGED vars
    BY <1>7, <1>9 DEF vars
  <1> QED
    BY <1>3, <1>4, <1>5, <1>6, <1>8, <1>9 DEF Next, Step, Quiet

\* A launcher is never in two lists, twice in a list, with two threads, or in a
\* list and with a thread.
THEOREM LaunchersHaveOneOwner == Spec => []SingleOwner
  <1>1. Init => SingleOwner
    BY StorageAssumption, InitPoolAssumption DEF Init, SingleOwner, Unowned
  <1> QED
    BY <1>1, OwnerStep, StorageInvariant, PTL DEF Spec

-----------------------------------------------------------------------------

\* The abstract call that each place of a thread's code belongs to.
LEMMA CallOf ==
    /\ Call2Pool("idle") = "none"
    /\ Call2Pool("lock") = "extract"
    /\ Call2Pool("check") = "extract"
    /\ Call2Pool("sleep") = "extract"
    /\ Call2Pool("take") = "extract"
    /\ Call2Pool("waiting") = "extract"
    /\ Call2Pool("addLock") = "add"
    /\ Call2Pool("push") = "add"
    /\ Call2Pool("notify") = "added"
  BY DEF Call2Pool

\* A thread that moves changes its own abstract call only.
LEMMA CallStep ==
    ASSUME NEW t \in Threads, NEW w, pc \in [Threads -> PCs], pc' = [pc EXCEPT ![t] = w]
    PROVE  [u \in Threads |-> Call2Pool(pc[u])]' =
             [[u \in Threads |-> Call2Pool(pc[u])] EXCEPT ![t] = Call2Pool(w)]
  BY Zenon

\* The atomic step a step of the threads stands for, given that the predicate
\* is still good.
LEMMA PoolStep ==
    TypeOK /\ CheckStillGood /\ [Next]_vars => [Pool!PoolNext]_(Pool!poolVars)
  <1> SUFFICES ASSUME TypeOK, CheckStillGood, [Next]_vars
               PROVE  [Pool!PoolNext]_(Pool!poolVars)
    OBVIOUS
  <1>0. pc \in [Threads -> PCs]
    BY DEF TypeOK
  <1>1. ASSUME NEW t \in Threads, NEW k \in Keys, CallExtract(t, k)
        PROVE  Pool!BeginExtract(t, k)
    BY <1>0, <1>1, CallOf, CallStep, Zenon
       DEF CallExtract, Call, Goto, Pool!BeginExtract, Pool!Begin
  <1>2. ASSUME NEW t \in Threads, NEW k \in Keys, NEW v \in Values, CallAddValue(t, k, v)
        PROVE  Pool!BeginAdd(t, k, v)
    BY <1>0, <1>2, CallOf, CallStep, Zenon
       DEF CallAddValue, Unowned, Call, Goto, Pool!BeginAdd, Pool!Begin
  <1>3. ASSUME NEW t \in Threads, ExtractTake(t) PROVE Pool!Extract(t)
    <2>1. pc' = [pc EXCEPT ![t] = "idle"] /\ pc[t] = "take" /\ storage[key[t]] # << >>
      BY <1>3 DEF ExtractTake, Goto, CheckStillGood
    <2>2. [u \in Threads |-> Call2Pool(pc[u])]' =
             [[u \in Threads |-> Call2Pool(pc[u])] EXCEPT ![t] = "none"]
      BY <1>0, <2>1, CallStep, CallOf, Zenon
    <2> QED
      BY <1>3, <2>1, <2>2, CallOf DEF ExtractTake, Pool!Extract
  <1>4. ASSUME NEW t \in Threads, AddPush(t) PROVE Pool!Add(t)
    <2>1. pc' = [pc EXCEPT ![t] = "notify"] /\ pc[t] = "push"
      BY <1>4 DEF AddPush, Goto
    <2>2. [u \in Threads |-> Call2Pool(pc[u])]' =
             [[u \in Threads |-> Call2Pool(pc[u])] EXCEPT ![t] = "added"]
      BY <1>0, <2>1, CallStep, CallOf, Zenon
    <2> QED
      BY <1>4, <2>1, <2>2, CallOf DEF AddPush, Pool!Add
  <1>5. ASSUME NEW t \in Threads, AddNotify(t) PROVE Pool!Return(t)
    <2>1. \A u \in Threads :
            Call2Pool(pc'[u]) = IF u = t THEN "none" ELSE Call2Pool(pc[u])
      BY <1>0, <1>5, CallOf DEF AddNotify
    <2>2. Call2Pool(pc[t]) = "added"
      BY <1>5, CallOf DEF AddNotify
    <2> QED
      BY <1>5, <2>1, <2>2, Zenon DEF AddNotify, Pool!Return
  <1>6. ASSUME NEW t \in Threads,
               \/ ExtractLock(t) \/ ExtractCheck(t) \/ ExtractWait(t)
               \/ AddLock(t) \/ SpuriousWakeup(t)
        PROVE  UNCHANGED Pool!poolVars
    <2>1. /\ \E w \in PCs : /\ pc' = [pc EXCEPT ![t] = w]
                            /\ Call2Pool(w) = Call2Pool(pc[t])
          /\ UNCHANGED <<storage, key, value, calls>>
      BY <1>6, CallOf DEF ExtractLock, ExtractCheck, ExtractWait, AddLock, Acquire,
                          SpuriousWakeup, Goto, PCs
    <2>2. \A u \in Threads : Call2Pool(pc'[u]) = Call2Pool(pc[u])
      BY <1>0, <2>1
    <2> QED
      BY <2>1, <2>2 DEF Pool!poolVars
  <1>7. CASE UNCHANGED vars
    BY <1>7 DEF vars, Pool!poolVars
  <1> QED
    BY <1>1, <1>2, <1>3, <1>4, <1>5, <1>6, <1>7 DEF Next, Step, Quiet, Pool!PoolNext

\* extract and addValue implement the atomic operations of LauncherPool: what
\* RestartingProvider takes for granted (the fairness part is left to TLC).
THEOREM StorageImplementsPool == Spec => Pool!PoolSpec
  <1>1. Init => Pool!PoolInit
    BY DEF Init, Call2Pool, Pool!PoolInit
  <1> QED
    BY <1>1, PoolStep, StorageInvariant, PTL DEF Spec, Pool!PoolSpec
=============================================================================
