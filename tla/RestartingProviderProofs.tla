--------------------- MODULE RestartingProviderProofs -----------------------
(***************************************************************************)
(* The inductive invariant of RestartingProvider, and what follows from it: *)
(* a container is in one place, has the image of its language and the files *)
(* of its user only, and containers of others are not touched.             *)
(***************************************************************************)
EXTENDS RestartingProviderSteps

USE Constants

-----------------------------------------------------------------------------
(* What the steps do to places and containers.                             *)

\* No container moves, except that a request may let go of its own and that an
\* operation may end.
SamePlaces ==
    /\ UNCHANGED <<storage, made, held, entry>>
    /\ op'.stage = "add" => op' = op
    /\ \A r \in Requests : pc'[r] \in Holding => pc[r] \in Holding

\* Every container keeps its image and files, and none disappears.
SameContainers ==
    /\ UNCHANGED served
    /\ \A id \in Ids :
         /\ containers'[id].image = containers[id].image
         /\ containers'[id].status = "unused" <=> containers[id].status = "unused"
         /\ Exists(id) => Exists(id)'

\* The steps that neither move, make, remove nor use a container.
Quiet ==
    \/ ListContainers \/ (\E id \in Ids : SweepNext(id)) \/ SweepDone \/ CreateNext \/ BootDone
    \/ TakeTask \/ RemoveIsRunning \/ RemoveKill
    \/ \E r \in Requests :
         \/ Accept(r) \/ Dispatch(r) \/ RejectNoSources(r) \/ RejectWrongType(r)
         \/ getInfo(r) \/ runCode(r) \/ ScheduleRemove(r) \/ ScheduleCreate(r) \/ Reply(r)
    \/ \E id \in Ids : Exit(id)
    \/ UNCHANGED vars

\* The other steps.
LEMMA StepCases ==
    ASSUME [Next]_vars
    PROVE  \/ Quiet \/ addValues \/ RemoveDelete \/ CreateRun \/ CreateAdd \/ Crash
           \/ \E r \in Requests : extract(r) \/ prepareCode(r)
  BY Zenon DEF Next, Startup, Manipulator, Serve, Finished, Quiet

\* Where a request is after the end of an operation.
LEMMA OpDonePc ==
    ASSUME TypeOK, NEW where \in {"removed", "reply"}, OpDone(where)
    PROVE  \A r \in Requests : pc'[r] \in Holding => pc[r] \in Holding
  BY DEF TypeOK, OpDone, Holding

\* Quiet steps leave every container in its place.
LEMMA QuietPlaces == ASSUME TypeOK, Quiet PROVE SamePlaces
  <1> USE DEF SamePlaces, dockerVars, bootVars, storageVars, requestVars, lifeVars
  <1>1. CASE \/ ListContainers \/ (\E id \in Ids : SweepNext(id)) \/ SweepDone \/ CreateNext
             \/ BootDone
    BY <1>1 DEF ListContainers, SweepNext, SweepDone, CreateNext, BootDone
  <1>2. CASE TakeTask
    <2>1. Head(queue) \in Task
      BY <1>2 DEF TakeTask, TypeOK
    <2> QED
      BY <1>2, <2>1, Zenon DEF TakeTask, Task
  <1>3. CASE RemoveIsRunning \/ RemoveKill
    <2>1. op'.stage \in {"kill", "remove"} /\ UNCHANGED <<storage, made, held, entry, pc>>
      BY <1>3, Zenon DEF RemoveIsRunning, RemoveKill, TypeOK
    <2> QED
      BY <2>1
  <1>4. CASE (\E id \in Ids : Exit(id)) \/ UNCHANGED vars
    BY <1>4, Zenon DEF Exit, vars
  <1>5. ASSUME NEW r \in Requests,
               \/ Accept(r) \/ Dispatch(r) \/ RejectNoSources(r) \/ RejectWrongType(r)
               \/ getInfo(r) \/ runCode(r) \/ ScheduleRemove(r) \/ ScheduleCreate(r) \/ Reply(r)
        PROVE  SamePlaces
    <2>1. UNCHANGED <<storage, made, held, entry, op>>
      BY <1>5, Zenon DEF Accept, Dispatch, RejectNoSources, RejectWrongType, AnswerWithout,
         getInfo, runCode, ScheduleRemove, ScheduleCreate, Reply
    <2>2. \/ Goto(r, "queued") \/ Goto(r, "start") \/ Goto(r, "reply") \/ Goto(r, "creating")
          \/ Goto(r, "done")
          \/ pc[r] \in Holding /\ \E where : Goto(r, where)
      BY <1>5, Zenon DEF Accept, Dispatch, RejectNoSources, RejectWrongType, AnswerWithout,
         getInfo, runCode, ScheduleRemove, ScheduleCreate, Reply, Holding
    <2>3. \A q \in Requests : pc'[q] \in Holding => pc[q] \in Holding
      BY <2>2 DEF Goto, Holding, TypeOK
    <2> QED
      BY <2>1, <2>3, Zenon
  <1> QED
    BY <1>1, <1>2, <1>3, <1>4, <1>5, Zenon DEF Quiet

\* Quiet steps keep every container.
LEMMA QuietContainers == ASSUME TypeOK, Control, Quiet PROVE SameContainers
  <1> USE DEF dockerVars, bootVars, storageVars, requestVars, lifeVars
  <1>1. ASSUME UNCHANGED <<containers, served>> PROVE SameContainers
    BY <1>1 DEF SameContainers, Exists
  <1>2. CASE ListContainers \/ RemoveIsRunning
    <2>1. UNCHANGED <<containers, served>>
      BY <1>2, Zenon DEF ListContainers, RemoveIsRunning, getAllContainers, isRunning
    <2> QED
      BY <1>1, <2>1
  <1>3. CASE \/ (\E id \in Ids : SweepNext(id)) \/ SweepDone \/ CreateNext \/ BootDone
             \/ TakeTask \/ UNCHANGED vars
    <2>1. UNCHANGED <<containers, served>>
      BY <1>3, Zenon DEF SweepNext, SweepDone, CreateNext, BootDone, TakeTask, vars
    <2> QED
      BY <1>1, <2>1
  <1>4. CASE RemoveKill
    <2> USE <1>4
    <2>1. PICK id \in Ids : id = op.id
      BY Zenon DEF RemoveKill, Control, OpMatches, Removal
    <2>2. Keeps(id) /\ (Exists(id) => Exists(id)')
      BY <2>1, Killing, Zenon DEF RemoveKill
    <2>3. UNCHANGED served
      BY DEF RemoveKill
    <2> QED
      BY <2>2, <2>3, Zenon DEF SameContainers, Keeps
  <1>5. ASSUME NEW id \in Ids, Exit(id) PROVE SameContainers
    <2>1. ContainerExits(id) /\ UNCHANGED served
      BY <1>5 DEF Exit
    <2>2. Keeps(id) /\ (Exists(id) => Exists(id)')
      BY <2>1, Exiting, Zenon
    <2> QED
      BY <2>1, <2>2, Zenon DEF SameContainers, Keeps
  <1>6. ASSUME NEW r \in Requests,
               \/ Accept(r) \/ Dispatch(r) \/ RejectNoSources(r) \/ RejectWrongType(r)
               \/ ScheduleRemove(r) \/ ScheduleCreate(r) \/ Reply(r)
        PROVE  SameContainers
    <2>1. UNCHANGED <<containers, served>>
      BY <1>6, Zenon DEF Accept, Dispatch, RejectNoSources, RejectWrongType, AnswerWithout,
         ScheduleRemove, ScheduleCreate, Reply
    <2> QED
      BY <1>1, <2>1
  <1>7. ASSUME NEW r \in Requests, getInfo(r) \/ runCode(r) PROVE SameContainers
    <2>1. UNCHANGED <<containers, served>>
      BY <1>7, Zenon DEF getInfo, runCode, getImage, exec
    <2> QED
      BY <1>1, <2>1
  <1> QED
    BY <1>2, <1>3, <1>4, <1>5, <1>6, <1>7, Zenon DEF Quiet

\* Positions counted from the same offset.
LEMMA Cancel == ASSUME NEW a \in Int, NEW b \in Int, NEW c \in Nat, a - c = b - c PROVE a = b
  OBVIOUS

\* A position of the storage after addValues held the same container before, in the
\* same list or in the list of start-up.
LEMMA Splicing ==
    ASSUME TypeOK, addValues
    PROVE  /\ Entries[entry].language \in Languages
           /\ \A l \in Languages : \A k \in 1..Len(storage'[l]) :
                \/ k \in 1..Len(storage[l]) /\ storage'[l][k] = storage[l][k]
                \/ /\ l = Entries[entry].language
                   /\ k - Len(storage[l]) \in 1..Len(made)
                   /\ storage'[l][k] = made[k - Len(storage[l])]
  <1>1. /\ entry \in Nat \ {0} /\ entry <= Len(Entries)
        /\ storage \in [Languages -> Seq(Ids)] /\ made \in Seq(Ids)
        /\ storage' = [storage EXCEPT ![Entries[entry].language] =
                         storage[Entries[entry].language] \o made]
    BY Zenon DEF TypeOK, addValues
  <1>2. Entries[entry].language \in Languages
    BY <1>1, EntryAt, Zenon
  <1>3. ASSUME NEW l \in Languages, NEW k \in 1..Len(storage'[l])
        PROVE  \/ k \in 1..Len(storage[l]) /\ storage'[l][k] = storage[l][k]
               \/ /\ l = Entries[entry].language
                  /\ k - Len(storage[l]) \in 1..Len(made)
                  /\ storage'[l][k] = made[k - Len(storage[l])]
    <2>1. CASE l = Entries[entry].language
      <3>1. storage'[l] = storage[l] \o made /\ storage[l] \in Seq(Ids)
        BY <1>1, <2>1, Zenon
      <3>2. k \in 1..Len(storage[l] \o made)
        BY <3>1, Zenon
      <3>3. made \in Seq(Ids)
        BY <1>1, Zenon
      <3> QED
        BY <2>1, <3>1, <3>2, <3>3
    <2>2. CASE l # Entries[entry].language
      <3>1. storage'[l] = storage[l]
        BY <1>1, <2>2, Zenon
      <3> QED
        BY <3>1, Zenon
    <2> QED
      BY <2>1, <2>2, Zenon
  <1> QED
    BY <1>2, <1>3, Zenon

\* After addValue for a request the new launcher is at the end of one list.
LEMMA Adding ==
    ASSUME TypeOK, Control, CreateAdd, op.owner # Boot
    PROVE  /\ LanguageOf[op.owner] \in Languages
           /\ made' = made
           /\ \A l \in Languages : \A k \in 1..Len(storage'[l]) :
                \/ k \in 1..Len(storage[l]) /\ storage'[l][k] = storage[l][k]
                \/ /\ l = LanguageOf[op.owner]
                   /\ k = Len(storage[l]) + 1
                   /\ storage'[l][k] = op.id
  <1>1. /\ storage \in [Languages -> Seq(Ids)]
        /\ op.owner \in Requests
        /\ LanguageOf[op.owner] \in Languages
        /\ op.id \in Ids
    BY Zenon DEF TypeOK, CreateAdd, Control, OpMatches
  <1>2. /\ made' = made
        /\ storage' = [storage EXCEPT ![LanguageOf[op.owner]] = Append(@, op.id)]
    BY Zenon DEF CreateAdd
  <1>3. ASSUME NEW l \in Languages, NEW k \in 1..Len(storage'[l])
        PROVE  \/ k \in 1..Len(storage[l]) /\ storage'[l][k] = storage[l][k]
               \/ /\ l = LanguageOf[op.owner]
                  /\ k = Len(storage[l]) + 1
                  /\ storage'[l][k] = op.id
    <2>1. CASE l = LanguageOf[op.owner]
      <3>1. storage'[l] = Append(storage[l], op.id) /\ storage[l] \in Seq(Ids)
        BY <1>1, <1>2, <2>1, Zenon
      <3> QED
        BY <2>1, <3>1
    <2>2. CASE l # LanguageOf[op.owner]
      <3>1. storage'[l] = storage[l]
        BY <1>1, <1>2, <2>2, Zenon
      <3> QED
        BY <3>1, Zenon
    <2> QED
      BY <2>1, <2>2, Zenon
  <1> QED
    BY <1>1, <1>2, <1>3, Zenon

\* The same for the list of start-up.
LEMMA Listing ==
    ASSUME TypeOK, Control, CreateAdd, op.owner = Boot
    PROVE  /\ storage' = storage
           /\ pc' = pc
           /\ \A k \in 1..Len(made') :
                \/ k \in 1..Len(made) /\ made'[k] = made[k]
                \/ k = Len(made) + 1 /\ made'[k] = op.id
  <1>1. made \in Seq(Ids) /\ op.id \in Ids
    BY Zenon DEF TypeOK, CreateAdd, Control, OpMatches
  <1> storage' = storage /\ made' = Append(made, op.id) /\ pc' = pc
    BY Zenon DEF CreateAdd, OpDone
  <1>3. ASSUME NEW k \in 1..Len(made')
        PROVE  \/ k \in 1..Len(made) /\ made'[k] = made[k]
               \/ k = Len(made) + 1 /\ made'[k] = op.id
    BY <1>1, AppendAt, Zenon
  <1> QED
    BY <1>3, Zenon

-----------------------------------------------------------------------------
(* No container is in two places.                                          *)

\* Nothing moves.
LEMMA ApartSame == ASSUME Apart, SamePlaces PROVE Apart'
  BY DEF Apart, SamePlaces

\* No step puts a container in two places.
LEMMA ApartStep == IInv /\ [Next]_vars => Apart'
  <1> SUFFICES ASSUME IInv, [Next]_vars PROVE Apart'
    OBVIOUS
  <1> USE DEF storageVars
  <1> TypeOK /\ Control /\ Apart /\ Stocked /\ Lent
    BY DEF IInv
  <1>b. \A l1, l2 \in Languages :
          \A i \in 1..Len(storage[l1]), j \in 1..Len(storage[l2]) :
            storage[l1][i] = storage[l2][j] => l1 = l2 /\ i = j
    BY Zenon DEF Apart
  <1>c. \A l \in Languages : \A i \in 1..Len(storage[l]), j \in 1..Len(made) :
          storage[l][i] # made[j]
    BY Zenon DEF Apart
  <1>d. \A i, j \in 1..Len(made) : made[i] = made[j] => i = j
    BY Zenon DEF Apart
  <1> op.stage = "add" =>
        /\ \A l \in Languages : \A i \in 1..Len(storage[l]) : storage[l][i] # op.id
        /\ \A j \in 1..Len(made) : made[j] # op.id
    BY Zenon DEF Apart
  <1>1. CASE Quiet
    BY <1>1, QuietPlaces, ApartSame, Zenon
  <1>2. CASE RemoveDelete
    <2>1. /\ OpDone("removed") /\ op'.stage # "add"
          /\ UNCHANGED <<storage, made, held, entry>>
      BY <1>2, Zenon DEF RemoveDelete, OpDone, NoOp, bootVars
    <2>2. SamePlaces
      BY <2>1, OpDonePc, Zenon DEF SamePlaces
    <2> QED
      BY <2>2, ApartSame, Zenon
  <1>3. ASSUME NEW r \in Requests, prepareCode(r) PROVE Apart'
    <2>1. /\ UNCHANGED <<storage, made, held, entry, op>>
          /\ pc[r] \in Holding /\ \E where : Goto(r, where)
      BY <1>3, Zenon DEF prepareCode, bootVars, Holding
    <2>2. SamePlaces
      BY <2>1, Zenon DEF SamePlaces, Goto, TypeOK
    <2> QED
      BY <2>2, ApartSame, Zenon
  <1>4. CASE CreateRun
    <2>1. UNCHANGED <<storage, made, held, entry>>
      BY <1>4, Creating, Zenon
    <2>2. CASE op' = NoOp /\ OpDone("reply")
      <3>1. SamePlaces
        BY <2>1, <2>2, OpDonePc, Zenon DEF SamePlaces, NoOp
      <3> QED
        BY <3>1, ApartSame, Zenon
    <2>3. ASSUME NEW id \in Ids, op'.stage = "add", op'.id = id, UNCHANGED pc,
                 containers[id].status = "unused"
          PROVE  Apart'
      <3> USE <2>3
      <3>1. \A l \in Languages : \A i \in 1..Len(storage[l]) : storage[l][i] # id
        <4>1. \A l \in Languages : \A i \in 1..Len(storage[l]) : Exists(storage[l][i])
          BY Zenon DEF Stocked, Fresh
        <4> QED
          BY <4>1, Zenon DEF Exists
      <3>2. \A j \in 1..Len(made) : made[j] # id
        BY Zenon DEF Stocked, Fresh, Exists
      <3>3. \A r \in Requests : pc[r] \in Holding => held[r] # id
        BY Zenon DEF Lent, Exists
      <3> QED
        BY <2>1, <3>1, <3>2, <3>3 DEF Apart
    <2>4. \/ op' = NoOp /\ OpDone("reply")
          \/ \E id \in Ids : /\ op'.stage = "add" /\ op'.id = id /\ UNCHANGED pc
                             /\ containers[id].status = "unused"
      BY <1>4, Creating
    <2> QED
      BY <2>2, <2>3, <2>4, Zenon
  <1>5. CASE CreateAdd
    <2> USE <1>5
    <2> /\ op.stage = "add" /\ op'.stage # "add" /\ held' = held
        /\ \A r \in Requests : pc'[r] \in Holding => pc[r] \in Holding
      BY OpDonePc DEF CreateAdd, OpDone, NoOp
    <2>2. CASE op.owner = Boot
      <3> /\ storage' = storage
          /\ \A k \in 1..Len(made') :
               \/ k \in 1..Len(made) /\ made'[k] = made[k]
               \/ k = Len(made) + 1 /\ made'[k] = op.id
        BY <2>2, Listing, Zenon
      <3> QED
        BY DEF Apart
    <2>3. CASE op.owner # Boot
      <3> /\ made' = made
          /\ \A l \in Languages : \A k \in 1..Len(storage'[l]) :
               \/ k \in 1..Len(storage[l]) /\ storage'[l][k] = storage[l][k]
               \/ /\ l = LanguageOf[op.owner]
                  /\ k = Len(storage[l]) + 1
                  /\ storage'[l][k] = op.id
        BY <2>3, Adding, Zenon
      <3>2. \A l1, l2 \in Languages :
              \A i \in 1..Len(storage'[l1]), j \in 1..Len(storage'[l2]) :
                storage'[l1][i] = storage'[l2][j] => l1 = l2 /\ i = j
        <4> SUFFICES ASSUME NEW l1 \in Languages, NEW l2 \in Languages,
                            NEW i \in 1..Len(storage'[l1]), NEW j \in 1..Len(storage'[l2]),
                            storage'[l1][i] = storage'[l2][j]
                     PROVE  l1 = l2 /\ i = j
          BY Zenon
        <4>b. \/ j \in 1..Len(storage[l2]) /\ storage'[l2][j] = storage[l2][j]
              \/ /\ l2 = LanguageOf[op.owner] /\ j = Len(storage[l2]) + 1
                 /\ storage'[l2][j] = op.id
          BY Zenon
        <4>1. CASE i \in 1..Len(storage[l1]) /\ storage'[l1][i] = storage[l1][i]
          <5> USE <4>1
          <5>0. storage[l1][i] # op.id
            BY Zenon
          <5>1. j \in 1..Len(storage[l2]) /\ storage'[l2][j] = storage[l2][j]
            BY <5>0, Zenon
          <5>2. storage[l1][i] = storage[l2][j]
            BY <5>1, Zenon
          <5> QED
            BY <1>b, <5>1, <5>2
        <4>2. CASE storage'[l1][i] = op.id /\ l1 = LanguageOf[op.owner]
                   /\ i = Len(storage[l1]) + 1
          <5>1. ~(j \in 1..Len(storage[l2]) /\ storage'[l2][j] = storage[l2][j])
            BY <4>2, Zenon
          <5> QED
            BY <4>b, <4>2, <5>1, Zenon
        <4> QED
          BY <4>1, <4>2, Zenon
      <3> QED
        BY <3>2 DEF Apart
    <2> QED
      BY <2>2, <2>3, Zenon
  <1>6. CASE addValues
    <2> USE <1>6
    <2>1. /\ made' = << >> /\ op.stage = "idle"
          /\ UNCHANGED <<op, pc, held>>
      BY Zenon DEF addValues, requestVars
    <2>2. \A l \in Languages : \A k \in 1..Len(storage'[l]) :
            \/ k \in 1..Len(storage[l]) /\ storage'[l][k] = storage[l][k]
            \/ /\ l = Entries[entry].language
               /\ k - Len(storage[l]) \in 1..Len(made)
               /\ storage'[l][k] = made[k - Len(storage[l])]
      BY Splicing, Zenon
    <2>3. \A r \in Requests : pc[r] \notin Holding
      BY Zenon DEF addValues, Control, Alone, Holding, Ended
    <2>4. \A l1, l2 \in Languages :
            \A i \in 1..Len(storage'[l1]), j \in 1..Len(storage'[l2]) :
              storage'[l1][i] = storage'[l2][j] => l1 = l2 /\ i = j
      <3> SUFFICES ASSUME NEW l1 \in Languages, NEW l2 \in Languages,
                          NEW i \in 1..Len(storage'[l1]), NEW j \in 1..Len(storage'[l2]),
                          storage'[l1][i] = storage'[l2][j]
                   PROVE  l1 = l2 /\ i = j
        BY Zenon
      <3>1. CASE /\ i \in 1..Len(storage[l1]) /\ storage'[l1][i] = storage[l1][i]
                 /\ j \in 1..Len(storage[l2]) /\ storage'[l2][j] = storage[l2][j]
        <4>1. storage[l1][i] = storage[l2][j]
          BY <3>1, ZenonT(30)
        <4> QED
          BY <1>b, <3>1, <4>1
      <3>2. CASE /\ l1 = Entries[entry].language /\ l2 = Entries[entry].language
                 /\ i - Len(storage[l1]) \in 1..Len(made)
                 /\ storage'[l1][i] = made[i - Len(storage[l1])]
                 /\ j - Len(storage[l2]) \in 1..Len(made)
                 /\ storage'[l2][j] = made[j - Len(storage[l2])]
        <4> DEFINE n == i - Len(storage[l1])
                   m == j - Len(storage[l1])
        <4>0. n \in 1..Len(made) /\ m \in 1..Len(made) /\ made[n] = made[m]
          BY <3>2, Zenon
        <4>1. n = m
          BY <1>d, <4>0, Zenon
        <4>2. Len(storage[l1]) \in Nat
          OBVIOUS
        <4>3. i \in Int /\ j \in Int
          OBVIOUS
        <4>4. i = j
          BY <4>1, <4>2, <4>3, Cancel, Zenon
        <4> QED
          BY <3>2, <4>4, Zenon
      <3>3. CASE /\ i \in 1..Len(storage[l1]) /\ storage'[l1][i] = storage[l1][i]
                 /\ j - Len(storage[l2]) \in 1..Len(made)
                 /\ storage'[l2][j] = made[j - Len(storage[l2])]
        BY <1>c, <3>3, Zenon
      <3>4. CASE /\ i - Len(storage[l1]) \in 1..Len(made)
                 /\ storage'[l1][i] = made[i - Len(storage[l1])]
                 /\ j \in 1..Len(storage[l2]) /\ storage'[l2][j] = storage[l2][j]
        BY <1>c, <3>4, Zenon
      <3> QED
        BY <2>2, <3>1, <3>2, <3>3, <3>4, Zenon
    <2> QED
      BY <2>1, <2>3, <2>4 DEF Apart
  <1>7. ASSUME NEW r \in Requests, extract(r) PROVE Apart'
    <2> DEFINE v == storage[LanguageOf[r]]
    <2> /\ LanguageOf[r] \in Languages
        /\ Len(v) \in 1..Len(v)
        /\ held'[r] = v[Len(v)]
        /\ \A q \in Requests : q # r => held'[q] = held[q] /\ pc'[q] = pc[q]
        /\ \A l \in Languages : \A k \in 1..Len(storage'[l]) :
             /\ k \in 1..Len(storage[l]) /\ storage'[l][k] = storage[l][k]
             /\ l = LanguageOf[r] => k # Len(storage[l])
      BY <1>7, Extracting, Zenon
    <2> UNCHANGED <<made, op>>
      BY <1>7, Zenon DEF extract, bootVars
    <2>6. \A l \in Languages : \A i \in 1..Len(storage'[l]) : storage'[l][i] # held'[r]
      BY DEF Apart
    <2> \A q \in Requests : q # r /\ pc[q] \in Holding =>
          /\ \A l \in Languages : \A i \in 1..Len(storage'[l]) : storage'[l][i] # held[q]
          /\ held[q] # held'[r]
      BY DEF Apart
    <2>8. \A q \in Requests : q # r /\ pc[q] \in Holding =>
            /\ op.stage = "add" => op.id # held[q]
            /\ \A p \in Requests : pc[p] \in Holding /\ held[p] = held[q] => p = q
      BY Zenon DEF Apart
    <2>10. \A q \in Requests : pc'[q] \in Holding =>
             /\ \A l \in Languages : \A i \in 1..Len(storage'[l]) : storage'[l][i] # held'[q]
             /\ op'.stage = "add" => op'.id # held'[q]
             /\ \A p \in Requests : pc'[p] \in Holding /\ held'[p] = held'[q] => p = q
      <3> TAKE q \in Requests
      <3>1. CASE q = r
        BY <2>6, <3>1
      <3>2. CASE q # r
        <4> USE <3>2
        <4> SUFFICES ASSUME pc[q] \in Holding
                     PROVE  /\ \A l \in Languages :
                                 \A i \in 1..Len(storage'[l]) : storage'[l][i] # held[q]
                            /\ op.stage = "add" => op.id # held[q]
                            /\ \A p \in Requests : pc'[p] \in Holding /\ held'[p] = held[q] => p = q
          OBVIOUS
        <4> QED
          BY <2>8, Zenon
      <3> QED
        BY <3>1, <3>2, Zenon
    <2> QED
      BY <2>10 DEF Apart
  <1>8. CASE Crash
    <2>1. /\ made' = << >> /\ op'.stage # "add"
          /\ \A l \in Languages : storage'[l] = << >>
          /\ \A r \in Requests : pc'[r] \notin Holding
      BY <1>8, Zenon DEF Crash, NoOp, Holding
    <2> QED
      BY <2>1 DEF Apart
  <1> QED
    BY <1>1, <1>2, <1>3, <1>4, <1>5, <1>6, <1>7, <1>8, StepCases, Zenon

-----------------------------------------------------------------------------
(* Containers that wait to be handed out are fresh.                        *)

Kept(id) ==
    /\ containers'[id].status \in {"running", "exited"}
    /\ containers'[id].image = containers[id].image
    /\ served'[id] = served[id]

\* What Stocked says of one place, so that a step can be judged place by place.
LEMMA StockedAt ==
    ASSUME TypeOK, Control, Stocked
    PROVE  /\ \A l \in Languages : \A i \in 1..Len(storage[l]) :
                /\ storage[l][i] \in Ids /\ Placed(storage[l][i]) /\ Fresh(storage[l][i])
                /\ ConfiguredFor(l, containers[storage[l][i]].image)
           /\ \A j \in 1..Len(made) :
                /\ made[j] \in Ids /\ Placed(made[j]) /\ Fresh(made[j])
                /\ containers[made[j]].image = Entries[entry].imageName
           /\ op.stage = "add" =>
                /\ op.id \in Ids /\ Placed(op.id) /\ Fresh(op.id)
                /\ op.owner = Boot => containers[op.id].image = Entries[entry].imageName
                /\ op.owner # Boot =>
                     ConfiguredFor(LanguageOf[op.owner], containers[op.id].image)
  <1>1. \A l \in Languages : \A i \in 1..Len(storage[l]) : storage[l][i] \in Ids
    <2> TAKE l \in Languages
    <2>1. storage[l] \in Seq(Ids)
      BY Zenon DEF TypeOK
    <2> QED
      BY <2>1
  <1>2. \A j \in 1..Len(made) : made[j] \in Ids
    BY DEF TypeOK
  <1>3. op.stage = "add" => op.id \in Ids
    BY Zenon DEF Control, OpMatches
  <1> QED
    BY <1>1, <1>2, <1>3, Zenon DEF Stocked, Placed

\* A container that is kept stays fresh.
LEMMA StaysFresh ==
    ASSUME NEW id \in Ids, Fresh(id), Kept(id) PROVE Fresh(id)'
  BY DEF Fresh, Kept, Exists

\* Nothing moves, and what is in a place is kept.
LEMMA StockedSame ==
    ASSUME TypeOK, Control, Stocked, SamePlaces,
           \A id \in Ids : Placed(id) /\ Fresh(id) => Kept(id)
    PROVE  Stocked'
  <1>1. \A l \in Languages : \A i \in 1..Len(storage[l]) :
          /\ Fresh(storage[l][i])'
          /\ ConfiguredFor(l, containers'[storage[l][i]].image)
    <2> TAKE l \in Languages
    <2> TAKE i \in 1..Len(storage[l])
    <2> PICK id \in Ids : id = storage[l][i] /\ Fresh(id) /\ Placed(id)
                          /\ ConfiguredFor(l, containers[id].image)
      BY StockedAt, ZenonT(30)
    <2>4. storage'[l][i] = id
      BY Zenon DEF SamePlaces
    <2> QED
      BY <2>4, Zenon DEF Kept, Fresh, Exists
  <1>2. \A j \in 1..Len(made) :
          /\ Fresh(made[j])'
          /\ containers'[made[j]].image = Entries[entry].imageName
    <2> TAKE j \in 1..Len(made)
    <2> PICK id \in Ids : id = made[j] /\ Fresh(id) /\ Placed(id)
                          /\ containers[id].image = Entries[entry].imageName
      BY StockedAt, Zenon
    <2>4. made'[j] = id
      BY Zenon DEF SamePlaces
    <2> QED
      BY <2>4, Zenon DEF Kept, Fresh, Exists
  <1>3. ASSUME op'.stage = "add"
        PROVE  /\ Fresh(op.id)'
               /\ op.owner = Boot => containers'[op.id].image = Entries[entry].imageName
               /\ op.owner # Boot => ConfiguredFor(LanguageOf[op.owner], containers'[op.id].image)
    <2>1. op' = op
      BY <1>3, Zenon DEF SamePlaces
    <2> PICK id \in Ids :
          /\ id = op.id /\ Fresh(id) /\ Placed(id)
          /\ op.owner = Boot => containers[id].image = Entries[entry].imageName
          /\ op.owner # Boot => ConfiguredFor(LanguageOf[op.owner], containers[id].image)
      BY <1>3, <2>1, StockedAt, Zenon
    <2> QED
      BY <2>1, Zenon DEF Kept, Fresh, Exists
  <1>4. UNCHANGED <<storage, made, entry>> /\ (op'.stage = "add" => op' = op)
    BY Zenon DEF SamePlaces
  <1> QED
    BY <1>1, <1>2, <1>3, <1>4 DEF Stocked

\* The container of a request is in no other place.
LEMMA HeldNotPlaced ==
    ASSUME Control, Apart, phase = "serve",
           NEW r \in Requests, pc[r] \in Holding
    PROVE  ~Placed(held[r])
  <1>1. made = << >>
    BY DEF Control, ListsMatch
  <1> QED
    BY <1>1 DEF Apart, Placed

\* No step leaves a container in place that is gone, used or of another language.
LEMMA StockedStep == IInv /\ [Next]_vars => Stocked'
  <1> SUFFICES ASSUME IInv, [Next]_vars PROVE Stocked'
    OBVIOUS
  <1> TypeOK /\ Control /\ Apart /\ Stocked /\ Lent /\ Outside
    BY DEF IInv
  <1> /\ Alone /\ OpMatches /\ ListsMatch
      /\ op.owner \in Requests \cup {Boot}
      /\ entry \in Nat \ {0}
    BY Zenon DEF Control, TypeOK
  <1>1. CASE Quiet
    <2>1. SamePlaces /\ SameContainers
      BY <1>1, QuietPlaces, QuietContainers, Zenon
    <2>2. \A id \in Ids : Fresh(id) => Kept(id)
      BY <2>1, Zenon DEF SameContainers, Fresh, Kept, Exists
    <2> QED
      BY <2>1, <2>2, StockedSame, Zenon
  <1>2. CASE RemoveDelete
    <2> /\ OpDone("removed") /\ op'.stage # "add" /\ op.stage = "remove"
        /\ UNCHANGED <<storage, made, held, entry, served>>
      BY <1>2, Zenon DEF RemoveDelete, OpDone, NoOp, bootVars, storageVars
    <2>2. SamePlaces
      BY OpDonePc, Zenon DEF SamePlaces
    <2>3. PICK x \in Ids : x = op.id
      BY Zenon DEF OpMatches, Removal
    <2>4. Keeps(x)
      BY <1>2, <2>3, Deleting, Zenon DEF RemoveDelete
    <2>5. ~Placed(x)
      <3>1. CASE op.owner = Boot
        <4>1. phase = "sweep"
          BY <3>1, Zenon DEF OpMatches, Removal
        <4>2. made = << >> /\ \A l \in Languages : storage[l] = << >>
          BY <4>1, Zenon DEF ListsMatch
        <4> QED
          BY <4>2 DEF Placed
      <3>2. CASE op.owner # Boot
        <4>1. phase = "serve"
          BY <3>2, Zenon DEF Alone
        <4>2. op.owner \in Requests /\ pc[op.owner] \in Holding /\ x = held[op.owner]
          BY <2>3, <3>2, Zenon DEF OpMatches, Removal, Holding
        <4> QED
          BY <4>1, <4>2, HeldNotPlaced, Zenon
      <3> QED
        BY <3>1, <3>2, Zenon
    <2>6. \A id \in Ids : Placed(id) /\ Fresh(id) => Kept(id)
      <3> SUFFICES ASSUME NEW id \in Ids, Placed(id), Fresh(id) PROVE Kept(id)
        BY Zenon
      <3>1. containers'[id] = containers[id]
        BY <2>4, <2>5, Zenon DEF Keeps
      <3> QED
        BY <3>1, Zenon DEF Fresh, Exists, Kept
    <2> QED
      BY <2>2, <2>6, StockedSame, Zenon
  <1>3. ASSUME NEW r \in Requests, prepareCode(r) PROVE Stocked'
    <2> /\ UNCHANGED <<storage, made, held, entry, op, containers>>
        /\ served' = [served EXCEPT ![held[r]] = @ \cup {r}]
        /\ pc[r] = "putArchive"
      BY <1>3, Zenon DEF prepareCode, putArchive, bootVars, storageVars
    <2>2. pc[r] \in Holding /\ \E where : Goto(r, where)
      BY <1>3, Zenon DEF prepareCode, Holding
    <2>3. SamePlaces
      BY <2>2, Zenon DEF SamePlaces, Goto, TypeOK
    <2>4. phase = "serve"
      BY ActingRequest, Zenon
    <2>5. ~Placed(held[r])
      BY <2>2, <2>4, HeldNotPlaced, Zenon
    <2>6. \A id \in Ids : Placed(id) /\ Fresh(id) => Kept(id)
      <3> SUFFICES ASSUME NEW id \in Ids, Placed(id), Fresh(id) PROVE Kept(id)
        BY Zenon
      <3>1. id # held[r]
        BY <2>5, Zenon
      <3>2. served'[id] = served[id]
        BY <3>1, Zenon DEF TypeOK
      <3> QED
        BY <3>2, Zenon DEF Fresh, Exists, Kept
    <2> QED
      BY <2>3, <2>6, StockedSame, Zenon
  <1>4. CASE CreateRun
    <2> USE <1>4
    <2> /\ UNCHANGED <<storage, made, held, entry, served>>
        /\ \A c \in Ids : containers[c].status # "unused" => containers'[c] = containers[c]
      BY Creating, ZenonT(30)
    <2> \A id \in Ids : Fresh(id) => Kept(id)
      BY Zenon DEF Fresh, Exists, Kept
    <2>3. CASE op' = NoOp /\ OpDone("reply")
      <3>1. SamePlaces
        BY <2>3, OpDonePc, ZenonT(30) DEF SamePlaces, NoOp
      <3> QED
        BY <3>1, StockedSame, Zenon
    <2>4. ASSUME NEW id \in Ids,
                 op' = [stage |-> "add", id |-> id, owner |-> op.owner],
                 containers[id].status = "unused",
                 containers'[id].status \in {"running", "exited"},
                 containers'[id].image \in Images,
                 containers'[id].image = IF op.owner = Boot THEN Entries[entry].imageName
                                                            ELSE image[op.owner]
          PROVE  Stocked'
      <3> USE <2>4
      <3>1. served'[id] = {} /\ id \notin Foreign
        BY DEF Outside
      <3>2. op.owner # Boot => ConfiguredFor(LanguageOf[op.owner], containers'[id].image)
        <4>1. op.owner # Boot => op.owner \in Requests /\ pc[op.owner] = "creating"
          BY Creating, Zenon DEF OpMatches, Creation
        <4> QED
          BY <4>1 DEF Lent
      <3>3. \A l \in Languages : \A i \in 1..Len(storage[l]) :
              /\ Fresh(storage[l][i])'
              /\ ConfiguredFor(l, containers'[storage[l][i]].image)
        <4> TAKE l \in Languages
        <4> TAKE i \in 1..Len(storage[l])
        <4> PICK c \in Ids : c = storage[l][i] /\ Fresh(c) /\ ConfiguredFor(l, containers[c].image)
          BY StockedAt, ZenonT(30)
        <4>2. Kept(c) /\ Fresh(c)'
          BY StaysFresh, Zenon
        <4> QED
          BY <4>2, ZenonT(30) DEF Kept, Fresh, Exists
      <3>4. \A j \in 1..Len(made) :
              /\ Fresh(made[j])'
              /\ containers'[made[j]].image = Entries[entry].imageName
        <4> TAKE j \in 1..Len(made)
        <4> PICK c \in Ids : c = made[j] /\ Fresh(c)
                             /\ containers[c].image = Entries[entry].imageName
          BY StockedAt, Zenon
        <4> QED
          BY Zenon DEF Kept, Fresh, Exists
      <3>6. Fresh(op.id)'
        BY <3>1, Zenon DEF Fresh, Exists
      <3> QED
        BY <3>2, <3>3, <3>4, <3>6 DEF Stocked
    <2>5. \/ op' = NoOp /\ OpDone("reply")
          \/ \E id \in Ids :
               /\ op' = [stage |-> "add", id |-> id, owner |-> op.owner]
               /\ containers[id].status = "unused"
               /\ containers'[id].status \in {"running", "exited"}
               /\ containers'[id].image \in Images
               /\ containers'[id].image = IF op.owner = Boot THEN Entries[entry].imageName
                                                             ELSE image[op.owner]
      BY Creating, Zenon
    <2> QED
      BY <2>3, <2>4, <2>5, Zenon
  <1>5. CASE CreateAdd
    <2> USE <1>5
    <2> /\ op.stage = "add" /\ op'.stage # "add"
        /\ UNCHANGED <<containers, served, entry>>
      BY Zenon DEF CreateAdd, OpDone, NoOp, dockerVars
    <2>2. PICK id \in Ids :
            /\ id = op.id /\ Fresh(id)
            /\ op.owner = Boot => containers[id].image = Entries[entry].imageName
            /\ op.owner # Boot => ConfiguredFor(LanguageOf[op.owner], containers[id].image)
      BY StockedAt, ZenonT(30)
    <2>3. CASE op.owner = Boot
      <3>1. /\ storage' = storage
            /\ \A k \in 1..Len(made') :
                 \/ k \in 1..Len(made) /\ made'[k] = made[k]
                 \/ k = Len(made) + 1 /\ made'[k] = op.id
        BY <2>3, Listing, Zenon
      <3>2. \A l \in Languages : \A i \in 1..Len(storage'[l]) :
              /\ Fresh(storage[l][i])'
              /\ ConfiguredFor(l, containers'[storage'[l][i]].image)
        BY <3>1, ZenonT(30) DEF Stocked, Fresh, Exists
      <3>3. \A j \in 1..Len(made') :
              /\ Fresh(made[j])'
              /\ containers'[made'[j]].image = Entries[entry].imageName
        <4> TAKE j \in 1..Len(made')
        <4>1. PICK c \in Ids : c = made'[j] /\ Fresh(c)
                               /\ containers[c].image = Entries[entry].imageName
          BY <2>3, <3>1, StockedAt, Zenon
        <4> QED
          BY <4>1, Zenon DEF Fresh, Exists
      <3> QED
        BY <3>2, <3>3, Zenon DEF Stocked
    <2>4. CASE op.owner # Boot
      <3>1. /\ made' = made
            /\ \A l \in Languages : \A k \in 1..Len(storage'[l]) :
                 \/ k \in 1..Len(storage[l]) /\ storage'[l][k] = storage[l][k]
                 \/ /\ l = LanguageOf[op.owner]
                    /\ k = Len(storage[l]) + 1
                    /\ storage'[l][k] = op.id
        BY <2>4, Adding, Zenon
      <3>2. \A l \in Languages : \A i \in 1..Len(storage'[l]) :
              /\ Fresh(storage[l][i])'
              /\ ConfiguredFor(l, containers'[storage'[l][i]].image)
        <4> TAKE l \in Languages
        <4> TAKE i \in 1..Len(storage'[l])
        <4>1. PICK c \in Ids : c = storage'[l][i] /\ Fresh(c)
                               /\ ConfiguredFor(l, containers[c].image)
          BY <2>4, <3>1, StockedAt
        <4> QED
          BY <4>1, Zenon DEF Fresh, Exists
      <3>3. \A j \in 1..Len(made') :
              /\ Fresh(made[j])'
              /\ containers'[made'[j]].image = Entries[entry].imageName
        BY <3>1, ZenonT(30) DEF Stocked, Fresh, Exists
      <3> QED
        BY <3>2, <3>3, Zenon DEF Stocked
    <2> QED
      BY <2>3, <2>4, Zenon
  <1>6. CASE addValues
    <2> /\ made' = << >> /\ op'.stage # "add" /\ entry <= Len(Entries)
        /\ UNCHANGED <<containers, served>>
      BY <1>6, Zenon DEF addValues, dockerVars, requestVars
    <2>2. \A l \in Languages : \A k \in 1..Len(storage'[l]) :
            \/ k \in 1..Len(storage[l]) /\ storage'[l][k] = storage[l][k]
            \/ /\ l = Entries[entry].language
               /\ k - Len(storage[l]) \in 1..Len(made)
               /\ storage'[l][k] = made[k - Len(storage[l])]
      BY <1>6, Splicing, Zenon
    <2>3. ConfiguredFor(Entries[entry].language, Entries[entry].imageName)
      BY EntryAt, Zenon
    <2>4. \A l \in Languages : \A i \in 1..Len(storage'[l]) :
            /\ Fresh(storage[l][i])'
            /\ ConfiguredFor(l, containers'[storage'[l][i]].image)
      <3> TAKE l \in Languages
      <3> TAKE i \in 1..Len(storage'[l])
      <3>1. PICK c \in Ids : c = storage'[l][i] /\ Fresh(c)
                             /\ ConfiguredFor(l, containers[c].image)
        <4>1. CASE i \in 1..Len(storage[l]) /\ storage'[l][i] = storage[l][i]
          BY <4>1, StockedAt, Zenon
        <4>2. CASE /\ l = Entries[entry].language
                   /\ i - Len(storage[l]) \in 1..Len(made)
                   /\ storage'[l][i] = made[i - Len(storage[l])]
          BY <2>3, <4>2, StockedAt, Zenon
        <4> QED
          BY <2>2, <4>1, <4>2, Zenon
      <3> QED
        BY <3>1, Zenon DEF Fresh, Exists
    <2>5. 1..Len(made') = {}
      OBVIOUS
    <2> QED
      BY <2>4, <2>5, Zenon DEF Stocked
  <1>7. ASSUME NEW r \in Requests, extract(r) PROVE Stocked'
    <2>1. UNCHANGED <<containers, served, entry, made, op>>
      BY <1>7, Zenon DEF extract, dockerVars, bootVars
    <2>2. \A l \in Languages : \A k \in 1..Len(storage'[l]) :
            k \in 1..Len(storage[l]) /\ storage'[l][k] = storage[l][k]
      BY <1>7, Extracting
    <2>3. \A l \in Languages : \A i \in 1..Len(storage'[l]) :
            /\ Fresh(storage[l][i])'
            /\ ConfiguredFor(l, containers'[storage'[l][i]].image)
      <3> TAKE l \in Languages
      <3> TAKE i \in 1..Len(storage'[l])
      <3>1. PICK c \in Ids : c = storage'[l][i] /\ Fresh(c)
                             /\ ConfiguredFor(l, containers[c].image)
        <4>1. i \in 1..Len(storage[l]) /\ storage'[l][i] = storage[l][i]
          BY <2>2, Zenon
        <4> QED
          BY <4>1, StockedAt, ZenonT(30)
      <3> QED
        BY <2>1, <3>1, Zenon DEF Fresh, Exists
    <2> QED
      BY <2>1, <2>3 DEF Stocked, Fresh, Exists
  <1>8. CASE Crash
    <2>1. made' = << >> /\ op'.stage # "add" /\ \A l \in Languages : storage'[l] = << >>
      BY <1>8, Zenon DEF Crash, NoOp
    <2> QED
      BY <2>1 DEF Stocked
  <1> QED
    BY <1>1, <1>2, <1>3, <1>4, <1>5, <1>6, <1>7, <1>8, StepCases, Zenon

-----------------------------------------------------------------------------
(* A request's container has only its own files.                           *)

\* A request that does not act, or goes on without touching its container.
LEMMA LentSame ==
    ASSUME TypeOK, Control, NEW r \in Requests, LentTo(r),
           held'[r] = held[r], image'[r] = image[r],
           pc'[r] \in Holding => pc[r] \in Holding,
           pc'[r] \in Remembering => pc[r] \in Remembering,
           pc'[r] \in {"getInfo", "putArchive"} => pc[r] \in {"getInfo", "putArchive"},
           pc[r] \in Holding => served'[held[r]] = served[held[r]],
           pc'[r] \in Holding /\ Exists(held[r]) =>
             /\ containers'[held[r]].status \in {"running", "exited"}
             /\ containers'[held[r]].image = containers[held[r]].image
    PROVE  LentTo(r)'
  BY Zenon DEF LentTo, ConfiguredFor, Exists

\* A request keeps its container and image, and does not go back.
GoesOn(r) ==
    /\ held'[r] = held[r] /\ image'[r] = image[r]
    /\ pc'[r] \in Holding => pc[r] \in Holding
    /\ pc'[r] \in Remembering => pc[r] \in Remembering
    /\ pc'[r] \in {"getInfo", "putArchive"} => pc[r] \in {"getInfo", "putArchive"}
    /\ pc'[r] = "getInfo" => pc[r] = "getInfo"

\* Whoever is moved by the end of an operation goes on.
LEMMA OpDoneGoesOn ==
    ASSUME TypeOK, Control, op.stage # "idle",
           NEW where \in {"removed", "reply"}, OpDone(where),
           where = "removed" => op.stage \in Removal,
           NEW r \in Requests
    PROVE  GoesOn(r)
  <1>1. UNCHANGED <<held, image>>
    BY DEF OpDone
  <1>2. CASE r # op.owner
    <2>1. pc'[r] = pc[r]
      BY <1>2, Zenon DEF OpDone, TypeOK
    <2> QED
      BY <1>1, <2>1, Zenon DEF GoesOn
  <1>3. CASE r = op.owner
    <2>1. pc'[r] = where
      BY <1>3, Zenon DEF OpDone, TypeOK
    <2>2. where = "removed" => pc[r] = "removing"
      BY <1>3, Zenon DEF Control, OpMatches
    <2> QED
      BY <1>1, <2>1, <2>2, Zenon DEF GoesOn, Holding, Remembering
  <1> QED
    BY <1>2, <1>3

\* In a quiet step every request goes on, unless it asks for its image.
LEMMA QuietGoesOn ==
    ASSUME TypeOK, Quiet, NEW r \in Requests, ~getInfo(r)
    PROVE  GoesOn(r)
  <1> USE DEF dockerVars, bootVars, storageVars, requestVars, lifeVars
  <1> /\ pc \in [Requests -> {"new", "queued"} \cup Threaded \cup Ended]
      /\ image \in [Requests -> Images \cup {NoImage}]
    BY Zenon DEF TypeOK
  <1>1. ASSUME UNCHANGED <<pc, held, image>> PROVE GoesOn(r)
    BY <1>1, Zenon DEF GoesOn
  <1>2. CASE \/ ListContainers \/ (\E id \in Ids : SweepNext(id)) \/ SweepDone \/ CreateNext
             \/ BootDone \/ TakeTask
    BY <1>1, <1>2, Zenon DEF ListContainers, SweepNext, SweepDone, CreateNext, BootDone, TakeTask
  <1>3. CASE \/ RemoveIsRunning \/ RemoveKill \/ (\E id \in Ids : Exit(id)) \/ UNCHANGED vars
    BY <1>1, <1>3, Zenon DEF RemoveIsRunning, RemoveKill, Exit, vars
  <1>4. ASSUME NEW q \in Requests, NEW where, Goto(q, where), UNCHANGED <<held, image>>,
               where \in Holding => pc[q] \in Holding,
               where \in Remembering => pc[q] \in Remembering,
               where \notin {"getInfo", "putArchive"}
        PROVE  GoesOn(r)
    <2>1. CASE r = q
      BY <1>4, Zenon DEF GoesOn, Goto
    <2>2. CASE r # q
      BY <1>4, Zenon DEF GoesOn, Goto
    <2> QED
      BY <2>1, <2>2
  <1>5. ASSUME NEW q \in Requests,
               \/ Accept(q) \/ Dispatch(q) \/ RejectNoSources(q) \/ RejectWrongType(q) \/ Reply(q)
        PROVE  GoesOn(r)
    <2>1. /\ UNCHANGED <<held, image>>
          /\ \/ Goto(q, "queued") \/ Goto(q, "start") \/ Goto(q, "reply") \/ Goto(q, "done")
      BY <1>5, Zenon DEF Accept, Dispatch, RejectNoSources, RejectWrongType, AnswerWithout, Reply
    <2>2. \A where \in {"queued", "start", "reply", "done"} : where \notin Holding \cup Remembering
      BY DEF Holding, Remembering
    <2> QED
      BY <1>4, <2>1, <2>2, Zenon
  <1>6. ASSUME NEW q \in Requests, runCode(q) \/ ScheduleRemove(q) \/ ScheduleCreate(q)
        PROVE  GoesOn(r)
    <2>1. /\ UNCHANGED <<held, image>>
          /\ \/ Goto(q, "release") /\ pc[q] = "exec"
             \/ Goto(q, "removing") /\ pc[q] = "release"
             \/ Goto(q, "creating") /\ pc[q] = "removed"
      BY <1>6, Zenon DEF runCode, ScheduleRemove, ScheduleCreate
    <2> QED
      BY <1>4, <2>1, Zenon DEF Holding, Remembering
  <1>7. ASSUME NEW q \in Requests, getInfo(q) PROVE GoesOn(r)
    <2>1. PICK i : image' = [image EXCEPT ![q] = i]
      BY <1>7, Zenon DEF getInfo
    <2>2. q # r /\ Goto(q, "putArchive") /\ held' = held
      BY <1>7, Zenon DEF getInfo
    <2> QED
      BY <2>1, <2>2, Zenon DEF GoesOn, Goto
  <1> QED
    BY <1>2, <1>3, <1>5, <1>6, <1>7, Zenon DEF Quiet

\* So does it in every step but those in which it gets its container or asks for
\* the image, and a crash.
LEMMA StepGoesOn ==
    ASSUME TypeOK, Control, [Next]_vars, NEW r \in Requests
    PROVE  GoesOn(r) \/ getInfo(r) \/ extract(r) \/ Crash
  <1>1. CASE Quiet
    BY <1>1, QuietGoesOn
  <1>2. CASE addValues
    BY <1>2, Zenon DEF addValues, requestVars, GoesOn
  <1>3. CASE RemoveDelete
    BY <1>3, OpDoneGoesOn, Zenon DEF RemoveDelete, Removal
  <1>4. CASE CreateRun
    <2> op.stage = "run" /\ UNCHANGED <<held, image>> /\ (UNCHANGED pc \/ OpDone("reply"))
      BY <1>4, Creating, ZenonT(30)
    <2>2. CASE UNCHANGED pc
      BY <2>2, Zenon DEF GoesOn
    <2>3. CASE OpDone("reply")
      BY <2>3, OpDoneGoesOn, Zenon
    <2> QED
      BY <2>2, <2>3, Zenon
  <1>5. CASE CreateAdd
    BY <1>5, OpDoneGoesOn, Zenon DEF CreateAdd
  <1>6. ASSUME NEW q \in Requests, prepareCode(q) PROVE GoesOn(r)
    <2>1. /\ UNCHANGED <<held, image>> /\ pc[q] = "putArchive"
          /\ Goto(q, "exec") \/ Goto(q, "release")
      BY <1>6, Zenon DEF prepareCode
    <2> QED
      BY <2>1 DEF TypeOK, Goto, GoesOn, Holding, Remembering
  <1>7. ASSUME NEW q \in Requests, extract(q), q # r PROVE GoesOn(r)
    <2>1. held'[r] = held[r] /\ pc'[r] = pc[r]
      BY <1>7, Extracting, Zenon
    <2>2. image' = image
      BY <1>7, Zenon DEF extract
    <2> QED
      BY <2>1, <2>2, Zenon DEF GoesOn
  <1> QED
    BY <1>1, <1>2, <1>3, <1>4, <1>5, <1>6, <1>7, StepCases, Zenon

\* No step puts another's files into a request's container, takes it away, or
\* makes a request remember an image of another language.
LEMMA LentStep == IInv /\ [Next]_vars => Lent'
  <1>0. Lent' <=> \A r \in Requests : LentTo(r)'
    BY Zenon DEF Lent, LentTo, Remembering
  <1> SUFFICES ASSUME IInv, [Next]_vars, NEW r \in Requests PROVE LentTo(r)'
    BY <1>0
  <1> TypeOK /\ Control /\ Apart /\ Stocked /\ Outside /\ LentTo(r)
    BY LentEach DEF IInv
  <1> pc[r] \in Holding => held[r] \in Ids
    BY DEF Control, HeldIds
  <1>1. CASE Quiet /\ ~getInfo(r)
    <2>1. GoesOn(r) /\ SameContainers
      BY <1>1, QuietGoesOn, QuietContainers, Zenon
    <2> QED
      BY <2>1, LentSame, ZenonT(30) DEF GoesOn, SameContainers, Exists
  <1>2. CASE getInfo(r)
    <2>1. PICK i \in Images \cup {NoImage} :
            /\ i = NoImage \/ i = containers[held[r]].image
            /\ image' = [image EXCEPT ![r] = i]
      BY <1>2, ZenonT(30) DEF getInfo, getImage
    <2>2. /\ pc[r] = "getInfo" /\ Goto(r, "putArchive")
          /\ UNCHANGED <<held, served, containers>>
      BY <1>2, ZenonT(30) DEF getInfo, getImage
    <2>3. pc'[r] = "putArchive" /\ image'[r] = i
      BY <2>1, <2>2, Zenon DEF TypeOK, Goto
    <2> QED
      BY <2>1, <2>2, <2>3, Zenon DEF LentTo, Exists, Holding, Remembering, ConfiguredFor
  <1>3. CASE RemoveDelete
    <2> op.stage = "remove" /\ OpDone("removed") /\ served' = served
      BY <1>3, ZenonT(30) DEF RemoveDelete, OpDone
    <2>2. GoesOn(r)
      BY OpDoneGoesOn, Zenon DEF Removal
    <2>3. PICK x \in Ids : x = op.id
      BY Zenon DEF Control, OpMatches, Removal
    <2>4. Keeps(x)
      BY <1>3, <2>3, Deleting, Zenon DEF RemoveDelete
    <2>5. pc'[r] \in Holding => held[r] # x
      <3> SUFFICES ASSUME pc'[r] \in Holding PROVE held[r] # x
        BY Zenon
      <3>1. pc[r] \in Holding
        BY <2>2, Zenon DEF GoesOn
      <3>2. phase = "serve" /\ op.owner # Boot
        BY <3>1, Zenon DEF Control, Alone, OpMatches, Removal, Ended, Holding
      <3>3. /\ pc[op.owner] = "removing" /\ x = held[op.owner] /\ op.owner \in Requests
            /\ pc'[op.owner] = "removed"
        BY <2>3, <3>2, Zenon DEF Control, OpMatches, Removal, TypeOK, OpDone
      <3> QED
        BY <3>1, <3>3, ZenonT(30) DEF Apart, Holding
    <2> QED
      BY <2>2, <2>4, <2>5, LentSame, ZenonT(30) DEF GoesOn, Keeps, Exists
  <1>4. CASE CreateRun
    <2> /\ UNCHANGED <<held, image, served>> /\ op.stage = "run"
        /\ \A c \in Ids : containers[c].status # "unused" => containers'[c] = containers[c]
        /\ UNCHANGED pc \/ OpDone("reply")
      BY <1>4, Creating, ZenonT(30)
    <2>2. GoesOn(r)
      <3>1. CASE UNCHANGED pc
        BY <3>1, ZenonT(30) DEF GoesOn
      <3>2. CASE OpDone("reply")
        BY <3>2, OpDoneGoesOn, Zenon
      <3> QED
        BY <3>1, <3>2, Zenon
    <2> QED
      BY <2>2, LentSame, ZenonT(30) DEF GoesOn, Exists
  <1>5. CASE CreateAdd
    <2>1. op.stage = "add" /\ OpDone("reply") /\ UNCHANGED <<containers, served>>
      BY <1>5, ZenonT(30) DEF CreateAdd, OpDone, dockerVars
    <2>2. GoesOn(r)
      BY <2>1, OpDoneGoesOn, ZenonT(30)
    <2> QED
      BY <2>1, <2>2, LentSame, ZenonT(30) DEF GoesOn, Exists
  <1>6. CASE addValues
    <2>1. UNCHANGED <<containers, served, pc, held, image>>
      BY <1>6, ZenonT(30) DEF addValues, dockerVars, requestVars
    <2> QED
      BY <2>1, LentSame, ZenonT(30) DEF Exists
  <1>7. ASSUME NEW q \in Requests, prepareCode(q) PROVE LentTo(r)'
    <2> /\ UNCHANGED <<containers, held, image>>
        /\ pc[q] = "putArchive"
        /\ Goto(q, "exec") \/ Goto(q, "release")
        /\ served' = [served EXCEPT ![held[q]] = @ \cup {q}]
      BY <1>7, Zenon DEF prepareCode, putArchive
    <2>2. held[q] \in Ids
      BY Zenon DEF Control, HeldIds, Holding
    <2>3. CASE q = r
      <3>1. /\ pc'[r] \in {"exec", "release"}
            /\ served'[held[r]] = served[held[r]] \cup {r}
        BY <2>2, <2>3 DEF TypeOK, Goto
      <3> QED
        BY <2>3, <3>1, ZenonT(30) DEF LentTo, Exists, Holding, Remembering, ConfiguredFor
    <2>4. CASE q # r
      <3>1. pc'[r] = pc[r]
        BY <2>4, Zenon DEF TypeOK, Goto
      <3>2. pc[r] \in Holding => held[q] # held[r]
        BY <2>4, ZenonT(30) DEF Apart, Holding
      <3>3. pc[r] \in Holding => served'[held[r]] = served[held[r]]
        BY <3>2, Zenon DEF TypeOK
      <3> QED
        BY <3>1, <3>3, LentSame, Zenon DEF Exists
    <2> QED
      BY <2>3, <2>4, ZenonT(30)
  <1>8. ASSUME NEW q \in Requests, extract(q) PROVE LentTo(r)'
    <2> USE <1>8
    <2>1. UNCHANGED <<containers, served, image>>
      BY ZenonT(30) DEF extract, dockerVars
    <2>2. CASE q = r
      <3>1. PICK c \in Ids : /\ c = held'[r] /\ Fresh(c)
                             /\ ConfiguredFor(LanguageOf[r], containers[c].image)
        <4> DEFINE n == Len(storage[LanguageOf[r]])
        <4>1. /\ LanguageOf[r] \in Languages /\ n \in 1..n
              /\ held'[r] = storage[LanguageOf[r]][n]
          BY <2>2, Extracting, Zenon
        <4>2. /\ storage[LanguageOf[r]][n] \in Ids
              /\ Fresh(storage[LanguageOf[r]][n])
              /\ ConfiguredFor(LanguageOf[r], containers[storage[LanguageOf[r]][n]].image)
          BY <4>1, StockedAt, Zenon
        <4> QED
          BY <4>1, <4>2, ZenonT(30)
      <3>2. pc'[r] = "getInfo"
        BY <2>2, Extracting, ZenonT(30)
      <3> QED
        BY <2>1, <3>1, <3>2, ZenonT(30) DEF LentTo, Fresh, Exists, Remembering
    <2>3. CASE q # r
      <3>1. held'[r] = held[r] /\ pc'[r] = pc[r]
        BY <2>3, Extracting, ZenonT(30)
      <3> QED
        BY <2>1, <3>1, LentSame, Zenon DEF Exists
    <2> QED
      BY <2>2, <2>3, Zenon
  <1>9. CASE Crash
    <2>1. pc'[r] \in {"new", "done", "lost"}
      BY <1>9, ZenonT(30) DEF Crash
    <2> QED
      BY <2>1, Zenon DEF LentTo, Holding, Remembering
  <1> QED
    BY <1>1, <1>2, <1>3, <1>4, <1>5, <1>6, <1>7, <1>8, <1>9, StepCases, Zenon

-----------------------------------------------------------------------------
(* Unused ids and containers of others.                                    *)

\* The part of Outside that is about containers, and the part about the service.
LEMMA OutsideParts ==
    ASSUME \A id \in Ids : containers'[id].status = "unused" => served'[id] = {},
           \A id \in Ids : \A r1, r2 \in served'[id] : r1 = r2,
           \A id \in Foreign : containers'[id] = containers[id],
           Outside, todo' \cap Foreign = {}, op'.id \notin Foreign
    PROVE  Outside'
  BY Zenon DEF Outside

\* No step learns of a container of somebody else.
LEMMA OutsideStep == IInv /\ [Next]_vars => Outside'
  <1> SUFFICES ASSUME IInv, [Next]_vars PROVE Outside'
    OBVIOUS
  <1> USE DEF dockerVars, bootVars, storageVars, requestVars, lifeVars
  <1> TypeOK /\ Control /\ Lent /\ Outside
    BY DEF IInv
  <1> Foreign \subseteq Ids /\ NoId \notin Foreign
    OBVIOUS
  <1> /\ \A id \in Ids : containers[id].status = "unused" => served[id] = {}
      /\ \A id \in Ids : \A r1, r2 \in served[id] : r1 = r2
      /\ \A id \in Foreign : containers[id] = [status |-> "running", image |-> ForeignImage]
      /\ todo \cap Foreign = {}
      /\ op.id \notin Foreign
    BY Zenon DEF Outside
  <1>1. CASE ListContainers
    <2>1. UNCHANGED <<containers, served, op>>
      BY <1>1, Zenon DEF ListContainers, getAllContainers
    <2>2. \A id \in todo' : containers[id].image \in SenjunImages
      BY <1>1, Zenon DEF ListContainers
    <2>3. todo' \cap Foreign = {}
      BY <2>2
    <2> QED
      BY <2>1, <2>3, OutsideParts, ZenonT(30)
  <1>2. ASSUME NEW id \in Ids, SweepNext(id) PROVE Outside'
    <2>1. /\ UNCHANGED <<containers, served>>
          /\ id \in todo /\ todo' = todo \ {id} /\ op'.id = id
      BY <1>2, Zenon DEF SweepNext
    <2> QED
      BY <2>1, OutsideParts, Zenon
  <1>3. CASE SweepDone \/ CreateNext \/ BootDone \/ addValues \/ CreateAdd
    <2>1. UNCHANGED <<containers, served, todo>> /\ op'.id \in {op.id, NoId}
      <3>1. CASE SweepDone \/ CreateNext \/ BootDone
        BY <3>1 DEF SweepDone, CreateNext, BootDone
      <3>2. CASE addValues
        BY <3>2, Zenon DEF addValues
      <3>3. CASE CreateAdd
        BY <3>3, Zenon DEF CreateAdd, OpDone, NoOp
      <3> QED
        BY <1>3, <3>1, <3>2, <3>3, Zenon
    <2> QED
      BY <2>1, OutsideParts, Zenon
  <1>4. CASE TakeTask
    <2> USE <1>4
    <2>1. PICK task \in Task : task = Head(queue)
      BY DEF TakeTask, TypeOK
    <2>2. /\ UNCHANGED <<containers, served, todo>>
          /\ op'.id = IF task.kind = "isRunning" THEN held[task.owner] ELSE NoId
      BY <2>1, Zenon DEF TakeTask
    <2>3. 1 \in 1..Len(queue) /\ queue[1] = task
      BY <2>1 DEF TakeTask
    <2>4. task.kind = "isRunning" => pc[task.owner] = "removing"
      BY <2>3, Zenon DEF Control, QueueMatches
    <2>5. task.kind = "isRunning" => held[task.owner] \notin Foreign
      BY <2>4, ZenonT(30) DEF Lent, Holding, Task
    <2> QED
      BY <2>2, <2>5, OutsideParts, ZenonT(30)
  <1>5. CASE RemoveIsRunning
    <2>1. UNCHANGED <<containers, served, todo>> /\ op'.id = op.id
      BY <1>5, Zenon DEF RemoveIsRunning, isRunning, TypeOK
    <2> QED
      BY <2>1, OutsideParts, Zenon
  <1>6. CASE RemoveKill \/ RemoveDelete
    <2> USE <1>6
    <2>1. PICK x \in Ids : x = op.id
      BY Zenon DEF RemoveKill, RemoveDelete, Control, OpMatches, Removal
    <2>2. Keeps(x)
      BY <2>1, Killing, Deleting, Zenon DEF RemoveKill, RemoveDelete
    <2>3. UNCHANGED <<served, todo>> /\ op'.id \in {op.id, NoId}
      BY DEF RemoveKill, RemoveDelete, OpDone, NoOp, TypeOK
    <2> QED
      BY <2>1, <2>2, <2>3, OutsideParts DEF Keeps
  <1>7. CASE CreateRun
    <2>1. /\ UNCHANGED <<todo, served>>
          /\ \A c \in Ids : containers[c].status # "unused" => containers'[c] = containers[c]
          /\ \A c \in Ids : containers'[c].status = "unused" => containers[c].status = "unused"
      BY <1>7, Creating, ZenonT(30)
    <2>2. op'.id \notin Foreign
      <3>1. \/ op' = NoOp
            \/ \E id \in Ids : /\ op' = [stage |-> "add", id |-> id, owner |-> op.owner]
                               /\ containers[id].status = "unused"
        BY <1>7, Creating, Zenon
      <3>2. CASE op' = NoOp
        BY <3>2, Zenon DEF NoOp
      <3>3. ASSUME NEW id \in Ids, op' = [stage |-> "add", id |-> id, owner |-> op.owner],
                   containers[id].status = "unused"
            PROVE  op'.id \notin Foreign
        BY <3>3
      <3> QED
        BY <3>1, <3>2, <3>3, Zenon
    <2>3. \A id \in Foreign : containers'[id] = containers[id]
      BY <2>1
    <2> QED
      BY <2>1, <2>2, <2>3, OutsideParts, Zenon
  <1>8. ASSUME NEW r \in Requests,
               \/ Accept(r) \/ Dispatch(r) \/ RejectNoSources(r) \/ RejectWrongType(r)
               \/ extract(r) \/ getInfo(r) \/ runCode(r) \/ ScheduleRemove(r)
               \/ ScheduleCreate(r) \/ Reply(r)
        PROVE  Outside'
    <2>1. UNCHANGED <<containers, served, todo, op>>
      <3>1. CASE \/ Accept(r) \/ Dispatch(r) \/ RejectNoSources(r) \/ RejectWrongType(r)
                 \/ extract(r) \/ ScheduleRemove(r) \/ ScheduleCreate(r) \/ Reply(r)
        BY <3>1, ZenonT(30) DEF Accept, Dispatch, RejectNoSources, RejectWrongType, AnswerWithout, extract,
                    ScheduleRemove, ScheduleCreate, Reply
      <3>2. CASE getInfo(r) \/ runCode(r)
        BY <3>2, ZenonT(30) DEF getInfo, runCode, getImage, exec
      <3> QED
        BY <1>8, <3>1, <3>2, Zenon
    <2> QED
      BY <2>1, OutsideParts, Zenon
  <1>9. ASSUME NEW r \in Requests, prepareCode(r) PROVE Outside'
    <2> /\ UNCHANGED <<containers, todo, op>>
        /\ pc[r] = "putArchive"
        /\ served' = [served EXCEPT ![held[r]] = @ \cup {r}]
      BY <1>9, Zenon DEF prepareCode, putArchive
    <2>2. /\ held[r] \in Ids
          /\ containers[held[r]].status # "unused"
          /\ served[held[r]] = {}
      BY Zenon DEF Control, HeldIds, Lent, Exists, Holding
    <2>3. \A id \in Ids : served'[id] = IF id = held[r] THEN {r} ELSE served[id]
      BY <2>2 DEF TypeOK
    <2>4. \A id \in Ids : containers'[id].status = "unused" => served'[id] = {}
      BY <2>2, <2>3, ZenonT(30)
    <2>5. \A id \in Ids : \A r1, r2 \in served'[id] : r1 = r2
      BY <2>3
    <2> QED
      BY <2>4, <2>5, OutsideParts, ZenonT(30)
  <1>10. ASSUME NEW id \in Ids, Exit(id) PROVE Outside'
    <2>1. ContainerExits(id) /\ UNCHANGED <<served, todo, op>>
      BY <1>10, Zenon DEF Exit
    <2>2. Keeps(id) /\ id \notin Foreign
      BY <2>1, Exiting, Zenon
    <2> QED
      BY <2>1, <2>2, OutsideParts DEF Keeps
  <1>11. CASE Crash \/ UNCHANGED vars
    <2>1. /\ UNCHANGED <<containers, served>>
          /\ todo' = {} \/ todo' = todo
          /\ op'.id \in {op.id, NoId}
      BY <1>11 DEF Crash, vars, NoOp
    <2> QED
      BY <2>1, OutsideParts, Zenon
  <1> QED
    BY <1>1, <1>2, <1>3, <1>4, <1>5, <1>6, <1>7, <1>8, <1>9, <1>10, <1>11, Zenon DEF Next,
       Startup, Manipulator, Serve, Finished

-----------------------------------------------------------------------------
(* The theorems.                                                           *)

\* The service starts, with the containers of others running, in the invariant.
LEMMA InitInvariant == Init => IInv
  <1> SUFFICES ASSUME Init PROVE IInv
    OBVIOUS
  <1> USE DEF Init
  <1>1. DockerTypeOK
    BY DockerAssumption DEF DockerInit, DockerTypeOK, Container
  <1>2. TypeOK
    BY <1>1, ProviderAssumption DEF TypeOK, DockerInit, NoOp, Stages, Outcomes
  <1>3. Control
    BY DEF Control, Alone, OpMatches, QueueMatches, ListsMatch, HeldIds, NoOp, Removal, Creation,
           Holding
  <1>4. Apart /\ Stocked /\ Lent
    <2>1. /\ \A l \in Languages : 1..Len(storage[l]) = {}
          /\ 1..Len(made) = {}
          /\ op.stage # "add"
      BY DEF NoOp
    <2>2. \A r \in Requests : pc[r] = "new"
      OBVIOUS
    <2> HIDE DEF Init
    <2>3. Apart
      BY <2>1, <2>2, Zenon DEF Apart, Holding
    <2>4. Stocked
      BY <2>1, Zenon DEF Stocked
    <2>5. Lent
      BY <2>2, Zenon DEF Lent, Holding
    <2> QED
      BY <2>3, <2>4, <2>5
  <1>5. Outside
    BY Zenon DEF Outside, DockerInit, NoOp
  <1> QED
    BY <1>2, <1>3, <1>4, <1>5, Zenon DEF IInv

\* The inductive invariant: who waits for what, that a container is in one place,
\* and what is known of the container in each place, hold in every reachable state.
THEOREM ProviderInvariant == Spec => []IInv
  <1>1. IInv /\ [Next]_vars => IInv'
    BY TypeStep, ControlStep, ApartStep, StockedStep, LentStep, OutsideStep, Zenon DEF IInv
  <1> QED
    BY InitInvariant, <1>1, PTL DEF Spec

\* Every variable of the provider, the manipulator, the requests and the daemon
\* keeps its type.
THEOREM ProviderTypeCorrect == Spec => []TypeOK
  <1>1. IInv => TypeOK
    BY DEF IInv
  <1> QED
    BY <1>1, ProviderInvariant, PTL

\* ExtractingStorage hands a container to one request at a time, whatever calls
\* fail and wherever the service crashes.
THEOREM ProviderExclusiveUse == Spec => []ExclusiveUse
  <1>1. IInv => ExclusiveUse
    BY DEF IInv, Apart, ExclusiveUse, Uses, InStorage
  <1> QED
    BY <1>1, ProviderInvariant, PTL

\* A container receives the files of one request at most, and none before it is
\* handed out, in this life of the service or a later one.
THEOREM ProviderCleanContainers == Spec => []CleanContainers
  <1>1. IInv => CleanContainers
    BY Zenon DEF IInv, Stocked, Fresh, Outside, CleanContainers, InStorage
  <1> QED
    BY <1>1, ProviderInvariant, PTL

\* The replacement of a container, whose image comes from the container it replaces,
\* always has an image that Config gives the launcher's language.
THEOREM ProviderLaunchersMatchConfig == Spec => []LaunchersMatchConfig
  <1>1. IInv => LaunchersMatchConfig
    <2> SUFFICES ASSUME IInv, NEW l \in Languages, NEW i \in 1..Len(storage[l])
                 PROVE  /\ Exists(storage[l][i])
                        /\ \E n \in 1..Len(Entries) :
                             /\ Entries[n].language = l
                             /\ Entries[n].imageName = containers[storage[l][i]].image
      BY Zenon DEF LaunchersMatchConfig
    <2>1. Fresh(storage[l][i]) /\ ConfiguredFor(l, containers[storage[l][i]].image)
      BY Zenon DEF IInv, Stocked
    <2> QED
      BY <2>1, ZenonT(30) DEF Fresh, ConfiguredFor
  <1> QED
    BY <1>1, ProviderInvariant, PTL

\* The clean-up at start-up and the restarts touch no container of somebody else.
THEOREM ProviderForeignUntouched == Spec => ForeignUntouched
  <1>1. IInv /\ IInv' => [\A id \in Foreign : containers'[id] = containers[id]]_vars
    BY Zenon DEF IInv, Outside
  <1> QED
    BY <1>1, ProviderInvariant, PTL DEF ForeignUntouched
=============================================================================
