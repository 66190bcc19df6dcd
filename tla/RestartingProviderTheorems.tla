-------------------- MODULE RestartingProviderTheorems ----------------------
(***************************************************************************)
(* What the invariants of RestartingProvider say together: it implements   *)
(* Sandbox, without failing calls no container is left behind and there are *)
(* never more than configured, and a failing call costs one launcher at most. *)
(***************************************************************************)
EXTENDS RestartingProviderProofs, RestartingProviderCounts, RestartingProviderSandbox

USE Constants

-----------------------------------------------------------------------------
(* No image is forgotten before a call has failed.                         *)

\* A request's container is there when its image is asked for, so the image is known
\* unless some call has failed.
Known == \A r \in Requests : faults = 0 /\ pc[r] \in Remembering => image[r] \in Images

\* No step forgets an image, and none but a failing call leaves one unknown.
LEMMA KnownStep == IInv /\ Known /\ [Next]_vars => Known'
  <1> SUFFICES ASSUME IInv, Known, [Next]_vars, NEW r \in Requests,
                      faults' = 0, pc'[r] \in Remembering
               PROVE  image'[r] \in Images
    BY DEF Known
  <1> TypeOK /\ Control /\ Stocked /\ LentTo(r)
    BY LentEach DEF IInv
  <1> faults = 0 /\ (pc[r] \in Remembering => image[r] \in Images)
    BY Calls DEF TypeOK, DockerTypeOK, Answered, Failed, Known
  <1>1. CASE GoesOn(r)
    BY <1>1, Zenon DEF GoesOn
  <1>2. CASE getInfo(r)
    <2>1. PICK i \in Images \cup {NoImage} :
            /\ getImage(held[r], i)
            /\ image' = [image EXCEPT ![r] = i]
      BY <1>2, Zenon DEF getInfo
    <2>2. image'[r] = i
      BY <2>1, Zenon DEF TypeOK
    <2>3. pc[r] \in Holding
      BY <1>2, Zenon DEF getInfo, Holding
    <2>4. Exists(held[r]) /\ containers[held[r]].image \in Images
      BY <2>3, ConfiguredImage, Zenon DEF LentTo
    <2> QED
      BY <2>1, <2>2, <2>4 DEF getImage, Failed
  <1>3. ASSUME NEW q \in Requests, extract(q) PROVE image'[r] \in Images
    <2> USE <1>3
    <2>1. image' = image
      BY Zenon DEF extract
    <2>2. q # r => pc'[r] = pc[r]
      BY Extracting, Zenon
    <2>3. q = r => pc'[r] = "getInfo"
      BY Extracting, Zenon
    <2> QED
      BY <2>1, <2>2, <2>3 DEF Remembering
  <1>4. CASE Crash
    BY <1>4, Zenon DEF Crash, Remembering
  <1> QED
    BY <1>1, <1>2, <1>3, <1>4, StepGoesOn, Zenon

-----------------------------------------------------------------------------
(* The step of Sandbox that each step stands for.                          *)

PCs == {"new", "queued"} \cup Threaded \cup Ended

\* What each place of a request's thread is to the users of Sandbox.
LEMMA UserOf ==
    ASSUME NEW w \in PCs
    PROVE  /\ AsUser(w) = "out" <=> w \in {"new", "queued"}
           /\ AsUser(w) = "wants" <=> w = "start"
           /\ AsUser(w) = "has" <=> w \in Holding \cup {"removed", "creating"}
           /\ AsUser(w) = "over" <=> w \in Ended \cup {"reply"}
  BY DEF AsUser, PCs, Threaded, Holding, Ended

\* A request that moves changes its own place only.
LEMMA UserStep ==
    ASSUME TypeOK, NEW r \in Requests, NEW w \in PCs, pc' = [pc EXCEPT ![r] = w]
    PROVE  /\ [q \in Requests |-> AsUser(pc[q])]' =
                [[q \in Requests |-> AsUser(pc[q])] EXCEPT ![r] = AsUser(w)]
           /\ AsUser(w) = AsUser(pc[r]) =>
                \A q \in Requests : AsUser(pc'[q]) = AsUser(pc[q])
  BY Zenon DEF TypeOK

\* A step that only makes a call.
LEMMA CallsOnly ==
    ASSUME Answered \/ Failed,
           (phase' = "serve") <=> (phase = "serve"), UNCHANGED <<storage, keys>>,
           \A r \in Requests : AsUser(pc'[r]) = AsUser(pc[r])
    PROVE  [Pool!SandboxNext]_(Pool!sandboxVars)
  <1>2. CASE Answered
    BY <1>2 DEF Answered, Pool!sandboxVars
  <1>3. CASE Failed
    BY <1>3, Zenon DEF Failed, Pool!Fail, Pool!SandboxNext
  <1> QED
    BY <1>2, <1>3

\* The number of launchers of each language after one list has changed.
LEMMA StockStep ==
    ASSUME TypeOK, NEW l \in Languages, NEW s, storage' = [storage EXCEPT ![l] = s]
    PROVE  [k \in Languages |-> Len(storage[k])]' =
             [[k \in Languages |-> Len(storage[k])] EXCEPT ![l] = Len(s)]
  BY Zenon DEF TypeOK

\* Start-up adds launchers to one list.
LEMMA SupplyStep ==
    ASSUME IInv, addValues PROVE [Pool!SandboxNext]_(Pool!sandboxVars)
  <1> USE DEF dockerVars, requestVars
  <1> /\ TypeOK /\ phase = "create" /\ phase' = phase
      /\ entry \in Nat \ {0} /\ entry <= Len(Entries)
      /\ UNCHANGED <<pc, faults>>
    BY Zenon DEF IInv, TypeOK, addValues
  <1>2. PICK l \in Languages : l = Entries[entry].language
    BY EntryAt
  <1> /\ storage' = [storage EXCEPT ![l] = storage[l] \o made]
      /\ keys' = IF made # << >> THEN keys \cup {l} ELSE keys
      /\ storage[l] \in Seq(Ids) /\ made \in Seq(Ids)
      /\ storage \in [Languages -> Seq(Ids)]
    BY <1>2, Zenon DEF addValues, TypeOK
  <1>4. CASE made = << >>
    <2>1. storage[l] \o made = storage[l]
      BY <1>4
    <2>2. storage' = storage /\ keys' = keys
      BY <2>1
    <2> QED
      BY <2>2, CallsOnly, Zenon DEF Answered
  <1>5. CASE made # << >>
    <2>1. /\ Len(storage[l] \o made) \in Nat
          /\ Len(storage[l]) \in Nat
          /\ Len(storage[l] \o made) > Len(storage[l])
      BY <1>5
    <2>2. [k \in Languages |-> Len(storage[k])]' =
            [[k \in Languages |-> Len(storage[k])] EXCEPT ![l] = Len(storage[l] \o made)]
      BY Zenon
    <2>3. Pool!Supply(l)
      BY <2>1, <2>2 DEF Pool!Supply
    <2> QED
      BY <2>3, Zenon DEF Pool!SandboxNext
  <1> QED
    BY <1>4, <1>5, Zenon

\* A request asks for a launcher, is refused or takes one.
LEMMA AskStep ==
    ASSUME IInv, NEW r \in Requests,
           Dispatch(r) \/ RejectNoSources(r) \/ RejectWrongType(r) \/ extract(r)
    PROVE  Pool!SandboxNext
  <1> USE DEF dockerVars, bootVars, storageVars
  <1> /\ TypeOK /\ LanguageOf[r] \in Languages
      /\ pc[r] \in PCs
      /\ \A w \in {"start", "reply", "getInfo"} : w \in PCs
      /\ AsUser("start") = "wants" /\ AsUser("reply") = "over" /\ AsUser("getInfo") = "has"
    <2>1. TypeOK /\ LanguageOf[r] \in Languages /\ pc[r] \in PCs
      BY Zenon DEF IInv, TypeOK, PCs
    <2>2. \A w \in {"start", "reply", "getInfo"} : w \in PCs
      BY DEF PCs, Threaded, Holding
    <2> QED
      BY <2>1, <2>2, UserOf DEF Holding
  <1>1. CASE Dispatch(r)
    <2> /\ pc[r] = "queued" /\ pc' = [pc EXCEPT ![r] = "start"]
        /\ UNCHANGED <<phase, storage, keys, faults>>
      BY <1>1, Zenon DEF Dispatch, Goto
    <2>2. phase = "serve"
      BY Zenon DEF IInv, Control, Alone, Ended
    <2>3. AsUser(pc[r]) = "out"
      BY UserOf, Zenon
    <2>4. Pool!Ask(r)
      BY <2>2, <2>3, UserStep, Zenon DEF Pool!Ask, Pool!Becomes
    <2> QED
      BY <2>4, Zenon DEF Pool!SandboxNext
  <1>2. CASE RejectNoSources(r) \/ RejectWrongType(r)
    <2>1. /\ pc[r] = "start" /\ pc' = [pc EXCEPT ![r] = "reply"]
          /\ UNCHANGED <<phase, storage, keys, faults>>
          /\ r \in NoSources \/ LanguageOf[r] \notin keys
      BY <1>2, Zenon DEF RejectNoSources, RejectWrongType, AnswerWithout, Goto
    <2>2. Pool!Refuse(r)
      BY <2>1, UserStep, ZenonT(30) DEF Pool!Refuse, Pool!Becomes
    <2> QED
      BY <2>2 DEF Pool!SandboxNext
  <1>3. CASE extract(r)
    <2> DEFINE l == LanguageOf[r]
    <2> /\ pc[r] = "start" /\ pc' = [pc EXCEPT ![r] = "getInfo"]
        /\ UNCHANGED <<phase, keys, faults>>
        /\ r \notin NoSources /\ l \in keys
        /\ storage' = [storage EXCEPT ![l] = SubSeq(storage[l], 1, Len(storage[l]) - 1)]
        /\ storage[l] # << >> /\ storage[l] \in Seq(Ids)
      BY <1>3, Zenon DEF extract, Goto, TypeOK
    <2>2. Len(storage[l]) \in Nat \ {0} /\ Len(SubSeq(storage[l], 1, Len(storage[l]) - 1)) = Len(storage[l]) - 1
      BY FrontLast, Zenon
    <2>3. [k \in Languages |-> Len(storage[k])]' =
            [[k \in Languages |-> Len(storage[k])] EXCEPT ![l] = Len(storage[l]) - 1]
      BY <2>2, StockStep, Zenon
    <2>4. /\ [q \in Requests |-> AsUser(pc[q])]' =
               [[q \in Requests |-> AsUser(pc[q])] EXCEPT ![r] = "has"]
          /\ [q \in Requests |-> AsUser(pc[q])][r] = "wants"
          /\ [k \in Languages |-> Len(storage[k])][l] = Len(storage[l])
      <3>1. [q \in Requests |-> AsUser(pc[q])]' =
              [[q \in Requests |-> AsUser(pc[q])] EXCEPT ![r] = AsUser("getInfo")]
        BY UserStep, ZenonT(30)
      <3> QED
        BY <3>1, Zenon
    <2>5. Pool!Take(r)
      BY <2>3, <2>4 DEF Pool!Take, Pool!Becomes
    <2> QED
      BY <2>5, Zenon DEF Pool!SandboxNext
  <1> QED
    BY <1>1, <1>2, <1>3

\* A creation for a request ends: with a launcher, or without one after a failure.
LEMMA ReplaceStep ==
    ASSUME IInv, Known, op.owner # Boot, OpDone("reply"),
           CreateAdd \/ (CreateRun /\ UNCHANGED storage)
    PROVE  Pool!SandboxNext
  <1> USE DEF dockerVars, bootVars, storageVars
  <1>0. PICK r \in Requests : r = op.owner
    BY DEF IInv, TypeOK
  <1> DEFINE l == LanguageOf[r]
  <1>1. /\ TypeOK /\ l \in Languages
        /\ op.stage \in Creation
        /\ UNCHANGED <<phase, keys>>
    BY Zenon DEF IInv, CreateAdd, CreateRun, Creation
  <1>2. pc[r] = "creating" /\ pc' = [pc EXCEPT ![r] = "reply"]
    BY <1>0, <1>1, Zenon DEF IInv, Control, OpMatches, OpDone
  <1>3. AsUser(pc[r]) = "has" /\ AsUser("reply") = "over" /\ "reply" \in PCs
    <2>1. "reply" \in PCs /\ "creating" \in PCs
      BY DEF PCs, Threaded
    <2> QED
      BY <1>2, <2>1, UserOf
  <1>4. /\ [q \in Requests |-> AsUser(pc[q])]' =
             [[q \in Requests |-> AsUser(pc[q])] EXCEPT ![r] = "over"]
        /\ [q \in Requests |-> AsUser(pc[q])][r] = "has"
    BY <1>1, <1>2, <1>3, UserStep, Zenon
  <1>5. CASE CreateAdd
    <2>1. /\ storage' = [storage EXCEPT ![l] = Append(storage[l], op.id)]
          /\ storage[l] \in Seq(Ids) /\ op.id \in Ids /\ faults' = faults
      <3>1. op.id \in Ids /\ storage[l] \in Seq(Ids) /\ faults' = faults
        BY <1>1, <1>5 DEF CreateAdd, IInv, TypeOK, Control, OpMatches
      <3>2. storage' = [storage EXCEPT ![LanguageOf[op.owner]] = Append(@, op.id)]
        BY <1>5, Zenon DEF CreateAdd
      <3> QED
        BY <1>0, <3>1, <3>2, ZenonT(30)
    <2>3. [k \in Languages |-> Len(storage[k])]' =
            [[k \in Languages |-> Len(storage[k])] EXCEPT ![l] = Len(storage[l]) + 1]
      <3>1. TypeOK
        BY DEF IInv
      <3>2. [k \in Languages |-> Len(storage[k])]' =
              [[k \in Languages |-> Len(storage[k])] EXCEPT ![l] = Len(Append(storage[l], op.id))]
        BY <2>1, <3>1, StockStep, Zenon
      <3> QED
        BY <3>2
    <2>4. Pool!Give(r)
      BY <1>1, <1>4, <2>1, <2>3, Zenon DEF Pool!Give, Pool!Becomes
    <2> QED
      BY <2>4 DEF Pool!SandboxNext
  <1>6. CASE CreateRun /\ UNCHANGED storage
    <2>1. PICK id \in Ids \cup {NoId} :
            /\ run(image[r], id)
            /\ id = NoId \/ op' = [op EXCEPT !.stage = "add", !.id = id]
      BY <1>0, <1>6, Zenon DEF CreateRun
    <2>2. id = NoId
      <3>1. op'.stage = "idle"
        BY Zenon DEF OpDone, NoOp
      <3>2. ASSUME op' = [op EXCEPT !.stage = "add", !.id = id] PROVE FALSE
        BY <3>1, <3>2
      <3> QED
        BY <2>1, <3>2
    <2>3. Failed \/ (Answered /\ image[r] \notin Images)
      <3>1. Unused # {} => NewId \in Unused
        BY DEF NewId
      <3>2. Unused # {} => NewId \in Ids
        BY <3>1 DEF Unused
      <3> QED
        BY <2>1, <2>2, <3>2, Zenon DEF run, Started
    <2>4. faults = 0 => image[r] \in Images
      BY <1>2 DEF Known, Remembering
    <2>5. /\ faults' \in faults..MaxFaults
          /\ faults' \in 1..(faults + 1)
      BY <1>1, <2>3, <2>4, DockerAssumption DEF Failed, Answered, TypeOK, DockerTypeOK
    <2>6. Pool!Lose(r)
      BY <1>1, <1>4, <1>6, <2>5, Zenon DEF Pool!Lose, Pool!Becomes
    <2> QED
      BY <2>6 DEF Pool!SandboxNext
  <1> QED
    BY <1>5, <1>6

\* A request that moves between places that are the same to the users of Sandbox.
LEMMA MovesOn ==
    ASSUME TypeOK, NEW r \in Requests, NEW w \in PCs, Goto(r, w), AsUser(w) = AsUser(pc[r]),
           Answered \/ Failed, UNCHANGED <<phase, storage, keys>>
    PROVE  [Pool!SandboxNext]_(Pool!sandboxVars)
  BY UserStep, CallsOnly, Zenon DEF Goto

\* The step of Sandbox that each step of the provider stands for.
LEMMA SandboxStep == IInv /\ Known /\ [Next]_vars => [Pool!SandboxNext]_(Pool!sandboxVars)
  <1> SUFFICES ASSUME IInv, Known, [Next]_vars
               PROVE  [Pool!SandboxNext]_(Pool!sandboxVars)
    OBVIOUS
  <1> USE DEF dockerVars, bootVars, storageVars, requestVars
  <1> /\ TypeOK /\ Control
      /\ Answered \/ Failed
      /\ \A r \in Requests : pc[r] \in PCs
    BY Calls, Zenon DEF IInv, TypeOK, PCs
  <1>1. ASSUME (phase' = "serve") <=> (phase = "serve"), UNCHANGED <<storage, keys, pc>>
        PROVE  [Pool!SandboxNext]_(Pool!sandboxVars)
    BY <1>1, CallsOnly
  <1>2. CASE ListContainers \/ (\E id \in Ids : SweepNext(id)) \/ SweepDone \/ CreateNext
    BY <1>1, <1>2, Zenon DEF ListContainers, SweepNext, SweepDone, CreateNext
  <1>3. CASE addValues
    BY <1>3, SupplyStep
  <1>4. CASE BootDone
    <2>1. /\ phase # "serve" /\ phase' = "serve"
          /\ UNCHANGED <<storage, keys, pc, faults>>
      BY <1>4 DEF BootDone
    <2>2. Pool!Open
      BY <2>1 DEF Pool!Open
    <2> QED
      BY <2>2 DEF Pool!SandboxNext
  <1>5. CASE TakeTask \/ RemoveIsRunning \/ RemoveKill
    BY <1>1, <1>5, Zenon DEF TakeTask, RemoveIsRunning, RemoveKill
  <1>6. CASE RemoveDelete
    <2> op.stage = "remove" /\ OpDone("removed") /\ UNCHANGED <<phase, storage, keys>>
      BY <1>6 DEF RemoveDelete
    <2>2. CASE op.owner = Boot
      BY <1>1, <2>2 DEF OpDone
    <2>3. CASE op.owner # Boot
      <3>1. PICK r \in Requests : r = op.owner
        BY <2>3, Zenon DEF TypeOK
      <3>2. pc[r] = "removing" /\ Goto(r, "removed")
        BY <3>1, Zenon DEF Control, OpMatches, Removal, OpDone, Goto
      <3>3. "removed" \in PCs /\ AsUser("removed") = AsUser("removing")
        BY UserOf DEF PCs, Threaded, Holding
      <3> QED
        BY <3>2, <3>3, MovesOn, Zenon
    <2> QED
      BY <2>2, <2>3
  <1>7. CASE CreateRun
    <2> /\ UNCHANGED <<phase, storage, keys>>
        /\ UNCHANGED pc \/ OpDone("reply")
      BY <1>7, Zenon DEF CreateRun
    <2>2. CASE UNCHANGED pc
      BY <1>1, <2>2
    <2>3. CASE OpDone("reply") /\ op.owner = Boot
      BY <1>1, <2>3, Zenon DEF OpDone
    <2>4. CASE OpDone("reply") /\ op.owner # Boot
      BY <1>7, <2>4, ReplaceStep
    <2> QED
      BY <2>2, <2>3, <2>4
  <1>8. CASE CreateAdd
    <2> USE <1>8
    <2>1. OpDone("reply") /\ UNCHANGED <<phase, keys>>
      BY Zenon DEF CreateAdd
    <2>2. CASE op.owner = Boot
      BY <1>1, <2>1, <2>2, Listing, Zenon
    <2>3. CASE op.owner # Boot
      BY <2>1, <2>3, ReplaceStep
    <2> QED
      BY <2>2, <2>3
  <1>9. ASSUME NEW r \in Requests,
               Dispatch(r) \/ RejectNoSources(r) \/ RejectWrongType(r) \/ extract(r)
        PROVE  [Pool!SandboxNext]_(Pool!sandboxVars)
    BY <1>9, AskStep
  <1>10. ASSUME NEW r \in Requests,
                \/ Accept(r) \/ getInfo(r) \/ prepareCode(r) \/ runCode(r)
                \/ ScheduleRemove(r) \/ ScheduleCreate(r) \/ Reply(r)
         PROVE  [Pool!SandboxNext]_(Pool!sandboxVars)
    <2>1. /\ UNCHANGED <<phase, storage, keys>>
          /\ \/ pc[r] = "new" /\ Goto(r, "queued")
             \/ pc[r] = "getInfo" /\ Goto(r, "putArchive")
             \/ pc[r] = "putArchive" /\ (Goto(r, "exec") \/ Goto(r, "release"))
             \/ pc[r] = "exec" /\ Goto(r, "release")
             \/ pc[r] = "release" /\ Goto(r, "removing")
             \/ pc[r] = "removed" /\ Goto(r, "creating")
             \/ pc[r] = "reply" /\ Goto(r, "done")
      BY <1>10, Zenon DEF Accept, getInfo, prepareCode, runCode, ScheduleRemove, ScheduleCreate, Reply
    <2>2. /\ AsUser("new") = "out" /\ AsUser("queued") = "out"
          /\ \A w \in Holding \cup {"removed", "creating"} : w \in PCs /\ AsUser(w) = "has"
          /\ AsUser("reply") = "over" /\ AsUser("done") = "over"
          /\ "queued" \in PCs /\ "done" \in PCs
      <3>1. /\ "new" \in PCs /\ "queued" \in PCs /\ "reply" \in PCs /\ "done" \in PCs
            /\ \A w \in Holding \cup {"removed", "creating"} : w \in PCs
        BY DEF PCs, Threaded, Ended
      <3> QED
        BY <3>1, UserOf DEF Ended
    <2>3. PICK w \in PCs : Goto(r, w) /\ AsUser(w) = AsUser(pc[r])
      BY <2>1, <2>2, Zenon DEF Holding
    <2> QED
      BY <2>1, <2>3, MovesOn, Zenon
  <1>11. CASE (\E id \in Ids : Exit(id)) \/ Finished \/ UNCHANGED vars
    BY <1>1, <1>11, Zenon DEF Exit, Finished, vars
  <1>12. CASE Crash
    <2> /\ phase' # "serve" /\ keys' = {} /\ faults' = faults
        /\ storage' = [l \in Languages |-> << >>]
        /\ \A r \in Requests : pc'[r] = IF pc[r] \in {"new", "done"} THEN pc[r] ELSE "lost"
      BY <1>12, Zenon DEF Crash
    <2> DEFINE dropped == {r \in Requests : pc[r] = "queued"}
    <2>3. \A r \in Requests : AsUser(pc'[r]) =
            IF AsUser(pc[r]) = "out" /\ r \notin dropped THEN "out" ELSE "over"
      <3>1. "lost" \in PCs /\ AsUser("lost") = "over"
        BY UserOf, Zenon DEF PCs, Ended
      <3> QED
        BY <3>1, UserOf DEF Ended
    <2>4. dropped \in SUBSET {r \in Requests : [q \in Requests |-> AsUser(pc[q])][r] = "out"}
      BY UserOf, Zenon
    <2> HIDE DEF dropped
    <2>5. /\ [r \in Requests |-> AsUser(pc[r])]' =
               [r \in Requests |->
                  IF [q \in Requests |-> AsUser(pc[q])][r] = "out" /\ r \notin dropped
                  THEN "out" ELSE "over"]
          /\ (phase = "serve")' = FALSE
      BY <2>3, Zenon
    <2>6. Pool!Restart
      BY <2>4, <2>5, Zenon DEF Pool!Restart
    <2> QED
      BY <2>6, Zenon DEF Pool!SandboxNext
  <1> QED
    BY <1>2, <1>3, <1>4, <1>5, <1>6, <1>7, <1>8, <1>9, <1>10, <1>11, <1>12
       DEF Next, Startup, Manipulator, Serve

\* Provider, manipulator and storage implement Sandbox, which is what Server takes
\* for the service: a launcher that is taken comes back or is replaced, and none is
\* lost unless a call has failed (the fairness part is left to TLC).
THEOREM ProviderImplementsSandbox == Spec => Pool!SandboxSpec
  <1>1. Init => Pool!SandboxInit /\ Known
    <2> SUFFICES ASSUME Init PROVE Pool!SandboxInit /\ Known
      OBVIOUS
    <2>1. /\ phase # "serve" /\ keys = {} /\ faults = 0
          /\ \A l \in Languages : Len(storage[l]) = 0
          /\ \A r \in Requests : pc[r] = "new"
      BY Zenon DEF Init, DockerInit
    <2>2. AsUser("new") = "out"
      BY UserOf DEF PCs
    <2>3. Pool!SandboxInit
      BY <2>1, <2>2 DEF Pool!SandboxInit
    <2>4. Known
      BY <2>1 DEF Known, Remembering
    <2> QED
      BY <2>3, <2>4
  <1> QED
    BY <1>1, KnownStep, SandboxStep, ProviderInvariant, PTL DEF Spec, Pool!SandboxSpec

-----------------------------------------------------------------------------
(* No container is left behind.                                            *)

\* What a step must keep for the containers to stay where they are.
LEMMA StaysHoused ==
    ASSUME UNCHANGED <<storage, made>>, op.stage = "add" => op' = op,
           \A r \in Requests : pc[r] \in Holding => pc'[r] \in Holding /\ held'[r] = held[r],
           NEW id, Housed(id)
    PROVE  Housed(id)'
  <1>1. CASE Placed(id)
    BY <1>1, Zenon DEF Housed, Placed
  <1>2. CASE \E r \in Requests : Uses(r, id)
    BY <1>2 DEF Housed, Uses
  <1> QED
    BY <1>1, <1>2 DEF Housed

\* A request that moves without giving up a container.
LEMMA MovesHoused ==
    ASSUME TypeOK, NEW r \in Requests, NEW where, Goto(r, where),
           pc[r] \in Holding => where \in Holding,
           UNCHANGED <<storage, made, op, held>>,
           NEW id, Housed(id)
    PROVE  Housed(id)'
  <1>1. \A q \in Requests : pc[q] \in Holding => pc'[q] \in Holding /\ held'[q] = held[q]
    BY Zenon DEF TypeOK, Goto
  <1> QED
    BY <1>1, StaysHoused

\* Steps of start-up.
LEMMA StartupSwept ==
    ASSUME TypeOK, Control, Stopped, OnTheWay, AllHoused, Startup, Answered
    PROVE  Stopped' /\ OnTheWay' /\ AllHoused'
  <1> USE DEF dockerVars, bootVars, requestVars, storageVars
  <1>1. CASE ListContainers
    <2> /\ UNCHANGED <<containers, op>> /\ phase' = "sweep"
        /\ faults' = faults
      BY <1>1, Zenon DEF ListContainers, getAllContainers, Answered
    <2>2. PICK ids \in SUBSET Ids : /\ getAllContainers(ids)
                                    /\ todo' = {id \in ids : containers[id].image \in SenjunImages}
      BY <1>1, Zenon DEF ListContainers
    <2>3. ids = {id \in Ids : Exists(id)}
      BY <2>2 DEF getAllContainers, Failed, TypeOK, DockerTypeOK
    <2>4. \A id \in SenjunContainers' : id \in todo'
      BY <2>2, <2>3, Zenon DEF SenjunContainers, Exists
    <2> QED
      BY <2>4, Zenon DEF Stopped, OnTheWay, AllHoused
  <1>2. ASSUME NEW x \in Ids, SweepNext(x) PROVE Stopped' /\ OnTheWay' /\ AllHoused'
    <2>1. /\ UNCHANGED containers /\ phase = "sweep" /\ phase' = "sweep" /\ op.stage = "idle"
          /\ todo' = todo \ {x} /\ op'.stage = "isRunning" /\ op'.id = x
      BY <1>2, Zenon DEF SweepNext
    <2>2. \A id \in SenjunContainers' : id \in todo
      BY <2>1 DEF OnTheWay, SenjunContainers, Exists, Removal
    <2> QED
      BY <2>1, <2>2 DEF Stopped, OnTheWay, AllHoused, Removal
  <1>3. CASE SweepDone
    <2>1. /\ UNCHANGED <<containers, op>> /\ phase = "sweep" /\ phase' = "create"
          /\ op.stage = "idle" /\ todo = {}
      BY <1>3 DEF SweepDone
    <2>2. SenjunContainers' = {}
      BY <2>1 DEF OnTheWay, SenjunContainers, Exists, Removal
    <2> QED
      BY <2>1, <2>2 DEF Stopped, OnTheWay, AllHoused
  <1>4. CASE CreateNext \/ BootDone
    <2> /\ UNCHANGED <<containers, storage, made, pc, held>> /\ phase = "create"
        /\ phase' \in {"create", "serve"} /\ op.stage = "idle" /\ op'.stage \in {"idle", "run"}
      BY <1>4 DEF CreateNext, BootDone
    <2>2. SenjunContainers' = SenjunContainers
      BY DEF SenjunContainers, Exists
    <2>3. \A id \in SenjunContainers' : Housed(id)'
      BY <2>2, StaysHoused, ZenonT(30) DEF AllHoused
    <2> QED
      BY <2>3 DEF Stopped, OnTheWay, AllHoused
  <1>5. CASE addValues
    <2> DEFINE k == Entries[entry].language
    <2> /\ UNCHANGED <<containers, op, pc, held>> /\ phase = "create" /\ phase' = "create"
        /\ op.stage = "idle" /\ entry <= Len(Entries) /\ made' = << >>
        /\ storage' = [storage EXCEPT ![k] = storage[k] \o made]
      BY <1>5, Zenon DEF addValues
    <2> /\ k \in Languages /\ storage \in [Languages -> Seq(Ids)] /\ made \in Seq(Ids)
        /\ storage[k] \in Seq(Ids)
      BY EntryAt, Zenon DEF TypeOK
    <2>3. SenjunContainers' = SenjunContainers
      BY Zenon DEF SenjunContainers, Exists
    <2> /\ Len(storage'[k]) = Len(storage[k]) + Len(made)
        /\ \A i \in 1..Len(storage[k]) : storage'[k][i] = storage[k][i]
        /\ \A j \in 1..Len(made) : storage'[k][Len(storage[k]) + j] = made[j]
        /\ Len(storage[k]) \in Nat /\ Len(made) \in Nat
        /\ \A l \in Languages : l # k => storage'[l] = storage[l]
      <3> HIDE DEF k
      <3>2. /\ Len(storage[k] \o made) = Len(storage[k]) + Len(made)
            /\ \A i \in 1..Len(storage[k]) : (storage[k] \o made)[i] = storage[k][i]
            /\ Len(storage[k]) \in Nat /\ Len(made) \in Nat
        OBVIOUS
      <3>3. ASSUME NEW j \in 1..Len(made) PROVE (storage[k] \o made)[Len(storage[k]) + j] = made[j]
        OBVIOUS
      <3> QED
        BY <3>2, <3>3, Zenon
    <2> HIDE DEF k
    <2>5. ASSUME NEW id \in SenjunContainers' PROVE Housed(id)'
      <3>1. Housed(id)
        BY <2>3, Zenon DEF AllHoused
      <3>2. CASE \E l \in Languages : \E i \in 1..Len(storage[l]) : storage[l][i] = id
        <4>0. PICK l \in Languages : \E i \in 1..Len(storage[l]) : storage[l][i] = id
          BY <3>2, Zenon
        <4>1. PICK i \in 1..Len(storage[l]) : storage[l][i] = id
          BY <4>0, Zenon
        <4>2. i \in 1..Len(storage'[l]) /\ storage'[l][i] = id
          BY <4>1
        <4> QED
          BY <4>2, Zenon DEF Housed, Placed
      <3>3. CASE \E j \in 1..Len(made) : made[j] = id
        <4>1. PICK j \in 1..Len(made) : made[j] = id
          BY <3>3, Zenon
        <4>2. Len(storage[k]) + j \in 1..Len(storage'[k])
          OBVIOUS
        <4>3. storage'[k][Len(storage[k]) + j] = id
          BY <4>1, Zenon
        <4> QED
          BY <4>2, <4>3, Zenon DEF Housed, Placed
      <3>4. CASE \E r \in Requests : Uses(r, id)
        BY <3>4, Zenon DEF Housed, Uses
      <3> QED
        BY <3>1, <3>2, <3>3, <3>4 DEF Housed, Placed
    <2> QED
      BY <2>5, Zenon DEF Stopped, OnTheWay, AllHoused
  <1> QED
    BY <1>1, <1>2, <1>3, <1>4, <1>5 DEF Startup

\* Steps of the manipulator.
LEMMA ManipulatorSwept ==
    ASSUME IInv, Stopped, OnTheWay, AllHoused, Manipulator, Answered
    PROVE  Stopped' /\ OnTheWay' /\ AllHoused'
  <1> USE DEF dockerVars, bootVars, requestVars, storageVars
  <1> TypeOK /\ Control /\ Apart
    BY DEF IInv
  <1> /\ op.stage \in Removal => phase \in {"sweep", "serve"}
      /\ op.stage \in Creation => phase \in {"create", "serve"}
      /\ op.stage \in Removal \cup {"add"} => op.id \in Ids
    BY Zenon DEF Control, Alone, OpMatches
  <1>1. CASE TakeTask
    <2> /\ UNCHANGED <<containers, storage, made, pc, held, phase>>
        /\ phase = "serve" /\ op.stage = "idle" /\ queue # << >> /\ op'.stage = Head(queue).kind
      BY <1>1, Zenon DEF TakeTask
    <2>2. op'.stage # "remove"
      <3>1. Head(queue) \in Task
        BY DEF TypeOK
      <3> QED
        BY <3>1 DEF Task
    <2>3. SenjunContainers' = SenjunContainers
      BY DEF SenjunContainers, Exists
    <2>4. \A id \in SenjunContainers' : Housed(id)'
      BY <2>3, StaysHoused, Zenon DEF AllHoused
    <2> QED
      BY <2>2, <2>4, ZenonT(30) DEF Stopped, OnTheWay, AllHoused
  <1>2. CASE RemoveIsRunning
    <2>1. PICK running \in BOOLEAN :
            /\ isRunning(op.id, running)
            /\ op' = [op EXCEPT !.stage = IF running THEN "kill" ELSE "remove"]
      BY <1>2 DEF RemoveIsRunning
    <2> /\ UNCHANGED <<containers, storage, made, pc, held, phase, todo>>
        /\ op.stage = "isRunning"
      BY <1>2, Zenon DEF RemoveIsRunning, isRunning
    <2> /\ op'.id = op.id /\ op'.stage \in {"kill", "remove"}
        /\ op'.stage = "remove" => ~running
      BY <2>1, Zenon DEF TypeOK
    <2>4. op'.stage = "remove" => containers[op.id].status # "running"
      BY <2>1 DEF isRunning, Answered, Failed, TypeOK, DockerTypeOK
    <2>5. SenjunContainers' = SenjunContainers
      BY Zenon DEF SenjunContainers, Exists
    <2>6. AllHoused'
      BY <2>5, StaysHoused, Zenon DEF AllHoused
    <2>7. OnTheWay'
      BY <2>5, Zenon DEF OnTheWay, Removal
    <2> QED
      BY <2>4, <2>6, <2>7 DEF Stopped
  <1>3. CASE RemoveKill
    <2>1. PICK x \in Ids : x = op.id
      BY <1>3 DEF RemoveKill, Removal
    <2> /\ UNCHANGED <<storage, made, pc, held, phase, todo>>
        /\ op.stage = "kill" /\ op'.id = x /\ op'.stage = "remove" /\ killContainer(x)
      BY <1>3, <2>1 DEF RemoveKill
    <2>3. Keeps(x)
      BY Killing, Zenon
    <2>4. Killed(x)
      BY DEF killContainer, Answered, Failed, TypeOK, DockerTypeOK
    <2>5. containers'[x].status # "running" /\ (Exists(x)' => Exists(x))
      BY <2>4 DEF Killed, SetStatus, Exists, TypeOK, DockerTypeOK, Container
    <2>6. \A id \in SenjunContainers' : id \in SenjunContainers
      BY <2>3, <2>5, Zenon DEF SenjunContainers, Keeps, Exists
    <2>7. AllHoused'
      BY <2>6, StaysHoused, ZenonT(30) DEF AllHoused
    <2>8. OnTheWay'
      BY <2>1, <2>6, Zenon DEF OnTheWay, Removal
    <2> QED
      BY <2>5, <2>7, <2>8, Zenon DEF Stopped
  <1>4. CASE RemoveDelete
    <2> PICK x \in Ids : x = op.id
      BY <1>4 DEF RemoveDelete, Removal
    <2> /\ UNCHANGED <<storage, made, held, phase, todo>> /\ OpDone("removed")
        /\ op.stage = "remove" /\ op'.stage = "idle" /\ removeContainer(x)
      BY <1>4, Zenon DEF RemoveDelete, OpDone, NoOp
    <2>3. Keeps(x)
      BY Deleting, Zenon
    <2>4. Deleted(x)
      BY DEF removeContainer, Answered, Failed, TypeOK, DockerTypeOK
    <2>5. ~Exists(x)'
      BY <2>4 DEF Stopped, Deleted, SetStatus, Exists, TypeOK, DockerTypeOK, Container
    <2>6. \A id \in SenjunContainers' : id \in SenjunContainers /\ id # x
      BY <2>3, <2>5, Zenon DEF SenjunContainers, Keeps, Exists
    <2>7. OnTheWay'
      BY <2>6, Zenon DEF OnTheWay
    <2>8. ASSUME phase = "serve", NEW id \in SenjunContainers' PROVE Housed(id)'
      <3>1. Housed(id) /\ id # x
        BY <2>6, <2>8, Zenon DEF AllHoused
      <3>2. CASE Placed(id)
        BY <3>2, ZenonT(30) DEF Housed, Placed
      <3>3. ASSUME NEW r \in Requests, Uses(r, id) PROVE Housed(id)'
        <4>1. op.owner # Boot
          BY <2>8, ZenonT(30) DEF Control, OpMatches, Removal
        <4>2. held[op.owner] = x
          BY <4>1, Zenon DEF Control, OpMatches, Removal
        <4>3. r # op.owner
          BY <3>1, <3>3, <4>2, Zenon DEF Uses
        <4>4. pc'[r] = pc[r]
          BY <4>3, Zenon DEF OpDone, TypeOK
        <4> QED
          BY <3>3, <4>4, ZenonT(30) DEF Housed, Uses
      <3> QED
        BY <3>1, <3>2, <3>3 DEF Housed
    <2>9. AllHoused'
      BY <2>8, Zenon DEF AllHoused, Removal
    <2> QED
      BY <2>7, <2>9, Zenon DEF Stopped
  <1>5. CASE CreateRun
    <2> USE <1>5
    <2> /\ op.stage = "run" /\ UNCHANGED <<phase, storage, made, held>>
        /\ \A c \in Ids : containers[c].status # "unused" => containers'[c] = containers[c]
      BY Creating, Zenon
    <2>2. phase \in {"create", "serve"}
      BY ZenonT(30) DEF Creation
    <2>3. op'.stage # "remove"
      BY Creating DEF NoOp
    <2>4. ASSUME NEW id \in SenjunContainers' PROVE Housed(id)'
      <3>1. CASE id \in SenjunContainers
        <4>1. Housed(id)
          BY <2>2, <3>1 DEF AllHoused
        <4>2. \A r \in Requests : pc[r] \in Holding => pc'[r] = pc[r]
          <5>2. CASE OpDone("reply")
            <6>1. op.owner # Boot => pc[op.owner] \notin Holding
              BY Zenon DEF Control, OpMatches, Creation, Holding
            <6> QED
              BY <5>2, <6>1 DEF OpDone
          <5> QED
            BY <5>2, Creating, ZenonT(30)
        <4> QED
          BY <4>1, <4>2, StaysHoused, ZenonT(30)
      <3>2. CASE id \notin SenjunContainers
        <4>1. containers'[id] # containers[id]
          BY <3>2, Zenon DEF SenjunContainers, Exists
        <4>2. op'.stage = "add" /\ op'.id = id
          <5>1. PICK new \in Ids \cup {NoId} :
                  /\ run(IF op.owner = Boot THEN Entries[entry].imageName ELSE image[op.owner], new)
                  /\ new # NoId => op' = [op EXCEPT !.stage = "add", !.id = new]
            BY Zenon DEF CreateRun
          <5>2. \A c \in Ids : c # new => containers'[c] = containers[c]
            BY <5>1, RunAnswered
          <5>3. id = new /\ id \in Ids
            BY <4>1, <5>2, Zenon DEF SenjunContainers
          <5> QED
            BY <5>1, <5>3, Zenon DEF TypeOK
        <4> QED
          BY <4>2, Zenon DEF Housed, Placed
      <3> QED
        BY <3>1, <3>2, Zenon
    <2> QED
      BY <2>2, <2>3, <2>4, Zenon DEF Stopped, OnTheWay, AllHoused
  <1>6. CASE CreateAdd
    <2> USE <1>6
    <2> /\ op.stage = "add" /\ op'.stage = "idle" /\ OpDone("reply")
        /\ UNCHANGED <<phase, containers, held>>
      BY Zenon DEF CreateAdd, OpDone, NoOp
    <2>2. phase \in {"create", "serve"}
      BY DEF Creation
    <2>3. SenjunContainers' = SenjunContainers
      BY DEF SenjunContainers, Exists
    <2>4. \A r \in Requests : pc[r] \in Holding => pc'[r] = pc[r]
      <3>1. op.owner # Boot => pc[op.owner] \notin Holding
        BY Zenon DEF Control, OpMatches, Creation, Holding
      <3> QED
        BY <3>1, Zenon DEF OpDone, TypeOK
    <2>5. ASSUME NEW id, Placed(id) PROVE Placed(id)'
      <3>1. CASE op.owner = Boot
        <4>1. UNCHANGED storage /\ made' = Append(made, op.id) /\ made \in Seq(Ids) /\ op.id \in Ids
          BY <3>1, Zenon DEF CreateAdd, TypeOK
        <4> QED
          BY <2>5, <4>1 DEF Placed
      <3>2. CASE op.owner # Boot
        <4> DEFINE k == LanguageOf[op.owner]
        <4> /\ k \in Languages /\ UNCHANGED made /\ storage[k] \in Seq(Ids) /\ op.id \in Ids
            /\ storage'[k] = Append(storage[k], op.id)
            /\ \A l \in Languages : l # k => storage'[l] = storage[l]
          BY <3>2, Zenon DEF CreateAdd, TypeOK
        <4> HIDE DEF k
        <4> /\ Len(storage'[k]) = Len(storage[k]) + 1 /\ Len(storage[k]) \in Nat
            /\ storage'[k][Len(storage[k]) + 1] = op.id
            /\ \A j \in 1..Len(storage[k]) : storage'[k][j] = storage[k][j]
          OBVIOUS
        <4>3. Len(storage[k]) + 1 \in 1..Len(storage'[k]) /\ \A j \in 1..Len(storage[k]) : j \in 1..Len(storage'[k])
          OBVIOUS
        <4>4. ASSUME NEW l \in Languages, NEW i \in 1..Len(storage[l]), storage[l][i] = id
              PROVE  Placed(id)'
          <5>1. i \in 1..Len(storage'[l]) /\ storage'[l][i] = id
            BY <4>3, <4>4, Zenon
          <5> QED
            BY <5>1, Zenon DEF Placed
        <4> QED
          BY <2>5, <4>3, <4>4, ZenonT(30) DEF Placed
      <3> QED
        BY <3>1, <3>2
    <2>6. \A id \in SenjunContainers' : Housed(id)'
      BY <2>2, <2>3, <2>4, <2>5 DEF AllHoused, Housed, Uses
    <2> QED
      BY <2>2, <2>6, Zenon DEF Stopped, OnTheWay, AllHoused
  <1> QED
    BY <1>1, <1>2, <1>3, <1>4, <1>5, <1>6 DEF Manipulator

\* Steps of a request.
LEMMA RequestSwept ==
    ASSUME IInv, Stopped, OnTheWay, AllHoused, NEW r \in Requests, Accept(r) \/ Serve(r)
    PROVE  Stopped' /\ OnTheWay' /\ AllHoused'
  <1> USE DEF dockerVars, bootVars, requestVars, storageVars
  <1> TypeOK
    BY DEF IInv
  <1> UNCHANGED <<containers, op, todo, phase, made>>
    <2>1. CASE \/ Accept(r) \/ Dispatch(r) \/ RejectNoSources(r) \/ RejectWrongType(r)
               \/ extract(r) \/ ScheduleRemove(r) \/ ScheduleCreate(r) \/ Reply(r)
      BY <2>1, ZenonT(30) DEF Accept, Dispatch, RejectNoSources, RejectWrongType, AnswerWithout,
                              extract, ScheduleRemove, ScheduleCreate, Reply
    <2>2. CASE getInfo(r) \/ prepareCode(r) \/ runCode(r)
      BY <2>2, ZenonT(30) DEF getInfo, prepareCode, runCode, getImage, putArchive, exec
    <2> QED
      BY <2>1, <2>2, Zenon DEF Serve
  <1>c. SenjunContainers' = SenjunContainers
    BY DEF SenjunContainers, Exists
  <1>1. ASSUME NEW id, Housed(id) PROVE Housed(id)'
    <2>1. CASE extract(r)
      <3> DEFINE n == Len(storage[LanguageOf[r]])
      <3> /\ LanguageOf[r] \in Languages
          /\ held'[r] = storage[LanguageOf[r]][n]
          /\ \A q \in Requests : q # r => held'[q] = held[q] /\ pc'[q] = pc[q]
          /\ pc[r] = "start" /\ pc'[r] = "getInfo"
        BY <2>1, Extracting, ZenonT(30)
      <3>2. /\ storage[LanguageOf[r]] \in Seq(Ids) /\ storage[LanguageOf[r]] # << >>
            /\ storage' = [storage EXCEPT ![LanguageOf[r]] = SubSeq(storage[LanguageOf[r]], 1, n - 1)]
        BY <2>1, ZenonT(30) DEF extract, TypeOK
      <3> /\ n \in Nat \ {0}
          /\ Len(storage'[LanguageOf[r]]) = n - 1
          /\ \A i \in 1..n - 1 : storage'[LanguageOf[r]][i] = storage[LanguageOf[r]][i]
          /\ \A l \in Languages : l # LanguageOf[r] => storage'[l] = storage[l]
        BY <3>2, FrontLast DEF TypeOK
      <3> HIDE DEF n
      <3>4. ASSUME NEW l \in Languages, NEW i \in 1..Len(storage[l]), storage[l][i] = id
            PROVE  Housed(id)'
        <4> USE <3>4
        <4>1. CASE l = LanguageOf[r] /\ i = n
          <5>1. held'[r] = id
            BY <4>1, Zenon
          <5> QED
            BY <5>1, Zenon DEF Housed, Uses, Holding
        <4>2. CASE ~(l = LanguageOf[r] /\ i = n)
          <5>1. i \in 1..Len(storage'[l]) /\ storage'[l][i] = id
            <6>2. CASE l = LanguageOf[r]
              <7>1. i \in 1..n - 1
                BY <4>2, <6>2 DEF n
              <7> QED
                BY <7>1, Zenon
            <6> QED
              BY <6>2, Zenon
          <5> QED
            BY <5>1, Zenon DEF Housed, Placed
        <4> QED
          BY <4>1, <4>2, Zenon
      <3>5. ASSUME NEW q \in Requests, Uses(q, id) PROVE Housed(id)'
        <4>1. q # r
          BY <3>5, Zenon DEF Uses, Holding
        <4> QED
          BY <3>5, <4>1, Zenon DEF Housed, Uses
      <3> QED
        BY <1>1, <3>4, <3>5, ZenonT(30) DEF Housed, Placed
    <2>2. CASE ~extract(r)
      <3>1. UNCHANGED <<storage, held>>
        <4>1. CASE \/ Accept(r) \/ Dispatch(r) \/ RejectNoSources(r) \/ RejectWrongType(r)
                   \/ ScheduleRemove(r) \/ ScheduleCreate(r) \/ Reply(r)
          BY <4>1, ZenonT(30) DEF Accept, Dispatch, RejectNoSources, RejectWrongType,
                                  AnswerWithout, ScheduleRemove, ScheduleCreate, Reply
        <4>2. CASE getInfo(r) \/ prepareCode(r) \/ runCode(r)
          BY <4>2, ZenonT(30) DEF getInfo, prepareCode, runCode
        <4> QED
          BY <2>2, <4>1, <4>2, Zenon DEF Serve
      <3>2. PICK where : Goto(r, where) /\ (pc[r] \in Holding => where \in Holding)
        <4>1. CASE \/ Accept(r) \/ Dispatch(r) \/ RejectNoSources(r) \/ RejectWrongType(r)
                   \/ ScheduleCreate(r) \/ Reply(r)
          <5>1. pc[r] \in {"new", "queued", "start", "removed", "reply"}
            BY <4>1, ZenonT(30) DEF Accept, Dispatch, RejectNoSources, RejectWrongType,
                                    AnswerWithout, ScheduleCreate, Reply
          <5>2. \E where : Goto(r, where)
            BY <4>1, ZenonT(30) DEF Accept, Dispatch, RejectNoSources, RejectWrongType,
                                    AnswerWithout, ScheduleCreate, Reply
          <5> QED
            BY <5>1, <5>2 DEF Holding
        <4>2. CASE getInfo(r) \/ prepareCode(r) \/ runCode(r) \/ ScheduleRemove(r)
          <5>1. \/ Goto(r, "putArchive") \/ Goto(r, "exec") \/ Goto(r, "release")
                \/ Goto(r, "removing")
            BY <4>2, ZenonT(30) DEF getInfo, prepareCode, runCode, ScheduleRemove
          <5> QED
            BY <5>1 DEF Holding
        <4> QED
          BY <2>2, <4>1, <4>2, Zenon DEF Serve
      <3> QED
        BY <1>1, <3>1, <3>2, MovesHoused
    <2> QED
      BY <2>1, <2>2
  <1> QED
    BY <1>c, <1>1, Zenon DEF Stopped, OnTheWay, AllHoused

\* As long as no call of this life of the service fails, every step leaves the senjun
\* containers on the way to be removed, or in a place.
LEMMA SweptStep == IInv /\ Swept /\ [Next]_vars => Swept'
  <1> SUFFICES ASSUME IInv, Swept, [Next]_vars, faults' = bootFaults'
               PROVE  Stopped' /\ OnTheWay' /\ AllHoused'
    BY DEF Swept
  <1> TypeOK /\ Control
    BY DEF IInv
  <1>1. CASE Crash
    <2>1. phase' = "list" /\ op'.stage = "idle"
      BY <1>1, Zenon DEF Crash, NoOp
    <2> QED
      BY <2>1 DEF Stopped, OnTheWay, AllHoused
  <1>2. CASE ~Crash
    <2>1. bootFaults' = bootFaults
      BY <1>2, LifeStep
    <2> Answered /\ Stopped /\ OnTheWay /\ AllHoused
      BY <2>1, Calls DEF Answered, Failed, TypeOK, DockerTypeOK, Swept
    <2>3. ASSUME NEW id \in Ids, Exit(id) PROVE Stopped' /\ OnTheWay' /\ AllHoused'
      <3> /\ ContainerExits(id)
          /\ UNCHANGED <<phase, todo, op, storage, made, pc, held>>
        BY <2>3 DEF Exit, bootVars, storageVars, requestVars
      <3>2. Keeps(id)
        BY Exiting, Zenon
      <3>3. Exists(id) /\ containers'[id].status # "running"
        BY DEF ContainerExits, SetStatus, Exists, TypeOK, DockerTypeOK
      <3>4. \A x \in SenjunContainers' : x \in SenjunContainers
        BY <3>2, <3>3, Zenon DEF SenjunContainers, Keeps, Exists
      <3>5. \A x \in Ids : containers'[x].status = "running" => containers[x].status = "running"
        BY <3>2, <3>3, Zenon DEF Keeps
      <3>6. Stopped'
        BY <3>5, ZenonT(30) DEF Stopped, Control, OpMatches, Removal
      <3>7. AllHoused'
        BY <3>4, StaysHoused, ZenonT(30) DEF AllHoused
      <3> QED
        BY <3>4, <3>6, <3>7 DEF OnTheWay
    <2>4. CASE UNCHANGED vars
      <3> UNCHANGED <<containers, phase, todo, op, storage, made, pc, held>>
        BY <2>4, Zenon DEF vars, dockerVars, bootVars, storageVars, requestVars
      <3>2. SenjunContainers' = SenjunContainers
        BY DEF SenjunContainers, Exists
      <3>3. AllHoused'
        BY <3>2, StaysHoused, ZenonT(30) DEF AllHoused
      <3> QED
        BY <3>2, <3>3, Zenon DEF Stopped, OnTheWay
    <2> QED
      BY <1>2, <2>3, <2>4, StartupSwept, ManipulatorSwept, RequestSwept DEF Next, Finished
  <1> QED
    BY <1>1, <1>2

\* It starts with nothing to answer for.
LEMMA SweptInit == Init => Swept
  BY DEF Init, NoOp, Swept, Stopped, OnTheWay, AllHoused

\* A place holds a container that exists.
LEMMA HousedExists ==
    ASSUME IInv, NEW id \in Ids, Housed(id) PROVE Exists(id)
  <1>1. CASE Placed(id)
    BY <1>1, SMTT(20) DEF IInv, Stocked, Fresh, Placed
  <1>2. CASE \E r \in Requests : Uses(r, id)
    BY <1>2 DEF IInv, Lent, Uses
  <1> QED
    BY <1>1, <1>2, SMTT(20) DEF Housed

LEMMA SweptNoLeak == ASSUME IInv, Swept PROVE NoLeak
  <1> SUFFICES ASSUME phase = "serve", faults = bootFaults, NEW id \in Ids
               PROVE  id \in SenjunContainers <=>
                        /\ containers[id].image \in SenjunImages
                        /\ \/ InStorage(id)
                           \/ \E r \in Requests : Uses(r, id)
                           \/ op.stage = "add" /\ op.id = id
    BY ZenonT(30) DEF NoLeak, SenjunContainers
  <1>1. made = << >>
    BY DEF IInv, Control, ListsMatch
  <1>2. Housed(id) <=> \/ InStorage(id)
                       \/ \E r \in Requests : Uses(r, id)
                       \/ op.stage = "add" /\ op.id = id
    BY <1>1 DEF Housed, Placed, InStorage
  <1>3. id \in SenjunContainers => Housed(id)
    BY DEF Swept, AllHoused
  <1>4. id \in SenjunContainers <=> Exists(id) /\ containers[id].image \in SenjunImages
    BY DEF SenjunContainers
  <1> QED
    BY <1>2, <1>3, <1>4, HousedExists, ZenonT(30)

\* removeCodeLauncher and the clean-up at start-up leave no container behind, for any
\* configuration and any number of requests and crashes: as long as no call of this
\* life failed, the senjun containers are those of the launchers.
THEOREM ProviderNoLeak == Spec => []NoLeak
  <1>1. IInv /\ Swept => NoLeak
    BY SweptNoLeak
  <1> QED
    BY <1>1, SweptInit, SweptStep, ProviderInvariant, PTL DEF Spec

-----------------------------------------------------------------------------
(* How many launchers there are, with the facts about finite sets of the   *)
(* library: a fact slows down every proof after it, so they come in here.  *)

INSTANCE FiniteSetTheorems

LEMMA Sets == SetFacts
  <1>1. \A S : IsFiniteSet(S) => Cardinality(S) \in Nat
    BY FS_CardinalityType
  <1>2. \A S, T : IsFiniteSet(S) /\ T \in SUBSET S =>
                   IsFiniteSet(T) /\ Cardinality(T) <= Cardinality(S)
    BY FS_Subset
  <1>3. \A S, x : IsFiniteSet(S) /\ x \notin S =>
                   /\ IsFiniteSet(S \cup {x})
                   /\ Cardinality(S \cup {x}) = Cardinality(S) + 1
    BY FS_AddElement, Zenon
  <1>4. \A S, x : IsFiniteSet(S) /\ x \in S =>
                   /\ IsFiniteSet(S \ {x})
                   /\ Cardinality(S \ {x}) = Cardinality(S) - 1
    BY FS_RemoveElement, Zenon
  <1>5. IsFiniteSet({}) /\ Cardinality({}) = 0
    BY FS_EmptySet
  <1> QED
    BY <1>1, <1>2, <1>3, <1>4, <1>5, SMTT(20) DEF SetFacts

\* Where the containers and the launchers are, at all times.
THEOREM ProviderCounts == Spec => []CInv
  <1>1. Init => Counted
    BY Sets, CountedInit
  <1>2. IInv /\ Counted /\ [Next]_vars => Counted'
    BY Sets, CountedStep
  <1> QED
    BY <1>1, <1>2, SweptInit, SweptStep, ProviderInvariant, PTL DEF Spec, CInv

\* The free launchers of one language, counted.
LEMMA FreeOfOne ==
    ASSUME NEW l, Length(l) \in Nat
    PROVE  Cardinality(Free({l})) = Length(l)
  <1> DEFINE f == [i \in 1..Length(l) |-> <<l, i>>]
  <1>1. \A p : p \in Free({l}) <=> \E i \in 1..Length(l) : p = <<l, i>>
    BY DEF Free
  <1>2. f \in [1..Length(l) -> Free({l})]
    BY <1>1
  <1>3. \A i, j \in 1..Length(l) : f[i] = f[j] => i = j
    OBVIOUS
  <1>4. \A p \in Free({l}) : \E i \in 1..Length(l) : f[i] = p
    BY <1>1
  <1> HIDE DEF f
  <1>5. f \in Bijection(1..Length(l), Free({l}))
    BY <1>2, <1>3, <1>4, ZenonT(30) DEF Bijection, Injection, Surjection, IsInjective
  <1> QED
    BY <1>5, FS_CountingElements DEF ExistsBijection

\* Of the launchers of a language none is lost and none is made up, for any
\* configuration and any number of requests, failing calls, exits and crashes:
\* each failing call of this life of the service costs at most one.
THEOREM ProviderShrinksOnlyByFaults == Spec => []ShrinksOnlyByFaults
  <1>1. IInv /\ CInv => ShrinksOnlyByFaults
    BY Sets, FreeOfOne, CountedShrinks, SMTT(20) DEF CInv
  <1> QED
    BY <1>1, ProviderInvariant, ProviderCounts, PTL

\* The containers are not more than the free launchers and the requests that have
\* one, and those not more than the slots.
LEMMA CountedContainers == ASSUME IInv, Swept, Counted PROVE NeverMoreThanConfigured
  <1> SUFFICES ASSUME phase = "serve", faults = bootFaults
               PROVE  Cardinality(SenjunContainers) <= Cardinality(Slots)
    BY DEF NeverMoreThanConfigured
  <1> DEFINE F == Free(Languages)
             R == Taken(Languages)
             f == [p \in F |-> Free1(p)]
             g == [r \in R |-> Taken1(r)]
             A == {Free1(p) : p \in F}
             B == {Taken1(r) : r \in R}
             C == SenjunContainers
  <1> /\ IsFiniteSet(F) /\ IsFiniteSet(R) /\ IsFiniteSet(Slots)
      /\ Cardinality(F) + Cardinality(R) <= Cardinality(Slots)
    <2>1. CountedFor(Languages)
      BY DEF Counted
    <2> QED
      BY <2>1, AllTried DEF CountedFor
  <1>2. C \in SUBSET (A \cup B)
    BY HousedIn
  <1>3. f \in Surjection(F, A) /\ g \in Surjection(R, B)
    BY DEF Surjection
  <1> HIDE DEF f, g, A, B, F, R, C
  <1> IsFiniteSet(A) /\ Cardinality(A) <= Cardinality(F)
    BY <1>3, FS_Surjection
  <1> IsFiniteSet(B) /\ Cardinality(B) <= Cardinality(R)
    BY <1>3, FS_Surjection
  <1> IsFiniteSet(A \cup B) /\ Cardinality(A \cup B) <= Cardinality(A) + Cardinality(B)
    <2>1. IsFiniteSet(A \cap B)
      BY FS_Subset
    <2>2. Cardinality(A \cap B) \in Nat /\ Cardinality(A) \in Nat /\ Cardinality(B) \in Nat
      BY <2>1, FS_CardinalityType
    <2>3. /\ IsFiniteSet(A \cup B)
          /\ Cardinality(A \cup B) = Cardinality(A) + Cardinality(B) - Cardinality(A \cap B)
      BY FS_Union, Zenon
    <2> QED
      BY <2>2, <2>3
  <1>7. IsFiniteSet(C) /\ Cardinality(C) <= Cardinality(A \cup B)
    BY <1>2, FS_Subset
  <1>8. /\ Cardinality(A) \in Nat /\ Cardinality(B) \in Nat
        /\ Cardinality(F) \in Nat /\ Cardinality(R) \in Nat
        /\ Cardinality(A \cup B) \in Nat /\ Cardinality(C) \in Nat /\ Cardinality(Slots) \in Nat
    BY <1>7, FS_CardinalityType
  <1>9. Cardinality(C) <= Cardinality(Slots)
    BY <1>7, <1>8, SMTT(20)
  <1> QED
    BY <1>9 DEF C

\* restartCodeLauncher removes before it creates: for any configuration and any
\* number of requests and crashes, as long as no call of this life failed there
\* are never more containers than Config asks for.
THEOREM ProviderNeverMoreThanConfigured == Spec => []NeverMoreThanConfigured
  <1>1. IInv /\ CInv => NeverMoreThanConfigured
    BY CountedContainers DEF CInv
  <1> QED
    BY <1>1, ProviderInvariant, ProviderCounts, PTL
=============================================================================
