---------------------- MODULE RestartingProviderSteps -----------------------
(***************************************************************************)
(* What the steps of RestartingProvider do: to lists, to the daemon, to the *)
(* types of the variables and to who waits for which operation.            *)
(***************************************************************************)
EXTENDS RestartingProviderInvariant, Integers, TLAPS

-----------------------------------------------------------------------------
(* The operations of std::list that the storage uses.                      *)

\* What pop_back leaves of a list, and what back() was.
LEMMA FrontLast ==
    ASSUME NEW S, NEW s \in Seq(S), s # << >>
    PROVE  /\ s[Len(s)] \in S
           /\ SubSeq(s, 1, Len(s) - 1) \in Seq(S)
           /\ Len(s) \in Nat \ {0}
           /\ Len(SubSeq(s, 1, Len(s) - 1)) = Len(s) - 1
           /\ \A i \in 1..Len(s) - 1 : SubSeq(s, 1, Len(s) - 1)[i] = s[i]
  <1>2. PICK n \in Nat : n = Len(s) - 1
    OBVIOUS
  <1> QED
    BY <1>2

\* The positions of a list after push_back.
LEMMA AppendAt ==
    ASSUME NEW S, NEW s \in Seq(S), NEW e \in S, NEW k \in 1..Len(Append(s, e))
    PROVE  \/ k \in 1..Len(s) /\ Append(s, e)[k] = s[k]
           \/ k = Len(s) + 1 /\ Append(s, e)[k] = e
  OBVIOUS

\* What the assumptions say of markers, images and languages.
LEMMA Constants ==
    /\ NoId \notin Ids /\ NoImage \notin Images /\ Boot \notin Requests
    /\ Foreign \subseteq Ids
    /\ ForeignImage \in Images /\ ForeignImage \notin SenjunImages
    /\ LanguageOf \in [Requests -> Languages]
  BY DockerAssumption, ProviderAssumption

USE Constants

-----------------------------------------------------------------------------
(* The configuration.                                                      *)

\* The tables of Config are walked as one list.
LEMMA EntriesType == Entries \in Seq(Entry)
  BY ProviderAssumption DEF Entries

\* An entry start-up is at names an image and configures it for its language.
LEMMA EntryAt ==
    ASSUME NEW n \in Nat \ {0}, n <= Len(Entries)
    PROVE  /\ Entries[n].language \in Languages
           /\ Entries[n].imageName \in Images
           /\ ConfiguredFor(Entries[n].language, Entries[n].imageName)
  <1>1. n \in 1..Len(Entries) /\ Entries[n] \in Entry
    BY EntriesType
  <1> QED
    BY <1>1 DEF Entry, ConfiguredFor

\* What is configured for a language is an image.
LEMMA ConfiguredImage == ASSUME NEW l, NEW i, ConfiguredFor(l, i) PROVE i \in Images
  <1>1. PICK n \in 1..Len(Entries) : Entries[n].imageName = i
    BY DEF ConfiguredFor
  <1> QED
    BY <1>1, EntryAt

-----------------------------------------------------------------------------
(* The daemon.                                                             *)

\* Calls that change the status of at most one container: images stay, ids do not
\* become used or unused, and no other container ceases to exist.
Keeps(x) ==
    \A id \in Ids :
      /\ containers'[id].image = containers[id].image
      /\ containers'[id].status = "unused" <=> containers[id].status = "unused"
      /\ id # x /\ Exists(id) => Exists(id)'
      /\ id # x => containers'[id] = containers[id]

\* Counting failing calls.
LEMMA Counting ==
    ASSUME TypeOK, Answered \/ Failed
    PROVE  faults' \in 0..MaxFaults /\ bootFaults \in 0..faults'
  BY DockerAssumption DEF TypeOK, DockerTypeOK, Answered, Failed

\* A step makes one Docker call at most; failing calls are counted.
LEMMA Calls == ASSUME [Next]_vars PROVE Answered \/ Failed
  <1> USE DEF dockerVars
  <1>1. CASE Startup
    BY <1>1, Zenon DEF Startup, ListContainers, getAllContainers, SweepNext, SweepDone,
       CreateNext, addValues, BootDone, Answered
  <1>2. CASE Manipulator
    BY <1>2, ZenonT(30) DEF Manipulator, TakeTask, RemoveIsRunning, isRunning, RemoveKill, killContainer,
                RemoveDelete, removeContainer, CreateRun, run, CreateAdd, Answered
  <1>3. ASSUME NEW r \in Requests, Accept(r) \/ Serve(r) PROVE Answered \/ Failed
    BY <1>3, Zenon DEF Accept, Serve, Dispatch, RejectNoSources, RejectWrongType, AnswerWithout,
       extract, getInfo, getImage, prepareCode, putArchive, runCode, exec, ScheduleRemove,
       ScheduleCreate, Reply, Answered
  <1>4. CASE (\E id \in Ids : Exit(id)) \/ Crash \/ Finished \/ UNCHANGED vars
    BY <1>4, Zenon DEF Exit, ContainerExits, Crash, Finished, vars, Answered
  <1> QED
    BY <1>1, <1>2, <1>3, <1>4, Zenon DEF Next

\* Calls that only ask change nothing.
LEMMA Asking ==
    ASSUME TypeOK,
           NEW id, NEW result,
           \/ getAllContainers(result) \/ isRunning(id, result) \/ getImage(id, result)
           \/ putArchive(id, result) \/ exec(id, result)
    PROVE  /\ DockerTypeOK' /\ bootFaults \in 0..faults'
           /\ UNCHANGED containers
  <1>1. UNCHANGED <<containers, exits>> /\ (Answered \/ Failed)
    BY DEF getAllContainers, isRunning, getImage, putArchive, exec
  <1> QED
    BY <1>1, Counting, Zenon DEF TypeOK, DockerTypeOK

\* Setting a status keeps the rest of the daemon's state.
LEMMA StatusSet ==
    ASSUME TypeOK, NEW id \in Ids, NEW s \in {"exited", "removed"},
           containers[id].status # "unused",
           SetStatus(id, s)
    PROVE  /\ containers' \in [Ids -> Container]
           /\ Keeps(id)
           /\ s = "exited" /\ Exists(id) => Exists(id)'
  <1>1. /\ containers \in [Ids -> Container]
        /\ containers' = [containers EXCEPT ![id] = [@ EXCEPT !.status = s]]
    BY DEF TypeOK, DockerTypeOK, SetStatus
  <1> /\ containers' \in [Ids -> Container]
      /\ containers'[id] = [containers[id] EXCEPT !.status = s]
      /\ \A c \in Ids \ {id} : containers'[c] = containers[c]
    BY <1>1 DEF Container
  <1>3. containers'[id].status = s /\ containers'[id].image = containers[id].image
    BY DEF Container
  <1>4. ASSUME NEW c \in Ids
        PROVE  /\ containers'[c].image = containers[c].image
               /\ containers'[c].status = "unused" <=> containers[c].status = "unused"
               /\ c # id /\ Exists(c) => Exists(c)'
               /\ c # id => containers'[c] = containers[c]
    <2>1. CASE c = id
      BY <1>3, <2>1, Zenon
    <2>2. CASE c # id
      BY <2>2 DEF Exists
    <2> QED
      BY <2>1, <2>2, Zenon
  <1>5. s = "exited" /\ Exists(id) => Exists(id)'
    BY DEF Exists
  <1> QED
    BY <1>4, <1>5, Zenon DEF Keeps

\* A kill request.
LEMMA Killing ==
    ASSUME TypeOK, NEW id \in Ids, killContainer(id)
    PROVE  /\ DockerTypeOK' /\ bootFaults \in 0..faults'
           /\ Keeps(id)
           /\ Exists(id) => Exists(id)'
  <1>1. /\ Answered \/ Failed
        /\ UNCHANGED exits
        /\ UNCHANGED containers \/ (containers[id].status = "running" /\ SetStatus(id, "exited"))
    BY DEF killContainer, Killed
  <1>2. containers' \in [Ids -> Container] /\ Keeps(id) /\ (Exists(id) => Exists(id)')
    <2>1. CASE UNCHANGED containers
      BY <2>1, Zenon DEF TypeOK, DockerTypeOK, Keeps, Exists
    <2>2. CASE containers[id].status = "running" /\ SetStatus(id, "exited")
      BY <2>2, StatusSet
    <2> QED
      BY <1>1, <2>1, <2>2, Zenon
  <1> QED
    BY <1>1, <1>2, Counting, Zenon DEF TypeOK, DockerTypeOK

\* A delete request.
LEMMA Deleting ==
    ASSUME TypeOK, NEW id \in Ids, removeContainer(id)
    PROVE  /\ DockerTypeOK' /\ bootFaults \in 0..faults'
           /\ Keeps(id)
  <1>1. /\ Answered \/ Failed
        /\ UNCHANGED exits
        /\ UNCHANGED containers \/ (containers[id].status = "exited" /\ SetStatus(id, "removed"))
    BY DEF removeContainer, Deleted
  <1>2. containers' \in [Ids -> Container] /\ Keeps(id)
    <2>1. CASE UNCHANGED containers
      BY <2>1, Zenon DEF TypeOK, DockerTypeOK, Keeps, Exists
    <2>2. CASE containers[id].status = "exited" /\ SetStatus(id, "removed")
      BY <2>2, StatusSet
    <2> QED
      BY <1>1, <2>1, <2>2, Zenon
  <1> QED
    BY <1>1, <1>2, Counting, Zenon DEF TypeOK, DockerTypeOK

\* A container that stops by itself.
LEMMA Exiting ==
    ASSUME TypeOK, NEW id \in Ids, ContainerExits(id)
    PROVE  /\ DockerTypeOK' /\ bootFaults \in 0..faults'
           /\ Keeps(id)
           /\ id \notin Foreign
           /\ Exists(id) => Exists(id)'
  <1>1. containers' \in [Ids -> Container] /\ Keeps(id) /\ (Exists(id) => Exists(id)')
    BY StatusSet DEF ContainerExits
  <1> QED
    BY <1>1, DockerAssumption DEF ContainerExits, TypeOK, DockerTypeOK

\* A run request starts an unused id, or none, and touches nothing else.
LEMMA Running ==
    ASSUME TypeOK, NEW i, NEW id \in Ids \cup {NoId}, run(i, id)
    PROVE  /\ DockerTypeOK' /\ bootFaults \in 0..faults'
           /\ \A c \in Ids : containers[c].status # "unused" => containers'[c] = containers[c]
           /\ \A c \in Ids : containers'[c].status = "unused" => containers[c].status = "unused"
           /\ id # NoId =>
                /\ i \in Images
                /\ id \in Ids
                /\ containers[id].status = "unused"
                /\ Exists(id)'
                /\ containers'[id].image = i
  <1>1. /\ Answered \/ Failed
        /\ UNCHANGED exits
        /\ \/ UNCHANGED containers /\ id = NoId
           \/ \E s \in {"running", "exited"} : Started(i, s) /\ id \in {NewId, NoId}
    BY DEF run
  <1>3. ASSUME NEW s \in {"running", "exited"}, Started(i, s), id \in {NewId, NoId}
        PROVE  /\ containers' \in [Ids -> Container]
               /\ \A c \in Ids : containers[c].status # "unused" => containers'[c] = containers[c]
               /\ \A c \in Ids : containers'[c].status = "unused" => containers[c].status = "unused"
               /\ id # NoId =>
                    /\ i \in Images
                    /\ id \in Ids
                    /\ containers[id].status = "unused"
                    /\ Exists(id)'
                    /\ containers'[id].image = i
    <2> USE <1>3
    <2>1. NewId \in Unused
      BY DEF Started, NewId
    <2>2. NewId \in Ids /\ containers[NewId].status = "unused"
      BY <2>1 DEF Unused
    <2>3. /\ i \in Images
          /\ containers' = [containers EXCEPT ![NewId] = [status |-> s, image |-> i]]
      BY DEF Started
    <2> HIDE DEF NewId
    <2> QED
      BY <2>2, <2>3, Zenon DEF TypeOK, DockerTypeOK, Container, Exists
  <1> QED
    BY <1>1, <1>3, Counting, Zenon DEF TypeOK, DockerTypeOK

\* A run request that is answered creates the container whose id it returns and no
\* other, and returns none for the empty image name only.
LEMMA RunAnswered ==
    ASSUME TypeOK, NEW i, NEW id \in Ids \cup {NoId}, run(i, id), Answered
    PROVE  /\ \A c \in Ids : c # id => containers'[c] = containers[c]
           /\ id = NoId => i \notin Images
  <1>1. ~Failed
    BY DEF TypeOK, DockerTypeOK, Answered, Failed
  <1>2. CASE Started(i, "running") /\ id = NewId
    <2> USE <1>2
    <2>1. NewId \in Unused
      BY DEF Started, NewId
    <2>2. id \in Ids
      BY <2>1 DEF Unused
    <2>3. containers' = [containers EXCEPT ![id] = [status |-> "running", image |-> i]]
      BY DEF Started
    <2> QED
      BY <2>2, <2>3, Zenon DEF TypeOK, DockerTypeOK
  <1> QED
    BY <1>1, <1>2, Zenon DEF run

-----------------------------------------------------------------------------
(* Creations, extractions and lives.                                       *)

\* The outcomes of createCodeLauncher: a container that was not used before, or none.
LEMMA Creating ==
    ASSUME TypeOK, CreateRun
    PROVE  /\ op.stage = "run"
           /\ UNCHANGED <<phase, todo, entry, made, storage, queue, held, image, served>>
           /\ \A c \in Ids : containers[c].status # "unused" => containers'[c] = containers[c]
           /\ \A c \in Ids : containers'[c].status = "unused" => containers[c].status = "unused"
           /\ \/ /\ op' = NoOp
                 /\ OpDone("reply")
              \/ \E id \in Ids :
                   /\ op' = [stage |-> "add", id |-> id, owner |-> op.owner]
                   /\ UNCHANGED pc
                   /\ containers[id].status = "unused"
                   /\ containers'[id].status \in {"running", "exited"}
                   /\ containers'[id].image \in Images
                   /\ containers'[id].image = IF op.owner = Boot THEN Entries[entry].imageName
                                                                 ELSE image[op.owner]
  <1> DEFINE i == IF op.owner = Boot THEN Entries[entry].imageName ELSE image[op.owner]
  <1> PICK id \in Ids \cup {NoId} :
        /\ run(i, id)
        /\ \/ /\ id # NoId
              /\ op' = [op EXCEPT !.stage = "add", !.id = id]
              /\ UNCHANGED <<index, requestVars>>
           \/ /\ id = NoId
              /\ OpDone("reply")
    BY Zenon DEF CreateRun
  <1>2. op.stage = "run" /\ UNCHANGED <<phase, todo, entry, made, storage, queue>>
    BY DEF CreateRun, storageVars
  <1>3. UNCHANGED <<held, image, served>>
    BY DEF OpDone, requestVars
  <1> HIDE DEF i
  <1> /\ \A c \in Ids : containers[c].status # "unused" => containers'[c] = containers[c]
      /\ \A c \in Ids : containers'[c].status = "unused" => containers[c].status = "unused"
      /\ id # NoId => /\ i \in Images
                      /\ id \in Ids
                      /\ containers[id].status = "unused"
                      /\ Exists(id)'
                      /\ containers'[id].image = i
    BY Running, Zenon
  <1>5. CASE id = NoId
    BY <1>2, <1>5, Zenon DEF OpDone
  <1>6. CASE id # NoId
    <2>1. /\ id \in Ids
          /\ op' = [stage |-> "add", id |-> id, owner |-> op.owner]
          /\ UNCHANGED pc
          /\ containers[id].status = "unused"
          /\ containers'[id].status \in {"running", "exited"}
          /\ containers'[id].image \in Images
          /\ containers'[id].image = IF op.owner = Boot THEN Entries[entry].imageName
                                                        ELSE image[op.owner]
      BY <1>6, Zenon DEF i, Exists, TypeOK, requestVars
    <2> QED
      BY <1>2, <1>3, <2>1, Zenon
  <1> QED
    BY <1>5, <1>6, Zenon

\* extract takes what was at the end of one list.
LEMMA Extracting ==
    ASSUME TypeOK, NEW r \in Requests, extract(r)
    PROVE  /\ LanguageOf[r] \in Languages
           /\ Len(storage[LanguageOf[r]]) \in 1..Len(storage[LanguageOf[r]])
           /\ held'[r] = storage[LanguageOf[r]][Len(storage[LanguageOf[r]])]
           /\ \A q \in Requests : q # r => held'[q] = held[q] /\ pc'[q] = pc[q]
           /\ pc[r] = "start" /\ pc'[r] = "getInfo"
           /\ \A l \in Languages : \A k \in 1..Len(storage'[l]) :
                /\ k \in 1..Len(storage[l]) /\ storage'[l][k] = storage[l][k]
                /\ l = LanguageOf[r] => k # Len(storage[l])
  <1> DEFINE v == storage[LanguageOf[r]]
  <1> /\ storage \in [Languages -> Seq(Ids)]
      /\ held \in [Requests -> Ids \cup {NoId}]
      /\ pc \in [Requests -> {"new", "queued"} \cup Threaded \cup Ended]
      /\ LanguageOf[r] \in Languages
      /\ v \in Seq(Ids)
      /\ v # << >>
    BY Zenon DEF TypeOK, extract
  <1> /\ held' = [held EXCEPT ![r] = v[Len(v)]]
      /\ storage' = [storage EXCEPT ![LanguageOf[r]] = SubSeq(v, 1, Len(v) - 1)]
      /\ pc[r] = "start"
      /\ pc' = [pc EXCEPT ![r] = "getInfo"]
    BY Zenon DEF extract, Goto
  <1> HIDE DEF v
  <1> QED
    BY DEF v

\* The service's life ends with a crash only.
LEMMA LifeStep == ASSUME [Next]_vars, ~Crash PROVE bootFaults' = bootFaults
  BY ZenonT(60) DEF Next, Startup, ListContainers, SweepNext, SweepDone, CreateNext, addValues,
     BootDone, Manipulator, TakeTask, RemoveIsRunning, RemoveKill, RemoveDelete, CreateRun,
     CreateAdd, Accept, Serve, Dispatch, RejectNoSources, RejectWrongType, AnswerWithout, extract,
     getInfo, prepareCode, runCode, ScheduleRemove, ScheduleCreate, Reply, Exit, Finished, vars,
     lifeVars

\* What Lent says of one request.
LentTo(r) ==
    /\ pc[r] \in Holding =>
         /\ Exists(held[r])
         /\ held[r] \notin Foreign
         /\ served[held[r]] \subseteq {r}
         /\ pc[r] \in {"getInfo", "putArchive"} => served[held[r]] = {}
         /\ ConfiguredFor(LanguageOf[r], containers[held[r]].image)
    /\ pc[r] \in Remembering => image[r] = NoImage \/ ConfiguredFor(LanguageOf[r], image[r])

LEMMA LentEach == Lent <=> \A r \in Requests : LentTo(r)
  BY DEF Lent, LentTo, Remembering

-----------------------------------------------------------------------------
(* Types.                                                                  *)

\* Every step of start-up, of the container thread, of a request, of the daemon
\* and of a restart keeps the state well typed.
LEMMA TypeStep == TypeOK /\ Control /\ [Next]_vars => TypeOK'
  <1> SUFFICES ASSUME TypeOK, Control, [Next]_vars PROVE TypeOK'
    OBVIOUS
  <1> USE DEF TypeOK, dockerVars, bootVars, storageVars, requestVars, lifeVars
  <1>1. CASE ListContainers
    <2> USE <1>1
    <2>1. DockerTypeOK' /\ bootFaults' \in 0..faults'
      BY Asking, Zenon DEF ListContainers
    <2> QED
      BY <2>1, Zenon DEF ListContainers
  <1>2. ASSUME NEW id \in Ids, SweepNext(id) PROVE TypeOK'
    BY <1>2, Zenon DEF SweepNext, DockerTypeOK, Stages
  <1>3. CASE SweepDone \/ BootDone
    BY <1>3 DEF SweepDone, BootDone, DockerTypeOK
  <1>4. CASE CreateNext
    BY <1>4, Zenon DEF CreateNext, DockerTypeOK, Stages
  <1>5. CASE addValues
    <2> USE <1>5
    <2>1. entry <= Len(Entries)
      BY Zenon DEF addValues
    <2> Entries[entry].language \in Languages
      BY <2>1, EntryAt, Zenon
    <2>3. storage[Entries[entry].language] \o made \in Seq(Ids)
      OBVIOUS
    <2> QED
      <3>1. storage' \in [Languages -> Seq(Ids)]
        BY <2>3, Zenon DEF addValues
      <3>2. keys' \subseteq Languages
        BY Zenon DEF addValues
      <3>3. entry' \in Nat \ {0} /\ index' \in Nat /\ made' \in Seq(Ids)
        BY DEF addValues
      <3>4. UNCHANGED <<dockerVars, phase, todo, queue, op, requestVars, lifeVars>>
        BY Zenon DEF addValues
      <3> QED
        BY <3>1, <3>2, <3>3, <3>4, Zenon DEF DockerTypeOK
  <1>6. CASE TakeTask
    <2>1. Head(queue) \in Task /\ Tail(queue) \in Seq(Task)
      BY <1>6 DEF TakeTask
    <2> QED
      BY <1>6, <2>1, Zenon DEF TakeTask, DockerTypeOK, Task, Stages
  <1>7. CASE RemoveIsRunning
    <2>1. DockerTypeOK' /\ bootFaults' \in 0..faults'
      BY <1>7, Asking, Zenon DEF RemoveIsRunning
    <2> QED
      BY <1>7, <2>1, Zenon DEF RemoveIsRunning, Stages
  <1>8. CASE RemoveKill
    <2>1. DockerTypeOK' /\ bootFaults' \in 0..faults'
      BY <1>8, Killing, Zenon DEF RemoveKill, Control, OpMatches, Removal
    <2> QED
      BY <1>8, <2>1, Zenon DEF RemoveKill, Stages
  <1>9. CASE RemoveDelete
    <2>1. DockerTypeOK' /\ bootFaults' \in 0..faults'
      BY <1>9, Deleting, Zenon DEF RemoveDelete, Control, OpMatches, Removal
    <2> QED
      BY <1>9, <2>1, Zenon DEF RemoveDelete, OpDone, NoOp, Stages, Threaded, Holding
  <1>10. CASE CreateRun
    <2> USE <1>10
    <2>1. DockerTypeOK' /\ bootFaults' \in 0..faults'
      BY Running, Zenon DEF CreateRun
    <2> QED
      <3> PICK id \in Ids \cup {NoId} :
            \/ /\ op' = [op EXCEPT !.stage = "add", !.id = id]
               /\ UNCHANGED <<index, requestVars>>
            \/ /\ OpDone("reply")
               /\ index' = IF op.owner = Boot THEN index + 1 ELSE index
        BY Zenon DEF CreateRun
      <3>2. UNCHANGED <<phase, todo, entry, made, storageVars, queue, lifeVars>>
        BY Zenon DEF CreateRun
      <3>3. index' \in Nat
        OBVIOUS
      <3>4. op' \in [stage : Stages, id : Ids \cup {NoId}, owner : Requests \cup {Boot}]
        <4>1. CASE op' = [op EXCEPT !.stage = "add", !.id = id]
          <5>1. op' = [stage |-> "add", id |-> id, owner |-> op.owner]
            BY <4>1, Zenon
          <5> QED
            BY <5>1, Zenon DEF Stages
        <4>2. CASE op' = NoOp
          BY <4>2, Zenon DEF NoOp, Stages
        <4> QED
          BY <4>1, <4>2, Zenon DEF OpDone
      <3>5. pc' \in [Requests -> {"new", "queued"} \cup Threaded \cup Ended]
        BY Zenon DEF OpDone, Threaded
      <3>6. UNCHANGED <<held, image, outcome, served>>
        BY Zenon DEF OpDone
      <3> QED
        BY <2>1, <3>2, <3>3, <3>4, <3>5, <3>6, Zenon
  <1>11. CASE CreateAdd
    <2> USE <1>11
    <2>1. op.id \in Ids
      BY Zenon DEF CreateAdd, Control, OpMatches
    <2>2. Append(made, op.id) \in Seq(Ids)
      BY <2>1
    <2>3. op.owner # Boot => /\ LanguageOf[op.owner] \in Languages
                             /\ Append(storage[LanguageOf[op.owner]], op.id) \in Seq(Ids)
      BY <2>1
    <2> QED
      <3>1. storage' \in [Languages -> Seq(Ids)] /\ made' \in Seq(Ids) /\ index' \in Nat
        <4>1. CASE op.owner = Boot
          <5>1. made' = Append(made, op.id) /\ index' = index + 1 /\ storage' = storage
            BY <4>1, Zenon DEF CreateAdd
          <5> QED
            BY <2>2, <5>1
        <4>2. CASE op.owner # Boot
          <5>1. /\ storage' = [storage EXCEPT ![LanguageOf[op.owner]] = Append(@, op.id)]
                /\ made' = made /\ index' = index
            BY <4>2, Zenon DEF CreateAdd
          <5> QED
            BY <2>3, <4>2, <5>1, Zenon
        <4> QED
          BY <4>1, <4>2, Zenon
      <3>2. op' \in [stage : Stages, id : Ids \cup {NoId}, owner : Requests \cup {Boot}]
        BY Zenon DEF CreateAdd, OpDone, NoOp, Stages
      <3>3. pc' \in [Requests -> {"new", "queued"} \cup Threaded \cup Ended]
        BY Zenon DEF CreateAdd, OpDone, Threaded
      <3>4. UNCHANGED <<dockerVars, phase, todo, entry, keys, queue, lifeVars, held, image,
                        outcome, served>>
        BY Zenon DEF CreateAdd, OpDone
      <3> QED
        BY <3>1, <3>2, <3>3, <3>4, Zenon DEF DockerTypeOK
  <1>12. ASSUME NEW r \in Requests, Accept(r) \/ Dispatch(r) \/ Reply(r) PROVE TypeOK'
    BY <1>12, ZenonT(30) DEF Accept, Dispatch, Reply, Goto, DockerTypeOK, Threaded, Ended
  <1>13. ASSUME NEW r \in Requests, RejectNoSources(r) \/ RejectWrongType(r) PROVE TypeOK'
    <2>1. PICK what \in {"no sources", "wrong type"} : AnswerWithout(r, what)
      BY <1>13, Zenon DEF RejectNoSources, RejectWrongType
    <2> QED
      BY <2>1, Zenon DEF AnswerWithout, Goto, DockerTypeOK, Threaded, Outcomes
  <1>14. ASSUME NEW r \in Requests, extract(r) PROVE TypeOK'
    <2>1. /\ storage[LanguageOf[r]] \in Seq(Ids)
          /\ storage[LanguageOf[r]] # << >>
      BY <1>14, Zenon DEF extract
    <2>2. /\ storage[LanguageOf[r]][Len(storage[LanguageOf[r]])] \in Ids
          /\ SubSeq(storage[LanguageOf[r]], 1, Len(storage[LanguageOf[r]]) - 1) \in Seq(Ids)
      BY <2>1, FrontLast, Zenon
    <2> QED
      BY <1>14, <2>2, Zenon DEF extract, Goto, DockerTypeOK, Threaded, Holding
  <1>15. ASSUME NEW r \in Requests, getInfo(r) PROVE TypeOK'
    <2>1. DockerTypeOK' /\ bootFaults' \in 0..faults'
      BY <1>15, Asking, Zenon DEF getInfo
    <2> QED
      BY <1>15, <2>1 DEF getInfo, Goto, Threaded, Holding
  <1>16. ASSUME NEW r \in Requests, prepareCode(r) PROVE TypeOK'
    <2> USE <1>16
    <2>1. DockerTypeOK' /\ bootFaults' \in 0..faults'
      BY Asking, Zenon DEF prepareCode
    <2>2. served' \in [Ids -> SUBSET Requests]
      BY Zenon DEF prepareCode
    <2> QED
      <3>1. pc' \in [Requests -> {"new", "queued"} \cup Threaded \cup Ended]
        BY ZenonT(30) DEF prepareCode, Goto, Threaded, Holding
      <3>2. outcome' \in [Requests -> Outcomes]
        BY Zenon DEF prepareCode, Outcomes
      <3>3. UNCHANGED <<bootVars, storageVars, queue, op, held, image, lifeVars>>
        BY Zenon DEF prepareCode
      <3> QED
        BY <2>1, <2>2, <3>1, <3>2, <3>3, Zenon
  <1>17. ASSUME NEW r \in Requests, runCode(r) PROVE TypeOK'
    <2> USE <1>17
    <2>1. DockerTypeOK' /\ bootFaults' \in 0..faults'
      BY Asking, Zenon DEF runCode
    <2> QED
      <3>1. pc' \in [Requests -> {"new", "queued"} \cup Threaded \cup Ended]
        BY Zenon DEF runCode, Goto, Threaded, Holding
      <3>2. PICK what \in {"ran", "exception", "exec failed"} :
              outcome' = [outcome EXCEPT ![r] = what]
        BY Zenon DEF runCode
      <3>3. outcome' \in [Requests -> Outcomes]
        BY <3>2, Zenon DEF Outcomes
      <3>4. UNCHANGED <<bootVars, storageVars, queue, op, held, image, served, lifeVars>>
        BY Zenon DEF runCode
      <3> QED
        BY <2>1, <3>1, <3>3, <3>4, Zenon
  <1>18. ASSUME NEW r \in Requests, ScheduleRemove(r) \/ ScheduleCreate(r) PROVE TypeOK'
    <2>1. \A k \in {"isRunning", "run"} :
            Append(queue, [kind |-> k, owner |-> r]) \in Seq(Task)
      BY DEF Task
    <2> QED
      BY <1>18, <2>1, Zenon DEF ScheduleRemove, ScheduleCreate, Goto, DockerTypeOK, Threaded, Holding
  <1>19. ASSUME NEW id \in Ids, Exit(id) PROVE TypeOK'
    <2>1. DockerTypeOK' /\ bootFaults' \in 0..faults'
      BY <1>19, Exiting, Zenon DEF Exit
    <2> QED
      BY <1>19, <2>1, Zenon DEF Exit
  <1>20. CASE Crash
    <2> USE <1>20
    <2>1. /\ UNCHANGED <<dockerVars, held, image, outcome, served>>
          /\ crashes' \in 0..MaxCrashes
      BY ProviderAssumption DEF Crash
    <2>2. /\ phase' = "list" /\ todo' = {} /\ entry' = 1 /\ index' = 0 /\ keys' = {}
          /\ bootFaults' = faults
      BY Zenon DEF Crash
    <2>3. /\ made' \in Seq(Ids) /\ queue' \in Seq(Task)
          /\ storage' \in [Languages -> Seq(Ids)]
      BY DEF Crash
    <2>4. op' \in [stage : Stages, id : Ids \cup {NoId}, owner : Requests \cup {Boot}]
      BY Zenon DEF Crash, NoOp, Stages
    <2>5. pc' \in [Requests -> {"new", "queued"} \cup Threaded \cup Ended]
      BY Zenon DEF Crash, Ended
    <2> QED
      BY <2>1, <2>2, <2>3, <2>4, <2>5 DEF DockerTypeOK
  <1>21. CASE UNCHANGED vars
    BY <1>21, Zenon DEF vars, DockerTypeOK
  <1> QED
    BY <1>1, <1>2, <1>3, <1>4, <1>5, <1>6, <1>7, <1>8, <1>9, <1>10, <1>11, <1>12, ZenonT(30),
       <1>13, <1>14, <1>15, <1>16, <1>17, <1>18, <1>19, <1>20, <1>21
       DEF Next, Startup, Manipulator, Serve, Finished

-----------------------------------------------------------------------------
(* Who waits for which operation.                                          *)

\* Tasks are scheduled by requests.
LEMMA QueueOwners ==
    ASSUME TypeOK
    PROVE  \A i \in 1..Len(queue) : queue[i].owner \in Requests /\ queue[i].owner # Boot
  <1>1. queue \in Seq(Task)
    BY DEF TypeOK
  <1> SUFFICES ASSUME NEW i \in 1..Len(queue)
               PROVE  queue[i].owner \in Requests /\ queue[i].owner # Boot
    OBVIOUS
  <1>2. queue[i] \in Task
    BY <1>1
  <1> QED
    BY <1>2 DEF Task

\* A request that acts is not one the container thread works for.
LEMMA ActingRequest ==
    ASSUME TypeOK, Control, NEW r \in Requests,
           pc[r] \notin {"new", "done", "lost", "removing", "creating"}
    PROVE  /\ phase = "serve"
           /\ op.owner # r
           /\ \A i \in 1..Len(queue) : queue[i].owner # r
  BY ZenonT(30) DEF TypeOK, Control, Alone, OpMatches, QueueMatches, Ended, Removal, Creation

\* Steps that leave the container thread alone and let one request go on.
LEMMA RequestMoves ==
    ASSUME TypeOK, Control, NEW r \in Requests, NEW where,
           phase = "serve", op.owner # r, \A i \in 1..Len(queue) : queue[i].owner # r,
           Goto(r, where), where \in Holding => held'[r] \in Ids,
           \A q \in Requests \ {r} : held'[q] = held[q],
           \A l \in Languages : storage[l] = << >> => storage'[l] = << >>,
           UNCHANGED <<phase, entry, made, queue, op>>
    PROVE  Control'
  <1> USE DEF TypeOK, Control, Goto
  <1> \A q \in Requests : q # r => pc'[q] = pc[q] /\ held'[q] = held[q]
    BY Zenon
  <1>3. Alone'
    BY Zenon DEF Alone
  <1>4. OpMatches'
    BY Zenon DEF OpMatches
  <1>5. QueueMatches'
    <2>1. \A i \in 1..Len(queue) : pc'[queue[i].owner] = pc[queue[i].owner]
      BY QueueOwners, Zenon
    <2>2. QueueMatches /\ queue' = queue /\ op' = op
      BY Zenon
    <2> HIDE DEF TypeOK, Control, Goto
    <2> QED
      BY <2>1, <2>2 DEF QueueMatches
  <1>6. ListsMatch'
    BY Zenon DEF ListsMatch
  <1>7. HeldIds'
    BY Zenon DEF HeldIds
  <1> QED
    BY <1>3, <1>4, <1>5, <1>6, <1>7, Zenon

\* An operation of the container thread ends, and the request waiting for it, if
\* any, goes on without a container.
LEMMA OperationEnds ==
    ASSUME TypeOK, Control, op.stage # "idle",
           NEW where \in {"removed", "reply"}, OpDone(where),
           UNCHANGED <<phase, entry, queue>>,
           phase \in {"list", "sweep"} => storage' = storage,
           made' # << >> => phase = "create" /\ entry <= Len(Entries)
    PROVE  Control'
  <1> USE DEF OpDone
  <1> /\ op.stage \in Removal \cup Creation
      /\ op.owner \in Requests \cup {Boot}
      /\ pc \in [Requests -> {"new", "queued"} \cup Threaded \cup Ended]
      /\ held' = held
    BY Zenon DEF TypeOK, Stages, Removal, Creation
  <1> Alone /\ OpMatches /\ QueueMatches /\ ListsMatch /\ HeldIds
    BY Zenon DEF Control
  <1>c. \A i \in 1..Len(queue) : queue[i].owner \in Requests /\ queue[i].owner # Boot
    BY QueueOwners, Zenon
  <1> op'.stage = "idle" /\ op'.owner = Boot
    BY Zenon DEF NoOp
  <1>1. Alone'
    <2>1. CASE phase = "serve"
      BY Zenon DEF Alone
    <2>2. CASE phase # "serve"
      BY Zenon DEF Alone
    <2> QED
      BY <2>1, <2>2, Zenon
  <1>2. OpMatches'
    BY Zenon DEF OpMatches, Removal, Creation
  <1>3. QueueMatches'
    BY <1>c DEF QueueMatches
  <1>4. ListsMatch'
    BY Zenon DEF ListsMatch
  <1>5. HeldIds'
    BY Zenon DEF HeldIds, Holding
  <1> QED
    BY <1>1, <1>2, <1>3, <1>4, <1>5, Zenon DEF Control

\* Start-up, the container thread, requests, the daemon and a restart keep the
\* waiting relations.
LEMMA ControlStep == TypeOK /\ Control /\ [Next]_vars => Control'
  <1> SUFFICES ASSUME TypeOK, Control, [Next]_vars PROVE Control'
    OBVIOUS
  <1> USE DEF dockerVars, bootVars, storageVars, requestVars, lifeVars
  <1> /\ op \in [stage : Stages, id : Ids \cup {NoId}, owner : Requests \cup {Boot}]
      /\ queue \in Seq(Task)
      /\ pc \in [Requests -> {"new", "queued"} \cup Threaded \cup Ended]
      /\ held \in [Requests -> Ids \cup {NoId}]
      /\ todo \subseteq Ids
      /\ entry \in Nat
    BY Zenon DEF TypeOK
  <1> Alone /\ OpMatches /\ QueueMatches /\ ListsMatch /\ HeldIds
    BY DEF Control
  <1>c. \A i \in 1..Len(queue) : queue[i].owner \in Requests /\ queue[i].owner # Boot
    BY QueueOwners, Zenon
  <1>1. CASE ListContainers \/ SweepDone \/ BootDone
    <2> /\ phase # "serve"
        /\ phase' \in {"sweep", "create", "serve"}
        /\ phase' = "sweep" => phase = "list"
        /\ phase' = "serve" => phase = "create" /\ entry > Len(Entries)
        /\ UNCHANGED <<entry, made, storage, queue, op, pc, held>>
        /\ phase = "list" \/ op.stage = "idle"
      BY <1>1, Zenon DEF ListContainers, SweepDone, BootDone
    <2>3. made # << >> => phase' = "create"
      BY DEF ListsMatch
    <2>4. Alone'
      BY Zenon DEF Alone
    <2>5. OpMatches'
      BY Zenon DEF OpMatches, Removal, Creation, Alone
    <2>6. QueueMatches'
      BY Zenon DEF QueueMatches
    <2>7. ListsMatch'
      BY <2>3, Zenon DEF ListsMatch
    <2>8. HeldIds'
      BY Zenon DEF HeldIds
    <2> QED
      BY <2>4, <2>5, <2>6, <2>7, <2>8, Zenon DEF Control
  <1>2. CASE CreateNext \/ \E id \in Ids : SweepNext(id)
    <2> /\ phase # "serve"
        /\ \/ phase = "sweep" /\ op'.stage = "isRunning" /\ op'.id \in Ids
           \/ phase = "create" /\ op'.stage = "run" /\ entry <= Len(Entries)
        /\ op'.owner = Boot
        /\ UNCHANGED <<phase, entry, made, storage, queue, pc, held>>
      <3>1. CASE CreateNext
        BY <3>1, Zenon DEF CreateNext
      <3>2. ASSUME NEW id \in Ids, SweepNext(id)
            PROVE  /\ phase = "sweep" /\ op'.stage = "isRunning" /\ op'.id \in Ids
                   /\ op'.owner = Boot
                   /\ UNCHANGED <<phase, entry, made, storage, queue, pc, held>>
        BY <3>2, Zenon DEF SweepNext
      <3> QED
        BY <1>2, <3>1, <3>2, Zenon
    <2>2. Alone'
      BY Zenon DEF Alone
    <2>3. OpMatches'
      BY Zenon DEF OpMatches, Removal, Creation
    <2>4. QueueMatches'
      BY <1>c, ZenonT(30) DEF QueueMatches
    <2>5. ListsMatch' /\ HeldIds'
      BY Zenon DEF ListsMatch, HeldIds
    <2> QED
      BY <2>2, <2>3, <2>4, <2>5, Zenon DEF Control
  <1>3. CASE addValues
    <2>1. /\ phase = "create" /\ op.stage = "idle"
          /\ made' = << >>
          /\ UNCHANGED <<phase, queue, op, pc, held>>
      BY <1>3, Zenon DEF addValues
    <2> QED
      BY <2>1 DEF Control, Alone, OpMatches, QueueMatches, ListsMatch, HeldIds, Removal, Creation
  <1>4. CASE TakeTask
    <2> /\ phase = "serve" /\ queue # << >>
        /\ queue' = Tail(queue)
        /\ op' = [stage |-> Head(queue).kind,
                  id    |-> IF Head(queue).kind = "isRunning" THEN held[Head(queue).owner]
                                                              ELSE NoId,
                  owner |-> Head(queue).owner]
        /\ UNCHANGED <<phase, entry, made, storage, pc, held>>
      BY <1>4, Zenon DEF TakeTask
    <2> /\ Head(queue) = queue[1]
        /\ queue[1] \in Task
        /\ Len(queue) \in Nat \ {0}
        /\ Len(Tail(queue)) = Len(queue) - 1
        /\ \A i \in 1..Len(queue) - 1 : Tail(queue)[i] = queue[i + 1]
      OBVIOUS
    <2>3. /\ queue[1].owner \in Requests
          /\ queue[1].kind \in {"isRunning", "run"}
          /\ pc[queue[1].owner] = IF queue[1].kind = "run" THEN "creating" ELSE "removing"
      BY DEF Task, QueueMatches
    <2>4. Alone'
      BY Zenon DEF Alone
    <2>5. OpMatches'
      BY <2>3, ZenonT(30) DEF OpMatches, Removal, Creation, HeldIds, Holding
    <2>6. QueueMatches'
      <3> \A i \in 1..Len(queue') :
            /\ i + 1 \in 1..Len(queue) /\ i + 1 # 1
            /\ queue'[i] = queue[i + 1]
        OBVIOUS
      <3>3. 1 \in 1..Len(queue)
        OBVIOUS
      <3>4. \A i \in 1..Len(queue') :
              /\ queue'[i].owner # op'.owner
              /\ pc'[queue'[i].owner] =
                   IF queue'[i].kind = "run" THEN "creating" ELSE "removing"
        <4> TAKE i \in 1..Len(queue')
        <4>2. queue[i + 1].owner # queue[1].owner
          BY <3>3, Zenon DEF QueueMatches
        <4>3. pc[queue[i + 1].owner] = IF queue[i + 1].kind = "run" THEN "creating" ELSE "removing"
          BY Zenon DEF QueueMatches
        <4> QED
          BY <4>2, <4>3, Zenon
      <3>5. \A i, j \in 1..Len(queue') : queue'[i].owner = queue'[j].owner => i = j
        <4> TAKE i, j \in 1..Len(queue')
        <4>1. queue'[i].owner = queue'[j].owner => i + 1 = j + 1
          BY DEF QueueMatches
        <4> QED
          BY <4>1
      <3> QED
        BY <3>4, <3>5, Zenon DEF QueueMatches
    <2>7. ListsMatch' /\ HeldIds'
      BY Zenon DEF ListsMatch, HeldIds
    <2> QED
      BY <2>4, <2>5, <2>6, <2>7, Zenon DEF Control
  <1>5. CASE RemoveIsRunning \/ RemoveKill
    <2>1. /\ op.stage \in Removal /\ op'.stage \in {"kill", "remove"}
          /\ op'.id = op.id /\ op'.owner = op.owner
          /\ UNCHANGED <<phase, entry, made, storage, queue, pc, held>>
      BY <1>5 DEF RemoveIsRunning, RemoveKill, Removal
    <2> QED
      BY <2>1 DEF Control, Alone, OpMatches, QueueMatches, ListsMatch, HeldIds, Removal, Creation
  <1>6. CASE RemoveDelete
    <2>1. /\ op.stage # "idle" /\ OpDone("removed")
          /\ UNCHANGED <<phase, entry, queue, storage, made>>
      BY <1>6, Zenon DEF RemoveDelete
    <2> QED
      BY <2>1, OperationEnds, Zenon DEF ListsMatch
  <1>7. CASE CreateRun
    <2>1. PICK id \in Ids \cup {NoId} :
            \/ id # NoId /\ op' = [op EXCEPT !.stage = "add", !.id = id] /\ UNCHANGED requestVars
            \/ OpDone("reply")
      BY <1>7, Zenon DEF CreateRun
    <2>2. op.stage = "run" /\ UNCHANGED <<phase, entry, made, storage, queue>>
      BY <1>7, Zenon DEF CreateRun
    <2>3. CASE id # NoId /\ op' = [op EXCEPT !.stage = "add", !.id = id] /\ UNCHANGED requestVars
      <3>1. /\ op'.stage = "add" /\ op'.id \in Ids /\ op'.owner = op.owner
            /\ UNCHANGED <<pc, held>>
        BY <2>3, Zenon
      <3> QED
        BY <2>2, <3>1 DEF Control, Alone, OpMatches, QueueMatches, ListsMatch, HeldIds, Removal,
           Creation
    <2>4. CASE OpDone("reply")
      BY <2>2, <2>4, OperationEnds, Zenon DEF ListsMatch
    <2> QED
      BY <2>1, <2>3, <2>4, Zenon
  <1>8. CASE CreateAdd
    <2> USE <1>8
    <2>1. op.stage = "add" /\ OpDone("reply") /\ UNCHANGED <<phase, entry, queue>>
      BY Zenon DEF CreateAdd
    <2>2. phase \in {"list", "sweep"} => storage' = storage
      BY Zenon DEF CreateAdd, Alone
    <2>3. made' # << >> => phase = "create" /\ entry <= Len(Entries)
      <3>1. op.owner = Boot => phase = "create" /\ entry <= Len(Entries)
        BY <2>1, Zenon DEF OpMatches, Creation
      <3>2. op.owner # Boot => made' = made
        BY Zenon DEF CreateAdd
      <3> QED
        BY <3>1, <3>2, Zenon DEF ListsMatch
    <2> QED
      BY <2>1, <2>2, <2>3, OperationEnds, Zenon
  <1>9. ASSUME NEW r \in Requests, Accept(r) PROVE Control'
    <2>1. /\ phase = "serve" /\ pc[r] = "new" /\ Goto(r, "queued")
          /\ UNCHANGED <<phase, entry, made, queue, op, held, storage>>
      BY <1>9, Zenon DEF Accept
    <2>2. op.owner # r /\ \A i \in 1..Len(queue) : queue[i].owner # r
      BY <2>1, Zenon DEF OpMatches, QueueMatches, Removal, Creation
    <2> QED
      BY <2>1, <2>2, RequestMoves, ZenonT(30) DEF Holding
  <1>10. ASSUME NEW r \in Requests,
                \/ Dispatch(r) \/ RejectNoSources(r) \/ RejectWrongType(r) \/ extract(r)
                \/ getInfo(r) \/ prepareCode(r) \/ runCode(r) \/ Reply(r)
         PROVE  Control'
    <2> USE <1>10
    <2>1. pc[r] \in {"queued", "start", "getInfo", "putArchive", "exec", "reply"}
      BY Zenon DEF Dispatch, RejectNoSources, RejectWrongType, AnswerWithout, extract, getInfo,
         prepareCode, runCode, Reply
    <2>2. /\ phase = "serve"
          /\ op.owner # r
          /\ \A i \in 1..Len(queue) : queue[i].owner # r
      BY <2>1, ActingRequest, Zenon
    <2>3. UNCHANGED <<phase, entry, made, queue, op>>
      BY ZenonT(30) DEF Dispatch, RejectNoSources, RejectWrongType, AnswerWithout, extract,
         getInfo, prepareCode, runCode, Reply
    <2>4. CASE extract(r)
      <3> DEFINE v == storage[LanguageOf[r]]
      <3>1. v \in Seq(Ids) /\ v # << >>
        BY <2>4, Zenon DEF extract, TypeOK
      <3>2. v[Len(v)] \in Ids
        BY <3>1, FrontLast, Zenon
      <3> /\ Goto(r, "getInfo")
          /\ held' = [held EXCEPT ![r] = v[Len(v)]]
          /\ storage' = [storage EXCEPT ![LanguageOf[r]] = SubSeq(v, 1, Len(v) - 1)]
        BY <2>4, Zenon DEF extract
      <3>4. held'[r] \in Ids /\ \A q \in Requests \ {r} : held'[q] = held[q]
        BY <3>2, ZenonT(30)
      <3>5. \A l \in Languages : storage[l] = << >> => storage'[l] = << >>
        BY <3>1, Zenon DEF TypeOK
      <3> QED
        BY <2>2, <2>3, <3>4, <3>5, RequestMoves, Zenon
    <2>5. CASE ~extract(r)
      <3>1. UNCHANGED <<held, storage>>
        BY <2>5, Zenon DEF Dispatch, RejectNoSources, RejectWrongType, AnswerWithout, getInfo,
           prepareCode, runCode, Reply
      <3>2. \/ Goto(r, "start") \/ Goto(r, "reply") \/ Goto(r, "done")
            \/ pc[r] \in Holding /\ (Goto(r, "putArchive") \/ Goto(r, "exec") \/ Goto(r, "release"))
        <4>1. CASE \/ Dispatch(r) \/ RejectNoSources(r) \/ RejectWrongType(r) \/ Reply(r)
          BY <4>1, Zenon DEF Dispatch, RejectNoSources, RejectWrongType, AnswerWithout, Reply
        <4>2. CASE getInfo(r) \/ runCode(r)
          BY <4>2, ZenonT(30) DEF getInfo, runCode, Holding
        <4>3. CASE prepareCode(r)
          BY <4>3, Zenon DEF prepareCode, Holding
        <4> QED
          BY <2>5, <4>1, <4>2, <4>3, Zenon
      <3>3. PICK where : Goto(r, where) /\ (where \in Holding => pc[r] \in Holding)
        BY <3>2 DEF Holding
      <3>4. where \in Holding => held'[r] \in Ids
        BY <3>1, <3>3, Zenon DEF HeldIds
      <3> QED
        BY <2>2, <2>3, <3>1, <3>3, <3>4, RequestMoves, Zenon
    <2> QED
      BY <2>4, <2>5, Zenon
  <1>11. ASSUME NEW r \in Requests, NEW k \in {"isRunning", "run"},
                NEW where \in {"removing", "creating"},
                pc[r] \in {"release", "removed"},
                where = "removing" => pc[r] \in Holding,
                where = IF k = "run" THEN "creating" ELSE "removing",
                queue' = Append(queue, [kind |-> k, owner |-> r]),
                Goto(r, where),
                UNCHANGED <<phase, entry, made, storage, op, held>>
         PROVE  Control'
    <2> USE <1>11
    <2> /\ phase = "serve"
        /\ op.owner # r
        /\ \A i \in 1..Len(queue) : queue[i].owner # r
      BY ActingRequest, Zenon
    <2> pc'[r] = where /\ \A q \in Requests : q # r => pc'[q] = pc[q]
      BY Zenon DEF Goto
    <2>3. Alone' /\ ListsMatch'
      BY Zenon DEF Alone, ListsMatch
    <2>4. OpMatches'
      BY Zenon DEF OpMatches
    <2>5. HeldIds'
      BY ZenonT(30) DEF HeldIds, Holding
    <2>6. QueueMatches'
      <3> /\ Len(queue) \in Nat
          /\ Len(queue') = Len(queue) + 1
          /\ queue'[Len(queue) + 1] = [kind |-> k, owner |-> r]
          /\ \A i \in 1..Len(queue) : queue'[i] = queue[i]
        <4> DEFINE task == [kind |-> k, owner |-> r]
        <4>1. Len(queue) \in Nat
          OBVIOUS
        <4> HIDE DEF task
        <4>3. /\ Len(Append(queue, task)) = Len(queue) + 1
              /\ Append(queue, task)[Len(queue) + 1] = task
              /\ \A i \in 1..Len(queue) : Append(queue, task)[i] = queue[i]
          OBVIOUS
        <4> QED
          BY <4>1, <4>3, Zenon DEF task
      <3>3. \A i \in 1..Len(queue') : i \in 1..Len(queue) \/ i = Len(queue) + 1
        OBVIOUS
      <3>4. /\ queue'[Len(queue) + 1].owner = r
            /\ queue'[Len(queue) + 1].kind = k
        OBVIOUS
      <3>5. \A i \in 1..Len(queue) : pc'[queue[i].owner] = pc[queue[i].owner]
        BY <1>c, Zenon
      <3>6. \A i \in 1..Len(queue') :
              /\ queue'[i].owner # op'.owner
              /\ pc'[queue'[i].owner] =
                   IF queue'[i].kind = "run" THEN "creating" ELSE "removing"
        <4> TAKE i \in 1..Len(queue')
        <4>1. CASE i \in 1..Len(queue)
          BY <3>5 DEF QueueMatches
        <4>2. CASE i = Len(queue) + 1
          BY <3>4, <4>2, Zenon
        <4> QED
          BY <3>3, <4>1, <4>2, Zenon
      <3>7. \A i, j \in 1..Len(queue') : queue'[i].owner = queue'[j].owner => i = j
        BY DEF QueueMatches
      <3> QED
        BY <3>6, <3>7, Zenon DEF QueueMatches
    <2> QED
      BY <2>3, <2>4, <2>5, <2>6, Zenon DEF Control
  <1>12. ASSUME NEW r \in Requests, ScheduleRemove(r) \/ ScheduleCreate(r) PROVE Control'
    <2>1. CASE ScheduleRemove(r)
      BY <1>11, <2>1, Zenon DEF ScheduleRemove, Holding
    <2>2. CASE ScheduleCreate(r)
      BY <1>11, <2>2, Zenon DEF ScheduleCreate
    <2> QED
      BY <1>12, <2>1, <2>2, Zenon
  <1>13. CASE Crash
    <2> /\ phase' = "list" /\ made' = << >> /\ queue' = << >> /\ op' = NoOp
        /\ storage' = [l \in Languages |-> << >>]
        /\ pc' = [r \in Requests |-> IF pc[r] \in {"new", "done"} THEN pc[r] ELSE "lost"]
      BY <1>13, Zenon DEF Crash
    <2>2. Alone' /\ OpMatches'
      BY ZenonT(30) DEF Alone, OpMatches, NoOp, Ended, Removal, Creation
    <2>3. QueueMatches' /\ ListsMatch'
      BY DEF QueueMatches, ListsMatch
    <2>4. HeldIds'
      BY Zenon DEF HeldIds, Holding
    <2> QED
      BY <2>2, <2>3, <2>4, Zenon DEF Control
  <1>14. CASE UNCHANGED vars \/ \E id \in Ids : Exit(id)
    <2>1. UNCHANGED <<phase, entry, made, storage, queue, op, pc, held>>
      BY <1>14, Zenon DEF vars, Exit
    <2> QED
      BY <2>1 DEF Control, Alone, OpMatches, QueueMatches, ListsMatch, HeldIds
  <1> QED
    BY <1>1, <1>2, <1>3, <1>4, <1>5, <1>6, <1>7, <1>8, <1>9, <1>10, <1>12, <1>13, <1>14
       DEF Next, Startup, Manipulator, Serve, Finished
=============================================================================
