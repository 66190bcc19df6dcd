------------------------- MODULE RestartingProvider -------------------------
(***************************************************************************)
(* The life of a code launcher: RestartingCodeLauncherProvider hands a     *)
(* container to the thread that serves a request, the request runs user    *)
(* code in it, and the destructor of CallbackedCodeLauncher has            *)
(* CodeLauncherOSManipulator remove the container and create a             *)
(* replacement on its single container thread, while the request thread    *)
(* waits.  At start-up the manipulator removes the containers of an        *)
(* earlier life of the service and creates the configured ones.  The       *)
(* service may crash at any step and is restarted; the containers of the   *)
(* daemon outlive it.                                                      *)
(*                                                                         *)
(* ExtractingStorage is used here through atomic extract and addValue      *)
(* steps; module ExtractingStorage shows that its mutex and condition      *)
(* variable implement them.                                                *)
(***************************************************************************)
EXTENDS Docker, Sequences

CONSTANTS
    Languages,
    Requests,
    LanguageOf,     \* the language of each request
    NoSources,      \* chapter requests with neither sources nor tests
    courses,        \* the three tables of Config, in the order the unordered
    playgrounds,    \* maps are walked: [language, imageName, launched] records
    practices,
    threadPoolSize,
    maxContainersAmount,
    Boot,           \* owner of the operations of the start-up
    MaxCrashes      \* bound on crashes of the service

Entry == [language : Languages, imageName : Images, launched : Nat]

Entries == courses \o playgrounds \o practices

ASSUME ProviderAssumption ==
    /\ LanguageOf \in [Requests -> Languages]
    /\ NoSources \subseteq Requests
    /\ courses \in Seq(Entry)
    /\ playgrounds \in Seq(Entry)
    /\ practices \in Seq(Entry)
    /\ threadPoolSize \in Nat \ {0}
    /\ maxContainersAmount \in Nat
    /\ Boot \notin Requests
    /\ MaxCrashes \in Nat

VARIABLES
    phase,      \* start-up: "list", "sweep", "create"; then "serve"
    todo,       \* containers found at start-up and still to be removed
    entry,      \* start-up: position in Entries
    index,      \* start-up: launchers attempted for this entry
    made,       \* start-up: launchers created for this entry
    storage,    \* ExtractingStorage: the free launchers of each language
    keys,       \* ExtractingStorage: the languages that have a list
    queue,      \* tasks scheduled on the container thread, oldest first
    op,         \* the manipulator's operation in progress
    pc,         \* where each request's thread is
    held,       \* the launcher of each request
    image,      \* restartInfo.image of each request
    outcome,    \* what Service answers each request
    crashes,
    served,     \* history: the requests whose files were put into each container
    bootFaults  \* history: failing calls before this life of the service

bootVars    == <<phase, todo, entry, index, made>>
storageVars == <<storage, keys>>
requestVars == <<pc, held, image, outcome, served>>
lifeVars    == <<crashes, bootFaults>>
vars == <<dockerVars, bootVars, storageVars, queue, op, requestVars, lifeVars>>

Stages   == {"idle", "isRunning", "kill", "remove", "run", "add"}
Holding  == {"getInfo", "putArchive", "exec", "release", "removing"}
Threaded == Holding \cup {"start", "removed", "creating", "reply"}
Ended    == {"done", "lost"}
Outcomes == {"none", "no sources", "wrong type", "not prepared", "exec failed",
             "ran", "exception"}

Task == [kind : {"isRunning", "run"}, owner : Requests]

TypeOK ==
    /\ DockerTypeOK
    /\ phase \in {"list", "sweep", "create", "serve"}
    /\ todo \subseteq Ids
    /\ entry \in Nat \ {0}
    /\ index \in Nat
    /\ made \in Seq(Ids)
    /\ storage \in [Languages -> Seq(Ids)]
    /\ keys \subseteq Languages
    /\ queue \in Seq(Task)
    /\ op \in [stage : Stages, id : Ids \cup {NoId}, owner : Requests \cup {Boot}]
    /\ pc \in [Requests -> {"new", "queued"} \cup Threaded \cup Ended]
    /\ held \in [Requests -> Ids \cup {NoId}]
    /\ image \in [Requests -> Images \cup {NoImage}]
    /\ outcome \in [Requests -> Outcomes]
    /\ crashes \in 0..MaxCrashes
    /\ served \in [Ids -> SUBSET Requests]
    /\ bootFaults \in 0..faults

NoOp == [stage |-> "idle", id |-> NoId, owner |-> Boot]

Init ==
    /\ DockerInit
    /\ phase = "list" /\ todo = {} /\ entry = 1 /\ index = 0 /\ made = << >>
    /\ storage = [l \in Languages |-> << >>]
    /\ keys = {}
    /\ queue = << >>
    /\ op = NoOp
    /\ pc = [r \in Requests |-> "new"]
    /\ held = [r \in Requests |-> NoId]
    /\ image = [r \in Requests |-> NoImage]
    /\ outcome = [r \in Requests |-> "none"]
    /\ crashes = 0
    /\ served = [id \in Ids |-> {}]
    /\ bootFaults = 0

Goto(r, where) == pc' = [pc EXCEPT ![r] = where]

-----------------------------------------------------------------------------
(* Start-up: the constructor of CodeLauncherOSManipulator.                 *)

\* Slips the properties must catch: no clean-up; a clean-up of every container.
ListContainers_NoSweep ==
    /\ phase = "list"
    /\ phase' = "sweep"
    /\ UNCHANGED <<dockerVars, todo, entry, index, made, storageVars, queue, op,
                   requestVars, lifeVars>>

ListContainers_NoPattern ==
    /\ phase = "list"
    /\ getAllContainers(todo')
    /\ phase' = "sweep"
    /\ UNCHANGED <<entry, index, made, storageVars, queue, op, requestVars, lifeVars>>

\* syncRemoveRunningCodeLanchers: list, then remove what matches kSenjunPattern.
ListContainers ==
    /\ phase = "list"
    /\ \E ids \in SUBSET Ids :
         /\ getAllContainers(ids)
         /\ todo' = {id \in ids : containers[id].image \in SenjunImages}
    /\ phase' = "sweep"
    /\ UNCHANGED <<entry, index, made, storageVars, queue, op, requestVars, lifeVars>>

\* Slip: the loop does not advance past a container.
SweepNext_Stuck(id) ==
    /\ phase = "sweep" /\ op.stage = "idle"
    /\ id \in todo
    /\ op' = [stage |-> "isRunning", id |-> id, owner |-> Boot]
    /\ UNCHANGED <<dockerVars, bootVars, storageVars, queue, requestVars, lifeVars>>

SweepNext(id) ==
    /\ phase = "sweep" /\ op.stage = "idle"
    /\ id \in todo
    /\ todo' = todo \ {id}
    /\ op' = [stage |-> "isRunning", id |-> id, owner |-> Boot]
    /\ UNCHANGED <<dockerVars, phase, entry, index, made, storageVars, queue,
                   requestVars, lifeVars>>

SweepDone ==
    /\ phase = "sweep" /\ op.stage = "idle"
    /\ todo = {}
    /\ phase' = "create"
    /\ UNCHANGED <<dockerVars, todo, entry, index, made, storageVars, queue, op,
                   requestVars, lifeVars>>

\* syncCreateCodeLaunchers: the inner loop starts the next createCodeLauncher.
CreateNext ==
    /\ phase = "create" /\ op.stage = "idle"
    /\ entry <= Len(Entries)
    /\ index < Entries[entry].launched
    /\ op' = [stage |-> "run", id |-> NoId, owner |-> Boot]
    /\ UNCHANGED <<dockerVars, bootVars, storageVars, queue, requestVars, lifeVars>>

\* The end of the inner loop: ExtractingStorage::addValues, unless the list is empty.
addValues ==
    /\ phase = "create" /\ op.stage = "idle"
    /\ entry <= Len(Entries)
    /\ index = Entries[entry].launched
    /\ LET l == Entries[entry].language
       IN  /\ storage' = [storage EXCEPT ![l] = @ \o made]
           /\ keys' = IF made # << >> THEN keys \cup {l} ELSE keys
    /\ entry' = entry + 1 /\ index' = 0 /\ made' = << >>
    /\ UNCHANGED <<dockerVars, phase, todo, queue, op, requestVars, lifeVars>>

BootDone ==
    /\ phase = "create" /\ op.stage = "idle"
    /\ entry > Len(Entries)
    /\ phase' = "serve"
    /\ UNCHANGED <<dockerVars, todo, entry, index, made, storageVars, queue, op,
                   requestVars, lifeVars>>

-----------------------------------------------------------------------------
(* CodeLauncherOSManipulator: removeCodeLauncher and createCodeLauncher, one *)
(* Docker call per step, run by the constructor or by the container thread.  *)

\* The container thread takes the oldest task of its queue.
TakeTask ==
    /\ phase = "serve" /\ op.stage = "idle"
    /\ queue # << >>
    /\ LET task == Head(queue)
       IN  op' = [stage |-> task.kind,
                  id    |-> IF task.kind = "isRunning" THEN held[task.owner] ELSE NoId,
                  owner |-> task.owner]
    /\ queue' = Tail(queue)
    /\ UNCHANGED <<dockerVars, bootVars, storageVars, requestVars, lifeVars>>

\* The operation ends; a request that sync_waits for it goes on.
OpDone(where) ==
    /\ op' = NoOp
    /\ pc' = IF op.owner = Boot THEN pc ELSE [pc EXCEPT ![op.owner] = where]
    /\ UNCHANGED <<held, image, outcome, served>>

\* Slip: a running container is deleted without being killed.
RemoveIsRunning_NoKill ==
    /\ op.stage = "isRunning"
    /\ \E running \in BOOLEAN : isRunning(op.id, running)
    /\ op' = [op EXCEPT !.stage = "remove"]
    /\ UNCHANGED <<bootVars, storageVars, queue, requestVars, lifeVars>>

RemoveIsRunning ==
    /\ op.stage = "isRunning"
    /\ \E running \in BOOLEAN :
         /\ isRunning(op.id, running)
         /\ op' = [op EXCEPT !.stage = IF running THEN "kill" ELSE "remove"]
    /\ UNCHANGED <<bootVars, storageVars, queue, requestVars, lifeVars>>

RemoveKill ==
    /\ op.stage = "kill"
    /\ killContainer(op.id)
    /\ op' = [op EXCEPT !.stage = "remove"]
    /\ UNCHANGED <<bootVars, storageVars, queue, requestVars, lifeVars>>

RemoveDelete ==
    /\ op.stage = "remove"
    /\ removeContainer(op.id)
    /\ OpDone("removed")
    /\ UNCHANGED <<bootVars, storageVars, queue, lifeVars>>

\* Slips: an empty id is not checked; a failed creation does not end its task.
CreateRun_Unchecked ==
    /\ op.stage = "run"
    /\ \E id \in Ids \cup {NoId} :
         /\ run(IF op.owner = Boot THEN Entries[entry].imageName ELSE image[op.owner], id)
         /\ op' = [op EXCEPT !.stage = "add", !.id = id]
    /\ UNCHANGED <<bootVars, storageVars, queue, requestVars, lifeVars>>

CreateRun_NoCompletion ==
    /\ op.stage = "run"
    /\ \E id \in Ids \cup {NoId} :
         /\ run(IF op.owner = Boot THEN Entries[entry].imageName ELSE image[op.owner], id)
         /\ op' = IF id # NoId THEN [op EXCEPT !.stage = "add", !.id = id] ELSE NoOp
         /\ index' = IF id = NoId /\ op.owner = Boot THEN index + 1 ELSE index
    /\ UNCHANGED <<phase, todo, entry, made, storageVars, queue, requestVars, lifeVars>>

\* createCodeLauncher; without an id the start-up loop and the task just go on.
CreateRun ==
    /\ op.stage = "run"
    /\ \E id \in Ids \cup {NoId} :
         /\ run(IF op.owner = Boot THEN Entries[entry].imageName ELSE image[op.owner], id)
         /\ \/ /\ id # NoId
               /\ op' = [op EXCEPT !.stage = "add", !.id = id]
               /\ UNCHANGED <<index, requestVars>>
            \/ /\ id = NoId
               /\ OpDone("reply")
               /\ index' = IF op.owner = Boot THEN index + 1 ELSE index
    /\ UNCHANGED <<phase, todo, entry, made, storageVars, queue, lifeVars>>

\* Slips: the used launcher goes back; the new launcher is dropped.
CreateAdd_Reuse ==
    /\ op.stage = "add"
    /\ IF op.owner = Boot
       THEN /\ made' = Append(made, op.id)
            /\ index' = index + 1
            /\ UNCHANGED storage
       ELSE /\ storage' = [storage EXCEPT ![LanguageOf[op.owner]] = Append(@, held[op.owner])]
            /\ UNCHANGED <<made, index>>
    /\ OpDone("reply")
    /\ UNCHANGED <<dockerVars, phase, todo, entry, keys, queue, lifeVars>>

CreateAdd_Dropped ==
    /\ op.stage = "add"
    /\ made' = IF op.owner = Boot THEN Append(made, op.id) ELSE made
    /\ index' = IF op.owner = Boot THEN index + 1 ELSE index
    /\ OpDone("reply")
    /\ UNCHANGED <<dockerVars, phase, todo, entry, storageVars, queue, lifeVars>>

\* The new launcher goes to the start-up's list or, by addValue, to the storage.
CreateAdd ==
    /\ op.stage = "add"
    /\ IF op.owner = Boot
       THEN /\ made' = Append(made, op.id)
            /\ index' = index + 1
            /\ UNCHANGED storage
       ELSE /\ storage' = [storage EXCEPT ![LanguageOf[op.owner]] = Append(@, op.id)]
            /\ UNCHANGED <<made, index>>
    /\ OpDone("reply")
    /\ UNCHANGED <<dockerVars, phase, todo, entry, keys, queue, lifeVars>>

-----------------------------------------------------------------------------
(* A request: ServerImpl hands it to the thread pool, Service serves it.   *)

Accept(r) ==
    /\ phase = "serve"
    /\ pc[r] = "new"
    /\ Goto(r, "queued")
    /\ UNCHANGED <<dockerVars, bootVars, storageVars, queue, op, held, image, outcome,
                   served, lifeVars>>

\* A thread of the pool takes the request.
Dispatch(r) ==
    /\ pc[r] = "queued"
    /\ Cardinality({q \in Requests : pc[q] \in Threaded}) < threadPoolSize
    /\ Goto(r, "start")
    /\ UNCHANGED <<dockerVars, bootVars, storageVars, queue, op, held, image, outcome,
                   served, lifeVars>>

\* Service answers without a launcher.
AnswerWithout(r, what) ==
    /\ pc[r] = "start"
    /\ outcome' = [outcome EXCEPT ![r] = what]
    /\ Goto(r, "reply")
    /\ UNCHANGED <<dockerVars, bootVars, storageVars, queue, op, held, image, served,
                   lifeVars>>

RejectNoSources(r) == r \in NoSources /\ AnswerWithout(r, "no sources")

RejectWrongType(r) ==
    /\ r \notin NoSources
    /\ LanguageOf[r] \notin keys
    /\ AnswerWithout(r, "wrong type")

\* Slip: the launcher stays in the list.
extract_NoPop(r) ==
    /\ pc[r] = "start"
    /\ r \notin NoSources
    /\ LanguageOf[r] \in keys
    /\ LET values == storage[LanguageOf[r]]
       IN  /\ values # << >>
           /\ held' = [held EXCEPT ![r] = values[Len(values)]]
    /\ Goto(r, "getInfo")
    /\ UNCHANGED <<dockerVars, bootVars, storageVars, queue, op, image, outcome, served,
                   lifeVars>>

\* getCodeLauncher: extract waits for a launcher of the language and takes the last.
extract(r) ==
    /\ pc[r] = "start"
    /\ r \notin NoSources
    /\ LanguageOf[r] \in keys
    /\ LET values == storage[LanguageOf[r]]
       IN  /\ values # << >>
           /\ held' = [held EXCEPT ![r] = values[Len(values)]]
           /\ storage' = [storage EXCEPT ![LanguageOf[r]] = SubSeq(values, 1, Len(values) - 1)]
    /\ Goto(r, "getInfo")
    /\ UNCHANGED <<dockerVars, bootVars, keys, queue, op, image, outcome,
                   served, lifeVars>>

getInfo(r) ==
    /\ pc[r] = "getInfo"
    /\ \E i \in Images \cup {NoImage} :
         /\ getImage(held[r], i)
         /\ image' = [image EXCEPT ![r] = i]
    /\ Goto(r, "putArchive")
    /\ UNCHANGED <<bootVars, storageVars, queue, op, held, outcome, served, lifeVars>>

\* The first half of runCode; the files may be there even if the call failed.
prepareCode(r) ==
    /\ pc[r] = "putArchive"
    /\ \E ok \in BOOLEAN :
         /\ putArchive(held[r], ok)
         /\ Goto(r, IF ok THEN "exec" ELSE "release")
         /\ outcome' = IF ok THEN outcome ELSE [outcome EXCEPT ![r] = "not prepared"]
    /\ served' = [served EXCEPT ![held[r]] = @ \cup {r}]
    /\ UNCHANGED <<bootVars, storageVars, queue, op, held, image, lifeVars>>

\* Slip: an exception leaves without the restart.
runCode_NoUnwind(r) ==
    /\ pc[r] = "exec"
    /\ \E ok \in BOOLEAN :
         /\ exec(held[r], ok)
         /\ \E what \in IF ok THEN {"ran", "exception"} ELSE {"exec failed"} :
              /\ outcome' = [outcome EXCEPT ![r] = what]
              /\ Goto(r, IF what = "exception" THEN "reply" ELSE "release")
    /\ UNCHANGED <<bootVars, storageVars, queue, op, held, image, served, lifeVars>>

\* The second half; reading the answer of a successful exec may throw.
runCode(r) ==
    /\ pc[r] = "exec"
    /\ \E ok \in BOOLEAN :
         /\ exec(held[r], ok)
         /\ \E what \in IF ok THEN {"ran", "exception"} ELSE {"exec failed"} :
              outcome' = [outcome EXCEPT ![r] = what]
    /\ Goto(r, "release")
    /\ UNCHANGED <<bootVars, storageVars, queue, op, held, image, served, lifeVars>>

\* ~CallbackedCodeLauncher, on return and on unwinding: restartCodeLauncher
\* schedules the removal, waits for it, schedules the creation, waits for it.
ScheduleRemove(r) ==
    /\ pc[r] = "release"
    /\ queue' = Append(queue, [kind |-> "isRunning", owner |-> r])
    /\ Goto(r, "removing")
    /\ UNCHANGED <<dockerVars, bootVars, storageVars, op, held, image, outcome, served,
                   lifeVars>>

ScheduleCreate(r) ==
    /\ pc[r] = "removed"
    /\ queue' = Append(queue, [kind |-> "run", owner |-> r])
    /\ Goto(r, "creating")
    /\ UNCHANGED <<dockerVars, bootVars, storageVars, op, held, image, outcome, served,
                   lifeVars>>

Reply(r) ==
    /\ pc[r] = "reply"
    /\ Goto(r, "done")
    /\ UNCHANGED <<dockerVars, bootVars, storageVars, queue, op, held, image, outcome,
                   served, lifeVars>>

-----------------------------------------------------------------------------
(* The environment.                                                        *)

Exit(id) ==
    /\ ContainerExits(id)
    /\ UNCHANGED <<bootVars, storageVars, queue, op, requestVars, lifeVars>>

\* The process dies and is restarted (systemd, Restart=on-failure).
Crash ==
    /\ crashes < MaxCrashes
    /\ crashes' = crashes + 1
    /\ phase' = "list" /\ todo' = {} /\ entry' = 1 /\ index' = 0 /\ made' = << >>
    /\ storage' = [l \in Languages |-> << >>]
    /\ keys' = {}
    /\ queue' = << >>
    /\ op' = NoOp
    /\ pc' = [r \in Requests |-> IF pc[r] \in {"new", "done"} THEN pc[r] ELSE "lost"]
    /\ bootFaults' = faults
    /\ UNCHANGED <<dockerVars, held, image, outcome, served>>

\* Every request has been served: nothing is left to happen.
Finished ==
    /\ \A r \in Requests : pc[r] \in Ended
    /\ phase = "serve"
    /\ UNCHANGED vars

Startup     == \/ ListContainers \/ (\E id \in Ids : SweepNext(id)) \/ SweepDone
               \/ CreateNext \/ addValues \/ BootDone
Manipulator == \/ TakeTask \/ RemoveIsRunning \/ RemoveKill \/ RemoveDelete
               \/ CreateRun \/ CreateAdd
Serve(r)    == \/ Dispatch(r) \/ RejectNoSources(r) \/ RejectWrongType(r) \/ extract(r)
               \/ getInfo(r) \/ prepareCode(r) \/ runCode(r) \/ ScheduleRemove(r)
               \/ ScheduleCreate(r) \/ Reply(r)

Next ==
    \/ Startup
    \/ Manipulator
    \/ \E r \in Requests : Accept(r) \/ Serve(r)
    \/ \E id \in Ids : Exit(id)
    \/ Crash
    \/ Finished

Spec == Init /\ [][Next]_vars

\* The threads of the service run, and the daemon answers every call: nothing
\* is assumed of arrivals, exits and crashes.
Fairness ==
    /\ WF_vars(Startup)
    /\ WF_vars(Manipulator)
    /\ \A r \in Requests : WF_vars(Serve(r))

FairSpec == Spec /\ Fairness

-----------------------------------------------------------------------------
(* Properties.                                                             *)

InStorage(id) ==
    \E l \in Languages : \E i \in 1..Len(storage[l]) : storage[l][i] = id

Uses(r, id) == pc[r] \in Holding /\ held[r] = id

\* The launchers of a language that are free or will be replaced by a request.
Total(l) ==
    Len(storage[l]) +
    Cardinality({r \in Requests : /\ LanguageOf[r] = l
                                  /\ pc[r] \in Holding \cup {"removed", "creating"}})

\* The launchers Config asks for: the k-th one of the n-th entry.
Slots ==
    UNION {{<<n, k>> : k \in 1..Entries[n].launched} : n \in 1..Len(Entries)}

Configured(l) == Cardinality({s \in Slots : Entries[s[1]].language = l})

SenjunContainers ==
    {id \in Ids : Exists(id) /\ containers[id].image \in SenjunImages}

\* ExtractingStorage, "Each element can be accessed only one time": a container is
\* in one place of the storage or in the hands of one request, never in two.
ExclusiveUse ==
    /\ \A l1, l2 \in Languages :
         \A i \in 1..Len(storage[l1]), j \in 1..Len(storage[l2]) :
           storage[l1][i] = storage[l2][j] => l1 = l2 /\ i = j
    /\ \A r1, r2 \in Requests, id \in Ids :
         /\ Uses(r1, id) /\ Uses(r2, id) => r1 = r2
         /\ Uses(r1, id) => ~InStorage(id)

\* restartCodeLauncher gives every request a container of its own: one that has
\* received a request's files is never offered again, in this life of the
\* service or after a crash.
CleanContainers ==
    \A id \in Ids :
      /\ InStorage(id) => served[id] = {}
      /\ \A r1, r2 \in served[id] : r1 = r2

\* A free launcher stands for a container that the service has not removed and
\* that was created from an image configured for the launcher's language: the
\* replacement takes its image from the container it replaces, not from Config.
LaunchersMatchConfig ==
    \A l \in Languages : \A i \in 1..Len(storage[l]) :
      /\ Exists(storage[l][i])
      /\ \E n \in 1..Len(Entries) :
           /\ Entries[n].language = l
           /\ Entries[n].imageName = containers[storage[l][i]].image

\* asyncCreateCodeLauncher and getCodeLauncher between them lose no launcher and
\* make none up: each failing Docker call of this life of the service, and
\* nothing else, costs at most one.
ShrinksOnlyByFaults ==
    phase = "serve" =>
      \A l \in Languages :
        /\ Total(l) <= Configured(l)
        /\ Configured(l) <= Total(l) + (faults - bootFaults)

\* removeCodeLauncher and syncRemoveRunningCodeLanchers: as long as no Docker call
\* of this life failed, the senjun containers are those of the free launchers, the
\* requests' and the one about to be added (of whichever image matches
\* kSenjunPattern); those of an earlier life, crashed at any step, are gone.
NoLeak ==
    phase = "serve" /\ faults = bootFaults =>
      SenjunContainers =
        {id \in Ids : /\ containers[id].image \in SenjunImages
                      /\ \/ InStorage(id)
                         \/ \E r \in Requests : Uses(r, id)
                         \/ op.stage = "add" /\ op.id = id}

\* restartCodeLauncher removes before it creates: with no failing call there are
\* never more containers than configured, not even during a restart.
NeverMoreThanConfigured ==
    phase = "serve" /\ faults = bootFaults =>
      Cardinality(SenjunContainers) <= Cardinality(Slots)

\* Config::maxContainersAmount, "max-containers-amount", bounds the containers.
WithinMaxContainersAmount == Cardinality(SenjunContainers) <= maxContainersAmount

\* kSenjunPattern: the service never touches a container of somebody else.
ForeignUntouched ==
    [][\A id \in Foreign : containers'[id] = containers[id]]_vars

\* A language has lost all its launchers.
Depleted == \E l \in keys : Total(l) = 0

\* Every accepted request ends unless the pool of some language has run dry: there
\* are fewer launchers and threads than requests, but extract only waits for
\* restarts, these only for the container thread, and that one for nobody.
AnsweredUnlessDepleted ==
    \A r \in Requests : pc[r] = "queued" ~> (pc[r] \in Ended \/ Depleted)

\* The constructor of the manipulator always comes to an end, whatever the daemon
\* answers and whatever a crash left behind.
ServesAgain == []<>(phase = "serve")
=============================================================================
