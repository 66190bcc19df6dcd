------------------------------- MODULE Docker -------------------------------
(***************************************************************************)
(* The Docker daemon as core/docker_wrapper.cpp sees it.  The daemon and   *)
(* its client library are not part of the repository: a container is a     *)
(* status and an image, and every call of DockerWrapper is one step with   *)
(* the value the wrapper returns.  A call may fail; then the wrapper       *)
(* returns its error value, and the daemon may or may not have done the    *)
(* work (the request or its answer was lost).                              *)
(***************************************************************************)
EXTENDS Naturals, FiniteSets

CONSTANTS
    Ids,            \* container ids the daemon may hand out
    NoId,           \* the empty string DockerWrapper::run returns on failure
    Images,         \* image names
    NoImage,        \* the empty string DockerWrapper::getImage returns on failure
    SenjunImages,   \* the image names that contain kSenjunPattern
    Foreign,        \* ids of containers that other programs started
    ForeignImage,   \* their image
    Leftover,       \* ids of containers that earlier lives of the service left behind
    LeftoverImage,  \* their image
    MaxFaults,      \* bound on failing calls
    MaxExits        \* bound on containers that stop by themselves

ASSUME DockerAssumption ==
    /\ NoId \notin Ids
    /\ NoImage \notin Images
    /\ SenjunImages \subseteq Images
    /\ Foreign \subseteq Ids
    /\ ForeignImage \in Images \ SenjunImages
    /\ Leftover \subseteq Ids \ Foreign
    /\ LeftoverImage \in Images
    /\ MaxFaults \in Nat
    /\ MaxExits \in Nat

VARIABLES
    containers,     \* status and image of every id
    faults,         \* failing calls so far
    exits           \* containers that stopped by themselves so far

dockerVars == <<containers, faults, exits>>

Container == [status : {"unused", "running", "exited", "removed"},
              image  : Images \cup {NoImage}]

DockerTypeOK ==
    /\ containers \in [Ids -> Container]
    /\ faults \in 0..MaxFaults
    /\ exits \in 0..MaxExits

DockerInit ==
    /\ containers = [id \in Ids |->
                       IF id \in Foreign
                       THEN [status |-> "running", image |-> ForeignImage]
                       ELSE IF id \in Leftover
                       THEN [status |-> "running", image |-> LeftoverImage]
                       ELSE [status |-> "unused", image |-> NoImage]]
    /\ faults = 0
    /\ exits = 0

Exists(id) == containers[id].status \in {"running", "exited"}

Unused == {id \in Ids : containers[id].status = "unused"}

\* Ids are opaque to the service, so which unused one is handed out is immaterial.
NewId == CHOOSE id \in Unused : TRUE

Answered == UNCHANGED faults
Failed   == faults < MaxFaults /\ faults' = faults + 1

SetStatus(id, s) == containers' = [containers EXCEPT ![id].status = s]

\* What the daemon does for a kill, a delete and a run request.
Killed(id) ==
    IF containers[id].status = "running" THEN SetStatus(id, "exited")
                                         ELSE UNCHANGED containers

Deleted(id) ==
    IF containers[id].status = "exited" THEN SetStatus(id, "removed")
                                        ELSE UNCHANGED containers

Started(image, status) ==
    /\ image \in Images
    /\ Unused # {}
    /\ containers' = [containers EXCEPT ![NewId] = [status |-> status, image |-> image]]

-----------------------------------------------------------------------------
(* DockerWrapper, one operator per method; the last argument is the result. *)

getAllContainers(ids) ==
    /\ \/ Answered /\ ids = {id \in Ids : Exists(id)}
       \/ Failed /\ ids = {}
    /\ UNCHANGED <<containers, exits>>

isRunning(id, running) ==
    /\ \/ Answered /\ running = (containers[id].status = "running")
       \/ Failed /\ running = FALSE
    /\ UNCHANGED <<containers, exits>>

getImage(id, image) ==
    /\ \/ Answered /\ image = IF Exists(id) THEN containers[id].image ELSE NoImage
       \/ Failed /\ image = NoImage
    /\ UNCHANGED <<containers, exits>>

\* The results of the next two are ignored by every caller.
killContainer(id) ==
    /\ \/ Answered /\ Killed(id)
       \/ Failed /\ (Killed(id) \/ UNCHANGED containers)
    /\ UNCHANGED exits

removeContainer(id) ==
    /\ \/ Answered /\ Deleted(id)
       \/ Failed /\ (Deleted(id) \/ UNCHANGED containers)
    /\ UNCHANGED exits

\* A run request creates the container, then starts it: a failing one may leave
\* a container that runs, one that was never started, or none.
run(image, id) ==
    /\ \/ Answered /\ Started(image, "running") /\ id = NewId
       \/ Answered /\ image \notin Images /\ UNCHANGED containers /\ id = NoId
       \/ /\ Failed
          /\ id = NoId
          /\ \/ \E s \in {"running", "exited"} : Started(image, s)
             \/ UNCHANGED containers
    /\ UNCHANGED exits

putArchive(id, ok) ==
    /\ \/ Answered /\ ok = Exists(id)
       \/ Failed /\ ok = FALSE
    /\ UNCHANGED <<containers, exits>>

exec(id, ok) ==
    /\ \/ Answered /\ ok = (containers[id].status = "running")
       \/ Failed /\ ok = FALSE
    /\ UNCHANGED <<containers, exits>>

-----------------------------------------------------------------------------

\* A container's main process ends without the service's doing (out of memory,
\* killed by its user code or by an operator).
ContainerExits(id) ==
    /\ exits < MaxExits
    /\ id \notin Foreign
    /\ containers[id].status = "running"
    /\ SetStatus(id, "exited")
    /\ exits' = exits + 1
    /\ UNCHANGED faults

=============================================================================
