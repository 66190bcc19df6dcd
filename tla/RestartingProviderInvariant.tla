-------------------- MODULE RestartingProviderInvariant --------------------
(***************************************************************************)
(* The inductive invariant behind the safety properties of                 *)
(* RestartingProvider: who is waiting for which operation, that no         *)
(* container is in two places, and what is known of the container in each  *)
(* place.                                                                  *)
(***************************************************************************)
EXTENDS RestartingProvider

Removal  == {"isRunning", "kill", "remove"}
Creation == {"run", "add"}

ConfiguredFor(l, i) ==
    \E n \in 1..Len(Entries) : Entries[n].language = l /\ Entries[n].imageName = i

\* Start-up works alone: there are no requests yet, or no more.
Alone ==
    phase # "serve" =>
      /\ op.owner = Boot
      /\ queue = << >>
      /\ \A r \in Requests : pc[r] \in {"new"} \cup Ended

\* The operation in progress belongs to start-up, or to the request that waits
\* for it to end.
OpMatches ==
    /\ op.owner = Boot =>
         /\ op.stage \in Removal => phase = "sweep"
         /\ op.stage \in Creation => phase = "create" /\ entry <= Len(Entries)
    /\ op.owner # Boot =>
         /\ op.stage \in Removal \cup Creation
         /\ op.stage \in Removal => pc[op.owner] = "removing" /\ op.id = held[op.owner]
         /\ op.stage \in Creation => pc[op.owner] = "creating"
    /\ op.stage \in Removal \cup {"add"} => op.id \in Ids

\* So does every task in the queue, and a request waits for one thing at a time.
QueueMatches ==
    /\ \A i \in 1..Len(queue) :
         /\ queue[i].owner # op.owner
         /\ pc[queue[i].owner] = IF queue[i].kind = "run" THEN "creating" ELSE "removing"
    /\ \A i, j \in 1..Len(queue) : queue[i].owner = queue[j].owner => i = j

\* The lists are filled by the second half of start-up.
ListsMatch ==
    /\ phase \in {"list", "sweep"} => \A l \in Languages : storage[l] = << >>
    /\ made # << >> => phase = "create" /\ entry <= Len(Entries)

HeldIds == \A r \in Requests : pc[r] \in Holding => held[r] \in Ids

Control == Alone /\ OpMatches /\ QueueMatches /\ ListsMatch /\ HeldIds

\* A container is in one place: a position of the storage or of the list start-up
\* builds, the operation that has just created it, or a request.
Apart ==
    /\ \A l1, l2 \in Languages :
         \A i \in 1..Len(storage[l1]), j \in 1..Len(storage[l2]) :
           storage[l1][i] = storage[l2][j] => l1 = l2 /\ i = j
    /\ \A i, j \in 1..Len(made) : made[i] = made[j] => i = j
    /\ \A l \in Languages : \A i \in 1..Len(storage[l]), j \in 1..Len(made) :
         storage[l][i] # made[j]
    /\ op.stage = "add" =>
         /\ \A l \in Languages : \A i \in 1..Len(storage[l]) : storage[l][i] # op.id
         /\ \A j \in 1..Len(made) : made[j] # op.id
    /\ \A r \in Requests : pc[r] \in Holding =>
         /\ \A l \in Languages : \A i \in 1..Len(storage[l]) : storage[l][i] # held[r]
         /\ op.stage = "add" => op.id # held[r]
         /\ \A q \in Requests : pc[q] \in Holding /\ held[q] = held[r] => q = r

\* A container that may be handed out: it exists, and no files were put into it.
Fresh(id) == Exists(id) /\ served[id] = {} /\ id \notin Foreign

\* A place holds a container of an image configured for the place's language, and
\* all but the requests' places hold fresh ones.
Stocked ==
    /\ \A l \in Languages : \A i \in 1..Len(storage[l]) :
         Fresh(storage[l][i]) /\ ConfiguredFor(l, containers[storage[l][i]].image)
    /\ \A j \in 1..Len(made) :
         Fresh(made[j]) /\ containers[made[j]].image = Entries[entry].imageName
    /\ op.stage = "add" =>
         /\ Fresh(op.id)
         /\ op.owner = Boot => containers[op.id].image = Entries[entry].imageName
         /\ op.owner # Boot => ConfiguredFor(LanguageOf[op.owner], containers[op.id].image)

\* A request's container exists and has only that request's files; the image remembered
\* for the replacement is one configured for its language, or none.
Lent ==
    \A r \in Requests :
      /\ pc[r] \in Holding =>
           /\ Exists(held[r])
           /\ held[r] \notin Foreign
           /\ served[held[r]] \subseteq {r}
           /\ pc[r] \in {"getInfo", "putArchive"} => served[held[r]] = {}
           /\ ConfiguredFor(LanguageOf[r], containers[held[r]].image)
      /\ pc[r] \in {"putArchive", "exec", "release", "removing", "removed", "creating"} =>
           image[r] = NoImage \/ ConfiguredFor(LanguageOf[r], image[r])

\* Nothing is known of unused ids, and containers of others are not in sight.
Outside ==
    /\ \A id \in Ids : containers[id].status = "unused" => served[id] = {}
    /\ \A id \in Ids : \A r1, r2 \in served[id] : r1 = r2
    /\ \A id \in Foreign : containers[id] = [status |-> "running", image |-> ForeignImage]
    /\ todo \cap Foreign = {}
    /\ op.id \notin Foreign

\* The inductive invariant: types, who waits for which operation of the container
\* thread, that a container is in one place, that what waits to be handed out is
\* fresh, that a request's container is its own, and that others' are out of sight.
IInv == TypeOK /\ Control /\ Apart /\ Stocked /\ Lent /\ Outside

-----------------------------------------------------------------------------
(* What no fault and no fault but the counted ones can change.             *)

\* The places of Apart but the requests'.
Placed(id) ==
    \/ \E l \in Languages : \E i \in 1..Len(storage[l]) : storage[l][i] = id
    \/ \E j \in 1..Len(made) : made[j] = id
    \/ op.stage = "add" /\ op.id = id

Housed(id) == Placed(id) \/ \E r \in Requests : Uses(r, id)

\* As long as no call of this life failed, the container that is about to be
\* deleted has stopped, and every senjun container is on the way to be removed at
\* first, and in a place once start-up creates them.
Stopped == op.stage = "remove" => containers[op.id].status # "running"

OnTheWay ==
    phase = "sweep" =>
      \A id \in SenjunContainers : id \in todo \/ (op.stage \in Removal /\ op.id = id)

AllHoused == phase \in {"create", "serve"} => \A id \in SenjunContainers : Housed(id)

Swept == faults = bootFaults => Stopped /\ OnTheWay /\ AllHoused

\* The launchers of a set of languages.  Those that start-up has yet to add follow
\* the list they will be added to, so that adding them changes no number.
Length(l) ==
    Len(storage[l]) +
      IF made # << >> /\ Entries[entry].language = l THEN Len(made) ELSE 0

Free(L) == UNION {{<<l, i>> : i \in 1..Length(l)} : l \in L}

Taken(L) ==
    {r \in Requests : /\ LanguageOf[r] \in L
                      /\ pc[r] \in Holding \cup {"removed", "creating"}}

\* After getInfo a request remembers the image of its launcher, or that it could
\* not be read: then the replacement will fail without another failing call.
Remembering == {"putArchive", "exec", "release", "removing", "removed", "creating"}

Replaceable(L) == {r \in Taken(L) : pc[r] \in Remembering => image[r] # NoImage}

\* The slots start-up has tried to fill.
Tried(L) ==
    {s \in Slots : /\ Entries[s[1]].language \in L
                   /\ s[1] < entry \/ (s[1] = entry /\ s[2] <= index)}

\* For any languages there are no more launchers than start-up tried to create, and
\* each one that is missing or will not be replaced was lost in a failing call.
CountedFor(L) ==
    /\ IsFiniteSet(Free(L)) /\ IsFiniteSet(Taken(L)) /\ IsFiniteSet(Tried(L))
    /\ Cardinality(Free(L)) + Cardinality(Taken(L)) <= Cardinality(Tried(L))
    /\ Cardinality(Tried(L)) <=
         Cardinality(Free(L)) + Cardinality(Replaceable(L)) + (faults - bootFaults)

Counted ==
    /\ phase = "serve" => entry > Len(Entries)
    /\ op.owner = Boot /\ op.stage \in Creation => index < Entries[entry].launched
    /\ \A L \in SUBSET Languages : CountedFor(L)

\* What is inductive together with IInv, and says where the senjun containers are and
\* how many launchers there are.
CInv == Swept /\ Counted
=============================================================================
