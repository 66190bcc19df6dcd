--------------------- MODULE RestartingProviderCounts -----------------------
(***************************************************************************)
(* What the steps of RestartingProvider do to how many launchers there are. *)
(***************************************************************************)
EXTENDS RestartingProviderSteps, FiniteSets

USE Constants

-----------------------------------------------------------------------------
(* The sets that are counted.                                              *)

\* The slots that have been tried, when start-up is done with one launcher and
\* when it goes on to the next entry.
LEMMA TriedOne ==
    ASSUME TypeOK, entry <= Len(Entries), index < Entries[entry].launched,
           entry' = entry, index' = index + 1, NEW L
    PROVE  /\ <<entry, index + 1>> \notin Tried(L)
           /\ Tried(L)' = IF Entries[entry].language \in L
                          THEN Tried(L) \cup {<<entry, index + 1>>} ELSE Tried(L)
  <1> /\ entry \in 1..Len(Entries) /\ index \in Nat
      /\ Entries[entry].launched \in Nat
      /\ index + 1 \in 1..Entries[entry].launched
    <2>1. entry \in 1..Len(Entries) /\ index \in Nat
      BY DEF TypeOK
    <2>2. Entries[entry] \in Entry
      BY <2>1, EntriesType
    <2>3. Entries[entry].launched \in Nat
      BY <2>2 DEF Entry
    <2> QED
      BY <2>1, <2>3
  <1>2. <<entry, index + 1>> \in Slots
    BY DEF Slots
  <1> <<entry, index + 1>> \notin Tried(L)
    BY DEF Tried
  <1>4. ASSUME NEW s \in Slots
        PROVE  (s[1] < entry \/ (s[1] = entry /\ s[2] <= index + 1)) <=>
               (s[1] < entry \/ (s[1] = entry /\ s[2] <= index)) \/ s = <<entry, index + 1>>
    <2>1. PICK n \in 1..Len(Entries) : \E k \in 1..Entries[n].launched : s = <<n, k>>
      BY DEF Slots
    <2>2. PICK k \in 1..Entries[n].launched : s = <<n, k>>
      BY <2>1, Zenon
    <2> QED
      BY <2>2
  <1>5. Tried(L)' = {s \in Slots : /\ Entries[s[1]].language \in L
                                   /\ s[1] < entry \/ (s[1] = entry /\ s[2] <= index + 1)}
    BY Zenon DEF Tried
  <1>6. Tried(L)' = {s \in Slots : /\ Entries[s[1]].language \in L
                                   /\ \/ s[1] < entry \/ (s[1] = entry /\ s[2] <= index)
                                      \/ s = <<entry, index + 1>>}
    BY <1>4, <1>5, Zenon
  <1>7. CASE Entries[entry].language \in L
    BY <1>2, <1>6, Zenon DEF Tried
  <1>8. CASE Entries[entry].language \notin L
    BY <1>8, Zenon DEF Tried
  <1> QED
    BY <1>7, <1>8, Zenon

LEMMA TriedEntry ==
    ASSUME TypeOK, entry <= Len(Entries), index = Entries[entry].launched,
           entry' = entry + 1, index' = 0, NEW L
    PROVE  Tried(L)' = Tried(L)
  <1>1. entry \in Nat
    BY Zenon DEF TypeOK
  <1>2. ASSUME NEW s \in Slots
        PROVE  (s[1] < entry + 1 \/ (s[1] = entry + 1 /\ s[2] <= 0)) <=>
               (s[1] < entry \/ (s[1] = entry /\ s[2] <= index))
    <2>1. PICK n \in 1..Len(Entries) : \E k \in 1..Entries[n].launched : s = <<n, k>>
      BY DEF Slots
    <2>2. PICK k \in 1..Entries[n].launched : s = <<n, k>>
      BY <2>1
    <2> QED
      BY <1>1, <2>2
  <1> QED
    BY <1>2, Zenon DEF Tried

\* The free launchers when one list has become longer or shorter by one.
LEMMA LengthType == ASSUME TypeOK, NEW l \in Languages PROVE Length(l) \in Nat
  <1>2. Length(l) \in {Len(storage[l]) + Len(made), Len(storage[l]) + 0}
    BY Zenon DEF Length
  <1> QED
    BY <1>2

LEMMA FreeOneMore ==
    ASSUME TypeOK, NEW L \in SUBSET Languages, NEW k \in Languages,
           \A l \in Languages : Length(l)' = IF l = k THEN Length(l) + 1 ELSE Length(l)
    PROVE  /\ <<k, Length(k) + 1>> \notin Free(L)
           /\ Free(L)' = IF k \in L THEN Free(L) \cup {<<k, Length(k) + 1>>} ELSE Free(L)
  <1> \A l \in L : l \in Languages /\ Length(l) \in Nat
    BY LengthType
  <1>1. \A p : p \in Free(L) <=> \E l \in L : \E i \in 1..Length(l) : p = <<l, i>>
    BY DEF Free
  <1>2. \A p : p \in Free(L)' <=> \E l \in L : \E i \in 1..Length(l)' : p = <<l, i>>
    BY DEF Free
  <1>3. <<k, Length(k) + 1>> \notin Free(L)
    BY <1>1
  <1>4. ASSUME NEW p, p \in Free(L) PROVE p \in Free(L)'
    <2>1. PICK l \in L : \E i \in 1..Length(l) : p = <<l, i>>
      BY <1>1, <1>4, Zenon
    <2>2. PICK i \in 1..Length(l) : p = <<l, i>>
      BY <2>1
    <2>3. i \in 1..Length(l)'
      OBVIOUS
    <2> QED
      BY <1>2, <2>2, <2>3, Zenon
  <1>5. ASSUME NEW p, p \in Free(L)' PROVE p \in Free(L) \/ (k \in L /\ p = <<k, Length(k) + 1>>)
    <2>1. PICK l \in L : \E i \in 1..Length(l)' : p = <<l, i>>
      BY <1>2, <1>5, Zenon
    <2>2. PICK i \in 1..Length(l)' : p = <<l, i>>
      BY <2>1
    <2>3. i \in 1..Length(l) \/ (l = k /\ i = Length(k) + 1)
      OBVIOUS
    <2> QED
      BY <1>1, <2>2, <2>3, Zenon
  <1>6. k \in L => <<k, Length(k) + 1>> \in Free(L)'
    <2>1. k \in L => Length(k) + 1 \in 1..Length(k)'
      OBVIOUS
    <2> QED
      BY <1>2, <2>1, Zenon
  <1> QED
    BY <1>3, <1>4, <1>5, <1>6, Zenon

LEMMA FreeOneLess ==
    ASSUME TypeOK, NEW L \in SUBSET Languages, NEW k \in Languages, Length(k) > 0,
           \A l \in Languages : Length(l)' = IF l = k THEN Length(l) - 1 ELSE Length(l)
    PROVE  /\ k \in L => <<k, Length(k)>> \in Free(L)
           /\ Free(L)' = IF k \in L THEN Free(L) \ {<<k, Length(k)>>} ELSE Free(L)
  <1> \A l \in L : l \in Languages /\ Length(l) \in Nat
    BY LengthType
  <1>1. \A p : p \in Free(L) <=> \E l \in L : \E i \in 1..Length(l) : p = <<l, i>>
    BY DEF Free
  <1>2. \A p : p \in Free(L)' <=> \E l \in L : \E i \in 1..Length(l)' : p = <<l, i>>
    BY DEF Free
  <1>4. ASSUME NEW p, p \in Free(L)' PROVE p \in Free(L) /\ (k \in L => p # <<k, Length(k)>>)
    <2>1. PICK l \in L : \E i \in 1..Length(l)' : p = <<l, i>>
      BY <1>2, <1>4, Zenon
    <2>2. PICK i \in 1..Length(l)' : p = <<l, i>>
      BY <2>1
    <2>3. i \in 1..Length(l) /\ (l = k => i # Length(k))
      OBVIOUS
    <2> QED
      BY <1>1, <2>2, <2>3, Zenon
  <1>5. ASSUME NEW p, p \in Free(L), k \in L => p # <<k, Length(k)>> PROVE p \in Free(L)'
    <2>1. PICK l \in L : \E i \in 1..Length(l) : p = <<l, i>>
      BY <1>1, <1>5, Zenon
    <2>2. PICK i \in 1..Length(l) : p = <<l, i>>
      BY <2>1
    <2>3. i \in 1..Length(l)'
      BY <1>5, <2>2
    <2> QED
      BY <1>2, <2>2, <2>3, Zenon
  <1> QED
    BY <1>4, <1>5, Zenon

\* What a request counts for.
Has(r)  == pc[r] \in Holding \cup {"removed", "creating"}
Sure(r) == Has(r) /\ (pc[r] \in Remembering => image[r] # NoImage)

CountsSame(r) == (Has(r)' <=> Has(r)) /\ (Sure(r)' <=> Sure(r))

LEMMA TakenAre ==
    ASSUME NEW L
    PROVE  /\ Taken(L) = {r \in Requests : LanguageOf[r] \in L /\ Has(r)}
           /\ Replaceable(L) = {r \in Requests : LanguageOf[r] \in L /\ Sure(r)}
           /\ Taken(L)' = {r \in Requests : LanguageOf[r] \in L /\ Has(r)'}
           /\ Replaceable(L)' = {r \in Requests : LanguageOf[r] \in L /\ Sure(r)'}
  BY Zenon DEF Taken, Replaceable, Has, Sure

\* A request moves and keeps what it has.
LEMMA MovesCounts ==
    ASSUME TypeOK, NEW q \in Requests, NEW where, Goto(q, where), UNCHANGED image,
           where \in Holding \cup {"removed", "creating"} <=> Has(q),
           where \in Remembering <=> pc[q] \in Remembering,
           NEW r \in Requests
    PROVE  CountsSame(r)
  <1>1. pc'[r] = IF r = q THEN where ELSE pc[r]
    BY Zenon DEF TypeOK, Goto
  <1> QED
    BY <1>1, Zenon DEF CountsSame, Has, Sure

\* Only extract, getInfo, the end of a creation and a crash change what a request
\* counts for.
LEMMA CountsStep ==
    ASSUME TypeOK, Control, [Next]_vars, NEW r \in Requests
    PROVE  \/ CountsSame(r) \/ getInfo(r) \/ extract(r) \/ Crash
           \/ (CreateRun \/ CreateAdd) /\ op.owner = r
  <1> USE DEF requestVars
  <1>1. ASSUME pc'[r] = pc[r], image'[r] = image[r] PROVE CountsSame(r)
    BY <1>1 DEF CountsSame, Has, Sure
  <1>2. ASSUME NEW where, OpDone(where), r # op.owner PROVE CountsSame(r)
    <2>1. pc'[r] = pc[r] /\ image' = image
      BY <1>2, Zenon DEF OpDone, TypeOK
    <2> QED
      BY <1>1, <2>1
  <1>3. CASE Startup \/ TakeTask \/ RemoveIsRunning \/ RemoveKill \/ UNCHANGED vars
    BY <1>1, <1>3, ZenonT(30) DEF Startup, ListContainers, SweepNext, SweepDone, CreateNext,
         addValues, BootDone, TakeTask, RemoveIsRunning, RemoveKill, vars
  <1>4. CASE RemoveDelete
    <2>1. OpDone("removed") /\ op.stage = "remove"
      BY <1>4 DEF RemoveDelete
    <2>2. CASE r = op.owner
      <3>1. pc[r] = "removing" /\ pc'[r] = "removed" /\ image' = image
        BY <2>1, <2>2, Zenon DEF OpDone, TypeOK, Control, OpMatches, Removal
      <3> QED
        BY <3>1, Zenon DEF CountsSame, Has, Sure, Holding, Remembering
    <2> QED
      BY <1>2, <2>1, <2>2, Zenon
  <1>5. CASE CreateRun
    <2>1. op.stage = "run" /\ UNCHANGED image /\ (UNCHANGED pc \/ OpDone("reply"))
      BY <1>5, Creating, Zenon
    <2> QED
      BY <1>1, <1>2, <1>5, <2>1, Zenon
  <1>6. CASE CreateAdd
    <2>1. OpDone("reply")
      BY <1>6, Zenon DEF CreateAdd
    <2> QED
      BY <1>2, <1>6, <2>1
  <1>7. ASSUME NEW q \in Requests, Accept(q) \/ Serve(q), ~(q = r /\ (getInfo(q) \/ extract(q)))
        PROVE  CountsSame(r)
    <2> USE <1>7
    <2>1. CASE \/ Accept(q) \/ Dispatch(q) \/ RejectNoSources(q) \/ RejectWrongType(q) \/ Reply(q)
      <3>1. /\ UNCHANGED image /\ pc[q] \in {"new", "queued", "start", "reply"}
            /\ \/ Goto(q, "queued") \/ Goto(q, "start") \/ Goto(q, "reply") \/ Goto(q, "done")
        BY <2>1, ZenonT(30) DEF Accept, Dispatch, RejectNoSources, RejectWrongType, AnswerWithout, Reply
      <3>2. \A w \in {"new", "queued", "start", "reply", "done"} :
              w \notin Holding \cup {"removed", "creating"} /\ w \notin Remembering
        BY DEF Holding, Remembering
      <3> QED
        BY <3>1, <3>2, MovesCounts, Zenon DEF Has
    <2>2. CASE prepareCode(q) \/ runCode(q) \/ ScheduleRemove(q) \/ ScheduleCreate(q)
      <3>1. /\ UNCHANGED image /\ pc[q] \in {"putArchive", "exec", "release", "removed"}
            /\ \/ Goto(q, "exec") \/ Goto(q, "release") \/ Goto(q, "removing") \/ Goto(q, "creating")
        BY <2>2, ZenonT(30) DEF prepareCode, runCode, ScheduleRemove, ScheduleCreate
      <3>2. \A w \in {"putArchive", "exec", "release", "removing", "removed", "creating"} :
              w \in Holding \cup {"removed", "creating"} /\ w \in Remembering
        BY DEF Holding, Remembering
      <3> QED
        BY <3>1, <3>2, MovesCounts, Zenon DEF Has
    <2>3. CASE getInfo(q)
      <3>1. Goto(q, "putArchive") /\ \E i : image' = [image EXCEPT ![q] = i]
        BY <2>3, Zenon DEF getInfo
      <3>2. pc'[r] = pc[r] /\ image'[r] = image[r]
        BY <2>3, <3>1, Zenon DEF Goto, TypeOK
      <3> QED
        BY <1>1, <3>2, Zenon
    <2>4. CASE extract(q)
      <3>1. pc'[r] = pc[r]
        BY <2>4, Extracting, Zenon
      <3>2. image' = image
        BY <2>4, Zenon DEF extract
      <3> QED
        BY <1>1, <3>1, <3>2, Zenon
    <2> QED
      BY <2>1, <2>2, <2>3, <2>4, Zenon DEF Serve
  <1>8. ASSUME NEW id \in Ids, Exit(id) PROVE CountsSame(r)
    BY <1>1, <1>8, Zenon DEF Exit
  <1> QED
    BY <1>3, <1>4, <1>5, <1>6, <1>7, <1>8, Zenon DEF Next, Manipulator, Finished

\* What a request that begins or ceases to count changes.
LEMMA TakenStep ==
    ASSUME NEW L, NEW r \in Requests, \A q \in Requests : q # r => CountsSame(q)
    PROVE  /\ Has(r)' /\ ~Has(r) =>
                /\ r \notin Taken(L)
                /\ Taken(L)' = IF LanguageOf[r] \in L THEN Taken(L) \cup {r} ELSE Taken(L)
           /\ Has(r) /\ ~Has(r)' =>
                /\ LanguageOf[r] \in L => r \in Taken(L)
                /\ Taken(L)' = IF LanguageOf[r] \in L THEN Taken(L) \ {r} ELSE Taken(L)
           /\ (Has(r)' <=> Has(r)) => Taken(L)' = Taken(L)
           /\ Sure(r)' /\ ~Sure(r) =>
                /\ r \notin Replaceable(L)
                /\ Replaceable(L)' =
                     IF LanguageOf[r] \in L THEN Replaceable(L) \cup {r} ELSE Replaceable(L)
           /\ Sure(r) /\ ~Sure(r)' =>
                /\ LanguageOf[r] \in L => r \in Replaceable(L)
                /\ Replaceable(L)' =
                     IF LanguageOf[r] \in L THEN Replaceable(L) \ {r} ELSE Replaceable(L)
           /\ (Sure(r)' <=> Sure(r)) => Replaceable(L)' = Replaceable(L)
  <1>1. \A q \in Requests : q # r => (Has(q)' <=> Has(q)) /\ (Sure(q)' <=> Sure(q))
    BY DEF CountsSame
  <1>2. /\ \A q : q \in Taken(L) <=> q \in Requests /\ LanguageOf[q] \in L /\ Has(q)
        /\ \A q : q \in Taken(L)' <=> q \in Requests /\ LanguageOf[q] \in L /\ Has(q)'
        /\ \A q : q \in Replaceable(L) <=> q \in Requests /\ LanguageOf[q] \in L /\ Sure(q)
        /\ \A q : q \in Replaceable(L)' <=> q \in Requests /\ LanguageOf[q] \in L /\ Sure(q)'
    BY TakenAre
  <1>3. /\ Has(r)' /\ ~Has(r) =>
             /\ r \notin Taken(L)
             /\ Taken(L)' = IF LanguageOf[r] \in L THEN Taken(L) \cup {r} ELSE Taken(L)
        /\ Has(r) /\ ~Has(r)' =>
             /\ LanguageOf[r] \in L => r \in Taken(L)
             /\ Taken(L)' = IF LanguageOf[r] \in L THEN Taken(L) \ {r} ELSE Taken(L)
        /\ (Has(r)' <=> Has(r)) => Taken(L)' = Taken(L)
    BY <1>1, <1>2, Zenon
  <1>4. /\ Sure(r)' /\ ~Sure(r) =>
             /\ r \notin Replaceable(L)
             /\ Replaceable(L)' =
                  IF LanguageOf[r] \in L THEN Replaceable(L) \cup {r} ELSE Replaceable(L)
        /\ Sure(r) /\ ~Sure(r)' =>
             /\ LanguageOf[r] \in L => r \in Replaceable(L)
             /\ Replaceable(L)' =
                  IF LanguageOf[r] \in L THEN Replaceable(L) \ {r} ELSE Replaceable(L)
        /\ (Sure(r)' <=> Sure(r)) => Replaceable(L)' = Replaceable(L)
    BY <1>1, <1>2, Zenon
  <1> QED
    BY <1>3, <1>4, Zenon

\* The faults of this life are not taken back.
LEMMA Faults ==
    ASSUME TypeOK, Answered \/ Failed, bootFaults' = bootFaults
    PROVE  /\ faults - bootFaults \in Nat
           /\ faults' - bootFaults' = (faults - bootFaults) + IF Answered THEN 0 ELSE 1
           /\ Answered \/ Failed
  BY DEF TypeOK, DockerTypeOK, Answered, Failed

\* Steps that change no list and no slot.
LEMMA FreeSame ==
    ASSUME NEW L \in SUBSET Languages, \A l \in Languages : Length(l)' = Length(l)
    PROVE  Free(L)' = Free(L)
  BY DEF Free

LEMMA ListsSame ==
    ASSUME NEW L \in SUBSET Languages, UNCHANGED <<storage, made, entry>>
    PROVE  Free(L)' = Free(L)
  <1>1. \A l \in Languages : Length(l)' = Length(l)
    BY DEF Length
  <1> QED
    BY <1>1, FreeSame

LEMMA TriedSame == ASSUME NEW L, UNCHANGED <<entry, index>> PROVE Tried(L)' = Tried(L)
  BY DEF Tried

LEMMA TakenSame ==
    ASSUME NEW L, \A r \in Requests : CountsSame(r)
    PROVE  Taken(L)' = Taken(L) /\ Replaceable(L)' = Replaceable(L)
  <1>1. \A r \in Requests : (Has(r)' <=> Has(r)) /\ (Sure(r)' <=> Sure(r))
    BY DEF CountsSame
  <1> QED
    BY <1>1, TakenAre, Zenon

LEMMA StillCounts ==
    ASSUME NEW r, pc'[r] = pc[r], image'[r] = image[r] PROVE CountsSame(r)
  BY DEF CountsSame, Has, Sure

\* The request an operation was for ends, in any way.
LEMMA OwnerDone ==
    ASSUME TypeOK, Control, NEW r, r = op.owner, r # Boot, op.stage \in Creation, OpDone("reply")
    PROVE  /\ r \in Requests
           /\ \A q \in Requests : q # r => CountsSame(q)
           /\ Has(r) /\ ~Has(r)' /\ ~Sure(r)'
           /\ Sure(r) <=> image[r] # NoImage
           /\ phase = "serve" /\ made = << >>
  <1> r \in Requests /\ pc[r] = "creating"
    BY Zenon DEF TypeOK, Control, OpMatches, Creation
  <1>2. /\ pc'[r] = "reply" /\ image' = image
        /\ \A q \in Requests : q # r => pc'[q] = pc[q]
    BY Zenon DEF OpDone, TypeOK
  <1>3. \A q \in Requests : q # r => CountsSame(q)
    BY <1>2, StillCounts, Zenon
  <1>4. Has(r) /\ ~Has(r)' /\ (Sure(r) <=> image[r] # NoImage)
    BY <1>2, Zenon DEF Has, Sure, Holding, Remembering
  <1>5. phase = "serve" /\ made = << >>
    BY DEF Control, Alone, ListsMatch, Ended
  <1> QED
    BY <1>3, <1>4, <1>5, Zenon DEF Sure

\* The other steps leave the lists and the slots alone.
LEMMA CountedElse ==
    ASSUME [Next]_vars, ~Crash, ~addValues, ~CreateRun, ~CreateAdd,
           \A r \in Requests : ~extract(r)
    PROVE  UNCHANGED <<storage, made, entry, index>>
  <1> USE DEF bootVars, storageVars
  <1>1. CASE Startup
    BY <1>1, ZenonT(30) DEF Startup, ListContainers, SweepNext, SweepDone, CreateNext, BootDone
  <1>2. CASE Manipulator
    BY <1>2, ZenonT(30) DEF Manipulator, TakeTask, RemoveIsRunning, RemoveKill, RemoveDelete
  <1>3. ASSUME NEW r \in Requests, Accept(r) \/ Serve(r)
        PROVE  UNCHANGED <<storage, made, entry, index>>
    BY <1>3, ZenonT(30) DEF Accept, Serve, Dispatch, RejectNoSources, RejectWrongType,
       AnswerWithout, getInfo, prepareCode, runCode, ScheduleRemove, ScheduleCreate, Reply
  <1>4. CASE (\E id \in Ids : Exit(id)) \/ Finished \/ UNCHANGED vars
    BY <1>4, ZenonT(30) DEF Exit, Finished, vars
  <1> QED
    BY <1>1, <1>2, <1>3, <1>4, Zenon DEF Next

\* Requests are served when start-up is at the end of Config, and a launcher is
\* created for a slot that start-up has not tried yet.
LEMMA SlotStep ==
    ASSUME IInv, Counted, [Next]_vars
    PROVE  /\ phase' = "serve" => entry' > Len(Entries)
           /\ op'.owner = Boot /\ op'.stage \in Creation => index' < Entries[entry'].launched
  <1> USE DEF bootVars, Creation
  <1> /\ TypeOK /\ Control
      /\ phase = "serve" => entry > Len(Entries)
      /\ op.owner = Boot /\ op.stage \in Creation => index < Entries[entry].launched
    BY DEF IInv, Counted
  <1>b. op \in [stage : Stages, id : Ids \cup {NoId}, owner : Requests \cup {Boot}]
    BY Zenon DEF TypeOK
  <1>1. CASE CreateNext
    <2>1. /\ phase' = phase /\ entry' = entry /\ index' = index /\ index < Entries[entry].launched
      BY <1>1, Zenon DEF CreateNext
    <2> QED
      BY <2>1, Zenon
  <1>2. CASE BootDone
    BY <1>2, Zenon DEF BootDone
  <1>3. CASE addValues
    BY <1>3, Zenon DEF addValues
  <1>4. CASE ListContainers \/ SweepDone \/ \E id \in Ids : SweepNext(id)
    <2>1. phase' # "serve" /\ UNCHANGED <<entry, index>>
          /\ (UNCHANGED op \/ op'.stage = "isRunning")
      BY <1>4 DEF ListContainers, SweepDone, SweepNext
    <2> QED
      BY <2>1, Zenon
  <1>5. CASE TakeTask
    <2> UNCHANGED <<phase, entry, index>> /\ queue # << >> /\ op'.owner = Head(queue).owner
      BY <1>5, ZenonT(30) DEF TakeTask
    <2>2. queue \in Seq(Task) /\ 1 \in 1..Len(queue)
      BY DEF TypeOK
    <2>3. Head(queue) = queue[1]
      OBVIOUS
    <2>4. op'.owner # Boot
      BY <2>2, <2>3, QueueOwners, Zenon
    <2> QED
      BY <2>4, Zenon
  <1>6. CASE RemoveIsRunning \/ RemoveKill
    <2>1. UNCHANGED <<phase, entry, index>> /\ op'.stage \in {"kill", "remove"}
      BY <1>b, <1>6, Zenon DEF RemoveIsRunning, RemoveKill
    <2> QED
      BY <2>1, Zenon
  <1>7. CASE RemoveDelete \/ CreateAdd \/ Crash
    <2>1. op' = NoOp /\ (UNCHANGED <<phase, entry>> \/ phase' = "list")
      BY <1>7, ZenonT(30) DEF RemoveDelete, CreateAdd, Crash, OpDone
    <2>2. op'.stage = "idle"
      BY <2>1, Zenon DEF NoOp
    <2> QED
      BY <2>1, <2>2, Zenon
  <1>8. CASE CreateRun
    <2>1. /\ UNCHANGED <<phase, entry>> /\ op.stage = "run"
          /\ \/ op'.stage = "idle"
             \/ UNCHANGED index /\ op'.owner = op.owner
      <3>1. /\ UNCHANGED <<phase, entry>> /\ op.stage = "run"
            /\ \E id \in Ids \cup {NoId} :
                 \/ op' = [op EXCEPT !.stage = "add", !.id = id] /\ UNCHANGED index
                 \/ op' = NoOp
        BY <1>8, Zenon DEF CreateRun, OpDone
      <3>2. CASE op' = NoOp
        BY <3>1, <3>2 DEF NoOp
      <3>3. ASSUME NEW id \in Ids \cup {NoId}, op' = [op EXCEPT !.stage = "add", !.id = id]
            PROVE  op'.owner = op.owner
        BY <3>3
      <3> QED
        BY <3>1, <3>2, <3>3, Zenon
    <2> QED
      BY <2>1, Zenon
  <1>9. CASE \/ \E r \in Requests : Accept(r) \/ Serve(r)
             \/ \E id \in Ids : Exit(id)
             \/ Finished \/ UNCHANGED vars
    <2>1. UNCHANGED <<phase, entry, index, op>>
      BY <1>9, ZenonT(60) DEF Accept, Serve, Dispatch, RejectNoSources, RejectWrongType,
         AnswerWithout, extract, getInfo, prepareCode, runCode, ScheduleRemove, ScheduleCreate,
         Reply, Exit, Finished, vars
    <2> QED
      BY <2>1, Zenon
  <1> QED
    BY <1>1, <1>2, <1>3, <1>4, <1>5, <1>6, <1>7, <1>8, <1>9, Zenon DEF Next, Startup, Manipulator

-----------------------------------------------------------------------------
(* How many launchers there are.                                           *)

\* What the counting needs to know of finite sets; the lemma Sets says that it is so.
SetFacts ==
    /\ IsFiniteSet({}) /\ Cardinality({}) = 0
    /\ \A S : IsFiniteSet(S) => Cardinality(S) \in Nat
    /\ \A S, T : IsFiniteSet(S) /\ T \in SUBSET S =>
                   IsFiniteSet(T) /\ Cardinality(T) <= Cardinality(S)
    /\ \A S, x : IsFiniteSet(S) /\ x \notin S =>
                   /\ IsFiniteSet(S \cup {x})
                   /\ Cardinality(S \cup {x}) = Cardinality(S) + 1
    /\ \A S, x : IsFiniteSet(S) /\ x \in S =>
                   /\ IsFiniteSet(S \ {x})
                   /\ Cardinality(S \ {x}) = Cardinality(S) - 1

\* A finite set and the same set with one element more or less.
LEMMA OneMore ==
    ASSUME SetFacts, NEW S, IsFiniteSet(S), NEW x, x \notin S, NEW T, T = S \cup {x}
    PROVE  IsFiniteSet(T) /\ Cardinality(T) = Cardinality(S) + 1
  BY Zenon DEF SetFacts

LEMMA OneLess ==
    ASSUME SetFacts, NEW S, IsFiniteSet(S), NEW x, x \in S, NEW T, T = S \ {x}
    PROVE  IsFiniteSet(T) /\ Cardinality(T) = Cardinality(S) - 1
  BY Zenon DEF SetFacts

\* The numbers are numbers.
LEMMA Numbers ==
    ASSUME SetFacts, NEW L, CountedFor(L)
    PROVE  /\ IsFiniteSet(Free(L)) /\ Cardinality(Free(L)) \in Nat
           /\ IsFiniteSet(Taken(L)) /\ Cardinality(Taken(L)) \in Nat
           /\ IsFiniteSet(Replaceable(L)) /\ Cardinality(Replaceable(L)) \in Nat
           /\ IsFiniteSet(Tried(L)) /\ Cardinality(Tried(L)) \in Nat
           /\ Cardinality(Replaceable(L)) <= Cardinality(Taken(L))
  <1>1. Replaceable(L) \in SUBSET Taken(L)
    BY DEF Replaceable
  <1> QED
    BY <1>1, Zenon DEF CountedFor, SetFacts

LEMMA CountedSame ==
    ASSUME SetFacts, TypeOK, NEW L, CountedFor(L), Answered \/ Failed, bootFaults' = bootFaults,
           Free(L)' = Free(L), Taken(L)' = Taken(L), Replaceable(L)' = Replaceable(L),
           Tried(L)' = Tried(L)
    PROVE  CountedFor(L)'
  <1>1. Cardinality(Tried(L)) <=
          Cardinality(Free(L)) + Cardinality(Replaceable(L)) + (faults' - bootFaults')
    BY Numbers, Faults DEF CountedFor
  <1> QED
    BY <1>1, Zenon DEF CountedFor

\* A request is given a launcher: one list gets shorter.
LEMMA CountedExtract ==
    ASSUME SetFacts, IInv, NEW L \in SUBSET Languages, CountedFor(L), Answered \/ Failed,
           bootFaults' = bootFaults, NEW r \in Requests, extract(r)
    PROVE  CountedFor(L)'
  <1> DEFINE k == LanguageOf[r]
  <1> TypeOK /\ Control /\ k \in Languages
    BY DEF IInv
  <1>1. /\ UNCHANGED <<entry, index, made, image, faults>> /\ pc[r] = "start"
        /\ storage[k] # << >> /\ storage[k] \in Seq(Ids)
        /\ storage' = [storage EXCEPT ![k] = SubSeq(storage[k], 1, Len(storage[k]) - 1)]
    BY Zenon DEF extract, bootVars, dockerVars, TypeOK
  <1>2. made = << >>
    BY <1>1, Zenon DEF Control, Alone, ListsMatch, Ended
  <1>3. \A l \in Languages : Length(l) = Len(storage[l]) + 0 /\ Length(l)' = Len(storage'[l]) + 0
    BY <1>1, <1>2, Zenon DEF Length
  <1>4. /\ Len(storage'[k]) = Len(storage[k]) - 1 /\ Len(storage[k]) \in Nat \ {0}
        /\ \A l \in Languages : l # k => storage'[l] = storage[l]
    BY <1>1, FrontLast DEF TypeOK
  <1> HIDE DEF k
  <1>5. /\ Length(k) > 0
        /\ \A l \in Languages : Length(l)' = IF l = k THEN Length(l) - 1 ELSE Length(l)
    BY <1>3, <1>4
  <1>6. /\ k \in L => <<k, Length(k)>> \in Free(L)
        /\ Free(L)' = IF k \in L THEN Free(L) \ {<<k, Length(k)>>} ELSE Free(L)
    BY <1>5, FreeOneLess, Zenon
  <1>7. \A q \in Requests : q # r => CountsSame(q)
    BY <1>1, Extracting, StillCounts, Zenon
  <1>8. ~Has(r) /\ Has(r)' /\ Sure(r)'
    <2>1. pc'[r] = "getInfo"
      BY Extracting, Zenon
    <2> QED
      BY <1>1, <2>1, Zenon DEF Has, Sure, Holding, Remembering
  <1>9. ~Sure(r)
    BY <1>8, Zenon DEF Sure
  <1>10. /\ r \notin Taken(L) /\ r \notin Replaceable(L)
         /\ Taken(L)' = IF k \in L THEN Taken(L) \cup {r} ELSE Taken(L)
         /\ Replaceable(L)' = IF k \in L THEN Replaceable(L) \cup {r} ELSE Replaceable(L)
    BY <1>7, <1>8, <1>9, TakenStep, ZenonT(30) DEF k
  <1>11. Tried(L)' = Tried(L)
    BY <1>1, TriedSame, Zenon
  <1>12. CASE k \notin L
    BY <1>6, <1>10, <1>11, <1>12, CountedSame, Zenon
  <1>13. CASE k \in L
    <2>1. IsFiniteSet(Free(L)') /\ Cardinality(Free(L)') = Cardinality(Free(L)) - 1
      BY <1>6, <1>13, Numbers, OneLess, Zenon
    <2>2. IsFiniteSet(Taken(L)') /\ Cardinality(Taken(L)') = Cardinality(Taken(L)) + 1
      BY <1>10, <1>13, Numbers, OneMore, Zenon
    <2>3. Cardinality(Replaceable(L)') = Cardinality(Replaceable(L)) + 1
      BY <1>10, <1>13, Numbers, OneMore, Zenon
    <2>4. faults' - bootFaults' = faults - bootFaults /\ faults - bootFaults \in Nat
      BY <1>1, Faults, Zenon
    <2> QED
      BY <1>11, <2>1, <2>2, <2>3, <2>4, Numbers DEF CountedFor
  <1> QED
    BY <1>12, <1>13

\* A request asks for the image of its launcher.
LEMMA CountedGetInfo ==
    ASSUME SetFacts, IInv, NEW L \in SUBSET Languages, CountedFor(L), Answered \/ Failed,
           bootFaults' = bootFaults, NEW r \in Requests, getInfo(r)
    PROVE  CountedFor(L)'
  <1> TypeOK /\ LentTo(r)
    BY LentEach DEF IInv
  <1>1. PICK i \in Images \cup {NoImage} : getImage(held[r], i) /\ image' = [image EXCEPT ![r] = i]
    BY Zenon DEF getInfo
  <1>2. /\ UNCHANGED <<storage, made, entry, index>> /\ pc[r] = "getInfo"
        /\ pc' = [pc EXCEPT ![r] = "putArchive"]
    BY Zenon DEF getInfo, Goto, bootVars, storageVars
  <1>3. /\ pc'[r] = "putArchive" /\ image'[r] = i
        /\ \A q \in Requests : q # r => pc'[q] = pc[q] /\ image'[q] = image[q]
    BY <1>1, <1>2, Zenon DEF TypeOK
  <1>4. \A q \in Requests : q # r => CountsSame(q)
    BY <1>3, StillCounts, Zenon
  <1>5. Has(r) /\ Has(r)' /\ Sure(r) /\ (Sure(r)' <=> i # NoImage)
    BY <1>2, <1>3, Zenon DEF Has, Sure, Holding, Remembering
  <1>6. Taken(L)' = Taken(L) /\ Free(L)' = Free(L) /\ Tried(L)' = Tried(L)
    BY <1>2, <1>4, <1>5, TakenStep, ListsSame, TriedSame, Zenon
  <1>7. CASE Sure(r)'
    <2>1. Replaceable(L)' = Replaceable(L)
      BY <1>4, <1>5, <1>7, TakenStep, Zenon
    <2> QED
      BY <1>6, <2>1, CountedSame, Zenon
  <1>8. CASE ~Sure(r)'
    <2>1. Exists(held[r]) /\ containers[held[r]].image \in Images
      BY <1>2, ConfiguredImage, Zenon DEF LentTo, Holding
    <2>2. ~Answered
      BY <1>1, <1>5, <1>8, <2>1 DEF getImage, Answered, Failed, TypeOK, DockerTypeOK
    <2>3. /\ LanguageOf[r] \in L => r \in Replaceable(L)
          /\ Replaceable(L)' =
               IF LanguageOf[r] \in L THEN Replaceable(L) \ {r} ELSE Replaceable(L)
      BY <1>4, <1>5, <1>8, TakenStep, Zenon
    <2>4. CASE LanguageOf[r] \notin L
      BY <1>6, <2>3, <2>4, CountedSame, Zenon
    <2>5. CASE LanguageOf[r] \in L
      <3>1. Cardinality(Replaceable(L)') = Cardinality(Replaceable(L)) - 1
        BY <2>3, <2>5, Numbers, OneLess, Zenon
      <3>2. faults' - bootFaults' = (faults - bootFaults) + 1 /\ faults - bootFaults \in Nat
        BY <2>2, Faults, Zenon
      <3> QED
        BY <1>6, <3>1, <3>2, Numbers DEF CountedFor
    <2> QED
      BY <2>4, <2>5
  <1> QED
    BY <1>7, <1>8

\* A request's replacement fails.
LEMMA CountedNotReplaced ==
    ASSUME SetFacts, IInv, NEW L \in SUBSET Languages, CountedFor(L), Answered \/ Failed,
           bootFaults' = bootFaults, NEW r, r = op.owner, r # Boot, op.stage \in Creation,
           OpDone("reply"), UNCHANGED <<storage, made, entry, index>>,
           image[r] # NoImage => ~Answered
    PROVE  CountedFor(L)'
  <1> TypeOK /\ Control
    BY Zenon DEF IInv
  <1>1. /\ r \in Requests
        /\ \A q \in Requests : q # r => CountsSame(q)
        /\ Has(r) /\ ~Has(r)' /\ ~Sure(r)'
        /\ Sure(r) <=> image[r] # NoImage
    BY OwnerDone, Zenon
  <1>2. Free(L)' = Free(L) /\ Tried(L)' = Tried(L)
    BY ListsSame, TriedSame, Zenon
  <1>3. /\ LanguageOf[r] \in L => r \in Taken(L)
        /\ Taken(L)' = IF LanguageOf[r] \in L THEN Taken(L) \ {r} ELSE Taken(L)
    BY <1>1, TakenStep, ZenonT(30)
  <1>4. CASE LanguageOf[r] \notin L
    <2>1. Replaceable(L)' = Replaceable(L)
      BY <1>1, <1>4, TakenStep, ZenonT(30)
    <2> QED
      BY <1>2, <1>3, <1>4, <2>1, CountedSame, Zenon
  <1>5. CASE LanguageOf[r] \in L
    <2>1. IsFiniteSet(Taken(L)') /\ Cardinality(Taken(L)') = Cardinality(Taken(L)) - 1
      BY <1>3, <1>5, Numbers, OneLess, Zenon
    <2>2. Cardinality(Tried(L)) <=
            Cardinality(Free(L)) + Cardinality(Replaceable(L)') + (faults' - bootFaults')
      <3>1. CASE Sure(r)
        <4>1. r \in Replaceable(L) /\ Replaceable(L)' = Replaceable(L) \ {r}
          BY <1>1, <1>5, <3>1, TakenStep, ZenonT(30)
        <4>2. Cardinality(Replaceable(L)') = Cardinality(Replaceable(L)) - 1
          BY <4>1, Numbers, OneLess, ZenonT(30)
        <4>3. faults' - bootFaults' = (faults - bootFaults) + 1 /\ faults - bootFaults \in Nat
          BY <1>1, <3>1, Faults, Zenon
        <4> QED
          BY <4>2, <4>3, Numbers DEF CountedFor
      <3>2. CASE ~Sure(r)
        <4>1. Replaceable(L)' = Replaceable(L)
          BY <1>1, <3>2, TakenStep, Zenon
        <4> QED
          BY <4>1, Numbers, Faults DEF CountedFor
      <3> QED
        BY <3>1, <3>2, Zenon
    <2> QED
      BY <1>2, <2>1, <2>2, Numbers DEF CountedFor
  <1> QED
    BY <1>4, <1>5, Zenon

\* A request's replacement goes to the storage.
LEMMA CountedReplaced ==
    ASSUME SetFacts, IInv, NEW L \in SUBSET Languages, CountedFor(L), Answered \/ Failed,
           bootFaults' = bootFaults, NEW r, r = op.owner, r # Boot, CreateAdd
    PROVE  CountedFor(L)'
  <1> DEFINE k == LanguageOf[r]
  <1> TypeOK /\ Control
    BY DEF IInv
  <1>b. op.stage = "add" /\ op.stage \in Creation /\ OpDone("reply") /\ op.id \in Ids
    BY Zenon DEF CreateAdd, Creation, Control, OpMatches
  <1>1. /\ r \in Requests
        /\ \A q \in Requests : q # r => CountsSame(q)
        /\ Has(r) /\ ~Has(r)' /\ ~Sure(r)'
        /\ made = << >>
    BY <1>b, OwnerDone, Zenon
  <1>2. /\ UNCHANGED <<entry, index, made, faults>> /\ k \in Languages /\ storage[k] \in Seq(Ids)
        /\ storage' = [storage EXCEPT ![k] = Append(storage[k], op.id)]
    BY Zenon DEF CreateAdd, dockerVars, TypeOK
  <1>3. \A l \in Languages : Length(l) = Len(storage[l]) + 0 /\ Length(l)' = Len(storage'[l]) + 0
    BY <1>1, <1>2, Zenon DEF Length
  <1>4. /\ Len(storage'[k]) = Len(storage[k]) + 1 /\ Len(storage[k]) \in Nat
        /\ \A l \in Languages : l # k => storage'[l] = storage[l]
    <2>1. storage'[k] = Append(storage[k], op.id) /\ \A l \in Languages : l # k => storage'[l] = storage[l]
      BY <1>2, Zenon DEF TypeOK
    <2>2. Len(Append(storage[k], op.id)) = Len(storage[k]) + 1 /\ Len(storage[k]) \in Nat
      OBVIOUS
    <2> QED
      BY <2>1, <2>2, Zenon
  <1> HIDE DEF k
  <1>5. \A l \in Languages : Length(l)' = IF l = k THEN Length(l) + 1 ELSE Length(l)
    BY <1>3, <1>4
  <1>6. /\ <<k, Length(k) + 1>> \notin Free(L)
        /\ Free(L)' = IF k \in L THEN Free(L) \cup {<<k, Length(k) + 1>>} ELSE Free(L)
    BY <1>2, <1>5, FreeOneMore, Zenon
  <1>7. /\ k \in L => r \in Taken(L)
        /\ Taken(L)' = IF k \in L THEN Taken(L) \ {r} ELSE Taken(L)
    BY <1>1, TakenStep, Zenon DEF k
  <1>8. Tried(L)' = Tried(L)
    BY <1>2, TriedSame, Zenon
  <1>9. CASE k \notin L
    <2>1. Replaceable(L)' = Replaceable(L)
      BY <1>1, <1>9, TakenStep, Zenon DEF k
    <2> QED
      BY <1>6, <1>7, <1>8, <1>9, <2>1, CountedSame, Zenon
  <1>10. CASE k \in L
    <2>1. IsFiniteSet(Free(L)') /\ Cardinality(Free(L)') = Cardinality(Free(L)) + 1
      BY <1>6, <1>10, Numbers, OneMore, Zenon
    <2>2. IsFiniteSet(Taken(L)') /\ Cardinality(Taken(L)') = Cardinality(Taken(L)) - 1
      BY <1>7, <1>10, Numbers, OneLess, Zenon
    <2>3. Cardinality(Replaceable(L)') \in {Cardinality(Replaceable(L)) - 1, Cardinality(Replaceable(L))}
      <3>1. CASE Sure(r)
        <4>1. r \in Replaceable(L) /\ Replaceable(L)' = Replaceable(L) \ {r}
          BY <1>1, <1>10, <3>1, TakenStep, Zenon DEF k
        <4> QED
          BY <4>1, Numbers, OneLess, Zenon
      <3>2. CASE ~Sure(r)
        BY <1>1, <3>2, TakenStep, ZenonT(30)
      <3> QED
        BY <3>1, <3>2, Zenon
    <2>4. faults' - bootFaults' = faults - bootFaults /\ faults - bootFaults \in Nat
      BY <1>2, Faults, Zenon
    <2> QED
      BY <1>8, <2>1, <2>2, <2>3, <2>4, Numbers DEF CountedFor
  <1> QED
    BY <1>9, <1>10

\* Start-up has created a launcher.
LEMMA CountedAdded ==
    ASSUME SetFacts, IInv, NEW L \in SUBSET Languages, CountedFor(L), bootFaults' = bootFaults,
           op.owner = Boot, index < Entries[entry].launched, CreateAdd
    PROVE  CountedFor(L)'
  <1> DEFINE k == Entries[entry].language
  <1> TypeOK /\ Control
    BY DEF IInv
  <1> op.stage = "add" /\ op.id \in Ids /\ entry <= Len(Entries) /\ entry \in Nat \ {0}
    BY Zenon DEF CreateAdd, Creation, Control, OpMatches, TypeOK
  <1>1. /\ UNCHANGED <<storage, entry, faults, pc, image>>
        /\ made' = Append(made, op.id) /\ index' = index + 1
    BY Zenon DEF CreateAdd, OpDone, dockerVars
  <1>2. k \in Languages
    BY EntryAt, Zenon
  <1>3. /\ made' # << >> /\ Len(made') = Len(made) + 1 /\ Len(made) \in Nat
        /\ made = << >> => Len(made) = 0
    BY <1>1
  <1>4. \A l \in Languages : Length(l) = Len(storage[l]) + IF l = k THEN Len(made) ELSE 0
    BY ZenonT(30) DEF Length
  <1>5. \A l \in Languages : Length(l)' = Len(storage[l]) + IF l = k THEN Len(made) + 1 ELSE 0
    BY <1>1, <1>3, Zenon DEF Length
  <1>6. \A l \in Languages : Len(storage[l]) \in Nat
    OBVIOUS
  <1> HIDE DEF k
  <1>7. ASSUME NEW l \in Languages
        PROVE  Length(l)' = IF l = k THEN Length(l) + 1 ELSE Length(l)
    <2>1. CASE l = k
      <3>1. Length(l) = Len(storage[l]) + Len(made) /\ Length(l)' = Len(storage[l]) + (Len(made) + 1)
        BY <1>4, <1>5, <2>1, Zenon
      <3>2. Len(storage[l]) \in Nat /\ Len(made) \in Nat
        BY <1>3, <1>6, Zenon
      <3>a. ASSUME NEW a \in Nat, NEW b \in Nat PROVE a + (b + 1) = (a + b) + 1
        OBVIOUS
      <3>b. Len(storage[l]) + (Len(made) + 1) = (Len(storage[l]) + Len(made)) + 1
        BY <3>2, <3>a, Zenon
      <3>3. Length(l)' = Length(l) + 1
        BY <3>1, <3>b, Zenon
      <3> QED
        BY <2>1, <3>3, Zenon
    <2>2. CASE l # k
      BY <1>4, <1>5, <2>2, ZenonT(30)
    <2> QED
      BY <2>1, <2>2, Zenon
  <1>8. /\ <<k, Length(k) + 1>> \notin Free(L)
        /\ Free(L)' = IF k \in L THEN Free(L) \cup {<<k, Length(k) + 1>>} ELSE Free(L)
    BY <1>2, <1>7, FreeOneMore, Zenon
  <1>9. /\ <<entry, index + 1>> \notin Tried(L)
        /\ Tried(L)' = IF k \in L THEN Tried(L) \cup {<<entry, index + 1>>} ELSE Tried(L)
    BY <1>1, TriedOne, Zenon DEF k
  <1>10. \A r \in Requests : CountsSame(r)
    BY <1>1, StillCounts, Zenon
  <1>11. Taken(L)' = Taken(L) /\ Replaceable(L)' = Replaceable(L)
    BY <1>10, TakenSame, Zenon
  <1>12. Answered
    BY <1>1, Zenon DEF Answered
  <1>13. CASE k \notin L
    BY <1>8, <1>9, <1>11, <1>12, <1>13, CountedSame, ZenonT(30)
  <1>14. CASE k \in L
    <2>1. IsFiniteSet(Free(L)') /\ Cardinality(Free(L)') = Cardinality(Free(L)) + 1
      BY <1>8, <1>14, Numbers, OneMore, Zenon
    <2>2. IsFiniteSet(Tried(L)') /\ Cardinality(Tried(L)') = Cardinality(Tried(L)) + 1
      BY <1>9, <1>14, Numbers, OneMore, ZenonT(30)
    <2>3. faults' - bootFaults' = faults - bootFaults /\ faults - bootFaults \in Nat
      BY <1>1, <1>12, Faults, Zenon
    <2> QED
      BY <1>11, <2>1, <2>2, <2>3, Numbers DEF CountedFor
  <1> QED
    BY <1>13, <1>14, Zenon

\* Start-up could not create a launcher.
LEMMA CountedNotCreated ==
    ASSUME SetFacts, IInv, NEW L \in SUBSET Languages, CountedFor(L), Answered \/ Failed, ~Answered,
           bootFaults' = bootFaults, entry <= Len(Entries), index < Entries[entry].launched,
           UNCHANGED <<storage, made, entry, pc, image>>, index' = index + 1
    PROVE  CountedFor(L)'
  <1> TypeOK
    BY Zenon DEF IInv
  <1>1. Free(L)' = Free(L)
    BY ListsSame, Zenon
  <1>2. \A r \in Requests : CountsSame(r)
    BY StillCounts, Zenon
  <1>3. Taken(L)' = Taken(L) /\ Replaceable(L)' = Replaceable(L)
    BY <1>2, TakenSame, Zenon
  <1>4. /\ <<entry, index + 1>> \notin Tried(L)
        /\ Tried(L)' = IF Entries[entry].language \in L
                       THEN Tried(L) \cup {<<entry, index + 1>>} ELSE Tried(L)
    BY TriedOne, Zenon
  <1>5. CASE Entries[entry].language \notin L
    BY <1>1, <1>3, <1>4, <1>5, CountedSame, ZenonT(30)
  <1>6. CASE Entries[entry].language \in L
    <2>1. IsFiniteSet(Tried(L)') /\ Cardinality(Tried(L)') = Cardinality(Tried(L)) + 1
      BY <1>4, <1>6, Numbers, OneMore, ZenonT(30)
    <2>2. faults' - bootFaults' = (faults - bootFaults) + 1 /\ faults - bootFaults \in Nat
      BY Faults, Zenon
    <2> QED
      BY <1>1, <1>3, <2>1, <2>2, Numbers DEF CountedFor
  <1> QED
    BY <1>5, <1>6, Zenon

\* A run request: a new launcher for start-up or a request, or none.
LEMMA CountedRun ==
    ASSUME SetFacts, IInv, NEW L \in SUBSET Languages, CountedFor(L), Answered \/ Failed,
           bootFaults' = bootFaults, op.owner = Boot => index < Entries[entry].launched, CreateRun
    PROVE  CountedFor(L)'
  <1> USE DEF storageVars, requestVars
  <1> TypeOK /\ Control
    BY DEF IInv
  <1> op.stage = "run" /\ op.stage \in Creation /\ UNCHANGED <<storage, made, entry>>
    BY Zenon DEF CreateRun, Creation
  <1> DEFINE what == IF op.owner = Boot THEN Entries[entry].imageName ELSE image[op.owner]
  <1> PICK id \in Ids \cup {NoId} :
        /\ run(what, id)
        /\ \/ id # NoId /\ UNCHANGED <<index, requestVars>>
           \/ /\ id = NoId /\ OpDone("reply")
              /\ index' = IF op.owner = Boot THEN index + 1 ELSE index
    BY Zenon DEF CreateRun
  <1>2. id = NoId /\ what \in Images => ~Answered
    BY RunAnswered, Zenon
  <1>3. CASE id # NoId
    <2>1. UNCHANGED <<pc, image, index>>
      BY <1>3, Zenon
    <2>2. \A r \in Requests : CountsSame(r)
      BY <2>1, StillCounts, Zenon
    <2>3. Taken(L)' = Taken(L) /\ Replaceable(L)' = Replaceable(L)
      BY <2>2, TakenSame, Zenon
    <2>4. Free(L)' = Free(L) /\ Tried(L)' = Tried(L)
      BY <2>1, ListsSame, TriedSame, Zenon
    <2> QED
      BY <2>3, <2>4, CountedSame, ZenonT(30)
  <1>4. CASE id = NoId /\ op.owner = Boot
    <2> USE <1>4
    <2>1. entry <= Len(Entries) /\ entry \in Nat \ {0}
      BY ZenonT(30) DEF Control, OpMatches, TypeOK
    <2>2. ~Answered
      BY <1>2, <2>1, EntryAt, ZenonT(30)
    <2>3. UNCHANGED <<pc, image>> /\ index' = index + 1
      BY ZenonT(30) DEF OpDone
    <2> QED
      BY <2>1, <2>2, <2>3, CountedNotCreated, Zenon
  <1>5. CASE id = NoId /\ op.owner # Boot
    <2> USE <1>5
    <2>3. image[op.owner] # NoImage => ~Answered
      BY <1>2, ZenonT(30) DEF TypeOK
    <2> HIDE DEF what
    <2> QED
      BY <2>3, CountedNotReplaced, Zenon
  <1> QED
    BY <1>3, <1>4, <1>5, Zenon

\* Start-up adds the launchers of an entry to the storage.
LEMMA CountedValues ==
    ASSUME SetFacts, IInv, NEW L \in SUBSET Languages, CountedFor(L), bootFaults' = bootFaults, addValues
    PROVE  CountedFor(L)'
  <1> DEFINE k == Entries[entry].language
  <1> TypeOK
    BY DEF IInv
  <1>1. /\ entry <= Len(Entries) /\ index = Entries[entry].launched
        /\ storage' = [storage EXCEPT ![k] = storage[k] \o made]
        /\ entry' = entry + 1 /\ index' = 0 /\ made' = << >>
        /\ UNCHANGED <<faults, pc, image>>
    BY Zenon DEF addValues, dockerVars, requestVars
  <1>5. \A l \in Languages : Length(l) = Len(storage[l]) + IF l = k THEN Len(made) ELSE 0
    BY Zenon DEF Length
  <1>6. \A l \in Languages : Length(l)' = Len(storage'[l]) + 0
    BY <1>1, Zenon DEF Length
  <1>7. \A l \in Languages : storage'[l] = IF l = k THEN storage[k] \o made ELSE storage[l]
    BY <1>1, Zenon DEF TypeOK
  <1> HIDE DEF k
  <1>8. ASSUME NEW l \in Languages PROVE Length(l)' = Length(l)
    <2>1. CASE l = k
      <3>1. Length(l) = Len(storage[l]) + Len(made) /\ Length(l)' = Len(storage[l] \o made) + 0
        BY <1>5, <1>6, <1>7, <2>1, Zenon
      <3> QED
        BY <3>1
    <2>2. CASE l # k
      BY <1>5, <1>6, <1>7, <2>2, ZenonT(30)
    <2> QED
      BY <2>1, <2>2
  <1>9. Free(L)' = Free(L) /\ Tried(L)' = Tried(L)
    BY <1>1, <1>8, FreeSame, TriedEntry, Zenon
  <1>10. \A r \in Requests : CountsSame(r)
    BY <1>1, StillCounts, Zenon
  <1>11. Taken(L)' = Taken(L) /\ Replaceable(L)' = Replaceable(L)
    BY <1>10, TakenSame
  <1>12. Answered
    BY <1>1, Zenon DEF Answered
  <1> QED
    BY <1>9, <1>11, <1>12, CountedSame, Zenon

\* Before start-up has created anything there is nothing to count.
Nothing ==
    /\ faults \in Nat /\ bootFaults = faults
    /\ entry = 1 /\ index = 0 /\ made = << >>
    /\ \A l \in Languages : storage[l] = << >>
    /\ \A r \in Requests : ~Has(r)

AllCounted == \A L \in SUBSET Languages : CountedFor(L)

LEMMA NothingYet == SetFacts /\ Nothing => AllCounted
  <1> SUFFICES ASSUME SetFacts, Nothing, NEW L \in SUBSET Languages PROVE CountedFor(L)
    BY DEF AllCounted
  <1> USE DEF Nothing
  <1>0. \A l \in Languages : Length(l) = Len(storage[l]) + 0 /\ Len(storage[l]) = 0
    BY DEF Length
  <1>1. \A l \in Languages : Length(l) = 0
    BY <1>0
  <1>2. Free(L) = {}
    BY <1>1 DEF Free
  <1>3. Taken(L) = {} /\ Replaceable(L) = {}
    BY TakenAre, Zenon DEF Sure
  <1>4. Tried(L) = {}
    <2>1. ASSUME NEW s \in Slots PROVE ~(s[1] < 1) /\ ~(s[2] <= 0)
      <3>1. PICK n \in 1..Len(Entries) : \E k \in 1..Entries[n].launched : s = <<n, k>>
        BY DEF Slots
      <3>2. PICK k \in 1..Entries[n].launched : s = <<n, k>>
        BY <3>1, Zenon
      <3> QED
        BY <3>2
    <2> QED
      BY <2>1, Zenon DEF Tried
  <1> QED
    BY <1>2, <1>3, <1>4 DEF CountedFor, SetFacts

\* Every step keeps the numbers.
LEMMA CountedForStep ==
    ASSUME SetFacts, IInv, Counted, [Next]_vars, NEW L \in SUBSET Languages
    PROVE  CountedFor(L)'
  <1> TypeOK /\ Control /\ CountedFor(L) /\ (Answered \/ Failed)
    BY Calls, Zenon DEF IInv, Counted
  <1>1. CASE Crash
    <2>1. /\ faults' \in Nat /\ bootFaults' = faults' /\ entry' = 1 /\ index' = 0
          /\ made' = << >> /\ \A l \in Languages : storage'[l] = << >>
      BY <1>1 DEF Crash, dockerVars, TypeOK, DockerTypeOK
    <2>2. \A r \in Requests : ~Has(r)'
      BY <1>1, Zenon DEF Crash, Has, Holding
    <2>3. Nothing'
      BY <2>1, <2>2, Zenon DEF Nothing
    <2>4. AllCounted'
      BY <2>3, NothingYet, PTL
    <2> QED
      BY <2>4 DEF AllCounted
  <1>2. CASE ~Crash
    <2> USE <1>2
    <2> bootFaults' = bootFaults
      BY LifeStep
    <2>b. op.owner = Boot /\ op.stage \in Creation => index < Entries[entry].launched
      BY Zenon DEF Counted
    <2>1. CASE addValues
      BY <2>1, CountedValues
    <2>2. CASE CreateRun
      <3>1. op.stage \in Creation
        BY <2>2, Zenon DEF CreateRun, Creation
      <3> QED
        BY <2>b, <2>2, <3>1, CountedRun, Zenon
    <2>3. CASE CreateAdd
      <3> USE <2>3
      <3>1. op.stage \in Creation
        BY Zenon DEF CreateAdd, Creation
      <3>2. CASE op.owner = Boot
        BY <2>b, <3>1, <3>2, CountedAdded, Zenon
      <3>3. CASE op.owner # Boot
        BY <3>3, CountedReplaced, Zenon
      <3> QED
        BY <3>2, <3>3
    <2>4. ASSUME NEW r \in Requests, extract(r) PROVE CountedFor(L)'
      BY <2>4, CountedExtract, Zenon
    <2>5. ASSUME NEW r \in Requests, getInfo(r) PROVE CountedFor(L)'
      BY <2>5, CountedGetInfo, Zenon
    <2>6. CASE /\ ~addValues /\ ~CreateRun /\ ~CreateAdd
               /\ \A r \in Requests : ~extract(r) /\ ~getInfo(r)
      <3>1. UNCHANGED <<storage, made, entry, index>>
        BY <2>6, CountedElse, Zenon
      <3>2. \A r \in Requests : CountsSame(r)
        BY <2>6, CountsStep, Zenon
      <3>3. Taken(L)' = Taken(L) /\ Replaceable(L)' = Replaceable(L)
        BY <3>2, TakenSame, Zenon
      <3>4. Free(L)' = Free(L) /\ Tried(L)' = Tried(L)
        BY <3>1, ListsSame, TriedSame, Zenon
      <3> QED
        BY <3>3, <3>4, CountedSame, Zenon
    <2> QED
      BY <2>1, <2>2, <2>3, <2>4, <2>5, <2>6, Zenon
  <1> QED
    BY <1>1, <1>2

LEMMA CountedStep == SetFacts /\ IInv /\ Counted /\ [Next]_vars => Counted'
  <1> SUFFICES ASSUME SetFacts, IInv, Counted, [Next]_vars PROVE Counted'
    OBVIOUS
  <1> QED
    BY SlotStep, CountedForStep, Zenon DEF Counted

LEMMA CountedInit == SetFacts /\ Init => Counted
  <1> SUFFICES ASSUME SetFacts, Init PROVE Counted
    OBVIOUS
  <1>1. /\ phase = "list" /\ op.stage = "idle" /\ faults = 0 /\ bootFaults = 0
        /\ entry = 1 /\ index = 0 /\ made = << >> /\ \A l \in Languages : storage[l] = << >>
    BY Zenon DEF Init, DockerInit, NoOp
  <1>2. \A r \in Requests : ~Has(r)
    BY DEF Init, Has, Holding
  <1> QED
    BY <1>1, <1>2, NothingYet, Zenon DEF Counted, Creation, Nothing, AllCounted

-----------------------------------------------------------------------------
(* What this says while requests are served.                               *)

\* The free launchers are those of the storage, and every slot has been tried.
LEMMA Serving ==
    ASSUME IInv, Counted, phase = "serve"
    PROVE  /\ \A l \in Languages : Length(l) = Len(storage[l])
           /\ \A L : Tried(L) = {s \in Slots : Entries[s[1]].language \in L}
  <1> TypeOK /\ Control /\ entry > Len(Entries) /\ made = << >>
    BY Zenon DEF IInv, Counted, Control, ListsMatch
  <1>1. ASSUME NEW l \in Languages PROVE Length(l) = Len(storage[l])
    <2>1. Length(l) = Len(storage[l]) + 0 /\ Len(storage[l]) \in Nat
      BY DEF Length
    <2> QED
      BY <2>1
  <1>2. ASSUME NEW s \in Slots PROVE s[1] < entry
    <2>1. PICK n \in 1..Len(Entries) : \E k \in 1..Entries[n].launched : s = <<n, k>>
      BY DEF Slots
    <2>2. s[1] = n /\ n \in Nat /\ Len(Entries) \in Nat /\ entry \in Nat
      BY <2>1 DEF TypeOK
    <2> QED
      BY <2>2
  <1>3. \A L : Tried(L) = {s \in Slots : Entries[s[1]].language \in L}
    BY <1>2, Zenon DEF Tried
  <1> QED
    BY <1>1, <1>3, ZenonT(30)

\* The launchers of a language, once its free ones are counted.
LEMMA CountedShrinks ==
    ASSUME SetFacts, IInv, Counted,
           \A l : Length(l) \in Nat => Cardinality(Free({l})) = Length(l)
    PROVE  ShrinksOnlyByFaults
  <1> SUFFICES ASSUME phase = "serve", NEW l \in Languages
               PROVE  /\ Total(l) <= Configured(l)
                      /\ Configured(l) <= Total(l) + (faults - bootFaults)
    BY Zenon DEF ShrinksOnlyByFaults
  <1>1. CountedFor({l})
    BY Zenon DEF Counted
  <1>2. Length(l) = Len(storage[l]) /\ Len(storage[l]) \in Nat
    BY Serving
  <1>3. Cardinality(Free({l})) = Len(storage[l])
    BY <1>2
  <1>4. Taken({l}) = {r \in Requests : /\ LanguageOf[r] = l
                                       /\ pc[r] \in Holding \cup {"removed", "creating"}}
    BY DEF Taken
  <1>5. Total(l) = Cardinality(Free({l})) + Cardinality(Taken({l}))
    BY <1>3, <1>4, Zenon DEF Total
  <1>6. Tried({l}) = {s \in Slots : Entries[s[1]].language = l}
    BY Serving
  <1>7. Configured(l) = Cardinality(Tried({l}))
    BY <1>6, Zenon DEF Configured
  <1>8. faults - bootFaults \in Nat
    BY DEF IInv, TypeOK, DockerTypeOK
  <1> QED
    BY <1>1, <1>5, <1>7, <1>8, Numbers DEF CountedFor

\* Every container is the one of a free launcher, or of a request that has one.
Free1(p)  == storage[p[1]][p[2]]
Taken1(r) == IF pc[r] \in Holding THEN held[r] ELSE op.id

LEMMA HousedIn ==
    ASSUME IInv, Swept, Counted, phase = "serve", faults = bootFaults
    PROVE  SenjunContainers \in SUBSET ({Free1(p) : p \in Free(Languages)} \cup
                                       {Taken1(r) : r \in Taken(Languages)})
  <1> DEFINE A == {Free1(p) : p \in Free(Languages)}
             B == {Taken1(r) : r \in Taken(Languages)}
  <1>a. TypeOK /\ Control /\ made = << >>
    BY DEF IInv, Control, ListsMatch
  <1> SUFFICES ASSUME NEW id \in SenjunContainers PROVE id \in A \cup B
    OBVIOUS
  <1>1. Housed(id)
    BY DEF Swept, AllHoused
  <1>2. ASSUME NEW l \in Languages, NEW i \in 1..Len(storage[l]), storage[l][i] = id
        PROVE  id \in A
    <2>1. Length(l) = Len(storage[l])
      BY Serving, Zenon
    <2>2. <<l, i>> \in Free(Languages)
      BY <2>1 DEF Free
    <2>3. Free1(<<l, i>>) = id
      BY <1>2 DEF Free1
    <2> QED
      BY <2>2, <2>3
  <1>3. CASE op.stage = "add" /\ op.id = id
    <2>1. op.owner \in Taken(Languages) /\ pc[op.owner] = "creating"
      BY <1>a, <1>3, Zenon DEF TypeOK, Control, OpMatches, Creation, Taken
    <2>2. Taken1(op.owner) = id
      BY <1>3, <2>1 DEF Taken1, Holding
    <2> QED
      BY <2>1, <2>2
  <1>4. ASSUME NEW r \in Requests, Uses(r, id) PROVE id \in B
    <2>1. r \in Taken(Languages) /\ Taken1(r) = id
      BY <1>4 DEF Uses, Taken, Taken1
    <2> QED
      BY <2>1
  <1> HIDE DEF A, B
  <1> QED
    BY <1>a, <1>1, <1>2, <1>3, <1>4 DEF Housed, Placed

LEMMA AllTried == ASSUME IInv, Counted, phase = "serve" PROVE Tried(Languages) = Slots
  <1>1. ASSUME NEW s \in Slots PROVE Entries[s[1]].language \in Languages
    <2>1. PICK n \in 1..Len(Entries) : \E k \in 1..Entries[n].launched : s = <<n, k>>
      BY DEF Slots
    <2>2. n \in Nat \ {0} /\ n <= Len(Entries) /\ s[1] = n
      BY <2>1
    <2> QED
      BY <2>2, EntryAt, Zenon
  <1> QED
    BY <1>1, Serving, Zenon
=============================================================================
