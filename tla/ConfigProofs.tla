---------------------------- MODULE ConfigProofs ----------------------------
(***************************************************************************)
(* What the program serves with, for every configuration file, every       *)
(* number of entries and any widths of size_t and uint32_t.                *)
(***************************************************************************)
EXTENDS Config, TLAPS

Fields == {"threadPoolSize", "maxContainersAmount", "courses", "playground", "practice"}

\* The file that counts.
File == IF near # Absent THEN near ELSE etc

\* Where fillConfig has not come to the tables yet, and where it has left them.
Before == {"find", "read", "threads", "max"}
After  == {"construct", "serving"}
InTables == {"courses", "playground", "practice"}

\* The entries of table i that have been taken over.
Upto(i) ==
    IF main \in After \/ (\E j \in (i + 1)..3 : main = Tables[j]) THEN Len(tree[Tables[i]])
    ELSE IF main = Tables[i] THEN position - 1
    ELSE 0

\* A tree has been found, and its tables are read from their start, in order.
Progress ==
    /\ near \in Files /\ etc \in Files
    /\ DOMAIN config = Fields
    /\ main \in Before => position = 1
    /\ main = "read" => tree = File /\ tree # Absent /\ tree \in Files
    /\ main \in {"threads", "max"} \cup InTables \cup After =>
         tree = File /\ tree \in Files \ {Absent, Broken}
    /\ \A i \in 1..3 :
         /\ main \in After \/ (\E j \in (i + 1)..3 : main = Tables[j]) =>
              tree[Tables[i]] # Absent
         /\ main = Tables[i] /\ tree[Tables[i]] = Absent => position = 1
         /\ main = Tables[i] /\ tree[Tables[i]] # Absent =>
              position <= Len(tree[Tables[i]]) + 1

\* What has been taken over of a table is what those entries say, the first one for a
\* language.
TakenFrom(i) ==
    /\ DOMAIN config[Tables[i]] = {tree[Tables[i]][j].language : j \in 1..Upto(i)}
    /\ \A j \in 1..Upto(i) :
         LET e == tree[Tables[i]][j]
         IN  /\ Complete(e)
             /\ (\A k \in 1..(j - 1) : tree[Tables[i]][k].language # e.language) =>
                  config[Tables[i]][e.language] = Info(e)

Taken == main \in Before \cup InTables \cup After => \A i \in 1..3 : TakenFrom(i)

\* A number of threads that a uint32_t can hold is kept, or replaced by one that
\* it can hold, and is not zero.
Threads ==
    /\ main \in {"max"} \cup InTables \cup After /\ Written(tree.threads, IntBits) =>
         config.threadPoolSize \in 1..(2^IntBits - 1)
    /\ main = "serving" => pool = config.threadPoolSize % 2^IntBits

\* The inductive invariant: what has been read of the file at each point of fillConfig.
Inv == TypeOK /\ Progress /\ Taken /\ Threads

-----------------------------------------------------------------------------

\* The widths, and what may be in a file.
LEMMA Widths ==
    /\ 2^IntBits \in Nat /\ 2^SizeBits \in Nat
    /\ 4 < 2^IntBits /\ 2^IntBits <= 2^SizeBits
    /\ CpuCounts \subseteq 0..(2^IntBits - 1)
  BY ConfigAssumption

LEMMA InFile ==
    ASSUME NEW f \in Files \ {Absent, Broken}
    PROVE  /\ f.threads \in Number /\ f.max \in Number
           /\ \A i \in 1..3 : f[Tables[i]] # Absent =>
                /\ Len(f[Tables[i]]) \in Nat
                /\ \A j \in 1..Len(f[Tables[i]]) : f[Tables[i]][j].launched \in Number
  BY ConfigAssumption, Zenon

\* A number that is read has the type it is read as, and is kept if it is of that type.
LEMMA Reads ==
    ASSUME NEW v \in Number, NEW bits \in {IntBits, SizeBits}, Fits(v, bits)
    PROVE  /\ Unsigned(v, bits) \in 0..(2^bits - 1)
           /\ Written(v, bits) => Unsigned(v, bits) = v
  <1>1. v \in Int
    BY DEF Fits, Number
  <1>2. 2^bits \in Nat \ {0}
    BY Widths
  <1> DEFINE w == 2^bits
  <1>3. w \in Nat \ {0}
    BY <1>2
  <1> HIDE DEF w
  <1>4. v % w \in 0..(w - 1) /\ (v \in 0..(w - 1) => v % w = v)
    BY <1>1, <1>3
  <1> QED
    BY <1>4 DEF Unsigned, Written, w

\* The tables are told apart, from each other and from the other places of the program.
LEMMA TableNames ==
    /\ Tables[1] = "courses" /\ Tables[2] = "playground" /\ Tables[3] = "practice"
    /\ \A i \in 1..3 : Tables[i] \in InTables /\ Tables[i] \in Fields
    /\ \A i, j \in 1..3 : Tables[i] = Tables[j] => i = j
    /\ \A i \in 1..3 : Tables[i] \notin Before \cup After
    /\ \A i \in 1..3 : Tables[i] \notin {"threadPoolSize", "maxContainersAmount"}
  <1>1. Tables[1] = "courses" /\ Tables[2] = "playground" /\ Tables[3] = "practice"
    BY DEF Tables
  <1> QED
    BY <1>1 DEF InTables, Fields, Before, After

-----------------------------------------------------------------------------
(* One lemma per kind of step.                                             *)

\* Before the tables nothing is taken over.
LEMMA NothingYet == ASSUME main \in Before PROVE \A i \in 1..3 : Upto(i) = 0
  BY TableNames DEF Upto, Before, After

LEMMA NothingYetNext ==
    ASSUME main' \in Before \/ (main' = "courses" /\ position' = 1)
    PROVE  \A i \in 1..3 : Upto(i)' = 0
  <1>1. CASE main' \in Before
    BY TableNames DEF Upto, Before, After
  <1>2. CASE main' = "courses" /\ position' = 1
    <2>1. \A i \in 1..3 : \A j \in (i + 1)..3 : main' # Tables[j]
      BY TableNames
    <2>2. main' \notin After
      BY <1>2 DEF After
    <2> QED
      BY <1>2, <2>1, <2>2 DEF Upto
  <1> QED
    BY <1>1, <1>2

\* The program ends instead of serving.
LEMMA EndStep ==
    ASSUME Inv, main' \in {"failed", "terminated"}, UNCHANGED <<near, etc, config>>,
           position' \in Nat \ {0}, pool' \in 0..(2^IntBits - 1)
    PROVE  Inv'
  <1>1. TypeOK'
    BY Zenon DEF Inv, TypeOK, Terminals
  <1>2. Progress' /\ Taken' /\ Threads'
    BY TableNames DEF Inv, Progress, Taken, Threads, Before, After, InTables
  <1> QED
    BY <1>1, <1>2 DEF Inv

\* Up to the first table, the tables of the Config stay empty.
LEMMA EmptyTables ==
    ASSUME Inv, main \in Before, main' \in Before \/ (main' = "courses" /\ position' = 1),
           \A i \in 1..3 : config'[Tables[i]] = config[Tables[i]]
    PROVE  Taken'
  <1>1. \A i \in 1..3 : Upto(i) = 0 /\ Upto(i)' = 0
    BY NothingYet, NothingYetNext
  <1>2. \A i \in 1..3 : DOMAIN config[Tables[i]] = {}
    BY <1>1 DEF Inv, Taken, TakenFrom
  <1>3. \A i \in 1..3 : 1..Upto(i)' = {}
    BY <1>1
  <1>4. \A i \in 1..3 : DOMAIN config'[Tables[i]] = {}
    BY <1>2
  <1> QED
    BY <1>3, <1>4, Zenon DEF Taken, TakenFrom

LEMMA FindStep == ASSUME Inv, findConfig PROVE Inv'
  <1>1. /\ main = "find" /\ tree' = File /\ position = 1
        /\ UNCHANGED <<near, etc, config, position, pool>>
        /\ main' = IF tree' = Absent THEN "failed" ELSE "read"
    BY DEF findConfig, Goes, File, Inv, Progress, Before
  <1>2. CASE main' = "failed"
    BY <1>1, <1>2, EndStep, Zenon DEF Inv, TypeOK
  <1>3. CASE main' = "read" /\ tree' # Absent
    <2>1. TypeOK'
      BY <1>1, <1>3, Zenon DEF Inv, TypeOK
    <2>2. Taken'
      BY <1>1, <1>3, EmptyTables DEF Before
    <2>3. Threads'
      BY <1>3 DEF Threads, InTables, After
    <2>5. Progress'
      BY <1>1, TableNames DEF Inv, Progress, File, After, InTables
    <2> QED
      BY <2>1, <2>2, <2>3, <2>5 DEF Inv
  <1> QED
    BY <1>1, <1>2, <1>3

LEMMA TerminatesStep == ASSUME Inv, Terminates PROVE Inv'
  BY EndStep, Zenon DEF Terminates, Goes, Inv, TypeOK

LEMMA ReadStep == ASSUME Inv, readConfig PROVE Inv'
  <1>1. CASE Terminates
    BY <1>1, TerminatesStep
  <1>2. CASE /\ main = "read" /\ main' = "threads" /\ tree # Broken
             /\ UNCHANGED <<near, etc, tree, config, position, pool>>
    <2>1. TypeOK'
      BY <1>2, Zenon DEF Inv, TypeOK, Reading
    <2>2. Taken'
      BY <1>2, EmptyTables DEF Before
    <2>3. Threads'
      BY <1>2 DEF Threads, InTables, After
    <2>4. Progress'
      BY <1>2, TableNames DEF Inv, Progress, File, Before, After, InTables
    <2> QED
      BY <2>1, <2>2, <2>3, <2>4 DEF Inv
  <1> QED
    BY <1>1, <1>2 DEF readConfig, Goes

LEMMA ThreadsStep == ASSUME Inv, fillThreads PROVE Inv'
  <1>1. CASE Terminates
    BY <1>1, TerminatesStep
  <1>2. CASE ~Terminates
    <2> DEFINE size == Unsigned(tree.threads, SizeBits)
    <2>1. /\ main = "threads" /\ main' = "max" /\ Fits(tree.threads, SizeBits)
          /\ UNCHANGED <<near, etc, tree, position, pool>>
      BY <1>2 DEF fillThreads, Goes
    <2>2. PICK n \in 1..(2^SizeBits) :
            /\ IF size = 0 THEN getCpuCount(n) ELSE n = size
            /\ config' = [config EXCEPT !.threadPoolSize = n]
      BY <1>2, Zenon DEF fillThreads
    <2>3. tree \in Files \ {Absent, Broken}
      BY <2>1 DEF Inv, Progress
    <2>4. tree.threads \in Number
      BY <2>3, InFile, Zenon
    <2>5. size \in 0..(2^SizeBits - 1) /\ (Written(tree.threads, SizeBits) => size = tree.threads)
      BY <2>1, <2>4, Reads
    <2>6. getCpuCount(n) => n \in 1..(2^IntBits - 1)
      BY Widths DEF getCpuCount
    <2>7. n \in 1..(2^SizeBits - 1)
      BY <2>2, <2>5, <2>6, Widths
    <2>8. Written(tree.threads, IntBits) => n \in 1..(2^IntBits - 1)
      BY <2>2, <2>5, <2>6, Widths DEF Written
    <2>9. /\ DOMAIN config' = Fields /\ config'.threadPoolSize = n
          /\ \A f \in Fields \ {"threadPoolSize"} : config'[f] = config[f]
      BY <2>2 DEF Inv, Progress, Fields
    <2>10. TypeOK'
      BY <2>1, <2>7, <2>9, TableNames DEF Inv, TypeOK, Reading, Fields
    <2>11. Taken'
      BY <2>1, <2>9, EmptyTables, TableNames, Zenon DEF Before
    <2>12. Threads'
      BY <2>1, <2>8, <2>9 DEF Threads
    <2>13. Progress'
      BY <2>1, <2>9, TableNames DEF Inv, Progress, File, Before, After, InTables
    <2> QED
      BY <2>10, <2>11, <2>12, <2>13 DEF Inv
  <1> QED
    BY <1>1, <1>2

LEMMA MaxStep == ASSUME Inv, fillMax PROVE Inv'
  <1>1. CASE Terminates
    BY <1>1, TerminatesStep
  <1>2. CASE ~Terminates
    <2> DEFINE n == Unsigned(tree.max, IntBits)
    <2>1. /\ main = "max" /\ main' = "courses" /\ Fits(tree.max, IntBits)
          /\ config' = [config EXCEPT !.maxContainersAmount = n]
          /\ UNCHANGED <<near, etc, tree, position, pool>>
      BY <1>2 DEF fillMax, Goes
    <2>2. tree \in Files \ {Absent, Broken} /\ position = 1
      BY <2>1 DEF Inv, Progress, Before
    <2>3. n \in 0..(2^IntBits - 1)
      BY <2>1, <2>2, InFile, Reads, Zenon
    <2> HIDE DEF n
    <2>4. /\ DOMAIN config' = Fields /\ config'.maxContainersAmount = n
          /\ \A f \in Fields \ {"maxContainersAmount"} : config'[f] = config[f]
      BY <2>1, Zenon DEF Inv, Progress, Fields
    <2>5. TypeOK'
      BY <2>1, <2>3, <2>4, TableNames DEF Inv, TypeOK, Reading
    <2>6. Taken'
      BY <2>1, <2>2, <2>4, EmptyTables, TableNames, Zenon DEF Before
    <2>7. Threads'
      BY <2>1 DEF Inv, Threads, Fields
    <2>8. Progress'
      BY <2>1, TableNames DEF Inv, Progress, File, Before, After, InTables
    <2> QED
      BY <2>5, <2>6, <2>7, <2>8 DEF Inv
  <1> QED
    BY <1>1, <1>2

\* What Upto counts in the table that is read, in those before it and after it.
LEMMA UptoAt ==
    ASSUME NEW i \in 1..3, main = Tables[i]
    PROVE  \A j \in 1..3 : Upto(j) = IF j < i THEN Len(tree[Tables[j]])
                                     ELSE IF j = i THEN position - 1 ELSE 0
  <1>1. main \notin After
    BY TableNames
  <1>3. \A j \in 1..3 : main = Tables[j] <=> j = i
    BY TableNames
  <1> QED
    BY <1>1, <1>3 DEF Upto

LEMMA UptoAtNext ==
    ASSUME NEW i \in 1..3, main' = Tables[i]
    PROVE  \A j \in 1..3 : Upto(j)' = IF j < i THEN Len(tree'[Tables[j]])
                                      ELSE IF j = i THEN position' - 1 ELSE 0
  <1>1. main' \notin After
    BY TableNames
  <1>3. \A j \in 1..3 : main' = Tables[j] <=> j = i
    BY TableNames
  <1> QED
    BY <1>1, <1>3 DEF Upto

\* What Progress says while table i is read.
LEMMA ProgressAt ==
    ASSUME Inv, NEW i \in 1..3, main = Tables[i]
    PROVE  /\ tree = File /\ tree \in Files \ {Absent, Broken}
           /\ \A j \in 1..3 : j < i => tree[Tables[j]] # Absent
           /\ tree[Tables[i]] # Absent => position <= Len(tree[Tables[i]]) + 1
           /\ position \in Nat \ {0}
  <1>1. tree = File /\ tree \in Files \ {Absent, Broken}
    BY TableNames, Zenon DEF Inv, Progress
  <1>2. \A j \in 1..3 : j < i => \E k \in (j + 1)..3 : main = Tables[k]
    OBVIOUS
  <1> QED
    BY <1>1, <1>2, Zenon DEF Inv, Progress, TypeOK

\* One entry: its language is new and gets what it says, or it is passed over.
LEMMA TableStep == ASSUME Inv, NEW i \in 1..3, fillTable(i) PROVE Inv'
  <1>1. CASE Terminates
    BY <1>1, TerminatesStep
  <1>2. CASE ~Terminates
    <2> DEFINE T == Tables[i]
               e == tree[T][position]
               old == config[T]
    <2>1. /\ main = T /\ tree[T] # Absent /\ position <= Len(tree[T])
          /\ Complete(e)
          /\ config' = [config EXCEPT ![T] =
               [l \in DOMAIN old \cup {e.language} |->
                  IF l \in DOMAIN old THEN old[l] ELSE Info(e)]]
          /\ position' = position + 1
          /\ UNCHANGED <<near, etc, main, tree, pool>>
      BY <1>2, Zenon DEF fillTable
    <2>2. /\ tree = File /\ tree \in Files \ {Absent, Broken}
          /\ \A j \in 1..3 : j < i => tree[Tables[j]] # Absent
          /\ position \in Nat \ {0}
      BY <2>1, ProgressAt, Zenon
    <2>3. T \in Fields /\ T \notin {"threadPoolSize", "maxContainersAmount"} /\ T \in InTables
      BY TableNames
    <2>4. /\ DOMAIN config' = Fields
          /\ \A f \in Fields \ {T} : config'[f] = config[f]
          /\ config'[T] = [l \in DOMAIN old \cup {e.language} |->
                             IF l \in DOMAIN old THEN old[l] ELSE Info(e)]
      BY <2>1, <2>3, Zenon DEF Inv, Progress
    <2>5. Len(tree[T]) \in Nat /\ e.launched \in Number
      BY <2>1, <2>2, InFile
    <2>6. TypeOK'
      <3>1. Info(e).launched \in 0..(2^IntBits - 1) /\ e.language \in Languages
        <4>1. e.language \in Languages /\ Fits(e.launched, IntBits)
          BY <2>1, Zenon DEF Complete
        <4>2. Unsigned(e.launched, IntBits) \in 0..(2^IntBits - 1)
          BY <2>5, <4>1, Reads, Zenon
        <4> QED
          BY <4>1, <4>2, Zenon DEF Info
      <3>2. \A j \in 1..3 : \A l \in DOMAIN config'[Tables[j]] :
              l \in Languages /\ config'[Tables[j]][l].launched \in 0..(2^IntBits - 1)
        <4> TAKE j \in 1..3
        <4>1. CASE j = i
          BY <2>4, <3>1, <4>1 DEF Inv, TypeOK
        <4>2. CASE j # i
          <5>1. config'[Tables[j]] = config[Tables[j]]
            BY <2>4, <4>2, TableNames
          <5> QED
            BY <5>1, Zenon DEF Inv, TypeOK
        <4> QED
          BY <4>1, <4>2, Zenon
      <3>3. /\ config'.threadPoolSize = config.threadPoolSize
            /\ config'.maxContainersAmount = config.maxContainersAmount
        BY <2>3, <2>4, Zenon DEF Fields
      <3>4. position' \in Nat \ {0}
        BY <2>1, <2>2
      <3> QED
        BY <2>1, <3>2, <3>3, <3>4, Zenon DEF Inv, TypeOK
    <2>7. Progress'
      BY <2>1, <2>2, <2>4, <2>5, TableNames DEF Inv, Progress, File, Before, After, InTables
    <2>8. Threads'
      <3>1. config'.threadPoolSize = config.threadPoolSize
        BY <2>3, <2>4, Zenon DEF Fields
      <3> QED
        BY <2>1, <3>1, Zenon DEF Inv, Threads, InTables
    <2>9. Taken'
      <3>1. /\ main \in InTables
            /\ \A j \in 1..3 : Upto(j)' = IF j = i THEN position ELSE Upto(j)
            /\ Upto(i) = position - 1
        BY <2>1, <2>2, <2>3, UptoAt, UptoAtNext
      <3>2. ASSUME NEW j \in 1..3, j # i
            PROVE  /\ config'[Tables[j]] = config[Tables[j]] /\ Upto(j)' = Upto(j)
        BY <2>4, <3>1, <3>2, TableNames
      <3>3. /\ DOMAIN old = {tree[T][j].language : j \in 1..(position - 1)}
            /\ \A j \in 1..(position - 1) :
                 /\ Complete(tree[T][j])
                 /\ (\A k \in 1..(j - 1) : tree[T][k].language # tree[T][j].language) =>
                      old[tree[T][j].language] = Info(tree[T][j])
        BY <3>1, Zenon DEF Inv, Taken, TakenFrom
      <3>4. 1..position = 1..(position - 1) \cup {position}
        BY <2>2
      <3>5. DOMAIN config'[T] = {tree[T][j].language : j \in 1..position}
        BY <2>4, <3>3, <3>4
      <3>6. \A j \in 1..position :
              /\ Complete(tree[T][j])
              /\ (\A k \in 1..(j - 1) : tree[T][k].language # tree[T][j].language) =>
                   config'[T][tree[T][j].language] = Info(tree[T][j])
        <4> TAKE j \in 1..position
        <4>1. CASE j \in 1..(position - 1)
          <5>1. tree[T][j].language \in DOMAIN old
            BY <3>3, <4>1, Zenon
          <5>2. config'[T][tree[T][j].language] = old[tree[T][j].language]
            BY <2>4, <5>1, Zenon
          <5> QED
            BY <3>3, <4>1, <5>2, Zenon
        <4>2. CASE j = position
          <5>1. (\A k \in 1..(j - 1) : tree[T][k].language # e.language) =>
                  e.language \notin DOMAIN old
            BY <3>3, <4>2, Zenon
          <5>2. e.language \notin DOMAIN old => config'[T][e.language] = Info(e)
            BY <2>4, Zenon
          <5> QED
            BY <2>1, <4>2, <5>1, <5>2, Zenon
        <4> QED
          BY <3>4, <4>1, <4>2, Zenon
      <3>7. \A j \in 1..3 : TakenFrom(j)'
        <4> TAKE j \in 1..3
        <4>1. CASE j = i
          <5>1. Upto(j)' = position /\ Tables[j] = T /\ tree' = tree
            BY <2>1, <3>1, <4>1, Zenon
          <5> QED
            BY <3>5, <3>6, <5>1 DEF TakenFrom
        <4>2. CASE j # i
          <5>1. TakenFrom(j) /\ tree' = tree
            BY <2>1, <3>1, Zenon DEF Inv, Taken
          <5> QED
            BY <3>2, <4>2, <5>1 DEF TakenFrom
        <4> QED
          BY <4>1, <4>2
      <3> QED
        BY <3>7 DEF Taken
    <2> QED
      BY <2>6, <2>7, <2>8, <2>9 DEF Inv
  <1> QED
    BY <1>1, <1>2

\* A table ends, and the next one or the construction of the Server begins.
LEMMA TableEndsStep == ASSUME Inv, NEW i \in 1..3, TableEnds(i) PROVE Inv'
  <1>1. CASE Terminates
    BY <1>1, TerminatesStep
  <1>2. CASE ~Terminates
    <2>1. /\ main = Tables[i] /\ tree[Tables[i]] # Absent /\ position > Len(tree[Tables[i]])
          /\ main' = IF i < 3 THEN Tables[i + 1] ELSE "construct"
          /\ position' = 1
          /\ UNCHANGED <<near, etc, tree, config, pool>>
      BY <1>2 DEF TableEnds, Goes
    <2>2. /\ tree = File /\ tree \in Files \ {Absent, Broken}
          /\ \A j \in 1..3 : j < i => tree[Tables[j]] # Absent
          /\ position <= Len(tree[Tables[i]]) + 1
          /\ position \in Nat
      BY <2>1, ProgressAt, Zenon
    <2>4. position - 1 = Len(tree[Tables[i]])
      BY <2>1, <2>2
    <2>5. main \in InTables /\ main' \in InTables \cup After
      BY <2>1, TableNames DEF After
    <2>6. TypeOK'
      BY <2>1 DEF Inv, TypeOK, Reading, Terminals, InTables, After
    <2>7. \A j \in 1..3 : Upto(j)' = Upto(j)
      <3>1. \A j \in 1..3 : Upto(j) = IF j <= i THEN Len(tree[Tables[j]]) ELSE 0
        BY <2>1, <2>4, UptoAt
      <3>2. CASE i < 3
        <4>1. i + 1 \in 1..3 /\ main' = Tables[i + 1]
          BY <2>1, <3>2
        <4>2. \A j \in 1..3 : Upto(j)' = IF j < i + 1 THEN Len(tree'[Tables[j]])
                                         ELSE IF j = i + 1 THEN position' - 1 ELSE 0
          BY <4>1, UptoAtNext
        <4> QED
          BY <2>1, <3>1, <4>2
      <3>3. CASE i = 3
        BY <2>1, <3>1, <3>3 DEF Upto, After
      <3> QED
        BY <3>2, <3>3
    <2>8. Taken'
      <3>1. \A j \in 1..3 : TakenFrom(j)
        BY <2>5 DEF Inv, Taken
      <3> QED
        BY <2>1, <2>7, <3>1, Zenon DEF Taken, TakenFrom
    <2>9. Threads'
      BY <2>1, TableNames DEF Inv, Threads
    <2>10. Progress'
      <3>1. CASE i < 3
        <4>1. i + 1 \in 1..3 /\ main' = Tables[i + 1] /\ main' \notin Before \cup After
          BY <2>1, <3>1, TableNames
        <4>2. \A j \in 1..3 : \A k \in (j + 1)..3 : main' = Tables[k] => j <= i
          <5> TAKE j \in 1..3
          <5> TAKE k \in (j + 1)..3
          <5>1. k \in 1..3 /\ (k = i + 1 => j <= i)
            OBVIOUS
          <5> QED
            BY <4>1, <5>1, TableNames, Zenon
        <4>3. \A j \in 1..3 : j <= i => tree[Tables[j]] # Absent
          BY <2>1, <2>2
        <4>4. \A j \in 1..3 : \A k \in (j + 1)..3 : main' = Tables[k] => tree[Tables[j]] # Absent
          BY <4>2, <4>3
        <4>5. \A j \in 1..3 : tree[Tables[j]] # Absent => 1 <= Len(tree[Tables[j]]) + 1
          OBVIOUS
        <4> QED
          BY <2>1, <4>4, <4>5, TableNames DEF Inv, Progress, File, InTables
      <3>2. CASE i = 3
        <4>1. main' = "construct" /\ \A j \in 1..3 : tree[Tables[j]] # Absent
          BY <2>1, <2>2, <3>2
        <4> QED
          BY <2>1, <4>1, TableNames, Zenon DEF Inv, Progress, File, Before, After, InTables
      <3> QED
        BY <3>1, <3>2
    <2> QED
      BY <2>6, <2>8, <2>9, <2>10 DEF Inv
  <1> QED
    BY <1>1, <1>2

LEMMA ConstructStep == ASSUME Inv, construct PROVE Inv'
  <1>1. /\ main = "construct"
        /\ pool' = config.threadPoolSize % 2^IntBits
        /\ main' \in {"serving", "terminated"}
        /\ UNCHANGED <<near, etc, tree, config, position>>
    BY DEF construct, Goes
  <1>2. pool' \in 0..(2^IntBits - 1)
    <2>1. config.threadPoolSize \in Int
      BY DEF Inv, TypeOK
    <2>2. \A n \in Int, w \in Nat \ {0} : n % w \in 0..(w - 1)
      OBVIOUS
    <2>3. 2^IntBits \in Nat \ {0}
      BY Widths
    <2> QED
      BY <1>1, <2>1, <2>2, <2>3, Zenon
  <1>3. CASE main' = "terminated"
    BY <1>1, <1>2, <1>3, EndStep, Zenon DEF Inv, TypeOK
  <1>4. CASE main' = "serving"
    <2>1. TypeOK'
      BY <1>1, <1>2, Zenon DEF Inv, TypeOK, Terminals
    <2>2. Progress'
      BY <1>1, <1>4, TableNames, Zenon DEF Inv, Progress, File, Before, After, InTables
    <2>3. Taken'
      <3>1. \A i \in 1..3 : TakenFrom(i) /\ Upto(i)' = Upto(i)
        BY <1>1, <1>4 DEF Inv, Taken, Upto, After
      <3> QED
        BY <1>1, <3>1 DEF Taken, TakenFrom
    <2>4. Threads'
      BY <1>1 DEF Inv, Threads, After
    <2> QED
      BY <2>1, <2>2, <2>3, <2>4 DEF Inv
  <1> QED
    BY <1>1, <1>3, <1>4

LEMMA InitInv == Init => Inv
  <1> SUFFICES ASSUME Init PROVE Inv
    OBVIOUS
  <1>1. /\ near \in Files /\ etc \in Files /\ main = "find"
        /\ position = 1 /\ pool = 0
        /\ DOMAIN config = Fields
        /\ config.threadPoolSize = 0 /\ config.maxContainersAmount = 0
        /\ config.courses = NoTable /\ config.playground = NoTable /\ config.practice = NoTable
    BY DEF Init, Fields
  <1>2. \A i \in 1..3 : config[Tables[i]] = NoTable
    BY <1>1, TableNames
  <1>3. DOMAIN NoTable = {}
    BY DEF NoTable
  <1>4. TypeOK
    BY <1>1, <1>2, <1>3, Widths DEF TypeOK
  <1>5. Progress
    BY <1>1, TableNames DEF Progress, Before, After, InTables
  <1>6. \A i \in 1..3 : Upto(i) = 0 /\ 1..Upto(i) = {}
    BY <1>1, NothingYet DEF Before
  <1>7. Taken
    BY <1>2, <1>3, <1>6, Zenon DEF Taken, TakenFrom
  <1>8. Threads
    BY <1>1 DEF Threads, InTables, After
  <1> QED
    BY <1>4, <1>5, <1>7, <1>8 DEF Inv

-----------------------------------------------------------------------------
(* The theorems.                                                           *)

\* At every point of fillConfig, what has been filled in is what the entries read so far
\* say, for every file and whatever hardware_concurrency returns.
THEOREM ConfigInvariant == Spec => []Inv
  <1>1. Inv /\ [Next]_vars => Inv'
    <2> SUFFICES ASSUME Inv, [Next]_vars PROVE Inv'
      OBVIOUS
    <2>1. CASE UNCHANGED vars
      <3>1. \A i \in 1..3 : Upto(i)' = Upto(i)
        BY <2>1 DEF vars, Upto
      <3>2. Taken'
        BY <2>1, <3>1 DEF vars, Inv, Taken, TakenFrom
      <3>3. TypeOK' /\ Progress' /\ Threads'
        BY <2>1, Zenon DEF vars, Inv, TypeOK, Progress, Threads, File
      <3> QED
        BY <3>2, <3>3 DEF Inv
    <2> QED
      BY <2>1, FindStep, ReadStep, ThreadsStep, MaxStep, TableStep, TableEndsStep,
         ConstructStep DEF Next, Ended
  <1> QED
    BY InitInv, <1>1, PTL DEF Spec

\* Whatever the file says, every value of the Config has the range of its C++ type.
THEOREM ConfigTypeCorrect == Spec => []TypeOK
  <1>1. Inv => TypeOK
    BY DEF Inv
  <1> QED
    BY <1>1, ConfigInvariant, PTL

\* findConfig and fillConfig: a program that serves has taken over every entry of the
\* one file that counts, and nothing else.
THEOREM ConfigServesOneFile == Spec => []ServesOneFile
  <1>1. Inv => ServesOneFile
    <2> SUFFICES ASSUME Inv, main = "serving" PROVE ServesOneFile
      BY Zenon DEF ServesOneFile
    <2>1. tree = File /\ tree \notin {Absent, Broken}
      BY DEF Inv, Progress, After
    <2>2. \A i \in 1..3 : TakenFrom(i) /\ Upto(i) = Len(tree[Tables[i]])
      BY DEF Inv, Taken, After, Upto
    <2>3. \A i \in 1..3 : tree[Tables[i]] # Absent
      BY DEF Inv, Progress, After
    <2> QED
      BY <2>1, <2>2, <2>3 DEF ServesOneFile, TakenFrom, File
  <1> QED
    BY <1>1, ConfigInvariant, PTL

\* fillTable: insert keeps the first of several entries for a language, whole.
THEOREM ConfigFirstEntryCounts == Spec => []FirstEntryCounts
  <1>1. Inv => FirstEntryCounts
    <2> SUFFICES ASSUME Inv, main = "serving", NEW i \in 1..3,
                        NEW j \in 1..Len(tree[Tables[i]]),
                        \A k \in 1..(j - 1) :
                          tree[Tables[i]][k].language # tree[Tables[i]][j].language
                 PROVE  LET e == tree[Tables[i]][j]
                        IN  /\ config[Tables[i]][e.language].imageName = e.image
                            /\ Written(e.launched, IntBits) =>
                                 config[Tables[i]][e.language].launched = e.launched
      BY Zenon DEF FirstEntryCounts
    <2> DEFINE e == tree[Tables[i]][j]
    <2>1. TakenFrom(i) /\ Upto(i) = Len(tree[Tables[i]])
      BY DEF Inv, Taken, After, Upto
    <2>2. Complete(e) /\ config[Tables[i]][e.language] = Info(e)
      BY <2>1, Zenon DEF TakenFrom
    <2>3. e.launched \in Number
      <3>1. tree \in Files \ {Absent, Broken} /\ tree[Tables[i]] # Absent
        BY Zenon DEF Inv, Progress, After
      <3> QED
        BY <3>1, InFile, Zenon
    <2>4. Written(e.launched, IntBits) => Unsigned(e.launched, IntBits) = e.launched
      BY <2>2, <2>3, Reads, Zenon DEF Complete
    <2> QED
      BY <2>2, <2>4 DEF Info
  <1> QED
    BY <1>1, ConfigInvariant, PTL

\* Where the pool is constructed, its number of threads has not wrapped around.
LEMMA InvPool == Inv => PoolHasThreads
  <1> SUFFICES ASSUME Inv, main = "serving", Written(tree.threads, IntBits) PROVE pool > 0
    BY DEF PoolHasThreads
  <1>1. pool = config.threadPoolSize % 2^IntBits /\ config.threadPoolSize \in 1..(2^IntBits - 1)
    BY DEF Inv, Threads, After
  <1>2. 2^IntBits \in Nat
    BY Widths
  <1> QED
    BY <1>1, <1>2

\* The pool of a serving program has a thread, if the file asks for a number of threads
\* that its constructor's argument can hold, zero included.
THEOREM ConfigPoolHasThreads == Spec => []PoolHasThreads
  BY InvPool, ConfigInvariant, PTL

-----------------------------------------------------------------------------
(* What RestartingProvider is constructed with.                            *)

INSTANCE WellFoundedInduction

\* Every nonempty set of natural numbers has a least element.
LEMMA LeastNumber ==
    ASSUME NEW S \in SUBSET Nat, S # {} PROVE \E i \in S : \A j \in S : i <= j
  <1> DEFINE R == OpToRel(<, Nat)
  <1>1. IsWellFoundedOn(R, Nat)
    BY NatLessThanWellFounded, Zenon
  <1>2. \A i, j \in Nat : i < j => <<i, j>> \in R
    BY DEF OpToRel
  <1> HIDE DEF R
  <1>3. PICK i \in S : \A j \in S : ~(<<j, i>> \in R)
    BY <1>1, WFMin, Zenon
  <1>4. ASSUME NEW j \in S PROVE i <= j
    <2>1. ~(j < i)
      BY <1>2, <1>3, Zenon
    <2> QED
      BY <2>1
  <1> QED
    BY <1>4

\* The pairs that syncCreateCodeLaunchers walks through, of a table of the Config.
EntriesOf(table) ==
    {[language |-> l, imageName |-> table[l].imageName, launched |-> table[l].launched] :
       l \in DOMAIN table}

\* The images that a table of a file names.
ImagesIn(t) == {t[j].image : j \in 1..Len(t)} \ {Absent}

\* What ProviderAssumption asks of the tables and numbers: in whatever order the unordered
\* map gives its pairs to syncCreateCodeLaunchers, they are entries with a known language,
\* an image that this table of the file names, and a number of launchers.
FeedsProvider ==
    main = "serving" =>
      /\ config.maxContainersAmount \in Nat
      /\ Written(tree.threads, IntBits) => pool \in Nat \ {0}
      /\ \A i \in 1..3 : \A entries \in Seq(EntriesOf(config[Tables[i]])) :
           entries \in Seq([language : Languages, imageName : ImagesIn(File[Tables[i]]),
                            launched : Nat])

\* A language of a table has an entry in the file, and so a first one.
LEMMA ServingFeeds == ASSUME Inv, main = "serving" PROVE FeedsProvider
  <1>1. /\ config.maxContainersAmount \in Nat /\ pool \in Nat
        /\ \A i \in 1..3 : \A l \in DOMAIN config[Tables[i]] :
             l \in Languages /\ config[Tables[i]][l].launched \in Nat
    BY Widths DEF Inv, TypeOK
  <1>2. Written(tree.threads, IntBits) => pool > 0
    <2>1. PoolHasThreads
      BY InvPool
    <2> QED
      BY <2>1 DEF PoolHasThreads
  <1>3. ASSUME NEW i \in 1..3, NEW l \in DOMAIN config[Tables[i]]
        PROVE  config[Tables[i]][l].imageName \in ImagesIn(tree[Tables[i]])
    <2> DEFINE t == tree[Tables[i]]
               Of == {j \in 1..Len(t) : t[j].language = l}
    <2>1. TakenFrom(i) /\ Upto(i) = Len(t)
      BY DEF Inv, Taken, After, Upto
    <2>2. Of # {} /\ Of \in SUBSET Nat
      BY <2>1 DEF TakenFrom
    <2>3. PICK j \in Of : \A k \in Of : j <= k
      BY <2>2, LeastNumber, Zenon
    <2>4. \A k \in 1..(j - 1) : t[k].language # t[j].language
      <3>1. Len(t) \in Nat
        <4>1. tree \in Files \ {Absent, Broken} /\ t # Absent
          BY Zenon DEF Inv, Progress, After
        <4> QED
          BY <4>1, InFile, Zenon
      <3>2. \A k \in 1..(j - 1) : k \in 1..Len(t) /\ ~(j <= k)
        BY <3>1
      <3> QED
        BY <2>3, <3>2, Zenon
    <2>5. Complete(t[j]) /\ config[Tables[i]][l] = Info(t[j])
      BY <2>1, <2>4, Zenon DEF TakenFrom
    <2> QED
      BY <2>5 DEF Complete, Info, ImagesIn
  <1>4. tree = File
    BY Zenon DEF Inv, Progress, After
  <1>5. ASSUME NEW i \in 1..3
        PROVE  EntriesOf(config[Tables[i]]) \subseteq
                 [language : Languages, imageName : ImagesIn(File[Tables[i]]), launched : Nat]
    <2> SUFFICES ASSUME NEW l \in DOMAIN config[Tables[i]]
                 PROVE  /\ l \in Languages /\ config[Tables[i]][l].launched \in Nat
                        /\ config[Tables[i]][l].imageName \in ImagesIn(File[Tables[i]])
      BY DEF EntriesOf
    <2> QED
      BY <1>1, <1>3, <1>4, Zenon
  <1>6. ASSUME NEW S, NEW T, S \subseteq T PROVE \A s \in Seq(S) : s \in Seq(T)
    BY <1>6
  <1> QED
    <2>1. Written(tree.threads, IntBits) => pool \in Nat \ {0}
      BY <1>1, <1>2
    <2>2. \A i \in 1..3 : \A entries \in Seq(EntriesOf(config[Tables[i]])) :
            entries \in Seq([language : Languages, imageName : ImagesIn(File[Tables[i]]),
                             launched : Nat])
      BY <1>5, <1>6, Zenon
    <2> QED
      BY <1>1, <2>1, <2>2, Zenon DEF FeedsProvider

\* fillConfig and syncCreateCodeLaunchers: what a serving program constructs its provider
\* with is what the module RestartingProvider assumes of it.
THEOREM ConfigFeedsProvider == Spec => []FeedsProvider
  <1>1. Inv => FeedsProvider
    BY ServingFeeds DEF FeedsProvider
  <1> QED
    BY <1>1, ConfigInvariant, PTL
=============================================================================
