------------------------------- MODULE Config -------------------------------
(***************************************************************************)
(* The program entry and common/config.cpp: which file is read, what is    *)
(* taken from it, and when the program ends instead of serving.  A file is *)
(* a Boost property tree: a value is text until it is converted, a name    *)
(* may occur twice, and all but the members read here is ignored.          *)
(***************************************************************************)
EXTENDS Integers, Sequences, FiniteSets

CONSTANTS
    Languages,      \* the names in kLanguagesMatch
    Absent,         \* get_child_optional found nothing
    Text,           \* a value that is not a number
    Broken,         \* a file that is not JSON
    CpuCounts,      \* what std::thread::hardware_concurrency may return
    SizeBits,       \* width of size_t
    IntBits,        \* width of uint32_t
    Files           \* what may be found at either place: Absent, Broken or a tree

Tables == <<"courses", "playground", "practice">>

\* What a number may be written as.
Number == Int \cup {Absent, Text}

\* The widths are 64 and 32; hardware_concurrency returns an unsigned int.  A tree has
\* the members that are read, with Absent for one that is not there.
ASSUME ConfigAssumption ==
    /\ SizeBits \in Nat /\ IntBits \in Nat
    /\ 4 < 2^IntBits /\ 2^IntBits <= 2^SizeBits
    /\ CpuCounts \subseteq 0..(2^IntBits - 1)
    /\ Absent \notin Int /\ Text \notin Int
    /\ \A f \in Files \ {Absent, Broken} :
         /\ f.threads \in Number /\ f.max \in Number
         /\ \A i \in 1..3 : f[Tables[i]] # Absent =>
              /\ Len(f[Tables[i]]) \in Nat
              /\ \A j \in 1..Len(f[Tables[i]]) : f[Tables[i]][j].launched \in Number

VARIABLES
    near,       \* watchman_cpp_config.json near the binary
    etc,        \* the one in /etc
    main,       \* where the program is
    tree,       \* the file that is read
    config,     \* the Config that is filled
    position,   \* the next entry of the table that is filled
    pool        \* the number of threads AsyncContext's pool has

vars == <<near, etc, main, tree, config, position, pool>>

NoTable   == [l \in {} |-> 0]
Reading   == {"threads", "max"} \cup {Tables[i] : i \in 1..3}
Terminals == {"serving", "failed", "terminated"}

Init ==
    /\ near \in Files /\ etc \in Files
    /\ main = "find"
    /\ tree = Absent
    /\ config = [threadPoolSize |-> 0, maxContainersAmount |-> 0,
                 courses |-> NoTable, playground |-> NoTable, practice |-> NoTable]
    /\ position = 1
    /\ pool = 0

Goes(where) == main' = where

\* std::terminate, called, or by an exception that readConfig catches.
Terminates ==
    /\ Goes("terminated")
    /\ UNCHANGED <<near, etc, tree, config, position, pool>>

\* get_value of an unsigned type, external: a stream reads the text, a minus sign
\* is allowed and wraps around, and a number that does not fit is an error.
Fits(v, bits)     == v # Absent /\ v # Text /\ v < 2^bits /\ -v < 2^bits
Unsigned(v, bits) == v % 2^bits

-----------------------------------------------------------------------------

\* Slip: a file near the binary that cannot be read is passed over.
findConfig_Lenient ==
    /\ main = "find"
    /\ tree' = IF near \notin {Absent, Broken} THEN near ELSE etc
    /\ Goes(IF tree' = Absent THEN "failed" ELSE "read")
    /\ UNCHANGED <<near, etc, config, position, pool>>

\* findConfig and getConfig: without a file, main returns -1.
findConfig ==
    /\ main = "find"
    /\ tree' = IF near # Absent THEN near ELSE etc
    /\ Goes(IF tree' = Absent THEN "failed" ELSE "read")
    /\ UNCHANGED <<near, etc, config, position, pool>>

readConfig ==
    /\ main = "read"
    /\ \/ tree = Broken /\ Terminates
       \/ /\ tree # Broken
          /\ Goes("threads")
          /\ UNCHANGED <<near, etc, tree, config, position, pool>>

\* hardware_concurrency returns 0 when it does not know.
getCpuCount(n) == \E c \in CpuCounts : n = IF c > 0 THEN c ELSE 4

\* Slip: a size of zero is taken as it is.
fillThreads_Zero ==
    /\ main = "threads"
    /\ \/ ~Fits(tree.threads, SizeBits) /\ Terminates
       \/ /\ Fits(tree.threads, SizeBits)
          /\ config' = [config EXCEPT !.threadPoolSize = Unsigned(tree.threads, SizeBits)]
          /\ Goes("max")
          /\ UNCHANGED <<near, etc, tree, position, pool>>

\* fillConfig, thread-pool-size: the value of an empty optional throws.
fillThreads ==
    /\ main = "threads"
    /\ \/ ~Fits(tree.threads, SizeBits) /\ Terminates
       \/ /\ Fits(tree.threads, SizeBits)
          /\ LET size == Unsigned(tree.threads, SizeBits)
             IN  \E n \in 1..(2^SizeBits) :
                   /\ IF size = 0 THEN getCpuCount(n) ELSE n = size
                   /\ config' = [config EXCEPT !.threadPoolSize = n]
          /\ Goes("max")
          /\ UNCHANGED <<near, etc, tree, position, pool>>

\* Slip: the number is read with the width of size_t.
fillMax_Wide ==
    /\ main = "max"
    /\ \/ ~Fits(tree.max, SizeBits) /\ Terminates
       \/ /\ Fits(tree.max, SizeBits)
          /\ config' = [config EXCEPT !.maxContainersAmount = Unsigned(tree.max, SizeBits)]
          /\ Goes("courses")
          /\ UNCHANGED <<near, etc, tree, position, pool>>

fillMax ==
    /\ main = "max"
    /\ \/ ~Fits(tree.max, IntBits) /\ Terminates
       \/ /\ Fits(tree.max, IntBits)
          /\ config' = [config EXCEPT !.maxContainersAmount = Unsigned(tree.max, IntBits)]
          /\ Goes("courses")
          /\ UNCHANGED <<near, etc, tree, position, pool>>

Complete(e) == e.image # Absent /\ Fits(e.launched, IntBits) /\ e.language \in Languages

Info(e) == [imageName |-> e.image, launched |-> Unsigned(e.launched, IntBits)]

\* Slip: the last of two entries for a language wins.
fillTable_Overwrite(i) ==
    /\ main = Tables[i]
    /\ tree[main] # Absent
    /\ position <= Len(tree[main])
    /\ LET e == tree[main][position]
       IN  \/ ~Complete(e) /\ Terminates
           \/ /\ Complete(e)
              /\ config' = [config EXCEPT ![main] =
                   [l \in DOMAIN @ \cup {e.language} |->
                      IF l = e.language THEN Info(e) ELSE @[l]]]
              /\ position' = position + 1
              /\ UNCHANGED <<near, etc, main, tree, pool>>

\* One turn of the loop; insert leaves the entry of a language that is there.
fillTable(i) ==
    /\ main = Tables[i]
    /\ tree[main] # Absent
    /\ position <= Len(tree[main])
    /\ LET e == tree[main][position]
       IN  \/ ~Complete(e) /\ Terminates
           \/ /\ Complete(e)
              /\ config' = [config EXCEPT ![main] =
                   [l \in DOMAIN @ \cup {e.language} |->
                      IF l \in DOMAIN @ THEN @[l] ELSE Info(e)]]
              /\ position' = position + 1
              /\ UNCHANGED <<near, etc, main, tree, pool>>

\* Before the loop and after it.
TableEnds(i) ==
    /\ main = Tables[i]
    /\ \/ tree[main] = Absent /\ Terminates
       \/ /\ tree[main] # Absent
          /\ position > Len(tree[main])
          /\ Goes(IF i < 3 THEN Tables[i + 1] ELSE "construct")
          /\ position' = 1
          /\ UNCHANGED <<near, etc, tree, config, pool>>

\* main constructs the Server and starts it.  The pool counts its threads in 32 bits;
\* if there is none, a build with assertions ends here.
construct ==
    /\ main = "construct"
    /\ pool' = config.threadPoolSize % 2^IntBits
    /\ Goes("serving") \/ (pool' = 0 /\ Goes("terminated"))
    /\ UNCHANGED <<near, etc, tree, config, position>>

Ended == main \in Terminals /\ UNCHANGED vars

Next ==
    \/ findConfig \/ readConfig \/ fillThreads \/ fillMax
    \/ \E i \in 1..3 : fillTable(i) \/ TableEnds(i)
    \/ construct
    \/ Ended

Spec == Init /\ [][Next]_vars

-----------------------------------------------------------------------------
(* Properties.                                                             *)

\* A number as it is written, where that is a number of the type at all.
Written(v, bits) == v \in 0..(2^bits - 1)

TypeOK ==
    /\ main \in {"find", "read", "construct"} \cup Reading \cup Terminals
    /\ config.threadPoolSize \in 0..(2^SizeBits - 1)
    /\ config.maxContainersAmount \in 0..(2^IntBits - 1)
    /\ \A i \in 1..3 : \A l \in DOMAIN config[Tables[i]] :
         l \in Languages /\ config[Tables[i]][l].launched \in 0..(2^IntBits - 1)
    /\ position \in Nat \ {0}
    /\ pool \in 0..(2^IntBits - 1)

\* getConfig: the program serves with all that one file says, the one near the binary
\* if there is one: nothing is missing, and nothing is taken from the other.
ServesOneFile ==
    main = "serving" =>
      LET file == IF near # Absent THEN near ELSE etc
      IN  /\ file # Broken /\ file # Absent
          /\ \A i \in 1..3 :
               /\ file[Tables[i]] # Absent
               /\ \A j \in 1..Len(file[Tables[i]]) : Complete(file[Tables[i]][j])
               /\ DOMAIN config[Tables[i]] =
                    {file[Tables[i]][j].language : j \in 1..Len(file[Tables[i]])}

\* fillTable: a language has the image and the number of launchers of its first entry.
FirstEntryCounts ==
    main = "serving" =>
      \A i \in 1..3 : \A j \in 1..Len(tree[Tables[i]]) :
        LET e == tree[Tables[i]][j]
        IN  (\A k \in 1..(j - 1) : tree[Tables[i]][k].language # e.language) =>
              /\ config[Tables[i]][e.language].imageName = e.image
              /\ Written(e.launched, IntBits) =>
                   config[Tables[i]][e.language].launched = e.launched

\* static_thread_pool, "UNIFEX_ASSERT(threadCount > 0)": a file that asks for zero
\* threads, or for any number a uint32_t can hold, gives a pool that can work.
PoolHasThreads ==
    main = "serving" /\ Written(tree.threads, IntBits) => pool > 0
=============================================================================
