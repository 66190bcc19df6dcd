------------------------------ MODULE MCConfig ------------------------------
(* Configuration files for TLC: a good one, varied in one place.           *)
EXTENDS Config

MCLanguages == {"cpp", "python"}

Numbers == {Absent, Text, -8, -1, 0, 1, 7, 8, 9, 16}
EntrySet == [language : MCLanguages \cup {"kotlin"}, image : {Absent, "a", "b"},
             launched : Numbers]
Good  == [language |-> "cpp", image |-> "a", launched |-> 1]
Lists == {Absent, << >>} \cup {<<e>> : e \in EntrySet}
           \cup {<<Good, e>> : e \in EntrySet} \cup {<<e, Good>> : e \in EntrySet}

Tree(threads, max, courses, playground, practice) ==
    [threads |-> threads, max |-> max, courses |-> courses,
     playground |-> playground, practice |-> practice]

Default == Tree(2, 2, <<Good>>, <<Good>>, <<Good>>)

Trees ==
    {[Default EXCEPT !.threads = n, !.max = m] : n, m \in Numbers}
      \cup {[Default EXCEPT ![Tables[i]] = l] : i \in 1..3, l \in Lists}

\* The other file is missing, broken or good.
MCFiles == {Absent, Broken} \cup Trees

MCInit ==
    /\ Init
    /\ near \in {Absent, Broken, Default} \/ etc \in {Absent, Broken, Default}
=============================================================================
