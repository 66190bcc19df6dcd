----------------------------- MODULE MCRequests ------------------------------
(* Instances of Requests for TLC.                                          *)
EXTENDS Requests

CONSTANT Absent     \* the value of a member a body does not have

Present(members) ==
    [m \in {m \in DOMAIN members : members[m] # Absent} |-> members[m]]

-----------------------------------------------------------------------------
(* Trees with two levels below the root: empty, marked and unmarked files, *)
(* nodes without a name, nodes that are neither file nor directory, and    *)
(* names that are empty or occur twice.                                    *)

File(name, contents, main) ==
    Present([name |-> name, contents |-> contents, is_main_file |-> main])
Dir(name, children) == Present([name |-> name, children |-> children])

Files == {File("a", "", Absent), File("a", "x", TRUE), File("b", "x", FALSE),
          File("b", "y", TRUE), File(Absent, "x", Absent)}
Leaves == Files \cup {Dir("a", << >>), Dir(Absent, << >>), Dir("b", NotArray), Dir("b", Absent)}
Subs   == {Dir(name, children) : name \in {"a", ""}, children \in SeqOf(Leaves, 2)}
            \cup {Dir(Absent, <<File("b", "y", TRUE)>>)}
Short  == Leaves \cup {Dir("a", <<File("b", "x", FALSE)>>), Dir("b", <<File("a", "", TRUE)>>)}

Roots == {Dir(name, << >>) : name \in {Absent, "p", ""}}
           \cup {Dir("p", <<x>>) : x \in Subs \cup Leaves}
           \cup {Dir("p", <<x, y>>) : x \in Subs \cup Leaves, y \in Short}
           \cup {Dir("p", <<y, x>>) : x \in Subs \cup Leaves, y \in Short}
           \cup {Dir(name, <<y, x>>) : x \in Short, y \in Short, name \in {"", Absent}}

Sample == {NotString, Absent, BadTree, Dir("p", NotArray), Dir("p", <<File("a", "x", TRUE)>>)}

-----------------------------------------------------------------------------
(* Every tree in an ordinary body, and every combination of present,       *)
(* absent, ill-typed, known and unknown members around a few trees.        *)

Names   == {"python", "haskell", "cobol", NotString, Absent}
Sources == {"", "x", NotString, Absent}
Lists   == {<< >>, <<"-v">>, <<NotString>>, NotArray, Absent}

Chapters ==
    {Present([container_type |-> name, source_run |-> run, source_test |-> test,
              cmd_line_args |-> list]) :
       name \in Names, run \in Sources, test \in Sources, list \in Lists}

PlaygroundBody(name, tree, list) ==
    Present([container_type |-> name, project |-> tree, cmd_line_args |-> list])

Playgrounds ==
    {PlaygroundBody("python", tree, Absent) : tree \in Roots} \cup
    {PlaygroundBody(name, tree, list) : name \in Names, tree \in Sample, list \in Lists}

PracticeBody(name, tree, action, arguments, id) ==
    Present([course_id |-> name, project_contents |-> tree, action |-> action,
             user_cmd_line_args |-> arguments, project_id |-> id])

Practices ==
    {PracticeBody("python", tree, "run", "x", "1") : tree \in Roots} \cup
    {PracticeBody(name, tree, action, arguments, id) :
       name \in Names, tree \in Sample, action \in {"run", "test", Absent},
       arguments \in {"", "x", NotString}, id \in {"1", Absent}}

MCBodiesOf ==
    [Chapter    |-> Chapters \cup {NotJson, NotObject},
     Playground |-> Playgrounds \cup {NotJson, NotObject},
     Practice   |-> Practices \cup {NotJson, NotObject},
     unknown    |-> {NotJson}]

MCChaptersOnly == [Chapter |-> Chapters]
=============================================================================
