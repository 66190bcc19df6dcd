------------------------------ MODULE MCAnswers ------------------------------
(* Instances of Answers for TLC.                                           *)
EXTENDS Answers

\* The tests of the launchers show that chapters print the separator.  Whether practices
\* do is not said, and on playgrounds a comment and a test disagree: both are left open.
MCSeparatorOf ==
    [Chapter |-> {TRUE}, Playground |-> BOOLEAN, Practice |-> BOOLEAN]
=============================================================================
