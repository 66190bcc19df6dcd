------------------------------- MODULE Answers -------------------------------
(***************************************************************************)
(* From the text a container prints to the JSON the client reads.          *)
(* BaseCodeLauncher::runCode executes a script of the container's image;   *)
(* the script prints the program's output, marks that say how far it came  *)
(* and, when the timeout utility stopped it, the utility's exit code.  The *)
(* launcher recovers the outcome by searching that text.                   *)
(*                                                                         *)
(* A text is a sequence of characters; a character is a piece of text and  *)
(* a position in it, so that a mark has its real length and can be cut in  *)
(* the middle, while what programs print is one opaque character.          *)
(* Programs do not print marks themselves.  size_t is SizeBits wide: any   *)
(* width that can count a message gives the same results as 64 bits.       *)
(***************************************************************************)
EXTENDS Integers, Sequences, FiniteSetsExt

CONSTANTS
    MaxPrints,      \* bound on the pieces a program, or its tests, print
    SizeBits,
    SeparatorOf,    \* whether the scripts of an action may print user_code_ok
    OutOfRange,     \* std::out_of_range thrown by substr
    nullopt

Actions == {"Chapter", "Playground", "Practice"}

\* The marks, the codes of the timeout utility, and what else a text is made of.
Pieces == {"user_code_ok", "user_solution_ok", "tests_cases_error", "user_solution_error",
           "124", "125", "137", "CRLF", "out", "daemon_error", "internal_error", "timeout",
           "out_of_memory"}

Char == Pieces \X Nat
Text == Seq(Char)

\* A size_t can count any message; neither marker is a value of another kind.
ASSUME AnswersAssumption ==
    /\ MaxPrints \in Nat
    /\ SizeBits \in Nat
    /\ 2^SizeBits \in Nat /\ 2^SizeBits > 2 * MaxPrints + 100
    /\ SeparatorOf \in [Actions -> SUBSET BOOLEAN]
    /\ OutOfRange # nullopt
    /\ {OutOfRange, nullopt} \cap Text = {}
    /\ OutOfRange \notin [sourceCode : Int, output : Text, testsOutput : Text \cup {nullopt}]
    /\ {OutOfRange, nullopt} \cap
         [status_code : Int, user_code_output : Text, tests_output : Text \cup {nullopt}] = {}

\* Lengths of the marks of answer_common.hpp, each with its suffix _f936a25e.
Width(piece) ==
    CASE piece = "user_code_ok"        -> 21
      [] piece = "user_solution_ok"    -> 25
      [] piece = "tests_cases_error"   -> 26
      [] piece = "user_solution_error" -> 28
      [] piece \in {"124", "125", "137"} -> 3
      [] piece = "CRLF"                -> 2
      [] OTHER                         -> 1

Spell(piece)   == [i \in 1..Width(piece) |-> <<piece, i>>]
Escaped(piece) == Spell(piece) \o Spell("CRLF")

-----------------------------------------------------------------------------
(* std::string, with the arithmetic of size_t.                             *)

Size(n) == n % 2^SizeBits
npos    == Size(-1)

find(s, pattern) ==
    LET at == {i \in 0..(Len(s) - Len(pattern)) :
                 SubSeq(s, i + 1, i + Len(pattern)) = pattern}
    IN  IF at = {} THEN npos ELSE Min(at)

substr(s, from, amount) ==
    IF from > Len(s) THEN OutOfRange
                     ELSE SubSeq(s, from + 1, Min({from + amount, Len(s)}))

erase(s, from, amount) == SubSeq(s, 1, from) \o SubSeq(s, from + amount + 1, Len(s))

ends_with(s, pattern) ==
    Len(pattern) <= Len(s) /\ SubSeq(s, Len(s) - Len(pattern) + 1, Len(s)) = pattern

-----------------------------------------------------------------------------
(* answer_common.cpp                                                       *)

\* The marks of kCorrelations, in order, with their exit codes.
kCorrelations == << <<"user_solution_ok", 0>>, <<"user_solution_error", 1>>,
                    <<"tests_cases_error", 2>> >>
kTimeoutUtilCodes == << <<"124", 124>>, <<"125", 125>>, <<"137", 137>> >>
kEscapePatterns == <<"user_code_ok", "user_solution_ok", "tests_cases_error",
                     "user_solution_error">>

\* Slip: the error value of getStringLength.
Unknown_Npos == npos

Unknown == 3

getStringLength(code) == IF code \in 0..2 THEN Width(kCorrelations[code + 1][1]) ELSE Size(-1)

TimedOut(text) ==
    {i \in 1..3 : ends_with(text, Escaped(kTimeoutUtilCodes[i][1]))}
Found(text) == {i \in 1..3 : find(text, Spell(kCorrelations[i][1])) # npos}

\* Slip: the marks are searched before the codes of the timeout utility.
getExitCode_MarksFirst(text) ==
    IF Found(text) # {} THEN kCorrelations[Min(Found(text))][2]
    ELSE IF TimedOut(text) # {} THEN kTimeoutUtilCodes[Min(TimedOut(text))][2]
    ELSE Unknown

getExitCode(text) ==
    IF TimedOut(text) # {} THEN kTimeoutUtilCodes[Min(TimedOut(text))][2]
    ELSE IF Found(text) # {} THEN kCorrelations[Min(Found(text))][2]
    ELSE Unknown

hasEscapeSequence(text) == ends_with(text, Spell("CRLF"))

\* One round of the loop: the line break after the first occurrence of a mark goes.
removeEscapeSequence(s, mark) ==
    LET at == find(s, Escaped(mark))
    IN  IF at = npos THEN s ELSE erase(s, at + Width(mark), 2)

\* Slip: only the last line break goes.
removeEscapeSequencesTender_Last(text) == erase(text, Len(text) - 2, 2)

removeEscapeSequencesTender(text) ==
    LET s1 == removeEscapeSequence(text, kEscapePatterns[1])
        s2 == removeEscapeSequence(s1, kEscapePatterns[2])
        s3 == removeEscapeSequence(s2, kEscapePatterns[3])
    IN  removeEscapeSequence(s3, kEscapePatterns[4])

-----------------------------------------------------------------------------
(* process_chapter.cpp, process_playground.cpp, process_practice.cpp       *)

\* sourceCode, output and testsOutput of a Response; OutOfRange when building
\* one of the strings throws.
Respond(code, output, tests) ==
    IF OutOfRange \in {output, tests} THEN OutOfRange
    ELSE [sourceCode |-> code, output |-> output, testsOutput |-> tests]

InternalError(code) == Respond(code, Spell("internal_error"), << >>)

\* Slip: the start of the tests' output is not wrapped around.
getMessageOutput_NoWrap(code, text) ==
    LET end  == find(text, Spell("user_code_ok"))
        from == end + Width("user_code_ok")
    IN  Respond(code, IF end = 0 THEN << >> ELSE substr(text, 0, end),
                substr(text, from, Size(Len(text) - from - getStringLength(code))))

\* Chapters: user's output, user_code_ok, tests' output, mark of the exit code.
getMessageOutput(code, text) ==
    LET end  == find(text, Spell("user_code_ok"))
        from == Size(end + Width("user_code_ok"))
    IN  Respond(code, IF end = 0 THEN << >> ELSE substr(text, 0, end),
                substr(text, from, Size(Len(text) - from - getStringLength(code))))

getUserOutput(text) == substr(text, 0, Size(Len(text) - getStringLength(1)))

processChapter(text) ==
    LET code == getExitCode(text)
    IN  CASE code \in {0, 2} -> getMessageOutput(code, text)
          [] code = 1        -> Respond(1, getUserOutput(text), nullopt)
          [] OTHER           -> InternalError(code)

\* Playgrounds: user's output, mark of the exit code.
playgroundMessageOutput(text) ==
    LET end == find(text, Spell("user_solution_ok"))
    IN  IF end = 0 THEN << >> ELSE substr(text, 0, end)

processPlayground(text) ==
    LET code == getExitCode(text)
    IN  CASE code = 0 -> Respond(0, playgroundMessageOutput(text), nullopt)
          [] code = 1 -> Respond(1, getUserOutput(text), nullopt)
          [] OTHER    -> InternalError(code)

Unescaped(text) ==
    IF hasEscapeSequence(text) THEN removeEscapeSequencesTender(text) ELSE text

getCourseResponse(text)     == processChapter(Unescaped(text))
getPlaygroungResponse(text) == processPlayground(Unescaped(text))
getPracticeResponse(text)   == getCourseResponse(text)

\* parser.cpp: the fields of the JSON object; nullopt for one that is left out.
makeJsonCourse(response) ==
    LET Json(output, tests) == [status_code |-> response.sourceCode,
                                user_code_output |-> output, tests_output |-> tests]
    IN  CASE response.sourceCode = 124 -> Json(Spell("timeout"), nullopt)
          [] response.sourceCode = 137 -> Json(Spell("out_of_memory"), nullopt)
          [] OTHER -> Json(response.output, response.testsOutput)

-----------------------------------------------------------------------------
(* The container's script and the call of runCode that reads it.           *)

VARIABLES
    action,     \* the kind of the request
    newline,    \* whether the script ends its marks with a line break
    separator,  \* whether the script prints user_code_ok after the program
    stage,      \* "program", "tests", "ended", "answered"
    message,    \* the text printed so far
    users,      \* history: what the program printed
    tests,      \* history: what the tests printed
    verdict,    \* history: how the script ended
    answer      \* the JSON object of the reply, or OutOfRange

vars == <<action, newline, separator, stage, message, users, tests, verdict, answer>>

Texts    == UNION {[1..n -> {<<"out", 1>>, <<"CRLF", 1>>, <<"CRLF", 2>>}] : n \in 0..2*MaxPrints}
UtilCodes    == {"124", "125", "137"}
MarkVerdicts == {"ok", "user_error", "tests_error"}
Verdicts == MarkVerdicts \cup UtilCodes \cup {"none", "exec_failed"}

\* Only tests that had a program to test write anything.
TypeOK ==
    /\ action \in Actions
    /\ newline \in BOOLEAN
    /\ separator \in BOOLEAN
    /\ stage \in {"program", "tests", "ended", "answered"}
    /\ users \in Texts
    /\ tests \in Texts
    /\ verdict \in Verdicts
    /\ stage = "answered" <=> answer # nullopt
    /\ answer \notin {nullopt, OutOfRange} =>
         answer.status_code \in -1..3 \cup {124, 125, 137}

Init ==
    /\ action \in Actions
    /\ newline \in BOOLEAN
    /\ separator \in SeparatorOf[action]
    /\ stage = "program"
    /\ message = << >> /\ users = << >> /\ tests = << >>
    /\ verdict = "none"
    /\ answer = nullopt

Line(mark) == IF newline THEN Escaped(mark) ELSE Spell(mark)

\* The program, then its tests, print; a playground has no tests.
Prints(piece) ==
    /\ stage \in {"program", "tests"}
    /\ message' = message \o Spell(piece)
    /\ IF stage = "program"
       THEN Len(users) < MaxPrints /\ users' = users \o Spell(piece) /\ UNCHANGED tests
       ELSE /\ action # "Playground" /\ Len(tests) < MaxPrints
            /\ tests' = tests \o Spell(piece) /\ UNCHANGED users
    /\ UNCHANGED <<action, newline, separator, stage, verdict, answer>>

\* The program has run; what follows is the tests' output.
StartTests ==
    /\ stage = "program" /\ separator
    /\ message' = message \o Line("user_code_ok")
    /\ stage' = "tests"
    /\ UNCHANGED <<action, newline, separator, users, tests, verdict, answer>>

\* The script ends with the mark of its verdict.
End(mark, what) ==
    /\ message' = message \o Line(mark)
    /\ verdict' = what
    /\ stage' = "ended"
    /\ UNCHANGED <<action, newline, separator, users, tests, answer>>

UserError   == stage = "program" /\ End("user_solution_error", "user_error")
TestsError  == stage = "tests" /\ action # "Playground" /\ End("tests_cases_error", "tests_error")
SolutionOk  == stage = (IF separator THEN "tests" ELSE "program")
               /\ End("user_solution_ok", "ok")

\* The timeout utility, or the kernel through it, stops the script at any point,
\* also when it has printed its verdict and not yet ended.
Stopped(code) ==
    /\ stage \in {"program", "tests"} \/ (stage = "ended" /\ verdict \in MarkVerdicts)
    /\ message' = message \o Escaped(code)
    /\ verdict' = code
    /\ stage' = "ended"
    /\ UNCHANGED <<action, newline, separator, users, tests, answer>>

\* The output ends without a verdict: the container died, or its image is wrong.
Silent ==
    /\ stage \in {"program", "tests"}
    /\ stage' = "ended"
    /\ UNCHANGED <<action, newline, separator, message, users, tests, verdict, answer>>

\* DockerWrapper::exec fails: its message is the daemon's, not the program's.
ExecFails ==
    /\ stage = "program" /\ message = << >>
    /\ message' = Spell("daemon_error")
    /\ verdict' = "exec_failed"
    /\ stage' = "ended"
    /\ UNCHANGED <<action, newline, separator, users, tests, answer>>

\* The JSON made of the Response.  The Response of a failed exec starts with
\* success, that is false, for sourceCode.
Reply ==
    LET response ==
          IF verdict = "exec_failed" THEN Respond(0, message, nullopt)
          ELSE CASE action = "Chapter"    -> getCourseResponse(message)
                 [] action = "Playground" -> getPlaygroungResponse(message)
                 [] action = "Practice"   -> getPracticeResponse(message)
    IN  IF response = OutOfRange THEN OutOfRange ELSE makeJsonCourse(response)

\* The rest of BaseCodeLauncher::runCode.
runCode ==
    /\ stage = "ended"
    /\ answer' = Reply
    /\ stage' = "answered"
    /\ UNCHANGED <<action, newline, separator, message, users, tests, verdict>>

Answered == stage = "answered" /\ UNCHANGED vars

Next ==
    \/ \E piece \in {"out", "CRLF"} : Prints(piece)
    \/ StartTests \/ UserError \/ TestsError \/ SolutionOk
    \/ \E code \in UtilCodes : Stopped(code)
    \/ Silent \/ ExecFails \/ runCode \/ Answered

Spec == Init /\ [][Next]_vars

-----------------------------------------------------------------------------
(* Properties.                                                             *)

CodeOf(v) ==
    CASE v = "ok" -> 0 [] v = "user_error" -> 1 [] v = "tests_error" -> 2 [] v = "none" -> 3
      [] v = "124" -> 124 [] v = "125" -> 125 [] v = "137" -> 137

\* getMessageOutput computes with npos when a script prints no user_code_ok, and
\* getUserOutput subtracts lengths: none of this makes substr throw.
NeverOutOfRange == answer # OutOfRange

\* getExitCode: the status code tells how the script ended, however much it had
\* printed by then; a run that was stopped is never taken for a finished one.
CodeTellsVerdict ==
    stage = "answered" /\ verdict # "exec_failed" => answer.status_code = CodeOf(verdict)

\* The output of a finished script in its answer.  The readers of chapters and practices
\* cut at user_code_ok, that of playgrounds at user_solution_ok, so that a script which
\* prints the one mark without the other is shown with a mark.
ShownOutput ==
    CASE verdict = "ok" /\ action = "Playground" /\ separator -> users \o Spell("user_code_ok")
      [] verdict = "ok" /\ action # "Playground" /\ ~separator -> users \o Spell("user_solution_ok")
      [] OTHER -> users

\* Without user_code_ok the text of the tests starts 21 - 1 characters into the message
\* and has the length that is left, or all of it if that is negative.
ShownTests ==
    CASE action = "Playground" \/ verdict = "user_error" -> nullopt
      [] verdict = "ok" /\ action # "Playground" /\ ~separator ->
           SubSeq(users \o Spell("user_solution_ok"), 21,
                  IF Len(users) < 20 THEN Len(users) + 25 ELSE Len(users))
      [] OTHER -> tests

\* getMessageOutput, getUserOutput: the answer to a finished script shows what the
\* program printed and what its tests printed, to the character: no mark, no line break
\* of a mark, nothing lost.  This holds of scripts that print user_code_ok exactly where
\* the reader of their action searches for it.  For the others, a practice without it
\* and a playground with it (the pattern the comment in processPlayground gives), the
\* answer is just as determined, and shows a mark.
AnswerShowsOutput ==
    stage = "answered" /\ verdict \in MarkVerdicts =>
      answer.user_code_output = ShownOutput /\ answer.tests_output = ShownTests

\* What the container has printed, and the reply, are functions of the outcome: the
\* texts of program and tests with the marks at their places or, once the timeout
\* utility stopped the script, any text that ends with the utility's code.
Tested == users \o (Line("user_code_ok") \o tests)

Printed ==
    /\ stage = "program" => verdict = "none" /\ message = users /\ tests = << >>
    /\ stage = "tests" => verdict = "none" /\ message = Tested
    /\ verdict = "none" => message \in {users, Tested}
    /\ verdict = "user_error" => message = users \o Line("user_solution_error")
    /\ verdict = "tests_error" => message = Tested \o Line("tests_cases_error")
    /\ verdict = "ok" =>
         message = (IF separator THEN Tested ELSE users) \o Line("user_solution_ok")
    /\ verdict = "exec_failed" => message = Spell("daemon_error")
    /\ verdict \in UtilCodes => ends_with(message, Escaped(verdict))

AInv ==
    /\ TypeOK
    /\ separator \in SeparatorOf[action]
    /\ stage = "tests" \/ verdict = "tests_error" => separator
    /\ action = "Playground" => tests = << >> /\ verdict # "tests_error"
    /\ Len(users) <= MaxPrints + 1 /\ Len(tests) <= MaxPrints + 1
    /\ message \in Text
    /\ Len(message) <= 2 * MaxPrints + (IF verdict \in UtilCodes THEN 60 ELSE 55)
    /\ Printed
    /\ stage = "answered" => answer = Reply

\* ExitCodes::Ok, "no errors": status code 0 is for scripts that ended well.
ZeroMeansNoErrors ==
    stage = "answered" /\ answer.status_code = 0 => verdict = "ok"
=============================================================================
