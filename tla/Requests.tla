------------------------------ MODULE Requests -------------------------------
(***************************************************************************)
(* The way of one request from its body to the script that runs in a       *)
(* container: ServerImpl::processRequest, parser.cpp, the run functions of *)
(* the service, and the archive the container receives.                    *)
(*                                                                         *)
(* A body is a function on the members it has; NotString and NotArray      *)
(* stand for values of another type, NotJson for a body, and BadTree for a *)
(* project, that the JSON parser refuses, NotObject for a body that is     *)
(* JSON and no object.  What waiting for a launcher and failing Docker     *)
(* calls do to the pool is the subject of RestartingProvider; here a       *)
(* launcher is a language.                                                 *)
(***************************************************************************)
EXTENDS ProjectTree, FiniteSets, TLC

CONSTANTS
    BodiesOf,       \* the bodies considered for each path of the service
    Launched,       \* languages with an entry in the storage
    MaxDepth,       \* bound on the depth of a tree, for the reference definitions
    MaxWidth,       \* bound on the children of a node, likewise
    NotJson, NotObject, NotString,
    Undefined,      \* a string is read from a member that has none
    Nothing

Languages == {"CPP", "GO", "HASKELL", "PYTHON", "RUST"}
Projects  == {"Playground", "Practice"}
Apis      == {"Chapter"} \cup Projects

ASSUME RequestsAssumption ==
    /\ DOMAIN BodiesOf \subseteq Apis \cup {"unknown"}
    /\ Launched \subseteq Languages
    /\ MaxDepth \in Nat /\ MaxWidth \in Nat

-----------------------------------------------------------------------------
(* parser.cpp, with getLanguageFromString of config.cpp.                   *)

kLanguagesMatch ==
    [cpp |-> "CPP", golang |-> "GO", haskell |-> "HASKELL", python |-> "PYTHON", rust |-> "RUST"]

getLanguageFromString(language) ==
    IF language \in DOMAIN kLanguagesMatch THEN kLanguagesMatch[language] ELSE Throws

Failed(result) == result \in {Throws, Aborts, Undefined}

requiredFieldIsOk(body, member) == member \in DOMAIN body /\ body[member] # NotString

\* GetString of a missing or ill-typed member stops at an assertion; in builds
\* without it a std::string is made from a null pointer, which throws.
getString(body, member) ==
    IF requiredFieldIsOk(body, member) THEN body[member] ELSE Undefined

getRequiredFields(api) ==
    CASE api = "Chapter"    -> {"container_type", "source_run"}
      [] api = "Playground" -> {"container_type"}

\* Value-initialised parameters: CPP is the first enumerator.
NoParams == [language |-> "CPP", cmdLineArgs |-> << >>]
NoProject == [name |-> "", pathsContents |-> << >>]

\* Slip: an absent cmd_line_args is treated as an ill-typed one.
parseCommon_NeedsArgs(body, api) ==
    LET language == getLanguageFromString(body["container_type"])
    IN  IF \E member \in getRequiredFields(api) : ~requiredFieldIsOk(body, member)
        THEN NoParams
        ELSE IF Failed(language) THEN language
        ELSE IF "cmd_line_args" \notin DOMAIN body THEN NoParams
        ELSE IF body["cmd_line_args"] = NotArray THEN NoParams
        ELSE IF NotString \in Range(body["cmd_line_args"]) THEN Undefined
        ELSE [language |-> language, cmdLineArgs |-> body["cmd_line_args"]]

parseCommon(body, api) ==
    LET language == getLanguageFromString(body["container_type"])
    IN  IF \E member \in getRequiredFields(api) : ~requiredFieldIsOk(body, member)
        THEN NoParams
        ELSE IF Failed(language) THEN language
        ELSE IF "cmd_line_args" \notin DOMAIN body
        THEN [language |-> language, cmdLineArgs |-> << >>]
        ELSE IF body["cmd_line_args"] = NotArray THEN NoParams
        ELSE IF NotString \in Range(body["cmd_line_args"]) THEN Undefined
        ELSE [language |-> language, cmdLineArgs |-> body["cmd_line_args"]]

parseTask(body) ==
    LET common    == parseCommon(body, "Chapter")
        sourceRun == getString(body, "source_run")
        Task(run, test) == [sourceRun |-> run, sourceTest |-> test]
    IN  IF body = NotJson THEN Throws
        ELSE IF ~requiredFieldIsOk(body, "source_test") THEN NoParams @@ Task("", "")
        ELSE IF Failed(common) THEN common
        ELSE IF Failed(sourceRun) THEN sourceRun
        ELSE common @@ Task(sourceRun, body["source_test"])

parseProject(json) ==
    LET directory == jsonToDirectory(json)
    IN  IF Failed(directory) THEN directory
        ELSE [name |-> directory.name, pathsContents |-> getPathsToFiles(directory)]

parsePlayground(body) ==
    LET common  == parseCommon(body, "Playground")
        project == parseProject(body["project"])
    IN  IF body = NotJson THEN Throws
        ELSE IF ~requiredFieldIsOk(body, "project") THEN NoParams @@ [project |-> NoProject]
        ELSE IF Failed(common) THEN common
        ELSE IF Failed(project) THEN project
        ELSE common @@ [project |-> project]

PracticeFields == {"project_contents", "course_id", "action", "user_cmd_line_args", "project_id"}

getPracticeAction(action) == IF action = "run" THEN "Run" ELSE "Test"

parsePractice(body) ==
    LET language == getLanguageFromString(body["course_id"])
        project  == parseProject(body["project_contents"])
        mainFile == getMainFile(project.pathsContents)
        Practice(l, p, action, args, path) ==
          [language |-> l, project |-> p, action |-> action,
           userCmdLineArgs |-> args, pathToMainFile |-> path]
    IN  IF body = NotJson THEN Throws
        ELSE IF \E member \in PracticeFields : ~requiredFieldIsOk(body, member)
        THEN Practice("CPP", NoProject, "Run", "", <<"">>)
        ELSE IF Failed(language) THEN language
        ELSE IF Failed(project) THEN project
        ELSE IF Failed(mainFile) THEN mainFile
        ELSE Practice(language, project, getPracticeAction(body["action"]),
                      body["user_cmd_line_args"], mainFile)

\* HasMember of a body that is no object stops at an assertion; in builds without it
\* whatever is in memory is taken for the members.
Read(api, body) ==
    IF body = NotObject THEN BodiesOf[api] \ {NotJson, NotObject} ELSE {body}

Parse(api, body) ==
    CASE api = "Chapter"    -> parseTask(body)
      [] api = "Playground" -> parsePlayground(body)
      [] api = "Practice"   -> parsePractice(body)

-----------------------------------------------------------------------------
(* service.cpp, data_run_prepare.cpp and common.cpp.                       *)

\* An argument is a tuple; a formatted one such as "-f {}" is a pair.
getArgs(script, filename, cmdLineArgs) ==
    << <<"sh">>, <<script>>, <<"-f", filename>> >> \o Apply(LAMBDA arg : <<arg>>, cmdLineArgs)

getPracticeDockerArgs(params) ==
    << <<"sh">>, <<"practice/run-practice.sh">>, <<"-f", params.project.name>> >> \o
      IF params.action = "Test" THEN << <<"-t">> >>
      ELSE << <<"-p practice", params.pathToMainFile>> >>
             \o (IF params.userCmdLineArgs = "" THEN << >>
                 ELSE << <<"-o", params.userCmdLineArgs>> >>)
             \o << <<"-r">> >>

\* && binds stronger than ||: only the solution is left out when it is empty.
makeTar(data) ==
    LET Kept(element) == \/ element.code # "" /\ element.filename = "task"
                         \/ element.filename = "task_tests"
    IN  Apply(LAMBDA element : [path |-> <<element.filename>>, content |-> element.code,
                                type |-> "RegularFile", owner |-> "default"],
              SelectSeq(data, Kept))

prepareData(api, params) ==
    IF api = "Chapter"
    THEN makeTar(<<[code |-> params.sourceRun, filename |-> "task"],
                   [code |-> params.sourceTest, filename |-> "task_tests"]>>)
    ELSE makeProjectTar(params.project)

\* addFile of the library: "we can't put empty files to tar", says the traverser.  The
\* entry of an empty file may be left out, and addFile may throw.
EmptyFile(entry) == entry.type = "RegularFile" /\ entry.content = ""

addFiles(entries) == {entries, SelectSeq(entries, LAMBDA entry : ~EmptyFile(entry))}

CommandLine(api, params) ==
    CASE api = "Chapter"    -> getArgs("task/run-task.sh", "task", params.cmdLineArgs)
      [] api = "Playground" -> getArgs("playground/run-playground.sh", params.project.name,
                                       params.cmdLineArgs)
      [] api = "Practice"   -> getPracticeDockerArgs(params)

-----------------------------------------------------------------------------
(* The daemon's side of putArchive: entries are unpacked in order.  A      *)
(* parent without an entry is made by the daemon and belongs to root; an   *)
(* item replaces what was in its place, a directory only what is no        *)
(* directory.                                                              *)

Place(path) == SelectSeq(path, LAMBDA piece : piece # "")

Item(type, content, owner) == [type |-> type, content |-> content, owner |-> owner]

Unpack(files, entry) ==
    LET place == Place(entry.path)
        above == {SubSeq(place, 1, n) : n \in 0..(Len(place) - 1)}
        merge == /\ entry.type = "Directory"
                 /\ place \in DOMAIN files /\ files[place].type = "Directory"
        kept  == {p \in DOMAIN files : merge \/ ~IsPrefix(place, p)}
    IN  (place :> Item(entry.type, entry.content, entry.owner))
          @@ [p \in kept |-> files[p]]
          @@ [p \in above |-> Item("Directory", "", "root")]

-----------------------------------------------------------------------------
(* One request.                                                            *)

VARIABLES
    api, body,  \* path and body of the HTTP request
    stage,      \* "received", "parsed", "running", "replied", "aborted"
    params,     \* what the parser returned
    launcher,   \* language of the container taken from the storage
    args,       \* the command line of the script
    archive,    \* entries still to be unpacked
    disk,       \* the working directory of the container
    reply

vars == <<api, body, stage, params, launcher, args, archive, disk, reply>>

Workdir == << >> :> Item("Directory", "", "code_runner")

Init ==
    /\ api \in DOMAIN BodiesOf
    /\ body \in BodiesOf[api]
    /\ stage = "received"
    /\ params = Nothing /\ launcher = Nothing /\ reply = Nothing
    /\ args = << >> /\ archive = << >>
    /\ disk = Workdir

Reply(what) ==
    /\ reply' = what
    /\ stage' = "replied"
    /\ UNCHANGED <<api, body, params, launcher, args, archive, disk>>

\* getApi knows no such path.
UnknownApi == stage = "received" /\ api \notin Apis /\ Reply("error")

Parsed ==
    /\ stage = "received" /\ api \in Apis
    /\ \E read \in Read(api, body) :
         LET result == Parse(api, read)
         IN  ~Failed(result) /\ params' = result
    /\ stage' = "parsed"
    /\ UNCHANGED <<api, body, launcher, args, archive, disk, reply>>

\* processRequest catches what the parser throws.
ParserThrows ==
    /\ stage = "received" /\ api \in Apis
    /\ \E read \in Read(api, body) : Parse(api, read) \in {Throws, Undefined}
    /\ Reply("error")

ParserAborts ==
    /\ stage = "received" /\ api \in Apis
    /\ \/ body = NotObject
       \/ \E read \in Read(api, body) : Parse(api, read) \in {Aborts, Undefined}
    /\ stage' = "aborted"
    /\ UNCHANGED <<api, body, params, launcher, args, archive, disk, reply>>

Empty == api = "Chapter" /\ params.sourceRun = "" /\ params.sourceTest = ""

NotProvided == stage = "parsed" /\ Empty /\ Reply("sources are not provided")

\* getCodeLauncher returns a null pointer.
NoLauncher ==
    stage = "parsed" /\ ~Empty /\ params.language \notin Launched /\ Reply("invalid code")

\* Slip: the null pointer is not tested for.
StartRun_NoTest ==
    /\ stage = "parsed" /\ ~Empty
    /\ launcher' = params.language
    /\ archive' = prepareData(api, params)
    /\ args' = CommandLine(api, params)
    /\ stage' = "running"
    /\ UNCHANGED <<api, body, params, disk, reply>>

\* runChapter, runPlayground and runPractice, up to the call of runCode.
StartRun ==
    /\ stage = "parsed" /\ ~Empty /\ params.language \in Launched
    /\ launcher' = params.language
    /\ archive' \in addFiles(prepareData(api, params))
    /\ args' = CommandLine(api, params)
    /\ stage' = "running"
    /\ UNCHANGED <<api, body, params, disk, reply>>

\* prepareData throws with the launcher in hand, and processRequest catches it.
ArchiveFails ==
    /\ stage = "parsed" /\ ~Empty /\ params.language \in Launched
    /\ \E entry \in Range(prepareData(api, params)) : EmptyFile(entry)
    /\ launcher' = params.language
    /\ reply' = "error"
    /\ stage' = "replied"
    /\ UNCHANGED <<api, body, params, args, archive, disk>>

UnpackEntry ==
    /\ stage = "running" /\ archive # << >>
    /\ disk' = Unpack(disk, Head(archive))
    /\ archive' = Tail(archive)
    /\ UNCHANGED <<api, body, stage, params, launcher, args, reply>>

\* putArchive fails, with some of the entries unpacked.
PutFails == stage = "running" /\ Reply("invalid code")

\* The archive is in place and exec starts the script.
Exec == stage = "running" /\ archive = << >> /\ Reply("ran")

Done == stage \in {"replied", "aborted"} /\ UNCHANGED vars

Next ==
    \/ UnknownApi \/ Parsed \/ ParserThrows \/ ParserAborts
    \/ NotProvided \/ NoLauncher \/ StartRun \/ ArchiveFails \/ UnpackEntry
    \/ PutFails \/ Exec
    \/ Done

Spec == Init /\ [][Next]_vars

-----------------------------------------------------------------------------
(* Reference definitions.  A position in a tree is the sequence of child   *)
(* numbers on the way to it.                                               *)

Positions == UNION {[1..n -> 1..MaxWidth] : n \in 0..MaxDepth}

NodeAt(tree, pos) == FoldLeft(LAMBDA node, i : node.children[i], tree, pos)

\* Positions of nodes all of whose ancestors are named directories.
Nodes(tree) ==
    {pos \in Positions : \A n \in 0..(Len(pos) - 1) :
       LET node == NodeAt(tree, SubSeq(pos, 1, n))
       IN  /\ {"name", "children"} \subseteq DOMAIN node
           /\ n > 0 => "contents" \notin DOMAIN node
           /\ node.children # NotArray
           /\ pos[n + 1] \in DOMAIN node.children}

FileNodes(tree) ==
    {pos \in Nodes(tree) : pos # << >> /\ "contents" \in DOMAIN NodeAt(tree, pos)}

DirectoryNodes(tree) ==
    {pos \in Nodes(tree) \ FileNodes(tree) :
       pos = << >> \/ "children" \in DOMAIN NodeAt(tree, pos)}

MainNodes(tree) ==
    {pos \in FileNodes(tree) : LET file == NodeAt(tree, pos)
                               IN  "is_main_file" \in DOMAIN file /\ file.is_main_file}

PlaceOf(tree, pos) ==
    LET Name(n) == LET node == NodeAt(tree, SubSeq(pos, 1, n - 1))
                   IN  IF "name" \in DOMAIN node THEN node.name ELSE ""
    IN  Place([n \in 1..(Len(pos) + 1) |-> Name(n)])

\* No file has the place of another file or of a directory.
UniqueFiles(tree) ==
    \A p \in FileNodes(tree), q \in FileNodes(tree) \cup DirectoryNodes(tree) :
      PlaceOf(tree, p) = PlaceOf(tree, q) => p = q

Tree == IF api = "Playground" THEN body["project"] ELSE body["project_contents"]

RequiredMembers ==
    [Chapter    |-> {"container_type", "source_run", "source_test"},
     Playground |-> {"container_type", "project"},
     Practice   |-> {"project_contents", "course_id", "action", "user_cmd_line_args",
                     "project_id"}]

\* The body has the members its API needs, with their types.
WellFormed ==
    /\ api \in Apis /\ body \notin {NotJson, NotObject}
    /\ \A member \in RequiredMembers[api] : member \in DOMAIN body /\ body[member] # NotString
    /\ "cmd_line_args" \in DOMAIN body =>
         body["cmd_line_args"] # NotArray /\ NotString \notin Range(body["cmd_line_args"])

LanguageNamed == body[IF api = "Practice" THEN "course_id" ELSE "container_type"]

\* There is something to run, and a container to run it in.
Runnable ==
    /\ LanguageNamed \in DOMAIN kLanguagesMatch
    /\ kLanguagesMatch[LanguageNamed] \in Launched
    /\ api = "Chapter" => {body["source_run"], body["source_test"]} # {""}
    /\ api \in Projects =>
         Tree # BadTree /\ \A pos \in FileNodes(Tree) : "name" \in DOMAIN NodeAt(Tree, pos)
    /\ api = "Practice" => MainNodes(Tree) # {}

-----------------------------------------------------------------------------
(* Properties.                                                             *)

\* Types; the working directory is always a directory, and only a request with a
\* launcher has anything to unpack.
TypeOK ==
    /\ stage \in {"received", "parsed", "running", "replied", "aborted"}
    /\ launcher \in Launched \cup {Nothing}
    /\ reply \in {Nothing, "error", "sources are not provided", "invalid code", "ran"}
    /\ \A e \in Range(archive) : e.type \in {"Directory", "RegularFile"}
    /\ << >> \in DOMAIN disk /\ disk[<< >>].type = "Directory"
    /\ archive # << >> => launcher # Nothing
    /\ stage = "replied" <=> reply # Nothing

\* parseCommon, parseTask, parsePlayground, parsePractice: a well-formed request gets a
\* container of the language it names if it can be run, and otherwise none; early
\* returns with value-initialised parameters are never the way of such a request.
RightLauncher ==
    stage \in {"replied", "aborted"} /\ WellFormed =>
      launcher = IF Runnable THEN kLanguagesMatch[LanguageNamed] ELSE Nothing

\* jsonToDirectory, getPathsToFiles, makeProjectTar, makeTar: when the script starts,
\* the container has the files and directories of the request at their places, and
\* nothing else.  The empty files of a project are there with a line break.  An empty
\* solution is not there; whether empty tests are depends on the library, as makeTar
\* gives them to addFile, which the traverser knows not to take them.
ContainerHoldsRequest ==
    reply = "ran" /\ WellFormed =>
      IF api = "Chapter"
      THEN LET source == <<"task">> :> body["source_run"] @@ <<"task_tests">> :> body["source_test"]
           IN  /\ DOMAIN disk \subseteq {<< >>} \cup DOMAIN source
               /\ \A place \in DOMAIN source : source[place] # "" => place \in DOMAIN disk
               /\ \A place \in DOMAIN disk \ {<< >>} :
                    disk[place].type = "RegularFile" /\ disk[place].content = source[place]
               /\ source[<<"task">>] = "" => <<"task">> \notin DOMAIN disk
      ELSE UniqueFiles(Tree) =>
           /\ DOMAIN disk = {<< >>} \cup {PlaceOf(Tree, pos) :
                                pos \in FileNodes(Tree) \cup DirectoryNodes(Tree)}
           /\ \A pos \in DirectoryNodes(Tree) : disk[PlaceOf(Tree, pos)].type = "Directory"
           /\ \A pos \in FileNodes(Tree) :
                LET item == disk[PlaceOf(Tree, pos)]
                    contents == NodeAt(Tree, pos).contents
                IN  /\ item.type = "RegularFile"
                    /\ item.content = IF contents = "" THEN "\n" ELSE contents

\* recursiveFillAbsolutePaths lists a directory before what is in it: the daemon never
\* makes a directory of its own, which code_runner could not write to.
ProjectOwned ==
    api \in Projects => \A place \in DOMAIN disk : disk[place].owner = "code_runner"

\* getArgsPlayground, getPracticeDockerArgs, getMainFile: the directory the script is
\* told is the one that holds all files, and the main file it is told is there and is
\* one that the request marks as such.
ScriptFindsFiles ==
    reply = "ran" /\ WellFormed /\ api \in Projects /\ UniqueFiles(Tree) =>
      /\ args[3][2] # "" => \A place \in DOMAIN disk \ {<< >>} : place[1] = args[3][2]
      /\ \A i \in DOMAIN args : Head(args[i]) = "-p practice" =>
           \E pos \in MainNodes(Tree) :
             /\ Place(args[i][2]) = PlaceOf(Tree, pos)
             /\ disk[PlaceOf(Tree, pos)].type = "RegularFile"
      /\ api = "Practice" =>
           ((\E i \in DOMAIN args : Head(args[i]) = "-p practice") <=> body["action"] = "run")

\* "Required json fields": a request without its container_type, or course_id, gets
\* no container.
RequiredFields ==
    launcher # Nothing =>
      (IF api = "Practice" THEN "course_id" ELSE "container_type") \in DOMAIN body
=============================================================================
