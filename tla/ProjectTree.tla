----------------------------- MODULE ProjectTree -----------------------------
(***************************************************************************)
(* From the JSON tree of a project to the entries of the archive that is   *)
(* put into a container: directory_traverser.cpp and project_utils.cpp.    *)
(*                                                                         *)
(* A node of the JSON tree is a function on the members it has; NotArray   *)
(* stands for children of another type.  The other members have the types  *)
(* the code reads them with.  A name is a plain one, without "/".  A path  *)
(* is the sequence of its pieces between the "/": "a/b" is <<"a", "b">>,   *)
(* "a/" is <<"a", "">>, and the empty path is <<"">>.                      *)
(***************************************************************************)
EXTENDS Naturals, SequencesExt

CONSTANTS
    NotArray,
    BadTree,    \* a text that is not JSON
    Throws,     \* a std::exception leaves the operation
    Aborts      \* the process ends: a failed assertion or a null pointer read

isFile(child)      == "contents" \in DOMAIN child
isDirectory(child) == "children" \in DOMAIN child

Apply(Op(_), s) == [i \in DOMAIN s |-> Op(s[i])]

-----------------------------------------------------------------------------
(* directory_traverser.cpp                                                 *)

\* Empty files cannot be put into an archive and get a line break.
ReadFile(child) ==
    [name    |-> child.name,
     content |-> IF child.contents = "" THEN "\n" ELSE child.contents,
     isMain  |-> "is_main_file" \in DOMAIN child /\ child.is_main_file]

\* The children the traversal looks at: none without a name.
Children(document) ==
    IF {"name", "children"} \subseteq DOMAIN document /\ document.children # NotArray
    THEN document.children ELSE << >>

SubDirectories(document) ==
    SelectSeq(Children(document), LAMBDA child : ~isFile(child) /\ isDirectory(child))

RECURSIVE recursiveDirectoryTraverse(_)
recursiveDirectoryTraverse(document) ==
    [name        |-> IF "name" \in DOMAIN document THEN document.name ELSE "",
     files       |-> Apply(ReadFile, SelectSeq(Children(document), isFile)),
     directories |-> LET subs == SubDirectories(document)
                     IN  [i \in DOMAIN subs |-> recursiveDirectoryTraverse(subs[i])]]

\* The traversal reads the name of a file that has none.
RECURSIVE ReadsMissingName(_)
ReadsMissingName(document) ==
    \/ \E child \in Range(Children(document)) : isFile(child) /\ "name" \notin DOMAIN child
    \/ \E sub \in Range(SubDirectories(document)) : ReadsMissingName(sub)

jsonToDirectory(json) ==
    IF json = BadTree THEN Throws
    ELSE IF ReadsMissingName(json) THEN Aborts
    ELSE recursiveDirectoryTraverse(json)

-----------------------------------------------------------------------------
(* project_utils.cpp                                                       *)

\* std::filesystem::path: currentPath / name.
Join(path, name) == IF Last(path) = "" THEN Append(Front(path), name) ELSE Append(path, name)

PathContent(path, content, isMain, isDir) ==
    [path |-> path, content |-> content, isMain |-> isMain, isDir |-> isDir]

RECURSIVE recursiveFillAbsolutePaths(_, _)

\* Slip: the paths of a subdirectory start at its parent.
recursiveFillAbsolutePaths_Flat(directory, currentPath) ==
    LET FilePath(file) ==
          PathContent(Join(currentPath, file.name), file.content, file.isMain, FALSE)
        SubPaths(sub) == recursiveFillAbsolutePaths(sub, currentPath)
    IN  <<PathContent(Append(currentPath, ""), "", FALSE, TRUE)>>
          \o Apply(FilePath, directory.files)
          \o FlattenSeq(Apply(SubPaths, directory.directories))

recursiveFillAbsolutePaths(directory, currentPath) ==
    LET FilePath(file) ==
          PathContent(Join(currentPath, file.name), file.content, file.isMain, FALSE)
        SubPaths(sub) == recursiveFillAbsolutePaths(sub, Join(currentPath, sub.name))
    IN  <<PathContent(Append(currentPath, ""), "", FALSE, TRUE)>>
          \o Apply(FilePath, directory.files)
          \o FlattenSeq(Apply(SubPaths, directory.directories))

getPathsToFiles(rootDirectory) ==
    recursiveFillAbsolutePaths(rootDirectory, <<rootDirectory.name>>)

\* Slip: the name of the main file instead of its path.
getMainFile_Name(pathContents) ==
    LET mains == SelectSeq(pathContents, LAMBDA p : p.isMain)
    IN  IF mains = << >> THEN Throws ELSE <<Last(Head(mains).path)>>

getMainFile(pathContents) ==
    LET mains == SelectSeq(pathContents, LAMBDA p : p.isMain)
    IN  IF mains = << >> THEN Throws ELSE Head(mains).path

Entry(p) ==
    [path |-> p.path, content |-> p.content,
     type |-> IF p.isDir THEN "Directory" ELSE "RegularFile", owner |-> "code_runner"]

\* Slip: directories have no entries of their own.
makeProjectTar_FilesOnly(project) ==
    Apply(Entry, SelectSeq(project.pathsContents, LAMBDA p : ~p.isDir))

\* The entries of the archive; they belong to code_runner.
makeProjectTar(project) == Apply(Entry, project.pathsContents)
=============================================================================
