------------------------------ MODULE FileTree ------------------------------
(***************************************************************************)
(* What the in-memory file system promises, without directory objects: a   *)
(* set of directories, closed under going up, and files with contents.  A  *)
(* path is the sequence of its parts.  A name may be that of a directory   *)
(* and of a file at once; a listing then has it twice, and below it lists  *)
(* the file.                                                               *)
(***************************************************************************)
EXTENDS Naturals, Sequences, SequencesExt, FiniteSetsExt, TLC

CONSTANTS Names,       \* numbers, in the order of the names
          Paths, FilePaths, Contents

VARIABLES directories, \* paths; the root is <<>>
          contents,    \* contents[path], of the files
          result       \* what the last ls or readContentFromFile returned
vars == <<directories, contents, result>>

Init == directories = {<<>>} /\ contents = <<>> /\ result = <<>>

Above(path) == {SubSeq(path, 1, i) : i \in 0 .. Len(path)}

Mkdir(path) == /\ directories' = directories \cup Above(path)
               /\ UNCHANGED <<contents, result>>

Content(path) == IF path \in DOMAIN contents THEN contents[path] ELSE <<>>

AddContentToFile(path, content) ==
    /\ directories' = directories \cup Above(Front(path))
    /\ contents' = [f \in DOMAIN contents \cup {path} |->
                       IF f = path THEN Content(f) \o content ELSE contents[f]]
    /\ UNCHANGED result

ReadContentFromFile(path) == /\ result' = Content(path)
                             /\ UNCHANGED <<directories, contents>>

(* The names in the directory, in order, one that occurs twice both times. *)
Entries(path, paths) == {name \in Names : Append(path, name) \in paths}
Sorted(names) == SortSeq(names, <)
Listing(path) == Sorted(SetToSeq(Entries(path, directories))
                            \o SetToSeq(Entries(path, DOMAIN contents)))
Ls(path) ==
    LET files == {i \in DOMAIN path : SubSeq(path, 1, i) \in DOMAIN contents}
    IN  /\ result' = IF files # {} THEN <<path[Min(files)]>>
                     ELSE IF path \in directories THEN Listing(path) ELSE <<>>
        /\ UNCHANGED <<directories, contents>>

Next == \/ \E path \in Paths : Mkdir(path) \/ Ls(path)
        \/ \E path \in FilePaths :
               \/ ReadContentFromFile(path)
               \/ \E content \in Contents : AddContentToFile(path, content)

Spec == Init /\ [][Next]_vars
=============================================================================
