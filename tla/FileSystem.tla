----------------------------- MODULE FileSystem -----------------------------
(***************************************************************************)
(* FileSystem.cpp: Directory objects on the heap that point to their       *)
(* subdirectories and files.  A path is given by its parts, which split    *)
(* finds in it.  Nothing is ever deleted, so that new returns the next of  *)
(* the numbers that stand for addresses.                                   *)
(***************************************************************************)
EXTENDS Naturals, Sequences, SequencesExt, FiniteSetsExt, TLC

CONSTANTS Names,       \* numbers, in the order of the names
          Contents,    \* what addContentToFile may be called with: sequences
          MaxDepth,    \* bound on the parts of a path
          MaxHeap,     \* bound on the Directory objects
          MaxContent,  \* bound on the length of all files together
          NoFile

Chunks == UNION {{content[i] : i \in DOMAIN content} : content \in Contents}

FileSystemAssumption == /\ Names \subseteq Nat /\ MaxDepth \in Nat \ {0}
                        /\ Contents \subseteq Seq(Chunks) /\ NoFile \notin Seq(Chunks)

VARIABLES heap,    \* heap[d]: [dirs, files] of the Directory d, each a map
                   \* from names
          result   \* what the last ls or readContentFromFile returned
vars == <<heap, result>>

Paths == UNION {[1 .. length -> Names] : length \in 0 .. MaxDepth}
FilePaths == Paths \ {<<>>}   \* for "/" the code reads parts[-1]

Null == 0
root == 1
NewDirectory == [dirs  |-> [name \in Names |-> Null],
                 files |-> [name \in Names |-> NoFile]]

Init == heap = <<NewDirectory>> /\ result = <<>>

-----------------------------------------------------------------------------
(* The walk down a path; it ends where a directory is missing.             *)
descend(d, part) == IF d = Null THEN Null ELSE heap[d].dirs[part]
Dir(parts) ==
    LET walk[i \in 0 .. Len(parts)] ==
            IF i = 0 THEN root ELSE descend(walk[i - 1], parts[i])
    IN  walk[Len(parts)]

(* A step of the walk that makes a missing directory, at w.curr.           *)
enter_Unlinked(w, part) ==
    IF w.heap[w.curr].dirs[part] # Null
    THEN [w EXCEPT !.curr = w.heap[w.curr].dirs[part]]
    ELSE [heap |-> Append([w.heap EXCEPT ![root].dirs[part] = Len(w.heap) + 1],
                          NewDirectory),
          curr |-> Len(w.heap) + 1]

enter(w, part) ==
    IF w.heap[w.curr].dirs[part] # Null
    THEN [w EXCEPT !.curr = w.heap[w.curr].dirs[part]]
    ELSE [heap |-> Append([w.heap EXCEPT ![w.curr].dirs[part] = Len(w.heap) + 1],
                          NewDirectory),
          curr |-> Len(w.heap) + 1]
Entered(parts) ==
    LET walk[i \in 0 .. Len(parts)] ==
            IF i = 0 THEN [heap |-> heap, curr |-> root]
            ELSE enter(walk[i - 1], parts[i])
    IN  walk[Len(parts)]

mkdir(parts) == /\ heap' = Entered(parts).heap
                /\ Len(heap') <= MaxHeap
                /\ UNCHANGED result

File(parts) == LET d == Dir(Front(parts))
               IN  IF d = Null THEN NoFile ELSE heap[d].files[Last(parts)]

Stored == Cardinality({x \in FilePaths \X (1 .. MaxContent) :
                           File(x[1]) # NoFile /\ x[2] <= Len(File(x[1]))})

(* addContentToFile makes what is missing, directories and file.           *)
addContentToFile(parts, content) ==
    LET w    == Entered(Front(parts))
        file == w.heap[w.curr].files[Last(parts)]
        old  == IF file = NoFile THEN <<>> ELSE file
    IN  /\ heap' = [w.heap EXCEPT ![w.curr].files[Last(parts)] = old \o content]
        /\ Len(heap') <= MaxHeap
        /\ Len(content) + Stored <= MaxContent
        /\ UNCHANGED result

readContentFromFile(parts) ==
    /\ result' = IF File(parts) = NoFile THEN <<>> ELSE File(parts)
    /\ UNCHANGED heap

Sorted(names) == SortSeq(names, <)

(* The first part that names a file ends the walk of ls, whatever follows. *)
ls(parts) ==
    LET files == {i \in DOMAIN parts : File(SubSeq(parts, 1, i)) # NoFile}
        d     == Dir(parts)
        Keys(map, none) == SetToSeq({name \in Names : map[name] # none})
    IN  /\ result' = IF files # {} THEN <<parts[Min(files)]>>
                     ELSE IF d = Null THEN <<>>
                     ELSE Sorted(Keys(heap[d].dirs, Null)
                                     \o Keys(heap[d].files, NoFile))
        /\ UNCHANGED heap

Next == \/ \E parts \in Paths : mkdir(parts) \/ ls(parts)
        \/ \E parts \in FilePaths :
               \/ readContentFromFile(parts)
               \/ \E content \in Contents : addContentToFile(parts, content)

Spec == Init /\ [][Next]_vars

-----------------------------------------------------------------------------
(* The objects implement the tree: whatever is shared, made on the way or  *)
(* overwritten on the heap, every path leads to what its calls put there.  *)
Tree == INSTANCE FileTree WITH
            directories <- {parts \in Paths : Dir(parts) # Null},
            contents    <- [parts \in {f \in FilePaths : File(f) # NoFile} |->
                               File(parts)]
TreeSpec == Tree!Spec
=============================================================================
