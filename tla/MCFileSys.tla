----------------------------- MODULE MCFileSys -----------------------------
(***************************************************************************)
(* FileSys for TLC and its mapping to FileStore.  As in the image of the   *)
(* repository (filesys_img), block 0 is all zero and belongs to no file,   *)
(* inodes that no entry has are empty, and every entry has another name.   *)
(* The file "f" has bytes, in block 1; the others are empty.               *)
(***************************************************************************)
EXTENDS FileSys, TLC

File(name, i) == [name |-> name, file_type |-> "file", inode |-> i]
Entries == <<[name |-> ".", file_type |-> "dir", inode |-> 0],
             File("f", 3), File("g", 1), File("e", 4)>>

MCImage ==
    [num_dir_entries |-> Len(Entries),
     dir_entries |-> [e \in 0 .. MAX_FILES_NUMBER |->
        IF e < Len(Entries) THEN Entries[e + 1] ELSE NoDentry],
     inodes |-> [i \in Inode |->
        [length |-> IF i = 3 THEN 3 ELSE 0,
         data_blocks |-> [k \in 0 .. INODE_BLOCKS - 1 |-> IF i = 3 /\ k = 0 THEN 1 ELSE 0]]],
     data_blocks |-> [b \in Block |->
        [o \in Offset |-> IF b = 1 /\ o < 3 THEN "f" ELSE Nul]]]

Symmetry == Permutations(Proc)

MCData == {<<"a", "b", "a", "b", "a">>}

\* The entries that have a name, in order; those that a removal has left in two
\* places count once.
Named(n) == dentry[n].name # Blank
Again(n) == n > 0 /\ dentry[n] = dentry[n - 1]
Doubles == {n \in 0 .. num_dir_entries - 1 : Named(n) /\ Again(n)}
Dir ==
    LET named[n \in 0 .. MAX_FILES_NUMBER] ==
          IF n = 0 THEN << >>
          ELSE IF Named(n - 1) /\ ~Again(n - 1) THEN Append(named[n - 1], dentry[n - 1])
          ELSE named[n - 1]
    IN  named[num_dir_entries]
Chunks == UNION {{SubSeq(data, 1, n) : n \in 1 .. Len(data)} : data \in Data}

\* The blocks of the image's files have no marks, so that files that programs write
\* may come to lie in them: of what the image's files hold nothing is promised.
AnyByte == "any"
StoredContent(i) ==
    IF Image.inodes[i].length > 0 THEN [k \in 1 .. inode[i].length |-> AnyByte] ELSE Content(i)

Store == INSTANCE FileStore WITH
            dir <- Dir, content <- [i \in Inode |-> StoredContent(i)], table <- file_array,
            Free <- Closed, asked <- [p \in Proc |-> call[p].names],
            again <- Cardinality(Doubles)

\* Seen through directory, contents, descriptors and what is read, the system is
\* a FileStore: write_data appends all it was given or a part, at once, however
\* the calls interleave and wherever a process is killed; a read returns bytes
\* of its file in order; the files that are opened and removed are those that were
\* named; the directory lists every file, one at most twice for each rm under way or
\* killed.
ImplementsStore ==
    Store!Init /\ [][UNCHANGED Store!vars \/ Store!Next]_Store!vars
=============================================================================
