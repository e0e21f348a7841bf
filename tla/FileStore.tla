----------------------------- MODULE FileStore -----------------------------
(***************************************************************************)
(* What the file system promises its programs: a directory that lists      *)
(* files in the order of their creation, files that are sequences of bytes *)
(* and grow at their end only, one append at a time, and descriptors of    *)
(* each process's own.  A call opens and removes the files it was asked    *)
(* for, in the order of their names.  While a file is being removed, and   *)
(* for good after a removal that was killed, a listing may show an entry   *)
(* twice.                                                                  *)
(***************************************************************************)
EXTENDS Naturals, Sequences

CONSTANTS
    Proc, Name, Inode, Fd,
    Free, Std,          \* a descriptor that is free, and that of the terminal
    Chunks,             \* what programs may hand to write
    AnyByte             \* a byte that may be read as any other

VARIABLES
    dir,        \* sequence of entries [name, file_type, inode]
    content,    \* [Inode -> sequence of bytes]
    table,      \* [Proc -> [Fd -> Free, or [op, inode, pos]]]
    buf,        \* what each process read, until its next step
    asked,      \* the names that the call of each process has still to deal with
    again       \* how many entries a listing may show twice

vars == <<buf, table, asked, dir, content, again>>

NewTable == [fd \in Fd |-> IF fd < 2 THEN Std ELSE Free]

Init ==
    /\ \A k, l \in DOMAIN dir : dir[k].file_type = "file" /\ dir[k].inode = dir[l].inode => k = l
    /\ table = [p \in Proc |-> NewTable]
    /\ buf = [p \in Proc |-> << >>]
    /\ asked = [p \in Proc |-> << >>]
    /\ again = 0

Drop(p) == buf' = [buf EXCEPT ![p] = << >>]

First(name, k) == dir[k].name = name /\ \A l \in 1 .. k - 1 : dir[l].name # name

\* tab is old with the least free descriptor opened on the named file.
Assigned(old, tab, name) ==
    \E fd \in Fd :
        /\ old[fd] = Free /\ \A d \in Fd : old[d] = Free => fd <= d
        /\ \A d \in Fd \ {fd} : tab[d] = old[d]
        /\ tab[fd].pos = 0
        /\ \E k \in DOMAIN dir :
              /\ First(name, k)
              /\ tab[fd].op = dir[k].file_type
              /\ tab[fd].inode = IF tab[fd].op = "file" THEN dir[k].inode ELSE 0

Others(p) == \A q \in Proc \ {p} : table'[q] = table[q]

Open(p) ==
    /\ asked[p] # << >> /\ Drop(p) /\ Others(p)
    /\ Assigned(table[p], table'[p], Head(asked[p]))
    /\ asked' = [asked EXCEPT ![p] = Tail(@)]
    /\ UNCHANGED <<dir, content, again>>

Close(p, fd) ==
    /\ Drop(p)
    /\ fd > 1 /\ table' = [table EXCEPT ![p][fd] = Free]
    /\ UNCHANGED <<dir, content, asked, again>>

\* Some of the bytes that follow the position are read; none only at the end.
Read(p, fd) ==
    LET n == Len(buf'[p])
        f == table[p][fd]
    IN  /\ f \notin {Free, Std}
        /\ table' = [table EXCEPT ![p][fd].pos = @ + n]
        /\ f.pos + n <= Len(content[f.inode])
        /\ n = 0 => f.pos = Len(content[f.inode])
        /\ \A q \in Proc \ {p} : buf'[q] = buf[q]
        /\ \A k \in 1 .. n : content[f.inode][f.pos + k] \in {AnyByte, buf'[p][k]}
        /\ UNCHANGED <<dir, content, asked, again>>

\* The name at the position, or one a little before it if entries are shown
\* twice; behind the last one nothing, for ever.
ReadDir(p, fd) ==
    LET f == table[p][fd]
    IN  /\ f.op = "dir"
        /\ \/ /\ \E k \in DOMAIN dir :
                    /\ f.pos + 1 \in k .. k + again
                    /\ buf' = [buf EXCEPT ![p] = <<dir[k].name>>]
              /\ table' = [table EXCEPT ![p][fd].pos = @ + 1]
           \/ /\ f.pos >= Len(dir)
              /\ Drop(p)
              /\ table' \in {table, [table EXCEPT ![p][fd].pos = @ + 1]}
        /\ UNCHANGED <<dir, content, asked, again>>

\* One open file of p grows by s.
Extend(p, s) ==
    /\ Drop(p) /\ UNCHANGED table
    /\ \E fd \in Fd :
          /\ table[p][fd] \notin {Free, Std}
          /\ content' = [content EXCEPT ![table[p][fd].inode] = @ \o s]
    /\ UNCHANGED <<dir, asked, again>>

\* A new entry is the last one, of an empty file that no other entry has.
Create(p, name) ==
    /\ Drop(p) /\ UNCHANGED table
    /\ Len(dir') = Len(dir) + 1
    /\ LET i == dir'[Len(dir')].inode
       IN  /\ content[i] = << >>
           /\ \A k \in DOMAIN dir : dir[k].inode # i
           /\ \A q \in Proc, fd \in Fd : table[q][fd].op = "file" => table[q][fd].inode # i
           /\ dir' = Append(dir, [name |-> name, file_type |-> "file", inode |-> i])
    /\ UNCHANGED <<content, asked, again>>

Remove(p) ==
    /\ asked[p] # << >> /\ Drop(p) /\ UNCHANGED table
    /\ Len(dir') < Len(dir)
    /\ \E k \in DOMAIN dir :
          /\ First(Head(asked[p]), k)
          /\ dir' = SubSeq(dir, 1, k - 1) \o SubSeq(dir, k + 1, Len(dir))
    /\ again' \in {again, again + 1}
    /\ UNCHANGED <<content, asked>>

\* The end of a removal.
Settle ==
    /\ again > 0 /\ again' = again - 1
    /\ UNCHANGED <<dir, content, table, buf, asked>>

\* A call begins, with the names it is given, leaves one behind, or is over.
Call(p) ==
    /\ Drop(p)
    /\ \A q \in Proc \ {p} : asked'[q] = asked[q]
    /\ asked[p] = << >> \/ asked'[p] \in {asked[p], Tail(asked[p]), << >>}
    /\ UNCHANGED <<table, dir, again, content>>

End(p) ==
    /\ Drop(p)
    /\ table' = [table EXCEPT ![p] = NewTable]
    /\ asked' = [asked EXCEPT ![p] = << >>]
    /\ UNCHANGED <<dir, content, again>>

\* What is appended comes from the program or, in cp, from the last read.
Next ==
    \/ \E p \in Proc : Call(p) \/ End(p)
    \/ \E p \in Proc, fd \in Fd : Close(p, fd) \/ Read(p, fd) \/ ReadDir(p, fd)
    \/ \E p \in Proc : Open(p) \/ Remove(p) \/ \E name \in Name : Create(p, name)
    \/ \E p \in Proc, s \in Chunks : Extend(p, s)
    \/ \E p \in Proc : \E n \in 0 .. Len(buf[p]) : Extend(p, SubSeq(buf[p], 1, n))
    \/ Settle

Spec == Init /\ [][Next]_vars
=============================================================================
