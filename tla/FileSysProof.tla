---------------------------- MODULE FileSysProof ----------------------------
(***************************************************************************)
(* Proofs about FileSys, for any number of processes, any image and any    *)
(* size of blocks, files and directory: the types, and that no two files   *)
(* that programs wrote share a block.                                      *)
(***************************************************************************)
EXTENDS FileSys, Induction, SequenceTheorems, TLAPS

-----------------------------------------------------------------------------
(* The invariants *)

\* A read that goes on is within its file, what cp is about to write is bytes, and
\* the entry that a lookup has found is one of the directory.
ReadAt(p) ==
    LET c == call[p]
        f == file_array[p][c.fd]
    IN  /\ c.at = "read" => f.pos + c.n <= inode[f.inode].length
        /\ c.at = "cpwrite" => buf[p] \in Seq(Byte)
        /\ c.at = "entry" => c.dent < num_dir_entries

\* What a process knows of its call: while it writes, what is left fits into the
\* largest file; before and behind, nothing of the last write is there; while it
\* looks a name up or removes one, there is a name.
WriteStates == {"scan", "mark", "copy", "length"}
NameStates == {"lookup", "entry", "rm", "shift"}
CallOK(c) ==
    /\ c \in SystemCall
    /\ c.data # << >> <=> c.at \in {"scan", "mark", "copy"}
    /\ IF c.at \in WriteStates
       THEN c.entry < INODE_BLOCKS /\ c.written + Len(c.data) <= MaxLength
       ELSE c.written = 0
    /\ c.at = "user" => c.cp = NoCp
    /\ c.names # << >> <=> c.at \in NameStates

TypeInv == TypeOK /\ \A p \in Proc : CallOK(call[p]) /\ ReadAt(p)

\* Where the bytes of a write that goes on end, and the entry of the block that is
\* written to or looked for.
Reach(p) == inode[call[p].inode].length + call[p].written
Cur(p) == IF call[p].written = 0 THEN call[p].entry ELSE call[p].entry + 1

\* How many bytes are in blocks that the inode of the write has: those that are
\* written, and the first one of the block that comes next.
Linked(p) == IF call[p].at = "copy" THEN Reach(p) + 1 ELSE Reach(p)

\* A write looks for a block when all that it has are full, and otherwise writes
\* where its bytes end.
WriteAt(p) ==
    LET c == call[p]
    IN  Writing(p) =>
          /\ Reach(p) + Len(c.data) <= MaxLength
          /\ \A k \in 1 .. Len(c.data) : c.data[k] # Nul
          /\ c.at \in {"scan", "mark"} =>
                /\ Cur(p) * BLOCK_SIZE = Reach(p) /\ (c.written = 0 => c.entry = 0)
                /\ Len(c.data) <= (IF c.written = 0 THEN 2 ELSE 1) * BLOCK_SIZE
          /\ c.at = "copy" =>
                /\ Cur(p) * BLOCK_SIZE + c.off = Reach(p)
                /\ c.off + Len(c.data) <= (IF c.written = 0 THEN 2 ELSE 1) * BLOCK_SIZE
                /\ Cur(p) < INODE_BLOCKS
                /\ c.D = inode[c.inode].data_blocks[Cur(p)]

\* No two writes go on for one inode, and no two have found a block they have not
\* marked.
Apart ==
    \A p, q \in Proc : p # q =>
        /\ Writing(p) /\ Writing(q) => call[p].inode # call[q].inode
        /\ ~(call[p].at = "mark" /\ call[q].at = "mark")

\* The entries in use, by the length of the file or by a write that goes on, without
\* those that the image fills.
Held(i, k) == \/ k * BLOCK_SIZE < inode[i].length
              \/ \E p \in Proc : /\ Writing(p) /\ call[p].inode = i
                                 /\ k * BLOCK_SIZE < Linked(p)
Fresh(i, k) == k * BLOCK_SIZE >= Image.inodes[i].length
HeldEntries == {u \in Inode \X (0 .. INODE_BLOCKS - 1) : Held(u[1], u[2]) /\ Fresh(u[1], u[2])}

Marked(b) == b \in Offset /\ data_block[0][b] # Nul

\* Each entry in use has a block of its own that is marked, and a block that was found
\* is not yet marked.
BlocksOK ==
    /\ \A u, v \in HeldEntries : u # v => BlockOf(u) # BlockOf(v)
    /\ \A u \in HeldEntries : Marked(BlockOf(u))
    /\ \A p \in Proc : call[p].at = "mark" => call[p].D \in Offset /\ Unmarked(call[p].D)

ShareInv == TypeInv /\ (\A p \in Proc : WriteAt(p)) /\ Apart /\ BlocksOK

-----------------------------------------------------------------------------
(* Lemmas about the constants, blocks and descriptors *)

LEMMA Constants ==
    /\ BLOCK_SIZE \in Nat \ {0} /\ NUM_BLOCKS \in Nat /\ INODE_BLOCKS \in Nat \ {0}
    /\ MaxLength \in Nat
    /\ Offset \subseteq Block /\ Offset \subseteq Nat /\ Block \subseteq Nat /\ Inode \subseteq Nat
    /\ 0 \in Offset /\ 0 \in Block /\ 0 \in Inode
    /\ Fd \subseteq Nat /\ 0 \in Fd /\ 1 \in Fd
    /\ Nul \in Byte /\ Mark \in Byte /\ Mark # Nul /\ Char \subseteq Byte
BY FileSysAssumption DEF MaxLength, Offset, Block, Larger, Inode, Fd, Nul, Mark, Byte

LEMMA LengthNat == MaxLength \in Nat
BY Constants

LEMMA SmallerBounds ==
    ASSUME NEW m \in Nat, NEW n \in Nat
    PROVE  /\ Smaller(m, n) \in Nat /\ Smaller(m, n) <= m /\ Smaller(m, n) <= n
           /\ m > 0 /\ n > 0 => Smaller(m, n) > 0
BY DEF Smaller

LEMMA Product == ASSUME NEW j \in Nat PROVE j * BLOCK_SIZE \in Nat
BY Constants

\* Where byte n of a file is.
LEMMA Division ==
    ASSUME NEW n \in Nat
    PROVE  /\ n \div BLOCK_SIZE \in Nat /\ n % BLOCK_SIZE \in Offset /\ n % BLOCK_SIZE \in Nat
           /\ n = (n \div BLOCK_SIZE) * BLOCK_SIZE + (n % BLOCK_SIZE)
           /\ (n \div BLOCK_SIZE) * BLOCK_SIZE \in Nat
           /\ (n \div BLOCK_SIZE) * BLOCK_SIZE <= n
<1>1. /\ n \div BLOCK_SIZE \in Nat /\ n % BLOCK_SIZE \in Offset
      /\ n = (n \div BLOCK_SIZE) * BLOCK_SIZE + (n % BLOCK_SIZE)
  BY Constants DEF Offset
<1>2. n % BLOCK_SIZE \in Nat /\ (n \div BLOCK_SIZE) * BLOCK_SIZE \in Nat
  BY <1>1, Constants, Product
<1> QED BY <1>1, <1>2

\* Blocks are in the order of their bytes.
LEMMA BlockOrder ==
    ASSUME NEW j \in Nat, NEW k \in Nat
    PROVE  /\ j < k => j * BLOCK_SIZE + BLOCK_SIZE <= k * BLOCK_SIZE
           /\ j * BLOCK_SIZE < k * BLOCK_SIZE => j < k
<1>1. j < k => j * BLOCK_SIZE + BLOCK_SIZE <= k * BLOCK_SIZE
  <2> SUFFICES ASSUME j < k PROVE (j + 1) * BLOCK_SIZE <= k * BLOCK_SIZE
    BY Constants
  <2>1. PICK d \in Nat : k = j + 1 + d
    <3> WITNESS k - (j + 1) \in Nat
    <3> QED OBVIOUS
  <2>2. k * BLOCK_SIZE = (j + 1) * BLOCK_SIZE + d * BLOCK_SIZE /\ d * BLOCK_SIZE \in Nat
    BY <2>1, Constants
  <2> QED BY <2>2, Constants
<1>2. ~(j < k) => k * BLOCK_SIZE <= j * BLOCK_SIZE
  <2> SUFFICES ASSUME ~(j < k) PROVE k * BLOCK_SIZE <= j * BLOCK_SIZE
    OBVIOUS
  <2>1. PICK d \in Nat : j = k + d
    <3> WITNESS j - k \in Nat
    <3> QED OBVIOUS
  <2>2. j * BLOCK_SIZE = k * BLOCK_SIZE + d * BLOCK_SIZE /\ d * BLOCK_SIZE \in Nat
    BY <2>1, Constants
  <2> QED BY <2>2, Constants
<1>3. j * BLOCK_SIZE \in Nat /\ k * BLOCK_SIZE \in Nat
  BY Constants
<1> QED BY <1>1, <1>2, <1>3

\* The entry of a byte within the largest file.
LEMMA EntryWithin ==
    ASSUME NEW k \in Nat, NEW n \in Nat, k * BLOCK_SIZE <= n, n < MaxLength
    PROVE  k < INODE_BLOCKS
<1>1. k * BLOCK_SIZE < INODE_BLOCKS * BLOCK_SIZE /\ INODE_BLOCKS \in Nat
  BY Constants DEF MaxLength
<1> QED BY <1>1, BlockOrder

\* What the searches return (the descriptor in open, the inode
\* in dir_write, find_empty_block) is in range and has what is searched for.
LEMMA FoundFd ==
    ASSUME NEW table, HasFree(table)
    PROVE  FirstFd(table) \in Fd /\ IsFree(table, FirstFd(table))
<1> DEFINE S == {fd \in Fd : IsFree(table, fd)}
<1>1. S \in SUBSET Nat /\ S # {}
  BY Constants DEF HasFree
<1>2. PICK m \in S : \A k \in S : m <= k
  BY <1>1, LeastElement
<1>3. \A d \in 0 .. m - 1 : ~IsFree(table, d)
  BY <1>2, FileSysAssumption DEF Fd
<1> QED BY <1>2, <1>3 DEF FirstFd

LEMMA FoundInode ==
    ASSUME \E i \in Inode : FreeInode(i)
    PROVE  FirstInode \in Inode
<1> DEFINE S == {i \in Inode : FreeInode(i)}
<1>1. S \in SUBSET Nat /\ S # {}
  BY Constants
<1>2. PICK m \in S : \A k \in S : m <= k
  BY <1>1, LeastElement
<1>3. \A j \in 0 .. m - 1 : ~FreeInode(j)
  BY <1>2, FileSysAssumption DEF Inode
<1> QED BY <1>2, <1>3 DEF FirstInode

LEMMA FoundBlock ==
    ASSUME \E i \in Offset : Unmarked(i)
    PROVE  find_empty_block \in Offset /\ Unmarked(find_empty_block)
<1> DEFINE S == {i \in Offset : Unmarked(i)}
<1>1. S \in SUBSET Nat /\ S # {}
  BY Constants
<1>2. PICK m \in S : \A k \in S : m <= k
  BY <1>1, LeastElement
<1>3. \A j \in 0 .. m - 1 : ~Unmarked(j)
  BY <1>2, FileSysAssumption DEF Offset
<1> QED BY <1>2, <1>3 DEF find_empty_block

-----------------------------------------------------------------------------
(* Type correctness *)

\* The types of all but the calls.
RestOK ==
    /\ num_dir_entries \in 1 .. MAX_FILES_NUMBER
    /\ dentry \in [0 .. MAX_FILES_NUMBER -> Dentry]
    /\ inode_array \in [Inode -> BOOLEAN]
    /\ inode \in [Inode -> InodeBlock]
    /\ data_block \in [Block -> [Offset -> Byte]]
    /\ file_array \in [Proc -> [Fd -> Descriptor]]
    /\ buf \in [Proc -> Seq(Byte \cup Name)]
    /\ changes \in 0 .. MAX_CHANGES

LEMMA TypeParts == TypeInv => RestOK
BY DEF TypeInv, TypeOK, RestOK

LEMMA UserOK == CallOK(User) /\ User.at = "user"
<1>1. << >> \in Seq(Byte) /\ Len(<< >>) = 0
  BY EmptySeq
<1>2. NoCp \in Fd \X Fd
  BY Constants DEF NoCp
<1>3. << >> \in Seq(Name) /\ 0 \in 0 .. MAX_FILES_NUMBER
  BY EmptySeq, FileSysAssumption
<1> QED BY <1>1, <1>2, <1>3, Constants DEF CallOK, User, SystemCall, WriteStates, NameStates

\* A file and its blocks.
LEMMA FileTypes ==
    ASSUME RestOK, NEW i \in Inode
    PROVE  /\ inode[i].length \in Nat /\ inode[i].length <= MaxLength
           /\ \A k \in 0 .. INODE_BLOCKS - 1 : inode[i].data_blocks[k] \in Block
BY Constants DEF RestOK, InodeBlock

\* One process goes on in its call: the others' reads and writes are where they were.
LEMMA CallStep ==
    ASSUME TypeInv, NEW p \in Proc, NEW c, CallOK(c), call' = [call EXCEPT ![p] = c],
           RestOK', num_dir_entries <= num_dir_entries',
           \A q \in Proc \ {p} : file_array'[q] = file_array[q] /\ buf'[q] = buf[q],
           \A i \in Inode : inode[i].length <= inode'[i].length,
           ReadAt(p)'
    PROVE  TypeInv'
<1>1. call \in [Proc -> SystemCall] /\ \A q \in Proc : CallOK(call[q])
  BY DEF TypeInv, TypeOK
<1>2. call'[p] = c /\ \A q \in Proc \ {p} : call'[q] = call[q]
  BY <1>1
<1>3. call' \in [Proc -> SystemCall]
  BY <1>1 DEF CallOK
<1>4. \A q \in Proc : CallOK(call'[q])
  BY <1>1, <1>2
<1>5. ASSUME NEW q \in Proc \ {p} PROVE ReadAt(q)'
  <2> DEFINE f == file_array[q][call[q].fd]
  <2>1. ReadAt(q) /\ call[q].fd \in Fd /\ call[q].n \in Nat /\ call[q].dent \in Nat
    BY <1>1, Constants DEF TypeInv, SystemCall
  <2>2. f.inode \in Inode /\ f.pos \in Nat
    BY <2>1, TypeParts DEF RestOK, Descriptor
  <2>3. inode[f.inode].length \in Nat /\ inode'[f.inode].length \in Nat
    BY <2>2, TypeParts DEF RestOK, InodeBlock
  <2>4. inode[f.inode].length <= inode'[f.inode].length
    BY <2>2
  <2>5. call[q].at = "read" => f.pos + call[q].n <= inode'[f.inode].length
    BY <2>1, <2>2, <2>3, <2>4 DEF ReadAt
  <2>6. call'[q] = call[q] /\ file_array'[q] = file_array[q] /\ buf'[q] = buf[q]
    BY <1>2
  <2>7. num_dir_entries \in Nat /\ num_dir_entries' \in Nat
    BY TypeParts, FileSysAssumption DEF RestOK
  <2>8. /\ call[q].at = "cpwrite" => buf[q] \in Seq(Byte)
        /\ call[q].at = "entry" => call[q].dent < num_dir_entries'
    BY <2>1, <2>7 DEF ReadAt
  <2> QED BY <2>5, <2>6, <2>8 DEF ReadAt
<1>6. TypeOK'
  <2>1. \A q \in Proc : ReadAt(q)'
    BY <1>5
  <2>2. /\ \A q \in Proc : call'[q].data # << >> <=> call'[q].at \in {"scan", "mark", "copy"}
        /\ \A q \in Proc : call'[q].names # << >> <=> call'[q].at \in NameStates
    BY <1>4 DEF CallOK
  <2>3. \A q \in Proc : call'[q].at = "entry" => call'[q].dent < num_dir_entries'
    BY <2>1 DEF ReadAt
  <2> QED BY <1>3, <2>2, <2>3 DEF RestOK, TypeOK, Opening, Removing, NameStates
<1> QED BY <1>4, <1>5, <1>6 DEF TypeInv

\* The same when the call does not change.
LEMMA SameCall ==
    ASSUME TypeInv, NEW p \in Proc, UNCHANGED <<num_dir_entries, call, inode>>,
           call[p].at = "user", RestOK',
           \A q \in Proc \ {p} : file_array'[q] = file_array[q] /\ buf'[q] = buf[q]
    PROVE  TypeInv'
<1>1. call \in [Proc -> SystemCall] /\ CallOK(call[p])
  BY DEF TypeInv, TypeOK
<1>2. call' = [call EXCEPT ![p] = call[p]]
  BY <1>1
<1>3. ReadAt(p)'
  BY <1>1 DEF ReadAt, CallOK
<1>4. \A i \in Inode : inode[i].length <= inode'[i].length
  BY TypeParts, FileTypes
<1>5. num_dir_entries <= num_dir_entries'
  BY TypeParts, FileSysAssumption DEF RestOK
<1> QED BY <1>1, <1>2, <1>3, <1>4, <1>5, CallStep

LEMMA DropTypes ==
    ASSUME TypeInv, NEW p \in Proc, Drop(p)
    PROVE  /\ buf' \in [Proc -> Seq(Byte \cup Name)] /\ buf'[p] = << >>
           /\ \A q \in Proc \ {p} : buf'[q] = buf[q]
BY TypeParts, EmptySeq DEF Drop, RestOK

LEMMA ChangeType ==
    ASSUME RestOK, NEW n \in Nat, Change(n)
    PROVE  changes' \in 0 .. MAX_CHANGES
BY FileSysAssumption DEF RestOK, Change

\* Descriptors are closed, and the directory is read.
LEMMA CloseType ==
    ASSUME TypeInv, NEW p \in Proc, NEW fd \in Fd, Close(p, fd)
    PROVE  TypeInv'
<1>1. RestOK /\ file_array[p] \in [Fd -> Descriptor] /\ Closed \in Descriptor
  BY TypeParts, Constants DEF RestOK, Closed, Descriptor
<1>2. file_array' = [file_array EXCEPT ![p] = [@ EXCEPT ![fd] = Closed]]
  BY DEF Close
<1>3. RestOK' /\ \A q \in Proc \ {p} : file_array'[q] = file_array[q] /\ buf'[q] = buf[q]
  BY <1>1, <1>2, DropTypes DEF Close, RestOK
<1> QED BY <1>3, SameCall DEF Close

LEMMA ReadDirType ==
    ASSUME TypeInv, NEW p \in Proc, NEW fd \in Fd, ReadDir(p, fd)
    PROVE  TypeInv'
<1> DEFINE f == file_array[p][fd]
<1>1. RestOK /\ file_array[p] \in [Fd -> Descriptor]
  BY TypeParts DEF RestOK
<1>2. f \in Descriptor /\ f.pos \in Nat /\ num_dir_entries \in 1 .. MAX_FILES_NUMBER
  BY <1>1 DEF Descriptor, RestOK
<1>3. CASE f.pos >= num_dir_entries
  <2>1. buf' = [buf EXCEPT ![p] = << >>] /\ UNCHANGED file_array
    BY <1>3 DEF ReadDir
  <2>2. RestOK' /\ \A q \in Proc \ {p} : buf'[q] = buf[q]
    BY <1>1, <2>1, EmptySeq DEF ReadDir, RestOK
  <2> QED BY <2>1, <2>2, SameCall DEF ReadDir
<1>4. CASE ~(f.pos >= num_dir_entries)
  <2> DEFINE name == dentry[f.pos].name
             g == [f EXCEPT !.pos = @ + 1]
  <2>1. /\ file_array' = [file_array EXCEPT ![p] = [@ EXCEPT ![fd] = g]]
        /\ buf' = [buf EXCEPT ![p] = IF name = Blank THEN << >> ELSE <<name>>]
    BY <1>1, <1>4 DEF ReadDir, RestOK
  <2>2. f.pos \in 0 .. MAX_FILES_NUMBER
    BY <1>2, <1>4, FileSysAssumption
  <2>3. dentry[f.pos] \in Dentry
    BY <1>1, <2>2 DEF RestOK
  <2>4. name = Blank \/ name \in Name
    BY <2>3 DEF Dentry
  <2>5. (IF name = Blank THEN << >> ELSE <<name>>) \in Seq(Byte \cup Name)
    BY <2>4, EmptySeq
  <2>6. g \in Descriptor
    BY <1>2 DEF Descriptor
  <2> HIDE DEF g, name, f
  <2>7. RestOK' /\ \A q \in Proc \ {p} : file_array'[q] = file_array[q] /\ buf'[q] = buf[q]
    BY <1>1, <2>1, <2>5, <2>6 DEF ReadDir, RestOK
  <2> QED BY <2>7, SameCall DEF ReadDir
<1> QED BY <1>3, <1>4

LEMMA HaltType ==
    ASSUME TypeInv, NEW p \in Proc, Halt(p)
    PROVE  TypeInv'
<1> DEFINE new == [fd \in Fd |-> IF fd < 2 THEN Std ELSE Closed]
<1>1. new \in [Fd -> Descriptor]
  BY Constants DEF Descriptor, Std, Closed
<1>2. /\ file_array' = [file_array EXCEPT ![p] = new] /\ buf' = [buf EXCEPT ![p] = << >>]
      /\ call' = [call EXCEPT ![p] = User] /\ inode' = inode /\ num_dir_entries' = num_dir_entries
  BY DEF Halt
<1> HIDE DEF new
<1>3. RestOK' /\ \A q \in Proc \ {p} : file_array'[q] = file_array[q] /\ buf'[q] = buf[q]
  BY <1>1, <1>2, TypeParts, EmptySeq DEF Halt, RestOK
<1>4. call'[p] = User /\ file_array'[p] = new
  BY <1>2, TypeParts DEF TypeInv, TypeOK
<1>5. /\ \A i \in Inode : inode[i].length <= inode'[i].length
      /\ num_dir_entries <= num_dir_entries'
  BY <1>2, TypeParts, FileTypes, FileSysAssumption DEF RestOK
<1>6. ReadAt(p)'
  BY <1>4 DEF ReadAt, User
<1> QED BY <1>2, <1>3, <1>5, <1>6, UserOK, CallStep
\* What is known of the process that takes a step.
LEMMA CallFacts ==
    ASSUME TypeInv, NEW p \in Proc
    PROVE  /\ CallOK(call[p]) /\ ReadAt(p)
           /\ call \in [Proc -> SystemCall]
           /\ call[p].fd \in Fd /\ call[p].inode \in Inode /\ call[p].D \in Block
           /\ call[p].off \in Offset /\ call[p].entry \in Nat /\ call[p].n \in Nat
           /\ call[p].written \in 0 .. MaxLength /\ call[p].data \in Seq(Byte)
           /\ call[p].cp[1] \in Fd /\ call[p].cp[2] \in Fd
           /\ Len(call[p].data) \in Nat
           /\ call[p].names \in Seq(Name) /\ call[p].dent \in 0 .. MAX_FILES_NUMBER
<1>1. CallOK(call[p]) /\ ReadAt(p) /\ call \in [Proc -> SystemCall]
  BY DEF TypeInv, TypeOK
<1>2. call[p].data \in Seq(Byte) /\ call[p].cp \in Fd \X Fd
  BY <1>1 DEF SystemCall
<1>3. Len(call[p].data) \in Nat
  BY <1>2, LenProperties
<1>4. call[p].cp[1] \in Fd /\ call[p].cp[2] \in Fd
  BY <1>2
<1> QED BY <1>1, <1>2, <1>3, <1>4 DEF SystemCall

\* Nothing but the calls, the buffers and the descriptors of one process changes.
LEMMA DiskSame ==
    ASSUME TypeInv, NEW p \in Proc, NEW c, CallOK(c), call' = [call EXCEPT ![p] = c],
           UNCHANGED disk, changes' \in 0 .. MAX_CHANGES,
           file_array' \in [Proc -> [Fd -> Descriptor]],
           buf' \in [Proc -> Seq(Byte \cup Name)],
           \A q \in Proc \ {p} : file_array'[q] = file_array[q] /\ buf'[q] = buf[q],
           ReadAt(p)'
    PROVE  TypeInv'
<1>1. RestOK'
  BY TypeParts DEF RestOK, disk
<1>2. num_dir_entries <= num_dir_entries'
  BY TypeParts, FileSysAssumption DEF RestOK, disk
<1>3. \A i \in Inode : inode[i].length <= inode'[i].length
  BY TypeParts, FileTypes DEF disk
<1> QED BY <1>1, <1>2, <1>3, CallStep

\* read_data (filesys.c:168-222) begins.
LEMMA ReadDataType ==
    ASSUME TypeInv, NEW p \in Proc, NEW fd \in Fd, NEW n \in Nat,
           call[p].at \notin WriteStates, call[p].names = << >>,
           ReadData(p, fd, n), UNCHANGED <<disk, file_array, changes>>
    PROVE  TypeInv'
<1> DEFINE f == file_array[p][fd]
           length == inode[f.inode].length
           len == IF f.pos > length THEN 0 ELSE Smaller(n, length - f.pos)
           reading == [call[p] EXCEPT !.at = "read", !.fd = fd, !.n = len]
           c == IF len = 0 THEN User ELSE reading
<1>1. f.inode \in Inode /\ f.pos \in Nat
  BY TypeParts DEF RestOK, Descriptor
<1>2. length \in Nat /\ length <= MaxLength
  BY <1>1, TypeParts, FileTypes
<1>3. len \in 0 .. MaxLength /\ (len # 0 => f.pos + len <= length)
  BY <1>1, <1>2, Constants DEF Smaller
<1>4. CallOK(call[p]) /\ ReadAt(p) /\ call \in [Proc -> SystemCall]
  BY CallFacts
<1>5. call[p].data = << >>
  BY <1>4 DEF CallOK, WriteStates
<1>6. call' = [call EXCEPT ![p] = c]
  BY DEF ReadData
<1> HIDE DEF len
<1>7. CallOK(reading)
  BY <1>3, <1>4, <1>5 DEF CallOK, SystemCall, WriteStates, NameStates
<1>8. CallOK(c)
  BY <1>7, UserOK
<1>9. call'[p] = c
  BY <1>4, <1>6
<1>10. ReadAt(p)'
  <2>1. CASE len = 0
    BY <1>9, <2>1 DEF ReadAt, User
  <2>2. CASE len # 0
    <3>1. /\ call'[p].at = "read" /\ call'[p].fd = fd /\ call'[p].n = len
          /\ call'[p].cp = call[p].cp
      BY <1>4, <1>9, <2>2 DEF CallOK, SystemCall
    <3>2. f.pos + len <= length
      BY <1>3, <2>2
    <3> QED BY <3>1, <3>2 DEF ReadAt, disk
  <2> QED BY <2>1, <2>2
<1>11. /\ changes' \in 0 .. MAX_CHANGES /\ file_array' \in [Proc -> [Fd -> Descriptor]]
       /\ buf' \in [Proc -> Seq(Byte \cup Name)]
       /\ \A q \in Proc \ {p} : file_array'[q] = file_array[q] /\ buf'[q] = buf[q]
  BY TypeParts, DropTypes DEF RestOK, ReadData
<1> HIDE DEF c
<1> QED BY <1>6, <1>8, <1>10, <1>11, DiskSame

\* The bytes between two positions within a file.
LEMMA BytesType ==
    ASSUME RestOK, NEW i \in Inode, NEW off \in Nat, NEW n \in Nat,
           off + n <= inode[i].length
    PROVE  FileBytes(i, off, n) \in Seq(Byte) /\ Len(FileBytes(i, off, n)) = n
<1>1. ASSUME NEW k \in 1 .. n
      PROVE  LET at == off + k - 1
             IN  data_block[inode[i].data_blocks[at \div BLOCK_SIZE]][at % BLOCK_SIZE] \in Byte
  <2> DEFINE at == off + k - 1
  <2>1. at \in Nat /\ at < MaxLength
    BY FileTypes, Constants
  <2> HIDE DEF at
  <2>2. /\ at \div BLOCK_SIZE \in Nat /\ at % BLOCK_SIZE \in Offset
        /\ (at \div BLOCK_SIZE) * BLOCK_SIZE <= at
    BY <2>1, Division
  <2>3. at \div BLOCK_SIZE < INODE_BLOCKS
    BY <2>1, <2>2, EntryWithin
  <2>4. at \div BLOCK_SIZE \in 0 .. INODE_BLOCKS - 1
    BY <2>2, <2>3, Constants
  <2>5. inode[i].data_blocks[at \div BLOCK_SIZE] \in Block
    BY <2>4, FileTypes
  <2>6. data_block[inode[i].data_blocks[at \div BLOCK_SIZE]][at % BLOCK_SIZE] \in Byte
    BY <2>2, <2>5 DEF RestOK
  <2> QED BY <2>6 DEF at
<1>2. FileBytes(i, off, n) \in [1 .. n -> Byte]
  BY <1>1 DEF FileBytes
<1>3. FileBytes(i, off, n) \in Seq(Byte)
  BY <1>2, SeqDef
<1>4. DOMAIN FileBytes(i, off, n) = 1 .. n
  BY <1>2
<1>5. 1 .. Len(FileBytes(i, off, n)) = 1 .. n /\ Len(FileBytes(i, off, n)) \in Nat
  BY <1>3, <1>4, LenProperties
<1> QED BY <1>3, <1>5
LEMMA BytesAreBuf == Seq(Byte) \subseteq Seq(Byte \cup Name)
BY SeqMonotonic

\* The end of read_data, and the new position (filesys.c:209-221, system_call.c).
LEMMA ReadEndType ==
    ASSUME TypeInv, NEW p \in Proc, ReadEnd(p)
    PROVE  TypeInv'
<1> DEFINE f == file_array[p][call[p].fd]
           bytes == FileBytes(f.inode, f.pos, call[p].n)
           g == [f EXCEPT !.pos = @ + call[p].n]
           writing == [User EXCEPT !.at = "cpwrite", !.cp = call[p].cp]
           c == IF call[p].cp = NoCp THEN User ELSE writing
<1>1. /\ CallOK(call[p]) /\ ReadAt(p) /\ call \in [Proc -> SystemCall]
      /\ call[p].fd \in Fd /\ call[p].n \in Nat
  BY CallFacts
<1>2. f \in Descriptor /\ f.inode \in Inode /\ f.pos \in Nat
  BY <1>1, TypeParts DEF RestOK, Descriptor
<1>3. f.pos + call[p].n <= inode[f.inode].length
  BY <1>1 DEF ReadEnd, ReadAt
<1>4. bytes \in Seq(Byte) /\ bytes \in Seq(Byte \cup Name)
  BY <1>1, <1>2, <1>3, TypeParts, BytesType, BytesAreBuf
<1>5. g \in Descriptor
  BY <1>1, <1>2 DEF Descriptor
<1>6. /\ buf' = [buf EXCEPT ![p] = bytes]
      /\ file_array' = [file_array EXCEPT ![p] = [@ EXCEPT ![call[p].fd] = g]]
      /\ call' = [call EXCEPT ![p] = c]
      /\ UNCHANGED disk /\ changes' = changes
  BY <1>1, TypeParts DEF ReadEnd, RestOK, disk
<1>7. writing.at = "cpwrite" /\ writing.cp = call[p].cp
  BY DEF User
<1>8. CallOK(c)
  <2>1. call[p].cp \in Fd \X Fd
    BY <1>1 DEF SystemCall
  <2>2. CallOK(writing)
    BY <1>7, <2>1, UserOK DEF CallOK, User, SystemCall, WriteStates, NameStates
  <2> QED BY <2>2, UserOK
<1> HIDE DEF bytes, g
<1>9. /\ call'[p] = c /\ buf'[p] = bytes
      /\ file_array'[p] = [file_array[p] EXCEPT ![call[p].fd] = g]
  BY <1>1, <1>6, TypeParts DEF RestOK
<1>10. /\ changes' \in 0 .. MAX_CHANGES /\ file_array' \in [Proc -> [Fd -> Descriptor]]
       /\ buf' \in [Proc -> Seq(Byte \cup Name)]
       /\ \A q \in Proc \ {p} : file_array'[q] = file_array[q] /\ buf'[q] = buf[q]
  BY <1>1, <1>4, <1>5, <1>6, TypeParts DEF RestOK
<1>11. ReadAt(p)'
  <2>1. CASE call[p].cp = NoCp
    BY <1>9, <2>1 DEF ReadAt, User
  <2>2. CASE call[p].cp # NoCp
    BY <1>4, <1>7, <1>9, <2>2 DEF ReadAt
  <2> QED BY <2>1, <2>2
<1> HIDE DEF c
<1> QED BY <1>6, <1>8, <1>10, <1>11, DiskSame

\* A step that is not one of reading.
LEMMA OtherStep ==
    ASSUME TypeInv, NEW p \in Proc, NEW c, CallOK(c), call' = [call EXCEPT ![p] = c],
           c.at \notin {"read", "cpwrite", "entry"},
           UNCHANGED file_array, buf' = buf \/ Drop(p), RestOK',
           num_dir_entries <= num_dir_entries',
           \A i \in Inode : inode[i].length <= inode'[i].length
    PROVE  TypeInv'
<1>1. call'[p] = c
  BY CallFacts
<1>2. \A q \in Proc \ {p} : file_array'[q] = file_array[q] /\ buf'[q] = buf[q]
  BY DropTypes
<1>3. ReadAt(p)'
  BY <1>1 DEF ReadAt
<1> QED BY <1>2, <1>3, CallStep

\* The names of a call are a sequence of names; what is behind the first one, too.
LEMMA LookingOK ==
    ASSUME NEW at \in NameStates, NEW s \in Seq(Name), s # << >>
    PROVE  CallOK(Looking(at, s)) /\ Looking(at, s).at = at
<1>1. /\ Looking(at, s) \in SystemCall /\ Looking(at, s).names = s /\ Looking(at, s).at = at
      /\ Looking(at, s).data = << >> /\ Looking(at, s).written = 0
  <2>1. CallOK(User)
    BY UserOK
  <2> QED BY <2>1 DEF Looking, User, CallOK, SystemCall, NameStates
<1> QED BY <1>1 DEF CallOK, NameStates, WriteStates

\* open, rm and cp begin.
LEMMA LookBegins ==
    ASSUME TypeInv, NEW p \in Proc,
           \/ \E name \in Name : Open(p, name)
           \/ \E name \in FileName : Rm(p, name)
           \/ \E src, dst \in FileName : Cp(p, src, dst)
    PROVE  /\ UNCHANGED <<disk, file_array>> /\ Drop(p) /\ changes' \in 0 .. MAX_CHANGES
           /\ \E at \in {"lookup", "rm"}, s \in Seq(Name) :
                 s # << >> /\ call' = [call EXCEPT ![p] = Looking(at, s)]
<1>1. RestOK /\ FileName \subseteq Name
  BY TypeParts, FileSysAssumption
<1>2. CASE \E name \in Name : Open(p, name)
  <2>1. PICK name \in Name : Open(p, name)
    BY <1>2
  <2>2. <<name>> \in Seq(Name) /\ <<name>> # << >>
    BY <2>1
  <2> QED BY <1>1, <2>1, <2>2 DEF Open, disk, RestOK
<1>3. CASE \E name \in FileName : Rm(p, name)
  <2>1. PICK name \in FileName : Rm(p, name)
    BY <1>3
  <2>2. <<name>> \in Seq(Name) /\ <<name>> # << >> /\ changes' \in 0 .. MAX_CHANGES
    BY <1>1, <2>1, ChangeType DEF Rm
  <2> QED BY <2>1, <2>2 DEF Rm, disk
<1>4. CASE \E src, dst \in FileName : Cp(p, src, dst)
  <2>1. PICK src \in FileName, dst \in FileName : Cp(p, src, dst)
    BY <1>4
  <2>2. /\ <<src, dst, src, dst>> \in Seq(Name) /\ <<src, dst, src, dst>> # << >>
        /\ changes' \in 0 .. MAX_CHANGES
    BY <1>1, <2>1, ChangeType DEF Cp
  <2> QED BY <2>1, <2>2 DEF Cp, disk
<1> QED BY <1>2, <1>3, <1>4

LEMMA LookType ==
    ASSUME TypeInv, NEW p \in Proc,
           \/ \E name \in Name : Open(p, name)
           \/ \E name \in FileName : Rm(p, name)
           \/ \E src, dst \in FileName : Cp(p, src, dst)
    PROVE  TypeInv'
<1>1. PICK at \in {"lookup", "rm"}, s \in Seq(Name) :
         s # << >> /\ call' = [call EXCEPT ![p] = Looking(at, s)]
  BY LookBegins
<1>2. CallOK(Looking(at, s)) /\ Looking(at, s).at \in {"lookup", "rm"}
  BY <1>1, LookingOK DEF NameStates
<1>3. /\ UNCHANGED <<disk, file_array>> /\ Drop(p) /\ changes' \in 0 .. MAX_CHANGES
  BY LookBegins
<1>4. RestOK' /\ num_dir_entries <= num_dir_entries'
  BY <1>3, TypeParts, DropTypes, FileSysAssumption DEF RestOK, disk
<1>5. \A i \in Inode : inode[i].length <= inode'[i].length
  BY <1>3, TypeParts, FileTypes DEF disk
<1> QED BY <1>1, <1>2, <1>3, <1>4, <1>5, OtherStep

LEMMA TailType ==
    ASSUME NEW s \in Seq(Name), Len(s) > 1
    PROVE  Tail(s) \in Seq(Name) /\ Tail(s) # << >>
<1>1. Tail(s) \in Seq(Name) /\ Len(Tail(s)) = Len(s) - 1 /\ Len(s) \in Nat
  BY LenProperties
<1>2. Len(Tail(s)) # 0
  BY <1>1
<1> QED BY <1>1, <1>2, EmptySeq

\* A step of a search, from one call state to the next.
LEMMA SearchCall ==
    ASSUME TypeInv, NEW p \in Proc, Search(p)
    PROVE  \E c : /\ call' = [call EXCEPT ![p] = c] /\ CallOK(c)
                  /\ c.at = "entry" => c.dent < num_dir_entries
                  /\ c.at \in {"lookup", "entry", "rm", "shift", "user"}
<1> DEFINE c == call[p]
           at == IF c.at = "rm" THEN "shift" ELSE "entry"
<1>1. /\ CallOK(c) /\ c \in SystemCall /\ c.at \in {"lookup", "rm"}
      /\ c.names \in Seq(Name) /\ c.names # << >> /\ c.dent \in 0 .. MAX_FILES_NUMBER
      /\ num_dir_entries \in 1 .. MAX_FILES_NUMBER
  BY CallFacts, TypeParts DEF Search, CallOK, NameStates, RestOK
<1>2. CASE call' = [call EXCEPT ![p].dent = @ + 1] /\ c.dent < num_dir_entries
  <2> DEFINE d == [c EXCEPT !.dent = @ + 1]
  <2>1. call' = [call EXCEPT ![p] = d]
    BY <1>2
  <2>2. /\ c.dent \in 0 .. MAX_FILES_NUMBER /\ num_dir_entries \in 1 .. MAX_FILES_NUMBER
        /\ c.dent < num_dir_entries
    BY <1>1, <1>2
  <2>3. MAX_FILES_NUMBER \in Nat
    BY FileSysAssumption
  <2>4. c.dent + 1 \in 0 .. MAX_FILES_NUMBER
    BY <2>2, <2>3
  <2>5. CallOK(d) /\ d.at = c.at
    BY <1>1, <2>4 DEF CallOK, SystemCall, WriteStates, NameStates
  <2> HIDE DEF d
  <2> QED BY <1>1, <2>1, <2>5
<1>3. CASE c.dent < num_dir_entries /\ IsCheck(c)
           /\ call' = [call EXCEPT ![p] = Looking("lookup", Tail(c.names))]
  <2>1. Len(c.names) \in Nat
    BY <1>1, LenProperties
  <2>2. Len(c.names) > 1
    BY <1>3, <2>1 DEF IsCheck
  <2>3. Tail(c.names) \in Seq(Name) /\ Tail(c.names) # << >>
    BY <1>1, <2>2, TailType
  <2> QED BY <1>3, <2>3, LookingOK DEF NameStates
<1>4. CASE c.dent < num_dir_entries /\ call' = [call EXCEPT ![p] = [c EXCEPT !.at = at]]
  <2> DEFINE d == [c EXCEPT !.at = at]
  <2>1. CallOK(d) /\ d.at = at /\ d.dent = c.dent
    BY <1>1 DEF CallOK, SystemCall, WriteStates, NameStates
  <2> HIDE DEF d
  <2>2. at \in {"shift", "entry"}
    OBVIOUS
  <2> QED BY <1>4, <2>1, <2>2 DEF d
<1>5. CASE call' = [call EXCEPT ![p] = User]
  BY <1>5, UserOK
<1> QED BY <1>2, <1>3, <1>4, <1>5 DEF Search, LooksOn

LEMMA SearchType ==
    ASSUME TypeInv, NEW p \in Proc, Search(p)
    PROVE  TypeInv'
<1>1. PICK c : /\ call' = [call EXCEPT ![p] = c] /\ CallOK(c)
               /\ c.at = "entry" => c.dent < num_dir_entries
               /\ c.at \in {"lookup", "entry", "rm", "shift", "user"}
  BY SearchCall
<1>2. UNCHANGED <<disk, file_array, buf, changes>>
  BY DEF Search, disk
<1>3. call'[p] = c
  BY <1>1, CallFacts
<1>4. ReadAt(p)'
  BY <1>1, <1>2, <1>3 DEF ReadAt, disk
<1> QED BY <1>1, <1>2, <1>4, TypeParts, DiskSame DEF RestOK

\* open reads an entry and fills a descriptor; the call behind it.
LEMMA OpenEntryCall ==
    ASSUME TypeInv, NEW p \in Proc, OpenEntry(p)
    PROVE  \E c : /\ call' = [call EXCEPT ![p] = c] /\ CallOK(c)
                  /\ c.at \in {"lookup", "user", "cpread"}
<1> DEFINE c == call[p]
           fd == FirstFd(file_array[p])
<1>1. /\ CallOK(c) /\ c \in SystemCall /\ c.at = "entry"
      /\ c.names \in Seq(Name) /\ c.names # << >> /\ c.cp[1] \in Fd
  BY CallFacts DEF OpenEntry, CallOK, NameStates
<1>2. CASE call' = [call EXCEPT ![p] = User]
  BY <1>2, UserOK
<1>3. CASE HasFree(file_array[p]) /\ IsCp(c) /\ c.cp = NoCp
  <2>1. fd \in Fd
    BY <1>3, FoundFd
  <2>2. Tail(c.names) \in Seq(Name) /\ Tail(c.names) # << >>
    BY <1>1, <1>3, TailType DEF IsCp
  <2>3. CallOK(Looking("lookup", Tail(c.names))) /\ Looking("lookup", Tail(c.names)).at = "lookup"
    BY <2>2, LookingOK DEF NameStates
  <2> DEFINE d == [Looking("lookup", Tail(c.names)) EXCEPT !.cp = <<fd, 0>>]
  <2>4. call' = [call EXCEPT ![p] = d]
    BY <1>3 DEF OpenEntry
  <2> HIDE DEF fd
  <2>5. CallOK(d) /\ d.at = "lookup"
    <3> DEFINE l == Looking("lookup", Tail(c.names))
    <3>1. d = [l EXCEPT !.cp = <<fd, 0>>] /\ CallOK(l) /\ l.at = "lookup"
      BY <2>3
    <3> HIDE DEF l, d
    <3>2. <<fd, 0>> \in Fd \X Fd
      BY <2>1, Constants
    <3> QED BY <3>1, <3>2 DEF CallOK, SystemCall, WriteStates
  <2> HIDE DEF d
  <2> QED BY <2>4, <2>5
<1>4. CASE HasFree(file_array[p]) /\ IsCp(c) /\ c.cp # NoCp
  <2> DEFINE d == [User EXCEPT !.at = "cpread", !.cp = <<c.cp[1], fd>>]
  <2>1. fd \in Fd /\ <<c.cp[1], fd>> \in Fd \X Fd
    BY <1>1, <1>4, FoundFd
  <2>2. call' = [call EXCEPT ![p] = d]
    BY <1>4 DEF OpenEntry
  <2> HIDE DEF fd
  <2>3. CallOK(d) /\ d.at = "cpread"
    BY <2>1, UserOK DEF CallOK, User, SystemCall, WriteStates, NameStates
  <2> HIDE DEF d
  <2> QED BY <2>2, <2>3
<1> QED BY <1>2, <1>3, <1>4 DEF OpenEntry

LEMMA OpenedType ==
    ASSUME NEW e \in Dentry
    PROVE  Opened(e) \in Descriptor /\ Opened(e).op = e.file_type /\ Opened(e).pos = 0
BY Constants DEF Opened, Dentry, Descriptor

LEMMA OpenEntryType ==
    ASSUME TypeInv, NEW p \in Proc, OpenEntry(p)
    PROVE  TypeInv'
<1>1. PICK c : /\ call' = [call EXCEPT ![p] = c] /\ CallOK(c)
               /\ c.at \in {"lookup", "user", "cpread"}
  BY OpenEntryCall
<1>2. UNCHANGED <<disk, buf, changes>> /\ RestOK /\ call[p].dent \in 0 .. MAX_FILES_NUMBER
  BY TypeParts, CallFacts DEF OpenEntry, disk
<1>3. /\ file_array' \in [Proc -> [Fd -> Descriptor]]
      /\ \A q \in Proc \ {p} : file_array'[q] = file_array[q]
  <2>1. CASE UNCHANGED file_array
    BY <1>2, <2>1 DEF RestOK
  <2>2. CASE HasFree(file_array[p]) /\ file_array' =
                 [file_array EXCEPT ![p][FirstFd(file_array[p])] = Opened(dentry[call[p].dent])]
    <3>1. Opened(dentry[call[p].dent]) \in Descriptor
      BY <1>2, OpenedType DEF RestOK
    <3>2. PICK d \in Descriptor : d = Opened(dentry[call[p].dent])
      BY <3>1
    <3>3. PICK fd \in Fd : fd = FirstFd(file_array[p])
      BY <2>2, FoundFd
    <3> QED BY <1>2, <2>2, <3>2, <3>3 DEF RestOK
  <2> QED BY <2>1, <2>2 DEF OpenEntry
<1>4. call'[p] = c
  BY <1>1, CallFacts
<1>5. ReadAt(p)'
  BY <1>1, <1>4 DEF ReadAt
<1> QED BY <1>1, <1>2, <1>3, <1>5, TypeParts, DiskSame DEF RestOK

\* rm moves an entry up.
LEMMA ShiftCall ==
    ASSUME TypeInv, NEW p \in Proc, Shift(p)
    PROVE  \E c : /\ call' = [call EXCEPT ![p] = c] /\ CallOK(c) /\ c.at \in {"shift", "user"}
<1>1. /\ CallOK(call[p]) /\ call[p] \in SystemCall /\ call[p].at = "shift"
      /\ call[p].dent \in 0 .. MAX_FILES_NUMBER /\ num_dir_entries \in 1 .. MAX_FILES_NUMBER
  BY CallFacts, TypeParts DEF Shift, RestOK
<1>2. CASE call[p].dent < num_dir_entries
  <2> DEFINE d == [call[p] EXCEPT !.dent = @ + 1]
  <2>1. call' = [call EXCEPT ![p] = d]
    BY <1>1, <1>2, FileSysAssumption DEF Shift
  <2>2. call[p].dent + 1 \in 0 .. MAX_FILES_NUMBER
    BY <1>1, <1>2, FileSysAssumption
  <2>3. CallOK(d) /\ d.at = "shift"
    BY <1>1, <2>2 DEF CallOK, SystemCall, WriteStates, NameStates
  <2> HIDE DEF d
  <2> QED BY <2>1, <2>3
<1>3. CASE call[p].dent >= num_dir_entries
  <2>1. call' = [call EXCEPT ![p] = User]
    BY <1>1, <1>3, FileSysAssumption DEF Shift
  <2> QED BY <2>1, UserOK
<1> QED BY <1>1, <1>2, <1>3, FileSysAssumption

LEMMA ShiftType ==
    ASSUME TypeInv, NEW p \in Proc, Shift(p)
    PROVE  TypeInv'
<1>1. PICK c : call' = [call EXCEPT ![p] = c] /\ CallOK(c) /\ c.at \in {"shift", "user"}
  BY ShiftCall
<1>2. RestOK /\ UNCHANGED <<num_dir_entries, inode_array, inode, data_block, file_array, buf, changes>>
  BY TypeParts DEF Shift
<1>3. dentry' \in [0 .. MAX_FILES_NUMBER -> Dentry]
  <2>1. CASE UNCHANGED dentry
    BY <1>2, <2>1 DEF RestOK
  <2>2. CASE call[p].dent < num_dir_entries
             /\ dentry' = [dentry EXCEPT ![call[p].dent] = dentry[call[p].dent + 1]]
    <3>1. call[p].dent + 1 \in 0 .. MAX_FILES_NUMBER
      BY <1>2, <2>2, CallFacts, FileSysAssumption DEF RestOK
    <3>2. PICK d \in Dentry : d = dentry[call[p].dent + 1]
      BY <1>2, <3>1 DEF RestOK
    <3> QED BY <1>2, <2>2, <3>2 DEF RestOK
  <2> QED BY <2>1, <2>2 DEF Shift
<1>4. RestOK' /\ num_dir_entries <= num_dir_entries'
  BY <1>2, <1>3, FileSysAssumption DEF RestOK
<1>5. \A i \in Inode : inode[i].length <= inode'[i].length
  BY <1>2, FileTypes
<1> QED BY <1>1, <1>2, <1>4, <1>5, OtherStep

LEMMA BackOK ==
    ASSUME TypeInv, NEW p \in Proc
    PROVE  /\ CallOK(Back(p)) /\ Back(p).at \in {"user", "cpread"}
           /\ Back(p).written = 0
<1>1. call[p].cp \in Fd \X Fd
  BY CallFacts DEF SystemCall
<1>2. CallOK([User EXCEPT !.at = "cpread", !.cp = call[p].cp])
  BY <1>1, UserOK DEF CallOK, User, SystemCall, WriteStates, NameStates
<1> QED BY <1>2, UserOK DEF Back, User
\* dir_write: the name, and then the inode (filesys.c:453-503).
LEMMA CreateType ==
    ASSUME TypeInv, NEW p \in Proc, NEW fd \in Fd, NEW name \in NewName, Create(p, fd, name)
    PROVE  TypeInv'
<1> DEFINE c == [call[p] EXCEPT !.at = "create"]
           e == [dentry[num_dir_entries] EXCEPT !.name = name, !.file_type = "file"]
<1>1. RestOK /\ num_dir_entries \in 0 .. MAX_FILES_NUMBER /\ name \in Name
  BY TypeParts, FileSysAssumption DEF RestOK
<1>2. /\ CallOK(call[p]) /\ call \in [Proc -> SystemCall] /\ call[p].at = "user"
  BY CallFacts DEF Create
<1>3. e \in Dentry /\ e.file_type = "file"
  BY <1>1 DEF RestOK, Dentry
<1>4. dentry' = [dentry EXCEPT ![num_dir_entries] = e] /\ call' = [call EXCEPT ![p] = c]
  BY <1>1, <1>2 DEF Create, RestOK
<1> HIDE DEF e
<1>5. dentry' \in [0 .. MAX_FILES_NUMBER -> Dentry]
  BY <1>1, <1>3, <1>4 DEF RestOK
<1>6. changes' \in 0 .. MAX_CHANGES
  BY <1>1, ChangeType DEF Create
<1>7. RestOK'
  BY <1>1, <1>5, <1>6, DropTypes DEF RestOK, Create
<1>8. CallOK(c) /\ c.at = "create"
  BY <1>2 DEF CallOK, SystemCall, WriteStates, NameStates
<1>9. /\ num_dir_entries <= num_dir_entries'
      /\ \A i \in Inode : inode[i].length <= inode'[i].length
  BY <1>1, FileTypes DEF Create
<1> HIDE DEF c
<1> QED BY <1>4, <1>7, <1>8, <1>9, OtherStep DEF Create

LEMMA CreateEndType ==
    ASSUME TypeInv, NEW p \in Proc, CreateEnd(p)
    PROVE  TypeInv'
<1> DEFINE e == [dentry[num_dir_entries] EXCEPT !.inode = FirstInode]
<1>1. RestOK /\ num_dir_entries \in 0 .. MAX_FILES_NUMBER - 1
  BY TypeParts, FileSysAssumption DEF RestOK, CreateEnd
<1>2. call \in [Proc -> SystemCall]
  BY CallFacts
<1>3. /\ dentry' \in [0 .. MAX_FILES_NUMBER -> Dentry]
      /\ inode_array' \in [Inode -> BOOLEAN]
      /\ num_dir_entries' \in 1 .. MAX_FILES_NUMBER /\ num_dir_entries <= num_dir_entries'
  <2>1. CASE \E i \in Inode : FreeInode(i)
    <3>1. FirstInode \in Inode
      BY <2>1, FoundInode
    <3>2. dentry[num_dir_entries] \in Dentry
      BY <1>1 DEF RestOK
    <3>3. e \in Dentry /\ e.name = dentry[num_dir_entries].name
          /\ e.file_type = dentry[num_dir_entries].file_type
      BY <3>1, <3>2 DEF Dentry
    <3>4. /\ dentry' = [dentry EXCEPT ![num_dir_entries] = e]
          /\ inode_array' = [inode_array EXCEPT ![FirstInode] = TRUE]
          /\ num_dir_entries' = num_dir_entries + 1
      BY <2>1, <1>1 DEF CreateEnd, RestOK
    <3> HIDE DEF e
    <3>5. dentry' \in [0 .. MAX_FILES_NUMBER -> Dentry]
      BY <1>1, <3>3, <3>4 DEF RestOK
    <3>6. inode_array' \in [Inode -> BOOLEAN]
      BY <1>1, <3>4 DEF RestOK
    <3>7. num_dir_entries' \in 1 .. MAX_FILES_NUMBER /\ num_dir_entries <= num_dir_entries'
      BY <1>1, <3>4, FileSysAssumption
    <3> QED BY <3>5, <3>6, <3>7
  <2>2. CASE \A i \in Inode : ~FreeInode(i)
    <3>1. UNCHANGED <<num_dir_entries, dentry, inode_array>>
      BY <2>2 DEF CreateEnd
    <3>2. num_dir_entries \in 1 .. MAX_FILES_NUMBER
      BY <1>1 DEF RestOK
    <3> QED BY <1>1, <3>1, <3>2 DEF RestOK
  <2> QED BY <2>1, <2>2
<1>4. RestOK'
  BY <1>1, <1>3 DEF RestOK, CreateEnd
<1>5. /\ call' = [call EXCEPT ![p] = User]
      /\ \A i \in Inode : inode[i].length <= inode'[i].length
  BY <1>1, FileTypes DEF CreateEnd
<1>6. call'[p] = User /\ file_array' = file_array /\ buf' = buf
  BY <1>2, <1>5 DEF CreateEnd
<1>7. ReadAt(p)'
  BY <1>6 DEF ReadAt, User
<1> QED BY <1>3, <1>4, <1>5, <1>6, <1>7, UserOK, CallStep
\* A prefix and a suffix of bytes.
LEMMA PrefixType ==
    ASSUME NEW s \in Seq(Byte), NEW n \in Nat, n <= Len(s)
    PROVE  /\ SubSeq(s, 1, n) \in Seq(Byte) /\ Len(SubSeq(s, 1, n)) = n
           /\ SubSeq(s, 1, n) # << >> <=> n # 0
           /\ \A k \in 1 .. n : SubSeq(s, 1, n)[k] = s[k]
<1>1. \A i \in 1 .. n : s[i] \in Byte
  BY ElementOfSeq, LenProperties
<1>2. SubSeq(s, 1, n) \in Seq(Byte) /\ Len(SubSeq(s, 1, n)) = IF 1 <= n THEN n - 1 + 1 ELSE 0
  BY <1>1, SubSeqProperties
<1>3. Len(SubSeq(s, 1, n)) = n
  BY <1>2
<1>4. \A k \in 1 .. n : SubSeq(s, 1, n)[k] = s[k]
  BY <1>1, SubSeqProperties
<1> QED BY <1>2, <1>3, <1>4, EmptySeq

LEMMA SuffixType ==
    ASSUME NEW s \in Seq(Byte), NEW n \in Nat, n <= Len(s)
    PROVE  /\ Suffix(s, n) \in Seq(Byte) /\ Len(Suffix(s, n)) = Len(s) - n
           /\ Suffix(s, n) # << >> <=> n < Len(s)
           /\ \A k \in 1 .. Len(s) - n : Suffix(s, n)[k] = s[n + k]
<1>1. Len(s) \in Nat /\ \A i \in n + 1 .. Len(s) : s[i] \in Byte
  BY ElementOfSeq, LenProperties
<1>2. /\ SubSeq(s, n + 1, Len(s)) \in Seq(Byte)
      /\ Len(SubSeq(s, n + 1, Len(s))) = IF n + 1 <= Len(s) THEN Len(s) - (n + 1) + 1 ELSE 0
  BY <1>1, SubSeqProperties
<1>3. Len(Suffix(s, n)) = Len(s) - n /\ Suffix(s, n) \in Seq(Byte)
  BY <1>1, <1>2 DEF Suffix
<1>4. \A k \in 1 .. Len(s) - n : SubSeq(s, n + 1, Len(s))[k] = s[n + 1 + k - 1]
  BY <1>1, SubSeqProperties
<1>5. \A k \in 1 .. Len(s) - n : Suffix(s, n)[k] = s[n + k]
  BY <1>1, <1>4 DEF Suffix
<1> QED BY <1>1, <1>3, <1>5, EmptySeq

\* How a write begins: at the end of the file, with as much as fits.
Begun(p, c, i) ==
    LET length == inode[i].length
    IN  /\ c.at = IF length = 0 THEN "scan" ELSE "copy"
        /\ c.inode = i /\ c.written = 0 /\ c.cp = call[p].cp
        /\ c.entry = length \div BLOCK_SIZE /\ c.off = length % BLOCK_SIZE
        /\ length # 0 => c.D = inode[i].data_blocks[c.entry]
        /\ Len(c.data) > 0 /\ length + Len(c.data) <= MaxLength
        /\ "SameFile" \in Env \/ \A q \in Proc : Writing(q) => call[q].inode # i
        /\ "BoundaryAppend" \in Env \/ length = 0 \/ c.off > 0
        /\ "ThirdBlock" \in Env \/ c.off + Len(c.data) <= 2 * BLOCK_SIZE
        /\ "NulBytes" \in Env \/ \A k \in 1 .. Len(c.data) : c.data[k] # Nul
        /\ "ImageWrite" \in Env \/ Image.inodes[i].length = 0

LEMMA WriteBegins ==
    ASSUME TypeInv, NEW p \in Proc, NEW fd \in Fd, NEW data \in Seq(Byte),
           call[p].at \notin WriteStates, call[p].names = << >>, WriteData(p, fd, data)
    PROVE  /\ buf' = buf \/ Drop(p)
           /\ \/ call' = [call EXCEPT ![p] = Back(p)]
              \/ \E c : /\ call' = [call EXCEPT ![p] = c] /\ CallOK(c)
                       /\ Begun(p, c, file_array[p][fd].inode)
<1> DEFINE i == file_array[p][fd].inode
           length == inode[i].length
           len == Smaller(Len(data), MaxLength - length)
           off == length % BLOCK_SIZE
           entry == length \div BLOCK_SIZE
           D == IF length = 0 THEN 0 ELSE inode[i].data_blocks[entry]
           s == SubSeq(data, 1, len)
           at == IF length = 0 THEN "scan" ELSE "copy"
           c == [call[p] EXCEPT !.at = at, !.fd = fd, !.inode = i, !.data = s,
                                !.D = D, !.off = off, !.entry = entry]
<1>1. CASE len = 0
  BY <1>1 DEF WriteData
<1>2. CASE len # 0
  <2>1. /\ CallOK(call[p]) /\ call[p] \in SystemCall /\ call[p].written = 0 /\ i \in Inode
    BY CallFacts, TypeParts DEF CallOK, RestOK, Descriptor
  <2>2. length \in Nat /\ length <= MaxLength /\ Len(data) \in Nat
    BY <2>1, TypeParts, FileTypes, LenProperties
  <2>3. len \in Nat /\ len <= Len(data) /\ length + len <= MaxLength /\ len > 0
    <3> HIDE DEF length, len
    <3>1. MaxLength - length \in Nat
      BY <2>2, LengthNat
    <3>2. len = Smaller(Len(data), MaxLength - length)
      BY DEF len
    <3>3. len \in Nat /\ len <= Len(data) /\ len <= MaxLength - length
      BY <2>2, <3>1, <3>2, SmallerBounds
    <3>4. length + len <= MaxLength
      BY <2>2, <3>3, LengthNat
    <3> QED BY <1>2, <3>3, <3>4
  <2>4. length < MaxLength
    BY <2>2, <2>3, Constants
  <2>5. off \in Offset /\ entry \in Nat /\ entry * BLOCK_SIZE <= length
    BY <2>2, Division
  <2>6. entry < INODE_BLOCKS /\ entry \in 0 .. INODE_BLOCKS - 1
    BY <2>2, <2>4, <2>5, EntryWithin, Constants
  <2>7. D \in Block
    BY <2>1, <2>6, TypeParts, FileTypes, Constants
  <2>8. s \in Seq(Byte) /\ Len(s) = len /\ s # << >> /\ \A k \in 1 .. len : s[k] = data[k]
    BY <2>3, PrefixType
  <2>9. /\ UNCHANGED buf /\ call' = [call EXCEPT ![p] = c]
        /\ "SameFile" \in Env \/ \A q \in Proc : Writing(q) => call[q].inode # i
        /\ "BoundaryAppend" \in Env \/ length = 0 \/ off > 0
        /\ "ThirdBlock" \in Env \/ off + len <= 2 * BLOCK_SIZE
        /\ "NulBytes" \in Env \/ \A k \in 1 .. len : data[k] # Nul
        /\ "ImageWrite" \in Env \/ Image.inodes[i].length = 0
    BY <1>2 DEF WriteData
  <2>10. at \in {"scan", "copy"}
    OBVIOUS
  <2> HIDE DEF len, off, entry, D, s, at
  <2>11. /\ c.written = 0 /\ c.cp = call[p].cp /\ c.data = s
         /\ c.at = at /\ c.inode = i /\ c.D = D /\ c.off = off /\ c.entry = entry
         /\ c.names = << >>
    BY <2>1 DEF SystemCall
  <2>12. c \in SystemCall
    <3>1. entry \in 0 .. INODE_BLOCKS
      BY <2>6, Constants
    <3> QED BY <2>1, <2>5, <2>7, <2>8, <2>10, <3>1 DEF SystemCall
  <2> HIDE DEF c
  <2>13. CallOK(c)
    <3>1. c.written + Len(c.data) <= MaxLength
      BY <2>2, <2>3, <2>8, <2>11, Constants
    <3>2. c.data # << >> /\ c.at \in {"scan", "copy"}
      BY <2>8, <2>10, <2>11
    <3> QED BY <2>6, <2>11, <2>12, <3>1, <3>2 DEF CallOK, WriteStates, NameStates
  <2>14. Begun(p, c, i)
    <3>1. /\ c.at = IF length = 0 THEN "scan" ELSE "copy"
          /\ c.entry = length \div BLOCK_SIZE /\ c.off = length % BLOCK_SIZE
          /\ length # 0 => c.D = inode[i].data_blocks[c.entry]
      BY <2>11 DEF D, entry, off, at
    <3>2. Len(c.data) > 0 /\ length + Len(c.data) <= MaxLength
      BY <2>3, <2>8, <2>11
    <3>3. /\ "BoundaryAppend" \in Env \/ length = 0 \/ c.off > 0
          /\ "ThirdBlock" \in Env \/ c.off + Len(c.data) <= 2 * BLOCK_SIZE
      BY <2>8, <2>9, <2>11
    <3>4. /\ "NulBytes" \in Env \/ \A k \in 1 .. Len(c.data) : c.data[k] # Nul
          /\ "ImageWrite" \in Env \/ Image.inodes[i].length = 0
      BY <2>8, <2>9, <2>11
    <3> QED BY <2>9, <2>11, <3>1, <3>2, <3>3, <3>4 DEF Begun
  <2> QED BY <2>9, <2>13, <2>14
<1> QED BY <1>1, <1>2

LEMMA WriteDataType ==
    ASSUME TypeInv, NEW p \in Proc, NEW fd \in Fd, NEW data \in Seq(Byte),
           call[p].at \notin WriteStates, call[p].names = << >>, WriteData(p, fd, data),
           UNCHANGED <<disk, file_array>>, changes' \in 0 .. MAX_CHANGES
    PROVE  TypeInv'
<1>1. RestOK'
  BY WriteBegins, TypeParts, DropTypes DEF RestOK, disk
<1>2. /\ num_dir_entries <= num_dir_entries'
      /\ \A i \in Inode : inode[i].length <= inode'[i].length
  BY TypeParts, FileTypes, FileSysAssumption DEF RestOK, disk
<1>3. CASE call' = [call EXCEPT ![p] = Back(p)]
  BY <1>1, <1>2, <1>3, WriteBegins, BackOK, OtherStep
<1>4. ASSUME NEW c, call' = [call EXCEPT ![p] = c], CallOK(c),
             Begun(p, c, file_array[p][fd].inode)
      PROVE  TypeInv'
  <2>1. c.cp = call[p].cp /\ c.at \in {"scan", "copy"}
    BY <1>4 DEF Begun
  <2> QED BY <1>1, <1>2, <1>4, <2>1, WriteBegins, OtherStep
<1> QED BY <1>3, <1>4, WriteBegins
LEMMA ReadCallsType ==
    ASSUME TypeInv, NEW p \in Proc,
           CpRead(p) \/ \E fd \in Fd, n \in Count : ReadFile(p, fd, n)
    PROVE  TypeInv'
<1>1. CASE CpRead(p)
  <2>1. call[p].cp[1] \in Fd /\ CP_BUF \in Nat
    BY CallFacts, FileSysAssumption
  <2>2. /\ call[p].at \notin WriteStates /\ call[p].names = << >>
        /\ ReadData(p, call[p].cp[1], CP_BUF) /\ UNCHANGED <<disk, file_array, changes>>
    BY <1>1, CallFacts DEF CpRead, WriteStates, NameStates, CallOK, disk
  <2> QED BY <2>1, <2>2, ReadDataType
<1>2. ASSUME NEW fd \in Fd, NEW n \in Count, ReadFile(p, fd, n) PROVE TypeInv'
  <2>1. n \in Nat
    BY FileSysAssumption
  <2>2. /\ call[p].at \notin WriteStates /\ call[p].names = << >> /\ ReadData(p, fd, n)
        /\ UNCHANGED <<disk, file_array, changes>>
    BY <1>2, CallFacts DEF ReadFile, WriteStates, NameStates, CallOK, disk
  <2> QED BY <2>1, <2>2, ReadDataType
<1> QED BY <1>1, <1>2

\* The two callers of write_data.
WriteCall(p, fd, data) ==
    /\ call[p].at \notin WriteStates /\ call[p].names = << >>
    /\ WriteData(p, fd, data)
    /\ UNCHANGED <<disk, file_array>> /\ changes' \in 0 .. MAX_CHANGES

LEMMA CpWriteCall ==
    ASSUME TypeInv, NEW p \in Proc, CpWrite(p)
    PROVE  \E fd \in Fd, data \in Seq(Byte) : WriteCall(p, fd, data)
<1>1. call[p].cp[2] \in Fd /\ buf[p] \in Seq(Byte)
  BY CallFacts DEF CpWrite, ReadAt
<1>2. call[p].at = "cpwrite" /\ call[p].names = << >>
  BY CallFacts DEF CpWrite, CallOK, NameStates
<1>3. WriteCall(p, call[p].cp[2], buf[p])
  BY <1>2, TypeParts DEF CpWrite, WriteCall, WriteStates, disk, RestOK
<1> QED BY <1>1, <1>3

LEMMA WriteFileCall ==
    ASSUME TypeInv, NEW p \in Proc, NEW fd \in Fd, NEW data \in Data, WriteFile(p, fd, data)
    PROVE  data \in Seq(Byte) /\ WriteCall(p, fd, data)
<1>1. data \in Seq(Byte)
  BY FileSysAssumption
<1>2. call[p].at = "user" /\ call[p].names = << >>
  BY CallFacts DEF WriteFile, CallOK, NameStates
<1>3. changes' \in 0 .. MAX_CHANGES
  BY TypeParts, ChangeType DEF WriteFile
<1> QED BY <1>1, <1>2, <1>3 DEF WriteFile, WriteCall, WriteStates, disk

LEMMA WriteCallType ==
    ASSUME TypeInv, NEW p \in Proc, NEW fd \in Fd, NEW data \in Seq(Byte),
           WriteCall(p, fd, data)
    PROVE  TypeInv'
BY WriteDataType DEF WriteCall

LEMMA ScanType ==
    ASSUME TypeInv, NEW p \in Proc, Scan(p)
    PROVE  TypeInv'
<1>1. UNCHANGED <<disk, file_array, changes>> /\ (buf' = buf \/ Drop(p))
  BY DEF Scan, disk
<1>2. RestOK'
  BY <1>1, TypeParts, DropTypes DEF RestOK, disk
<1>3. /\ num_dir_entries <= num_dir_entries'
      /\ \A i \in Inode : inode[i].length <= inode'[i].length
  BY <1>1, TypeParts, FileTypes, FileSysAssumption DEF RestOK, disk
<1>4. CallOK(call[p]) /\ call \in [Proc -> SystemCall] /\ call[p].at = "scan"
  BY CallFacts DEF Scan
<1>5. CASE \E i \in Offset : Unmarked(i)
  <2> DEFINE c == [call[p] EXCEPT !.at = "mark", !.D = find_empty_block]
  <2>1. find_empty_block \in Block
    BY <1>5, FoundBlock, Constants
  <2>2. CallOK(c) /\ c.cp = call[p].cp /\ c.at = "mark"
    BY <1>4, <2>1 DEF CallOK, SystemCall, WriteStates, NameStates
  <2>3. call' = [call EXCEPT ![p] = c]
    BY <1>4, <1>5 DEF Scan
  <2> HIDE DEF c
  <2> QED BY <1>1, <1>2, <1>3, <2>2, <2>3, OtherStep
<1>6. CASE \A i \in Offset : ~Unmarked(i)
  <2>1. call' = [call EXCEPT ![p] = Back(p)]
    BY <1>6 DEF Scan
  <2> QED BY <1>1, <1>2, <1>3, <2>1, BackOK, OtherStep
<1> QED BY <1>5, <1>6

LEMMA SetMarkType ==
    ASSUME TypeInv, NEW p \in Proc, SetMark(p)
    PROVE  TypeInv'
<1> DEFINE i == call[p].inode
           entry == IF call[p].written = 0 THEN 0 ELSE call[p].entry + 1
           file == [inode[i] EXCEPT !.data_blocks = [@ EXCEPT ![entry] = call[p].D]]
           c == [call[p] EXCEPT !.at = "copy", !.off = 0]
<1>1. /\ RestOK /\ CallOK(call[p]) /\ call \in [Proc -> SystemCall] /\ call[p].at = "mark"
      /\ i \in Inode /\ call[p].D \in Block
  BY TypeParts, CallFacts DEF SetMark
<1>2. file \in InodeBlock /\ file.length = inode[i].length
  BY <1>1 DEF RestOK, InodeBlock
<1>3. /\ inode' = [inode EXCEPT ![i] = file] /\ call' = [call EXCEPT ![p] = c]
      /\ UNCHANGED <<num_dir_entries, dentry, inode_array, file_array, buf, changes>>
  BY <1>1 DEF SetMark, RestOK, InodeBlock
<1> HIDE DEF file
<1>4. /\ inode' \in [Inode -> InodeBlock]
      /\ \A j \in Inode : inode[j].length <= inode'[j].length
  BY <1>1, <1>2, <1>3, FileTypes DEF RestOK
<1>5. data_block' \in [Block -> [Offset -> Byte]]
  <2>1. [data_block[0] EXCEPT ![call[p].D] = Mark] \in [Offset -> Byte]
    BY <1>1, Constants DEF RestOK
  <2>2. data_block' = [data_block EXCEPT ![0] = [@ EXCEPT ![call[p].D] = Mark]]
    BY <1>1 DEF SetMark
  <2> QED BY <1>1, <2>1, <2>2 DEF RestOK
<1>6. RestOK' /\ num_dir_entries <= num_dir_entries'
  BY <1>1, <1>3, <1>4, <1>5, FileSysAssumption DEF RestOK
<1>7. CallOK(c) /\ c.cp = call[p].cp /\ c.at = "copy"
  BY <1>1, Constants DEF CallOK, SystemCall, WriteStates, NameStates
<1> HIDE DEF c
<1> QED BY <1>3, <1>4, <1>6, <1>7, OtherStep
\* A memcpy to one block: how much is left there, how much is copied, and the call
\* behind it.
Left(p) == BLOCK_SIZE - call[p].off
Piece(p) == Smaller(Len(call[p].data), Left(p))
Copied(p, c) ==
    /\ c = [call[p] EXCEPT !.at = c.at, !.data = c.data, !.written = c.written]
    /\ c.at = IF Len(call[p].data) > Left(p) THEN "scan" ELSE "length"
    /\ c.written = call[p].written + Piece(p)
    /\ Len(c.data) = Len(call[p].data) - Piece(p)
    /\ c.data = Suffix(call[p].data, Piece(p))

LEMMA CopyCall ==
    ASSUME TypeInv, NEW p \in Proc, Copy(p)
    PROVE  /\ Left(p) \in Nat /\ Left(p) > 0 /\ Piece(p) \in Nat /\ Piece(p) > 0
           /\ Piece(p) <= Left(p) /\ Piece(p) <= Len(call[p].data)
           /\ \E c : call' = [call EXCEPT ![p] = c] /\ CallOK(c) /\ Copied(p, c)
<1> DEFINE n == Piece(p)
           at == IF Len(call[p].data) > Left(p) THEN "scan" ELSE "length"
           rest == Suffix(call[p].data, n)
           w == call[p].written + n
           c == [call[p] EXCEPT !.at = at, !.data = rest, !.written = w]
<1>1. /\ CallOK(call[p]) /\ call[p] \in SystemCall /\ call[p].at = "copy"
      /\ call[p].off \in Offset /\ call[p].data \in Seq(Byte)
      /\ call[p].written \in 0 .. MaxLength /\ Len(call[p].data) \in Nat
  BY CallFacts DEF Copy
<1>2. Left(p) \in Nat /\ Left(p) > 0
  BY <1>1, Constants DEF Offset, Left
<1>3. call[p].data # << >> /\ Len(call[p].data) > 0
  BY <1>1, EmptySeq DEF CallOK
<1>4. n \in Nat /\ n > 0 /\ n <= Left(p) /\ n <= Len(call[p].data)
  BY <1>1, <1>2, <1>3 DEF Smaller, Piece
<1>5. /\ rest \in Seq(Byte) /\ Len(rest) = Len(call[p].data) - n
      /\ rest # << >> <=> n < Len(call[p].data)
  BY <1>1, <1>4, SuffixType
<1>6. rest # << >> <=> Len(call[p].data) > Left(p)
  BY <1>1, <1>2, <1>5 DEF Smaller, Piece
<1>7. w \in 0 .. MaxLength /\ w + Len(rest) <= MaxLength
  <2>1. call[p].written + Len(call[p].data) <= MaxLength
    BY <1>1 DEF CallOK, WriteStates
  <2>2. /\ call[p].written \in Nat /\ Len(call[p].data) \in Nat
        /\ n \in Nat /\ n <= Len(call[p].data) /\ Len(rest) = Len(call[p].data) - n
    BY <1>1, <1>4, <1>5, LengthNat
  <2> HIDE DEF n, rest
  <2>3. w \in Nat /\ w + Len(rest) = call[p].written + Len(call[p].data) /\ w <= w + Len(rest)
    BY <2>2
  <2> HIDE DEF w
  <2> QED BY <2>1, <2>2, <2>3, LengthNat
<1>8. call' = [call EXCEPT ![p] = c]
  BY DEF Copy, Left, Piece
<1>9. at = (IF Len(call[p].data) > Left(p) THEN "scan" ELSE "length") /\ (at = "scan" <=> rest # << >>)
  BY <1>6
<1> HIDE DEF n, at, rest, w
<1>10. at \in {"scan", "length"}
  BY <1>9
<1>11. c.at = at /\ c.data = rest /\ c.written = w /\ c \in SystemCall /\ c.entry = call[p].entry
       /\ c.names = call[p].names
  BY <1>1, <1>5, <1>7, <1>10 DEF SystemCall
<1>12. CallOK(c)
  BY <1>1, <1>5, <1>7, <1>9, <1>10, <1>11 DEF CallOK, WriteStates, NameStates
<1>13. c = [call[p] EXCEPT !.at = c.at, !.data = c.data, !.written = c.written]
  BY <1>11
<1>14. c.written = call[p].written + Piece(p) /\ Len(c.data) = Len(call[p].data) - Piece(p)
       /\ c.data = Suffix(call[p].data, Piece(p))
  BY <1>5, <1>11 DEF w, n, rest
<1> HIDE DEF c
<1>15. Copied(p, c)
  BY <1>9, <1>11, <1>13, <1>14 DEF Copied
<1> QED BY <1>2, <1>4, <1>8, <1>12, <1>15 DEF n

LEMMA CopyType ==
    ASSUME TypeInv, NEW p \in Proc, Copy(p)
    PROVE  TypeInv'
<1> DEFINE n == Piece(p)
           off == call[p].off
           new == [o \in Offset |-> IF o \in off .. off + n - 1 THEN call[p].data[o - off + 1]
                                    ELSE data_block[call[p].D][o]]
<1>1. /\ RestOK /\ off \in Offset /\ off \in Nat /\ call[p].D \in Block
      /\ call[p].data \in Seq(Byte) /\ call[p] \in SystemCall
  BY TypeParts, CallFacts, Constants
<1>2. n \in Nat /\ n <= Len(call[p].data) /\ Len(call[p].data) \in Nat
  BY CopyCall, CallFacts
<1> HIDE DEF n
<1>3. \A o \in off .. off + n - 1 : call[p].data[o - off + 1] \in Byte
  <2> SUFFICES ASSUME NEW o \in off .. off + n - 1 PROVE o - off + 1 \in 1 .. Len(call[p].data)
    BY <1>1, ElementOfSeq
  <2> QED BY <1>1, <1>2
<1>4. \A o \in Offset : data_block[call[p].D][o] \in Byte
  BY <1>1 DEF RestOK
<1>5. new \in [Offset -> Byte]
  BY <1>3, <1>4
<1>6. data_block' = [data_block EXCEPT ![call[p].D] = new]
  BY <1>1 DEF Copy, RestOK, n, Piece, Left
<1>7. UNCHANGED <<num_dir_entries, dentry, inode_array, inode, file_array, buf, changes>>
  BY DEF Copy
<1> HIDE DEF new
<1>8. RestOK'
  BY <1>1, <1>5, <1>6, <1>7 DEF RestOK
<1>9. /\ num_dir_entries <= num_dir_entries'
      /\ \A i \in Inode : inode[i].length <= inode'[i].length
  BY <1>1, <1>7, FileTypes, FileSysAssumption DEF RestOK
<1>10. PICK c : call' = [call EXCEPT ![p] = c] /\ CallOK(c) /\ Copied(p, c)
  BY CopyCall
<1>11. c.cp = call[p].cp /\ c.at \in {"scan", "length"}
  BY <1>1, <1>10 DEF SystemCall, Copied
<1> QED BY <1>7, <1>8, <1>9, <1>10, <1>11, OtherStep

LEMMA SetLengthType ==
    ASSUME TypeInv, NEW p \in Proc, SetLength(p)
    PROVE  TypeInv'
<1> DEFINE i == call[p].inode
           length == inode[i].length + call[p].written
           file == [inode[i] EXCEPT !.length = length]
<1>1. /\ RestOK /\ call[p].inode \in Inode /\ call[p].written \in Nat
      /\ inode[i].length \in Nat
  <2>1. call[p].inode \in Inode /\ call[p].written \in Nat
    BY CallFacts, Constants
  <2> QED BY <2>1, TypeParts, FileTypes
<1>2. length \in 0 .. MaxLength /\ inode[i].length <= length
  BY <1>1, Constants DEF SetLength
<1>3. file \in InodeBlock /\ file.length = length
  BY <1>1, <1>2 DEF RestOK, InodeBlock
<1>4. /\ inode' = [inode EXCEPT ![i] = file] /\ call' = [call EXCEPT ![p] = Back(p)] /\ Drop(p)
      /\ UNCHANGED <<num_dir_entries, dentry, inode_array, data_block, file_array, changes>>
  BY <1>1 DEF SetLength, RestOK, InodeBlock
<1> HIDE DEF file, length
<1>5. inode' \in [Inode -> InodeBlock]
  BY <1>1, <1>3, <1>4 DEF RestOK
<1>6. \A j \in Inode : inode[j].length <= inode'[j].length
  BY <1>1, <1>2, <1>3, <1>4, FileTypes DEF RestOK
<1>7. RestOK'
  BY <1>1, <1>4, <1>5, DropTypes DEF RestOK
<1>8. num_dir_entries <= num_dir_entries'
  BY <1>1, <1>4, FileSysAssumption DEF RestOK
<1> QED BY <1>4, <1>6, <1>7, <1>8, BackOK, OtherStep

LEMMA TypeInit == Init => TypeInv
<1> SUFFICES ASSUME Init PROVE TypeInv
  OBVIOUS
<1>1. file_array \in [Proc -> [Fd -> Descriptor]]
  <2>1. Std \in Descriptor /\ Closed \in Descriptor
    BY Constants DEF Descriptor, Std, Closed
  <2> QED BY <2>1 DEF Init
<1>2. User \in SystemCall /\ User.at = "user" /\ User.names = << >> /\ User.data = << >>
  BY UserOK DEF User, CallOK
<1>3. \A p \in Proc : call[p] = User /\ CallOK(call[p]) /\ ReadAt(p)
  BY <1>2, UserOK DEF Init, ReadAt
<1>4. buf \in [Proc -> Seq(Byte \cup Name)]
  BY EmptySeq DEF Init
<1>5. call \in [Proc -> SystemCall]
  BY <1>2 DEF Init
<1>6. RestOK
  BY <1>1, <1>4, FileSysAssumption DEF Init, RestOK
<1> QED BY <1>1, <1>2, <1>3, <1>5, <1>6 DEF TypeInv, TypeOK, RestOK, Opening, Removing

LEMMA TypeStep == TypeInv /\ [Next]_vars => TypeInv'
<1> SUFFICES ASSUME TypeInv, [Next]_vars PROVE TypeInv'
  OBVIOUS
<1>1. ASSUME NEW p \in Proc, Step(p) PROVE TypeInv'
  BY <1>1, SearchType, OpenEntryType, ShiftType, ReadEndType, ScanType, SetMarkType, CopyType,
     SetLengthType, CreateEndType, ReadCallsType, CpWriteCall, WriteCallType DEF Step
<1>2. ASSUME NEW p \in Proc,
             \/ Halt(p)
             \/ \E name \in Name : Open(p, name)
             \/ \E name \in FileName : Rm(p, name)
             \/ \E src, dst \in FileName : Cp(p, src, dst)
      PROVE  TypeInv'
  BY <1>2, HaltType, LookType
<1>3. ASSUME NEW p \in Proc, NEW fd \in Fd,
             \/ Close(p, fd) \/ ReadDir(p, fd)
             \/ \E n \in Count : ReadFile(p, fd, n)
             \/ \E data \in Data : WriteFile(p, fd, data)
             \/ \E name \in NewName : Create(p, fd, name)
      PROVE  TypeInv'
  BY <1>3, CloseType, ReadDirType, ReadCallsType, WriteFileCall, WriteCallType, CreateType
<1>4. CASE UNCHANGED vars
  BY <1>4 DEF vars, TypeInv, TypeOK, Opening, Removing, CallOK, ReadAt
<1> QED BY <1>1, <1>2, <1>3, <1>4 DEF Next

LEMMA TypeInvariant == Spec => []TypeInv
BY TypeInit, TypeStep, PTL DEF Spec

\* Every variable keeps its type, whatever processes do between the steps of
\* write_data (filesys.c:277-343): reads stay within their files and writes within the
\* largest one, and what is searched for is found in range.
THEOREM FileSysTypeCorrect == Spec => []TypeOK
<1>1. TypeInv => TypeOK
  BY DEF TypeInv
<1> QED BY <1>1, TypeInvariant, PTL

-----------------------------------------------------------------------------
(* No two files share a block *)

\* Two processes do not write to one file or look for a block at one time, no write
\* begins at the end of a block, none needs a third one, and none contains zeros.
Quiet == Env \cap {"SameFile", "AllocRace", "BoundaryAppend", "ThirdBlock", "NulBytes"} = {}

LEMMA HeldType ==
    ASSUME TypeInv, NEW u \in HeldEntries
    PROVE  u[1] \in Inode /\ u[2] \in 0 .. INODE_BLOCKS - 1 /\ u[2] \in Nat /\ BlockOf(u) \in Block
<1>1. u[1] \in Inode /\ u[2] \in 0 .. INODE_BLOCKS - 1
  BY DEF HeldEntries
<1>2. BlockOf(u) \in Block
  BY <1>1, TypeParts, FileTypes DEF BlockOf
<1>3. u[2] \in Nat
  BY <1>1, Constants
<1> QED BY <1>1, <1>2, <1>3

\* A write that goes on: its numbers.
LEMMA WriteNumbers ==
    ASSUME TypeInv, NEW p \in Proc
    PROVE  /\ Reach(p) \in Nat /\ Cur(p) \in Nat /\ Linked(p) \in Nat
           /\ call[p].inode \in Inode /\ call[p].written \in Nat /\ Len(call[p].data) \in Nat
           /\ call[p].off \in Nat /\ call[p].off < BLOCK_SIZE
           /\ Cur(p) * BLOCK_SIZE \in Nat
<1>1. /\ call[p].inode \in Inode /\ call[p].written \in Nat /\ Len(call[p].data) \in Nat
      /\ call[p].entry \in Nat
  BY CallFacts, Constants
<1>2. inode[call[p].inode].length \in Nat
  BY <1>1, TypeParts, FileTypes
<1>3. call[p].off \in Nat /\ call[p].off < BLOCK_SIZE
  BY CallFacts, Constants DEF Offset
<1>4. Cur(p) \in Nat
  BY <1>1 DEF Cur
<1>5. Cur(p) * BLOCK_SIZE \in Nat
  BY <1>4, Product
<1>6. Reach(p) \in Nat /\ Linked(p) \in Nat
  BY <1>1, <1>2 DEF Reach, Linked
<1> QED BY <1>1, <1>3, <1>4, <1>5, <1>6

\* The entries of a file that are in use are those by its length.
LEMMA UsedHeld == FilledEntries \subseteq HeldEntries
BY DEF FilledEntries, UsedEntries, HeldEntries, Held, Fresh

\* Another process's write, when its file is left alone.
LEMMA OtherWrite ==
    ASSUME NEW q \in Proc, call'[q] = call[q],
           Writing(q) => inode'[call[q].inode] = inode[call[q].inode]
    PROVE  /\ WriteAt(q) => WriteAt(q)'
           /\ Writing(q)' <=> Writing(q)
           /\ Writing(q) => Linked(q)' = Linked(q)
BY DEF WriteAt, Writing, Linked, Reach, Cur

\* Which entries are in use after a step of p.
LEMMA HeldBehind ==
    ASSUME NEW p \in Proc,
           \A q \in Proc \ {p} : /\ call'[q] = call[q]
                                 /\ Writing(q) => inode'[call[q].inode] = inode[call[q].inode],
           NEW u \in HeldEntries'
    PROVE  \/ u \in HeldEntries
           \/ u[2] * BLOCK_SIZE < inode'[u[1]].length
           \/ Writing(p)' /\ call'[p].inode = u[1] /\ u[2] * BLOCK_SIZE < Linked(p)'
<1>1. u \in Inode \X (0 .. INODE_BLOCKS - 1) /\ Held(u[1], u[2])' /\ Fresh(u[1], u[2])
  BY DEF HeldEntries, Fresh
<1>2. CASE u[2] * BLOCK_SIZE < inode'[u[1]].length
  BY <1>2
<1>3. ASSUME NEW q \in Proc, Writing(q)', call'[q].inode = u[1], u[2] * BLOCK_SIZE < Linked(q)'
      PROVE  \/ u \in HeldEntries
             \/ Writing(p)' /\ call'[p].inode = u[1] /\ u[2] * BLOCK_SIZE < Linked(p)'
  <2>1. CASE q = p
    BY <1>3, <2>1
  <2>2. CASE q # p
    <3>1. Writing(q) /\ call[q].inode = u[1] /\ u[2] * BLOCK_SIZE < Linked(q)
      BY <1>3, <2>2, OtherWrite
    <3> QED BY <1>1, <3>1 DEF HeldEntries, Held
  <2> QED BY <2>1, <2>2
<1> QED BY <1>1, <1>2, <1>3 DEF Held

\* Nothing more is in use, and the marks stay.
LEMMA BlocksStay ==
    ASSUME BlocksOK, HeldEntries' \subseteq HeldEntries,
           \A u \in HeldEntries : BlockOf(u)' = BlockOf(u),
           \A x : Marked(x) => Marked(x)',
           \A p \in Proc : call'[p].at = "mark" =>
               call'[p].D \in Offset /\ data_block'[0][call'[p].D] = Nul
    PROVE  BlocksOK'
<1>1. \A u, v \in HeldEntries' : u # v => BlockOf(u)' # BlockOf(v)'
  BY DEF BlocksOK
<1>2. ASSUME NEW u \in HeldEntries' PROVE Marked(BlockOf(u))'
  <2>1. PICK b : b = BlockOf(u) /\ b = BlockOf(u)'
    BY <1>2
  <2>2. Marked(b)'
    BY <1>2, <2>1 DEF BlocksOK
  <2> QED BY <2>1, <2>2 DEF Marked
<1> QED BY <1>1, <1>2 DEF BlocksOK, Unmarked

LEMMA BlocksKept ==
    ASSUME BlocksOK, HeldEntries' \subseteq HeldEntries,
           \A u \in HeldEntries : BlockOf(u)' = BlockOf(u),
           data_block'[0] = data_block[0],
           \A p \in Proc : call'[p].at = "mark" =>
               call'[p].D \in Offset /\ Unmarked(call'[p].D)
    PROVE  BlocksOK'
<1>1. \A x : Marked(x) => Marked(x)'
  BY DEF Marked
<1>2. \A p \in Proc : call'[p].at = "mark" =>
         call'[p].D \in Offset /\ data_block'[0][call'[p].D] = Nul
  BY DEF Unmarked
<1> QED BY <1>1, <1>2, BlocksStay

\* A process is not in a write behind a step that changes no file and no block.
LEMMA LeavesOK ==
    ASSUME ShareInv, TypeInv', NEW p \in Proc, UNCHANGED <<inode, data_block>>,
           \A q \in Proc \ {p} : call'[q] = call[q],
           call'[p].at \notin WriteStates
    PROVE  ShareInv'
<1>1. ~Writing(p)' /\ call'[p].at # "mark"
  BY DEF Writing, WriteStates
<1>2. \A q \in Proc \ {p} : /\ WriteAt(q)' /\ (Writing(q)' <=> Writing(q))
                            /\ call'[q] = call[q] /\ inode'[call[q].inode] = inode[call[q].inode]
  BY OtherWrite DEF ShareInv
<1>3. WriteAt(p)'
  BY <1>1 DEF WriteAt
<1>4. Apart'
  BY <1>1, <1>2 DEF ShareInv, Apart
<1>5. HeldEntries' \subseteq HeldEntries
  BY <1>1, <1>2, HeldBehind DEF HeldEntries, Held, Fresh
<1>6. BlocksOK'
  BY <1>1, <1>2, <1>5, BlocksKept DEF ShareInv, BlocksOK, BlockOf
<1> QED BY <1>2, <1>3, <1>4, <1>6 DEF ShareInv
\* write_data begins.
LEMMA BeginShare ==
    ASSUME Quiet, ShareInv, TypeInv', NEW p \in Proc, NEW i \in Inode, NEW c, CallOK(c),
           UNCHANGED <<inode, data_block>>, call[p].at \notin WriteStates,
           call' = [call EXCEPT ![p] = c], Begun(p, c, i)
    PROVE  ShareInv'
<1> DEFINE length == inode[i].length
<1>1. TypeInv /\ BlocksOK /\ Apart /\ \A q \in Proc : WriteAt(q)
  BY DEF ShareInv
<1>2. length \in Nat /\ Len(c.data) \in Nat /\ c.entry < INODE_BLOCKS
  <2>1. c.data \in Seq(Byte)
    BY DEF CallOK, SystemCall
  <2>2. c.at \in WriteStates
    BY DEF Begun, WriteStates
  <2> QED BY <1>1, <2>1, <2>2, TypeParts, FileTypes, LenProperties DEF CallOK
<1>3. call'[p] = c /\ \A q \in Proc \ {p} : call'[q] = call[q]
  BY <1>1, CallFacts
<1>4. /\ c.at = (IF length = 0 THEN "scan" ELSE "copy") /\ c.inode = i /\ c.written = 0
      /\ c.entry = length \div BLOCK_SIZE /\ c.off = length % BLOCK_SIZE
      /\ length # 0 => c.D = inode[i].data_blocks[c.entry]
      /\ Len(c.data) > 0 /\ length + Len(c.data) <= MaxLength
      /\ \A q \in Proc : Writing(q) => call[q].inode # i
      /\ length = 0 \/ c.off > 0
      /\ c.off + Len(c.data) <= 2 * BLOCK_SIZE
      /\ \A k \in 1 .. Len(c.data) : c.data[k] # Nul
  BY DEF Begun, Quiet
<1>5. /\ c.entry \in Nat /\ c.off \in Nat /\ c.off < BLOCK_SIZE
      /\ length = c.entry * BLOCK_SIZE + c.off /\ c.entry * BLOCK_SIZE \in Nat
  <2> HIDE DEF length
  <2>1. c.entry = length \div BLOCK_SIZE /\ c.off = length % BLOCK_SIZE
    BY <1>4
  <2>2. c.off \in Offset
    BY <1>2, <2>1, Division
  <2>3. c.off < BLOCK_SIZE
    BY <2>2, Constants DEF Offset
  <2> QED BY <1>2, <2>1, <2>3, Division
<1>6. length = 0 => c.entry = 0 /\ c.entry * BLOCK_SIZE = 0
  <2>1. 0 < c.entry => 0 * BLOCK_SIZE + BLOCK_SIZE <= c.entry * BLOCK_SIZE
    BY <1>5, BlockOrder
  <2> QED BY <1>5, <2>1, Constants
<1>7. /\ Reach(p)' = length /\ Cur(p)' = c.entry
      /\ Linked(p)' = IF length = 0 THEN length ELSE length + 1
  BY <1>2, <1>3, <1>4 DEF Reach, Cur, Linked
<1>8. WriteAt(p)'
  <2>1. CASE length = 0
    <3>1. c.at = "scan" /\ Cur(p)' * BLOCK_SIZE = Reach(p)' /\ c.entry = 0
      BY <1>4, <1>6, <1>7, <2>1
    <3>2. Reach(p)' + Len(c.data) <= MaxLength
      BY <1>4, <1>7
    <3>3. c.off + Len(c.data) <= 2 * BLOCK_SIZE /\ 2 * BLOCK_SIZE \in Nat
      BY <1>4, Constants
    <3>4. Len(c.data) <= 2 * BLOCK_SIZE
      BY <1>2, <1>5, <3>3
    <3> QED BY <1>3, <1>4, <3>1, <3>2, <3>4 DEF WriteAt
  <2>2. CASE length # 0
    BY <1>2, <1>3, <1>4, <1>5, <1>7, <2>2, Constants DEF WriteAt
  <2> QED BY <2>1, <2>2
<1>9. \A q \in Proc \ {p} : /\ WriteAt(q)' /\ (Writing(q)' <=> Writing(q))
                            /\ call'[q] = call[q] /\ inode'[call[q].inode] = inode[call[q].inode]
  BY <1>1, <1>3, OtherWrite
<1>10. Apart'
  BY <1>1, <1>3, <1>4, <1>9 DEF Apart, Writing
<1>11. HeldEntries' \subseteq HeldEntries
  <2> SUFFICES ASSUME NEW u \in HeldEntries' PROVE u \in HeldEntries
    OBVIOUS
  <2>1. /\ u \in Inode \X (0 .. INODE_BLOCKS - 1) /\ u[2] \in Nat /\ u[2] * BLOCK_SIZE \in Nat
        /\ Fresh(u[1], u[2])
    BY Constants, Product DEF HeldEntries, Fresh
  <2>2. CASE u[2] * BLOCK_SIZE < inode[u[1]].length
    BY <2>1, <2>2 DEF HeldEntries, Held
  <2>3. CASE i = u[1] /\ u[2] * BLOCK_SIZE < Linked(p)'
    <3>1. c.entry < u[2] => c.entry * BLOCK_SIZE + BLOCK_SIZE <= u[2] * BLOCK_SIZE
      BY <1>5, <2>1, BlockOrder
    <3>2. u[2] < c.entry => u[2] * BLOCK_SIZE + BLOCK_SIZE <= c.entry * BLOCK_SIZE
      BY <1>5, <2>1, BlockOrder
    <3>3. length # 0 /\ u[2] * BLOCK_SIZE <= length /\ c.off > 0
      BY <1>2, <1>4, <1>7, <2>1, <2>3
    <3>4. u[2] * BLOCK_SIZE # length
      <4> DEFINE m == u[2] * BLOCK_SIZE
                 k == c.entry * BLOCK_SIZE
      <4>1. c.entry < u[2] \/ u[2] < c.entry \/ m = k
        BY <1>5, <2>1
      <4>2. m \in Nat /\ k \in Nat /\ BLOCK_SIZE \in Nat /\ length = k + c.off
        BY <1>5, <2>1, Constants
      <4>3. (c.entry < u[2] => k + BLOCK_SIZE <= m) /\ (u[2] < c.entry => m + BLOCK_SIZE <= k)
        BY <3>1, <3>2
      <4> HIDE DEF m, k
      <4>4. m # length
        BY <1>2, <1>5, <3>3, <4>1, <4>2, <4>3
      <4> QED BY <4>4 DEF m
    <3> QED BY <1>2, <2>1, <2>2, <2>3, <3>3, <3>4
  <2> QED BY <1>3, <1>4, <1>9, <2>2, <2>3, HeldBehind
<1>12. BlocksOK'
  <2>1. \A q \in Proc : call'[q].at = "mark" => call'[q].D \in Offset /\ Unmarked(call'[q].D)
    BY <1>1, <1>3, <1>4 DEF BlocksOK
  <2>2. \A u \in HeldEntries : BlockOf(u)' = BlockOf(u)
    BY DEF BlockOf
  <2> QED BY <1>1, <1>11, <2>1, <2>2, BlocksKept
<1> QED BY <1>8, <1>9, <1>10, <1>12 DEF ShareInv

\* find_empty_block finds a block, and nobody else is about to mark one.
LEMMA ScanShare ==
    ASSUME Quiet, ShareInv, TypeInv', NEW p \in Proc, Scan(p), \E i \in Offset : Unmarked(i)
    PROVE  ShareInv'
<1> DEFINE c == [call[p] EXCEPT !.at = "mark", !.D = find_empty_block]
<1>1. /\ TypeInv /\ BlocksOK /\ Apart /\ (\A q \in Proc : WriteAt(q))
      /\ call[p] \in SystemCall /\ call[p].at = "scan"
  BY CallFacts DEF ShareInv, Scan
<1>2. /\ call' = [call EXCEPT ![p] = c] /\ UNCHANGED <<inode, data_block>>
      /\ \A q \in Proc : call[q].at # "mark"
  BY <1>1 DEF Scan, Quiet
<1>3. /\ c.at = "mark" /\ c.D = find_empty_block /\ c.inode = call[p].inode
      /\ c.written = call[p].written /\ c.entry = call[p].entry /\ c.data = call[p].data
  BY <1>1 DEF SystemCall
<1>4. call'[p] = c /\ \A q \in Proc \ {p} : call'[q] = call[q]
  BY <1>1, <1>2, CallFacts
<1> HIDE DEF c
<1>5. Reach(p)' = Reach(p) /\ Cur(p)' = Cur(p) /\ Linked(p)' = Linked(p)
  BY <1>1, <1>2, <1>3, <1>4 DEF Reach, Cur, Linked
<1>6. WriteAt(p)' /\ Writing(p) /\ Writing(p)'
  BY <1>1, <1>3, <1>4, <1>5 DEF WriteAt, Writing
<1>7. \A q \in Proc \ {p} : /\ WriteAt(q)' /\ (Writing(q)' <=> Writing(q))
                            /\ call'[q] = call[q] /\ inode'[call[q].inode] = inode[call[q].inode]
  BY <1>1, <1>2, <1>4, OtherWrite
<1>8. Apart'
  BY <1>1, <1>2, <1>3, <1>4, <1>6, <1>7 DEF Apart
<1>9. HeldEntries' \subseteq HeldEntries
  BY <1>2, <1>3, <1>4, <1>5, <1>6, <1>7, HeldBehind DEF HeldEntries, Held, Fresh
<1>10. BlocksOK'
  <2>1. find_empty_block \in Offset /\ Unmarked(find_empty_block)
    BY FoundBlock
  <2>2. \A q \in Proc : call'[q].at = "mark" => call'[q].D \in Offset /\ Unmarked(call'[q].D)
    BY <1>2, <1>3, <1>4, <2>1
  <2>3. \A u \in HeldEntries : BlockOf(u)' = BlockOf(u)
    BY <1>2 DEF BlockOf
  <2> QED BY <1>1, <1>2, <1>9, <2>2, <2>3, BlocksKept
<1> QED BY <1>6, <1>7, <1>8, <1>10 DEF ShareInv
\* One more entry is in use, with a block that had no mark and now has one.
LEMMA BlockTaken ==
    ASSUME BlocksOK, NEW e, NEW b, b \in Offset, Unmarked(b),
           \A u \in HeldEntries' : u \in HeldEntries \/ u = e,
           \A u \in HeldEntries' : IF u = e THEN BlockOf(u)' = b ELSE BlockOf(u)' = BlockOf(u),
           \A x : Marked(x) \/ x = b => Marked(x)',
           \A q \in Proc : call'[q].at # "mark"
    PROVE  BlocksOK'
<1>1. \A u \in HeldEntries : Marked(BlockOf(u)) /\ BlockOf(u) # b
  BY DEF BlocksOK, Marked, Unmarked
<1>2. ASSUME NEW u \in HeldEntries', NEW v \in HeldEntries', u # v
      PROVE  BlockOf(u)' # BlockOf(v)'
  <2>1. CASE u = e
    BY <1>1, <1>2, <2>1
  <2>2. CASE v = e
    BY <1>1, <1>2, <2>2
  <2>3. CASE u # e /\ v # e
    <3>1. BlockOf(u) # BlockOf(v)
      BY <1>2, <2>3 DEF BlocksOK
    <3> QED BY <2>3, <3>1
  <2> QED BY <2>1, <2>2, <2>3
<1>3. ASSUME NEW u \in HeldEntries' PROVE Marked(BlockOf(u))'
  <2>1. PICK x : x = BlockOf(u)'
    OBVIOUS
  <2>2. Marked(x) \/ x = b
    BY <1>1, <1>3, <2>1
  <2>3. Marked(x)'
    BY <2>2
  <2> QED BY <2>1, <2>3 DEF Marked
<1> QED BY <1>2, <1>3 DEF BlocksOK

\* The block is marked and linked.
LEMMA SetMarkShare ==
    ASSUME ShareInv, TypeInv', NEW p \in Proc, SetMark(p)
    PROVE  ShareInv'
<1> DEFINE i == call[p].inode
           D == call[p].D
           c == [call[p] EXCEPT !.at = "copy", !.off = 0]
           new == <<i, Cur(p)>>
<1>1. /\ TypeInv /\ BlocksOK /\ Apart /\ (\A q \in Proc : WriteAt(q))
      /\ call[p] \in SystemCall /\ call[p].at = "mark" /\ i \in Inode
      /\ D \in Offset /\ data_block[0][D] = Nul
  BY CallFacts, Constants DEF ShareInv, SetMark, BlocksOK, Unmarked, Marked
<1>2. /\ Reach(p) \in Nat /\ Cur(p) \in Nat /\ Len(call[p].data) \in Nat
      /\ Cur(p) * BLOCK_SIZE \in Nat
  BY <1>1, WriteNumbers
<1>3. /\ Writing(p) /\ Reach(p) + Len(call[p].data) <= MaxLength
      /\ Cur(p) * BLOCK_SIZE = Reach(p)
      /\ Cur(p) = IF call[p].written = 0 THEN 0 ELSE call[p].entry + 1
      /\ Len(call[p].data) <= (IF call[p].written = 0 THEN 2 ELSE 1) * BLOCK_SIZE
  BY <1>1 DEF WriteAt, Writing, Cur
<1>4. Len(call[p].data) > 0
  BY <1>1, <1>2, CallFacts, EmptySeq DEF CallOK
<1>5. Cur(p) \in 0 .. INODE_BLOCKS - 1 /\ Cur(p) < INODE_BLOCKS
  <2>1. Cur(p) * BLOCK_SIZE < MaxLength /\ Reach(p) < MaxLength
    BY <1>2, <1>3, <1>4, Constants
  <2>2. Cur(p) < INODE_BLOCKS
    BY <1>2, <1>3, <2>1, EntryWithin
  <2> QED BY <1>2, <2>2, Constants
<1>6. /\ inode' = [inode EXCEPT ![i].data_blocks[Cur(p)] = D]
      /\ call' = [call EXCEPT ![p] = c]
      /\ data_block' = [data_block EXCEPT ![0][D] = Mark]
  BY <1>1, <1>3 DEF SetMark
<1>7. /\ c.at = "copy" /\ c.off = 0 /\ c.inode = i /\ c.written = call[p].written
      /\ c.entry = call[p].entry /\ c.data = call[p].data /\ c.D = D
  BY <1>1 DEF SystemCall
<1>8. call'[p] = c /\ \A q \in Proc \ {p} : call'[q] = call[q]
  BY <1>1, <1>6, CallFacts
<1>9. /\ \A j \in Inode : inode'[j].length = inode[j].length
      /\ \A j \in Inode \ {i} : inode'[j] = inode[j]
      /\ \A k \in 0 .. INODE_BLOCKS - 1 : inode'[i].data_blocks[k] =
             IF k = Cur(p) THEN D ELSE inode[i].data_blocks[k]
  <2>1. inode \in [Inode -> InodeBlock]
    BY <1>1, TypeParts DEF RestOK
  <2> QED BY <1>1, <1>5, <1>6, <2>1 DEF InodeBlock
<1>10. /\ data_block'[0] = [data_block[0] EXCEPT ![D] = Mark]
       /\ data_block[0] \in [Offset -> Byte]
  BY <1>1, <1>6, TypeParts, Constants DEF RestOK
<1> HIDE DEF c
<1>11. Reach(p)' = Reach(p) /\ Cur(p)' = Cur(p) /\ Linked(p)' = Reach(p) + 1
  BY <1>1, <1>7, <1>8, <1>9 DEF Reach, Cur, Linked
<1>12. WriteAt(p)'
  <2>1. /\ Cur(p)' * BLOCK_SIZE + c.off = Reach(p)'
        /\ c.off + Len(c.data) <= (IF c.written = 0 THEN 2 ELSE 1) * BLOCK_SIZE
    BY <1>2, <1>3, <1>7, <1>11
  <2>2. c.D = inode'[c.inode].data_blocks[Cur(p)']
    BY <1>5, <1>7, <1>9, <1>11
  <2>3. Reach(p)' + Len(c.data) <= MaxLength /\ Cur(p)' < INODE_BLOCKS
    BY <1>3, <1>5, <1>7, <1>11
  <2>4. \A k \in 1 .. Len(c.data) : c.data[k] # Nul
    BY <1>1, <1>3, <1>7 DEF WriteAt
  <2> QED BY <1>7, <1>8, <2>1, <2>2, <2>3, <2>4 DEF WriteAt
<1>13. \A q \in Proc \ {p} : Writing(q) => call[q].inode \in Inode \ {i}
  BY <1>1, <1>3, CallFacts DEF Apart
<1>14. \A q \in Proc \ {p} : /\ WriteAt(q)' /\ (Writing(q)' <=> Writing(q))
                             /\ call'[q] = call[q] /\ call[q].at # "mark"
                             /\ Writing(q) => inode'[call[q].inode] = inode[call[q].inode]
  BY <1>1, <1>8, <1>9, <1>13, OtherWrite DEF Apart
<1>15. Apart'
  BY <1>7, <1>8, <1>13, <1>14, <1>1 DEF Apart
<1>16. \A u \in HeldEntries' : u \in HeldEntries \/ u = new
  <2> SUFFICES ASSUME NEW u \in HeldEntries' PROVE u \in HeldEntries \/ u = new
    OBVIOUS
  <2>1. /\ u \in Inode \X (0 .. INODE_BLOCKS - 1) /\ u[2] \in Nat /\ u[2] * BLOCK_SIZE \in Nat
        /\ Fresh(u[1], u[2])
    BY Constants, Product DEF HeldEntries, Fresh
  <2>2. CASE u[2] * BLOCK_SIZE < inode'[u[1]].length
    BY <1>9, <2>1, <2>2 DEF HeldEntries, Held
  <2>3. CASE i = u[1] /\ u[2] * BLOCK_SIZE < Linked(p)'
    <3>1. Cur(p) < u[2] => Cur(p) * BLOCK_SIZE + BLOCK_SIZE <= u[2] * BLOCK_SIZE
      BY <1>2, <2>1, BlockOrder
    <3>2. CASE u[2] < Cur(p)
      <4>1. u[2] * BLOCK_SIZE + BLOCK_SIZE <= Cur(p) * BLOCK_SIZE
        BY <1>2, <2>1, <3>2, BlockOrder
      <4>2. u[2] * BLOCK_SIZE < Reach(p) /\ Linked(p) = Reach(p)
        BY <1>1, <1>2, <1>3, <2>1, <4>1, Constants DEF Linked
      <4> QED BY <1>3, <2>1, <2>3, <4>2 DEF HeldEntries, Held
    <3>3. ~(Cur(p) < u[2])
      BY <1>2, <1>3, <1>11, <2>1, <2>3, <3>1, Constants
    <3>4. CASE u[2] = Cur(p)
      BY <2>1, <2>3, <3>4
    <3> QED BY <1>2, <2>1, <3>2, <3>3, <3>4
  <2> QED BY <1>7, <1>8, <1>14, <2>2, <2>3, HeldBehind
<1>17. PICK e : e = new
  OBVIOUS
<1>18. PICK b : b = D
  OBVIOUS
<1>19. ASSUME NEW u \in HeldEntries'
       PROVE  IF u = e THEN BlockOf(u)' = b ELSE BlockOf(u)' = BlockOf(u)
  <2>1. u \in Inode \X (0 .. INODE_BLOCKS - 1)
    BY DEF HeldEntries
  <2>2. BlockOf(u)' = inode'[u[1]].data_blocks[u[2]]
    BY DEF BlockOf
  <2>3. u = e <=> u[1] = i /\ u[2] = Cur(p)
    BY <1>17, <2>1
  <2> QED BY <1>9, <1>18, <2>1, <2>2, <2>3 DEF BlockOf
<1>20. \A x : Marked(x) \/ x = b => Marked(x)'
  BY <1>1, <1>10, <1>18, Constants DEF Marked
<1>21. BlocksOK'
  <2>1. \A q \in Proc : call'[q].at # "mark"
    BY <1>7, <1>8, <1>14
  <2>2. b \in Offset /\ Unmarked(b) /\ \A u \in HeldEntries' : u \in HeldEntries \/ u = e
    BY <1>1, <1>16, <1>17, <1>18 DEF Unmarked
  <2> QED BY <1>1, <1>19, <1>20, <2>1, <2>2, BlockTaken
<1> QED BY <1>12, <1>14, <1>15, <1>21 DEF ShareInv

\* The bytes of a block are written. The block that comes next is the one behind it.
LEMMA CopyShare ==
    ASSUME Quiet, ShareInv, TypeInv', NEW p \in Proc, Copy(p)
    PROVE  ShareInv'
<1> DEFINE i == call[p].inode
           D == call[p].D
           off == call[p].off
           len == Len(call[p].data)
<1>1. /\ TypeInv /\ BlocksOK /\ Apart /\ (\A q \in Proc : WriteAt(q))
      /\ call[p] \in SystemCall /\ call[p].at = "copy" /\ Writing(p)
  BY CallFacts DEF ShareInv, Copy, Writing
<1>2. /\ Reach(p) \in Nat /\ Cur(p) \in Nat /\ len \in Nat /\ Cur(p) * BLOCK_SIZE \in Nat
      /\ off \in Nat /\ off < BLOCK_SIZE /\ call[p].written \in Nat /\ i \in Inode
      /\ BLOCK_SIZE \in Nat
  BY <1>1, WriteNumbers, Constants
<1>3. /\ Reach(p) + len <= MaxLength
      /\ Cur(p) * BLOCK_SIZE + off = Reach(p)
      /\ Cur(p) < INODE_BLOCKS
      /\ D = inode[i].data_blocks[Cur(p)]
      /\ off + len <= 2 * BLOCK_SIZE /\ (call[p].written # 0 => off + len <= BLOCK_SIZE)
  <2>1. /\ Reach(p) + len <= MaxLength /\ Cur(p) * BLOCK_SIZE + off = Reach(p)
        /\ off + len <= (IF call[p].written = 0 THEN 2 ELSE 1) * BLOCK_SIZE
        /\ Cur(p) < INODE_BLOCKS /\ D = inode[i].data_blocks[Cur(p)]
    BY <1>1 DEF WriteAt
  <2>2. off + len \in Nat /\ BLOCK_SIZE \in Nat
    BY <1>2
  <2>3. off + len <= 2 * BLOCK_SIZE /\ (call[p].written # 0 => off + len <= BLOCK_SIZE)
    BY <2>1, <2>2
  <2> QED BY <2>1, <2>3
<1>4. Linked(p) = Reach(p) + 1
  BY <1>1 DEF Linked
<1>5. /\ Left(p) = BLOCK_SIZE - off /\ Left(p) \in Nat /\ Piece(p) \in Nat /\ Piece(p) > 0
      /\ Piece(p) = IF len < Left(p) THEN len ELSE Left(p)
  BY <1>1, CopyCall DEF Left, Piece, Smaller
<1>6. PICK c : call' = [call EXCEPT ![p] = c] /\ CallOK(c) /\ Copied(p, c)
  BY <1>1, CopyCall
<1>7. /\ c.at = IF len > Left(p) THEN "scan" ELSE "length"
      /\ c.inode = i /\ c.entry = call[p].entry
      /\ c.written = call[p].written + Piece(p) /\ Len(c.data) = len - Piece(p)
      /\ c.data = Suffix(call[p].data, Piece(p))
  BY <1>1, <1>6 DEF Copied, SystemCall
<1>8. call'[p] = c /\ \A q \in Proc \ {p} : call'[q] = call[q]
  BY <1>1, <1>6, CallFacts
<1>9. UNCHANGED inode
  BY DEF Copy
<1>10. Reach(p)' = Reach(p) + Piece(p)
  <2>1. inode[i].length \in Nat
    BY <1>1, <1>2, TypeParts, FileTypes
  <2>2. Reach(p)' = inode[i].length + c.written /\ Reach(p) = inode[i].length + call[p].written
    BY <1>7, <1>8, <1>9 DEF Reach
  <2>3. call[p].written \in Nat /\ Piece(p) \in Nat /\ c.written = call[p].written + Piece(p)
    BY <1>2, <1>5, <1>7
  <2> HIDE DEF i
  <2> QED BY <2>1, <2>2, <2>3
<1>11. Cur(p)' = call[p].entry + 1 /\ Linked(p)' = Reach(p)'
  <2>1. c.written # 0
    <3>1. /\ call[p].written \in Nat /\ Piece(p) \in Nat /\ Piece(p) > 0
          /\ c.written = call[p].written + Piece(p)
      BY <1>2, <1>5, <1>7
    <3> QED BY <3>1
  <2>2. c.at # "copy"
    BY <1>7
  <2> QED BY <1>7, <1>8, <2>1, <2>2 DEF Cur, Linked, Reach
<1>12. len > Left(p) => call[p].written = 0
  <2> HIDE DEF len, off
  <2> QED BY <1>2, <1>3, <1>5
<1>13. len > Left(p) => Cur(p)' = Cur(p) + 1 /\ Cur(p)' * BLOCK_SIZE = Reach(p)'
  <2> SUFFICES ASSUME len > Left(p)
               PROVE  Cur(p)' = Cur(p) + 1 /\ Cur(p)' * BLOCK_SIZE = Reach(p)'
    OBVIOUS
  <2>1. Cur(p)' = Cur(p) + 1
    BY <1>11, <1>12 DEF Cur
  <2>2. Reach(p)' = Cur(p) * BLOCK_SIZE + BLOCK_SIZE
    <3> HIDE DEF len, off
    <3>1. Piece(p) = BLOCK_SIZE - off
      BY <1>2, <1>5
    <3>2. Reach(p)' = Reach(p) + Piece(p) /\ Cur(p) * BLOCK_SIZE + off = Reach(p)
      BY <1>3, <1>10
    <3> QED BY <1>2, <3>1, <3>2
  <2>3. (Cur(p) + 1) * BLOCK_SIZE = Cur(p) * BLOCK_SIZE + BLOCK_SIZE
    BY <1>2
  <2> QED BY <2>1, <2>2, <2>3
<1>14. WriteAt(p)'
  <2>1. Reach(p)' + Len(c.data) <= MaxLength
    <3>1. /\ Reach(p) \in Nat /\ len \in Nat /\ Piece(p) \in Nat /\ MaxLength \in Nat
          /\ Reach(p) + len <= MaxLength /\ Len(c.data) = len - Piece(p)
          /\ Reach(p)' = Reach(p) + Piece(p)
      BY <1>2, <1>3, <1>5, <1>7, <1>10, Constants
    <3> HIDE DEF len
    <3> QED BY <3>1
  <2>2. c.at = "scan" => /\ Cur(p)' * BLOCK_SIZE = Reach(p)' /\ c.written # 0
                         /\ Len(c.data) <= 1 * BLOCK_SIZE
    <3> HIDE DEF len, off
    <3>1. len > Left(p) => Len(c.data) <= BLOCK_SIZE /\ c.written # 0
      BY <1>2, <1>3, <1>5, <1>7
    <3> QED BY <1>2, <1>7, <1>13, <3>1
  <2>3. c.at \notin {"mark", "copy"}
    BY <1>7
  <2>4. \A k \in 1 .. Len(c.data) : c.data[k] # Nul
    <3>1. call[p].data \in Seq(Byte) /\ Piece(p) <= len /\ Piece(p) \in Nat
      BY <1>1, CallFacts, CopyCall
    <3>2. \A k \in 1 .. len - Piece(p) : c.data[k] = call[p].data[Piece(p) + k]
      BY <1>7, <3>1, SuffixType
    <3>3. \A k \in 1 .. len : call[p].data[k] # Nul
      BY <1>1 DEF WriteAt
    <3>4. \A k \in 1 .. len - Piece(p) : Piece(p) + k \in 1 .. len
      BY <1>2, <3>1
    <3> QED BY <1>7, <3>2, <3>3, <3>4
  <2> QED BY <1>8, <2>1, <2>2, <2>3, <2>4 DEF WriteAt
<1>15. \A q \in Proc \ {p} : /\ WriteAt(q)' /\ (Writing(q)' <=> Writing(q))
                             /\ call'[q] = call[q] /\ inode'[call[q].inode] = inode[call[q].inode]
  BY <1>1, <1>8, <1>9, OtherWrite
<1>16. Apart'
  BY <1>1, <1>7, <1>8, <1>15 DEF Apart
<1>17. Linked(p)' <= Cur(p) * BLOCK_SIZE + BLOCK_SIZE /\ Linked(p)' \in Nat
  <2> HIDE DEF len, off
  <2>1. Reach(p)' \in Nat /\ Reach(p)' <= Reach(p) + Left(p)
    BY <1>2, <1>5, <1>10
  <2>2. Reach(p) + Left(p) = Cur(p) * BLOCK_SIZE + BLOCK_SIZE
    BY <1>2, <1>3, <1>5
  <2> QED BY <1>11, <2>1, <2>2
<1>18. HeldEntries' \subseteq HeldEntries
  <2> SUFFICES ASSUME NEW u \in HeldEntries' PROVE u \in HeldEntries
    OBVIOUS
  <2>1. /\ u \in Inode \X (0 .. INODE_BLOCKS - 1) /\ u[2] \in Nat /\ u[2] * BLOCK_SIZE \in Nat
        /\ Fresh(u[1], u[2])
    BY Constants, Product DEF HeldEntries, Fresh
  <2>2. CASE u[2] * BLOCK_SIZE < inode[u[1]].length
    BY <2>1, <2>2 DEF HeldEntries, Held
  <2>3. CASE i = u[1] /\ u[2] * BLOCK_SIZE < Linked(p)'
    <3>1. Cur(p) < u[2] => Cur(p) * BLOCK_SIZE + BLOCK_SIZE <= u[2] * BLOCK_SIZE
      BY <1>2, <2>1, BlockOrder
    <3>2. u[2] < Cur(p) => u[2] * BLOCK_SIZE + BLOCK_SIZE <= Cur(p) * BLOCK_SIZE
      BY <1>2, <2>1, BlockOrder
    <3>3. ~(Cur(p) < u[2])
      BY <1>2, <1>17, <2>1, <2>3, <3>1
    <3>4. u[2] * BLOCK_SIZE <= Cur(p) * BLOCK_SIZE
      <4>1. CASE u[2] = Cur(p)
        BY <1>2, <4>1
      <4>2. CASE u[2] # Cur(p)
        BY <1>2, <2>1, <3>2, <3>3, <4>2
      <4> QED BY <4>1, <4>2
    <3>5. u[2] * BLOCK_SIZE < Linked(p)
      <4> HIDE DEF off
      <4>1. Cur(p) * BLOCK_SIZE <= Reach(p)
        BY <1>2, <1>3
      <4> QED BY <1>2, <1>4, <2>1, <3>4, <4>1
    <3> QED BY <1>1, <2>1, <2>3, <3>5 DEF HeldEntries, Held
  <2> QED BY <1>7, <1>8, <1>9, <1>15, <2>2, <2>3, HeldBehind
<1>19. ASSUME NEW x, Marked(x) PROVE Marked(x)'
  <2>1. x \in Offset /\ data_block[0][x] # Nul /\ data_block \in [Block -> [Offset -> Byte]]
    BY <1>1, <1>19, TypeParts DEF Marked, RestOK
  <2>2. CASE D # 0
    BY <2>1, <2>2 DEF Copy, Marked
  <2>3. CASE D = 0
    <3>1. data_block'[0] = [o \in Offset |-> IF o \in off .. off + Piece(p) - 1
                                THEN call[p].data[o - off + 1] ELSE data_block[0][o]]
      BY <2>1, <2>3, Constants DEF Copy, Piece, Left
    <3>2. x \in off .. off + Piece(p) - 1 => call[p].data[x - off + 1] # Nul
      <4>1. \A k \in 1 .. len : call[p].data[k] # Nul
        BY <1>1 DEF WriteAt
      <4>2. Piece(p) <= len
        BY <1>1, CopyCall
      <4>3. x \in Nat /\ Piece(p) \in Nat /\ off \in Nat /\ len \in Nat
        BY <1>2, <1>5, <2>1, Constants
      <4>4. x \in off .. off + Piece(p) - 1 => x - off + 1 \in 1 .. len
        <5> HIDE DEF off, len
        <5> QED BY <4>2, <4>3
      <4> QED BY <4>1, <4>4
    <3> QED BY <2>1, <3>1, <3>2 DEF Marked
  <2> QED BY <2>2, <2>3
<1>20. ASSUME NEW q \in Proc, call'[q].at = "mark"
       PROVE  call'[q].D \in Offset /\ data_block'[0][call'[q].D] = Nul
  <2>1. call[q] = call'[q] /\ call[q].at = "mark"
    BY <1>7, <1>8, <1>20
  <2>2. D # 0
    BY <2>1 DEF Copy, Quiet
  <2>3. data_block'[0] = data_block[0]
    BY <1>1, <2>2, TypeParts DEF Copy, RestOK
  <2> QED BY <1>1, <2>1, <2>3 DEF BlocksOK, Unmarked
<1>21. BlocksOK'
  <2>1. \A u \in HeldEntries : BlockOf(u)' = BlockOf(u)
    BY <1>9 DEF BlockOf
  <2> QED BY <1>1, <1>18, <1>19, <1>20, <2>1, BlocksStay
<1> QED BY <1>14, <1>15, <1>16, <1>21 DEF ShareInv

\* The length takes in what was written, all of which is in blocks of the file.
LEMMA SetLengthShare ==
    ASSUME ShareInv, TypeInv', NEW p \in Proc, SetLength(p)
    PROVE  ShareInv'
<1> DEFINE i == call[p].inode
<1>1. /\ TypeInv /\ BlocksOK /\ Apart /\ (\A q \in Proc : WriteAt(q))
      /\ call[p].at = "length" /\ Writing(p) /\ i \in Inode
  BY CallFacts DEF ShareInv, SetLength, Writing
<1>2. /\ inode' = [inode EXCEPT ![i].length = @ + call[p].written]
      /\ call' = [call EXCEPT ![p] = Back(p)] /\ UNCHANGED data_block
  BY DEF SetLength
<1>3. call'[p] = Back(p) /\ \A q \in Proc \ {p} : call'[q] = call[q]
  BY <1>1, <1>2, CallFacts
<1>4. ~Writing(p)' /\ call'[p].at # "mark"
  BY <1>1, <1>3, BackOK DEF Writing
<1>5. /\ inode'[i].length = Linked(p)
      /\ \A j \in Inode \ {i} : inode'[j] = inode[j]
      /\ \A j \in Inode : inode'[j].data_blocks = inode[j].data_blocks
  <2>1. inode \in [Inode -> InodeBlock]
    BY <1>1, TypeParts DEF RestOK
  <2> QED BY <1>1, <1>2, <2>1 DEF InodeBlock, Linked, Reach
<1>6. \A q \in Proc \ {p} : Writing(q) => call[q].inode \in Inode \ {i}
  BY <1>1, CallFacts DEF Apart
<1>7. \A q \in Proc \ {p} : /\ WriteAt(q)' /\ (Writing(q)' <=> Writing(q))
                            /\ call'[q] = call[q]
                            /\ Writing(q) => inode'[call[q].inode] = inode[call[q].inode]
  BY <1>1, <1>3, <1>5, <1>6, OtherWrite
<1>8. WriteAt(p)'
  BY <1>4 DEF WriteAt
<1>9. Apart'
  BY <1>1, <1>4, <1>7 DEF Apart
<1>10. HeldEntries' \subseteq HeldEntries
  <2> SUFFICES ASSUME NEW u \in HeldEntries' PROVE u \in HeldEntries
    OBVIOUS
  <2>1. u \in Inode \X (0 .. INODE_BLOCKS - 1) /\ Fresh(u[1], u[2])
    BY DEF HeldEntries, Fresh
  <2>2. CASE u[2] * BLOCK_SIZE < inode'[u[1]].length
    BY <1>1, <1>5, <2>1, <2>2 DEF HeldEntries, Held
  <2> QED BY <1>4, <1>7, <2>2, HeldBehind
<1>11. BlocksOK'
  <2>1. \A u \in HeldEntries : BlockOf(u)' = BlockOf(u)
    BY <1>5 DEF HeldEntries, BlockOf
  <2>2. \A q \in Proc : call'[q].at = "mark" => call'[q].D \in Offset /\ Unmarked(call'[q].D)
    BY <1>1, <1>4, <1>7 DEF BlocksOK
  <2> QED BY <1>1, <1>2, <1>10, <2>1, <2>2, BlocksKept
<1> QED BY <1>7, <1>8, <1>9, <1>11 DEF ShareInv

LEMMA ShareInit == ASSUME Init PROVE ShareInv
<1>1. TypeInv /\ inode = Image.inodes /\ data_block = Image.data_blocks
      /\ \A p \in Proc : call[p] = User
  BY TypeInit DEF Init
<1>2. \A p \in Proc : ~Writing(p) /\ call[p].at # "mark"
  BY <1>1 DEF Writing, User
<1>3. (\A p \in Proc : WriteAt(p)) /\ Apart
  BY <1>2 DEF WriteAt, Apart
<1>4. BlocksOK
  <2>1. HeldEntries = {}
    <3> SUFFICES ASSUME NEW u \in HeldEntries PROVE FALSE
      OBVIOUS
    <3>1. /\ u[1] \in Inode /\ u[2] \in Nat /\ u[2] * BLOCK_SIZE < inode[u[1]].length
          /\ u[2] * BLOCK_SIZE >= inode[u[1]].length
      BY <1>1, <1>2, Constants DEF HeldEntries, Held, Fresh
    <3>2. u[2] * BLOCK_SIZE \in Nat /\ inode[u[1]].length \in Nat
      BY <1>1, <3>1, Product, TypeParts, FileTypes
    <3> QED BY <3>1, <3>2
  <2> QED BY <1>2, <2>1 DEF BlocksOK
<1> QED BY <1>1, <1>3, <1>4 DEF ShareInv

\* A call to write_data, with something to write or without.
LEMMA WriteCallShare ==
    ASSUME Quiet, ShareInv, TypeInv', NEW p \in Proc, NEW fd \in Fd, NEW data \in Seq(Byte),
           WriteCall(p, fd, data)
    PROVE  ShareInv'
<1>1. /\ TypeInv /\ call[p].at \notin WriteStates /\ call[p].names = << >>
      /\ WriteData(p, fd, data)
      /\ UNCHANGED <<inode, data_block>> /\ file_array[p][fd].inode \in Inode
  BY TypeParts DEF ShareInv, WriteCall, disk, RestOK, Descriptor
<1>2. CASE call' = [call EXCEPT ![p] = Back(p)]
  <2>1. call'[p] = Back(p) /\ \A q \in Proc \ {p} : call'[q] = call[q]
    BY <1>1, <1>2, CallFacts
  <2>2. call'[p].at \notin WriteStates
    BY <1>1, <2>1, BackOK DEF WriteStates
  <2> QED BY <1>1, <2>1, <2>2, LeavesOK
<1>3. ASSUME NEW c, call' = [call EXCEPT ![p] = c], CallOK(c),
             Begun(p, c, file_array[p][fd].inode)
      PROVE  ShareInv'
  BY <1>1, <1>3, BeginShare
<1> QED BY <1>1, <1>2, <1>3, WriteBegins

\* The steps that have nothing to do with a write.
LEMMA OtherShare ==
    ASSUME ShareInv, TypeInv', NEW p \in Proc, UNCHANGED <<inode, data_block>>, NEW c,
           c.at \notin WriteStates, call' = [call EXCEPT ![p] = c]
    PROVE  ShareInv'
<1>1. call'[p] = c /\ \A q \in Proc \ {p} : call'[q] = call[q]
  BY CallFacts DEF ShareInv
<1> QED BY <1>1, LeavesOK

LEMMA ScanFullShare ==
    ASSUME ShareInv, TypeInv', NEW p \in Proc, Scan(p), \A i \in Offset : ~Unmarked(i)
    PROVE  ShareInv'
<1>1. /\ TypeInv /\ UNCHANGED <<inode, data_block>> /\ call' = [call EXCEPT ![p] = Back(p)]
  BY DEF ShareInv, Scan
<1>2. Back(p).at \notin WriteStates
  BY <1>1, BackOK DEF WriteStates
<1> QED BY <1>1, <1>2, OtherShare

\* read_data, for a program and for cp.
LEMMA ReadShare ==
    ASSUME ShareInv, TypeInv', NEW p \in Proc,
           ReadEnd(p) \/ CpRead(p) \/ \E fd \in Fd, n \in Count : ReadFile(p, fd, n)
    PROVE  ShareInv'
<1>1. UNCHANGED <<inode, data_block>> /\ \A q \in Proc \ {p} : call'[q] = call[q]
  BY CallFacts DEF ShareInv, ReadEnd, CpRead, ReadFile, ReadData
<1>2. call[p] \in SystemCall /\ call \in [Proc -> SystemCall]
  BY CallFacts DEF ShareInv
<1>3. CASE ReadEnd(p)
  <2>1. call'[p].at \in {"user", "cpwrite"}
    BY <1>2, <1>3 DEF ReadEnd, User
  <2> QED BY <1>1, <2>1, LeavesOK DEF WriteStates
<1>4. ASSUME NEW fd, NEW n, ReadData(p, fd, n) PROVE ShareInv'
  <2>1. call'[p].at \in {"user", "read"}
    BY <1>2, <1>4 DEF ReadData, User, SystemCall
  <2> QED BY <1>1, <2>1, LeavesOK DEF WriteStates
<1> QED BY <1>3, <1>4 DEF CpRead, ReadFile

\* Calls that begin and end outside of write_data and do not touch a file's blocks.
LEMMA DirectoryShare ==
    ASSUME ShareInv, TypeInv', NEW p \in Proc,
           \/ CreateEnd(p) \/ Halt(p) \/ Search(p) \/ OpenEntry(p) \/ Shift(p)
           \/ \E name \in Name : Open(p, name)
           \/ \E name \in FileName : Rm(p, name)
           \/ \E src, dst \in FileName : Cp(p, src, dst)
           \/ \E fd \in Fd : \/ Close(p, fd) \/ ReadDir(p, fd)
                             \/ \E name \in NewName : Create(p, fd, name)
    PROVE  ShareInv'
<1>1. TypeInv /\ call \in [Proc -> SystemCall] /\ call[p] \in SystemCall
  BY CallFacts DEF ShareInv
<1>2. UNCHANGED <<inode, data_block>>
  BY DEF CreateEnd, Halt, Search, OpenEntry, Shift, Open, Rm, Cp, Close, ReadDir, Create
<1>3. CASE CreateEnd(p) \/ Halt(p)
  <2>1. call' = [call EXCEPT ![p] = User] /\ User.at \notin WriteStates
    BY <1>3 DEF CreateEnd, Halt, User, WriteStates
  <2> QED BY <1>2, <2>1, OtherShare
<1>4. CASE \E fd \in Fd : Close(p, fd) \/ ReadDir(p, fd)
  <2>1. call' = call /\ call[p].at = "user"
    BY <1>4 DEF Close, ReadDir
  <2> QED BY <1>1, <1>2, <2>1, LeavesOK DEF WriteStates
<1>5. CASE \/ \E name \in Name : Open(p, name)
           \/ \E name \in FileName : Rm(p, name)
           \/ \E src, dst \in FileName : Cp(p, src, dst)
  <2>1. PICK at \in {"lookup", "rm"}, s \in Seq(Name) :
           s # << >> /\ call' = [call EXCEPT ![p] = Looking(at, s)]
    BY <1>1, <1>5, LookBegins
  <2>2. Looking(at, s).at \notin WriteStates
    BY <2>1, LookingOK DEF NameStates, WriteStates
  <2> QED BY <1>2, <2>1, <2>2, OtherShare
<1>6. CASE \E fd \in Fd, name \in NewName : Create(p, fd, name)
  <2>1. PICK fd \in Fd, name \in NewName : Create(p, fd, name)
    BY <1>6
  <2>2. /\ call'[p].at = "create"
        /\ \A q \in Proc \ {p} : call'[q] = call[q]
    BY <1>1, <2>1 DEF Create, SystemCall
  <2> QED BY <1>2, <2>2, LeavesOK DEF WriteStates
<1>7. CASE Search(p) \/ OpenEntry(p) \/ Shift(p)
  <2>1. PICK c : /\ call' = [call EXCEPT ![p] = c]
                 /\ c.at \in {"lookup", "entry", "rm", "shift", "user", "cpread"}
    BY <1>1, <1>7, SearchCall, OpenEntryCall, ShiftCall
  <2> QED BY <1>2, <2>1, OtherShare DEF WriteStates
<1> QED BY <1>3, <1>4, <1>5, <1>6, <1>7

LEMMA ShareStep ==
    ASSUME Quiet, ShareInv, [Next]_vars
    PROVE  ShareInv'
<1>1. TypeInv'
  BY TypeStep DEF ShareInv
<1>2. ASSUME NEW p \in Proc, Step(p) PROVE ShareInv'
  <2>1. CASE Scan(p)
    BY <1>1, <2>1, ScanShare, ScanFullShare
  <2>2. CASE CpWrite(p)
    BY <1>1, <2>2, CpWriteCall, WriteCallShare DEF ShareInv
  <2> QED BY <1>1, <1>2, <2>1, <2>2, ReadShare, SetMarkShare, CopyShare, SetLengthShare,
             DirectoryShare DEF Step
<1>3. ASSUME NEW p \in Proc,
             \/ Halt(p)
             \/ \E name \in Name : Open(p, name)
             \/ \E name \in FileName : Rm(p, name)
             \/ \E src, dst \in FileName : Cp(p, src, dst)
      PROVE  ShareInv'
  BY <1>1, <1>3, DirectoryShare
<1>4. ASSUME NEW p \in Proc, NEW fd \in Fd,
             \/ Close(p, fd) \/ ReadDir(p, fd)
             \/ \E n \in Count : ReadFile(p, fd, n)
             \/ \E data \in Data : WriteFile(p, fd, data)
             \/ \E name \in NewName : Create(p, fd, name)
      PROVE  ShareInv'
  <2>1. CASE Close(p, fd) \/ ReadDir(p, fd) \/ \E name \in NewName : Create(p, fd, name)
    BY <1>1, <2>1, DirectoryShare
  <2>2. CASE \E n \in Count : ReadFile(p, fd, n)
    BY <1>1, <2>2, ReadShare
  <2>3. CASE \E data \in Data : WriteFile(p, fd, data)
    BY <1>1, <2>3, WriteFileCall, WriteCallShare DEF ShareInv
  <2> QED BY <1>4, <2>1, <2>2, <2>3
<1>5. CASE UNCHANGED vars
  BY <1>1, <1>5 DEF vars, ShareInv, WriteAt, Apart, BlocksOK, HeldEntries, Held, Linked, Reach,
                    Cur, Writing, BlockOf, Marked, Unmarked
<1> QED BY <1>2, <1>3, <1>4, <1>5 DEF Next

\* find_empty_block (filesys.c:252-261) takes a block whose byte in block 0 is not set, and
\* write_data (277-343) marks it later, with the first file in block 0 itself: whatever the
\* image holds, and unless two processes write to one file or look for a block at one time,
\* a write begins at the end of a block or goes on into a third one, or zeros are written,
\* every block belongs to at most one of the files that programs fill, in whatever order
\* the processes write and at whatever step they are killed.
THEOREM NoShareHolds == ASSUME Quiet PROVE Spec => []NoShare
<1>1. Init => ShareInv
  BY ShareInit
<1>2. ShareInv /\ [Next]_vars => ShareInv'
  BY ShareStep
<1>3. ShareInv => NoShare
  BY UsedHeld DEF ShareInv, BlocksOK, NoShare
<1> QED BY <1>1, <1>2, <1>3, PTL DEF Spec

=============================================================================
