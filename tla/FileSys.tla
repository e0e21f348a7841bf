------------------------------ MODULE FileSys ------------------------------
(***************************************************************************)
(* The file system (filesys.c) and the file descriptors of the processes   *)
(* that use it (open, close, read, write, cp, rm and the closing by halt,  *)
(* in system_call.c).                                                      *)
(*                                                                         *)
(* System calls run with interrupts on, so that one process can be         *)
(* anywhere in a call while others go through theirs.  write_data is taken *)
(* step by step: the look at the inode, the test and the marking of a free *)
(* block, one memcpy per block, and the update of the length; read_data    *)
(* and dir_write in two steps; a lookup looks at one entry a step and      *)
(* copies the one it found in a step of its own; rm looks at one entry and *)
(* then moves one entry a step.                                            *)
(*                                                                         *)
(* A process is one that runs on a terminal of its own: a parent that      *)
(* waits for its child makes no calls.                                     *)
(***************************************************************************)
EXTENDS Naturals, Sequences, FiniteSets

CONSTANTS
    Proc,
    Name,               \* file names
    Blank,              \* the name of an entry that is all zero
    Char,               \* bytes of files
    BLOCK_SIZE,         \* filesys.h: 4096
    NUM_BLOCKS,         \* data blocks of the image; the shipped one has 71
    NUM_INODES,         \* inodes of the image
    INODE_BLOCKS,       \* entries of data_blocks, BLOCK_SIZE/4 - 1
    MAX_FILES_NUMBER,   \* filesys.h: 63
    MAX_FILE_NUM,       \* system_call.h: 8
    Data,               \* what programs write
    Count,              \* how many bytes they ask for
    CP_BUF,             \* the size of cp_buf, 1024
    FileName, NewName,  \* names of regular files that programs remove and copy, and create
    MAX_OPEN,           \* bound: open descriptors
    Image,              \* the image that the boot loader leaves in memory
    MAX_CHANGES,        \* bound: calls that write, create, remove or copy
    Env                 \* which events of EnvEvents happen

\* Events after which a file or the directory is not what the programs made it:
\*   SameFile        two processes write to one file at a time
\*   AllocRace       a process looks for a block, or writes to block 0, between
\*                   another one's test of a mark and its setting
\*   BoundaryAppend  a file that ends at the end of a block is appended to
\*   ThirdBlock      one write needs two more blocks after its first
\*   NulBytes        a zero is among the bytes that are written
\*   ImageWrite      a file that has bytes in the image is written to
\*   CreateRace      the directory changes while a file is being created
\*   RmRace          rm runs while another call looks for a name or removes one
\*   RmAgain         a file is removed that a killed rm left in two entries
\*   RmThenCreate    a file is created after one was removed
\*   GhostEntry      a file is removed while the entry behind the last one
\*                   holds what a failed or killed creation left
EnvEvents == {"SameFile", "AllocRace", "BoundaryAppend", "ThirdBlock", "NulBytes",
              "ImageWrite", "CreateRace", "RmRace", "RmAgain", "RmThenCreate", "GhostEntry"}

Nul == "nul"            \* the byte 0
Mark == "mark"          \* the byte 1 that find_empty_block sets
Byte == Char \cup {Nul, Mark}

Smaller(m, n) == IF m < n THEN m ELSE n
Larger(m, n) == IF m < n THEN n ELSE m

\* find_empty_block finds BLOCK_SIZE blocks however many the image has: those from
\* NUM_BLOCKS on are the memory behind it.
Block == 0 .. Larger(NUM_BLOCKS, BLOCK_SIZE) - 1
Offset == 0 .. BLOCK_SIZE - 1
Inode == 0 .. NUM_INODES - 1
Fd == 0 .. MAX_FILE_NUM - 1
MaxLength == INODE_BLOCKS * BLOCK_SIZE

\* An entry of the directory; file_type 0, 1 and 2 are "rtc", "dir" and "file".
Dentry == [name : Name \cup {Blank}, file_type : {"rtc", "dir", "file"}, inode : Inode]
NoDentry == [name |-> Blank, file_type |-> "rtc", inode |-> 0]

InodeBlock == [length : 0 .. MaxLength, data_blocks : [0 .. INODE_BLOCKS - 1 -> Block]]

ASSUME FileSysAssumption ==
    /\ NUM_BLOCKS \in Nat /\ BLOCK_SIZE \in Nat \ {0}
    /\ NUM_INODES \in Nat \ {0} /\ INODE_BLOCKS \in Nat \ {0}
    /\ MAX_FILES_NUMBER \in Nat \ {0} /\ MAX_FILES_NUMBER <= NUM_INODES
    /\ MAX_FILE_NUM \in Nat /\ MAX_FILE_NUM > 2
    /\ Blank \notin Name /\ FileName \subseteq Name /\ NewName \subseteq Name
    /\ Char \cap {Nul, Mark} = {}
    /\ Data \subseteq Seq(Byte) \ {<< >>} /\ Count \subseteq Nat /\ CP_BUF \in Nat \ {0}
    /\ Image.num_dir_entries \in 1 .. MAX_FILES_NUMBER
    /\ Image.dir_entries \in [0 .. MAX_FILES_NUMBER -> Dentry]
    /\ Image.inodes \in [Inode -> InodeBlock]
    /\ Image.data_blocks \in [Block -> [Offset -> Byte]]
    /\ MAX_CHANGES \in Nat /\ MAX_OPEN \in Nat
    /\ Env \subseteq EnvEvents

VARIABLES
    num_dir_entries,    \* of the boot block
    dentry,             \* the entries of the boot block and the one behind them
    inode_array,        \* which inodes are taken
    inode,              \* the inodes
    data_block,         \* the data blocks, and the memory behind them
    file_array,         \* [Proc -> [Fd -> descriptor]]
    call,               \* the system call that each process is in
    buf,                \* the buffer of the last read of each process
    changes             \* counts for MAX_CHANGES

disk == <<num_dir_entries, dentry, inode_array, inode, data_block>>
vars == <<num_dir_entries, dentry, inode_array, inode, data_block, file_array, call,
          buf, changes>>

\* A descriptor is free, or has its operation table, inode and position.
Closed == [op |-> "none", inode |-> 0, pos |-> 0]
Std == [op |-> "std", inode |-> 0, pos |-> 0]

\* Where a process is in a system call, and the locals there: the descriptor and
\* its inode; of write_data what is still to be written, bytes_written, the block
\* D and the offset in it that come next, and last_block_idx; of read_data the
\* length; of cp its two descriptors; of lookups and rm the names that are still
\* to be looked up and the index of the directory entry that comes next.
NoCp == <<0, 0>>
User == [at |-> "user", fd |-> 0, inode |-> 0, data |-> << >>, written |-> 0,
         D |-> 0, off |-> 0, entry |-> 0, n |-> 0, cp |-> NoCp,
         names |-> << >>, dent |-> 0]

\* The last read is forgotten by the next call: buf shows results and no more.
Drop(p) == buf' = [buf EXCEPT ![p] = << >>]

\* Where a call goes when it is done: back to the program, or on in cp.
Back(p) == IF call[p].cp = NoCp THEN User
           ELSE [User EXCEPT !.at = "cpread", !.cp = call[p].cp]

Suffix(s, n) == SubSeq(s, n + 1, Len(s))

\* The bytes off .. off + n - 1 of the file with inode i, block by block.
FileBytes(i, off, n) ==
    [k \in 1 .. n |->
        LET at == off + k - 1
        IN  data_block[inode[i].data_blocks[at \div BLOCK_SIZE]][at % BLOCK_SIZE]]

Content(i) == FileBytes(i, 0, inode[i].length)

Init ==
    /\ num_dir_entries = Image.num_dir_entries
    /\ dentry = Image.dir_entries
    /\ inode_array = [i \in Inode |->
                        \E e \in 0 .. Image.num_dir_entries - 1 : Image.dir_entries[e].inode = i]
    /\ inode = Image.inodes
    /\ data_block = Image.data_blocks
    /\ file_array = [p \in Proc |-> [fd \in Fd |-> IF fd < 2 THEN Std ELSE Closed]]
    /\ call = [p \in Proc |-> User]
    /\ buf = [p \in Proc |-> << >>]
    /\ changes = 0

-----------------------------------------------------------------------------
(* Lookup, open and close *)

IsFree(table, fd) == table[fd] = Closed
HasFree(table) == \E fd \in Fd : IsFree(table, fd)
FirstFd(table) == CHOOSE fd \in Fd : IsFree(table, fd) /\ \A d \in 0 .. fd - 1 : ~IsFree(table, d)

\* What open puts in the descriptor: only a regular file has its inode there.
Opened(entry) ==
    [op |-> entry.file_type,
     inode |-> IF entry.file_type = "file" THEN entry.inode ELSE 0,
     pos |-> 0]

Change(n) == changes + n <= MAX_CHANGES /\ changes' = changes + n     \* bound

Opening(q) == call[q].at \in {"lookup", "entry"}
Removing(q) == call[q].at \in {"rm", "shift"}
OpenFds == {d \in Proc \X (Fd \ {0, 1}) : file_array[d[1]][d[2]] # Closed}
MayOpen(p) ==                                                          \* bound
    \/ ~HasFree(file_array[p])
    \/ Cardinality(OpenFds) + Cardinality({q \in Proc : Opening(q)}) < MAX_OPEN

\* A call that begins with a search for the first of these names.
Looking(at, names) == [User EXCEPT !.at = at, !.names = names]

Open(p, name) ==
    /\ call[p].at = "user"
    /\ MayOpen(p)
    /\ "RmRace" \in Env \/ \A q \in Proc : ~Removing(q)
    /\ call' = [call EXCEPT ![p] = Looking("lookup", <<name>>)]
    /\ Drop(p)
    /\ UNCHANGED <<num_dir_entries, dentry, inode_array, inode, data_block, file_array, changes>>

\* cp looks both names up before it opens the two files, which looks them up again.
IsCheck(c) == Len(c.names) > 2
IsCp(c) == Len(c.names) > 1 \/ c.cp # NoCp

\* Mutant: the entry behind the last one counts.
LooksPast(c) == c.dent <= num_dir_entries

\* The loop of read_dentry_by_name, and that of rm.
LooksOn(c) == c.dent < num_dir_entries
Search(p) ==
    LET c == call[p]
        isEntry == dentry[c.dent].name = Head(c.names)
    IN  /\ c.at \in {"lookup", "rm"}
        /\ \/ /\ LooksOn(c) /\ ~isEntry
              /\ call' = [call EXCEPT ![p].dent = @ + 1]
           \/ /\ LooksOn(c) /\ isEntry
              /\ call' = [call EXCEPT ![p] =
                    IF IsCheck(c) THEN Looking("lookup", Tail(c.names))
                    ELSE [c EXCEPT !.at = IF c.at = "rm" THEN "shift" ELSE "entry"]]
           \/ /\ ~LooksOn(c)
              /\ IsCp(c) => IsCheck(c)                  \* bound: cp does not go on with -1
              /\ call' = [call EXCEPT ![p] = User]
        /\ UNCHANGED <<num_dir_entries, dentry, inode_array, inode, data_block, file_array,
                       buf, changes>>

\* read_dentry_by_index reads the entry with the index that was found, whatever it
\* holds by now; open fills the first free descriptor.
OpenEntry(p) ==
    LET c == call[p]
        fd == FirstFd(file_array[p])
    IN  /\ c.at = "entry"
        /\ \/ /\ HasFree(file_array[p])
              /\ file_array' = [file_array EXCEPT ![p][fd] = Opened(dentry[c.dent])]
              /\ call' = [call EXCEPT ![p] =
                    IF ~IsCp(c) THEN User
                    ELSE IF c.cp = NoCp
                    THEN [Looking("lookup", Tail(c.names)) EXCEPT !.cp = <<fd, 0>>]
                    ELSE [User EXCEPT !.at = "cpread", !.cp = <<c.cp[1], fd>>]]
           \/ /\ ~HasFree(file_array[p]) /\ ~IsCp(c)
              /\ call' = [call EXCEPT ![p] = User]
              /\ UNCHANGED file_array
        /\ UNCHANGED <<num_dir_entries, dentry, inode_array, inode, data_block, buf, changes>>

\* close refuses descriptors 0 and 1 and those that are free.
Close(p, fd) ==
    /\ call[p].at = "user"
    /\ fd > 1 /\ file_array[p][fd] # Closed
    /\ file_array' = [file_array EXCEPT ![p][fd] = Closed]
    /\ Drop(p)
    /\ UNCHANGED <<num_dir_entries, dentry, inode_array, inode, data_block, call, changes>>

\* The process ends, by a system call or by a signal in the middle of one, and
\* halt closes its descriptors; execute gives the next process of the slot
\* a table with 0 and 1 only.
Halt(p) ==
    /\ file_array' = [file_array EXCEPT ![p] = [fd \in Fd |-> IF fd < 2 THEN Std ELSE Closed]]
    /\ call' = [call EXCEPT ![p] = User]
    /\ buf' = [buf EXCEPT ![p] = << >>]
    /\ UNCHANGED <<num_dir_entries, dentry, inode_array, inode, data_block, changes>>

-----------------------------------------------------------------------------
(* Reading *)

\* read_data up to the reduction of the length: a position behind the end, or
\* at it, reads nothing.
ReadData(p, fd, n) ==
    LET f == file_array[p][fd]
        len == IF f.pos > inode[f.inode].length THEN 0
               ELSE Smaller(n, inode[f.inode].length - f.pos)
    IN  /\ call' = [call EXCEPT ![p] =
                        IF len = 0 THEN User ELSE [@ EXCEPT !.at = "read", !.fd = fd, !.n = len]]
        /\ Drop(p)

\* file_read of a program.
ReadFile(p, fd, n) ==
    /\ call[p].at = "user" /\ file_array[p][fd].op = "file"
    /\ ReadData(p, fd, n)
    /\ UNCHANGED <<num_dir_entries, dentry, inode_array, inode, data_block, file_array, changes>>

\* The loop of read_data over the blocks, and the new position of file_read.
ReadEnd(p) ==
    LET c == call[p]
        f == file_array[p][c.fd]
    IN  /\ c.at = "read"
        /\ buf' = [buf EXCEPT ![p] = FileBytes(f.inode, f.pos, c.n)]
        /\ file_array' = [file_array EXCEPT ![p][c.fd].pos = @ + c.n]
        /\ call' = [call EXCEPT ![p] =
                        IF c.cp = NoCp THEN User
                        ELSE [User EXCEPT !.at = "cpwrite", !.cp = c.cp]]
        /\ UNCHANGED <<num_dir_entries, dentry, inode_array, inode, data_block, changes>>

\* dir_read: the name of the next entry, or nothing at the end and behind it.
ReadDir(p, fd) ==
    LET f == file_array[p][fd]
    IN  /\ call[p].at = "user" /\ f.op = "dir"
        /\ IF f.pos >= num_dir_entries
           THEN /\ buf' = [buf EXCEPT ![p] = << >>]
                /\ UNCHANGED file_array
           ELSE /\ buf' = [buf EXCEPT ![p] = IF dentry[f.pos].name = Blank THEN << >>
                                            ELSE <<dentry[f.pos].name>>]
                /\ file_array' = [file_array EXCEPT ![p][fd].pos = @ + 1]
        /\ UNCHANGED <<num_dir_entries, dentry, inode_array, inode, data_block, call, changes>>

-----------------------------------------------------------------------------
(* Writing: write_data appends, whatever the position of the descriptor is *)

Writing(q) == call[q].at \in {"scan", "mark", "copy", "length"}

\* write_data up to the first block.
WriteData(p, fd, data) ==
    LET i == file_array[p][fd].inode
        length == inode[i].length
        len == Smaller(Len(data), MaxLength - length)
        last_block_idx == length \div BLOCK_SIZE
        off == length % BLOCK_SIZE
    IN  IF len = 0
        THEN call' = [call EXCEPT ![p] = Back(p)] /\ Drop(p)
        ELSE /\ UNCHANGED buf
             /\ "NulBytes" \in Env \/ \A k \in 1 .. len : data[k] # Nul
             /\ "ImageWrite" \in Env \/ Image.inodes[i].length = 0
             /\ "SameFile" \in Env \/ \A q \in Proc : Writing(q) => call[q].inode # i
             /\ "BoundaryAppend" \in Env \/ length = 0 \/ off > 0
             /\ "ThirdBlock" \in Env \/ off + len <= 2 * BLOCK_SIZE
             /\ call' = [call EXCEPT ![p] = [@ EXCEPT
                    !.at = IF length = 0 THEN "scan" ELSE "copy",
                    !.fd = fd, !.inode = i, !.data = SubSeq(data, 1, len),
                    !.D = IF length = 0 THEN 0 ELSE inode[i].data_blocks[last_block_idx],
                    !.off = off, !.entry = last_block_idx]]

WriteFile(p, fd, data) ==
    /\ call[p].at = "user" /\ file_array[p][fd].op = "file"
    /\ Change(1)
    /\ WriteData(p, fd, data)
    /\ UNCHANGED <<num_dir_entries, dentry, inode_array, inode, data_block, file_array>>

\* find_empty_block, its test: byte i of block 0 is the mark of block i, for
\* BLOCK_SIZE blocks.  The blocks of the image's files have no marks (filesys_init
\* notes some of them in data_blocks_bitmap, which nothing reads), and block 0 is
\* the first one that is found.
Unmarked(i) == data_block[0][i] = Nul
find_empty_block == CHOOSE i \in Offset : Unmarked(i) /\ \A j \in 0 .. i - 1 : ~Unmarked(j)

Scan(p) ==
    /\ call[p].at = "scan"
    /\ "AllocRace" \in Env \/ \A q \in Proc : call[q].at # "mark"
    /\ \/ /\ \E i \in Offset : Unmarked(i)
          /\ call' = [call EXCEPT ![p].at = "mark", ![p].D = find_empty_block]
          /\ UNCHANGED buf
       \/ /\ \A i \in Offset : ~Unmarked(i)       \* "The file system is full"
          /\ call' = [call EXCEPT ![p] = Back(p)]
          /\ Drop(p)
    /\ UNCHANGED <<num_dir_entries, dentry, inode_array, inode, data_block, file_array, changes>>

\* Mutant: the mark is set in the block itself.
SetOwnMark(p) ==
    LET c == call[p]
        entry == IF c.written = 0 THEN 0 ELSE c.entry + 1
    IN  /\ c.at = "mark"
        /\ data_block' = [data_block EXCEPT ![c.D][0] = Mark]
        /\ inode' = [inode EXCEPT ![c.inode].data_blocks[entry] = c.D]
        /\ call' = [call EXCEPT ![p].at = "copy", ![p].off = 0]
        /\ UNCHANGED <<num_dir_entries, dentry, inode_array, file_array, buf, changes>>

\* The mark is set and the block is linked: first, if the file was empty, in
\* entry 0, and every later time behind the block that was the last one.
SetMark(p) ==
    LET c == call[p]
        entry == IF c.written = 0 THEN 0 ELSE c.entry + 1
    IN  /\ c.at = "mark"
        /\ data_block' = [data_block EXCEPT ![0][c.D] = Mark]
        /\ inode' = [inode EXCEPT ![c.inode].data_blocks[entry] = c.D]
        /\ call' = [call EXCEPT ![p].at = "copy", ![p].off = 0]
        /\ UNCHANGED <<num_dir_entries, dentry, inode_array, file_array, buf, changes>>

\* memcpy to what is left of the block, and on with the next one if that was
\* not all.
Copy(p) ==
    LET c == call[p]
        left == BLOCK_SIZE - c.off
        n == Smaller(Len(c.data), left)
    IN  /\ c.at = "copy"
        /\ "AllocRace" \in Env \/ c.D # 0 \/ \A q \in Proc : call[q].at # "mark"
        /\ data_block' = [data_block EXCEPT ![c.D] =
                [o \in Offset |-> IF o \in c.off .. c.off + n - 1 THEN c.data[o - c.off + 1]
                                 ELSE @[o]]]
        /\ call' = [call EXCEPT ![p] = [c EXCEPT
                !.at = IF Len(c.data) > left THEN "scan" ELSE "length",
                !.data = Suffix(c.data, n), !.written = c.written + n]]
        /\ UNCHANGED <<num_dir_entries, dentry, inode_array, inode, file_array, buf, changes>>

\* The length is updated, and only now the bytes belong to the file.
SetLength(p) ==
    LET c == call[p]
    IN  /\ c.at = "length"
        /\ inode[c.inode].length + c.written <= MaxLength      \* bound
        /\ inode' = [inode EXCEPT ![c.inode].length = @ + c.written]
        /\ call' = [call EXCEPT ![p] = Back(p)]
        /\ Drop(p)
        /\ UNCHANGED <<num_dir_entries, dentry, inode_array, data_block, file_array, changes>>

-----------------------------------------------------------------------------
(* The directory: dir_write makes a file, rm removes one *)

\* The name goes into the entry behind the last one.
Create(p, fd, name) ==
    /\ call[p].at = "user" /\ file_array[p][fd].op = "dir"
    /\ num_dir_entries < MAX_FILES_NUMBER                      \* bound
    /\ Change(1)
    /\ "CreateRace" \in Env \/ \A q \in Proc : call[q].at # "create" /\ ~Removing(q)
    /\ "RmThenCreate" \in Env \/ dentry[num_dir_entries - 1].name # Blank
    /\ dentry' = [dentry EXCEPT ![num_dir_entries].name = name,
                                ![num_dir_entries].file_type = "file"]
    /\ call' = [call EXCEPT ![p].at = "create"]
    /\ Drop(p)
    /\ UNCHANGED <<num_dir_entries, inode_array, inode, data_block, file_array>>

\* The first free inode, of as many as there are entries; without one the entry
\* is not counted.
FreeInode(i) == i < num_dir_entries /\ ~inode_array[i]
FirstInode == CHOOSE i \in Inode : FreeInode(i) /\ \A j \in 0 .. i - 1 : ~FreeInode(j)

CreateEnd(p) ==
    /\ call[p].at = "create"
    /\ num_dir_entries < MAX_FILES_NUMBER                      \* bound
    /\ \/ /\ \E i \in Inode : FreeInode(i)
          /\ dentry' = [dentry EXCEPT ![num_dir_entries].inode = FirstInode]
          /\ inode_array' = [inode_array EXCEPT ![FirstInode] = TRUE]
          /\ num_dir_entries' = num_dir_entries + 1
       \/ /\ \A i \in Inode : ~FreeInode(i)
          /\ UNCHANGED <<num_dir_entries, dentry, inode_array>>
    /\ call' = [call EXCEPT ![p] = User]
    /\ UNCHANGED <<inode, data_block, file_array, buf, changes>>

Rm(p, name) ==
    /\ call[p].at = "user"
    /\ Change(1)
    /\ "CreateRace" \in Env \/ \A q \in Proc : call[q].at # "create"
    /\ "RmRace" \in Env \/ \A q \in Proc : ~Opening(q) /\ ~Removing(q)
    /\ "GhostEntry" \in Env \/ dentry[num_dir_entries].name = Blank
    /\ "RmAgain" \in Env \/ \A e \in 0 .. num_dir_entries - 1 :
                               dentry[e].name = name => dentry[e + 1] # dentry[e]
    /\ call' = [call EXCEPT ![p] = Looking("rm", <<name>>)]
    /\ Drop(p)
    /\ UNCHANGED <<num_dir_entries, dentry, inode_array, inode, data_block, file_array>>

\* Mutant: the loop begins one entry late.
ShiftLate(p) ==
    LET c == call[p]
    IN  /\ c.at = "shift"
        /\ \/ /\ c.dent + 1 < num_dir_entries
              /\ dentry' = [dentry EXCEPT ![c.dent + 1] = dentry[c.dent + 2]]
              /\ call' = [call EXCEPT ![p].dent = @ + 1]
           \/ /\ c.dent + 1 >= num_dir_entries
              /\ call' = [call EXCEPT ![p] = User]
              /\ UNCHANGED dentry
        /\ UNCHANGED <<num_dir_entries, inode_array, inode, data_block, file_array, buf, changes>>

\* The entries behind the removed one move up one by one, the last of them the one
\* that is not counted; their number stays, and so do inode and blocks.
Shift(p) ==
    LET c == call[p]
    IN  /\ c.at = "shift"
        /\ \/ /\ c.dent < num_dir_entries
              /\ dentry' = [dentry EXCEPT ![c.dent] = dentry[c.dent + 1]]
              /\ call' = [call EXCEPT ![p].dent = @ + 1]
           \/ /\ c.dent >= num_dir_entries
              /\ call' = [call EXCEPT ![p] = User]
              /\ UNCHANGED dentry
        /\ UNCHANGED <<num_dir_entries, inode_array, inode, data_block, file_array, buf, changes>>

-----------------------------------------------------------------------------
(* cp: both files are opened, and read and appended to until nothing is read *)

Cp(p, src, dst) ==
    /\ call[p].at = "user"
    /\ Cardinality({fd \in Fd : IsFree(file_array[p], fd)}) > 1        \* bound
    /\ MayOpen(p) /\ Change(2)
    /\ "RmRace" \in Env \/ \A q \in Proc : ~Removing(q)
    /\ call' = [call EXCEPT ![p] = Looking("lookup", <<src, dst, src, dst>>)]
    /\ Drop(p)
    /\ UNCHANGED <<num_dir_entries, dentry, inode_array, inode, data_block, file_array>>

CpRead(p) ==
    /\ call[p].at = "cpread"
    /\ ReadData(p, call[p].cp[1], CP_BUF)
    /\ UNCHANGED <<num_dir_entries, dentry, inode_array, inode, data_block, file_array, changes>>

CpWrite(p) ==
    /\ call[p].at = "cpwrite"
    /\ WriteData(p, call[p].cp[2], buf[p])
    /\ UNCHANGED <<num_dir_entries, dentry, inode_array, inode, data_block, file_array, changes>>

-----------------------------------------------------------------------------
\* The steps of a system call after its first.
Step(p) == \/ Search(p) \/ OpenEntry(p) \/ Shift(p) \/ ReadEnd(p)
           \/ Scan(p) \/ SetMark(p) \/ Copy(p) \/ SetLength(p)
           \/ CreateEnd(p) \/ CpRead(p) \/ CpWrite(p)

Next ==
    \E p \in Proc :
        \/ Step(p)
        \/ Halt(p)
        \/ \E name \in Name : Open(p, name)
        \/ \E name \in FileName : Rm(p, name)
        \/ \E src, dst \in FileName : Cp(p, src, dst)
        \/ \E fd \in Fd :
              \/ Close(p, fd) \/ ReadDir(p, fd)
              \/ \E n \in Count : ReadFile(p, fd, n)
              \/ \E data \in Data : WriteFile(p, fd, data)
              \/ \E name \in NewName : Create(p, fd, name)

Fairness == \A p \in Proc : WF_vars(Step(p))
Spec == Init /\ [][Next]_vars /\ Fairness

-----------------------------------------------------------------------------
(* Properties *)

Descriptor == [op : {"none", "std", "rtc", "dir", "file"}, inode : Inode, pos : Nat]

SystemCall ==
    [at : {"user", "lookup", "entry", "rm", "shift", "read", "scan", "mark", "copy",
           "length", "create", "cpread", "cpwrite"},
     fd : Fd, inode : Inode, data : Seq(Byte), written : 0 .. MaxLength, D : Block,
     off : Offset, entry : 0 .. INODE_BLOCKS, n : 0 .. MaxLength, cp : Fd \X Fd,
     names : Seq(Name), dent : 0 .. MAX_FILES_NUMBER]

\* Every variable has its type, a write that goes on has bytes left, and a lookup
\* a name to find and an index within the directory.
TypeOK ==
    /\ num_dir_entries \in 1 .. MAX_FILES_NUMBER
    /\ dentry \in [0 .. MAX_FILES_NUMBER -> Dentry]
    /\ inode_array \in [Inode -> BOOLEAN]
    /\ inode \in [Inode -> InodeBlock]
    /\ data_block \in [Block -> [Offset -> Byte]]
    /\ file_array \in [Proc -> [Fd -> Descriptor]]
    /\ call \in [Proc -> SystemCall]
    /\ \A p \in Proc : call[p].data # << >> <=> call[p].at \in {"scan", "mark", "copy"}
    /\ \A p \in Proc : /\ call[p].names # << >> <=> Opening(p) \/ Removing(p)
                      /\ call[p].at = "entry" => call[p].dent < num_dir_entries
    /\ buf \in [Proc -> Seq(Byte \cup Name)]
    /\ changes \in 0 .. MAX_CHANGES

\* The entries of the inodes that are within the files' lengths; those that were
\* filled by programs and not by the image.
UsedEntries ==
    {u \in Inode \X (0 .. INODE_BLOCKS - 1) : u[2] * BLOCK_SIZE < inode[u[1]].length}
FilledEntries == {u \in UsedEntries : u[2] * BLOCK_SIZE >= Image.inodes[u[1]].length}
BlockOf(u) == inode[u[1]].data_blocks[u[2]]

\* No two files that programs wrote, and no two parts of one, are in one block:
\* find_empty_block gives no block twice, though the first file it serves is in
\* block 0, where the marks are, with other processes between its test and its
\* marking, and after writes that were killed.
NoShare == \A u, v \in FilledEntries : u # v => BlockOf(u) # BlockOf(v)

\* The comment of find_empty_block (filesys.c:245-247): "find one data block that
\* has not been used", whose result is "the index in data blocks array".  The block
\* that is about to be marked is one of the image's, and no file has it.
FindsUnused ==
    \A p \in Proc : call[p].at = "mark" =>
        call[p].D < NUM_BLOCKS /\ \A u \in UsedEntries : BlockOf(u) # call[p].D

=============================================================================
