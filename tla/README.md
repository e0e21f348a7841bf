# Burn-OS in TLA+

Burn-OS is a small kernel for the 386 in C and assembly: three text terminals,
six processes, a round-robin scheduler driven by the timer, Unix-like system
calls, signals, a virtualised real-time clock and a small file system. This
directory holds a formal model of it. The code runs on one processor, but four
sources of interrupts (timer, keyboard, real-time clock, exceptions) come
between the instructions of the kernel, and nearly everything is global state
that several handlers change by hand. That is where tests reach least, and
where the model is aimed.

## Inventory

All files are directly under `src/`.

| Component | Files | State it keeps | Operations |
|---|---|---|---|
| Processes | `system_call.c` | `process_array`, `parent_pid`, `cur_process`, one PCB per process at the low end of its kernel stack (saved frame pointers, files, signals), `exception_flag` (`idt.c`) | `execute`, `halt` |
| Scheduler | `scheduler.c`, `pit.c` | `active_array`, `sche_term`, `tss.esp0`, the page directory entry at 128MB | `scheduler`, `pit_handler`, `get_owner_terminal` |
| Exceptions, interrupt entry | `idt.c`, `handler.S`, `sys_call.S` | the IDT and its gate types | `exception_handler`, entry and exit code that calls `do_signal` |
| Video windows | `scheduler.c`, `terminal.c`, `system_call.c` | `cur_terminal`, `page_tbl[0xB8]`, `page_tbl_usr_video`, the video page and three back buffers | `update_video_mem_paging`, `terminal_switch`, `vidmap` |
| Text output | `lib.c` | cursors `multi_terms[t].x, y`, the display's cursor, colours | `putc`, `putc_intr`, `clear`, `clear_intr`, scrolling |
| Line input | `keyboard.c`, `terminal.c` | per terminal: line buffer, `count`, `char_location`, history, `read_open`, `enter_flag`; modifier flags | `keyboard_handler`, `fill_line_buffer`, `terminal_read`, `terminal_write` |
| Signals | `signal.c` | `sig_pending`, `sig_mask`, `sig_handler` per PCB, `SIGINT_flag` | `send_signal`, `do_signal`, `set_handler`, `sigreturn` |
| Real-time clock | `rtc.c` | per terminal: `counter`, `required_count`, `tick`, the rainbow; the alarm counter | `rtc_handler`, `rtc_open`, `rtc_read`, `rtc_write` |
| File descriptors | `system_call.c` | `file_array` per PCB | `open`, `close`, `read`, `write`, closing in `halt` |
| File system | `filesys.c`, `system_call.c` | boot block with directory entries, inodes, data blocks | lookup, `read_data`, `write_data`, `dir_read`, `dir_write`, `cp`, `rm` |
| Interrupt controller | `i8259.c` | two masks | `enable_irq`, `disable_irq`, `send_eoi` |
| Boot | `kernel.c`, `paging.c`, `boot.S`, `x86_desc.*` | descriptor tables, page tables | run once with interrupts off |

How they interact:

- The timer interrupt calls `scheduler`, which changes the current terminal,
  its process, the address space, the kernel stack of the next entry and the
  video windows, and then returns *on another stack*.
- `halt` returns from the `execute` of the parent, also on another stack.
- The keyboard interrupt writes to the screen and the line buffer of the
  *foreground* terminal (`cur_terminal`), while system calls work for the
  *scheduled* terminal (`sche_term`). The two change independently.
- Every interrupt and exception ends in `do_signal`, which may call `halt`.
- System calls enter through a trap gate, so interrupts come between any two of
  their instructions unless they do `cli`. Hardware interrupts and the page
  fault enter through interrupt gates, most exceptions through trap gates.

What makes each component correct, and which behaviours are hard, is listed
line by line under `hazards` in `PROJECT.json`. In short:

- Processes and scheduler: a saved frame pointer is good only while nobody else
  has used that part of the stack; the tables must agree after every one of the
  hand-written updates; every terminal must get its slices.
- Video: each terminal must have the screen it would have if it had a display
  of its own.
- Line input: what a program reads is what its user saw on the line.
- Signals, clock: one that was sent is delivered once, to the right process.
- File descriptors, files: a closed or ended user holds nothing; no two files
  share a block; what is written is there as a whole or not at all.

## Modules

| Module | What it is |
|---|---|
| `ProcSched` | `execute`, `halt`, `scheduler`, and exceptions that end a process |
| `TerminalJobs` | abstract: every terminal is a stack of jobs, taking turns |
| `MCProcSched` | `ProcSched` for TLC and its mapping to `TerminalJobs` |
| `ProcSchedProof` | the inductive invariant of `ProcSched`, its safety theorems, and the proof that it implements `TerminalJobs` |
| `Screen` | the effect of a character on a screen and its cursor, for programs (`putc`) and for the echo (`putc_intr`) |
| `Video` | page mappings, back buffers, terminal switch, `vidmap`, all writers |
| `VirtualScreens` | abstract: every terminal has a screen of its own |
| `MCVideo` | `Video` for TLC and its mapping to `VirtualScreens` |
| `ScreenProof` | what `putc`, `putc_intr` and the scroll functions of `Screen` do to a page, cell by cell |
| `VideoProof` | proofs about the mappings of `Video`, and that it implements `VirtualScreens` |
| `LineInput` | the line buffer, its history and echo, and `terminal_read` |
| `MCLineInput` | `LineInput` for TLC, with the file names for completion |
| `LineInputProof` | proofs that the line stays in its buffer, is what the screen shows, what the read returns and what the history brings back |
| `FileSys` | directory, inodes, blocks and descriptors; lookups, `open`, `close`, `read`, `write`, `cp`, `rm`, the making of files, the end of a process |
| `FileStore` | abstract: a directory of files that grow by whole appends, where a removal may leave an entry that is listed twice |
| `MCFileSys` | `FileSys` for TLC, an image, and its mapping to `FileStore` |
| `FileSysProof` | proofs that no operation leaves its tables, and that no two files that programs wrote share a block |
| `Rtc` | the virtual clocks of the terminals, and the colour that their ticks turn |
| `RtcProof` | proofs about the clocks and colours of `Rtc` |
| `Signals` | who sends signals, `do_signal`, handlers of programs, `sigreturn` |
| `SignalsProof` | proofs of the types and of three properties of `Signals` |
| `Induction` | induction over numbers, and functions defined by recursion, as facts about sets; used by `ProcSchedProof`, `LineInputProof` and `FileSysProof` |

### ProcSched

The state is that of the code, variable by variable: `process_array`,
`parent_pid`, `active_array`, `sche_term`, `cur_process`, `exception_flag`. The
page directory entry and `tss.esp0` are modelled by the process whose page and
stack they designate. `eax` is what `execute` last returned.

The kernel stacks are the part that needs explaining. The code saves `%ebp` in
a PCB and later goes on with it: `scheduler` in `sche_ebp`, `execute` in
`exe_ebp`. Such a pointer designates a frame on some kernel stack. `kstack[p]`
is the sequence of saved frames alive on the stack of process `p`, outermost
first, each with its kind and its process; a saved pointer is an address
`[stack, depth]`. Entering the kernel from user mode starts at the top of the
stack, over everything that was there: `Beneath` is empty. The exception is a
process that is still in `execute` after `sti` and before `IRET`
(`pc[p] = "iret"`): it runs on its caller's stack, above the frame of `execute`.
Continuing with a frame discards it and all that lies above. When the kernel
continues with an address that no longer holds the expected frame, `lost`
becomes true and nothing more happens: from there the code executes whatever
it finds. `home` is a history variable, the terminal on which a process was
executed, for the properties to refer to.

| Action | Code |
|---|---|
| `Boot` | first `execute` in `entry` |
| `Execute`, `ExecuteFails`, `Iret` | `execute`: its success up to `sti`, each of its `return -1`, and its `IRET` |
| `Raise(how)` | `exception_handler`, through an interrupt gate, through a trap gate, or for a program with a handler of its own |
| `HaltChild(s)`, `HaltBase(s)` | `halt` of a child; of a base shell, which is executed again at once, or fails to be |
| `PitSwitch`, `PitLaunch` | `pit_handler` and `scheduler`: to a terminal that is up; to one whose base shell must be executed |

`halt`, `execute` up to `sti`, and `scheduler` do `cli` or run with interrupts
off, so each is one action. The file descriptors and signal fields of the PCB
are left out.

`Env` names six rare events (see the comment in the module). With `Env = {}`:
no command is run before the last base shell is up, no tick is pending when the
scheduler's own `execute` does `sti`, the file `shell` stays intact, a base
shell raises no exception, exceptions are page faults (the gate of which keeps
interrupts off), and no program handles its own fault. The theorems do not need
all of that; see below.

### Screen and Video

`Screen` holds the arithmetic of the cursor, of scrolling, inserting and
deleting, over a linear memory of which the screen is the beginning, as in the
code: `scroll_right_char` does not know where the screen ends. A cell is blank
(space or NUL) or holds a glyph. Colours are left out.

`Video` keeps the physical memory that matters, the video page and the back
buffer of each terminal right behind it, at the addresses of `system_call.h`
(page 0, and page `t + 1` for terminal `t`), and the two windows: `base` for
the kernel's 0xB8000, `usr_base` and `usr_present` for the one page table entry
that all programs' video at 132MB goes through. `putc` does `cli`, interrupt
handlers run with interrupts off, and so each is one action. `vidmap` runs with
interrupts on and is two actions, with the memset that clears the entry as the
end of the first. `clear` is atomic because the only caller after boot,
`exception_handler`, is taken here through the interrupt gate of the page fault;
with a trap gate its loop can be interrupted, which is not modelled. What the
keyboard handler does to the line buffer, and cursor keys, are not in this
module but in `LineInput`: `Echo` can take any character at any time, as
`fill_line_buffer` lets it when no program is reading.

`Env` again names the events after which something is known to be wrong:
`LeaveEarly`, `PageOverflow`, `BackgroundVidmap`, `VidmapPreempt`,
`BackgroundFault`. The passing run has none of them, and with each of them alone
one of its properties fails: `WindowsFollow` with `LeaveEarly`,
`BackgroundVidmap` and `VidmapPreempt`, `ImplementsScreens` with `PageOverflow`,
`CursorShown` with `BackgroundFault`. `LeaveEarly` has a run, `video_early`; the
others are hazards in `PROJECT.json`. That a program keeps the video memory it was
given is no property of its own: `vidmap` alone writes the present bit of the page
table entry, and only a tick in its middle, `VidmapPreempt`, could show it cleared.

### LineInput

`tty` is the `terminal_t` of one terminal, field by field, with the page it
shows (`mem`) and its cursor (`pos`); `prog` is the program on it, which prints
a prompt and calls `terminal_read`; `seen` holds what the user has seen, for the
properties to refer to. The terminal is in the foreground, and then the
keyboard's `multi_terms[cur_terminal]` and the reader's `multi_terms[sche_term]`
are the same whenever the reader runs; terminal switches only delay it.

The keyboard interrupt runs with interrupts off: each key is one action, with
all the `fill_line_buffer` and `putc_intr` calls it makes (`Type`, `Backspace`,
`Enter`, `CURSOR_LEFT`, `CURSOR_RIGHT`, `CURSOR_UP`, `CURSOR_DOWN`, `Tab`,
`ClearScreen`). `terminal_read` runs with interrupts on and is taken step by
step: the opening of the read, the wait (`Wake`), one `Copy` per character, the
history (`Record`), one `Reset` per field, `ClearLine`. `Record` and `ClearLine`
stand for a few statements each, and the newline that is put behind the copied
text is left out.

`Killed` is Ctrl+C: the program ends anywhere in `terminal_read`, nothing is
reset, and the next program of the terminal prints and reads. In the passing run
it leaves `read_open` and no more. With a line begun, entered or selected in the
history, or with keys before the next read, the next reader gets what is not
its own: that is `KilledRead`, which breaks `Echoed`.

Buffers are functions of the index, with what is behind the end of the text in
them: much of what goes wrong in the code comes from there. Index -1 of the line
buffer exists because the code writes to it. `Tab` uses `find_similar_file`,
reduced to its result; the buffer it fills is an uninitialised local array
without a NUL of its own, so that any `Junk` may follow the name, also a newline
or a backspace (`StackControl`). A space shows
as an empty cell and is a character of the line nevertheless.

`Env` names eleven events, each of which alone breaks a property of the passing
run. `TypeAhead` has a run, `line_ahead`; the others are
hazards: `FrontErase` (backspace at the front of the line: `count` is 1, so the key
is accepted, the prompt loses a character and `char_location` is -1, outside
`TypeOK`), `SpaceEdit` and `WrapEnter` (the echo), `StaleTail`, `ShorterDraft` and
`EmptyBrowse` (history keys), `ClearMidLine` (Ctrl+L with a line begun: the line
goes on invisibly), `UnreadHistory` (history keys without a reader), `KilledRead` (above), `StackControl`. Two guards
are bounds of the model instead: `Fits` keeps the line off the last cell of the
screen, and a line is entered only while the history has room, because past
these the code writes twice, or outside its arrays.

### FileSys

`num_dir_entries` and `dentry` are those of the boot block, with the one entry
behind the directory that the code also touches; `inode_array`, `inode` and
`data_block` are the arrays of the code. `find_empty_block` looks through
`BLOCK_SIZE` marks whatever the number of blocks in the image (4096 against 71),
so `data_block` goes on into the memory behind the image. `file_array` has the
descriptors of each process. A process stands for whatever runs on one terminal: a
parent waits for its child and makes no calls. `call` is where a process is in a
system call, with the locals it has there.

System calls run with interrupts on, so a process of another terminal can do
anything between two of their steps, and the process itself can be killed there.

| Action | Code |
|---|---|
| `Open`, `Search`, `OpenEntry` | `open`: the call, `read_dentry_by_name` one entry a step, the copy of the entry that was found with the filling of the descriptor |
| `Close`, `Halt` | `close`; the descriptors when a process ends, at any point of a call |
| `ReadFile`, `ReadEnd` | `file_read`: `read_data` up to the length that is read, and its loop with the new position |
| `ReadDir` | `dir_read` |
| `WriteFile` | `file_write`, and `write_data` up to its first block |
| `Scan`, `SetMark`, `Copy`, `SetLength` | `write_data`: the test of `find_empty_block`, its store and the link in the inode, one `memcpy`, the new length |
| `Create`, `CreateEnd` | `dir_write`: the name, and the inode with the new number of entries |
| `Rm`, `Search`, `Shift` | `rm`: the call, its loop over the names, and the entries that move up, one a step |
| `Cp`, `Search`, `OpenEntry`, `CpRead`, `CpWrite` | `cp`: two lookups, two `open`s, and each turn of its loop |

`find_empty_block` looks for a byte that is zero at the start of the *data
blocks*, not in `data_blocks_bitmap`: byte `i` of data block 0 is the mark of
block `i`. `filesys_init` fills the bitmap and nothing reads it. The image of
`MCFileSys` is like `filesys_img` in the repository: block 0 is all zero and no
file lies in it, the blocks of the image's files have no marks, entries of
`data_blocks` behind the end of a file are 0, inodes that no entry has are
empty. So the first block that is found is block 0, the text written to it is
read as marks, and the next ones may be blocks of the image's files. Nothing is
therefore promised of the bytes of files that the image fills
(`FilledEntries` of `NoShare`, `StoredContent` of `MCFileSys`); what programs
write to other files is kept apart even so, and that is what the run
`files` and `NoShareHolds` show. That a block that is found was nobody's, as
`find_empty_block` has it ("find the first empty data block"), is what
`files_unused` refutes.

The comments on `file_write` and `dir_write` ("do nothing and return -1",
`filesys.c:364` and `444`, "always (for read-only)" below) are those of an earlier,
read-only file system. Both functions write, and the model follows them.

`Env` names eleven events. Six are about blocks: `SameFile` (two writes to one
file at a time), `AllocRace` (a second process in `find_empty_block`, or in block
0, between the first one's test of a mark and its setting), `BoundaryAppend` and
`ThirdBlock` (an append to a file that ends with its block, and a write that
needs two more blocks: the code then uses an entry of `data_blocks` that was
never linked, or links two blocks in one), `NulBytes` (zeros in block 0 make
blocks free again), `ImageWrite` (a file that the image fills is written to).
Five are about the directory: `CreateRace`, `RmRace` (`rm` while another call
looks for a name), `RmAgain` (`rm` of a file that a killed `rm` left in two
entries), `RmThenCreate` (`rm` does not lower the number of entries, so the next
name is put behind a gap, and the one after that has no inode to take),
`GhostEntry` (`rm` pulls in what a creation that failed left behind the last
entry). None of them is in a run. Two of them need no second process: with `BoundaryAppend` one more byte for
a file of one whole block goes to the beginning of block 0 (with blocks of 4096
bytes `cp` does this to every file longer than a block, four times 1024 bytes after
its start), and with `ThirdBlock` one write of two blocks and a byte loses the second
block. TLC finds `ImplementsStore` violated with either. Bounds: a directory has at most
`MAX_FILES_NUMBER` entries, as many as fit in the boot block; at most `MAX_OPEN`
descriptors are open and `MAX_CHANGES` calls change something; `cp` finds two
free descriptors and both files.

`FileStore` has the directory, the contents and the descriptors. `asked` are the
names that a call of a process has still to deal with: an open or a removal is
of the first of them. `again` counts the entries that a listing may show twice,
because an `rm` is moving entries, or was killed while it did: reading the
directory then may give a name once more, and none is left out.

### Rtc

Per terminal, `tick`, `counter` and `required_count` are those of `rtc.c`, and
`ATTRIB`, `rainbow_flag`, `rainbow_ptr` the colour of its text. `pc` is where its
program is in `rtc_open`, `rtc_read` or the system call `color`. `earned` and
`chosen` are history: the interrupts since the last read that count for the next
one, and the argument of the last `color`.

`rtc_handler` is one action, with the virtual clock and the rainbow of all
terminals; it can come between any two stores of the calls, which are actions of
their own (`rtc_open`, `OpenCounter`, `OpenRequired`; `rtc_read`, `SeeTick`,
`ReadReturns`; `color_call`, `RainbowOff`, `RainbowPtr`, `RainbowFirst`).
`rtc_write` has one store that another actor reads and is one action, taken
whatever the counter is. It divides the frequency by 2 (`rtc.c:108`), where
`rtc_open` has `FREQ_MAX / FREQ_DFT`, so that a higher frequency gives slower ticks,
against `rtc.c:96` ("write new rtc frequency"); the model does as the code does. `Enter` is the turn of the rainbow by Enter in
`fill_line_buffer` and `Kill` the end of a program in the middle of a call.
Counters are `COUNT_MOD` wide for the 2^32 of the code: a counter that has
passed `required_count` has to go round.

`Env`: `OpenRace` (a period ends between two stores of `rtc_open`), `ColorRace`
(an interrupt that turns the rainbow, an Enter or a kill between the stores of `color`).

### Signals

`jobs` has the processes of each terminal as in `TerminalJobs`, but with pids
that are used again; `sig_pending` and `sig_handler` are fields of the PCBs,
`frames` the contexts that `do_signal` has put on the user stack of a process and
`sigreturn` takes off. `owed` is history: what was sent and has not been
delivered. `death` is how the last process ended, with whether the message
about SIGINT was printed.

Interrupt handlers run with interrupts off, and `do_signal` at their end too, so
an interrupt is one action: `CtrlC`, `terminal_switch`, `Pit`, `Alarm`,
`Interrupt` (any other one) and `Raise` (an exception). Each does what its
handler does to the pending sets and then `do_signal` for the process the kernel
goes back to: for `Pit` that is the one of the next terminal. `Raise` is one step
for every exception, as it is for a page fault; the others enter by trap gates
with interrupts on, and a tick within `exception_handler` is modelled in
`ProcSched` (`TrapFault`) and not here. `set_handler`,
`sigreturn`, `execute`, `Halt` are the system calls, and `OtherCall` the begin
and the end of a long one. `sig_mask` is set and never read, and left out.

`Env`: `FaultAfterSigint` and `TwoSigints`, after either of which `SIGINT_flag`,
one flag for all processes, belongs to another death. Bounds: at most
`MaxNested` handlers of a process interrupt each other; base shells install
none; a handler is not entered in the middle of a system call, because
`do_signal` would take the user stack pointer from a frame of the kernel that has
none.

## Runs

| Run | Constants | Result |
|---|---|---|
| `procsched` | 3 terminals, 5 slots, statuses {0, 200}, depth 1, `Env = {}`, with fairness | holds: about 118,000 states |
| `procsched_launch` | 4 slots, `Env = {"LaunchPreempt"}` | `NeverLost` fails |
| `procsched_trap` | 5 slots, `Env = {"TrapFault"}` | `ExitStatus` fails |
| `video` | 3 terminals, screen of 1 row and 2 columns, `Env = {}` | holds: 42,000 states |
| `video_early` | 2 terminals, `Env = {"LeaveEarly"}` | `WindowsFollow` fails |
| `line_input` | 2 rows, 3 columns, lines of 2 characters, 2 lines of history, 1 key between reads, 1 kill, `Env = {}`, with fairness | holds: 840,000 states |
| `line_ahead` | `Env = {"TypeAhead"}` | `ReturnsLine` fails |
| `files` | 2 processes, image of 2 blocks of 4 bytes, 6 inodes with 2 blocks, a directory and 3 files, 2 changes, 2 open files, `Env = {}` | holds: 427,000 states |
| `files_unused` | as `files` | `FindsUnused` fails |
| `rtc` | 2 terminals, 3 colours, frequencies {0, 3, 4, 8}, counters modulo 4, `Env = {}`, with fairness | holds: 498,000 states |
| `rtc_late` | as `rtc`, with the frequency 2 | `Timely` fails |
| `signals` | 2 terminals, 3 slots, handlers for 3 signals, `MaxNested = 2`, `Env = {}`, with fairness | holds: 76,000 states |

`procsched` shows:

- `NeverLost`: no context switch continues with a released frame.
- `Running`, `Lineage`: the tables agree on who runs; each terminal's processes
  form one line in which only the last one runs.
- `Resumable`: whatever is suspended still has its frame, on the right stack.
- `OwnerTerminal`: `get_owner_terminal`, which rests on base shell `t` having
  pid `t`, names the terminal a process was really started on.
- `ExitStatus`: `execute` returns 256 exactly when the program died of an
  exception.
- `EveryTerminalRuns`: every terminal gets its shell and its slices for ever.
- `ImplementsJobs`: each terminal is a stack of jobs; only the one whose turn it
  is changes its stack, at the top.

`video` shows `WindowsFollow` (both windows are on the page of the scheduled
terminal whenever its program can write), `CursorShown` (the display's cursor is that of the
foreground terminal) and `ImplementsScreens` (the whole thing is as if every
terminal had a display).

`line_input` shows `Echoed` (the screen is what it was before the read, followed
by the line buffer and nothing else, with the cursor where the next edit
happens), `ReturnsLine` (the read returns the line as it was at Enter, and only
after one), `Recalls` (a history key brings the line that was read, or the one
that was being typed) and `EnterReturns` (every Enter ends the read, unless a kill does).

`files` shows `ImplementsStore`: seen through the directory, the contents and
what reads return, the system is a `FileStore`, in which a file only grows, by
the whole of what was written or a first part of it, at once; a read returns
bytes of its file in order; `open` opens the first file of the name it was
given; every file has an entry that `dir_read` lists, and one that is removed is
gone with the first store of the move. Calls go on between any two entries,
blocks and stores of another one, and are killed there.

It also shows `NoShare`: no two files that programs wrote, and no two parts of
one, are in one block, with two writes at a time, writes that find all marks set
half way, the first file in the block of the marks, and processes that are killed
between any two steps.

`rtc` shows `OnTime` (a clock with its counter below `required_count` stays so,
wherever interrupts come, until a rate is written, and `rtc_open` puts the clock
of every earlier program right), `NotEarly` (a
read returns once for `required_count` interrupts at most), `ColorShown` (the
colour is the chosen one, or where the rainbow is) and `ReadEnds` (every read
ends, if only after the counter has gone round).

`signals` shows `Addressed` (what is pending for a process is what was sent to
it and has not come), `Prompt` (no process goes on with a Ctrl+C it has not
seen), `Reported` (the message comes with deaths by Ctrl+C and no others) and
`Delivered` (every Ctrl+C is).

The violated runs are findings; `PROJECT.json` has each with the line of the
code and the sentence it contradicts.

- `procsched_launch`: terminal 1's shell is executed by the scheduler on the
  stack of terminal 0's process. A tick that becomes pending during that
  `execute` (it reads a file from memory and copies a program) is taken right
  after `sti`; its frame stays on terminal 0's stack, and terminal 0's process
  releases that space when it resumes.
- `procsched_trap`: after an exception through a trap gate, a tick; another
  program halts and gets 256, and the faulting one reports 0.
- `video_early`: backspace with the cursor in the upper left corner while a
  program that does not read runs, for instance after ctrl+l: the window stays
  on the foreground terminal.
- `line_ahead`: backspace right after Enter, before the reader's next slice: the
  program reads a shorter line.
- `files_unused`: with one file begun, the next block that is found is that of
  the image's file.
- `rtc_late`: wait one interrupt, then write a rate that needs one: the next tick
  comes when the counter has gone round.

### Bounds, and why they are enough

`NUM_TERMINAL` is 3, as in the code: the smallest number for which a terminal is
neither scheduled nor in the foreground. Five process slots leave two beyond the
base shells, so that two terminals compete for slots, one terminal has a chain
of three, a pid is recycled on another terminal, and the table fills up. (Four
slots miss the chain; six add only a longer one.) Statuses: one that is small
and one above 127, to tell sign extension. `MaxDepth` bounds how many saved
frames may lie on a stack when a base shell restarts, the only action that can
make stacks grow without limit when it is repeated before any `IRET`; with
depth 2 the run still holds, at 744,000 states.

A screen of one row scrolls at every newline and every second character, so
all pages are rewritten all the time; two columns are the least for which the
code's column arithmetic works as it does with 80. Positions in several rows
matter only inside `Screen`. One glyph is enough: a character on the wrong
screen, or missing, shows against a blank. The passing run has no spare cells;
`video_early` has one per page.

For `line_input`, lines of two characters have a beginning, an inside and an
end, and are full at two; two lines of history and a draft tell apart the three
cases of a history key. With three columns a line begun after a prompt and one
echoed key wraps to the next row, and the screen scrolls at every second Enter.
One character and the space tell the order of characters. Programs ask for one
byte, less than a line, or two. The bound `MAX_UNREAD` on keys between two reads
is 1; without kills the run still holds with 2, at 1.2 million states.

For `files`, blocks hold four bytes and a write has five, so that it begins one
block and goes on in another, or finds the marks all set in between; `cp` appends
two bytes at a time, as far as one block, because the file that it copies has three. The
four blocks that `find_empty_block` knows are block 0, where the marks are, the one
of the image's file, and two behind the image. Two changes are two concurrent writes,
a copy (which counts two), a removal beside a write, or two creations. The directory of four entries has
an inner one and a last one to be removed, and six places for what is created.
Processes are symmetric; no liveness property is checked in this run, so that
symmetry is sound.

For `rtc`, the device interrupts four times a second, and `required_count` is 2
by default. The frequency 4 gives 2, too, and 0 gives 0 (2 would give 1: the code divides
the frequency by 2); 3 is no power of two and 8 above the maximum, and both are
refused. Counters modulo 4 can pass every `required_count`, be seen there and go
round. Of the three colours the first two are those
of the rainbow; programs choose the third, white, or the rainbow.

For `signals`, three slots on two terminals make one terminal's shell wait for a
child while the other's next one has no slot; a slot is used again by the other
terminal. Three handled signals are a fault, Ctrl+C and the alarm, two nested handlers an
interrupted one.

### Fairness

- `SF(Pit)`: the timer ticks for ever and the interrupt controller keeps a
  tick until it is taken (`pit_handler` acknowledges before it switches), so a
  tick is taken if interrupts are enabled again and again. Strong, because each
  system call that does `cli` disables the action.
- `WF(Iret)`: the end of `execute` is six instructions without a loop.
- `WF(FaultHalt)`: from `exception_handler` the processor runs straight to
  `do_signal` and `halt`.
- `WF(Read)` (`LineInput`): the reader gets its time slices, which is
  `EveryTerminalRuns` of `ProcSched`, and from Enter on it waits for nothing.
- `WF(Boot)`: the processor executes `entry`.
- `SF(rtc_handler)`, `WF(Step(t))` (`Rtc`): the device interrupts for ever,
  because the handler reads its register C every time, and a program in a call
  gets its slices. Strong, because an interrupt that is an event left out of
  `Env` is only put off.
- `WF(Pit)` (`Signals`): as above; interrupts are on in every state of that module.
- `WF(Step(p))` (`FileSys`): a process within a call gets its slices.

Nothing is assumed of programs: they may compute for ever.

## Theorems

All are proved with TLAPS. Those about `ProcSched` hold for every value of the
constants that `ConstantsAssumption` admits (at least one terminal, at least as many slots as
terminals, 0 among the statuses).

- `TypeCorrect`: `Spec => []TypeOK`, for every `Env`. The work is in
  `FirstFree` (a set of pids that is not empty has a least element) and in
  stacks staying sequences of frames.
- `NeverLostHolds`, `RunningHolds`, `LineageHolds`, `ResumableHolds`, under
  `Quiet`: the environment has neither `EarlyCommand` nor `LaunchPreempt` nor
  `ShellRemoved`. Faults of base shells, faults through trap gates and programs
  that handle their own faults are all covered, more than the passing run has.

The properties are not inductive. The invariant `IInv` of `ProcSchedProof`
adds what they rest on. While base shells are missing, the taken slots are
exactly those of the terminals up to the scheduled one (`Booting`); hence base
shell `t` has pid `t`, and keeps it, because `halt` of a base shell frees a slot
below which no other is free, and `execute` takes the first one. A parent waits
with a single child, on the same terminal, and is not on its way to user mode
(`Parents`), so its stack holds one frame, that of its child (`ExeFrames`). The
frame of a preempted process is on its own stack, or right above the frame of
`execute` if it was preempted before `IRET` (`ScheFrames`), and who runs in that
window is at the top of the stack (`OnTop`). There is one lemma per action, and
under it one step per conjunct. The bounds of `IInv` are those of `TypeOK`:
nothing in the argument depends on `MaxDepth`.

`ExitStatusHolds` is for `Env = {}`, and shows why each event must be out: a
fault through a trap gate can be preempted, a program that handles its fault
never clears the flag, and neither does the halt of a base shell. Its invariant
`FlagInv` says that the flag is up exactly while the running process is on its
way from an exception to `halt`; the other half is that a slot becomes free only
in `HaltChild` (`StaysBusy`), because a base shell gets its own slot back.

`OwnerTerminalHolds` and `JobsRefined` follow chains of parents of any length and
need induction. The library states it for operators, which no prover here can
instantiate; `Induction` gets it for sets, from the library's facts that `<` is
well-founded on the natural numbers and that a set has then a minimal element. With it `HasLines` is an
invariant of `Spec` under `Quiet`: for each terminal that is up there is a finite sequence of pids,
base shell first, active process last, each the parent of the next, with every
process of the terminal in it once. It is kept by construction: `execute`
appends to the line, `halt` cuts off its last element, all else leaves it alone.

- `OwnerTerminalHolds`: the loop of `get_owner_terminal` goes down the line and
  the first pid below `NUM_TERMINAL` it meets is the base shell (`Booting` of `IInv`
  says that no other process has such a pid).
- `JobsRefined`: the mapping to `TerminalJobs` reads these lines with a recursive
  function; the line that exists is shown to be the one it computes, and then each
  action maps to one of `TerminalJobs`: `Boot` to `OpenFirst`, both timer actions to
  `Switch`, `Execute` to `Start`, `HaltChild` to `Finish`, and the rest to `Refuse`
  or a stutter.

`ScreenProof` has no theorem of its own to list. It says of each operator of
`Screen` what is in every cell afterwards (`scroll_screen` moves by a row,
`scroll_right_char` and `scroll_left_char` move the run behind the cursor) and that
nothing in a page beyond what the operator may touch has changed, from `ScreenAssumption`.

`VideoProof`, from `ScreenAssumption` and `VideoAssumption` (at least one row
and two columns, pages longer than the screen):

- `TypeCorrect`, for every `Env`: `putc` and `putc_intr` keep the cursor on the
  screen, in all their cases.
- `WindowsFollowHolds`, without `LeaveEarly`,
  `BackgroundVidmap` and `VidmapPreempt`. `WInv` adds that a program within
  `vidmap` is the running one and in the foreground, and that the entry is present
  from the first complete `vidmap` on, unless one is under way.
- `CursorShownHolds`, without `BackgroundFault`.
- `ScreensImplemented`: `Video` implements `VirtualScreens`, under `ScreensQuiet`
  (neither `LeaveEarly` nor `BackgroundVidmap`, `VidmapPreempt` or
  `PageOverflow`). The screen of a terminal is page 0 if it is in the foreground and
  its back buffer otherwise. A character is written at an address of the whole
  memory, while `VirtualScreens` applies the same operator to a screen: `TopPutc` and
  `TopPutcIntr` of `ScreenProof` say that the beginning of the result is the
  result on the beginning, and `WInv` that it is the right page. For the echo, which moves a run of
  characters without knowing where the page ends, the run ends on the
  page when `PageOverflow` does not happen (`RunEnds`). `BackgroundFault` is allowed,
  more than the run has: it leaves only the display's cursor wrong.

`LineInputProof`, from `LineInputAssumption` and `ScreenAssumption`, for every
size of the screen, the line buffer and the history and every set of names:

- `LineInputTypeCorrect` and `ReturnsLineHolds`, under `Orderly`: none of
  `FrontErase`, `TypeAhead`, `KilledRead` and `StackControl`. Without `TypeAhead`, keys come before
  a read and while it waits, and none between Enter and its return: what happens there is
  the run `line_ahead`. Seven other events may happen, none of which the
  passing run has. `LInv` strengthens the types (what is in the line and in the
  history are letters, each history line ends before its last cell, the
  cursor is not behind the end, except between two of the resets) and says for each step of
  `terminal_read` what is so far copied, counted and reset. `FrontErase` breaks
  `TypeOK` itself, because `char_location` becomes -1.
- `EchoedHolds`, under `Tidy`: of the eleven events only `ShorterDraft` and
  `EmptyBrowse` may happen. `EInv` says that the line is on the screen while a
  program waits (`Displays`) and that otherwise nothing is behind the cursor. A
  key that types, erases or moves is one lemma each on top of those of `ScreenProof`. History
  keys, Tab and Ctrl+L are folds over a string or a number of erasures, and go by
  `InductionUpTo` over the state after each single character.
- `RecallsHolds`, under `Remembering`: the events are among `SpaceEdit`,
  `StaleTail`, `WrapEnter` and `ClearMidLine`, and no program asks for 0
  bytes. `HInv` has what the history holds (`Holds`) and where the user is in it
  (`Place`). The condition on `Nbytes` came out of the proof: a read of
  0 bytes records nothing and does not go back to the end of the history, so that
  with an old line selected at Enter the next read begins there
  (`terminal.c:80-92`, where `cur_buffer_id` is set only if something was copied).

`RtcProof`, from `RtcAssumption`, for every number of terminals, rate and width
of the counters:

- `RtcTypeCorrect`, for every `Env`.
- `OnTimeHolds` and `NotEarlyHolds` under `ClockQuiet`, without `OpenRace`; rates
  are written at any count, also such that the clock is late. `ClockInv` relates `earned`, of which `NotEarly`
  speaks, to the variables of the code: it is at least the counter, and a whole
  `required_count` more while the tick is set; a read that is about to reset the tick has
  it set.
- `ColorShownHolds`, without `ColorRace`. `ColorInv` follows the three stores
  of `color` and says what is already true at each.

`SignalsProof`, from `SignalsAssumption`, for every number of terminals and
slots and every set of handled signals:

- `SignalsTypeCorrect`, with no process in two places.
- `AddressedHolds` and `PromptHolds`. `do_signal` takes one signal only, the one
  with the least number, so that a second one would stay behind. `SigInv` says that
  there is none that matters: a fault never outlives its exception
  (`NoFaultLeft`), and the current process has no Ctrl+C pending (`Prompt`); what
  is left behind can only be an alarm. A process has one place, so that a signal
  for `active(t)` is for nobody else, and the bound on nested handlers leaves
  room for the pending ones (`Nests`).
- `ReportedHolds`, without `FaultAfterSigint` and `TwoSigints`. `MessageInv` adds
  that the flag is set while a Ctrl+C is pending, and that one at most is.

`FileSysProof`, from `FileSysAssumption` (the image is well-typed; nothing is
assumed of its number of blocks, nor that it has marks), for all sizes and numbers of processes:

- `FileSysTypeCorrect`, for every `Env`. `TypeInv` adds to the types what
  each step knows from those before it: a read stays within its file, because
  files only grow; a write that goes on has bytes left and an entry below
  `INODE_BLOCKS` to link; `cp` reads a regular file; an entry that was found is
  within the directory, whose number of entries never falls.
- `NoShareHolds`, under `Quiet`: neither `SameFile`, `AllocRace`,
  `BoundaryAppend`, `ThirdBlock` nor `NulBytes`. `NoShare` speaks of the blocks
  within the lengths of the files,
  and a block is taken long before a length says so. `ShareInv` therefore speaks
  of the *held* entries: those within a length, and those that a write
  has linked and filled or is filling, the image's excepted. They have different
  blocks, all marked; a block that was found is not marked, and one process at a time has
  found one; a write looks for a block only when its bytes end at the end of one
  (`WriteAt`). Then taking, linking and filling keep it, the new length makes
  held entries used ones, and a kill only gives up held entries: their blocks stay
  marked and are lost. Marks are bytes of block 0 that are not zero, and so the
  argument has to follow what is written there: the mark that was just set, the text of
  the file that lies in block 0, and what writers to the image's
  files put there, whose blocks may be any. None of them writes a zero, and so a block
  that is marked stays marked.

The proofs also changed four definitions of the models, none of which changes
what TLC sees. The keys and prompts of `LineInput` that put a whole string are recursive
functions (`puts_intr`, `PutAll`), as are the line of `MCProcSched` and the directory of `MCFileSys`, so that their
values can be unfolded one step at a time. `Echoes` of `LineInput` was a CASE whose
arms overlap, which leaves its value to the choice of TLC; it is a
disjunction now. `ScreenAssumption` says that newline and backspace are not
glyphs, on which `putc` depends.

Only model-checked: `EveryTerminalRuns`, `EnterReturns`, `ReadEnds` and `Delivered`
(liveness is out of the prover's reach), and `ImplementsStore`. Its proof would
need, beside `ShareInv`, that the entries with names are the first ones of the directory
and that entries that are equal lie side by side, that a lookup has passed no entry
of its name, and what was copied in a write so far.

## Not modelled

- `cp` when a file cannot be opened, `getargs`, `ps` and the parsing of the command
  line: they copy strings of one process.
- A signal handler entered in the middle of a system call, and the bytes of the
  context on the user stack: with the context missing, what the code does there
  is not defined.
- `clear` interrupted at an exception through a trap gate, and the echo at the last
  cell of the screen (see `hazards`).
- A directory with more than `MAX_FILES_NUMBER` entries, where the code writes
  behind the boot block.
- `i8259.c`: three functions that write bytes to ports, with interrupts off. The
  state is the device's.
- Boot code, descriptor and page table set-up, the loading of the IDT:
  straight-line, run once with interrupts off. `printf` and the string functions,
  `tests.c`, and the programs in the file system image.

What could come next: weaker promises that hold with more of the events. Each event
of `Env` names a way in which a promise fails; what is still true then (of the other
files after `RmThenCreate`, say) is neither stated nor proved.
