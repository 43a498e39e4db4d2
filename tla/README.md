# OSlab2017 in TLA+

A verification development of the teaching operating system in `src/`: a 32-bit
x86 kernel for one processor with processes, threads, named semaphores, a small
file system, a keyboard, a text screen, a shell and a game. The repository has no
documentation of its own; what follows is read from the code and its comments.

- [The system](#the-system): its parts, their state, what is hard about them
- [The modules](#the-modules): how the models correspond to the code
- [The runs](#the-runs): what TLC checks, on which instances
- [The proofs](#the-proofs): what TLAPS proves, and how
- [Disagreements](#disagreements): where code and comments differ
- [Not modelled](#not-modelled) and [the plan](#the-plan)

## The system

The kernel loads one program, the shell, into slot 0 of its process table and
from then on runs only inside system calls and device interrupts. It runs with
interrupts off from the gate of `int 0x80` to `iret`, and no interrupt handler
switches programs: the preemption in `timer_event` (`device/timer.c:29-32`) is
commented out. A system call of the current environment is therefore one atomic
step, and scheduling is cooperative. What is hard in this system is not data
races but long sequences of calls, by several programs, over the same small
tables; lists that share a link field; state left behind by programs that are
gone; and the loss of power between two writes to the disk.

| Component | State | Operations | Hard about it | What makes it correct |
|---|---|---|---|---|
| Process table, scheduler (`process/env.c`, `scheduler.c`, `sleep.c`, `exit.c`, `fork.c`, `thread.c`; `fs/fs.c` `sys_frun`) | `envs[NENV]` (status, runs, id, parent, link, page directory), `env_free_list`, `curenv` | load, fork, create thread, exit, sleep, schedule | slots and ids used again while others still name them; the fallback on slot 0 whatever its status; failures nobody tests; sleep counted in the one counter `env_runs` | free list intact, ids unique among processes, nothing runs without memory, round robin, sleepers wake |
| Semaphores (`process/semaphore.c`) | `sem_table[NR_SEM]` (name, value, type, block list), `sem_free_list` | init, destroy, wait, post | block lists use `env_link`, the field of the free list; a blocked environment looks like a sleeper; closing with waiters; any value and type is taken | no lost wakeup, lists apart, one semaphore per name; a counting semaphore |
| System call gate (`irq/do_syscall.c`, `irq_handle.c`, `do_irq.S`, `idt.c`, `i8259.c`, `memory/kvm.c`; `int 0x80` in every program) | frames on the kernel's stack, `env_tf` of each environment, descriptor tables | enter, dispatch by vector and number, return a value, switch | an interrupt before the `cli` of a call nests; the frame gone back to is the one on the stack or the saved one; frames and descriptors are laid out by hand; `fork` has no `break` and goes on into `sleep`; results of the semaphore calls are dropped | programs find their registers, interrupts are served, the stack is bounded, calls reach the function meant |
| Files (`fs/fs.c`, `fs/fcb.c`) | on the disk: bitmap, directory, inodes, blocks; in memory: bitmap, directory, `fcbs[NFCB]` with a copy of the inode and one buffered block each | open, read, write, seek, close, run, list, touch | one block of buffer per open file and never flushed on close; stale copies of inodes; a full disk; lengths below 0; power cut between the writes of one call | blocks belong to one file, the disk alone is consistent, only the bytes written change |
| Disk image (`formatting.c`) | the image | lay out the files | | the initial state of the files |
| Page allocator, address spaces (`memory/pmap.c`, `kvm.c`, parts of `env.c`, `fork.c`, `elf/elf.c`) | `pages[]` with reference counts, free list, page directories | allocate, map, unmap, copy on fork, free | counts that fork and page insertion both raise; a page directory shared by threads and freed by the first that exits; allocation failures dereferenced | no page in two address spaces, none freed while mapped |
| Start-up page tables (`memory/entrypgdir.c`, `page_init`) | a constant directory and table; the free pages | map 4 MB twice; map the rest at `KERNBASE` | tables are written through the very window they extend | the whole memory in the window, no table given out again |
| Keyboard, timer (`device/keyboard.c`, `timer.c`) | the state of each key, a tick counter | interrupt, poll by the program | keys are levels and polled: a press and release between two polls is lost | a key is entered once for each press that is seen |
| Text screen (`monitor/screen.c`) | cursor, cells, scrolling | print with tabs and line ends | arithmetic at the edges; glyphs are drawn over what is there | the cursor stays in the window, text goes to blank cells |
| Video, palette, fonts, serial port (`device/video.c`, `palette.c`, `serial.c`, `monitor/font.c`) | frame buffer, the frame before, screen; the divisor latch | draw, copy what changed, send | three copies that must agree; colours cut to six bits; registers behind a bit | the screen shows the frame; text and colours can be told apart; characters arrive |
| Shell (`my_shell/`) | the line, the key it waits for, the files it has open | ls, echo, cat, run, touch with redirection | polls while keys change; goes on with the -1 of a failed open | one character per press, what is opened is closed, commands end |
| Producer and consumer (`testcase/`) | a buffer count, semaphores | fork, thread, produce, consume | its `main` never leaves its last loop | |
| Game (`game/`, not in the default build) | a pool of falling letters, the table, the score | create, move, catch, miss, draw | letters removed while the list is gone through; a pool that links itself anew when it is empty; draws what was checked a tick ago | no letter lost or counted twice, nothing drawn past the screen, letters land |
| Boot loader, start-up, loader (`boot/`, `kernel/src/main.c`, `elf/elf.c`) | | read the disk, start the kernel, load programs | whole sectors are read where parts are meant | segments as the file says |
| Strings and printing (`lib/`, `kernel/src/lib/`, copies in the programs) | | copy, compare, search, format | overlaps, zero lengths, the least integer, a percent sign at the end | what they are for |

How they interact: a program enters the kernel through the gate; the calls on
processes and semaphores change `envs[]` and end in `schedule_process`; the
semaphores chain environments through `env_link`; `sys_frun` looks up the
directory of the files and creates an environment; loading, forking and exiting
allocate and free pages; the control blocks of files outlive the programs that
opened them; interrupts only fill the key and tick state that programs poll; a
pending interrupt may come in between the gate of a call and its `cli`.

## The modules

| Module | About |
|---|---|
| `Lists` | singly linked lists through a field of an array, what it is to be one (`IsList`), and the lemmas on them |
| `Process` | the process table and scheduler |
| `Semaphore` | the semaphores composed with `Process`: EXTENDS it and its steps are those of `Process` with the semaphores unchanged, or a semaphore call |
| `SemaphoreSpec` | the abstract counting semaphore `Semaphore` implements |
| `FileSystem` | disk, bitmap, directory, inodes, control blocks, and the loss of power |
| `AddressSpace` | physical pages, reference counts, page directories and tables |
| `MemorySpec` | the memories of programs without pages, which `AddressSpace` implements |
| `Gate` | the way into the kernel and back: frames, saved frames, nesting, and what programs find in their registers |
| `Descriptors` | segments, gates, task state, and the frames handlers build, bit by bit |
| `Calls` | the numbers and registers of the system calls, in the programs and in `do_syscall` |
| `Keyboard` | the flags of the keys, set by interrupts and looked at by programs |
| `Shell` | EXTENDS `Keyboard`: the shell's loop and its commands, one step per system call, with the control blocks they open |
| `Console` | the text window and the double buffer, which draw on one screen |
| `Game` | the game's main loop and its pool of letters |
| `Paging` | linear addresses, the constant directory, `page_init` |
| `Loader` | sectors, segments of programs, where programs are on the disk |
| `Strings`, `Numbers`, `Serial`, `Pictures` | the library functions; numbers and messages; a program's `printf` down to the serial port; palette, background and text in pixels |
| `MCSemaphore`, `MCFileSystem`, `MCAddressSpace`, `MCConsole` | for TLC: symmetry, views, layouts of programs, and for each behaviour a kind fixed at its start that says what it may do |
| `Start` | the calls of `Loader` and `Paging`, each with every argument of a set, what they return, and what they are for |
| `MCLibrary` | for TLC: EXTENDS `Start` with the calls of the other pure functions; one state for each call with each argument of a small set, one for its result |
| `Semaphore_proofs` (of `Process` too), `FileSystem_proofs`, `AddressSpace_proofs`, `Gate_proofs`, `Shell_proofs`, `Start_proofs` (of `Console` too), `Game_proofs` | the theorems |

### Process

Variables have the names of the fields of `struct Env`. An environment is its
index in `envs[]`. A pointer is an index or `Nil`. There is one action per
handler: `Boot` (`main` up to the first program), `SysSleep`, `SysExit`,
`SysFork` (which, as in `do_syscall.c:51-54`, goes on into a sleep), `SysFrun`,
`SysCreateThread`. All but `SysCreateThread` end in `Schedule`, the scan of
`schedule_process`: `Picks` names the slot at which the scan stops, `Ticked` the
counters it has raised on its way there, and `env_run` switches.
Memory appears as what the process table can tell of it: an allocation may fail
at any time (`AllocFails`), and an environment has a page directory or not.
Three errors the code does not survive are terminal values of `kernel`:
`"no_env"` (the result of a failed `env_alloc` is used), `"no_root"`
(`find_thread_root` follows an id that is gone) and `"no_vm"` (the fallback
resumes slot 0 after it exited). Since the system really stops there, the runs
on `Process` and `Semaphore` do not check deadlock.

### Semaphore and SemaphoreSpec

`SemInit`, `SemDestroy`, `SemWait`, `SemPost` are the four functions, by name as
programs call them. A call that fails changes nothing. `sem_init` takes any value
and any type (`semaphore.c:41-46`), and so does `SemInit`: a value below 0 stays
there until as many posts have come, and a semaphore created with `SEM_TYPE_FREE`
leaves the free list without being open, so it is lost for good. `sem_lost`
collects those (history, which no action reads). A type that is none of the three
acts as `SEM_TYPE_BINARY` does. `Block` and `Wake` are
the two ways a list of blocked environments changes. The abstract
`SemaphoreSpec` has sets of waiting clients, and values; the refinement maps the
list of each semaphore to its set (`AbsWaiting`), and is checked as the property
`Implements`. Who of the waiters is woken is left open there: the kernel wakes
the one that blocked last.

### FileSystem

The disk is four variables: `disk_bitmap`, `disk_size` (the directory),
`disk_inode` and `disk_data`. In memory are `bitmap`, `file_size` (`rootdir`)
and the fields of the control blocks. A file is the block of its inode, which
also stands for its name, since no call creates or removes files. The actions
are `FOpen`, `FRead`, `FWrite`, `FSeek`, `FClose`; `fcb_alloc`, `fcb_free`,
`fcb_update`, `fcb_switch_buf` and `block_alloc` are operators of these names.
The loops of `sys_fread` and `sys_fwrite` over the blocks of a call are the
recursive functions `Reading` and `Writing`, byte by byte, with the buffer
switched when the position enters another block; the intermediate states of
these functions are what a power cut may leave (`CutAt`). `PowerCut`,
`PowerCutInRead` and `PowerCutInWrite` keep the disk, as far as the call got,
and start again (`Start`: `init_fs` and `fcb_init`). A write happens in the
order data and inodes, bitmap, directory (`fs.c:104-117`).
Sizes are unsigned (`SizeMod` stands for 2^32). A length below 0 gets through the
test in `sys_fwrite` (`fs.c:99`), moves nothing, and may set a size in front of the
position, or one no file can have (`fs.c:112-113`): `NegativeCall`. `Spec` has such
calls, `ForwardSpec` does not; no program in the repository makes one. Lengths are
otherwise anything up to the largest file: `sys_fwrite` refuses more, `sys_fread`
cuts it down. With such a size a call could get to positions behind all that an
inode can name, which is memory behind the control block; there the model stops
(the guards on `MAX_FILE_SZ` in `FRead`, `FWrite` and the cuts, and the range of
`FSeek`).
Block -1, which the code uses when the disk is full, is the sector before the
bitmap and a block like others in `disk_data`. The index passed to a call is one
of an open file. Programs do not all keep to that: the shell closes -1, which is
in `Shell`.
`NewProgram` is the exit of a program and the reuse of its slot: its files stay
open.

### AddressSpace and MemorySpec

`pages[]` is `pp_ref`, `pp_link` and `page_free_list`; what is in a page is
`entry` if it is a directory or table and `data` if a program has it. The
functions of `pmap.c` are operators from a state of the pages to the next, with
`ok = FALSE` where a page is missing that the code then uses. The actions are
`Load` (`env_create`: `env_setup_vm`, then `load_icode` page by page), `Fork`
(`env_setup_vm`, then `fork_store_pgdir` address by address), `CreateThread`,
`Exit` (`env_free`), the `Write` of a program and its `Fault`. The entries of
the kernel, copied into every directory and never changed, are left out. Which
program runs next is open here, and so is which free slot is given out.

`fork_store_pgdir` copies a table only if the child has none for the address,
and asks that before it goes through the table, not for each page: its two loops
are two recursive functions, `CopyTable` within one table.

`MemorySpec` knows no pages: a loaded program has the memory of its image, a
child a copy of its parent's as it is at the fork, a thread that of its creator,
and a write is seen by all who share and nobody else. Memory has a name there,
the page of the directory.

### Gate

Variables are the processor's (`mode`, `ints`, `regs`, the `frames` on the kernel
stack), the controller's (`pending`) and the kernel's (`curenv`, `env_tf`,
`alive`). `due` is what each program should find when it goes on: history, which
no action reads. `Call`, `Trap` and `Interrupt` are the entries through the
gates; `InterruptGate` says which turn interrupts off. From the `cli` to the
`iret` nothing comes in between, so `irq_handle` is one action: it copies the
frame into `env_tf`, as the code does for nested frames too, and returns to it
or switches. What calls do to the system is left open but for what matters here:
`do_syscall` may return a result, make an environment, end one, or give the
processor to any that is there. `eip`, `eax` and `ebx` stand for all registers.

### Keyboard and Shell

`Press` and `Release` are the user's, at any time. The shell's steps are its
system calls: `PollAny` and `PollHeld` are the two polls of the loop in
`ui.c:23-46`, `Prompt` the end of a line, and each command goes through one `pc`
per call, `file_open` and `file_close` being those of the kernel on the list of
control blocks, with fcbs[-1] among them. Lines are sequences of kinds of
characters; which command a line says, and what names, is left open. The code
stores a key without asking whether the line has room (`ui.c:29-33`): `MaxLine`
bounds the model, and nothing here says that a line fits into its 512 bytes. That
reading a file comes to an end is assumed (`left`), too. `fresh`, the
keys pressed and not entered yet, is history.

### Console

The screen and the two buffers are functions from cells to what is drawn there.
`PrintText` is a whole system call of text, of one tab, newline or glyph at a time, in the
window with a margin of one cell on each side; `prepare_buffer`,
`draw_background`, `display_buffer` are the calls of a frame. Text goes wherever
`vmem` points: into the buffer between the first and the last of these.
`display_buffer` compares and copies words of four pixels, here whole cells: a
cell with text printed past the buffer, of which only some words are redrawn
(`video.c:51-59`), is taken as redrawn or not as a whole.

### Game

A pass of the loop is `update_keypress`, then for every tick that is due
`create_new_letter` or `NoNewLetter`, one `update_letter_pos` for each letter of
the list with the successor read before the letter is removed, `NextTick`, and
`redraw_screen`. The pool is `_next`, `_prev`, `free_head` and
`head`. Heights are integers, in parts of a pixel. `created` is history.

### The pure functions

`Strings` has memories, functions from addresses to bytes, and pointers into
them; loops over bytes are written as what they leave, word moves and their
direction kept. `Numbers` prints integers of `Width` bits; it also has the options and the listing
of `ls`. `Serial` takes the
characters of `vfprintf` through the system call to the ports. `Loader` has disk and
memory as bytes; `Start` calls it and `Paging`. `Paging` has page tables as functions,
and keeps for each access to a table whether it was in the part mapped (`sound`). `Descriptors` packs bits in the order
of the structures' fields and reads them as the processor does (`Access`,
`Segment`, `GateOffset`; `Arrival` is what it pushes). `Calls` has for each
function of a program the registers it fills and for each number what
`do_syscall` calls with them. `Pictures` has the palette and the glyphs of some
characters, and pixels by offset; text is drawn by the kernel's functions and by
the copies the shell and the game have of them. Where the programs have copies that
are the same text in the source, one definition stands for all of them: the font
of the shell is that of the game, and the `printf` of the shell and of the test
program is that of the game. That they are equal was seen by comparing the source,
and is not a result of any run.

## The runs

Distinct states in parentheses. The type invariants of modules whose `TypeOK` is
proved are not run; those of `FileSystem`, `AddressSpace` and `Console` are part of
`DiskSoundOnce`, `PagesOK` and `BlankAhead`. Each property has a mutant, a definition with a
plausible bug in it kept beside the original, under which the run fails.

| Run | Shows |
|---|---|
| `process` (278 thousand) | Three slots, all calls: the free list is exactly the free slots (`FreeListOK`); only the fallback can resume a slot without memory (`RunsInItsMemory`); no two processes have one id (`ProcessIdsUnique`); each switch brings the scan closer to every runnable slot it passes over (`RoundRobin`); only `sys_frun` leaves its caller RUNNING and so never run again (`OnlyLoaderLeftRunning`); with programs that come back, a runnable environment runs (`RunnableRuns`) and a sleeper becomes runnable (`SleeperWakes`) |
| `semaphores` (784 thousand) | One semaphore among all process calls, or two names on two semaphores, created with any value and type: nobody is blocked on a semaphore with units left (`NoLostWakeup`), the lists of blocked environments are lists, apart from each other and from the free list (`BlockListsOK`), the table has each name once, and no semaphore is lost but one created with `SEM_TYPE_FREE` (`SemTableOK`), only closing a semaphore leaves an environment nothing can wake (`OnlyDestroyStrands`), and the kernel implements counting semaphores (`Implements`) |
| `files` (412 thousand) | Four kinds of behaviour, below. The disk is sound (`DiskSoundOnce`): no block is in two places, none of a file free in the bitmap, the disk's own bitmap knows the blocks of the disk's inodes, no file is larger than its blocks unless the disk is full, and an open file is not used through a stale inode. A holder sees change only what it writes (`WriteIsLocalOnce`), a file on the disk changes only by calls on it (`FilesApartOnce`); the free control blocks are a list (`FcbListOK`), no position leaves its file unless a length is below 0 (`SeekInFileForward`) |
| `memory` (103 thousand) | Programs, children and threads until memory is short: a page has one use in one address space and none while it is free (`MappedOnceApart`), the tables implement private memories (`ImplementsMemoryApart`), and the list of free pages stays a list even when threads exit from a directory that others run in, that is free, or that somebody else has by now (`PagesOK`) |
| `gate` (384 thousand) | Two environments that compute, call, trap and are interrupted: each finds its registers and its own result wherever it goes on from (`ProgramsUndisturbed`), at most one interrupt is on the stack on top of a call (`NestsOnce`), and a pending interrupt is served (`InterruptsServed`) |
| `shell` (223 thousand) | Two keys and Shift at any time, commands on files that may be missing: once per press (`OncePerPress`), a key held alone is entered (`KeyEntered`), a line that is carried out ends with a newline, its only one (`NewlineEnds`), no control block of the table is open at the prompt (`PromptClosed`), none is lost until an open fails (`ListWhole`), every command ends if the files it reads do (`CommandsEnd`) |
| `console` (260 thousand) | The cursor stays in the window and text is printed on blank cells after any scrolling (`BlankAhead`), and after each frame the screen shows it (`ScreenShowsFrame`) |
| `game` (120 thousand) | The letters are one list and the rest of the pool, which is never used up, the other (`LettersListed`); each letter counts once (`EachCounted`) and lands (`EachLands`), and what is drawn is on the screen (`DrawnOnScreen`) |
| `library` (162 thousand) | 25 statements, in five properties. `LibraryServes`: memory is moved and set, strings are copied, compared and found, numbers, messages, directories and serial output read back, and options are read. `LoadedAsBuilt`: sectors, segments and whole programs are in memory as on the disk. `WindowWhole`: the tables of the start, and `page_init` through them. `TablesAgree`: segments, gates, frames and system calls mean the same on both sides. `PicturesShown`: palette, background and text |
| `files_readers`, `memory_dirs`, `shell_run` | [Disagreements](#disagreements) |

### Bounds, and why they are enough

- Three slots are one that is special (0), one that runs and one that is
  scheduled, freed or blocked in between; the block list of a semaphore then has
  two entries. Nothing in the code distinguishes more.
- `RunsMod`, the width of `env_runs` (2^32), is 3 or 4: small enough to wrap.
  `RunsWrap = FALSE` keeps the counter of an environment that runs or is blocked
  from reaching the values of a sleeper, which takes 2^32 scans in the code.
- `SleepMax` bounds the sleeps asked for, `MaxNrThread` the threads of a process:
  beyond 255 the code's ids run into those of the next slot.
  `IdSpan` (256) is just above the number of threads, or 1 where ids do not matter.
- `RootWaits = FALSE`: slot 0 does not block on a semaphore. The program there
  is the shell, which calls none.
- `MaxVal` and `MaxDebt` bound the value of a semaphore, from -1 to 2: a unit
  owed, none, one, and one more to be lost or invented.
- In `MCSemaphore` a behaviour has one name or two (`used`; the names are
  symmetric, model values with no `CHOOSE` over them). With one name and `tidy`
  programs, which create no semaphore as free and keep to the values 0 and 1, it
  has all process calls. Otherwise it has those that change who may wait, and with
  one name that is not `tidy`, all types and all values.
- Blocks have one byte, inodes two offsets, the disk seven blocks of which two
  are free at first: files grow past their first block, switch the buffer within
  one call, and fill the disk. A length goes up to the largest file, 2 bytes, up or
  down. `SizeMod = 8` is above twice that size, which is all that matters of 2^32.
- In `MCFileSystem` a behaviour has a `kind`. `"data"`: each file open at most once,
  all bytes, power cut between calls. `"cut"`: power cut anywhere, all bytes 0.
  `"shared"`: one file open as often as there are control blocks. `"negative"`: each
  file open at most once, lengths below 0 in writes, and power cut between calls and
  in these. Properties whose name ends in `Once` or `Forward`
  are about the kinds they can hold for. With a second control block on a file, a
  read through its stale inode allocates a block and only the next write saves
  the bitmap; and a cut after the inode and before the bitmap is written leaves a
  block in use that is free on the disk, and is given away again after the start.
- `LiveView` identifies states that differ only in what a closed control block
  has left over, or in `env_fcb_index`. `sys_fopen` sets inode, mode, position,
  size, block and buffer of a control block before any of them is read, so such
  states have the same future, and every property reads these fields of open
  control blocks only; `env_fcb_index` only decides which of its own entries a
  call changes.
- Programs in `memory` have two pages under two tables: with its directory a
  program has five pages, so three fit into `NPAGES = 15`, or two and the pages
  threads lose. The second page is mapped twice, first as a page of zeros: that is
  how the model reaches `page_remove`.
- The counter `pp_ref` is 16 bits wide and there are 2^15 pages, so `RefMod` is
  just above `NPAGES`. It matters: each later exit of a thread counts down from 0,
  and freeing a page twice would take `RefMod` such exits, while each thread
  created loses a page for good.
- Pages are lost by exits and threads and never come back, so every behaviour
  ends (in `"no_page"`, `"no_env"` or `"fault"`), and no run on memory checks deadlock.
- `apart`: in this kind of behaviour no thread exits while another shares its
  directory. `MappedOnceApart` and `ImplementsMemoryApart` need it, since that exit
  frees the directory (`memory_dirs`). In the other kind threads exit, and nobody writes.
- `gate` has two environments, a call of each sort (with a result, without,
  fork, sleep, exit, wait, thread, load, and 30, which is none), an instruction
  that faults, divide errors and page faults, the timer and line 7, which no
  handler was written for. `MaxNest = 3` is one more than ever happens but for the
  exceptions that stop the kernel.
- `shell` has a letter and Enter; what Shift does to one letter it does to all.
  One character before the newline, a `cat` of two files with or without
  redirection, a file that takes one read or two, one name that is on the
  disk and one that is not, and as many control blocks as a command can hold open.
- `console` has a window of two rows, so that scrolling, line ends and tabs at
  both edges all happen; eight columns, one more tab stop than a line holds;
  pictures (`pictures`) are all blank or all filled, and no tabs are printed among them.
- `game` has a pool of three and one, two speeds such that a letter can overtake
  another, a screen of 32 by 32 pixels with two columns for letters, and a letter
  every three ticks, which is close to what the pool can hold: with one more on
  the screen `fly_new` would fail. The code's numbers leave much more room (10001
  nodes, a letter every 50 ticks that lands within 400).
- `library`: memories of 12 bytes, words of four; strings of up to two
  characters from 0, 1 and 200; integers of 8 bits; sectors of two bytes, pages of
  two sectors, in `page_init` of four bytes, with eight entries to a table, 24 pages and the kernel's
  window at entry 5; a screen of 24 by 20 pixels, with the shifts that multiply by
  24 as 8 and 6 do by 320; halves of addresses with each byte and both signs.
  Call numbers, vectors, selectors, palette and registers are all of the code's.

### Fairness

`process` assumes `Cooperative`: the first program is started, and a
program that runs comes back to sleep or to exit. Nothing in the kernel makes it,
so this is an assumption on programs, not on the kernel. `my_shell` and `hello`
satisfy it; `main` of `testcase`, which ends in `while (1)`, does not, and keeps
the processor for ever. The properties then say that the scheduler passes the
processor on fairly.

`gate` assumes that the processor goes on (`irq_handle` is taken), that it takes
an interrupt that is pending again and again while interrupts are on, and that
devices leave it time to get past the `cli` of a call. `shell` and `game` assume
that the program's own steps are taken (its loop is never preempted), and nothing
of the user: keys may go up and down or never move. `semaphores`, `files`,
`memory`, `console` and `library` are about safety and assume no fairness.

## The proofs

For every value of the constants that satisfies the assumptions of the modules:

| Theorem | States |
|---|---|
| `ProcessTypeCorrect`, `FreeListCorrect`, `ResumedWithMemory` | of `Spec` of `Process`: `TypeOK`, `FreeListOK`, `RunsInItsMemory` always |
| `RoundRobinHolds`, `OnlyLoaderLeftRunningHolds` | of the same: each step keeps to `RoundRobin` and `OnlyLoaderLeftRunning` |
| `ProcessIdsUniqueHolds` | of the same: `ProcessIdsUnique` always, assuming `MaxNrThread \in 1 .. IdSpan - 1` |
| `SemTypeCorrect`, `NoLostWakeupHolds`, `SemTableCorrect` | of `SSpec` of `Semaphore`: `SemTypeOK`, `NoLostWakeup`, `SemTableOK` always |
| `BlockListsCorrect`, `OnlyDestroyStrandsHolds`, `ImplementsHolds` | of the same, assuming `~RunsWrap` and `~RootWaits`: `BlockListsOK` always, `OnlyDestroyStrands`, and the refinement `Implements` of `SemaphoreSpec` |
| `FcbListCorrect` | of `Spec` of `FileSystem`: `FcbListOK` always, shared files, power cuts and lengths below 0 included |
| `PositionsCorrect`, `PositionsForward` | of `ForwardSpec` of `FileSystem`, which has no lengths below 0: `SeekInFile` always, shared files and power cuts included; and so of `MCSpec` of `MCFileSystem`: `SeekInFileForward` |
| `DiskSoundOnceHolds`, `WriteIsLocalOnceHolds`, `FilesApartOnceHolds` | of `MCSpec` of `MCFileSystem`, in each of its kinds of behaviours: `DiskSoundOnce` always, `WriteIsLocalOnce`, `FilesApartOnce` |
| `PagesAlwaysOK`, `PagesOKHolds` | of `Spec` of `AddressSpace` and of `MCSpec` of `MCAddressSpace`: `PagesOK` always, whoever exits |
| `MappedOnceApartHolds`, `ImplementsMemoryApartHolds` | of `MCSpec`: `MappedOnceApart` always, and the refinement `ImplementsMemoryApart` of `MemorySpec` |
| `GateTypeCorrect`, `Undisturbed`, `NestsOnceHolds` | of `Spec` of `Gate`: `TypeOK`, `ProgramsUndisturbed`, `NestsOnce` always |
| `ShellTypeCorrect`, `NewlineLast`, `ClosedAtPrompt`, `ListWholeHolds`, `OncePerPressHolds` | of `Spec` of `Shell`: `TypeOK`, `NewlineEnds`, `PromptClosed`, `ListWhole` always, and `OncePerPress` |
| `ConsoleTypeCorrect`, `ScreenShows`, `BlankAheadHolds` | of `Spec` of `Console`: `TypeOK`, `ScreenShowsFrame` always; of `MCSpec` of `MCConsole`: `BlankAhead` |
| `WindowAlwaysWhole`, `LoadedAlwaysAsBuilt` | of `StartSpec` of `Start`: `WindowWhole`, `LoadedAsBuilt` always |
| `GameTypeCorrect`, `DrawnOnScreenHolds`, `LettersListedHolds`, `EachCountedHolds` | of `Spec` of `Game`: `TypeOK`, `DrawnOnScreen`, `LettersListed`, `EachCounted` always |

The `MCSpec`s are not small instances: a behaviour has a kind, fixed at its
start, that says what it may do (a file open once or more often, power cut between
calls or anywhere, threads that exit or not), and the theorems are about every
size of disk, memory and window. That a property of the `Once` or `Apart` sort
needs its kind is shown by the disagreements below and by the notes on the kinds
[above](#bounds-and-why-they-are-enough).

What is assumed of the constants is in the `ASSUME`s of the modules, and is what
the code's numbers satisfy: sizes are positive, a screen has room for a glyph, the
image fits on the disk, a counter of references is wider than there are pages.
Some of it deserves a word:

- `PoolAssumption` (`Game`): even the slowest letter lands before the pool is used
  up. With the code's numbers 8 letters are on the screen at most, of 10001.
- `~RunsWrap`, `~RootWaits`: no counter of a program that runs or is blocked
  goes through 2^32, and the shell waits on no semaphore. Without the first the
  scheduler wakes who is blocked, without the second it runs slot 0 all the same.
- `MaxNrThread \in 1 .. IdSpan - 1`: no process creates more than 255 threads. The
  code does not test it, and with more the ids run into those of the next slot.

**Lists.** `Lists` shows once what popping (`ListPop`), pushing (`ListPush`),
removing from anywhere (`ListRemove`) and writing other links (`ListFrame`) do to a
list, and that the list the start-up loops build is one (`InitialList`). `IsList`
says that no part of the list is closed under the links, instead of following them:
so none of this needs induction along a list. Where the code or a property does
follow links, `Hops` names the k-th entry met: hops do not repeat before the end,
and so reach every entry (`HopsDiffer`, `HopsReach`). The induction in it is over
numbers below a bound, and rests on `<` being well-founded (`UpTo`); so does
`Repeated`, that a loop defined as a recursive function has a value after each pass.

**Process.** `TableInv` is type, free list and page directories together. Each
needs the others: a slot that is given out comes from the free list, so it had no page
directory; and a freed slot was current, so it was not on the list.
`ScheduleTable` says of every scan that the slot it stops at is runnable or slot
0, and that it leaves the free slots alone unless slot 0 was free.
`RoundRobin` follows from the definition of the scan and the type invariant.
`OnlyLoaderLeftRunning` needs that each call but `sys_frun` sets its caller's status
before it schedules. `ProcessIdsUnique` rests on `IdInv`: an id that is that of a
process is the slot's own, because a slot that has run counts at least one thread,
so a thread's number within its process is never 0; ids of two slots then differ.

**Semaphore.** `NoLostWakeup` is inductive with the types: whatever value a
semaphore starts with, who waits found it not above 0, and a post with somebody
waiting wakes instead of raising it. `SemTableOK` is a list of the semaphores that are
neither open nor lost, and the names. `BlockListsOK` needs most: a list of blocked environments
stays a list only if its members stay blocked. The scheduler would wake
one like a sleeper if its counter reached 0, so `Awake` bounds the counters of all
that run or are blocked (hence `~RunsWrap`), and `QuietLists` says which set of
environments is on which list, all of them blocked, none slot 0 (hence
`~RootWaits`, for the fallback runs slot 0 whatever its status). `ListInv` joins
these with `TableInv` while the kernel is up. The refinement follows from it call
by call: the walk of `AbsWaiting` along a block list finds the set of `QuietLists`,
since hops reach all of a list; `sem_wait` and `sem_post` push and pop one entry of
it, and a call that schedules leaves the lists of others alone. So does
`OnlyDestroyStrands`: who is idle (`Idle`) after a call and was not before
is on a list after it, unless the call destroyed that list's semaphore.

**FileSystem.** The list of control blocks is proved as above. The types of
positions and sizes (`PositionType`) hold of all calls. `SeekInFile` is inductive
with them and with sizes a file can have (`InSize`), for lengths from 0 on: then
nothing wraps, a write ends at most at the size, or makes the size its end, and a
read or a seek stays below the size of the own control block, which others do not
change. A write of a length below 0 breaks both parts of it.

The properties of blocks need the loops of `sys_fread` and `sys_fwrite`.
`ReadingRuns` and `WritingRuns` give the passes of a loop, any number of them;
`Advances` says what one pass does: inodes and bitmap only grow, only in the file
of the loop; blocks are allotted only at the position, and none if that has one or
the disk is full; and while no two places share a block (`Apart`), the bytes of
the file as the loop sees them (`View`: the buffer, or else the block) change only
where the pass writes, those of other files (`OthersKept`) not at all. For the
buffer written back lands in the block it came from, which is nobody else's.
`AllPasses` sums this up for all passes (`Passed`), and is used for a whole call as
well as for the pass at which power fails. The invariant is `FileInv`: types and
positions; unless files are shared, `Held`, that the memory agrees with the disk
between calls, each open file has one control block, its inode is current and its
buffer has a block; and with power cut between calls, `Apart`. `Held` needs
`SizeHasBlocks`: a read of what lies below the size then allots nothing, so the
bitmap on the disk, which only a write saves, stays right.

**AddressSpace.** There are two invariants, one for all behaviours and one for those
in which nobody exits from under others.

Whoever exits, a page may be freed while it is mapped, given to somebody else and
freed again by those who still run in it; that the free pages stay a list
(`PagesOK`) is no longer a matter of who uses what. `ListInv` has two parts.
`Kinds` gives each page the part it plays: tables, pages of programs, pages lost to
threads (`sys_create_thread` drops the directory made by `env_alloc`, counted 1 and
in no table), and the rest, which are directories in use or not, and free pages.
Only the rest have tables, and only tables have pages, each once; so whoever finds
its pages runs in one of the rest, and only one of the rest is given back by an
exit. `Counted` reads their counts as signed numbers (`Wrap`): at most 1, at most 0
on the free list, and never so low that more slots have the page for their
directory than its count and the number of lost pages allow. An exit frees a page
only from 1, so it was not on the list. And no count gets so low that it wraps round
to 1: every slot too many has lost a page for good, and there are fewer pages than
counts (`RefMod > NPAGES`). `Under` says this while a directory is built; its lemmas
are one for each function of `pmap.c` and for the loops (`WalkShape`, `InsertShape`,
`LoadShape`, `CopyPageShape`, `ForkShape`). A fork may come across a directory
that is a table of somebody else by now: what it takes for tables is empty then.

While nobody exits from under others, the invariant is `Sound`: each directory in use is a tree, its
tables and pages all different (`Tree`), no two trees share a page, and the free
list holds none of theirs. While `env_create` or `fork` builds a directory, `Build`
says this of the one that is being built, with all others in one set of pages
that `Kept` leaves as they were; a lemma for each function of `pmap.c` shows
it kept (`Inserted` for `page_insert`, with the page that was mapped before given
back), then for the loops (`Loaded`, `Copied`, `TableCopied`, `Forked`), whose
passes are those of `Repeated`. For the refinement each lemma also says what is at
every address afterwards (`Sees`): what was written, and elsewhere what was
there. A program's view is then its memory in `MemorySpec`.

**Gate.** `Placed` says where the frames are: the outermost frame on the stack
is the program's, with the registers it is due, those on top are of the kernel and
never of a call, and every environment that waits has its registers in `env_tf`.
A switch then resumes from `env_tf`, a return from the stack, and either is right.
`Nesting` adds that an interrupt that nests has turned interrupts off.

**Shell.** `KeysInv`: a key that is down and was entered is the one the loop waits
for, so a poll that enters a key enters a fresh one. `OpenHeld`: a control block
of the table that is open is held in `fp` or `fp_out` by a command that has not
come to its close yet. `TypeOK` types the characters of the line, not its length.
`NewlineEnds` is inductive: a line is carried out from the moment Enter is appended to it,
and emptied when the loop is entered again. `ListWhole` walks the free
list: `FreeOK` says that until an open fails it is a list of exactly the closed
control blocks, and `HeldOpen` that what a command will close is open, so
nothing is put on the list twice.

**Console.** A drawing on either grid changes only cells noted in `direct`
(`DrawKeeps`); copying the cells that differ makes the screen the frame. Where
there is text alone, `Clean` says that it goes to the screen itself and that the
cells from the cursor on are blank; a tab does not go back, and scrolling moves up.

**Start.** There is no `Spec` of a machine here, but calls with every argument, of
functions with loops. `Window` is what `page_init` has built after any number of
pages: as many tables as there are full ones behind it (`More`), made of the first
free pages. One pass leads from each to the next (`WindowStep`), and finds the
page it takes for a table among those it has mapped (`PageReached`), because the
page's number is above that of the tables, however large they are (`Enough`);
an address is taken apart as it was put together (`TakenApart`). Of the loading,
`ReadInPages` is what matters: `readseg` reads whole sectors, and so more than a
segment on both sides of it, but only sectors with a byte of the segment's
place, so nothing outside its pages. `SegmentLoaded` then says what one segment
becomes, and `ProgramLoaded` that those loaded later leave it alone, since no two
have a page in common. `StartAssumption` has pages of whole sectors, and memory
wherever a segment goes; that segments lie in a page as they do in the file and
share none is what linkers do, and is in `Segments` and `Programs`.

**Game.** A letter is checked when it moves, so what is drawn later needs
`LettersHigh`: every letter in the list is above the lower edge, and its column
leaves room for two glyphs. That the list is whole (`ListInv`) takes the back links
(`Linking`), the free nodes (`Pool`), and why there is always one of them: a letter's
height is its speed times its age in ticks, letters are created `PERIOD` ticks apart,
so `Ages` gives each a different turn, and as many turns as the pool has nodes
would put the oldest below the screen, by `PoolAssumption`. The age also tells the
letters that the current tick has moved from those that are still to be moved,
which is what makes removing one from under the loop harmless. `Counted` is the
balance of created, alive, hit and missed letters, but for multiples of `ScoreMod`.

Only model-checked:

- Liveness (`RunnableRuns`, `SleeperWakes`, `InterruptsServed`, `KeyEntered`,
  `CommandsEnd`, `EachLands`): fairness and `ENABLED` are out of the provers' reach.
- `LibraryServes`, `TablesAgree`, `PicturesShown`: the first is about operators that
  are `RECURSIVE`; the others compare tables of the code's own numbers, entry by entry,
  with what the processor and the screen make of them, and TLC goes through them all.
- That a property is violated (the three runs under Disagreements).

## Disagreements

- `files_readers`: `sys_fwrite` declines who did not open for writing. But
  `fcb_switch_buf` writes the buffer back unconditionally (`fcb.c:49`), so a reader
  that moves on overwrites its old block with what was in it when it read it.
- `memory_dirs`: `env.c:165-167` asks for directories to be counted so that
  `env_free` works. `sys_create_thread` shares a directory without counting, and
  the first of the threads that exits frees it under the others.
- `shell_run`: `run` and `touch` say "The file does not exist!"
  (`cmd_handler.c:103`, `:123`) of a file that does. `echo` and `cat` go on with
  the -1 that `file_open` returns for a missing file, and close it;
  `sys_fclose(-1)` puts `fcbs[-1]`, the memory before the table, on the free list,
  and the next open returns -1 for whatever file it opens. Two such closes in a
  row link it to itself, and every open after them fails so.

Seen while modelling, in one line of code each, and in the models, but without a
run of their own:

- A comment at `env.c:501-503` sets the environment switched out back to
  RUNNABLE. The code does not; `sys_frun` relies on it, and its caller, unless it
  is slot 0, is never run again (`OnlyLoaderLeftRunning` says that no other call
  loses its caller so).
- A comment at `idt.c:63` has unexpected interrupts handled by `irq_empty`, which
  ends in `assert(0)`: a line that nobody handles stops the kernel.
- A page fault (`idt.c:82`) is taken for a general protection fault, which
  `irq_handle` ignores: the program repeats it for ever.
- `SEM_TYPE_FREE` is exported to programs (`testcase/include/semaphore.h`), and
  `sem_init` takes it (`semaphore.c:41-46`): the semaphore is lost. No program does so.
- `sys_fwrite` takes a length below 0 (`fs.c:99`) and may set a file's size in front of
  its position (`fs.c:112-117`). No program does so.
- The results of the semaphore calls are dropped (`do_syscall.c:62-73`); the
  programs' functions return the number of the call, which is true.
- A child forked by a thread runs on that thread's stack and counts its threads
  from 1, so the first it creates gets the same stack (`thread.c:34`).
- A tab at a tab stop does not move (`screen.c:45`).
- `get_tick` counts 18 times fewer than the interrupts, the game's `HZ` is 100;
  its `release_key_u` releases nothing, for it passes an index where scan codes
  above 128 are expected; its `assert` prints and goes on.
- `get_num` tests for 4294967295, which no `int` is; an unknown directive of
  `vfprintf` takes an argument; `itoa` of a negative number has wrong digits;
  `strchr` never finds 0. All three programs have copies of the printing functions (`Serial`).
- `sys_frun` takes the blocks after the first for the program's, whatever its inode says;
  the builder lays them out so (`ProgramWhereBuilt`).
- `ls -l` writes before its buffer if a name is longer than its column.
- The limit of the task state is 99, less than its 104 bytes; vector 17 pushes a code its
  handler does not expect; `start.S:41` says that the stack is at 0x8000 and
  the code puts it at 0x8000000; characters above 127 index before the font.
- `env.h:62` calls `env_id` a unique identifier. It is made of the slot and a
  number that starts again with each process, so a thread that outlives its
  process has a namesake when the slot is used again.
- A process that has too many files open is told so (`fs.c:48`), but the counter
  tested there is never counted up.
- `pp_ref` is documented as the number of pointers to a page (`memlayout.h:179`);
  `fork_store_pgdir` sets it to 1 and `page_insert` raises it to 2.
- `env_free` "frees env e and all memory it uses" (`env.c:398`), but the loop
  that would is commented out: it frees the directory only.
- `fcb_free` clears as many bytes as a pointer has and writes nothing back, so the
  last block written before closing never reaches the disk; files of a program
  that exits stay open; `fs.c:112` reads `src[size - 1]` after `src` has moved to
  the end. No comment says otherwise.

## Not modelled

- The program of `testcase`: its `main` never leaves its last loop, and since
  nothing preempts it, none of its threads ever runs. Its calls are in `Calls`,
  the semaphores in `Semaphore`.
- `sys_ftouch`: the time it sets is in memory only, until the next directory
  write. Empty directory entries, which the empty
  name would match.
- What a wild pointer overwrites after an unchecked failure, and what is in
  `fcbs[-1]` but its link and whether it is open.
- The kernel's own mappings in each program's directory (they are in `Paging`
  for the kernel's), permissions and the TLB; the stack pointers of
  threads, which leave the stack region after 31 of them; `mm_malloc` of a page
  that two segments share (`env.c:319` assumes there is none).
- Which registers other than `eip`, `eax`, `ebx` a program has, in `Gate`; all of
  them are in `FramesFit`.
- Most glyphs of the fonts, and the values of the background's bytes: constants
  no property is about. `read_palette`, `loader()` of `elf.c` and many macros of
  `mmu.h`, `memlayout.h` and `x86.h`, which nothing calls.
- `init_timer`, the waiting for the disk, the switch to protected mode: single
  sequences of port writes and instructions. `rand`: any value.
- The failures of the image builder, which stop the build.

## The plan

Done, in this order: `Process`, `Semaphore` over it with `SemaphoreSpec`,
`FileSystem`, `AddressSpace` with `MemorySpec`; then `Gate`, `Keyboard` with
`Shell`, `Console`, `Game`, the pure functions under `MCLibrary`; and proofs for all
those with state, both refinements among them, and for `Loader` and `Paging`. What could follow:

1. An abstract specification of files as sequences of bytes, implemented by
   `FileSystem` while no file is shared, from `Passed`; `Shell` over `FileSystem`
   itself, for `cat` of a file onto itself.
2. The stacks of threads in `AddressSpace`.
