# LightNightOS: a TLA+ verification project

LightNightOS is a small x86_64 teaching kernel: a boot loader, interrupt and
timer set-up, a page allocator and heap, a cooperative scheduler, an in-memory
file system with a block and an inode cache, a text console with virtual
terminals and a shell. This directory holds TLA+ models of its core, TLC
configurations that check them on small instances, and TLAPS proofs of the most
important results for every instance.

Paths below are relative to the repository root; `kernel/` stands for
`src/kernel/`.

## 1. The system

| Component | State | Operations | Hard parts |
|---|---|---|---|
| Page frames (`kernel/memory.c`) | `free_pages_list`, `ref_count` and `next` of each `struct Page`, `total_free_pages`, the heap range | `init_page`, `alloc_page`, `free_page` | regions that are not 2 MB aligned, holes, an unsigned count tested with `<= 0` |
| Heap (`kernel/memory.c`) | list of `malloc_header`s from `malloc_head` | `malloc`, `free` | splitting, coalescing, blocks that grow past a page, growing by one frame |
| Scheduler (`kernel/scheduler.c`) | `g_procs`, `g_current`, `g_next_pid`, `g_scheduler_started` | `process_create`, `process_yield`, `process_exit`, `scheduler_start` | slot and stack reuse, exiting on the stack that is being freed, the last process, starvation |
| Context switch (`kernel/context_switch.asm`) | saved registers, `rsp`, `rip` | `context_switch_asm` | what is on the stack when `rsp` is saved |
| Interrupts (`kernel/interrupts.c`, `interrupt.c`, `isr.asm`, `kmain64.asm`) | two descriptor tables, IDTR, PIC mask | `idt_init` (twice), `pic_init`, exception and IRQ entry | order of set-up, which table is live, missing gates |
| Timer, keyboard (`kernel/timer.c`, `keyboard.c`) | `g_ticks`; the controller's buffer | handlers, `kbd_flush` | a key that arrives at any moment of the set-up or of the handler |
| File system (`kernel/fs/fs.c`) | inode table, open-file table, `next_fd`, `last_created_inode` | create, open, close, read, write, seek | full tables, closing twice, stale descriptors, name lookup |
| Block cache (`kernel/fs/block.c`) | 64 slots, 16 blocks of storage | read, write, free, clear, flush | lookups with different tests, copy directions, full cache |
| Inode cache (`kernel/fs/inode.c`) | 256 slots | read, write, delete, add/remove block, flush | pointers into slots, reused slots |
| Console, terminals (`kernel/console.c`) | screen, backup of the screen, cursor, ring of scrolled-off lines and its view, buffer and cursor of four terminals | print, clear, scroll, view up and down, switch, move the cursor | the same text is kept in three places; a view that is drawn over, cleared or switched away from; the end of the bottom row |
| Shell (`kernel/shell.c`) | line buffer with two positions, command history, saved line | one per key; `echo`, `help`, `clear` | C strings edited in place, lines longer than a row, state that outlives the line it belongs to; runs inside the keyboard interrupt |
| Directories (`kernel/fs/dir.c`) | none | print, or return a fresh zeroed record | - |
| Boot loader (`src/boot/`) | - | E820, disk read, mode switches | runs once, sequentially |

Interactions. Everything that allocates (process stacks, file tables, block
storage) calls the heap, which takes whole frames from the page allocator.
The scheduler switches only inside `process_yield`, `process_exit` and
`scheduler_start`: `scheduler_tick` returns at once, so timer interrupts never
preempt. Interrupt handlers call the console and the shell but neither the heap
nor the scheduler. The keyboard handler passes a function key to `vt_switch`, and
any other key to the shell once `shell_active` is set, to the console before.
`kernel_init` runs console, interrupts, timer, keyboard and memory set-up,
executes `sti`, and then calls `shell_init`; the calls that start the scheduler and
the file system are commented out. The modules model those components as their
functions define them, for the callers `kernel.c` shows.

What makes each component correct:

- page frames: the free list is finite, and holds exactly the pages nobody owns;
- heap: allocations are disjoint from each other and from headers, lie in usable
  RAM, can be freed, and freeing everything restores one block; calls return;
  `NULL` means that no page is left and no free block has room to spare (it may have
  just the room that was asked for, see section 5);
- scheduler: one process runs, on its own stack, that stack is allocated;
  contexts belong to the process in the slot; nobody starves;
- interrupts: whatever is let through has a gate; handlers do not nest; no key
  or tick is stuck; an exception reaches the panic screen;
- file system: no inode and no open-file slot is handed out twice or lost; a closed
  descriptor is dead;
- caches: one slot per block or inode, and slots in use are not given to another;
- console: screen, backup and terminal buffer agree; the view shows consecutive
  lines of the past; terminals do not disturb each other; what is printed is there;
- shell: the buffer behaves as an editable line, commands get the words of the
  line, and the user sees the line that is edited.

## 2. Modules

| Module | Models | Notes |
|---|---|---|
| `PageFrames` | the copying loop of `init_memory_map`, `init_page`, `alloc_page`, `free_page` | What the boot loader left in memory is a constant; where the map ends, which frames exist and the heap range are computed from it as the code does. |
| `PageClients` | callers of the page allocator | Adds a caller that releases a page again. |
| `Allocator` | - | Abstract specification: a set of disjoint live allocations. |
| `Heap` | `malloc`, `free` | Extends `PageFrames`. One step per loop iteration. |
| `HeapContiguous` | - | The assumption that frames are adjacent, and the inductive invariant `IInv`. |
| `HeapProofs` | - | Theorems about the heap, and about the page allocator under any callers. |
| `Scheduler` | `scheduler.c`, the save and load of `context_switch.asm` | Stacks are model values; `malloc` may fail or return any stack that is not allocated. |
| `SchedulerProofs` | - | Theorems about the scheduler. |
| `SchedStack` | the words a switch leaves on a stack | Composes with `Scheduler`: each of its actions is a scheduler action plus what happens to the stack. |
| `Interrupts` | `kernel_init`'s order, both tables, PIC, timer, keyboard protocol | Processor, PIC and keyboard controller are external. |
| `Fs` | `fs.c` | |
| `BlockCache`, `InodeCache` | `block.c`, `inode.c` | |
| `InterruptsProofs`, `FsProofs`, `BlockCacheProofs`, `InodeCacheProofs` | - | Theorems about these four. |
| `ConsoleState` | the functions of `console.c` | Each is an operator from a console (a record of the C variables) to the console it leaves, so that callers compose calls. |
| `Console` | callers of `console.h`, and the keyboard handler while no shell is active | One call per step. |
| `ConsoleProofs` | - | Theorems about the console. |
| `LineEditor` | - | Abstract specification: a text with a cursor, a log of submitted lines, and a draft. |
| `Shell` | `shell.c`, and the handler's dispatch to it | Extends `ConsoleState`. One key per step, with everything it prints. |
| `ShellProofs` | - | Theorems about the input line, with the refinement of `LineEditor`, the arguments of a command and the line on the screen. |
| `BootRace` | `kernel_init` from `sti` on | Extends `Shell`: `shell_init`'s output store by store, with the keyboard interrupt between any two stores. |
| `MC*` | - | Values of the constants for TLC. |

Correspondence. Variables carry the names of the C variables; history
variables (`live`, `held`, `begun`, `issued`, `closed`, `given`, `wrapped`, `keys`, and the fields `past`, `last` and `argv`) are marked as such where they are declared and no action is
guarded by them, except to let callers use only values they were given and to bound the
number of keys. A
pointer to a `struct Page` or to a slot is its index. Heap addresses are
physical byte addresses; the kernel adds one constant to each. Operators named
as mutants in comments are deliberately wrong variants of the definition below
them, kept to show that the properties notice the difference.

Atomicity. Calls of the kernel run to completion with respect to each other:
there is one processor and no preemption. So a scheduler, file system or cache
call is one step. `malloc` and `free` take one step per loop iteration, because
what the walks know half way is what their proof is about. In `Interrupts`,
where devices act at any time, a step is one port access or one instruction
that matters: each iteration of the keyboard loop, its last status test and
its end of interrupt are separate steps. A key is one step of `Shell`: its
handler runs with interrupts off, and once `shell_init` is through the kernel only
halts in between. Before that it does not hold, and `BootRace` is about just that
window: `print_char_color` is taken apart into its loads and stores in the order
of the compiled kernel, while `scroll_screen` and the copy into the backup stay
one step each (fewer interleavings than the machine has, none that it has not).

Data of the console and the shell. A cell is its character; colour attributes and
the hardware cursor are left out. Control characters are the tokens "LF", "CR" and
"TAB". A cell can also be "nul" (a terminal never
written) or "notice" (the line the view ends with). The shell's fixed texts are one
cell a line, the prompt one cell, and the command names are constants. A wrap at
the end of the bottom row stores where the code stores it: in the first cell of the
next terminal's buffer. Behind the last terminal's buffer the linked kernel has the
cursor variables, which `scroll_screen` sets right after, so that store is left out: a
property of the build, not of `console.c`, and no property here is about it.

Block storage. `block_storage` points to 16 allocated blocks, but `block_read` accepts any
number below `FS_MAX_BLOCKS`. The variable is therefore the memory from there on; blocks
behind the allocated ones belong to others, who store into them at any time (`OwnersStore`,
external).

## 3. Runs

Runs expected to pass:

| Run | Instance | Shows |
|---|---|---|
| `pages` | four frames in two groups, from a table with stale memory behind its end; `ref_count` modulo 4, two repeated releases | `FreeListSound` |
| `heap` | two adjacent frames; requests of 60 bytes, 1 MB and the maximum; three live allocations | all heap properties, `CallsReturn`, refinement of `Allocator` |
| `sched` | three slots, three stacks, six tasks created from the boot code and from tasks | all properties of the scheduler |
| `interrupts` | timer, keyboard and an unserved line; three keys; divide error and page fault | gates, nesting, keys and ticks served |
| `fs` | three inodes and the root, two open files, three opens, two sizes, counters modulo 3 | no inode or slot handed out twice or lost, closed descriptors dead |
| `block_cache` | two slots, three blocks, storage for two, requests up to one past the last block, `ref_count` modulo 3 | bookkeeping of the cache |
| `inode_cache` | two slots, three inodes, two direct pointers, counters modulo 3 | bookkeeping of the cache, pointers into it |
| `console` | two terminals of three rows and two columns, a ring of four lines, columns modulo 8, any seven calls | `ScreenMatches`, `ViewShowsPast`, `TtysIsolated`, `PrintShows` |
| `shell` | six rows of three cells, two terminals, lines of up to four characters, three argument slots, two lines of history, any seven keys | refinement of `LineEditor`, `ArgvMatches`, `LineStaysShown` |

Why the bounds are enough. Each table is small enough to run full and to be
reused. The request sizes of `heap` are chosen so that a block is split, is
handed out whole because the rest is too small (`max_allowed`), spans two
frames after coalescing, and so that both frames run out. In `sched` more tasks are created
than there are slots, so slots and stacks are reused, and creation also fails.
The wrap of `ref_count` is reached with small moduli in place of 2^32; the
larger size of `fs` makes the allocation `size + 1` wrap to zero, and fail. The
repeated releases in `pages` stay below a full turn, after which the code would
list a page twice (2^32 releases). In the caches a count goes around with the third
read; from then on the ghost variable `wrapped` is set and the properties that the wrap
breaks claim nothing, while types and `NeverEvicted` are still checked. `MaxPid`, `MaxFd`, `MaxKeys`,
`MaxLive`, `MaxDoubleFree`, `MaxCalls` and `StackWords` bound counters in guards.
In `console` the ring holds one line more than a `clear_screen` saves, so two
calls wrap it, and seven are enough to print to the end of the bottom row, to view,
switch and clear in any order, and to run the column around its modulus with
tabs. In `shell` the banner leaves two rows, a line with its prompt is longer than
a row and longer than what is left when it starts low, and seven keys enter a line
and edit, recall or enter another.
`NoStarvation` is checked with finitely many creations (`MaxPid`): a task that
creates a successor and exits, for ever, could keep `process_exit`, which takes
the lowest slot, away from a higher one.

Deadlock checking is on in every run. `Halt` (the idle process's `hlt`), `Down`
(after a panic or a reset), `Refused` (a call that returns -1) and `Stop` (the
bound on calls or keys is reached) are stuttering steps of their own.

What `heap`, `fs` and the cache runs say, where the code does less than one might expect:

- `NullOnlyWhenTight`: a `malloc` that returns `NULL` has walked the whole list, no page is
  left and no free block is as large as the request, a header and 7 bytes together.
- `InodesAccounted`: every inode but the root is free or was handed out once;
  `free_inodes` is one more than the number that is left.
- `SlotsConsistent`, `PointersGood`: until a reference count wraps. `PointersGood` is about a pointer
  `inode_read` returned, until the inode is deleted.

What the console and shell properties say, and the exceptions they make because
the code does:

- `ScreenMatches`: the backup always is the active terminal's buffer, and so is the
  screen unless the history is on it. This is what makes leaving the view, which
  copies the backup over the buffer, harmless after any sequence of calls.
- `ViewShowsPast`: the view shows consecutive saved lines, ending
  `history_view_offset` before the newest one; or the active terminal, when
  `vt_switch` or a scroll has drawn it over the view (the view is then
  still on until something is printed or cleared, or Down leaves it).
- `TtysIsolated`: a call changes neither text nor cursor of another terminal, but
  for the one cell that a printed character spills into when it wraps at the bottom.
- `PrintShows`: a printed character is left of the cursor, and no other cell
  changed; at the end of the bottom row it is lost instead, and the text scrolls.
- `EditorSpec`: `Shell` implements `LineEditor`. The mapping: `text` is the first `cmd_pos`
  characters of `cmd_buffer`, `at` is `cursor_pos`, `log` is `cmd_history`, `draft`
  is `saved_cmd`, and `last` is the last line entered. `LineEditor` allows what a user may not
  expect: Down leads to the draft even when no line was left for the log, and on
  an empty line the draft may become the beginning of the last line, because Enter
  leaves `cmd_buffer`, cut up by `parse_arguments`, and `history_current` as they are.
- `LineStaysShown`: a key keeps the line that is edited and the line that is seen
  the same. Exceptions: a text that would wrap at the bottom of the screen; Up or Down
  with the cursor inside the line; Enter with the cursor on a row above the last one
  of the line.

Runs expected to find a violation. Each checks one statement of the repository's
own comments or README against what the code does:

| Run | Statement | What the code does |
|---|---|---|
| `sched_stack` | `process_wrapper` calls `entry`, then `process_exit` (`scheduler.c:15`) | `context_switch_asm` saves `rsp` with the return address still on the stack and resumes with `jmp`. Each switch away and back leaves 8 bytes; an `entry` that returns does not reach the wrapper. `process_A` and `process_B` call `process_exit` themselves and so do not run into it. |
| `interrupts_fault` | exceptions reach the panic screen (`README.md:16`, `interrupts.c:153`) | `interrupt_init` loads a second table without exception gates. |
| `boot_race` | "Process function keys F1~F4 (always work)" (`keyboard.c:47`) | `kernel_init` enables interrupts before `shell_init` prints. A function key between the store into the terminal's buffer and the store to the screen puts the character on the screen of the terminal switched to, where no buffer has it. |

Fairness.

- `Heap`: weak fairness of the steps of a call in progress. It is
  straight-line kernel code.
- `Scheduler`: weak fairness of yielding to another process or exiting. This is
  the contract of a cooperative scheduler; all demo tasks of `kernel.c` fulfil
  it. Creation is not fair.
- `Interrupts`: weak fairness of the boot sequence, of the handlers and of
  taking a timer request: the processor executes. Strong fairness of taking a
  keyboard request: the timer has priority, but its period (10 ms) is far longer
  than its handler, so no tick is raised while the handler of the previous one
  runs (a guard of `Raise`) and the keyboard's turn comes again and again.

## 4. Proofs

`HeapProofs`. From `FramesAssumption` (there is a frame, frames are adjacent,
address 0 is in none of them, and the range `free` accepts covers them) for any number of frames, any
set of request sizes and any number of live allocations:

- `HeapInvariant`: `IInv` is inductive. The safety properties are not inductive
  alone: that a merge does not swallow somebody's memory needs to know that list
  neighbours are address neighbours (`TileInv`), that list order is address order
  (`ApartInv`), and that the allocated blocks are exactly the live pointers
  (`LiveInv`). A freed block is accepted because allocated blocks never exceed a
  page (`SizeInv`), although free ones do. That a fresh page continues the tiling
  needs that pages leave the free list in index order (`PagesInv`). `SearchInv`
  and `CoalesceInv` say what the two walks know about the blocks behind them;
  they give `NullOnlyWhenTight` and `NoFreeNeighbours`. `AlignInv` carries the
  rounding of sizes to 8.
- From it: `HeapTypeOK`, `HeapNoOverlap`, `HeapLiveInUsableRam`,
  `HeapNoFreeNeighbours`, `HeapWholeAgain`, `HeapFreeAcceptsLive`, and the action
  property `HeapNullOnlyWhenTight`.
- `HeapImplementsAllocator`: every step is a step of `Allocator` or leaves `live`
  unchanged. The refinement mapping is the identity on `live`.

The assumption that frames are adjacent is necessary (see section 5). `heap` extends `HeapContiguous`, so TLC evaluates the
assumption on its instance, and checks `IInv` there.

`SchedulerProofs`. For any `MAX_PROCESSES > 0`, any set of stacks and any
creators: `IInv` is inductive (`SchedulerInvariant`), and with it
`SchedulerTypeOK`, `SchedulerRunningIsCurrent`, `SchedulerOnOwnStack`,
`SchedulerStacksOwned`, `SchedulerReadyResumable` and `SchedulerIdleAlone`. Beyond
the properties themselves `IInv` needs that process ids are unique and below
`g_next_pid` (`PidInv`; otherwise "has it begun" does not identify a process) and
how the mode of the machine relates to the table (`ModeInv`): before the start no
slot is current and no idle process exists, after a fatal exit the table is empty.

The remaining modules follow one scheme: an inductive invariant `IInv`, which TLC
checked on the instance of the module's run before it was proved; a lemma per
action that the action keeps it; and the properties as its consequences. The
theorems need only the assumptions named in the modules: sizes are natural numbers
(above the few the code relies on), and special values such as the free block's
number, NUL or the blank are what the code takes them to be.

`HeapProofs`, second part: `PagesFreeListSound`, for any memory map that ends, any
callers and any number of repeated releases short of a full turn of `ref_count`.
`ClientInv` says that some sequence lists the pages nobody owns in the order of
`page->next` (`Chain`), that an owned page has one reference, and that a page released
again has a count that has gone around and stays above `UINT_MAX - double_frees`: that
is why the unsigned `ref_count <= 0` does not list it twice. None of it cites
`FramesAssumption`; that the page array has a length at all is proved from the loops of
`init_memory_map` and `init_page`.

`InterruptsProofs`: `InterruptsTypeOK`, `InterruptsIrqsHandled`,
`InterruptsServiceMatches`, for any set of lines. `IrqsHandled` is not inductive: the
invariant adds how far `kernel_init` has come (`SetUpInv`: from `interrupt_init` on the
live table has the gates of both lines that the mask lets through, and interrupts are on
only after `sti`) and which handler belongs to the line in service (`ServiceInv`).

`BlockCacheProofs`, `InodeCacheProofs`: `...TypeOK` and `...Consistent`, the action property
`BlockCacheNeverEvicted` and the invariant `InodeCachePointersGood`, for any number of slots,
blocks and inodes. `SlotsConsistent` is inductive with the types: until a count wraps, it ties
holding a block to being referenced, so the different tests of read and write agree, and a
miss means that no slot has the block. `PointersGood` needs it: a read that finds its inode must
find it in the slot that earlier readers point to.

`FsProofs`: `FsTypeOK`, `FsInodesAccounted`, `FsDescriptorsExact`, for any table and file sizes.
`DescriptorsExact` needs `SlotsInv`: descriptors are numbered without gaps, a slot's
`ref_count` is 0 or 1, an occupied slot has a descriptor of its own that is not closed.
`InodesAccounted`, with its count one above the inodes that are left, is about cardinalities,
from the library's theorems.

`ConsoleProofs`: `ConsoleTypeOK`, `ConsoleScreenMatches`, `ConsoleViewShowsPast` and the action
properties `ConsoleTtysIsolated` and `ConsolePrintShows`, for any screen of at least two
rows, any ring not shorter than the screen, any number of terminals, and columns modulo
anything above the width. Each operator of `ConsoleState` has a lemma for what it does to
the invariant, so a call that is composed of several is proved by composing lemmas.
For `TtysIsolated` the lemmas carry along whether the call prints a graphic character, which only
from behind the end of the bottom row reaches another terminal. The invariant adds that the ring, read backwards from `history_write_pos`, is the past
(`RingInv`), and that the offset of the view stays within it (`OffsetInv`).

`ShellProofs`: `ShellTypeOK`, the refinement `ShellImplementsEditor`, `ShellArgvMatches` and the action
property `ShellLineStaysShown`, for any length of line, history and argument list. The invariant (`ShellInv`) adds that `cmd_buffer` always has a
NUL, that it is at `cmd_pos` while the line has text, and that otherwise the string in
the buffer is a beginning of the line that was entered last (`StringInv`): this is what Up
saves as the draft. Each editing operation has a lemma that relates the buffer it leaves
to `InsertAt`, `RemoveAt` or the copied line.

`ShellArgvMatches` is about `parse_arguments`, which cuts the buffer up in place. The property
says how many words begin up to each position (`WordCount`), so it can be carried through the
loop: after n turns (`CutAfter`) the arguments found are the starts of the words before index n, in
their order, and the blanks that ended one of them are NUL, no other character of the line is. That
a string read at such an index is the word of the line needs that the first NUL behind it is the one
that ends it, and for the last argument that nothing behind it was cut.

`ShellLineStaysShown` relates the shell to what the console shows, for any screen of at least two
rows and lines over any number of them. It rests on a second invariant, `ShellConsole`: no key
of the shell opens the view of the history, the active terminal's cursor is on the screen or just
behind a row (`AtCursor`). `print_char_color`, the cursor moves and the loops that call them get
lemmas in terms of positions, row times width plus column: a character that fits on the screen
changes the cell at the cursor's position and moves it by one (`PrintedGraphic`), so a text is a run
of cells (`TextPrinted`), wrapping or not; moving left or right n times changes the position by n.
Output that scrolls is only known to leave nothing behind the cursor (`OutputPrinted`), which is what a
new, empty line needs. `RedrawShows` puts them together for `redraw_from_cursor`: the rest of the line and a
blank are printed, and the cursor returns to its place in the line. The exceptions the property names are
where these lemmas lack their hypothesis: the position is at the end of the screen, Up and Down start from
`cmd_pos` cells left of the cursor, and the newline of Enter is only known to find empty rows below when the
line's last row is not below the cursor's.

Induction. Several results are about loops and recursive functions (saving the lines of a
screen, printing a string, moving the cursor n times, `parse_arguments`, `EchoText`, `FlattenSeq`, the
walk along the free list). The induction
theorems of the library take an operator and cannot be instantiated, so `SetInduction` is
proved from the well-foundedness of `<`: a set of naturals that has 0 and successors is
all of them. For a recursive function the proofs show first that one exists (`SavedTo`,
`ParsedTo`, `PrintedTo`, `EchoedTo`, `FlattenedTo`), then reason about its values by that lemma.

Only model-checked:

- liveness (`CallsReturn`, `NoStarvation`, `KeysRead`, `TimerServed`): beyond the prover;
- the runs that find a violation (`SchedStack`, `BootRace`, the fault in `Interrupts`).

## 5. Deviations met while modelling

Besides the three above, in the models as the code has them. Where a property comes close, it says
what is left:

- `free` merges list neighbours without comparing addresses (`memory.c:328`). With
  a firmware hole between two frames the merged block contains the hole, and
  `LiveInUsableRam` fails; `heap` and its proofs assume adjacent frames.
- `malloc` asks for a header's room inside a block whose size is without its header
  (`memory.c:226`), so it refuses a free block of the size of the request. On two frames
  `malloc(max)`, `malloc(60)`, `malloc(max)`, `free` of the first and `malloc(max)` again returns `NULL`.
- `init_memory_map` ends the map at the first entry of length 0 or type above 4
  (`memory.c:367`), so RAM listed behind a region of type 5 is not used.
- `fs_init` counts the root among the free inodes (`fs.c:26`, `fs.c:63`): with the table full,
  `fs_alloc_inode` reports that there is none while `free_inodes` is 1.
- `fs_open` resolves names by position ("test.txt is always inode 1", `fs.c:203`),
  which fits only the order in which the demo creates files.
- `memcpy` in `lib.h` takes the source first, as `fs.c` passes it; `block.c` passes the
  destination first, so a cached block does not read back what was written.
- `block_read` that misses copies to `block_storage` plus any block number below `FS_MAX_BLOCKS`, with 16
  blocks allocated (`block.c:53`): it overwrites 4096 bytes of other heap memory.
- Nothing but `block_free` and `inode_delete` takes a `ref_count` down. After 2^32 reads of one block or
  inode it wraps (`block.c:37`, `inode.c:66`), the slot passes for vacant, and the block can end up
  in two slots; and a block cache filled with 64 blocks stays full until one is freed.
- `inode_delete` frees the slot while readers have pointers to it (`inode.c:48`): reading inode 1,
  deleting it and reading inode 2 returns the same pointer for both.
- A character printed behind the end of the bottom row is stored in the first cell of the next
  terminal (`console.c:298`), and the scroll that follows loses it.
- `fs_read` ignores the offset; a second, larger `fs_write` keeps the first one's buffer.
- `inode_remove_block` of block 0 on an inode never written takes `block_count` below zero.
- A line of blanks prints no new prompt (`shell.c:225`), and the first Up shows the oldest
  line of the history, not the newest (`shell.c:104`).

## 6. Not modelled, and why

- `vprintk`, `number`, `print_uint64` and the memory helpers of `lib.h`: pure data
  transformation that no property is about. The string helpers the shell uses
  are in `Shell`.
- Where `init_page` puts its page array. `PageFrames` has whether it fits into a region, not its
  address, so a frame that overlapped the array would go unnoticed.
- The store behind the last terminal's buffer (section 2).
- Colours and the hardware cursor: layout.
- `dir.c`: its functions print or return a fresh record; there is no state.
- Boot loader: sequential, real-mode BIOS calls and tables; it runs once. What it leaves
  behind is `PageFrames`'s constant. It maps 1 GB, which the models, on physical
  addresses, do not see.
- The static format buffer of `printk`, which a handler that prints would overwrite:
  `BootRace` has the texts already formatted.
- The window in which `process_exit` runs on a freed stack while `malloc` may write a
  header there: needs heap and scheduler composed at byte level.
- File contents, a `fs_init` that runs out of memory, spurious interrupts.

## 7. Plan

Done, in this order: page frames and heap with proofs; scheduler with proofs;
context switch; interrupts; file system and caches; console; shell; the race of
`shell_init` with the keyboard; the copy of the E820 table.

Then proofs of every invariant and action property the runs check: heap and page free
list, scheduler, interrupts, both caches, file system, console, and the shell with the
refinement of `LineEditor`, the arguments of a command and the line on the screen.

Left: the liveness properties, which stay with TLC, and what section 6 lists.
