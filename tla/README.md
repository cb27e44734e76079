# A TLA+ model of NanoBoot and ShellForge

The repository holds two programs:

- **NanoBoot** (`src/NanoBoot`): a teaching kernel for one RISC-V hart. It has a
  table of eight processes, Sv39 page tables from a fixed pool, a round-robin
  scheduler driven by the timer, ten system calls, and one user program, a shell.
- **ShellForge** (`src/src`, `src/include`): a Unix shell in C. It has a lexer,
  parser and variable expansion, pipelines and redirections, and background jobs
  with `jobs`, `fg` and `bg`.

They share no code. The modules here are translated from the C source. Documents
and comments of the repository appear only where a property states what they
say.

## Inventory

| Part | Source | Module | Extent |
|---|---|---|---|
| process table, scheduler | `kernel/proc.c` | `NanoProc`; promise: `ProcLifecycle` | whole |
| traps, idle polling | `kernel/trap.c` | `NanoProc` | `trap_handler` |
| timer | `kernel/timer.c` | `NanoProc` | whole |
| system calls | `kernel/syscall.c` | `NanoProc`, `NanoVM` | control and copies; not what is printed |
| virtual memory | `kernel/vm.c` | `NanoVM`; promise: `PagePool` | whole |
| boot, entry | `kernel/main.c`, `entry.S`, `boot.S` | `NanoProc` | initial state, saved registers |
| user shell | `user/sh.c` | `NanoShell`, `NanoParser` | commands; line editor, tokenizer, parser |
| job table | `src/jobs.c` | `SFJobs` | whole |
| executor | `src/executor.c` | `SFJobs`, `SFPipeline`, `SFLine` | processes, groups, waiting; descriptors; job text |
| main loop, builtins, handler | `src/main.c` | `SFJobs`, `SFLine` | handler, `bg`, `fg`, `exit`; the life of a line |
| lexer | `src/lexer.c`, `token.c` | `SFLexer` | whole |
| parser | `src/parser.c` | `SFLine` | whole |
| expansion | `src/expand.c` | `SFExpand`, `SFLine` | whole |
| UART, RAM file system, string library | `kernel/uart.c`, `ramfs.c`, `string.c` | none | device registers, constant data, library |
| spinlock, `swtch.S`, `builtin.c` | | none | nothing calls them |

`PROJECT.json` lists the same parts, the source lines of every definition, and
the hazards of the code with the properties that cover them. `Loops` and `Segments`
hold what the models of both shells share, `Scan` the search both scanners of
ShellForge are built on, `MCSFLine` puts the modules of a
ShellForge line together for TLC, and `MCNanoParser` adds to `NanoParser` the
grammar it is compared with. A definition that a comment calls a *variant*
is a plausible mistake: put in place of the right one it must break a property,
and it is used nowhere else.

## NanoProc: the kernel

The hart takes every trap with supervisor interrupts off, so **a trap is one
step**, from the entry to the return to user mode. All that a system call
does after its main effect is in its step: the store of the result into the
frame at the end of `syscall_dispatch`, the scheduling, and the switch of
`satp`. Two waits inside a trap have no bound and are states of their own:

- `mode = "poll"`: the loop `while (!current_proc)` of `trap_handler`;
- `mode = "read"`: the busy wait on the UART in `sys_read`.

User programs are arbitrary. The current process may make any call, fault, or be
preempted, and a preempted process may hold anything in `a0` (`SaveUserRegs`).

| State | In the code |
|---|---|
| `state`, `pid`, `parent`, `wake_tick` | fields of `proc_table[s]`; `parent` is a slot, as the C pointer is |
| `a0` | `trapframes[s].regs[10]`, the register of results |
| `current_proc`, `last_slot`, `next_pid`, `ticks` | the variables of those names |
| `satp`, `tables`, `pool` | the installed page table, the existing ones, the number of free pages |
| `ppid`, `pending` | history: who forked the process, and which call `a0` answers |

| Action | In the code |
|---|---|
| `TimerTrap`, `PollTick` | timer interrupt in user mode; a round of the polling loop |
| `SysFork` | `proc_fork`: no slot, no memory, success |
| `SysExit`, `FaultTrap` | `proc_exit`: parent in `wait()`, no parent, ZOMBIE |
| `SysWait` | `proc_wait`: reap, no child, block |
| `SysSleep`, `SysRead`, `ReadDone`, `SysQuick` | the other calls |

Two simplifications need a reason.

- The second `proc_schedule` at the end of `trap_handler` is left out: its test
  `state != P_RUNNING` never holds there.
- `ticks` restarts at 0 when it has reached `MaxTicks`. No deadline lies beyond
  `MaxTicks`, so none is outstanding then, and only deadlines refer to the
  origin of time.

`NanoProc` counts page-table pages and does not look into the tables. What it
relies on is written down in **`PagePool`**: an address space is cloned with all
its pages or not at all, and destroying it gives them back; the one loss is that
of a `kernel_pagetable` that fails. `NanoProc` is shown to use `vm.c` in this way
only, and `NanoVM` is shown to behave in this way (`ImplementsPagePool` in both).

**`ProcLifecycle`** is what the process table promises to a user who sees pids: a
process lives, is a zombie or is collected at its exit, and its pid never comes
back. Any program gets this (`ImplementsLifecycle`). It leaves open by whom a
process is collected. That the pid goes to the process that forked it, and to
nobody else, holds for the shell the build contains (`CollectedByForker`), and
not for arbitrary programs (run `proc_stranger`).

## NanoVM: page tables

The page tables are trees of three levels whose nodes are pages of the pool.
`mappages` is modelled table by table (`Descend`, `AddTable`, `SetLeaf`): the
pool may run out at any of them, and what is then given back depends on how far
the call got. `vm_create_user`, `vm_clone_user` and `kernel_pagetable` differ in
what they map and in how they fail (`BuildFails`, `FirstExitFails`). Released
pages keep their old entries, as in the code, so that a missing clear would
show. `Fork`, `FirstExit`, `LaterExit`, `Reap`, `Switch` and `Idle` are the calls
of `proc.c`, which here may come in any order its guards allow.

The walk of `translate_user`, the chunks of `copyin` and `copyout`, and
`copyinstr` are operators, compared in every state with a loop over single bytes
(`CopyMatchesBytes`).

The history variables are `owner`, the address space a page was taken for, and
`lost`, the pages below the root of a `kernel_pagetable` that failed.

## NanoShell and NanoParser: the user shell

`NanoShell` extends `NanoProc` and lets each process follow the text of `sh.c`.
A process has a program counter, and each system call it makes is the whole trap
of `NanoProc`. `forktest`, `schedtest` and `isotest` fork, sleep and wait as in
the source. What is typed is any line; how the line is read is `NanoParser`.

In `NanoParser` a user presses keys, backspace included, and the line goes
through `tokenize`, `parse_command` and the checks by which `execute_command`
turns down what the kernel cannot do. The three loops of the code, over the
characters of a word, the tokens of a line and the tokens of a command, are each a
`Loop` of a `...Turn`, with as many turns as there are characters or tokens; a turn
after the end changes nothing. `HandledAsRead` compares the outcome with a
grammar: all ways to cut the line into blanks, operators and words. There must be
at most one way, and the outcome must be what it says.

## SFJobs: job control of ShellForge

The shell, its SIGCHLD handler and its children share the process states and the
job table. The shell has a step for each point between which a signal may
arrive: `fork`, `setpgid`, `job_add`, each `waitpid`, and in `fg` the test and the
`pause`. The handler runs in one step; the head of the module says why that is
sound.

The Makefile compiles with `-std=c11` and the sources define `_POSIX_C_SOURCE`.
Under these, glibc's `signal()` has System V semantics: the handler is reset to
`SIG_DFL` when it is entered, and interrupted calls are not restarted. The model
has exactly this behaviour (`handler`, `WaitEintr`). A blocked `waitpid` whose
own child has exited returns that child, also when a signal is pending.

The host kernel (`setpgid`, `kill`, signals, children that exit or stop) is
external and modelled from how the shell uses it. Pids are not reused.

Two things the model shows in passing, at odds with what the repository says:

- The handler asks for no stops (no `WUNTRACED`), so no job is ever recorded as
  stopped, and `fg` pauses on a stopped job without resuming it.
  `docs/FINAL_REVIEW_EVIDENCE.md:92` says it does. `ForegroundReturns` therefore
  excludes stopped processes.
- A comment at `executor.c:288` says every process of a pipeline is put into one
  group. If the first has been reaped before a later one reaches `setpgid`, that
  one stays outside; `StraysNeverRun` says that it then exits without running.

## SFPipeline: the descriptors of a pipeline

The shell makes a pipe, forks a stage and closes what it no longer needs, in
turn. The children run beside it: `dup2` and `close`, then the redirections,
then the command. The model keeps which ends are open in which process, and a
block count for each pipe, so that a reader sees the end of its input, and a
writer is killed, exactly when the last end at the other side is closed. `pipe`
and `fork` may fail at any turn; the function then returns with what is open
left open, as in the code. The commands are external: they read to the end,
write a few blocks, or quit early. A stage may have an input redirection, an output
redirection, both, or one whose file cannot be opened.

## SFLine, SFLexer, SFExpand: the life of a line

`SFLine` follows one line after the other through `main()`: tokens are collected
up to the limit, parsed, expanded, run, and everything is freed. Memory is a heap
of blocks with addresses. A block remembers the token it was copied from and how
often it was expanded. Any `malloc` or `strdup` may fail, `Failures` times in
all, and every error path is a step: the parse error that leaves blocks behind
(`lost`), the failed copy of a redirection's target that crashes (`crashed`), the
expansion that stops half way.

`SFLexer` and `SFExpand` are the scanners as functions. `MCSFLine` lets a user
type a text at the first prompt and compares, after every key, what the lexer and
`expand_string` make of it with the one way to cut it into lexemes or
references. In the line machine tokens and strings are arbitrary, so the two
parts meet in the types of the tokens and nowhere else.

A background job is listed under a text whose block is sized before it is written,
in two places. `build_command_string` (`Size`) serves pipelines of at least two
commands. A single command gets `strlen(argv[0]) + 64` bytes (`CommandSize`, with 64
as `SLACK`). `JobTextFits` says of the first that the text always fits, and of the
second exactly when it does.

## Runs

Passing runs:

| Run | Bounds | Shows |
|---|---|---|
| `proc_safety` | 3 slots, ample pool, pids to 4, ticks to 2 | no wake-up is lost, calls resume with their results, `satp` is never dangling, a RUNNABLE process comes closer to its turn with each dispatch, pids live once |
| `proc_live` | 3 slots, a pool too small for three processes and the kernel, fair | no starvation, sleepers wake, `vm.c` is used as `PagePool` allows |
| `shell` | 3 slots, pids to 6, 3 rounds, fair | the shell's tests report what they should, nothing is left behind at the prompt, every command gives it back, the pid of a collected process goes to the one that forked it |
| `vm` | 3 slots, tables of 2 entries, 23 pages | no page is shared or lost, each process reaches its own memory, tables map exactly what was asked, the copies touch the right bytes, `PagePool` is implemented |
| `nanoparse` | 6 keys, arrays of 3 to 6 | the line is the one edited, arrays hold, lines are handled as a reader reads them |
| `jobs` | 3 processes, 2 job slots, pipelines of 2, fair | `Done` is never wrong, a listed job is one group, strays do not run, at most one awaited process is abandoned, a foreground command gives the prompt back unless one of its processes is stopped |
| `pipeline` | 3 stages, pipes of 1 block, 2 blocks to write, fair | ends are open only where they belong, no early end of file or SIGPIPE, the pipeline ends |
| `line` | 5 tokens, 2 commands, 2 arguments, 1 failing allocation; texts of 5 characters; strings of up to 2 characters and a slack of 5 for job texts; fair | what runs is what was written and expanded once, malformed lines are refused, each block has one owner, the scanners agree with their grammars, the buffer of the expansion holds, the text of a background pipeline fits its block |

Why the bounds are enough to meet the cases:

- *Kernel.* Three slots are the least with a parent, a child and a bystander, and
  let a slot be used again by a second child and the children of a child. Two
  ticks tell an expired deadline from one that is ahead.
- *Page tables.* With two entries per table, kernel, program and stack lie in
  four different tables of the last level, and in two of the middle one. An
  address space takes 7 pages and the kernel's own 4. In 23 pages, three
  processes leave 2, so that the kernel's table fails below its root; two leave
  room for it and too little for another fork; one leaves plenty. Pages of two
  bytes and copies of up to four cross one or two page boundaries.
- *Lines.* Every limit is so small that it is met and passed: five tokens (255 in
  the code), two commands (16), two arguments (63). One failing allocation is
  enough for each error path, since every path ends the line. Five characters
  hold `${a}` and a character after it, a name that is a prefix of another, and a
  quote inside quotes. For the text of a single background command a slack of 5
  (64 in the code) is enough for one more argument of a character and too little
  for one of two, so that both outcomes occur.
- *Jobs.* Three processes allow a background pipeline beside a foreground command,
  and two job slots with up to three jobs let the table fill and a slot be used
  again.
- *Pipelines.* Three stages are the least with one that has a pipe on either side;
  a pipe of one block and two blocks to write make writers block.

The theorems below lift the bounds for most safety properties.

Deadlock is not checked in `SFJobs`, `SFPipeline`, `SFLine` and `NanoVM`: a shell
that has exited, crashed, or hangs in `pause()`, a pipeline that is over, and a
kernel whose processes have all exited have nothing left to do.

Runs that are expected to fail state what a document or comment says; the code
does something else:

| Run | Says | The code |
|---|---|---|
| `proc_stranger` | `wait()` returns a child | it may return a child of an earlier owner of the slot |
| `jobs_reap` | the handler reaps background jobs | it runs once in a session |
| `jobs_eintr` | the shell waits for a foreground child | a signal ends the wait |
| `jobs_done` | a job is the entire pipeline | its first process decides |

`parent` still points to the slot when the parent has exited. While the slot is
free, a child that exits becomes a ZOMBIE nobody can reclaim; once it is taken,
`proc_stranger` shows what happens. `CollectedByForker` shows that the
shipped shell never gets there, because it always waits for its only child.

## Where the documents say otherwise

Beside the four runs above, a property that holds of the code contradicts what a
document or comment says in these places. The property states the code.

- *Pids are not reused.* `NanoBoot_VIVA_AND_DEMO_GUIDE.md:150` says `wait` "frees the
  PID for reuse"; line 67 and `NanoBoot_WEEKLY_BUILD_LOG.md:122` say it reclaims the
  pid. `next_pid` only grows (`proc.c:108`): the slot is used again and the pid is not.
  `ImplementsLifecycle` says that no pid comes back.
- *`&&` does not separate commands.* `docs/VIVA_GUIDE.md:108` has `cd /tmp && pwd` run
  two commands, and `docs/FINAL_REVIEW_EVIDENCE.md:138` and `:267` use `&&` in the same
  way. The parser sets a flag at each `&` and goes on with the same command
  (`parser.c:143`), so the line is one background command with the words of both.
  `RunsAsWritten` says so.
- *Limits of the NanoBoot parser.* `NanoBoot_VIVA_AND_DEMO_GUIDE.md:80` says that
  `parse_command` validates `MAX_TOKEN_LEN = 32`. It is 64, and `tokenize` cuts a longer
  word without a message (`sh.c:178`). `NanoBoot_WEEKLY_BUILD_LOG.md:94` says operators
  are reported "rather than silent failure". A line of a single `&` does nothing and
  says nothing, and a redirection whose file name is empty is ignored and its command
  run. `HandledAsRead` states each case.
- *A stale comment.* `syscall.c:68` speaks of "the currently failing timer-interrupt
  resume path" and of waiting for the time counter. `sys_sleep` below it calls
  `proc_sleep` and relies on the timer; `SleepersWake` shows that this works.
- Two more, about stopped jobs and process groups, are in the section on `SFJobs`.

One defect is at odds with no document. The block for the text of a single
background command has room for `argv[0]` and 64 bytes (`executor.c:195`), while all
arguments are written into it. If those behind `argv[0]`, each with its blank, need
more than 61 bytes, `strcat` writes past the block. Nothing in the code excludes
this; `JobTextFits` gives the exact condition, and says that the text of a pipeline
always fits.

## Fairness

- `NanoProc`: strong fairness of `TimerTrap`. The timer is armed again on each
  tick, and its interrupt is taken when user code runs; user code is left and
  entered all the time, so the action is not continuously enabled. Weak fairness
  of `PollTick`, a loop that nothing else ends. `InputFairness` assumes a user
  who types. It is needed: `sys_read` waits for the UART with interrupts off, and
  while nobody types no other process is dispatched, preemption or not.
- `NanoShell`: in addition, strong fairness of the steps of each process. A
  process makes progress in each of its slices, so one that is dispatched again
  and again makes its next call.
- `SFPipeline`: weak fairness of the shell, the children and the commands. A
  command reads on while there is input; nothing makes it quit early.
- `SFJobs`: weak fairness of the shell, of the delivery of a pending signal, and
  of the children, which come to their end if they are not stopped. Nobody has to
  type a command.
- `SFLine`: weak fairness of what `main()` does between two prompts. Nobody has to
  type, and no allocation has to fail.

## Proofs

All theorems hold for every value of the constants the modules' assumptions
allow. The assumptions say that sizes are natural numbers, that there is at least
one slot, and that sentinels differ from the values they stand beside. Five
modules ask for more:

- `NanoProc`: the pool has room for the first process (`vm_create_user` in
  `proc_init` succeeds).
- `NanoShell` (`NapsAssumption`): the bound on sleeps is at least 2, the longest
  sleep in `sh.c`.
- `NanoParser` (`LimitsAssumption`): a line has room for a key, and a token for the
  longest operator and its terminator.
- `NanoVM` (`LayoutAssumption`): the kernel, the UART, the image and the stack have
  page numbers that three levels translate, and no two of them overlap. The
  addresses in `param.h`, `vm.c` and the linker script satisfy it, and so do the
  constants of the run.
- `SFExpand` (`ExpandAssumption`): the first buffer is not empty, and the values of
  variables are texts. Every character is of one of the kinds of `TextChars`.

### The process table and the shipped shell: `NanoProcProofs`

| Theorem | Property |
|---|---|
| `TypeCorrect` | `TypeOK` |
| `NoWakeupIsLost` | `NoLostWakeup` |
| `OnlyCurrentRuns` | `CurrentRuns` |
| `SleepersAreToldApart` | `SleepersTellApart` |
| `ResumeValueCorrect` | `ResumeValue` |
| `PidsAreUnique` | `UniquePids` |
| `RoundRobin` | `BoundedBypass` |
| `NoPageLost`, `SatpNeverDangles` | `PoolBalanced`, `SatpLive`, if the pool covers every slot (`AmplePool`) |

The first six follow from one inductive invariant, `TableInv`, their conjunction
with `next_pid >= 2`. None of the harder ones is inductive alone. That no
wake-up is lost needs `CurrentRuns`, so that the process that exits is the one
that runs and not a sleeper; `SleepersTellApart`, so that `wake_tick = 0` means
`wait()`; and `UniquePids`, so that nobody is its own parent. `ResumeValue` needs
`UniquePids`, because the pid stored must be one handed out, and
`SleepersTellApart`, because the store must not hit a sleeper.

There is a lemma for each action. They rest on two facts about the scan:
`Least` returns the least element of a set of naturals, and `proc_schedule`
returns a RUNNABLE slot or none (`NextSlotRunnable`, `DispatchEffect`).
`RoundRobin` adds that the slot dispatched is the nearest one after the start of
the scan (`DispatchBypass`). The memory theorems count the address spaces with
the cardinality of `tables`, and use `AmplePool` to show that
`kernel_pagetable()` cannot fail (`KernelPtNeverFails`). The build satisfies
`AmplePool`: it has 1024 pages for eight processes.

The same module holds the two refinements. `UsesPagePool` and `FollowsLifecycle` prove that `NanoProc` implements `PagePool`
and `ProcLifecycle`, with a pool of any size. The steps of the table are first
sorted into kinds: slots keep their processes, one is filled, one becomes a
zombie, one is emptied. Each action is of one kind, and each kind is a step of
the abstract specification or a stutter. That a slot has a page table exactly
while it is in use (`TablesMatch`) and that pids are unique (from `TableInv`) is
what the mapping needs.

Of the shell in `NanoShell` the module proves:

| Theorem | Property |
|---|---|
| `WaitGetsOwnChild` | `WaitReturnsKid` |
| `NothingLeftBehind` | `PromptIsClean` |
| `ShellCollectsItsOwn` | `CollectedByForker` |

A step of the shell is a trap of `NanoProc` or leaves the kernel alone
(`ShellStepIsTrap`), so `TableInv` and `TablesMatch` carry over. `ShellInvariant`
adds `Family`, which ties the slots in use to where the shell is in its text: it
is the first process and nobody's child; there is at most one other process,
which runs a test's child; between `fork()` and `wait()` the local `pid` is that of
this process, and elsewhere there is none. Without it the properties are not
inductive: whether `wait()` returns the right pid depends on there being nobody
else to collect, which depends on every earlier command having waited.
`ShellCollectsItsOwn` goes through the steps by which a slot is emptied
(`EmptiedBy`): the current process reaps a zombie, or exits while its parent
waits. `Family` leaves only the shell's child to be emptied, and with pids unique
the shell is the one that resumes with its pid (`KidGoesToShell`). All hold for
every number of slots, every pool (the fork of a test may fail) and every length
of the loops.

### Command lines of the NanoBoot shell: `NanoParserProofs`

| Theorem | Property |
|---|---|
| `LineIsAsEdited` | `LineAsEdited` |
| `ArraysAlwaysHold` | `ArraysHold` |
| `ReadToTheEnd` | none: it says that `tokenize` and `parse_command` end |

They hold for arrays of every size and for any number of keys.

- *Editing.* That a backspace takes the last character of `line[]` is what the code
  does. That this character is the one the user wants gone is a statement about
  the whole history of keys, and not inductive. `EditInv` adds a balance: after each
  character that is left, the characters outnumber the backspaces by exactly the
  characters left behind it (`Edited`). So the next backspace takes back the one with
  nothing left behind it, which is the last of the line (`EditedBackspace`).
- *Arrays.* Each loop maps a set of states that fit to itself (`WordTurnFits`,
  `TokenTurnFits`, `ParseTurnFits`), so its result fits. The line fits because the last
  character for which there is room ends it (`RoomInv`), which needs that a line that
  has been handled is no longer being read (`HandledIsDone`).
- *Ends.* Each turn gets further or fails, so that the number of turns in the model is
  enough (`LoopEnds`). For `tokenize` this needs that a word takes at least one character of the line.

### Page tables: `NanoVMTrees`, `NanoVMProofs`

| Theorem | Property |
|---|---|
| `IsolationHolds`, `PoolAccountedHolds`, `SatpRootedHolds` | `Isolation`, `PoolAccounted`, `SatpRooted` |
| `OwnMemoryOnlyHolds` | `OwnMemoryOnly` |
| `MapsExactlyHolds` | `MapsExactly` |
| `FailsOnlyWhenShortHolds` | `FailsOnlyWhenShort` |
| `VMIsPagePool` | `ImplementsPagePool` |
| `CopiesByteByByte` | `CopyMatchesBytes` |

*Trees.* `TreeInvariant` proves the inductive invariant `TreeInv` for every pool,
number of slots, table size and layout of the address space. It says of each
page in use which address space and level it belongs to: entries lead to tables
of the same address space one level down, or to its own memory; every table
below a root hangs on one of its own address space; every root is in service.
From this `TreeIsSpace` follows: the pages that `pt_destroy_level` visits from a
root are exactly those of its address space. The first two rows of the table are
consequences. The invariant is needed because `PoolAccounted` speaks of trees, and
a step that links or releases a page keeps trees apart only if no page is below
two roots or at two levels.

*Mappings.* `MapInvariant` adds `MapInv`: every table hangs on one entry
(`OneParent`), a page table in service has the shape of its mappings and no other
entry (`InService`), and the one under construction has that of the first `n`
mappings and of the tables made so far for the next one (`InWork`). Since the
three indices of a page number determine it (`IndicesDiffer`) and no page is
mapped twice (`MappingsApart`, from the layout), a turn of `mappages` never meets
an entry it set before. `MapsExactly` follows from the shape.

*Counting.* A page table of that shape has `1 + |A| + |B|` pages, for the sets of
its indices of the upper two levels. A build that finds the pool empty therefore
holds fewer pages than `UserPages`, which is `FailsOnlyWhenShort`, and one that
ends has taken exactly `UserPages` or `KernPages`. With this each step of `vm.c`
is one of `PagePool` or a stutter (`PoolStep`): the pages a build has taken count
as free until it ends, so that only its end is seen, and a build that fails gives
them all back, except for the known loss in `kernel_pagetable`. Together with
`UsesPagePool`, the two halves of the kernel fit for every configuration.

*Copies.* `CopiesByteByByte` compares the loops of `copyin`, `copyout` and
`copyinstr`, whose turns end at page boundaries, with a loop over single bytes.
It holds in every state, with or without the invariants, for every page size
and every table. `Copy` and `copyinstr` are recursive functions of the bytes left.
That such functions exist, and that they copy what they should, is proved by
counting up to the length: a set that holds 0 and with each number the next one
holds them all (`AllReached`), by its least counterexample.

`NanoVMTrees` holds the copies, `TreeInv` and the properties that follow from it
alone; `NanoVMProofs` the mappings, the counting and the refinement.

### Job control: `SFJobsProofs`

`JobsInvariant` proves `JobsInv`, for job tables and pipelines of any size. From it
follow `TypeOK`, `DoneIsReaped`, `ListedJobIsOneGroup`, `StraysNeverRun`,
`OneAbandonedAtMost`, and the action property `JobIdsAreStable`: a listed job
keeps its id and group, and no id is used twice. The invariant adds what the
properties leave open:

- where the shell is in `pids[]`, and that the leader is in its own group from the
  first `setpgid` of the parent on (`Launching`);
- for each process, the group it is to join and when it may be outside
  (`GroupInv`): it is still new and the parent is about to call `setpgid` for it,
  or the leader has been reaped;
- that the pipeline being set up is not yet in the job table (`JobInv`);
- that no process has been waited for in vain while the handler is installed, and
  at most one after (`LeftInv`): the wait the handler interrupts is the only one.

Most steps only let processes grow older (`Ages`); the lemmas `GroupAges`,
`JobAges` and `LeftShrinks` deal with all of these at once.

### Descriptors: `SFPipelineProofs`

`PlumbingInvariant` proves `PlumbingInv`, for pipelines of any length: the ends the
shell has open at each point of its loop, which stages have been forked, and the
ends each stage has open on its way to `execvp`. `EndsAreWhereTheyBelong`,
`ShellClosesAll`, `NoPrematureEof` and `NoPrematureSigpipe` follow. The last two
need the link between the shell's loop and the stages: a neighbour that is yet to
be forked is one for which the shell still holds the end.

### The life of a line: `SFLineLemmas`, `SFLineProofs`

| Theorem | Property |
|---|---|
| `ArraysHoldLine` | `TypeOK` |
| `EachBlockOneOwner` | `OneOwner` |
| `JobTextAlwaysFits` | `JobTextFits` |
| `RefusesExactlyMalformed` | `RefusesMalformed` |
| `RunsTheLine` | `RunsAsWritten` |

They hold for arrays of every size and any number of failing allocations. There
are two invariants.

- `MemoryInvariant`: every block is owned by one place, which is a string of the
  pipeline, a token, the line, or the list of those lost (`Ownership`); and the
  strings before the position of `expand_pipeline` have been expanded once, the
  others not (`Expanding`). `OneOwner` compares the sizes of two sets, which no step
  can be shown to keep by itself. `Ownership` says the same place by place. All of
  `add_argument`, `set_string` and `expand_command` are one kind of step: a new block
  is put into a place, and the one it replaces is freed (`PutOwnership`).
- `LineInvariant`: after `i` tokens, each command is what these say of it (`Parsing`):
  its arguments in order, its last redirections, `append` and `background`. The
  parser stops at END or at the end of the array (`Complete`), and while no
  allocation has failed an error means a malformed line (`Refused`).

The loops over commands and their words are `Loop`, a recursive function of the
number of turns (`LoopExists`). The order in which strings are expanded is such a
loop. What is needed of it, that it lists every place of the pipeline once
(`JoinParts`, `ToExpandIsPlaces`), is proved by counting up (`UpTo`), as for the
copies. So is `JobTextFits`. For a pipeline it compares two pairs of nested loops,
the size `build_command_string` asks for and the length of what it writes: the size
bounds the length after every word and every command (`TextFits`). For a single
command the length of what the loop of `execute_command` writes is computed
(`CommandLength`), which gives the exact condition. Both hold for strings of every
length and every slack, and not only the few the run uses.

The scanners are functions, so what is proved of them needs no invariant.

- `LexesTheLexeme`: from any place of any line, `lexer_next_token` skips blanks only
  and returns the token of the lexeme behind them and the place where it ends. The
  grammar allows no other lexeme there. Each kind of lexeme has a lemma
  (`LexemeOfOne`, `LexemeOfGreater`, `LexemeOfQuote`, `LexemeOfWord`).
- `ExpandsTheReference`: a turn of `expand_string` takes the one reference that
  starts where it is, or the one character, and appends its value. `BracedIs` and
  `NamedIs` say that what the code searches for is what the grammar calls a
  reference. `ExpandEnds` adds that the turns reach the end of the string.
- `BufferNeverOverrun`: however long the values, `append_char` doubles the buffer in
  time for the NUL, for first buffers of every size.

All rest on `SearchFinds`: what `FirstFrom` returns is told by the character there
and the ones before it.

### Only model-checked

- Liveness: `NoStarvation`, `SleepersWake`, `CommandsFinish`, `ForegroundReturns`,
  `PipelineEnds` and `LineEnds` rest on fairness, which is out of the prover's reach.
- `LexesAsRead` and `ExpandsAsRead` compare what a scanner makes of a whole text
  with the one way to cut it. The turns they are made of are proved for texts of
  any length (`LexesTheLexeme`, `ExpandsTheReference`); that the turns add up to
  the meaning of the text is not, since the meaning joins the pieces with library
  operators whose recursion is out of the prover's reach. The same holds of
  `BufferHoldsText` in name only: `MCSFLine` uses those operators, so
  `BufferNeverOverrun` states it for every string instead of for its variable.
- `HandledAsRead` compares tokenizer and parser of the NanoBoot shell, and its
  messages, with a grammar in the same way.

The properties `CurrentRuns`, `SleepersTellApart`, `UniquePids`, `PoolBalanced`,
`SatpRooted`, `ShellClosesAll`, `JobIdsAreStable`, and the type invariants of
`NanoProc`, `NanoVM` and `SFJobs` are proved and not listed in a run.

## Not modelled

- What `ps`, `ls`, `cat` and the console print; the RAM file system, a constant
  table; the UART's registers; the string library.
- `kernel_trap_handler` and `idle_loop`: the kernel never runs with interrupts on
  once the first process has started.
- The instruction sequences of `boot.S` and `entry.S`, beyond the initial state
  and which registers a trap saves.
- Exhaustion of pids (`next_pid` is an `int`) and reuse of pids by the host.
- In ShellForge: the contents of redirection files, and the builtins `cd`, `pwd`,
  `echo`, `history`, `help` and `jobs`, which change no state of the models.
- `spinlock.c`, `swtch.S` and `builtin.c`, which nothing calls.
