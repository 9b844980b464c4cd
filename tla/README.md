# TLA+ models of the AGH-SO programs

The repository holds the exercises of an operating systems course: small C
programs, independent of each other, most of them about processes or threads
that share memory, queues, semaphores, condition variables, pipes and signals.
This directory models them, checks the models with TLC, and proves some of
them with TLAPS.

Contents: 1 inventory, 2 how to read the modules, 3 modules and runs one by one,
4 fairness, 5 proofs, 6 disagreements and observations, 7 what is not modelled,
8 plan.

## 1. Inventory

| Component (source) | State | Operations and interaction | What is hard | What makes it correct | Module |
|---|---|---|---|---|---|
| Producers/consumers, condition variables (`cw09/zad1`) | ring of N cells, two positions, `end_time`, `line_counter`, mutexes | P producer threads read a file into the ring, K consumers look for lines; `main` joins them or returns after NK seconds | broadcast against test and wait; end of file against waiting consumers; positions updated after the cell is unlocked | FIFO of the file's lines, each looked at once; no lost wakeup; consumers end only when all is consumed; count right | `ProducerConsumer` |
| Producers/consumers, semaphores (`cw09/zad2`) | the same, semaphores with tokens | as above; after NK seconds all threads are cancelled asynchronously and joined | release and wait are two steps; stale tokens; cancellation at any instruction | the same queue; locks' tokens are conserved; both kinds of run complete | `SemProducerConsumer` |
| Sleeping barber, System V (`cw07/zad1`) | four shared integers, a message queue, three semaphores, flags of handlers | barber and clients talk through queue, semaphores, SIGUSR1, SIGUSR2; SIGINT stops either | two messages per semaphore and direction, for every client; handlers that wait; removal of the objects in use | one client in the chair, in order; no signal hits a waiting process; no stale message; everyone is shaved | `Barber` |
| Sleeping barber, POSIX (`cw07/zad2`) | the same on named objects | the same; stopping unlinks names only | the same | the same shop; nobody counts a shave it did not get, even after a stop | `PosixBarber` |
| Message server, System V (`cw06/zad1`) | table of clients with a cursor, public queue, private queues | START, requests, STOP, END; SIGINT of both sides | SIGINT while an answer is on its way; full table; full queue; STOP of strangers; END while others ask | an answer reaches who asked; the table fits the clients; told to end, everyone ends | `MessageServer` |
| Message server, POSIX (`cw06/zad2`) | the same, descriptors in the table | the same; queues outlive their names | an unlinked queue that fills up | the same | `PosixMessageServer` |
| Image filter (`cw08/zad1`) | image, bands, handles of threads | `main` creates a thread per band, joins, writes | bands when the threads do not divide the rows; joining the wrong handles | every row once; the rows of joined threads are in the file | `ImageFilter` |
| Parent and children (`cw04/zad2`) | one semaphore, counters `n`, `k`, pending signals | requests by SIGUSR1, permissions by SIGUSR2, work by real-time signals, exits by SIGCHLD | merged standard signals; nested handlers; signals before `pause` | the semaphore is passed on by signals so that none is merged; all work is counted; everyone works | `WorkPermits` |
| Signal counting (`cw04/zad3`) | three counters, pending signals | L signals to a child and back, in three ways | merged signals; handlers that interrupt handlers and exit; an end that overtakes signals | nothing is invented; real-time signals are all accounted for; the confirmed exchange is exact; both end | `SignalCounting` |
| Stop and continue (`cw04/zad1a`, `zad1b`) | stack of handlers, disposition of SIGTSTP, scripts | Ctrl-Z stops and continues; zad1b kills and starts a script | handlers that hold for one signal, wait, and are interrupted; Ctrl-Z between `signal` and `pause` | Ctrl-Z toggles; one script at most | `StopContinue` |
| Pipeline runner (`cw05/zad1`, copied to `cw06/zad1/zad1.c`) | descriptor tables, pipes, the position of the script | one child per program, each wired to its neighbours | who closes which end; descriptors nobody opened; a child's `exit` moves the shared position | streams arrive whole; each line once; nobody is left behind | `Pipeline` |
| FIFO master and slaves (`cw05/zad2`) | a named FIFO, the master's buffer | slaves write lines, the master prints until it sees the end; all remove the name | end of file against late slaves; lines meet in a read, a line is cut in two; SIGPIPE; a buffer without terminator | everything written is read in order; everyone ends unless it came too late | `Fifo` |
| Directory search (`cw02/zad2a`, `zad2b`, `cw03/zad1`) | stack of open directories, buffer of standard output | three walks: calls, `nftw`, a process per directory | `fork` copies the buffer; the child must return through every call | every match listed, nothing else, how often | `DirectorySearch` |
| Batch interpreters (`cw03/zad2`, `zad3a`) | position in the script, memory of a line, usage of children | one child per line with `vfork`, `exec`, `waitpid`; limits | a line used after it was freed; an `int` shifted to make a limit | stop at the first failure; usage is the command's own | `Interpreter` |
| Records (`cw02/zad1`) | a file and its position | sort in place and copy, with system calls and stdio | an exchange is two writes; the loop and the `if` after it | no record lost at a stop but between two writes; sorted, stable | `RecordSort` |
| Block array library (`cw01/zad1`) | table of pointers, heap, static memory | add, insert, delete, nearest sum, on two kinds of array | pointers moved by exchanges; terminators at the end of a block; signs | the array is the list put in; no leak; a search finds the nearest block | `BlockArray` |
| Drivers of the library (`cw01/zad2`, `zad3a`, `zad3b`) | the length of the dynamic array | any two operations of the arguments, repeated | a length kept by hand and divided by | length and array agree; everything is freed | `ArrayDriver` |
| Filter generator (`cw08/zad1/filter.c`), copies in `cw10/zad1` | | | | | see section 7 |

The programs do not interact with each other; inside of one, all interaction is
by shared state, signals, pipes or messages, and is in the module. Two pairs of
programs do the same on different objects (cw07, cw06): there the second module
extends the first and takes its actions where the code is the same.

## 2. How to read the modules

* Every component has one module with its `Init`, one action per step, `Next`,
  `Spec`, a fair specification, and its properties at the end. Two abstract
  specifications say what two programs each promise: `LineQueue` (both programs
  of cw09) and `BarberShop` (both programs of cw07). The programs' modules
  instantiate them with a refinement mapping (`LQ`, `BS`).
* A step ends where another process or thread can see or influence something: an
  operation on a lock, semaphore, queue, condition variable or signal, or an access to a
  shared variable that is not protected. Actions carry the name of their function's prefix:
  `P_`, `C_` for producers and consumers, parent and child or clients, `B_`, `H_` for the barber's main and
  handler, `S_` for the server, a slave or a client's handler, `M_` for main or the master, `R_` and
  `K_` for the pipeline's runner and its children, `L_` for what belongs to both of them.
* The modules of the smaller programs are checked in one run; their variables
  carry a letter of the program for that: `R_` records, `A_` block array, `T_` its drivers,
  `D_` directories, `I_` interpreters, `Z_` Ctrl-Z, `F_` FIFO.
* Definitions that begin with "Seeded fault" are the same action with a plausible
  mistake. They are not used by the specification; each shows that some property
  notices the mistake.
* History variables only record: `served`, `consumed`, `times`, `drawn`, `unsaid`,
  `A_list`, `A_spilled`, `R_original`, `I_ran`, `I_reports`, `Z_early`, `F_written`, `F_shown`, `F_late`.
* Texts are abstracted: a line is its number (and, for cw09, its length), a
  request is the number of the line it came from, a command the way it ends,
  an image has small integers.

Undefined or unspecified behaviour is modelled by the possible outcomes or by a
place called "undefined", "killed" or "aborted" after which nothing happens
(`MessageServer`, `ImageFilter`, `ArrayDriver`, `Interpreter`). Two things are fixed: the flags
polled without `volatile` in cw07 are read afresh each time, which the unoptimised
build of `CMakeLists.txt` does, and the `sa_flags` that some programs leave
uninitialised are taken to be empty. So is `sa_mask`, but for `SignalCounting`, where it is a choice.

## 3. Modules and runs

`tlc -workers 2 -config <cfg> <module>`; each run takes from seconds to about two
minutes. All runs say `CHECK_DEADLOCK FALSE`: each of the programs ends, and some
stop short of the end in ways the properties describe.

### ProducerConsumer (`cw09/zad1/zad1.c`)

`pc` is where each thread is, `main_pc` where main is; the other variables are
the program's globals. `pthread_cond_wait` is three steps: the release together with
becoming a waiter, the wakeup by a broadcast (or a spurious one), and taking the
mutex again. `Init` chooses whether main waits NK seconds or joins.

* `pc_shared`: 3 producers, 3 consumers, N = 2, 4 lines, both kinds of main, spurious
  wakeups. Four lines go twice around a ring of two; with three threads of a kind
  one can be in the ring, one wait for a condition and one wait for the outer lock
  at the same time. `NoLostWakeup`: who waits finds its cell
  unchanged or a broadcast still to come; `EndMeansDrained`; `FoundAll`;
  `ImplementsLineQueue`; `RunCompletes`: all lines are looked at, and consumers end one
  after the other once `end_time` is set, unless one was on its way into the wait.
* `pc_hang` (violated): one thread of each kind, N = 1. See section 6.

### SemProducerConsumer (`cw09/zad2/zad2.c`)

Semaphores are their values. A line is read, stored, looked at and cleared in
separate steps, because a cancelled thread may die between any two.

* `sem`: 2 producers, 2 consumers, N = 2, 2 lines, both kinds of main; the time may be over at any step,
  and each thread may be ended between any two of its own. Two threads of a kind are one in the
  ring and one that waits for the outer semaphore. Two lines fill the ring; both
  positions come round, and a producer that finds the ring full waits, though only the end of the
  file is left for it. With three lines, so that a cell is used twice, the model
  has 2561306 states and the properties hold too; that takes five minutes with four workers and is not
  kept as a run.
  `LockTokens`: a lock's token is in the semaphore or with exactly one thread,
  which may be dead, and is never duplicated. `ImplementsLineQueue`: the same queue as
  above, also in a run that is cut off. `RunCompletes`: a timed run ends wherever
  the cancellations hit; the other kind consumes everything and ends unless a
  consumer waits when no token is left.

### Barber and PosixBarber (`cw07/zad1`, `cw07/zad2`)

The processes have separate variables for main and handler (`main`, `handler`; `Run` is one step
of either). Semaphores can be removed, after which every `semop` fails and counts as
done; in `PosixBarber` nothing is ever taken away. `MaxQueued` is the number of
messages the System V queue holds.

* `barber`: both programs (`ipc`), 3 clients, 2 seats, one client with two shaves, SIGINT to
  the barber and to one client at any step. Three clients are enough for one in the chair, one waiting and
  one arriving or turned away; the second shave lets a message of the first one do
  damage. `NoInterruptedWait`, `NoStaleMessage`, `ShavesAreReal`,
  `WaitingIsQueueLength`, `ImplementsBarberShop` (one client in the chair, in the order
  of the queue) and `EveryoneLeaves`.

### MessageServer and PosixMessageServer (`cw06/zad1`, `cw06/zad2`)

The server handles one message per step. The six computing requests are one kind,
ASK, since they differ in the text of the answer only; lines are well-formed. The
table has `MaxClients` slots with a cursor, and `Search` is what the loop of START finds.
`PosixMessageServer` takes the actions that are the same in both programs from
`MessageServer` and defines sending and leaving anew.

* `msg`: both programs (`ipc`), 3 clients, 2 slots, a public queue of two messages, END,
  SIGINT to one client (twice, too) and to the server, one client that dies on an empty
  line, one that says nothing but START and STOP. Three clients for two slots make the table full, let a slot be
  given back and taken by another, and leave one client without; two messages fill the
  queue in service and, with POSIX, after it was unlinked. `AnswerIsMine`, `SlotsFitClients`,
  `TurnedAwayOnlyIfFull`, `StopMeansStop`, `P_Answered`.

### ImageFilter (`cw08/zad1/zad1.c`)

A thread computes a row per step, main creates, joins and writes as in the code,
including entries `2 * t` of an array with `ThreadNo` entries.

* `filter_bands`: 5 rows, 3 threads, a filter of size 3: bands of 1, 1 and 3 rows.
  `EachRowOnce`, `JoinedRowsInFile` (values against `ExpectedPixel`, a reference
  that clamps by distance).
* `filter_lost` (violated): 2 rows, 2 threads. See section 6.

### WorkPermits (`cw04/zad2/zad2.c`)

`frames` is the stack of the parent's running handlers: a pending signal may push a
frame between any two steps, but not onto a frame of the same signal. `pending` merges
standard signals and queues real-time ones. `n++` is a load and a store.

Main's look at `n` (`P_Check`) and its `pause` (`P_Pause`) are two steps with a place, "tested",
between them. A signal that is handled at "pause" leads back to the look; one that is
handled at "tested" does not, and if it was the last the parent pauses for ever with
n = N. `EveryoneWorksThenEnds` has this end as an alternative of its own, and it is
reached.

* `permits`: 2 children, K in 0..2 (all at once, bulk of one, bulk of two), two real-time numbers:
  `FlagIsPassedOn`, `WorkIsCounted`, `EveryoneWorksThenEnds`. `WorkIsCounted` speaks of runs in
  which all draw the same number, where no work may be lost; when numbers differ `n++` loses updates,
  and the parent waits for the rest. With three
  children and one number the model has 750311 states and the properties hold too; that takes three
  minutes and shows no new case, and is not kept as a run.

### Pipeline (`cw05/zad1/zad1.c`)

The runner's `fd` is its descriptor table, `kids` are the children with their own
copies of it, taken at the fork. `fork`, `pipe` and `close` give and free the lowest number,
so that a number closed by mistake turns up again. The programs of a pipeline are five kinds (one that
writes, one that copies, one that stops reading, one that fails, one that does not
exist). A child that cannot `exec` calls `exit`, and the C library moves the position of the script,
which all processes share, back to what the child has read of its copy of the buffer; `rewound` says that this has happened.

* In run `programs`, see below: six scripts with lines of one to four programs, over pipes that hold one
  item of four, with no descriptors in the array of pipes at the start: `StreamArrives`,
  `LinesOnce`, `NobodyLeftBehind`. Four programs use the array of two pipes twice; an item
  more than a pipe holds makes a writer wait for its reader. `LinesOnce` and
  `NobodyLeftBehind` speak of a run up to the first child that moves the script back (`rewound`), and leave
  open what comes after it.
* `pipeline_garbage` (violated): three programs, and the array as a build without
  optimisation finds it. See section 6.

### The smaller programs

* `programs` checks nine modules that have nothing in common in one run: `program`
  says which of them runs, and the others stay in one initial state.
  * `SignalCounting` (`cw04/zad3`): types 1 to 3 with L = 0, 1, 2 and 6, Ctrl-C at any
    point. A handler is split at every signal that may interrupt it; `OneMore` merges or
    queues. `SignalsAccounted`, `PingPongReportsAll`, and `BothEnd` in `TheyAllEnd`. Six signals let two
    be pending, one in a handler and one on its way back, twice.
  * `RecordSort` (`cw02/zad1`): every file of up to four records with three keys,
    equal ones included, one step per write. The properties speak of a permutation of the
    records (`R_Orders`), so that equal records are told apart. `RecordsSurviveStop`, `SortedStably`.
  * `BlockArray` (`cw01/zad1`): every sequence of operations on up to three blocks of up
    to two of two letters, a static array of three blocks. The heap is addressed, so that
    a leak, a block freed twice or a pointer left behind shows. `ArrayIsList`;
    `NearestIsNearest`: the search in a dynamic array finds the first of the nearest of all other blocks, after
    any operations, whenever one is nearer than the block's own sum (if none is, both searches answer 0).
  * `ArrayDriver` (`cw01/zad2`, `zad3a`, `zad3b`): any two operations (add, add and remove, remove,
    search, none) with zero to two rounds, on arrays of one and three blocks: enough to
    remove all blocks exactly, and to try more. `LengthIsKept`, whose last part says of what a program may die
    in terms of the length this run asked for (`T_first`), and `ArrayIsList` again. What zad3a writes past the
    end of the static array may kill it or not: it is a choice (`CreateStatic3a`).
  * `DirectorySearch`: one tree with nested, empty and unreadable directories, files of
    the day and off by one in day, month and year, links; the buffer of standard output holds
    one entry (a terminal), two or all. `EveryMatchListed` says which entries are listed,
    `ListedAgain` how often each.
  * `Interpreter` (`cw03/zad2`, `zad3a`): all scripts of up to three of seven commands; memory
    limits in reach, at the sign bit (2048) and past the width of an `int` (4096). `EachOnItsOwn`.
  * `StopContinue` (`cw04/zad1a`, `zad1b`): up to five Ctrl-Z and one Ctrl-C at any point. Five
    are enough to go twice around and to interrupt each handler in each place.
    `CtrlZToggles` says what the next Ctrl-Z does to a program that waits: it goes on, but for zad1a when
    one came between `signal` and `pause`, where the process is stopped.
  * `Fifo` (`cw05/zad2`): two slaves with none to two lines; a line is two pieces and the
    buffer three, so that a read cuts lines in two. A third slave adds nothing but
    more of the same. What the master prints is its buffer up to the first terminator, which a
    read does not put there, and `Read` is what reads have brought. `NothingLost`, and
    `EveryoneEnds` in `TheyAllEnd`.
  * `Pipeline` (`cw05/zad1`), as said above.
* `static_nearest` (violated): three static blocks. See section 6.
* `interpreter` (violated): the script that `cw03/zad2` brings along. See section 6.

## 4. Fairness

* `ProducerConsumer`, `SemProducerConsumer`, `ImageFilter`, `MessageServer`,
  `PosixMessageServer`, `WorkPermits`, `SignalCounting`, `Pipeline`, `Fifo`: weak fairness of each thread or process, that is,
  the scheduler runs whoever can run. Locks need no more, because every thread takes
  a lock a bounded number of times. `ProducerConsumer` also assumes that spurious
  wakeups come to an end; with infinitely many of them nothing would be promised by
  POSIX either. In `SemProducerConsumer` a requested cancellation takes place eventually.
  In `SignalCounting` the delivery of a pending signal is part of what a process can run,
  and the child's end has fairness of its own: a signal that stays pending is delivered even though others come.
* `Barber`, `PosixBarber`: strong fairness of taking the lock besides, because a
  client that finds no free seat tries again without pause. Linux queues the waiters of
  a System V semaphore in order, so the assumption holds there; for `sem_wait` it is an
  assumption about the scheduler.
* Nobody has to type a line, press Ctrl-C or Ctrl-Z, start a slave, or die: those actions have no fairness.
* `RecordSort`, `BlockArray`, `ArrayDriver`, `DirectorySearch`, `Interpreter` and `StopContinue` state no liveness:
  their loops are bounded by construction, or wait for the terminal.

## 5. What is proved

Checked by `tlapm` for every value of the constants that satisfies the module's `ASSUME`.

**ProducerConsumerProofs** (`ConstantsAssumption`: disjoint threads, N > 0, any
file, any NKs). The inductive invariant is `IInv`. None of the properties is inductive alone: a
step of a producer keeps the queue in order only because the cell at
`writing_pos` is not one that holds a line, which needs the owners of the locks
(`WriteLockOwner`, `ReadLockOwner`, `CellLockOwner`), the picture of the ring as a
window of at most N consecutive lines (`Window`), where the two positions are
(`WritingPos`, `ReadingPos`), and that lines are consumed in order (`ConsumedInOrder`). The
argument has three layers, each inductive on the one below:

1. `TypeCorrect`: `Spec => []TypeOK`, and `LocksCorrect`: the owner of a lock is exactly the
   thread between taking and releasing it.
2. `RingCorrect`: window and positions. The lemmas of `RingArithmetic` say that two
   line numbers less than N apart have different cells.
3. `Invariance`: with `EofSeen` (who is at the end of the file, or `end_time`, means
   that all lines are read) and `CheckedEmpty` (the cell a consumer is about to wait
   for is still empty, because it owns the cell).

From it follow `NoWakeupIsLost`, `EndIsDrained`, `CountIsRight` (`FoundAll`) and
`Refinement`: `Spec => ImplementsLineQueue`, where storing a line is `Put`, taking one
is `Get`, and every other step stutters. `CountIsRight` carries its own invariant, that
`line_counter` counts the matches among `consumed`, and assumes besides that there is a consumer.

**SemProducerConsumerProofs** (`SemConstantsAssumption`). With semaphores a lock has no
owner, so `TokenInv` counts tokens: in the semaphore or with exactly one thread, which may
have been cancelled since (`WriteToken`, `ReadToken`, `CellTokens`), and `LineInHand`, the
line that a producer has read and not yet stored. On it rests the same window as above
(`RingInv`, equal to `IInv`); the steps that are one action there and several here
(read, store, post; look, clear, post) are the work. Results: `LocksConserved`
(`LockTokens`), `Invariance`, and `Refinement`, in which a line is out of the queue as
soon as it was looked at, before its cell is cleared.

**MessageServerProofs** (`MessageServerAssumption`), for both kinds of queues at once:
`SystemVSteps` and `PosixSteps` say that a step of either program is an `AnyStep`, in which
it is left open what the difference between them is about (is a message to a removed queue
lost, and is what was in it gone), and everything else is proved of `AnyStep`. The
inductive invariant `IInv` has two parts. `OneAtATime`: of a client that was not told to
stop there is one message or one answer under way at most, and its place in the program
says which; `AnswersMine` (`AnswerIsMine`) follows. `SaidInOrder`, `OneSlotEach`,
`TableFollows` and `LeftInOrder`: a client says START first and STOP last, is in the table
when it asks, has one slot, and after STOP none; `SlotsFit` (`SlotsFitClients`) follows.
Neither part needs to know how full the queue is. `SearchFinds` says what the loop of START
finds, for `TurnedAway` (`TurnedAwayOnlyIfFull`).

**HandlerProofs** (`WorkPermitsAssumption`) is about the two programs of cw04 that live in their
handlers. In `WorkPermits` `FlagIsPassedOn` is a sum of cardinalities that
is 1: whoever has the flag is alone, so that no signal that carries it can meet a pending
one of its kind (`NothingToMergeWith`), which is what keeps the sum. It is inductive with
the types (`FlagPassed`). `WorkCounted` (`WorkIsCounted`) needs `IInv`: a child works once,
because its permission is in one place, and there once, on its way from the request through
`childBuf` and the handler that serves it (`OnePermission`, `NoRepeats`), and what a handler
has read of `n` is still `n`, as long as no other number interrupts it (`ReadIsCurrent`).

In `StopContinue` (any number of presses) there is `CtrlZStopsAndContinues` (`CtrlZToggles`), and
`EarlyCtrlZIsMissed` about the case it excepts, an action property (`WaitsOn`): a zad1a that waits after
an early Ctrl-Z stays in this wait in every step, whatever is pressed, until Ctrl-C ends it. For zad1a
it rests on `ThreeFrames`, a table of what is on the stack; for zad1b on `LastFrame`: the handlers never
return, so only the last frame counts, and it says what the next Ctrl-Z does and whether the last
script lives.

**BarberProofs** (`BarberAssumption`: any clients, seats, shaves and size of the message
queue), for both shops at once: `SystemVSteps` and `PosixSteps` say that a step of either is an
`AnyStep`, which leaves open how much room the message queue has, and whether stopping takes
objects away. The properties lean on one another, because everything is carried by two
semaphores that say nothing about who posted: that no signal interrupts a wait needs to
know where each process is, which needs to know which message it has waited for,
which needs that no message is left over. So there is one inductive invariant, `IInv`:

* `TypeOK` and `ClientsFollow` (an invited client is in its busy wait and not yet shaved) hold always;
* `ShopInv` holds until the semaphores are removed. `OneHolder`: the lock is free or has
  one holder, a stopped one included. `Queued`, `Counted`: the queue has clients in their
  busy wait, each once, and `waiting` is its length, or one more while a client is between the
  two. `Asleep`: while `awake` is 0 nobody waits or sits down. `OneBusy`: one client at most has
  to do with the barber, and `NoCustomer`, `WokenUp` and `Invited` are the tables of what he
  and it do together, with the messages in the semaphores at each stage. These tables end
  when either is stopped in the middle, so `Messages` and `Accounts` say what is
  true of messages and shaves even then: a client's account is one ahead exactly from
  the message that it is done to its leaving (`Due`).

The lemmas go along the conversation: `BarberLooks`, `BarberInvites`, `BarberIsWoken`,
`BarberCloses`, `OutsideTheChair`, `ClientOutside`, `ClientWakesBarber`, `ClientIsInvited`.
Results: `Invariance` and `PosixInvariance`; from them `InterruptsNothing` (`NoInterruptedWait`),
`NothingIsLeftOver` (`NoStaleMessage`), `CountIsRight` (`WaitingIsQueueLength`),
`ShavesCounted` (`ShavesAreReal`); and `Refinement` (`ImplementsBarberShop`): sitting down
is `TakeSeat`, the signal to the barber `WakeBarber`, the end of a shave `Leave`, the barber's
look into the queue `Invite`, all else stutters, until the barber is stopped.

**ImageFilterProofs** (`ImageFilterAssumption`): `IndexInImage` (the clamped index is
inside of the image), `ShapeCorrect`, `BandsCorrect` (the inductive `BandInv`: a thread
is past a row of its band exactly if that row was computed once) and `RowsOnce`: no row
twice, none left out, for every height and every number of threads. It rests on `BandsDisjoint`
and `BandsCover`, facts about the division with remainder by which main cuts the bands.
`JoinedRowsCorrect` (`JoinedRowsInFile`) carries `FileInv` besides: what is computed of a
band has its values in the picture (`RowsComputed`), main writes after the joins (`Waited`),
and the file is the picture of that moment (`Written`). `RowIsExpected` is about the pixels:
the row as the code computes it with clamped indices is that of the reference, which takes the
nearest pixel, by distance (`NearestIsClamp`). The sum of the products over the filter is
the same operator in both, so that nothing has to be proved about folds.

**ProgramsProofs** has the proofs of the programs that are not servers or rooms of threads,
one section each:

* `SignalCounting` (`SignalConstants`: any numbers of signals): `Accounted`
  (`SignalsAccounted`, which is inductive with the types) and `PingPongExact`
  (`PingPongReportsAll`). The second needs two invariants: `OneUnderWay`, a token that
  is with main, in a signal, in a handler or used up, and that ties the three counts to
  its place; and `EndAfterAll`, the child is told to end only when the last echo was
  counted. Together they say that the signal that ends the child finds nothing to overtake.
* `Interpreter` (any scripts and limits): `EachAlone` (`EachOnItsOwn`) from `I_Inv`. `Current`: between
  `getline` and `waitpid` there is one command and one child at most, and `start` is what all the
  children before have used, which is why a difference of two totals is one command's own usage
  (`Reported`). `EndedWell`: whatever was waited for ended well, but the command that stopped it.
* `RecordSort` (any size of a record, any file): `RecordsAreKept` (`RecordsSurviveStop`) and
  `SortIsStable` (`SortedStably`). The invariant names, at each place of the loops, a permutation
  by which the file came from the original. `R_AtFor`: the first m records are in order, with ties
  by their number in the original, and the others have not moved; `R_AtWhile`: record m + 1 has come down to
  place q; `R_AtWrite`: between the two writes the file would be such an arrangement if B stood
  where the position is, so that the record that is missing is the one in memory.
* `Fifo` (any slaves, lines and size of the buffer, whatever is in the buffer at first):
  `FifoLosesNothing` (`NothingLost`). There is a number n such that reads have brought the first n
  pieces written, each for the first time after the one before it (`HasFirst`), the rest is in
  the FIFO (`F_Flow`), and the buffer has the last read in front and behind it only pieces that were read
  before (`BufferHas`), so that what is printed again beyond the last read is nothing new
  (`ReadRepeats`). That pieces are different (`F_Distinct`) and that only latecomers write after the
  end (`F_Places`) is what makes it inductive.
* `Pipeline` (any scripts, sizes of pipes, numbers of lines read at once): `LinesRunOnce`
  (`LinesOnce`: as long as nothing was `rewound`) from `Lines_Inv`, in which `L_Order` is how the children were started, each the next one of its line
  and with the next pipe, and `L_Lines`, that a line is only begun when the last program of the one
  before has succeeded. `StreamsArrive` (`StreamArrives`) from `Flow_Inv` besides: `L_Descriptors` is
  the table of the runner, in which two pairs of descriptors change places from program to program
  (`Parity`), and that of each child before and after it is wired; `L_Flow` says that what a
  program has passed on is with the next one or in the pipe between them. Nothing is assumed of
  what is in the array of pipes at the start. The hypothesis is about the run: no step `ClosesForeign`, that is, no turn of
  the loop closes an open descriptor whose number was left in `pipes[1]`. `pipeline_garbage` is a run
  with such a step, so the hypothesis cannot be dropped, and it is needed for nothing else: with values that are no open
  descriptors at that moment, and for lines of one program with any, streams arrive. `LinesRunOnce` does not need it.
* `BlockArray` (`BlockConstants`: any letters and sizes): `ArrayHoldsItsList` (`ArrayIsList`).
  `A_DynamicInv`: pointers are different, what is allocated is what they point to, and each points to
  its string and a terminator; `A_StaticInv`: each block that nothing was spilled on has its string. The work is in
  what the chains of exchanges in `addBlockDynamic` and `deleteBlockDynamic` come to: an insertion
  and a removal (`A_Inserts`, `A_Removes`).
  `SearchesFindNearest` (`NearestIsNearest`) needs no more of the state than that, and then the loop: after
  each block it has found the first of the nearest so far (`FoundFirst`). The loop of the static search does
  the same up to the first block where a negative difference is kept (`Turns`); `StaticSearchKeepsSmaller`
  says so, which is how far `StaticFindsNearest`, that run `static_nearest` violates, is true.
* `ArrayDriver`: `DriverKeepsLength` (`LengthIsKept`). The length at any moment is that before the operation
  (`T_Base`) and what its rounds have changed (`T_Shift`), the same for the program's variable and the array.
* `DirectorySearch` (any trees, also with a directory in two others or below itself; any sizes of buffer):
  `SearchListsMatches` (`EveryMatchListed`). A matching entry is in the output, or in a
  buffer on the stack, or will be seen: some frame has its directory, or one above it, still to
  look at (`NotLost`). `Shared`: calls have one buffer, so that what a caller left in it is in the
  callee's or written; the forked process has its copy and the parent its own.

The prover cannot instantiate the library's theorems of induction, whose parameter is an operator. Where a
proof about a loop needs an induction it takes the least number for which the claim
fails: `HasLeast` (a nonempty set of naturals has a least one) follows from the
well-foundedness of the order, and definitions by recursion are used only through the equation that says
what a function is after one more round. This is why `Sum`, `Search`, `MovedUp`
and `MovedDown` are recursive functions.

Only model-checked:

* liveness everywhere, which is outside of the prover's reach: `RunCompletes` (twice), `EveryoneLeaves`,
  `StopMeansStop`, `P_Answered`, `EveryoneWorksThenEnds`, `NobodyLeftBehind` and `TheyAllEnd`;
* `ListedAgain`, how often the forking search lists an entry again. It counts occurrences with `SelectSeq`
  and directories with `Cardinality`, and holds for trees in which each directory is in one other only; the run has
  such a tree. The theorem about the same search holds for any.

## 6. Disagreements with the code's own words, and observations

* `pc_hang`: the last producer broadcasts `someone_is_writing` (`cw09/zad1/zad1.c:101`)
  before it sets `end_time` (line 108). A consumer that tests `end_time` in between
  waits for ever with `read_lock` in its hands, and main's "wait for consumers to
  finish" (line 259) never returns.
* `filter_lost`: main stores handles at `thread_ar[0], [2], ...` and joins
  `thread_ar[0 .. thread_no - 1]`: threads are not waited for, and the "result into
  img_out file" (`cw08/zad1/zad1.c:204`) is written before they have computed it.
* `pipeline_garbage`: with j = 1 the runner closes `pipes[1]` before it has stored a
  pipe there (`cw05/zad1/zad1.c:80`). If the stack holds zeros it closes its standard input, the
  next pipe gets descriptor 0, and the second program of three closes its own
  input: the test script `cw05/zad1/proba.txt` prints nothing.
* `static_nearest`: `nearestStaticSum` keeps the difference with its sign (`cw01/zad1/library.c:183`; the dynamic
  search takes the absolute value, line 155). With sums 1, 2, 2 the search for the nearest to the second block
  takes the first, after which no distance is below the difference, -1, not even that of the third block, 0.
  The programs call it a search "for nearest to" a block (`cw01/zad3b/test.c:149`).
* `interpreter`: `cw03/zad2/zad2.c:55` frees the line and goes on with the pointer. The
  second `free` of the same memory may end the interpreter, and the third command of the
  script `cw03/zad2/proba.txt` is never run (glibc: "free(): double free detected in tcache 2").

What the models also show, without a run of its own:

* `cw09/zad2` can end in the same way as `cw09/zad1`, with a consumer that waits for a token
  after the last one; `RunCompletes` says precisely when.
* After SIGINT to the System V barber every `semop` fails, and clients count shaves
  that nobody did; hence the condition of `ShavesAreReal`. A client that is interrupted
  while it has the lock stops the shop in both programs.
* With more seats than the System V queue holds messages a client waits in `msgsnd`
  with the lock in its hands, and the barber needs the lock to make room (`cw07/zad1/client.c:158`).
  The run has fewer seats.
* A client for which the server has no slot gets no answer to START and waits until SIGINT;
  its STOP is then handled with an index past the table ("undefined" in the model).
* A STOP that waits for room in the public queue is lost when one more SIGINT comes, and the
  slot with it (`unsaid` in `SlotsFitClients`).
* In `cw04/zad2` a child that is permitted before it reaches `pause` does its work and
  then pauses until the parent ends everybody. The parent may itself pause for ever: with n = N, when the
  last signal was handled between its look at `n` and its `pause` (`zad2.c:167`), or with n < N, when two handlers
  of different signals lost an update of `n`. `malloc(sizeof(*childAr * N))` (line 92) is the size of one int; the
  table is written and never read, and is not part of the model.
* `cw04/zad3` of type 2 with L = 0 need not end: the exchange goes on if its first echo comes
  before main looks. The handler of the signal that ends the child exits, and
  interrupts whatever handler is running, so that even type 3 can report fewer signals than it sent.
* In `cw05/zad1` a child that cannot `exec` moves the script back, and lines are run twice
  (`rewound`); with two such children in a line this need not end.
* In `cw05/zad2` the first slave that ends removes the name, and a slave started afterwards
  finds no FIFO; one that opens it after the master saw the end waits for ever or dies of
  SIGPIPE; and the master prints the rest of an earlier, longer read again, because what it reads
  has no terminator (`cw05/zad2/master.c:35`).
* `cw03/zad1` lists files again for each process it forks when its output is not a terminal.
* Between the two writes of an exchange `cw02/zad1` has one record in memory only.
* A memory limit of 2048 megabytes and more is no limit, or with 4096 a limit of nothing (`cw03/zad3a/zad3a.c:70`).
* `cw04/zad1a` swallows a Ctrl-Z between `signal` and `pause`, and then waits for ever: each further one stops
  the process, and when the shell continues it, it is in the same `pause` (`EarlyCtrlZIsMissed`); the handlers of `cw04/zad1b`
  never return, and the stack grows with every Ctrl-Z.
* `insertBlockStatic` lets a string as long as a block write its terminator into the next one
  (`cw01/zad1/library.c:44`). Both searches answer 0 when no block is nearer than the distance they start with, the
  block's own sum, even for block 0 (lines 145 and 172).
* `cw01/zad2` removes `rep` times as many blocks as it says, so that it dies of a division by
  zero (`test.c:234`); `cw01/zad3a` fills the static array with the wrong stride (`test.c:82`) and may die of it, though the
  runs in `results3a.txt` did not; `cw01/zad1/test.c:17` passes a length that is one too small.

## 7. What is not modelled

Creation and removal of IPC objects at start, the parsing of arguments and option files,
failures of `malloc`, `fopen` and of creating objects (the programs end before anything
concurrent exists), printing. In the barbers' programs, the parent that forks the clients and
waits for them. In cw04/zad2, Ctrl-C, which ends all processes at once. In cw06, malformed lines,
texts of 252 characters and more, which make a message longer than the buffer of `msgrcv`
(`cw06/zad1/server.c:68`), and descriptors: the POSIX server clears the slot of a client that leaves but never
closes its queue (`cw06/zad2/server.c:201`), so that it runs out of them in the long run. In cw08, reading the
image and the filter, and rounding. In cw02 and cw03/zad1, the buffers that paths are
written to. In cw01, calls of the library with an index out of range, which print a message and
then write or read out of bounds.

Whole components:

* the filter generator (`cw08/zad1/filter.c`) shuffles numbers, writes them and ends; there is
  nothing it shares or keeps. (It writes doubles to memory for ints, line 65.)
* `cw10/zad1` is a copy of cw09 in which the network program has not been written: the server is
  cw09/zad2 and the client cw09/zad1, with declarations changed.
* `generate` of `cw02/zad1` writes random records; `cw01/zad1/test.c` and both `test2.c`
  are fixed sequences of calls of the library, all of whose sequences `BlockArray` has.

## 8. Plan

Written, in this order: `ProducerConsumer` with `LineQueue` and its proofs, `SemProducerConsumer`,
`Barber` with `BarberShop`, `MessageServer`, `ImageFilter` and its proofs, `PosixBarber`,
`PosixMessageServer`, `WorkPermits`, `SignalCounting` and its proofs, `Pipeline`,
`RecordSort`, `BlockArray`, `DirectorySearch`, `Fifo`, `Interpreter`, `StopContinue`, `ArrayDriver`.

Then the proofs of `SemProducerConsumer`, `WorkPermits`, `MessageServer` with
`PosixMessageServer` and `Barber` with `PosixBarber`, the second part of those of `ImageFilter`,
and those of the smaller programs and of `Pipeline`, in `ProgramsProofs` and `HandlerProofs`.

What could follow: `ListedAgain` for trees in which no directory is entered twice, by counting the processes
that are forked while an entry is in a buffer; the paths of cw02 and cw03/zad1 with the length of
their buffers; `cw10/zad1` when its network program has been written.
