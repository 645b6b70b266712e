# FEUP-SOPE, modelled in TLA+

The repository holds two course projects and seven sets of exercises in C. Its
core is **Project 2**, a home-banking server with several threads ("bank
offices") that talks to user processes through named pipes; **Project 1** is
`forensic`, which analyses a directory tree with one process per directory.
The modules here model both, and the exercises with threads, processes, signals
and pipes; TLC checks them on small instances, and TLAPS proves for instances of
any size what holds of the accounts table, of the server's synchronisation and of its
log, that the server implements an atomic bank and its linked list a queue, that
`forensic` reports every file once and loses none through the failure of another
process, and what holds of the exercises, those with pipes included.

## 1. The system

| Part | Source | State | Operations | Interacts with |
|---|---|---|---|---|
| accounts and operations | `Project2/source/banking_aux.c`, `types.h`, `constants.h` | `accounts[]`: hash, salt, balance, `active`, a semaphore each | create, balance, transfer, shutdown; login | called by the offices |
| server, main thread | `server.c` `main` | `server_exit`, `close_thread`, the loop | create offices, administrator, FIFO; read a request, queue it, post; close, wake, join | FIFO, queue, mutex, `main_sem` |
| bank offices | `server.c` `read_request` | locals `request`, `reply`; `active_threads` | wait, take a request, take the accounts' semaphores, serve, answer, log, close the bank | queue, mutex, semaphores, users' FIFOs |
| request queue | `list_queue.h` | linked list with a size | push, pop, front | main and offices, under the mutex |
| user | `user.c` | its FIFO, its deadline | open, send, make its FIFO, poll, time out | server's FIFO, its own |
| named pipes | the operating system | directory entry and mode, readers, writers, contents | open, read, write, chmod, unlink, close | all processes |
| locks, semaphores, log | `general_aux.c`, `log.c`, `sope.h` | `slog.txt`, `ulog.txt` | each lock, semaphore and log call | everything |
| forensic | `Project1/forensic.c`, `forensic_aux.c` | a process per directory, pending signals, counts, output | analyse a path, a file; fork; signal; wait | parent and children |
| exercises | `Exercises/prob01` .. `prob07` | small programs | threads, mutexes, semaphores, signals, pipes, directories | none |

What is hard in it:

* **Two locks of two kinds.** Every office holds the global mutex from taking a
  request to logging its reply, and takes one or two account semaphores under
  it. The mutex makes each request atomic and the account semaphores
  superfluous, except that they can still be waited for twice.
* **A semaphore that counts a queue.** `main_sem` must equal the queue's
  length, because `front` dereferences the head unchecked; yet at the end every
  office is woken by a post that no request stands behind.
* **Closing.** An office closes the FIFO with `chmod`, then sets `server_exit`;
  main, which reads it without the mutex, must notice, leave a blocking `read`,
  drain the queue and wake all offices.
* **Users that come and go.** A user writes its request *before* its FIFO
  exists, may time out while the server answers, and may be gone when the
  server writes.
* **Integer edges.** Balances are unsigned 32-bit words compared once as `int`
  and once as words.
* **Signals** (forensic). Children's signals interrupt whatever the first
  process waits for, and coalesce.

Correctness, part by part: the table gives each request the first error that
applies, keeps balances within limits, creates no money and keeps credentials;
the server serves requests one at a time, in order, each against the table the
last one left; the queue is never read when empty; every queued request is
answered; a server told to exit exits; the log pairs requests with replies;
forensic reports each file once and ends after its children.

## 2. Modules

```
Banking ── Ledger ── AtomicBank            (abstract)
   │          └─ LedgerProofs
   ├─ Fifos ──┬─ BankServer ─┐
   │          └─ User ───────┴─ BankSystem ── MCBankSystem
   │                                └─ BankSystemProofs ── ServingProofs ── RefinementProofs
   └─ BankingProofs

FifoQueue (abstract)
ListQueue ── SyncLog ──┬───────────────────────────────────┐
                       └─ SyncLogProofs                    │
Exercise ─┬─ Pthreads ── Fill, Limit, Hello ─┬─────────────┼─ MCPrograms
          ├─ Children, Signals ──────────────┤             │
          │                                  └─ ExerciseProofs
          └─ Pipes ────────────────────────────────────────┘

Forensic ──┬─ MCForensic
           └─ ForensicProofs
```

* **Banking**: the pure part of `banking_aux.c`. Each operation's code is an
  operator (`create_code`, `balance_code`, `transfer_code`, `shutdown_code`)
  with the checks in the order of the source; `credited`, `debited` and
  `create_bank_account` are the stores; `wrap` and `to_int` are 32-bit
  arithmetic with `INT_LIMIT` for 2^31. A request's `id` and `amount` are the
  first two words of its union, which hold leftovers for operations without
  arguments. A hash is the pair of password and salt (SHA-256 as injective).
* **Ledger**: the table as a state machine, a request a step. It also holds
  the reference definition `documented_code`: the list of `types.h` with
  mathematical integers, against which the code's early breaks and 32-bit
  comparisons are checked.
* **AtomicBank**: what the bank promises. Requests are accepted in order,
  served one at a time, and each reply is reported, as computed or as
  `RC_USR_DOWN`. No threads, no locks. The count of active offices that the
  reply to a shutdown carries may be any number. `journal` is the set of reported
  replies, each with its place in the order.
* **Fifos**: the operating system's named pipes, from the calls made.
* **BankServer**: `main` and `read_request`. A label of `pc`/`main_pc` is the
  statement that comes next; a step is the code between two points where
  threads or processes meet. `++active_threads` is a load and a store, since
  one of its two updates is outside the mutex; a transfer's two stores are two
  steps; the effects of `create_bank_account` are visible before its semaphore
  is initialised.
* **User**: `user.c`. A process sends one request and ends with one outcome.
* **BankSystem**: all interleavings of main, offices and users; the
  synchronisation properties, the inductive invariant `IInv`, the refinement
  mapping to AtomicBank, and the liveness properties.
* **ListQueue**: `list_queue.h` node by node: `head`, `back`, `next`, and which
  addresses `malloc` has given out. `back` dangles after the last pop, and an
  address may be given out again. **FifoQueue** is the queue it is meant to be;
  BankServer uses that queue, as the sequence `requests`.
* **SyncLog**: `general_aux.c` beside `log.c`. A call on a mutex or semaphore and
  its entry in `slog.txt` are two steps, in the order of the code: after the call
  for `lock_mutex` and `unlock_mutex`, before it for `wait_sem` and `post_sem`,
  with a value read one step earlier. main and the offices run on top of it as far
  as these calls and the linked queue go; all requests are of one account.
* **Exercise**: `program`, the program that runs. **Pthreads**: main, its loop that
  creates threads and the one that joins them, a mutex. **Fill** (`prob07/p1a`,
  `p1b`, `p3`): threads fill an array with and without a mutex, and one verifies it;
  a step is a load or a store. **Limit** (`prob06/p01a`, `p01b`, `p01b1`, `p02`,
  `prob07/p2`): threads use up a limit. **Hello** (`prob06/p03*`, `p04*`, `p05*`):
  what threads read through the pointer main gives them, and what is printed when
  main ends first: the pointer is to an automatic variable of main, so what is read after
  its `pthread_exit` may be anything (`Pointed`, `Leftovers`). **Children** (`prob03/p6`, `p6b`, `p6c`, `p9`, `p9b`,
  `prob04/p4a`, `p4b`, `p5a`, `p5b`): fork, wait, waitpid and SIGCHLD. **Signals**
  (`prob04/p3b`): handlers that interrupt each other. **Pipes** (`prob05/p1a`, `p1b`,
  `p1c`, `p2a`, `p4`, `p06a1`, `p06a2`, `p06b1`): ends of pipes, ends of file, a fork
  that fails, pipes that fill (those of `p4`, `CAPACITY` lines), a named pipe with two
  writers.
* **Forensic**: `forensic.c`. A process is named after the directory it is
  forked for. `pending` is the set of signals sent to the first process (a set,
  because signals do not queue). With `-o` reports are appended to a file; on a
  standard output that is no terminal they are buffered and `fork` copies the
  buffer. Failures of `stat`, `opendir`, `popen` and `fork` and SIGINT may
  happen at any time; `cut` is the set of processes they have stopped.
* **BankingProofs, LedgerProofs, BankSystemProofs, ServingProofs, RefinementProofs,
  SyncLogProofs, ForensicProofs, ExerciseProofs**: the proofs (section 4).
* **MCLedger, MCBankSystem, MCForensic, MCPrograms**: instances for TLC.
  MCPrograms puts the small programs side by side: each behaviour runs one of them,
  the one `program` names, and the variables of the others stand still.

An operator whose comment begins with `Slip:` is a mistaken form of the
definition after it (a lock not taken, a semaphore not given back, a check left
out). No specification uses it; putting it in the place of the right one shows
that a property notices the mistake.

## 3. What is checked

| Run | Instance | Properties |
|---|---|---|
| `ledger` | 3 accounts, 2 passwords, 2 salts, words of 4 bits, limits 1 and 3; all legal requests | `LedgerTypeOK`, `BalancesWithinLimits`, `CodeIsTheFirstError`, `MoneyIsConserved`, `CredentialsAreKept` |
| `busy` | 4 accounts, 2 offices; two users with any of 7 requests, or three requests waiting in the pipe in any order | `MutualExclusion`, `TokensMatchRequests`, `FrontHasARequest`, `AtMostOneAbandoned`, `AccountSemaphoresAddUp`, `LogIsSerial`, `EveryStepIsAtomic`, `NoNewWriterAfterExit` |
| `startup` | from the first statement of main; 2 users, one of which may time out; a pipe of one request | `IInv`, `OutcomeIsLogged`, `ImplementsAtomicBank` |
| `progress` | opposite transfers and a shutdown, under fairness | `QueuedIsServed`, `ExitIsReached` |
| `forensic` | 4 directories, 4 files, with and without `-o`, buffered or not | `ForensicTypeOK`, `ReportedOnce`, `NothingMissed`, `CountsStayBehind`, `QuietRunWaits`, `RootEnds` |
| `programs` | one small program in each behaviour | the queue: `WellLinked`, `ImplementsFifo`, `ServedInOrder`; the log: `LocksInOrder`, `WakeUpsAreExplained`; threads: `FilledRight`, `CountsAddUp`, `OverrunIsBounded`, `LimitIsUsedUp`, `EachIsReported`; processes: `EachEndIsTold`, `NoZombieIsLeft`; signals: `CountsWhatWasSent`; pipes: `NobodyIsStuck`, `WhatIsWrittenArrives`; all: `TypesAreKept` |

`OutcomeIsLogged` looks at both processes' logs: a code a user received is the one
`slog.txt` has for its request or is about to have, a request logged as
`RC_USR_DOWN` has run into the user's time-out, and nobody is told `RC_SRV_DOWN` of
a request that was carried out, although users send before their FIFO exists, give
up, and lose requests to a full pipe.

`NothingMissed` says of `forensic` that a failure is local: a process that is not itself
cut short reports its whole directory and forks for each directory in it, whichever of
the others fail, crash or are interrupted; a run in which none does reports every file.
`QuietRunWaits` is likewise about all runs without `-o` in which the first process is not
itself cut short. `EachIsReported` claims the values printed only as long as main's
variables are there: main has not ended, or it has joined its threads before.
`CredentialsAreKept` looks at `create_bank_account` with its two guards, `create_code`'s
(`banking_aux.c:109`) and its own (`:21`); its mistaken form takes the salt into the
account that asks instead of the new one.

**Bounds.** A user process sends one request, so the number of users bounds a
behaviour, and nothing else has to be cut off. Two offices are enough for every
race of an office with another and with main; the proofs remove the bound for
the invariants. Balances start at 2 of at most 3, so that one transfer fits
and a second may fail at either end, and 4-bit words make every comparison wrap
somewhere. The requests of `busy` are those that conflict: opposite transfers,
an account made twice, an account paid before it exists, a shutdown against
anything, a wrong password. `PIPE_CAPACITY` is 1 in `startup`, so that a
request is lost.

`programs` has two offices, two requests (one the shutdown, in either order) and
two addresses, so that a freed one is given out again while the list is in use; two
filling threads and up to two positions, three threads that print, one number for what lies where main's variables were, two
operands one of which is a zero divisor; pipes of `p4` that hold one line; two turns of each loop that forks (three in the code), two
calls of `waitpid` between them (ten), four signals (fifty), two messages of each
writer (three), and a listing with and without lines that match. A loop's turns
differ in nothing but their number; two of each are enough for signals to merge,
handlers to nest, children to end in either order and writers to overtake each other. `forensic` has
483,000 states and `programs` 253,000, all of which are visited.
`NobodyIsStuck` asks with ENABLED whether an unfinished program can move.

`busy` and `progress` start when the bank is already open (`Running`:
accounts 1 and 2 exist, the offices wait, `slog.txt` counted from there), which
saves the users that would create them. Each such state is reached by `Spec`;
`startup` covers the way there. In `Crowded` the users' requests are in the pipe
and their FIFOs made, so that the offices are never starved of work.

**The refinement.** `due` is the reply an office has computed and not yet
logged, `pending` the queue with, in front, the request being served, `journal`
the logged replies. A request counts as served at the step that computes its
reply; while the two stores of a transfer are still to be made, `atomic_accounts`
rolls them forward. An `OP_CREATE_ACCOUNT` counts as served when the account is
made, since until then other threads see none. `ImplementsAtomicBank` is the
whole specification, initial state included; `EveryStepIsAtomic` is its
next-state part, for runs that do not start at the beginning.

**Fairness.** Weak fairness of main, of each office and of each user process
that has opened the server's FIFO: the kernel runs what can run. Nothing is
assumed about whether users come, nor strong fairness of any lock: a user sends
one request, so no lock is contended for ever. `forensic` assumes weak fairness
of each process's own work and of the end of main, none of signals or failures.

**Deadlock** is not reported in the runs of the server, of forensic and of the
small programs: an office waits for ever when no user comes, and the programs end.
For the pipes, where a program might stop half-way, `NobodyIsStuck` says that none
does: `Waits` spells out when a read, a write or an open blocks, the run compares it with ENABLED
in every state, and never does everybody at work wait (`SomebodyGoesOn`). The exception is
a process that opens the named pipe when all others have gone.

### Where code and comments part

Each of these runs checks one property, which says what the repository says of
the program, and TLC finds it violated.

| Run | Property | What happens |
|---|---|---|
| `self_transfer` | `SameIdIsAnswered` | For a transfer of an account to itself the office waits twice for one semaphore (`server.c:55`, `:64`) with the mutex held; the server stops, and RC_SAME_ID is never answered. |
| `idle_count` | `IdleMeansInactive` | `--active_threads` is outside the mutex: an update is lost and idle offices are counted as active. |
| `sigpipe` | `ServerOutlivesUsers` | A user leaves between the open of its FIFO and the write: SIGPIPE ends the server. |
| `shutdown_order` | `ShutdownIsObeyed` | RC_USR_DOWN overwrites RC_OK before the shutdown is decided: it does not take place. |
| `balance_id` | `OwnerIsToldTheBalance` | OP_BALANCE tests `create.account_id`, which its request never sets. |
| `interrupted_wait` | `WaitsForChildren` | With `-o` a child's signal interrupts `wait`, and forensic ends before its children. |

Others were read off the code and have no run of their own: a login to an
account that does not exist is answered RC_ID_NOT_FOUND although RC_LOGIN_FAIL
comes first in `types.h` (`banking_aux.c:35`), and the administrator
paying itself RC_SAME_ID although RC_OP_NALLOW comes first (`:136`), two cases that
`CodeIsTheFirstError` leaves out; the log entry of a new account is always the administrator's
(`banking_aux.c:28`); `hash` in `validate_bank_account` is one byte short;
`forensic -r` is read and never asked for. An amount of 2^31 or above, which
`atoi` makes of a negative argument, passes both 32-bit comparisons
(`banking_aux.c:162`, `:168`), so that balances leave their limits: the properties
of the table are about `LegalRequest`. In most programs of `prob06/p03` to `p05` the threads
read automatic variables of main after its `pthread_exit` (`p03.c:20`, `p04a.c:24`,
`p05a.c:43`), which are no longer defined. In the exercises also the first thread's result is
freed twice and the second's never (`prob06/p02.c:35`, `prob07/p2.c:44`; the model
lets the program abort or go on), PID 0 is reported as terminated when `waitpid` has
found none (`prob04/p4b.c:32`), and the father writes sixteen bytes of an array of
eight (`prob05/p2a.c:72`).

## 4. What is proved

The theorems hold for every number of accounts, offices, users, requests and
every word size and limits that satisfy the assumptions in the modules
(`BalanceAssumption`: `0 < MIN_BALANCE <= MAX_BALANCE` and `2 * MAX_BALANCE`
below 2^31, as in `constants.h`; at least one office; every request well formed;
`TreeAssumption` and `ReachAssumption`: directories make a tree that the first one
is the root of, and every file is in some directory of it; `LimitAssumption` and
`HelloAssumption`: there are as many thread numbers as the programs make threads).

*LedgerProofs.* `LedgerIsTyped`; `LimitsAreKept` (legal requests keep every
client's balance within the limits); `MoneyMoves` (what one account loses one
other gains); `CredentialsStay`. The heart is a pair of lemmas on words,
`FundsComparison` and `RoomComparison`: when balances are within the limits and
the amount is a non-negative `int`, the comparisons made on 32-bit words mean
what they seem to. `CodesAreDocumented` compares `reply_code` with
`documented_code` for every legal request against every table the bank can reach:
`DocumentedCode` spells out the first error that applies, `LoginIff` says when a
login fails (its invariant, `Salted`: the hash of an account is made with the
account's own salt), `FundsIff` and `RoomIff` are the comparisons.

*BankSystemProofs.* `Invariant`: `Spec => []IInv`, and from it `TypeCorrect`,
`MutexExcludes`, `TokensCount`, `FrontIsSafe` and `OneAbandoned`. None of these
is inductive alone. Types need `FrontHasARequest` (an office that pops an empty
queue has no request); that needs `TokensMatchRequests` (behind a token there is
a request) and `MutualExclusion` (nobody pops between); the count of tokens
holds only until `close_thread`, from where `Closing` takes over: at that moment
the queue was empty, hence no token was out, hence no office is on its way to
the mutex, and none goes there again. `Unborn` says that offices not yet created
have not run. There is a lemma for each part and each of the two kinds of
threads; `QuietSteps` names the steps of an office that touch neither mutex,
queue, semaphore nor the labels around them, so that each lemma looks only at
the others.

*BankingProofs.* What the operators on words, accounts and replies return.

*ServingProofs.* Four theorems, each from an inductive invariant of its own beside
`IInv`. `ClosingIsFinal`: before main makes the FIFO nothing has been asked of the
offices (`Early`), and the FIFO is closed to users before `server_exit` is set
(`ClosedFirst`). `SerialLog`: while an office serves, the last entry of the log is its
own and no reply; while none does, it is no request (`LogTail`). `SemaphoresAddUp`:
`active` is asked anew before every post, so it must not change for an account that is
held. Counting the holders of an account (`SemaphoresFollow`) is therefore inductive only
together with the fact that the account an office makes is not the one that asked for it
(`MakesAnother`). `OutcomesAreLogged` follows a request from the user to the FIFO, the
queue, an office and the log, and its reply back to the outcome in `ulog.txt`. Its
invariant (`OutcomeInv`) says that a user's request is in one of these places and only
once (`AsksOnce`), that an office serves the request logged last (`ServesTheLast`), which
an answer in the log is then matched with, and that every code written to a user's FIFO
or read from it is the one the log has for that request or gets next (`ToldIsLogged`).

*RefinementProofs.* `ServerIsAtomic`: `Spec => ImplementsAtomicBank`, and with it
`StepsAreAtomic`. By mutual exclusion at most one office is between two states of the
atomic bank, so that what the mapping shows depends on that office's label alone
(`AloneShows`); a step of anybody else does not show (`Unnoticed`), unless main
makes the first account or pushes a request, when no office is in the critical
section. Of the holder's steps, `BuildReply` or `InstallAccount` is `Serve`, `OpenUserFifo`
may be `UserIsDown`, `LogReply` is `Report`, and the rest stutters, the two stores of a
transfer included. `RInv` says what an office about to make an account has found, and
that the table is empty before the first.

*SyncLogProofs.* First the list of `list_queue.h`, for any addresses and values.
`ListIsWellLinked` and `ListIsTyped`: there is a chain of the allocated nodes from `head`
to `back`; `PushChain` and `PopChain` make the new chain out of the old.
`ListImplementsFifo`: `ListSpec => ImplementsFifo`. The mapping takes the values along
*the* chain, so the proof needs that there is only one: of two chains from the same head
take the first place where they differ (the natural numbers are well founded); the nodes
before it are one node with one `next`. Along it a step appends a value, takes the first,
or changes nothing. Then main and any number of offices around the list:
`ServerImplementsFifo`, `SyncIsTyped`, and the three properties of `slog.txt` and the
order of service. They rest on one invariant (`SyncInv`): a thread holds the mutex exactly
while it is inside (`Exclusion`), and its lock is then the last one logged (`Said`); the
account's semaphore is down while the office inside has it and nobody else (`Account`);
before `close_thread` the value of `main_sem`, the offices on their way to take a request
and the request main has pushed and not posted are together the length of the list
(`Tokens`), afterwards nobody goes to take one (`Closing`); main's posts in the log are at
least those (`Posted`); and the requests logged, the one in an office's hands, those along
the chain and the one main has read are, in this order, those that arrived (`Order`).

*ForensicProofs.* For any tree of directories and files. `ForensicIsTyped`.
`ReportsAreSingle`: every path is with one process only (`Apart`), and there is a set of
directories that have been opened, which nobody has to open again and outside of which
nothing has been seen (`Opened`, `Printed`). The set is bound by an existential quantifier
in the invariant (`Shared`), because after a second failure of `fork` in one process the
state no longer shows which directories they were. `QuietRunsWait`: without `-o` the first
process, unless it is itself cut short, ends after all its children. No signal is then ever
sent (`NoSignal`), those waited for have gone, and once the loop of `wait` is over no child
is left, nor born any more (`WaitedFor`). `CountsAreBehind`: only taking a file begins one,
and a signal is sent for each file once at most, so that what is counted or pending is
never more than the files begun (`Behind`), whatever is merged. `NothingIsMissed`: of the
directory of a process that is not cut short each entry is still to do, being done, in its
own buffer or in the output, or has a process (`Found`), and such a process ends with
nothing left and nothing buffered (`Orderly`). A step of another process, failed or not,
cannot disturb this, since it only adds to the output (`FoundStands`). When nothing has
failed, the directories whose process has ended are closed under `Contents`, and by
`ReachAssumption` all.

*ExerciseProofs.* For any number of threads, positions, children, signals, lines and
messages.

* Fill. `FillIsTyped`; `LockingFillsRight`: with the mutex the verifying thread finds no
  error. The invariant (`Right`) joins mutual exclusion (`OneInside`), what lies at the
  positions already passed (`Filled`), that `val` and `pos` agree between steps (`InStep`)
  and the order of main's phases (`MainInOrder`). `CountsOfAll`: every store of `pos` is
  one of its thread's, numbered by what the thread has counted or is about to; the set of
  these numbered stores covers `pos` and every index still to be stored (`StoresCover`),
  and with the mutex it has `pos` elements. `OverrunOfTwo`: a thread that has passed the
  test and finds the array full is alone on its way to the store (`OverrunAt`).
* Limit. `LimitHolds`: with the mutex the limit and what has been written add up
  (`Guarded`); without it they add up to that at least, less what a stale load will
  put back (`Unguarded`).
* Hello. `LinesAreOfEachThread`: a thread has a line exactly if it has ended, or, where
  main prints, if it has been joined (`OneLineEach`), the lines come in turn where each
  thread waits for the one before (`LinesInTurn`), and main's counter has not gone back
  below a thread it has made (`MadeInTurn`). That a line printed while main was there is
  right (`LinesAreTrue`) stays so until main ends without joining.
* Children. `ChildrenAreTyped`; `EndsAreTold`: the first process alone forks, one child
  for each turn (`Forked`); whoever has been told of is gone (`ToldOnce`), and where the
  parent waits whoever is gone has been told of (`ToldAll`); each turn of the waiting
  loop takes one of the children left (`TurnsLeft`). `NoChildIsForgotten`: a child becomes
  a zombie by the step that makes SIGCHLD pending, and the handler returns only when it
  has found none.
* Signals. `CounterIsBounded`: every value at hand, in `v` or loaded by a handler
  (`Held`), leaves room for the signals pending and the handlers at work (`Within`).
  A value stored late undoes what the other handler has stored meanwhile, and that is
  as far as it can go wrong.
* Pipes. `ReadersGetWhatIsWritten`. Where a father and a son talk, the invariant
  (`SumInv`, `PairInv`) says at each place of the one what the other may have done and
  which ends are open, also when the fork has failed and the father goes on as the son.
  In the pipeline (`PipelineInv`) the lines that `ls` has printed are those that `grep`
  has read, followed by those in the pipe and those still to write (`Lines`, `Listed`),
  and the matches among those read are as many as `sort` has, the pipe has and `grep`
  has in hand (`InHands`, `Counted`); that nothing is lost when a process ends follows
  from the ends that those after it still have open (`Staged`). On the named pipe
  (`FifoInv`) what the reader has and what is in the pipe (`Stream`) holds the first
  messages of each writer in order (`Delivered`); a step of the other writer and the
  emptying of a pipe whose last end is closed must leave that so.
  `PipesAreClosedInTime`: an end to write that keeps a reader waiting, or one to read
  that keeps the writer of a full pipe from SIGPIPE, belongs to somebody who is at work
  (`SumHolders`, `PairHolders`, `PipelineHolders`, `FifoHolders` say at which places each
  may have which), and following the ends, first to read and then to write, one comes to
  a process that waits for nothing.

*Only model-checked.* `OverrunIsBounded` says nothing of three threads or more: one
that stores an old `pos` lets others past the test again, while another keeps the high
one; with three threads and two positions an index of four is reached. `TypesAreKept`
joins type invariants that are proved one by one (`SyncIsTyped`, `FillIsTyped`,
`ChildrenAreTyped`). Liveness (`QueuedIsServed`, `ExitIsReached`, `RootEnds`) under
fairness and ENABLED are beyond this prover: of `NobodyIsStuck` the part
`SomebodyGoesOn` is proved, and that whoever does not wait can go on is left to the
run. The types of Pipes are proved only as far as the proofs above use them
(`PipesShape` and the places in the invariants).

## 5. Plan

Done: all modules and proofs above. What could follow:

1. How far three threads and more can overrun the array of `prob07/p1b`.
2. The log that `forensic -v` writes, whose lines come from several processes.
3. SyncLog with more than one account, and `BankServer` on top of it.

## 6. Not modelled, and why

* The parsing and checking of command lines, `printf` texts, `usleep`'s
  durations (a delay is an interleaving), the records' layout in `log.c`.
* Requests are written and read whole: they are shorter than `PIPE_BUF`.
* Entries of operations that `log.c` does not know, for which it writes nothing
  (`log.c:77`, `:100`). A user may ask for one (`banking_aux.c:45` takes the number as
  it is); the users of the runs ask for the four that `types.h` has, and the model would
  log any other as well.
* Account ids outside the table and other errors of memory layout.
* Failures of `malloc`, `pthread_create`, `mkfifo` and of the log's files.
* Threads that run on while `exit` ends the process: main joins all offices
  first.
* `forensic`: the log of `-v`, the hashes and the text of a report, the arguments. Its
  handler calls functions that are not async-signal-safe (`forensic.c:17-49`), which may do
  anything when it interrupts one of them; the model runs it between statements. It also
  lets a signal end `wait` when a child has already gone, where `wait` need not block.
* The pipes of `prob05/p1*`, `p2a` and `p06*` never fill: what is written to them is shorter
  than a pipe.
* `prob01` and `prob02`: sequential programs on files, directories and arguments.
* `prob03/p1` to `p5`, `p7`, `p8*` and `p10`: one process, or processes that print and
  sleep without waiting for each other, or `exec` another program. `prob04/p1*`, `p2a`,
  `p3a`: one process whose handler prints, asks or sets a flag, and no second party.
* `prob05/p3a`, `p3b`: do not compile (syntax errors). `p06b2.c`: the `open` of the pipe it
  reads is commented out. `p62.c` is no C source but a binary file.
* `prob07/p4.c`: uses a semaphore `sem` it does not declare, and does not compile.
