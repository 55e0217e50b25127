# Verification of the apue programs

The repository is a collection of Unix programs in C (under `src/apue`): small libraries,
servers and daemons, each built and run on its own. This directory holds TLA+ models of the
programs that keep state under concurrency, the TLC configurations that check them, and
proofs, checked by TLAPS, of what the models promise for every size.

`PROJECT.json` maps every definition to the lines it stands for and lists runs, mutants,
findings, hazards and theorems. `tlc -config X.cfg M` runs a configuration,
`tlapm M.tla` checks the proofs of a module.

## The system

| Component | State | Operations | What is hard | What makes it correct |
|---|---|---|---|---|
| `pthreads/thr_static_pool_cond.c`, prime pool | `job`, one mutex, one condition variable for both sides | main posts numbers and -1; workers take, judge and print | two kinds of waiter on one condition variable; the end of the run | every number judged once, nobody oversleeps, the report is complete, it ends |
| `pthreads/tbf_lib`, token buckets for threads | `jobs[]`, `job_mut`, `inited`, `tid`; a mutex and condition variable per bucket | `tbf_init`, `tbf_fetch_token`, `tbf_destroy`, `tbf_destroy_all`, accumulator thread | races between init, destroy and the accumulator, which reads `jobs[]` under no mutex | a bucket holds 0 to burst tokens, no slot is used twice, waiting callers are served, calls return |
| `pthreads/tbf_lib/mycp.c`, `signal/tbf_lib/mycp.c` | file offsets | copy at the rate of a bucket | the end of the file is noticed and ignored | the rate is kept, the copy is complete |
| `pthreads/thr_static_pool.c` | `job`, one mutex | as the pool, but by polling, with a `pause()` | busy waiting, the end | as the pool |
| `pthreads/test2.c`, `cancle.c` | `curid`, a mutex, condition variables | threads print in turn until they are cancelled | asynchronous cancellation with a mutex held, a signal handler that ends the process | strict rotation, clean end |
| `signal/tbf_lib`, token buckets for one thread | `jobs[]`, `inited`, the action of SIGALRM, the alarm | the same four calls, `alarm_handler()` | the handler interrupts any call at any read or write | as the threaded library |
| `signal/tbf`, `signal/Leaky` | one counter or flag | copies with a bucket of their own | an alarm between the test and `pause()`, and in the middle of `token -= CPS` | the rate is kept, the copy is complete |
| `signal/hw`, alarms | `jobs[]` of alarms on one `setitimer` | add, cancel, handler that runs callbacks | callbacks that change the table they are called from, inside a call they interrupt | each alarm fires once, in its second; nobody's alarm is overwritten |
| `netipc/tcp/select` server | `connected_arr`, `rset`, `max_fd` | accept, broadcast a line, print what clients send | a snapshot of ready descriptors that ages, reuse of descriptors, failing accepts | watched = open = in the table, never blocks, clients are heard |
| `netipc/tcp/poll` server | `pollfd` array | the same on `poll()` | clients that have left stay in the array and are readable for ever; connections that find it full are forgotten | the array names open connections, never blocks, requests are answered and clients heard |
| `ipc/ipc_pipe.c`, `ipc/test1.c` | a pipe, its open ends | a parent and a child write and read it | which process has which end open | everything is read, both processes end |
| `netipc` (other), `ipc` (other) | little | one exchange and out | blocking I/O | the message arrives |
| `project/net_radio` | channels with a directory each, the channel list, packets | the library is parsed and read, the server multicasts the list, the client takes it apart | 8-bit channel numbers, the wrap-around of the song index, files never closed, packets longer than a buffer, lost datagrams | the list names the readable directories, the client reads what was sent |
| `process/few/mydaemon.c` | pid file, lock | become a daemon, one instance only | a crash between lock and write | one instance, the file names it |
| `io/stdio`, `io/sysio` (cat, cp, reverse), `process/mygetline.c` | offsets, a buffer | loops over bytes, blocks, lines | the last block, a NUL in a buffer, ignored results | the target holds what the name of the tool says |
| `process` (other), `io` (other), `c++` | none shared | sequential use of system calls | nothing that a test would not reach | - |

The programs do not talk to each other. The components interact inside a program: threads
through mutexes and condition variables, a handler and the code it interrupts through
variables, a server and its clients through sockets.

## Modules

| Module | Models | Correspondence |
|---|---|---|
| `Monitor` | a pthread mutex with one condition variable | the record `mon`: its owner and the set of threads asleep; wakeups may be spurious |
| `WorkPool` | abstract: every value is issued, taken by one worker and finished | - |
| `PoolCond` | the pool | `pc` per thread; `Post`, `Finish`, `Join` are main, `Take`, `Leave`, `Judge` the worker |
| `PoolProofs` | theorems about `PoolCond` | - |
| `Buckets` | abstract: what a token-bucket library promises, for both libraries | - |
| `TokenBucket` | the threaded library | `slot`, `token`, `par`, `mon` are what `jobs[]` points to; one action per stretch between two points where another thread can be observed |
| `MCTokenBucket` | its instance for TLC | one kind of bucket, symmetry |
| `TokenBucketProofs` | theorems about `TokenBucket` | - |
| `SignalBucket` | the SIGALRM library | `Alarm` is the whole handler; the program's actions are the code between two accesses to `jobs[]` whose order with the handler matters (the `-=` is two) |
| `MCSignalBucket` | its instance for TLC | two kinds of bucket |
| `SignalBucketProofs` | theorems about `SignalBucket` | - |
| `Tcp` | external: what a TCP server sees of clients, standard input and the kernel | `who` maps descriptors to clients; lowest free descriptor first |
| `SelectServer` | the select server, composed with `Tcp` | `pc` is the place in the loop, `conn` is `connected_arr[0..i-1]`, `j` the loop index from 1 |
| `TcpProofs` | lemmas about `Tcp`: connections stay exact, what is readable stays readable | - |
| `SelectServerProofs` | theorems about `SelectServer` | - |
| `PollServer` | the poll server, composed with `Tcp` | `conn` is `pfd[2..nfds-1]`, `revents` the entries that `poll()` has marked |
| `PollServerProofs` | theorems about `PollServer` | - |
| `AlarmLib` | the alarm library | `jobs` is `jobs[]`; `pc`, `k` are the interrupted call, `h`, `stage` the handler: what slot it is at, and before, in or after the callback |
| `AlarmLibProofs` | theorems about `AlarmLib` | - |
| `MediaLib` | the radio's media library | `all_chns`, `sum_chn_nr`, `cur_chn_id` by name; a directory is parsed, and a song read, a call at a time |
| `NetRadio` | the radio: `MediaLib`, the list's thread, the network, a client | `list` is the packet's entries, `entry` the client's offset into it |
| `MCNetRadio` | its instance for TLC | the libraries that are tried |
| `RatedCopy` | the four rated copies | `copier` says which program; `spot` is its place, `token` the bucket or Leaky's flag |
| `Pipe` | the two programs on a pipe | `ends` is who has which end open |
| `Rotation` | the threads that print in turn | `curid` and `i` by name, `thread` the place of each thread, `handler` that of `exit_process()` |
| `Daemon` | instances of the daemon | `pidfile` is the contents of `LOCKFILE`, `lockers` who has locked it |
| `PoolPoll` | the pool that polls | `stage` is the place of each thread, `given` the numbers that workers have taken |
| `TextFiles` | the file tools | `tool` says which program; `pos` is what it has consumed, `line` and `room` the buffer of `mygetline()` |
| `Samples` | the six small programs, from `RatedCopy` to `TextFiles`, side by side | `program` chooses the one that runs |
| `MCSamples` | its instance for TLC | the texts that are tried |
| `RadioSamplesProofs` | theorems about `NetRadio` and `Samples` | - |

`PoolCond`, `TokenBucket` and `Rotation` compose with `Monitor`, `SelectServer` and `PollServer` with `Tcp`,
`NetRadio` with `MediaLib`; `Samples` instantiates the small programs, which do not interact;
`PoolCond` implements `WorkPool`, `TokenBucket` and `SignalBucket` implement `Buckets`.

## Abstractions

* **Time.** A second ends at any moment; nothing is said of how many ticks come in a minute.
* **Contracts.** Calls that return `-EINVAL` change nothing and are left out. Callers of the
  threaded library are the ones `mycp.c` shows: a descriptor is used between `tbf_init()` and
  `tbf_destroy()`, nobody destroys a bucket somebody is fetching from, `tbf_destroy_all()` runs
  alone and after a first `tbf_init()` (the `pthread_cancel()` of a `tid` never set has no
  meaning). The accumulator and the signal handler are under no contract: callers cannot see them.
  `cps` and `burst` are positive.
* **Unsynchronised reads** of `jobs[i]` by the accumulator are single reads of an aligned
  pointer, as the x86 build makes them; an old NULL only puts a credit off.
* **Freed memory.** In `TokenBucket` the accumulator that follows a dangling pointer crashes or
  goes unnoticed. Memory given to another `tbf_init()` meanwhile cannot become visible: the
  destruction holds `job_mut` for ever. In `SignalBucket` the handler goes unnoticed or the
  state becomes `"undefined"`, after which nothing is claimed.
* **Reads of `jobs[td]->token`** in lines 112, 113 and 116 of the SIGALRM library are separate
  reads, as the source has them and an unoptimised build makes them; a build that merges them
  has fewer behaviours.
* **The select server.** `write()` does not block, as clients read what they are sent. The
  `memcpy()` of line 130 has overlapping arguments; it is taken as the forward copy that moves
  the rest of the table up. `new_socket`, which is never assigned, is -1 or not (`garbage`), the
  same on every turn. `AcceptFails` stands for EMFILE, ENFILE and ENOMEM, and `FD_SET(-1)` is
  undefined. `select()` on a closed descriptor is excluded by `Watched`.
* **The poll server.** As above, `write()` does not block. `read()` gives data, the end or an error, and
  the server does the same with each.
* **Alarms.** `due` and `by` of an alarm are history variables: the ticks to its second, and who registered it; so
  is `asked`. Counts below 0 are one value, -1, as nothing happens at any of them. A callback makes one call of the
  library; the handler is not interrupted, as its signal is blocked. A program that is between `free()` and
  `= NULL` when the handler runs may go on or become `"undefined"`.
* **The radio.** `main.c` leaves the threads that send songs out (`#if 0`), and `thr_chn_data.c` is not in the makefile:
  `NetRadio` has them as callers of `mlib_read_chn_data()`, which is what the library is there for. A directory is the
  length of its description and the sizes of its songs; `HALF` is the 128 of an 8-bit signed number, `LEN_MAX` the 32767 of the
  16 bits for an entry's length. What lies behind a channel array that is left, or behind the client's buffer, is
  `"undefined"`, and so is a packet whose entries cannot follow each other as the length of one does not fit.
  `missed` is a history variable: the directories of which a call failed or for which no number was left. Datagrams of one kind are
  alike, so that `net` is a set: they are lost, repeated and overtake one another.
* **Rated copies.** `slack` is a history variable: the bytes that the rate still allows to ask `read()` for. The libraries are
  what `Buckets` promises of them; a burst is 20 times the rate, as in the sources.
* **`EINTR`** of `select()` and `poll()` is one more turn; any other failure ends the server (`SelectFails`, `PollFails`).
* **Rotation.** A cancellation takes effect between two steps of a thread; the sources ask for asynchronous
  cancellation, which inside of the C library is not safe and left out. The handler's unlock and the `pthread_cancel()` calls
  that follow it (lines 31 to 36) are one step: a thread that gets the mutex in between is cancelled with it, as one that
  gets it earlier or later.
* **Daemon.** `spoilt` is a history variable: the instances whose `ftruncate()` or `write()` has failed, which the
  code ignores. A number written over an older one without truncation may leave a mixture, `Torn`.
* **The pool that polls** tries several ends of its range, as with 201 numbers and 4 workers only one case occurs. `given` is a
  history variable.
* **Pipe.** The player that `test1.c` starts is external: it reads to the end or quits.
* **File tools.** A byte is a NUL, a newline, the byte that as a `char` equals `EOF`, or any other. `read()` of a file gives
  all that is there; a failing `write()` loses a block, and nobody looks. A source that cannot be sought ends a reversal (`SeekFails`).
* **Text** elsewhere: what is printed or sent is left out, except the set of primes of the pool.

## Runs

| Run | Instance | Question and answer |
|---|---|---|
| `pool_cond` | 3 workers, numbers 1 to 5, 50,557 states | In every interleaving with spurious wakeups and failing thread creations: each number in one place (`ExactlyOnce`), sleepers have a reason (`NoLostWakeup`), a run that returns 0 has printed the primes (`ReportComplete`), `WorkPool` is implemented, the program ends. |
| `tbf_safety` | 2 callers, 2 accumulators, 2 slots, symmetric, 585,434 states | Every order of init, fetch and destroy: `TokenBounded`, `NoLostWakeup`, `HandlesLive`, `SlotReserved`, `CrashOnlyByDestroy`, and `Buckets` is implemented. |
| `tbf_live` | 2 callers, no symmetry, 73,295 states | `FetchServed`: a waiting caller is served unless others are served for ever, spurious wakeups go on, the process ends or an accumulator was cancelled. |
| `tbf_destroy` | the same library | Violated: `tbf_destroy()` does not return; line 150 locks `job_mut` again where it should unlock it. |
| `sigtbf` | 3 slots, 2 kinds of bucket, 19,798 states | The handler at every place of every call: `TakesWhatIsThere`, `BucketsSpec`, `HandlesLive`; the two windows in which it does harm (`SpoilsOnlyInDestroy`, `KilledOnlyInUnload`) are the only ones; `FetchReturns`. |
| `sigtbf_reload` | the same | Violated: after `tbf_destroy_all()` the signal module is not loaded again, as `inited` stays set; a new bucket gets no tokens. |
| `select` | 2 clients, 2 connections at a time, table of 3, 217,690 states | `Watched`, `TableExact`, `NeverBlocks`: the aged snapshot, reused descriptors and the moving table do no harm, and only failed accepts fill the table (part of `TableExact`); `ClientHeard`. |
| `select_eof` | the same | Violated: at the end of standard input, which stays readable, no client is read any more. |
| `poll` | 3 clients, 2 of which talk, an array with room for 2, 91,162 states | `ArrayExact`: entries are open connections, each once, a connection is missing only if there is no room, and what `poll()` found is there when the thread comes to it; `Served`: requests are answered and clients heard, however many have left and stay readable. |
| `alarm` | 3 alarms of 0 to 2 seconds, 509,334 states | `FiresOnTime`: never late, and one second early only where a callback registers it ahead of the handler; alarms of 0 seconds never fire. `OwnAlarmKept`: what `myalarm()` overwrites can only be a callback's alarm. |
| `radio` | 8 libraries, numbers below 4, a buffer of 12 bytes, lengths up to 13, 9 files, 139,836 states | `ListExact`: the list names the readable directories of which no call failed, each once, in order, without a hole; `EntriesRead`: the client prints the list or, if that is longer than its buffer, a beginning of it; `GetsList`: a waiting client gets it. |
| `samples` | six kinds of programs, one at a time, 41,148 states | `CopiesComplete`: the copies keep their rate and become complete, pipes drain, file tools do what their names say; `TakesTurns`: strict rotation, and the handler's joins return; `RunsAlone`: one daemon, which the file names, through kills and restarts; `HandsOut`: numbers are taken in their order, each once, none is lost, and they go on as long as a worker asks for one. |

Some things the code does are in the models without a run of their own: in the threaded library two first calls of
`tbf_init()` start two accumulators (`Accs` has two for that, and `TokenBounded` holds with both); an alarm
between lines 112 and 113 of the SIGALRM library makes a fetch return more than was asked for; when `job` becomes
-1 in the pool the last number has been taken and not, as the comment of line 61 has it, computed. A callback
that cancels its own alarm crashes `AlarmLib` (`Fired`), and clients that leave kill both servers by SIGPIPE.

In the small programs the code falls short of what its own comments say, and the properties ask for what is true of the
code and would be true of it once mended:

* `mycp.c` of `signal/tbf`, `signal/tbf_lib` and `pthreads/tbf_lib` is to be a `cp` (line 2) and never ends: the end of the file
  is noticed and passed over. `CopiesComplete` asks that the copy becomes complete, and an end only of `Leaky`.
* `thr_static_pool.c` is to judge 201 numbers (lines 2 and 3), to wait for the last one to be computed (line 58) and to join its
  workers (line 67). Each worker stays in the `pause()` of line 98 with its first number, and main() spins for ever. `HandsOut`
  asks that numbers are handed out until all have been or every worker is in that `pause()`.
* `mycat_line.c` (lines 2 and 3) and `mycp.c` of `io/stdio` (line 2) are to be a `cat` and a `cp`, and lose what follows a NUL in their buffer;
  `reverse_file.c` of `io/sysio` reverses a block up to its first NUL only; `mygetline()` takes a byte 0xff for the end of the file.
  `CopiesComplete` promises nothing of these tools for such texts, but the length of a reversal.

### Bounds

The bounds are the constants of the `.cfg` files, plus `MaxData` in `Tcp`.

* Pool: with three workers one can judge, one sleep and one hold the mutex; five numbers are more
  than the workers, so some worker takes a second one, and cover 1, primes and composites.
* Threaded buckets: two slots are needed for one to be full, searched past or destroyed while the
  other is in use; two callers race for init, slot and tokens; two accumulators are what the
  race of `tbf_init()` can create with two callers. `[cps 2, burst 3]` overflows at the second
  credit, and a fetch of 2 finds 0, 1, 2 or 3 tokens.
* Signal buckets: with three slots a bucket can be destroyed between two others, by `tbf_destroy()` or by the loop of
  `tbf_destroy_all()`, and its slot found again; a bucket that one credit fills and one that the second
  overflows; fetches that get exactly, or less than, what they ask for.
* Select server: with two descriptors for connections, a second client arrives while the first is
  there, both orders of removal occur, and a number is used again. The table has one entry more
  than there are descriptors for connections, as in the code, where `MAX_CONNECT` is 1024 and a process has 1024
  descriptors, four of which are not connections (`TableAssumption`); so only failed accepts overflow it.
  One unit of data per client
  is enough for data, end and reset to come in every order.
* Poll server: two of the three clients fill the array, so that the third is refused a place; two that talk and leave
  are enough for one that left to be ahead of one that waits. `Talkers` bounds the rest.
* Alarms: with three slots a callback can register before, at and behind the slot the handler is at, and the interrupted
  call can be at a third; 2 seconds are one tick more than the next, 0 is the number that never fires.
* Radio: `MCLibraries` has directories that lack something, lists that end before, at and behind the end of the client's buffer,
  an entry too long for its length as the first and as the last, more directories than numbers, more and fewer channels than songs.
  Nine descriptors run out.
* Samples: files of up to two bytes at 2 a second, so that a read is full, short or empty, and a bucket that holds 20 reads fills
  and loses credit; a pipe that a text nearly fills and a file
  overfills; three threads, daemons and workers, the least with a third that is neither first nor last; fewer and more
  numbers than workers; texts longer than a block, with NULs at both ends of a block.

### Deadlock

It is checked for the pool, whose specification has an explicit `Ended` step. It is off where the system
really stops: the token-bucket libraries (the process has crashed, been killed or exited; a `job_mut`
that is never unlocked after `tbf_destroy()` or `-ENOSPC`; a `pause()` that no alarm ends), the
servers (the process ends, or nobody outside does anything), the alarm library (a crash) and the radio and the samples,
which end.

### Fairness

* Pool: weak fairness of main and of each worker, that is, threads are scheduled. The mutex is not
  assumed to be fair.
* Threaded buckets: weak fairness of each thread inside the library, and strong fairness of
  `FetchLock`: a caller gets the bucket's mutex if it is free again and again, as the only steady
  competitor, the accumulator, sleeps a second between two rounds. Calling the library is never forced.
* Signal buckets: weak fairness of the program inside the library and of `Alarm`, the kernel's timer.
* Servers: weak fairness of the server's steps only, without the failure of `select()` or `poll()`; clients and
  standard input owe nothing.
* Radio: weak fairness of the server and of the client, and strong fairness of `ReceiveList`: a network that loses a list
  sent every second lets one through in the end.
* Samples: weak fairness of a copy, of its alarm where one is set, of each process on a pipe, of a file tool and of main; strong
  fairness of each thread of the rotation, and of `Lock` in the pool that polls, as the mutex is free again and again. Failures, kills
  and the alarm that ends the rotation are never forced.

## Proofs

The theorems hold for all values of the constants under the named assumptions of the modules.

**Pool** (`PoolProofs`, from `NumbersAssumption` and `ThreadsAssumption`). Given the type invariant,
`ExactlyOnce` and `NoLostWakeup` are inductive. `ReportComplete` is not: `ReportInv` adds that what is printed is the
primes among the judged numbers, that main joins exactly when `job` is -1, and that nothing is left to issue
then; with `ExactlyOnce` it follows that every number has been judged when the last join returns. `PrimerIsPrime` shows that dividing up to
half of a number decides primality. `PoolImplementsWorkPool` follows from all of them.

**Threaded buckets** (`TokenBucketProofs`, from `SizeAssumption`, `ParamsAssumption`, `ThreadsAssumption`). `IInv`
joins the type invariant and the checked properties with
  - `JobOwner`: who scans or changes `jobs[]` owns `job_mut`, and so does a caller stuck in the second lock,
  - `CallArgs`, `LiveParams`: arguments of calls in progress and of live buckets are legal,
  - `Destroying`: the bucket a caller is about to free is live, out of everybody's hands, and freed once,
  - `Alone`: nobody else is inside the library during `tbf_destroy_all()`,
  - `AccInv`: an accumulator past its unprotected test of `jobs[i]` has a live bucket before it, or a
    destruction has begun that will keep `job_mut` for ever,
  - `TokenOwner`: who counts tokens owns the bucket's mutex.

`HandlesLive` needs `Destroying` and `Alone`; `TokenBounded` and `NoLostWakeup` need `TokenOwner`; `SlotReserved`
follows from `JobOwner`. `LibraryImplementsBuckets` maps an accumulator's level above the burst, between
lines 104 and 107, to the burst, so that the whole credit is one abstract `Refill`.

**Signal buckets** (`SignalBucketProofs`, from `SizeAssumption` and `ParamsAssumption`). `IInv` joins the type
invariant and the checked properties with
  - `CallArgs`, `LiveBounded`: legal arguments, live buckets between 0 and burst,
  - `Destroying`: only the bucket between lines 125 and 126 is freed memory,
  - `DestroyingAll`: `tbf_destroy_all()` has taken every descriptor and emptied the slots below its index,
  - `NoneLost`: otherwise a bucket without a descriptor is the one that is being destroyed,
  - `AlarmInv`: the default action and a running alarm meet at one place only.

`TypeOK` needs `TakesWhatIsThere` (or the subtraction could go below zero), which needs `LiveBounded` (or an alarm
could lower a bucket to its burst). In `LibraryImplementsBuckets` a credit that the write of line 116 undoes is
a token drawn: the promise of the abstract buckets is an upper bound on what is given out.

**Alarms** (`AlarmLibProofs`, from `AlarmAssumption`). `OwnAlarmKept` is inductive with the type invariant;
`FiresOnTime` is not, because it speaks of the slot in which a callback runs only. `IInv` adds
  - `CallHasAlarm`: a callback runs in the slot of a live alarm,
  - `Clock`: how `sec` stands to the time left, by where the handler is. Slots it has passed in this second agree
    (`Passed`), those to come are one ahead (`Pending`), the one whose callback runs is at 0 (`Firing`). An alarm
    that a callback has put into a slot which the handler still comes to is a second early, as the code has it.

**Servers** (`TcpProofs` from `FdAssumption` and `ClientAssumption`; `SelectServerProofs` with `TableAssumption`,
`PollServerProofs` with `ArrayAssumption` and `TalkersAssumption`). `NetInv` of `TcpProofs` says that a client waits
once or has one connection; with it each step of the outside keeps what is readable readable (`OutsideStep`) and a `read()`
or `close()` takes readiness from its own descriptor only (`ReadsDataStep`, `ClosesStep`). In `SelectServer`, `Watched` and
`TableExact` are then kept by every step; `NeverBlocks` needs `SnapshotFresh`, that every entry of the snapshot from `j` on is
still readable, which `Drop` keeps although it moves the table under the loop (`Removed` is the lemma about `RemoveAt`).
That only a failed `accept()` overflows the table is a pigeonhole argument (`FewConnections`). `ArrayExact` of `PollServer` is inductive
with the type invariant and `NetInv`.

**Radio** (`RadioSamplesProofs`, from `LibraryAssumption` and `MsgAssumption`). None of the three invariants is inductive.
`RadioInv` joins
  - `MediaInv`: the array is filled from its start (`Filled`): its channels come from the readable directories that are not missed, each of
    them (`Covers`), whose places grow, a channel's song lies in its list and is open only before the end, and behind the last channel there is nothing,
  - `ServerInv`: the next number is one more than the channels unless the 128th has left the array or an entry is too long; the list is the channels'
    from the moment it is sent, so that the readers, who change songs, cannot change it,
  - `ClientInv`: the client stands behind the entries it has printed, that is, its offset is their length as a packet,
    and lies in the packet.

`ListExact` needs that a directory which is parsed comes behind the others (`FillNext`) and that one which is passed over
leaves no hole and is either unreadable or missed (`PassOver`). `EntriesRead` needs arithmetic of the packet: its length, a recursive function, is taken apart
as sums, one for each entry (`BytesIsSum`); the sums of a prefix are the first of the whole's (`BytesOfPrefix`), and they grow, so the
client that is before the end of the list stands at an entry (`Reading`).

**Samples** (`RadioSamplesProofs`; each program under its own assumption in `Samples`). A step of `Samples` is a step of one
program and a stutter of the others (`OneRuns`), so each has an invariant of its own.
  - *Copies*, `CopyInv`: what the rate still allows covers the bucket and what has been taken from it and not yet been asked for, by the
    place of the program (`Credits`); between the load and the store of `token -= CPS` the value loaded is no more than what is
    there. `RateIsKept`.
  - *Pipes*, `PipeInv`: the ends that each process has open, by its place; what has been read, is in the pipe and is to be written is the whole.
    `PipeIsRead` needs that the writer's end is open until the writer is done.
  - *Rotation*, `RotationInv`: `curid` is -1 or the thread after the last one, and `i` is one ahead of it. `ThreadsTakeTurns`.
  - *Daemon*, `DaemonInv`: who has the lock, and what its owner has made of the file so far. `OneInstance`; it needs no assumption.
  - *Pool that polls*, `PollInv`: what main() has offered is what has been taken and, by itself, `job`; main() is at its joins only with
    everything taken. `NumbersTakenOnce`.
  - *File tools*, `TextInv`: what has been written, as a function of the position, for each of the nine tools (`Wrote`): a copy or a reversal
    of the part that is behind; for the tools that go by lines or reverse by blocks only if no NUL was met. `FilesAreFaithful` needs what `strlen()`, `fgets()` and `reverse_str()` give
    for a buffer of any contents (`StrlenIs`, `LineLenIs`, `reverse_strIs`).

The induction theorems of the library are out of reach, as they take an operator; where a proof goes by induction on the length of
a list, `NatInduct` does it with the hypothesis as a set, from the well-foundedness of `<` on the naturals.

The parts named `TypeOK`, `HandlesLive` and so on of each `IInv` are the definitions the runs check; the strengthenings
were checked by TLC on the same instances before they were proved.

What the runs check without a theorem is liveness: `Terminates`, `FetchServed`, `FetchReturns`, `ClientHeard`, `Served`, `GetsList`, and of
`CopiesComplete`, `TakesTurns` and `HandsOut` the parts that say that something happens (their safety parts are the theorems about
the samples). Fairness and ENABLED are out of the prover's reach.

## Not modelled

* Programs that make one system call after the other and keep no state: the directory utilities (`myls`, `mydu`, ...), most
  of `process`, the samples of `signal`, `pthreads/main.c`, `test1.c` and `thread_io.c`, `c++`.
* The client programs of the TCP servers: the clients of `Tcp` do what these do and more.
* The forking server, the datagram and local sockets, message queues and shared memory: one message and out; what could go wrong
  with it is in the kernel.
* What is printed, except where a property names it; `mycp.c` of `io/stdio` prints a line after its copy, which is left out.

## Plan

1. *Proofs*: the servers and the radio as refinements, once the abstract modules of the next item are there.
2. *Models*: an abstract server that both servers implement up to the connections that the poll server forgets; an abstract client that
   reads the list once, whatever the network repeats;
   the forking server, with children that end while the parent accepts.
