# HW_2year in TLA+

TLA+ models of the small systems programs in this repository, TLC configurations
that check them, and proofs checked by TLAPS. The repository is a collection of
independent C programs; most are a few processes that interact through System V
IPC, POSIX semaphores, signals, datagrams or inotify, and what is hard about them
is how those processes interleave.

## 1. The system

| Component | State | Operations | Interacts by |
|---|---|---|---|
| `sh_stack`: library (`stack.c`, `stack.h`), driver (`main.c`), stress test (`test.c`) | shared segment of pointers, set of three semaphores SIZE, COUNT, MUTEX, one handle `struct stack_t` per process | `attach_stack`, `detach_stack`, `mark_destruct`, `push`, `pop`, `print_all`, `set_wait`, `get_size`, `get_count` | shared memory, semaphores, `killpg` |
| `sh_memory`: `main.c`, `hand.c` | one shared cell, two POSIX semaphores, `flag` of hand | pass a file byte by byte | shared memory, semaphores, SIGUSR1 |
| `trans`: `main.c` (senders), `handler.c` (receiver) | flags, the pid of the peer, the block last received | move a file in blocks of eight bytes carried by signals | SIGCHLD, SIGUSR1, SIGTERM, SIGINT, SIGKILL |
| `msg`: `sen.c`, `rec.c` | a message queue | exchange of pids | System V message queue |
| `udp`: `server.c`, `udp.c`, `client.c` | client table `mas`, pipes, one subprocess and shell per client | connect, key, commands, quit, broadcast | UDP, pipes, fork |
| `udp`: `tcp.c`, `tcp_client.c` | a connection and a key per subprocess | the same service over TCP | TCP, fork |
| `udp`: `dfke.c`, `my_server.h` | none | key agreement, enciphering | |
| `udp/log.*`, `log` | static buffer | formatted logging | called from handlers as well |
| `udp/con.c` | none | stops the server | shared pid, SIGINT |
| `daemon`: `main.c`, `controller.c` | watches, event queue, backup directory, the paths in use | scan, copy, events, change of directory, stop | inotify, shared memory, SIGUSR1, SIGUSR2, SIGINT |
| `grep` | pipes, their ends in every process, children | runs a pipeline | fork, pipes, wait |
| `list`, `modules`: `field.*`, `m16.c`, `mn.c` | circular intrusive list; the moduli of the fields on it | add, find, delete; plugins register a field, `sum` modulo n | dlopen |
| `flocks`: `getlk.c`, `setlk.c` | record locks on a file, the query | list and set locks | fcntl |
| `socket`, `tcp` | the listening socket and its file | print what clients send, exit | connections |
| `bizbuzz` | the word read so far | transform a text | |
| `poll`, `inotify`, `dir`, `env`, `pthreads` | none that lasts | exercises with one loop each | I/O |

What makes each correct:

- **sh_stack**: clients see a bounded last-in first-out stack; at most one process
  is in the segment; COUNT is the number of completed pushes less that of pops; calls return;
  no handle mixes the segment of one stack with the semaphores of another.
- **sh_memory**: no byte is overwritten before it is taken, bytes arrive in order,
  both programs end.
- **trans**: no block is dropped because signals coalesce; the output is a beginning
  of one sender's file; transfers end; an interrupt ends both sides.
- **msg**: pids are exchanged both ways, never those of an earlier run; once a rec has found sen's queue, all return.
- **udp**: a subprocess reads only what its own client sent, in order; the table
  leads to the right pipe; the subprocess of a client that quits ends, if no shell prints for ever; free slots
  can be used.
- **udp over TCP**: lines as over UDP; a client that quits is served no more; whoever connects is served, whatever the
  others do in the middle of their exchange.
- **logging**: a call that is not interrupted has all its parts in a row in its record, whatever call it
  interrupts itself; the buffer is clean when no call is under way.
- **grep**: items reach the screen once and in order; every command sees the end of its input;
  the runner returns, and after all its commands.
- **list, modules**: the links are those of a sequence; a sum is modulo what was asked for.
- **flocks**: a byte that is write-locked all through a scan is listed, and once if its lock did not change; a scan ends.
- **bizbuzz**: every word is replaced by its own value.
- **socket**: a command that was written is read, unless the server is told to stop.
- **daemon**: when idle, every file has its copy; it never watches a backup that it recognises;
  a change that was asked for is made.

Hard behaviours, each listed at its line under `hazards` in `PROJECT.json`: values read
before a lock is taken and used after it; semaphores initialised by late arrivals; death
with a lock held; objects removed while in use; standard signals that coalesce or arrive
between a test and an assignment; handlers that never return, and handlers that log in the
middle of a log call; pipes that inherited ends keep open; one client that holds up others; duplicated, lost and
reordered datagrams; full tables and pipes; files that change while they are scanned.

## 2. Modules

| Module | Models |
|---|---|
| `StackSpec` | what `stack.h` promises: an atomic bounded stack |
| `ShStack` | `sh_stack/stack.c`, one action per system call or access to the segment; `ImplementsStack` is the refinement of `StackSpec` |
| `MCShStack` | its instances for TLC |
| `ShStackProofs` | theorems about `ShStack` |
| `ShMemory` | both programs of `sh_memory` |
| `Trans`, `MCTrans` | both programs of `trans`, any number of senders |
| `Msg` | both programs of `msg`, any number of each |
| `UdpServer`, `MCUdpServer` | server loop, subprocesses and clients of `udp`, with the network |
| `TcpServer` | the same over TCP |
| `ServerModes`, `MCServerModes` | `UdpServer` and `TcpServer` composed, as `choose_mode` loads one of the two |
| `Pipeline` | `grep/grep.c`, the commands it starts and their pipes |
| `SequenceSpec` | what a list promises: a sequence, as long as its head is in it |
| `CircularList` | the list of `modules/field.h` and `list/main.c`; `ListIsSequence` is the refinement of `SequenceSpec` |
| `Registry` | `modules/field.c` and its plugins, on that list |
| `LockScan` | both programs of `flocks`, and others that lock the file |
| `Log` | `log_error` and the handlers that interrupt it |
| `Bizzbuzz` | `transfer`, as a function, and the definition it is compared with |
| `PrintServer` | server and clients of `socket` |
| `Exercises`, `MCExercises` | `Msg`, `Pipeline`, `Registry`, `LockScan`, `Log`, `Bizzbuzz`, `PrintServer` side by side: one of them runs |
| `Daemon`, `MCDaemon` | the backup daemon, its controllers and the users who change files |
| `ListLemmas` | lemmas about least numbers, induction and sequences, which the theorems below rest on |
| `ShMemoryProofs`, `TransProofs`, `UdpServerProofs`, `DaemonProofs` | theorems about the module each is named after |
| `ServerModesProofs` | theorems about `TcpServer` and `ServerModes`, with those of `UdpServerProofs` |
| `ExercisesProofs` | theorems about `Exercises`, and through it about `Msg`, `Pipeline`, `CircularList`, `Registry`, `LockScan`, `Log`, `Bizzbuzz` and `PrintServer` |

**ShStack.** `shmKey`/`semKey` are the identifiers that the key names now; `segSize`, `mem`
outlive the key, as a removed segment lives until its last detach. `h[p]` is
`struct stack_t`, `pc[p]` says before which system call `p` is, and `loc[p]` holds its
locals, among them the `count` that `push` and `pop` read before they take the mutex.
A semaphore set that was removed makes `semctl` and `semop` fail, which the code ignores
(`Live`, `Getval`, `Setval`, `Semop`); a `semop` that would go above SEMVMX fails too. An
access outside the pages (`Stray`) may go unnoticed or kill the process. Sizes are
the number that is passed, which the code uses as bytes for `shmget` and as pointers for
the test; `Page` and `Word` turn the one into the other. `Rule` says what the clients
agree on: nothing; to pop only what they pushed (`test.c`); or to make one call at a time, of any
function: `mark_destruct` also while others are attached, whose handles are then for a stack that is
gone. In `StackSpec`, `holds` is who is attached; whoever is not (`Estranged`) is refused, or pops garbage.

**ShMemory.** A byte of the file is its position. `size` is `st_size` as `fstat`
gave it and `len` the bytes `read` will return, which differ when the file changes in
between. `main` sends SIGUSR1 and posts for the end without waiting for `hand` to handle the signal
(`main.c:51-53`). The handler runs when a system call of `hand` returns with the signal pending (`Handled`:
`write`, and a `sem_wait` that had to sleep), or at any other moment (`Deliver`); a `sem_wait` that finds the semaphore
free makes no system call, so that `hand` may take the post for the end as that of a byte.

**Trans.** `pending[x]` is the set of signals sent to `x` and not handled: at most one of
each number, as Linux keeps standard signals. A process handles what is pending before
it runs on. A block is its index; a failed read (`eio`) queues a block once more without SIGTERM.

**Msg.** The queue that has the key is `cur`; an identifier that is not `cur` makes calls
fail. `LeftOver` is what an earlier run may have left behind: no queue, or one with at most
one message in it. Programs are started (`SenStart`, `RecStart`) in the order of `readme.md`; nobody has to start one.

**UdpServer.** Process 0 is the server, process n the n-th subprocess. Each has its own
copy of the tables, as after `fork`; a subprocess whose `shell()` fails falls back into
the server's loop with its copy. A message carries the name of its sender, which the
code does not see, so that properties can tell who wrote it. Enciphering is a tag: a text
deciphered with another key than it was enciphered with is garbage. A line for the shell takes
the subprocess to `"talk"`, the loop of `read_bash`: it reads no pipe there until the shell is silent for POLL_WAIT
(`BashSilent`), which need never happen. What is printed
(answers of the shell, of `!hello!`) is left out, as no state depends on it.

**TcpServer.** Process 0 is the server. `up[c]` holds the messages of client c that no one read,
`down[c]` counts those to it. A client that ends with unread answers resets its connection;
one that ends without leaves it half closed, so that the first write still succeeds
(`peer`). A subprocess whose `child_handle` fails returns into the server's loop, with
`conn` and `tcpKey` of its own; whom it forks inherits its `bash_work`. `Serve` reads a line and executes it; `Talk` and `PassOn` are
the loop of `read_bash`, whose writes wait for room in the connection (`TcpRoom`) and are cut short by a client that left.

**ServerModes.** The mode is chosen once. Before anyone connects no fair action of either server
is enabled, so that the conjunction of both fairness conditions constrains only the one that
is loaded.

**Pipeline.** `fds[p]` are the ends of pipes process p holds in `data_pipe`, `stdin` and `stdout`
what its descriptors 0 and 1 are. An end is open as long as any process has it, which is
what decides when a reader sees the end and a writer gets SIGPIPE. A piece between two `|` is
one of six kinds: without characters (`strtok_r` skips it), without words, not on the PATH, a
filter, a source, and a command that leaves after one item.

**CircularList, Registry.** `links.next` and `links.prev` are the pointers; `Walk` is
`list_for_each_entry`. The refinement maps the walk forwards, or `"endless"` where it does not come
back, to the sequence. A field registers when its plugin is loaded, before `main` calls `sum`.

**LockScan.** `held[p][x]` is how process p has byte x locked. A lock is a run of bytes as long as it can be (`IsLock`):
the kernel joins what one owner adds beside its locks of the same type, and splits them where it unlocks or changes the type. A
query of `getlk` finds a lock in its way, the first of any process that holds one, or none. Locks are taken,
given back and parted between any two queries. Byte `LastByte` stands for all from there on. `times` and `owners` are
history: how many lines of the list have byte x of p, or that p changed how it has it, and who held any lock.

**Log.** The buffer is a sequence of parts, `pos` an index into it. A call is a frame with the step
it is at; a handler that logs pushes a frame at any step. `sprintf` at `pos` writes its part and a zero byte (`Nul`),
leaves zeros before it when the interrupted call has advanced `pos` and the handler has cleared the buffer, and
does not touch what is behind (`PasteAt`): a record is all of the buffer (`Written`), so that behind its string it may have parts,
whole or torn, of a longer text that it interrupted. Positions are counted in parts, which is what bytes would say as long as no write has failed in
between (levels, times and pids have one length each); a call is `sound` only then.

**PrintServer.** A client connects, writes a line and ends; `cut[c]` says whose command, or that a
signal, ended the server that c was connected to. A server that is killed leaves the socket's file
behind, so that the next one fails to bind.

**Exercises.** `program` says which of the programs runs; the others stay in an initial state. `Fairness`
is that of the modules, for the program that runs.

**Daemon.** The file system is the set `exists` and `content`; the scan is a stack of calls
of `monitor_directory`, each of which returns at least the entries that were there when it
was watched, in any order. `copy` moves one byte at a time, with anything in between, from the file it
opened, even if another is moved to that name, over what is at the file's relative path `Rel[f]` in the
backup: `bk` is indexed by that path, so that files of one name in two working directories share a
copy. The daemon compares paths by their spelling: `Alike` holds the pairs of a working directory and a backup in it
that are spelled alike, and only for those does `IsBackup` know the backup. Signals
interrupt any of it; `change_backup` and `change_work` close the inotify instance, take
their path from shared memory and start again, and never return, so their signal stays
blocked.

## 3. Runs

| Run | Checks | Bounds |
|---|---|---|
| `shstack_any` | `TypeOK` | 2 processes, all functions, 3 calls each, sizes below and above the page, SEMVMX 2, wait values -1..2 |
| `shstack_own` | `MutualExclusion`, `CountAccounted`, `PopNeverEmpty`, `EveryCallReturns` | 2 processes, 3 pushes or pops each, kills at any point, room for all |
| `shstack_serial` | `HandlesWhole`, `ImplementsStack` | 2 processes, all functions, 4 calls each one at a time, size 2, identifiers for two stacks |
| `shstack_race` | `ImplementsStack`, violated | 2 processes, one push each |
| `shmemory` | `TypeOK`, `NoOverwrite`, `CopiedInOrder`, `BothEnd` | files of 0..4 bytes that shrink to anything or grow by one |
| `trans` | `TypeOK`, `NoBlockDropped`, `OutIsPrefix`, `TransferEnds`, `InterruptStopsBoth` | 2 senders, 0..2 blocks and a rest, and one file each that is absent, not regular, fails to be read, or has a zero byte in its rest; interrupts of the receiver and of one sender |
| `exercises` | `TypeOK` of all, and by program: | |
| - msg | `Exchanged`, `MsgReturns` | 1 sen, 3 rec, four left-over queues |
| - grep | `ScreenInOrder`, `RunnerIsLast`, `PipelineEnds` | all pipelines of at most 3 pieces, 2 items, pipes of one item |
| - list, modules | `ListIsSequence`, `SumsModulo` | 3 items, 2 of them plugins; moduli 0, 7, 9, 16 |
| - flocks | `StableLocksListed`, `ScanEnds` | a `setlk`, another program that locks and unlocks four regions, a file of 7 bytes |
| - log | `UncutRecordWhole`, `CleanWhenIdle` | 3 calls, 2 handlers, one failing write |
| - bizbuzz | `TransferIsReference` | all texts of at most 5 of 7 characters |
| - socket | `CommandsServed` | 3 clients, 2 starts of the server |
| `udp_reliable` | `ModesTypeOK`, `ServedInOrder`, `QuitServedNoMore`, `EveryoneServed` | UDP: 2 clients, who type up to 3 and 1 lines; pipes of one message. TCP: 2 clients, who type up to 3 and 1 lines, one of them interrupted; connections hold two answers |
| `udp_faulty` | `OwnClientOnly`, `TableLeadsHome` | 3 clients for 2 slots, one fault of any kind and any reordering, failing shells, 3 connections |
| `udp_room` | `RoomForClients`, violated | 2 clients for 1 slot |
| `daemon_backup` | `TypeOK`, `IdleMeansBackedUp`, `BackupNotWatched`, `ChangeTakesEffect` | 2 working directories, a directory, 2 backups, one of them inside, 3 files, two of one name, of up to 2 bytes, one edit, one command |
| `daemon_again` | `ChangeTakesEffect`, violated | 2 files, two commands, no edits |

Why the bounds are enough. The invariants and both refinements of the passing runs are also
theorems (section 5), for any number of processes, sizes and calls, so that the bounds matter for
the liveness properties, for the violations and for finding errors early. In `ShStack` every race is between two processes at one
semaphore or slot; three calls let one push and two others interleave with it. Page and SEMVMX are so small that both limits are passed. A file
of four bytes has a first, a last and two middle bytes, and the protocol of `ShMemory`
treats all middle ones alike; likewise two blocks and a rest in `Trans`. Three `rec` are one
that is served and two that are removed with the queue. Three pieces are a first, a middle and a
last command, of every kind in every place, and pipes of one item block. Three items make a
list with both ends and a middle. The regions adjoin and overlap each other and those of `setlk`, so that locks are joined and split; they include a
read lock and one to the end of the file. Three log calls are one that
is interrupted by a handler that is itself interrupted, or two of these and a call that finds what they left. Five characters are two words, or a word of four digits and a sign. In `UdpServer` two clients can
be confused with each other and a third is refused; three lines start a shell, make it print, and quit; a client needs a duplicate of `!connect!`, which
one fault is enough for, to meet its earlier subprocess. In `Daemon` one edit at any
moment is a directory or a file that appears, is moved, or is written to while it is watched, read, reported or copied, in a tree of which any part
exists from the beginning; two bytes are a copy that is changed under way, and a longer file under a shorter one.

`CHECK_DEADLOCK FALSE` is set wherever programs end or users may stop typing;
`ShMemory` loops at its end instead, so that a deadlock would be found.

**Fairness.** Weak fairness of the steps of a process that is in the middle of a call
or a loop: the kernel schedules it. Signals that are sent are delivered (`Deliver`,
`Signal`). In `Pipeline` the terminal's user ends the input; in `Msg` the programs that were started run; in `LockScan` only `getlk` is
fair, in `PrintServer` only the server. In `UdpServer` and `TcpServer` a line is read and executed in the end, but nothing makes
a shell fall silent: over UDP `QuitServedNoMore` assumes that all do (`ShellsFallSilent`), over TCP it needs no such assumption, since
what a shell prints for a client that left makes a write fail. `ShStack` has strong fairness for `Lock`, as Linux serves the
sleepers of a semaphore first come, first served. Nothing makes a user type, a client
connect, a process call a function, a terminal interrupt or the network misbehave.

## 4. Where code and documents differ

Three violations are runs, described under `findings`:

- `shstack_race`: `push` takes the mutex after it read the count (`stack.c:75`, `:102`).
- `udp_room`: slots are never given back (`udp.c:178`).
- `daemon_again`: only the first change of a directory is made (`main.c:55`).

Modelling brought up others. They are in the models; the properties above exclude them
explicitly, by the condition or the constant given here.

- `stack.c:143`: two pops with wait -1 that both saw one element: the second sleeps on
  COUNT with the mutex in its hands, although `stack.h:48` says that operations return
  immediately (`Rule = "any"` instead of `"own"`).
- `stack.c:31`: processes that attach at once, as `test.c` does, reset the count of one
  another's stack; a pop then never returns (a menu with `attach` under `Rule = "own"`).
- `stack.c:78`: the full test is an equality on a stale count, so that the count can exceed
  the size; `stack.c:17`, `:30`: the size is bytes for one and pointers for the other.
- `stack.c:55`: the semaphores go at once, not "after all detaches" (`stack.h:29`): a pop of a process that is still attached
  reads `sh_stack[-2]` and returns garbage as an element (`Estranged` in `StackSpec`).
- `stack.c:37`: identifier 0 is taken for a failure (`FirstId = 0`).
- `sh_memory/main.c:51`: the last byte is not waited for. The signal may come before `hand` has written it, and it
  is missing; or after `hand` has taken the post for the end, and it is written twice and `hand` sleeps for
  ever. `CopiedInOrder` allows for both, `BothEnd` for the second.
- `trans/handler.c:82`: the rest of a file ends at its first zero byte (`tail = "nul"`, which `TransferEnds` leaves out).
- `trans/handler.c:28`: of two SIGCHLD at once one is dropped, and that sender is neither taken nor
  killed (`readme.md:14`; the signal is SIGCHLD, not the SIGCONT it names).
- `trans/handler.c:22`, `main.c:17`: a sender interrupted before it saw the answer dies alone
  (`readme.md:17`); `InterruptStopsBoth` begins after that.
- `trans/handler.c:24`: a receiver that knows no sender sends its SIGINT to pid 0, that is to its own process group: to whatever
  else was started with it. In the model it ends alone.
- `trans/main.c:63`: a failed read is taken for a full block (`bad = "eio"`, which
  `OutIsPrefix` and `TransferEnds` leave out).
- `msg/sen.c:23`: a `rec` started between sen's first `msgget` and its `msgctl` finds the queue that goes, and sen waits for ever,
  although `readme.md:7` asks only that sen be started first; `MsgReturns` speaks of a rec that found the new queue.
- `udp/client.c:12`: SIGINT sends `quit` in the clear and the subprocess stays.
- `udp/udp.c:147`: a subprocess whose shell fails receives from the server's socket. Whom it forks greets its client with
  an open key enciphered with the K it inherited, which the models take for the key itself.
- `udp/server.c:105`: as long as a shell prints, its subprocess reads nothing, its client's `quit` included (`readme.md:14`); when its
  pipe is full too, the server serves nobody over UDP (`readme.md:7`). `QuitServedNoMore` assumes that shells fall silent.
- `udp/server.c:4`: `bash_work` is inherited through `fork` and `tcp.c:49`, `udp.c:87` leave `fd` unset: a line of such a
  client is written to any descriptor, or fails, which is modelled as a failure of the shell's.
- `udp/client.c:113`: the line is compared with `broadcast` after it was enciphered.
- `daemon/main.c:110`: a copy is opened without `O_TRUNC`. A file of the new working directory that is copied over a longer
  one of the old, and one that was cut (`Shrinks = TRUE`), keeps the old end: its copy is not the file (`readme.md:3`).
  `IdleMeansBackedUp` says what does hold: the copy begins with the file, and is the file if nothing longer was copied to its path.
- `daemon/main.c:266`, `:178`: the backup is known by its spelling. `./a.out w/ w/b` compares `w//b` with `w/b`: the daemon
  watches its backup and backs it up into itself, `w/b/b` and on (not in `Alike`; `Recognised` in the properties).
- `grep/grep.c:60`: pipes are counted by `|`, commands by `strtok_r`: with an empty or blank piece a command
  writes to a pipe nobody reads, and its output is lost (`ScreenInOrder` speaks of pieces that are commands).
- `grep/grep.c:33`, `:56`: the text is not terminated and the array of words is too short for its pointers;
  both are undefined and left out.
- `modules/field.c:32`: a second modulus without a plugin, or any without `mn`, crashes; modulus 0 divides by zero.
- `list/main.c:56`: `main` deletes the head; a walk from it would not end.
- `flocks/getlk.c:36`: the query begins as a read lock, so that read locks are found only after a write
  lock; a query that finds nothing leaves F_UNLCK in `l_type`, with which every later one fails: what is
  locked from then on is not found. With several owners a later lock may be
  reported first and the earlier one is skipped. A lock to the end of the file is reported for ever. A lock that grows while the
  scan is at it is listed again from its start.
- `udp/log.c:38`: a failed write returns without resetting `pos` and `buf`; all of `buf` is written, so that behind its own string the record of a
  handler has the rest of the longer text it interrupted; `udp/log.c:27`: after a handler
  cleared the buffer, an error's text goes into the gap before the message.
- `udp/tcp.c:90`: the server never closes the connections it accepted, so that they run out and clients see no end.
- `udp/tcp.c:92`: a subprocess whose connection was reset does not end but accepts clients beside the server; `QuitServedNoMore`
  says of it only that its old client is served no more.
- `udp/tcp_client.c:7`: as over UDP, SIGINT sends `quit` in the clear.
- `bizbuzz/bizzbuzz.c:19`: a last word without a space behind it is dropped (`Reference` drops it too).
- `socket/server.c:15`: after a kill the socket's file makes the next start fail.
- `daemon/main.c:47`: a second signal before the handler has read its path: the first change is lost.

## 5. Proofs

The theorem modules prove, for every value of the constants that meets their assumptions, each
invariant and each refinement that a passing run checks. The pattern is the same throughout: an
inductive invariant, made of named parts; one lemma per action, that the action keeps it; the
property as a consequence.

**ShStackProofs.**

- `TypeCorrect`: `TypeOK` holds under both `Spec` and `AttachedSpec`. `TypeOK` alone is
  not inductive: `shmget` creates a segment of size `loc[p].size`, and a local `size` may
  also be the result of a failed GETVAL. `TypeInv` adds `CreatesWithSize`: where a
  process may create, its `size` is one of `Sizes`.
- `MutexHolds`: `MutualExclusion` for processes that are attached and only push, pop, print
  and choose how to wait (`UsersOnly`), whatever they agree on and wherever they are killed.
  `UseInv` says that such processes stay in these functions and that every process has a
  handle for the live set or is dead; with it, `MutualExclusion` is inductive: `Lock` needs
  MUTEX at 1, which holds only while nobody is inside, and a process killed inside leaves it at 0.
- `CountExact`: `CountAccounted` and `PopNeverEmpty` for finitely many such processes that pop only what they
  pushed (`Disciplined`), when SEMVMX is at least the number of pointers that can be
  pushed. It is about the semaphore, not the array, where racing pushes lose pointers (`shstack_race`). `OwnInv` bounds `own[p]` by the completed calls; a `pop` past its check has
  `own[p] > 0`, so that COUNT is positive and `semop` neither sleeps nor fails; `PushInc`
  cannot meet SEMVMX. The increments and decrements then match those of `own` one to one, and
  `Tokens` counts them. `PopsFindElements` is `PopNeverEmpty` from the same invariant.
- `SerialHandles` (`HandlesWhole`) and `SerialIsStack` (`ImplementsStack`) under `SerialUse`. `SerialInv`:
  at most one process is in a call, and where it is says how much of the stack exists (`Attaching`,
  `Working`, `Destroying`); when none is, the stack is `Whole` or `Gone`. An open handle `Fits`: its segment is the
  key's exactly if its semaphores are, but for the moment between the two removals of
  `mark_destruct` (`Halfway`). A process whose stack was destroyed by another (`Straying`) reads -1 from every
  semaphore, so that it never writes the segment, and its `semop`s fail. `Given`: new objects
  get identifiers that no handle has. A step then has a stack to map to: the store of
  `push`, the decrement of `pop`, the attach and the removal are steps of `StackSpec`, all others leave it alone.

**ShMemoryProofs.** `Protocol`: before the signal, where `main` is says where `hand` may be; `Taking(k)` gives the
stages of byte k by both semaphores and `Len(out)`. After the signal nothing is stored any more and only the posts count:
those `hand` has taken (`Taken`) and those that are left in `sem2` make `len`, and one more once `main` has posted for
the end, so that `hand` writes at most one byte too many, the last one again. `NothingOverwritten` and
`CopyIsFaithful` follow, for files of any size that shrink or grow anywhere between `fstat` and `read`.

**TransProofs.** `Turns`: it is never the turn of the receiver and of the sender it has taken at once; `Outside`: no other
sender has passed its first answer; `Ends`: the end is only announced behind the last full block; `Amounts` and
`Contents`: what is written and what is under way make up what was read. `TransDropsNothing` is
`Turns` at the moment a block is queued.

**UdpServerProofs.** `UdpIInv`: every process' copy of the table leads from an id to a subprocess of a client with
that id (`Tables`), and so does the message in hand (`Held`) and what is in the pipes (`Flow`). `UdpOwnClientOnly` needs
`IdsDiffer`; `UdpTableLeadsHome` does not. Order (`UdpLinesInOrder`) needs a numbering of the datagrams under
way by their place in their client's stream, which exists as long as nothing is lost, repeated
or reordered: a subprocess, its pipe, the server's hand and the network hold consecutive parts of
the stream (`InLine`, `Numbering`).

**ServerModesProofs.** `TcpIInv`: a connection is waited for or used by one process (`OneUse`); what that process read and
what is still in the socket make up what its client sent (`Unread`, `KeyRead`), wherever the client resets or leaves. With
`UdpLinesInOrder` this gives `ModesServedInOrder`.

**DaemonProofs.** `DaemonTypes`: a signal that can be delivered finds a path in its segment (`Segments`), no event, frame or
copy outlives the inotify instance it belongs to (`Quiet`), and all of them are in watched directories
and outside the backup (`Trail`), which is `DaemonSparesBackup`. For `DaemonBacksUp`, `Covered(n)`: whatever is in a
watched directory is copied, being copied, still in the scan, or told of by an event that waits. It holds at
every step, in the middle of a scan as well, and at rest only "copied" is left. `InHand` does the same for the
bytes of the copy under way: they are the file's, or an event tells of it. All watched directories are below one
working directory (`Trail`), where no two files share a path, so that copying one leaves the others' copies alone. `Lengths`
says when the copy has no more than the file: if files do not shrink and no other file has its path.

**ExercisesProofs.** One invariant with a part for each program, of which only one runs:
`Exchange` for `Msg` (where the one message of the exchange is, and which recs found the queue it is in); `PipeControl` for who holds which end of which pipe and
`Flow` for how many items each command has read and written, which joins the commands' streams to one; `Chain` for the
list (the links are the sequence, both ways round), from which `ListImplementsSequence` follows call by call; `Spare` for
the field `sum` may rename; `Scanned` for bytes and locks that are behind or ahead of the query, where `LockOfByte` and `LocksApart` say that each locked byte is in one lock; `LogParts` for calls that are
cut and calls that are not; `WordSoFar` for bizbuzz (what the running sum, the last character and the flag
say of the word since the last space).

What the recursive functions of the models (`NthFrom` of `CircularList`, `Pass` and `Value` of `Bizzbuzz`) compute
is proved by a least counterexample: `LeastOfSet`, `StepByStep` and `RepeatedSteps` of `ListLemmas` use the set of
failures, where the library's induction theorems would take an operator as parameter.

**What is assumed.** Assumptions on constants are named in the module that declares them and are types and the
like: pids differ, "none" is no path, the items of a list and the owners of locks are finitely many. Beyond
these, some theorems have a hypothesis, and each is about how the programs are used:

| Hypothesis | Says | Without it |
|---|---|---|
| `UsersOnly`, `Disciplined` | nobody attaches or destroys meanwhile; pops only of own pushes, as `test.c` keeps to | a late attach resets MUTEX and COUNT; a pop sleeps with the mutex |
| `SerialUse` | one call at a time, nobody killed; one size for all, with room for it as pointers (`stack.c:17`, `:30`); the waits `stack.h` names; no identifier 0 | `shstack_race`; the numbers of section 4 |
| `IdsDiffer` | `gen_id` gives no two clients one id | the table cannot tell them apart |
| `Reliable` | datagrams are not lost, repeated or reordered, shells start and do not fail, ids differ | UDP promises no order |
| `OneSen` | there is one `sen` | two of them remove each other's queues |

**Only model-checked.** The liveness properties `EveryCallReturns`, `BothEnd`, `TransferEnds`, `InterruptStopsBoth`, `MsgReturns`,
`PipelineEnds`, `ScanEnds`, `CommandsServed`, `QuitServedNoMore`, `EveryoneServed` and `ChangeTakesEffect`: they rest on fairness, which is
defined by ENABLED, out of the provers' reach. Of `PrintServer`, whose one property is of that kind, only the types are proved.

## 6. Not modelled

Pure I/O and text (`inotify`, `dir`, `env`, `udp/con.c`), `poll` (one process whose loop reads each
descriptor once), `pthreads` (floating point, and every thread is joined before the
next is created), `udp/dfke.c` (arithmetic on constants). Argument parsing and printing
are left out everywhere, and so is the failure of system calls for lack of
memory or descriptors. `stop_server`, which kills everyone, bytes that `crypto` turns into a zero, two
clients with one id, messages longer than the log's buffer, and the overflow of the
inotify queue are not in the models; nor are the handlers of `daemon/main.c` that call `malloc` in the
middle of another `malloc`. In `Daemon` the copies are not files of the tree: a backup that was changed and lies in the working
directory would be backed up as any other directory is. A directory is not named like a file of another working
directory, backups do not lie in one another, and each can be made by `mkdir`.

## 7. Plan

Done, in this order: `StackSpec`, `ShStack`, its proofs; `ShMemory`; `Trans`; `UdpServer`; `Daemon`;
`Msg`; `Pipeline`; `CircularList` with `Registry`; `LockScan`; `Log`; `TcpServer` and `ServerModes`;
`Bizzbuzz`; `PrintServer`; `Exercises`.

The theorems of section 5 cover every invariant and refinement that a passing run checks. Next:
the parts of the liveness properties that are safety, as theorems: that a sender of `Trans` or
a program of `ShMemory` has a step to take as long as the other has not ended, that a subprocess that has read its client's `quit` serves it no more, that `Pipeline` meets no
cycle of commands that wait for each other; `CommandsServed` of `PrintServer` in the same way. Then weaker
hypotheses: several `sen` in `Msg` that start one after the other, attaches in the middle of other
processes' calls in `ShStack`.
