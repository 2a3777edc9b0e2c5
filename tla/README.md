# A model of ConsoleAgent

ConsoleAgent starts a program on the console session of a Windows machine on
behalf of a client in another session (a remote shell, a service), and passes
its input, output and control events on. This directory holds TLA+ modules of
its protocols, TLC configurations that check them on small instances, and
proofs that TLAPS checks. Sources are named relative to `src/ConsoleAgent/`.

## 1. Inventory

Three programs take part:

| part | where | state it keeps | operations |
|---|---|---|---|
| **OnConsole.exe**, the client | `OnConsole/OnConsole.cpp` | its position in `_tmain`, last termination status, `ConsoleSignalPending`/`Event`, one `PipeReader`, two `PipeWriter`s | wait for the window station, start the process, loop of ping, status, control events, redirection |
| **ConsoleServer.exe**, the service | `ConsoleServer/ConsoleServer.cpp` | message loop of a single-threaded apartment, a timer of one second | dispatches COM calls and timer messages one at a time |
| - `CExec` | `ConsoleServer/Exec.*` | job, process, readers and writer, last ping, shared pointer on a preparation | `Ping`, `PrepareWindowStation`, `IsWindowStationPrepared`, `StartProcess`, `GetTerminationStatus`, `ReadStdout/err`, `WriteStdin`, `SendControl`, timer callback, destructor |
| - `WindowStationPreparation` | `ConsoleServer/WindowStationPreparation.*` | two static maps of weak pointers, the list of running processes; per object: key, `mIsPrepared`, queue of console events | `Prepare`, `StartPreparation`, `GetPreparationById`, `PrepareProcessStarted/Terminated`, order and read events, destructor |
| - `CPrepareWindowStationComm` | `ConsoleServer/PrepareWindowStationComm.*` | weak pointer on a preparation, its key | `Attach`, `GetData`, `IsActive`, `PreparationCompleted`, `GetConsoleEventOrder`, destructor |
| - timers | `ConsoleServer/Timers.cpp` | map of callbacks | register, deregister, `TimerProc` |
| **PrepareWindowStation.exe** | `PrepareWindowStation/PrepareWindowStation.cpp` | handles, two flags, its position | grant access, report, wait while active (executing console events), revoke |
| `PipeWriter`, `PipeReader` | `PipeTools.h` | queue, mutex, condition variable, flag, thread | `Write`, `Read`, `InjectData`, thread functions, destructors |
| helpers | `utils.h` | none | conversions; reading and writing of access-control lists; `ConfigureLogging` |
| logging library | `easylogging++.h` (vendored) | per program: loggers, their configurations, compiled maps, one stream per file | set-up at load, reconfiguration, `LOG` statements, a handler of signals |

Not modelled, because they have no behaviour of their own: `ntapi.*` (imports),
the IDL and registration scripts, the installer.

How the parts interact: a client calls `CExec` by COM. `CExec` asks the
registry for a preparation; the registry launches PrepareWindowStation.exe on
the console session, which calls back through its own COM object. A preparation
lives as long as some `CExec` points to it; its process polls for that. Several
clients of one user share a preparation; clients of different users share the
window station and the object directory of a session, hence their
access-control lists.

What is hard here:

* the process of a preparation whose clients are gone still revokes access
  while new clients arrive (ordering, liveness);
* access-control lists are read, edited and written back by independent
  processes (atomicity);
* map entries are erased by destructors that run at any call (stale state);
* the console can be switched between any two calls (stale state);
* clients and processes die or leave early at every point (partial failure);
* a flag outside the mutex in `PipeWriter`, two flags between a handler thread
  and a loop in OnConsole (interleaving);
* liveness by pings that are sent only in one phase of the client (timeouts);
* the server's memory is lost in a crash and its processes live on (recovery);
* any call of Windows may fail in the middle of a launch (partial
  failure), when inheritable handles exist or the process runs already;
* data pass through two queues, two pipes and three threads, and the program
  that moves them ends when the last datum has been queued (ordering);
* three programs append to one log file without excluding each other, and a
  thread of Windows may log in a library compiled without locks (interleaving).

What makes each component correct: the registry's maps match its objects and a
process left over from one preparation never works beside the next; whoever is
told that its window station is prepared has access, and after all is over
nobody has more or less access than before; output is complete and in order;
a client that is gone leaves no process in its job, and a client that lives
keeps its process; orders for control events follow the events and reach the right process;
the process that is started is the one that was asked for and holds its own
handles only; what a logger does is what it was configured to.
`PROJECT.json` lists the hazards by line with the properties that watch them.

## 2. Modules

```
DesktopLease                      what the registry promises
   ^ refined by
Preparation                       registry, CExec's reference, Comm object
   ^ EXTENDS
PrepareWindowStation              + the processes, access lists, client processes
   ^ EXTENDS
ServerRestart                     + crash and restart of the server
Channel                           what a PipeWriter promises
   ^ refined by             ^ three instances in
PipeWriter                  Redirection      read thread, loop, server, destructors
ExecSession                       one client, its CExec, timer, process
ControlEvents                     handlers, loops, queue, executing process
Launch                            from the command line to the process, handles
LogFormat  <-EXTENDS-  LogConfiguration  <-EXTENDS-  Logging
MC*                               instances for TLC
PrepareWindowStationProofs, ExecSessionProofs, PipeWriterProofs,
RedirectionProofs, ControlEventsProofs, LaunchProofs,
LoggingProofs                     theorems
FlattenLemmas                     lemmas five of them use: loops, flattening
```

In every module an operator named *Mutant* in its comment is a plausible bug of
the definition that follows it. It is no part of the specification.

### Preparation

An id (`Ids`) stands for the UUID of a preparation and names three things: the
object, the process launched with the id, and that process's communication
object. `Active(i)` is "some `CExec` holds a shared pointer", so expired weak
pointers are its negation. `SetPreparation` is an assignment to
`mWindowStationPreparation` with everything it sets off: the destructor of the
preparation that loses its last reference, and the erasure of its two map
entries. The server is a single-threaded apartment
(`_ATL_APARTMENT_THREADED` in `stdafx.h`), no handler makes an outgoing COM
call, so each handler is one action. `StartPreparation` asks for the console a
second time, and so may find another one than `Prepare`. A console is `None`
while there is no session, and otherwise a session with a logon session.

### PrepareWindowStation

`Program` lists the calls of `_tWinMain` in order; `pc` is a process's position.
A grant or a revocation is two steps, the read of the list (`ReadDacl`) and the
write of the edited copy (`WriteDacl`). The initial access-control lists are
arbitrary on the shared objects in `OwnEntries`, a bound, and empty elsewhere.
Failing calls (`CallFails`), attempts on an expired preparation (`Abort`) and
termination from outside (`Die`, later `Rundown` by COM) are separate actions.
However a process ends (`Exit`), its handles are closed. Of the handles only the
one on the desktop has a model (`HasDesktop`, from `OpenDesktop` on), because a
desktop is deleted with the last of them (`KeptOpen`), and its list with it:
this is what the process waits for. The client processes that run on the desktop
would keep it, too; they are left out, so that the model loses it earlier than
Windows may. `Lasting` names what remains of a preparation whose process was
terminated. `StartProcess` and `KillAndDestroyExec` add the client's process to
the registry's handlers, and `PrepareWindowStation` restricts the request to the
time before it, as OnConsole does; a new preparation takes the first unused id
(`NextId`), since ids are interchangeable. An access-control list is abstracted
to the set of users with an entry: both grants on the window station appear,
masks do not.

### ServerRestart

`Crash` takes from `Preparation` all that is in the memory of ConsoleServer.exe;
the next client starts a new server, which begins empty. The processes of the
old one that had attached are `orphans`: a call of a server that is gone fails,
so an orphan aborts where such a call is not caught (`OrphanAborts`), and where
it is caught, in `WaitWhileActive`, goes on to revoke and ends without telling
anybody (`OrphanReturns`). Clients end with their server; that their processes
stay is in `ExecSession`'s terms a job that is not terminated.

### Launch

`_tmain` up to the call of `StartProcess`, and `DoStartProcess` call by call: each
is a position (`pos`) at which the launch may end, in an exception (`Throw`) or in
a refusal. A pipe end is a record that says for which launch it is, which pipe,
whether it is the server's, and whether it is inheritable; `CreateProcess` takes a
snapshot of the inheritable ones. Local handles close when the function is left
(`AfterReturn`), the server's own with the `CExec` (`ReleaseExec`), and those that
no `CHandle` has taken yet never (`leaked`). `CommandLine` and `GetEnvironment`
put texts together from pieces (`FlattenSeq`), one per argument, character or
entry; how the C runtime of the new process takes the line apart, a recursive
function from the number of characters read to the state of the parser
(`ParseCommandLine`), is external and there so that the two can be compared.

### Redirection

The data between OnConsole's standard handles and the process: the read thread
with its queue, the loop with `HandleRedirection`, the server's readers, and three
PipeWriters, each an instance of `Channel` with the two ways in which the
destructor of a `PipeWriter` may hang: `hung`, when it misses its notification, and
`inWrite`, when its thread is in a `WriteFile` that nobody who reads the pipe ends. A
call of the server may fail before or after the server has executed it
(`CallFails`), and what it was to carry is then `lost`, a history variable: the
buffer that has left the queue for `WriteStdin`, or what the server has read from
a pipe. Input is a console, a pipe or a file, and they differ in how they end and
in how the destructor of the reader stops its thread: on a console it is
terminated, and what it held is held for ever (`Held`, `orphaned`). At the end
the destructors run in the reverse order of the declarations.

### LogFormat, LogConfiguration, Logging

The first two are the pure part of the logging library: formats and the
replacement of their specifiers, lists of configurations, their copying, and
their compilation into maps. A loop of the source is a recursive function from
the number of steps done to the result. `Logging` has the programs: each sets the
library up when it is loaded, reconfigures it, and executes `LOG` statements, of
which the write to the shared file is a seek and a write per buffer of the C
runtime. `Collides` is what the absent locks would prevent. `silent` and `raced` are
history variables. Configurations and the tables `Conf`, `TypedConf` and `AgreeTable`
are wrapped in `Whole`, which changes no value and makes TLC evaluate a function
completely, once.

### ExecSession

OnConsole's `_tmain` with one action per call; the server's timer and process
creation; the process, which writes, starts a child, exits. `StartProcess` is a
call (`CallStartProcess`) and two actions of the server, because the process runs
between them; the server does nothing else meanwhile (`calling`), and goes on
with it when the client has crashed. Time is whole seconds that end at arbitrary moments:
`age` of the ping counts the ends of seconds seen, so `age = n` means more than
`n - 1` and less than `n + 1` seconds, and the comparison with three seconds can
go either way when `age = KillAfter`.

### PipeWriter

Every step between two accesses to the mutex, the queue, the flag and the
condition variable. A wait releases the mutex and blocks in one step, may end
spuriously, and a notification wakes only who waits at that moment. `WriteFile`
is byte by byte, blocks on a full pipe as long as its reader neither reads nor
goes away, and returns at once on a broken one.
`Chan` maps it to `Channel`: the accepted bytes, those that reached the pipe, and
whether the destructor has begun or returned.

### ControlEvents

`CtrlHandler` runs on a thread of its own: it sets the event and then the flag.
The loop tests, reads, calls, clears. `ExecuteConsoleEventOrders` is one action
per call of Windows, each of which may fail: `AttachFails` and `GenerateFails` drop the
order in hand, a failed registration and `FreeFails` leave the process attached.
History variables are `pressed`, the events at a console; `sent` and `sources`, the
orders and the numbers of the events they were made from (`source` while the loop has
one in hand); `outcomes`, what has become of the orders; and `stuck`, that a console
was not detached from.

## 3. Runs

| run | question | bounds | states |
|---|---|---|---|
| preparation | maps, running list, sharing, leftovers; the registry implements `DesktopLease` | 3 clients of one user, 2 consoles, 3 ids | 116 k |
| one_user | access while relied on, the process serves, lists restored; leftovers end, preparations complete | 2 clients, 2 ids, 2 sessions nobody is logged on to, deaths at any point, failing calls on the directory, own entries on a window station | 453 k |
| restart | nobody loses what he had; access unless disturbed; orphans end | 2 users with one client each, 2 ids, 1 crash of the server, failing calls, own entries on the directory | 1079 k |
| pipe_writer | wake-ups, delivery, destructor; the writer implements `Channel` | 6 bytes, buffers up to 3, pipe of 2 | 12 k |
| session | complete output, clients that waited short, empty job; abandoned job ends, client returns | 2 bytes per stream, 10 s to prepare, 3 s without ping | 610 k |
| control | orders follow events, are delivered and executed | 2 clients, 2 presses and 1, 2 kinds of event | 479 k |
| launch | the process that was asked for, its handles, what a failure leaves | 2 launches, up to 2 arguments of up to 2 characters, 1 or 2 environment strings | 378 k |
| redirection | order and arrival of data, when the loop ends, how OnConsole returns | 2 items of input, 1 of output and a warning, buffers of 1, three kinds of input, pipes nobody need read | 179 k |
| logging | lookups, lines, undefined behaviour, completeness of the file | server and client, 2 statements of 1 and 3 tokens, buffer of 2, up to 2 lines per thread | 1091 k |

Why these bounds: three ids let a preparation, its leftover and its successor
exist together; three clients let one be shared while another is released; two
consoles let the key change under a client, and as a key pairs a user with a
console they also stand for two users. Two ids let a process work while its
predecessor leaves, or two users' processes work at once; with one crash of the
server the two are an orphan and a process of the new server, for one user or
for two. Six bytes in buffers of three exceed the pipe, so a write blocks with
another buffer in the queue. Two bytes exceed a read buffer of one. Two presses
suffice for one to overtake the other. Two launches let the second process meet
handles that the first left, and a quote, a blank, a backslash and another
character at two places of an argument reach every rule by which the C runtime
parses. Two items of input let one be in the queue while the thread holds the
other. Two programs suffice to write over each other, a statement of three
tokens needs two writes, and the client has all three kinds of thread that may
log. Ids are never used twice, so the number of preparations in a behaviour is
bounded by `Ids`; all other bounds are in the guards and are commented with the
constants (`MaxBytes`, `MaxOutput`, `MaxInput`, `MaxPresses`, `MaxCrashes`,
`Launches`, `MaxLines`, `StepSeconds`). `StepSeconds` bounds the time one pass of
OnConsole's loop takes; it is below `KillAfter`, since a client that takes longer
is taken for dead by design. `session` and `stale_ping` have the limits of the code,
ten seconds to prepare (`PrepareLimit`) and three without a ping (`KillAfter`).
`one_user` has two sessions that share their logon, as two sessions do to
which nobody is logged on, because the server's own token then stands in for the
user's: so one key is used on both, and a client's process may be started on
another session than its preparation. It has deaths, and failing calls on the
directory only, which come when all else is granted; `restart` has failing calls
on all objects (`MayFail`) and no deaths. Own entries of the users on one kind of
object in each of the two runs, and on both in `lost_update`, let a process find
one flag set and the other not.

Symmetry is used in `preparation` (ids, clients) and `restart` (ids, the two users
with their clients), which check no liveness. Deadlock is not checked where the
system may stop: a session that ended, a writer that is destructed, presses,
launches or lines used up, an OnConsole that hangs as described below.

Fairness, all of it weak. What a scheduler owes a runnable thread:
`PrepareWindowStation!FairSpec`, a launched process runs on;
`ExecSession!FairSpec`, OnConsole runs until it ends or crashes and the timer
fires; `PipeWriter!FairSpec`, the write thread runs and a begun destructor goes on;
`ControlEvents!FairSpec`, handlers, loops and the process run;
`Redirection!FairSpec`, OnConsole's two threads run. Beyond that it is assumed that COM
in the end releases the references of a process that has died (`Rundown`), that time
passes, and that a call which has begun ends (`StartProcess`, the calls of
`ClientStep`): calls of COM and of Windows other than `WriteFile` and `ReadFile` on
pipes and consoles. These two wait for another program, and no specification obliges
it to anything: a pipe need not be read, nothing need come to standard
input, its other end need not be closed, and the process need not end. Nor need
COM notice a dead client. Where delivery is the question, that the other side
takes the data is a premise of the property (`ReaderReads` in `Delivered`, `Taken`
in `DataArrives`).

What the properties of some runs leave open, because the code does:

* `DestructorReturnsOrHangs` names the two ways in which the destructor of a
  `PipeWriter` can hang: the notification without the mutex is missed, or the
  thread is in a `WriteFile` on a full pipe whose reader neither reads nor goes away.
  `ReturnsOrHangs` adds the two of a `PipeReader`: it joins a thread that waits for
  a pipe nobody closes, or the thread it terminated held the lock of the heap.
* `OrdersDelivered` and `OrdersExecuted` end when the process once fails to register
  its handler or to detach (`stuck`): it then stays attached to a console, and all
  later orders are forgotten. An order whose `AttachConsole` or
  `GenerateConsoleCtrlEvent` fails is done with, although the event reached nobody;
  the others are unaffected.
* A second press during the call of `SendControl` is cleared with the first. And the
  loop may read an event between its arrival and its flag, in the place of the one that
  raised the flag: then it makes a second order, and the overwritten event none.
  `OrdersFollowPresses` says what remains: orders come from events, in
  their order, never more than there were, and no event makes three.
* `ServedAfterShortWait` speaks of clients whose wait for the window station and one
  pass together stay below the limit of the timer. The code lets a client wait
  longer than that; `stale_ping` shows what happens then.
* `RestoredAfterReturn` speaks of processes that return. One whose preparation
  expires before it reports leaves all its grants behind: what goes wrong is
  always too much access left, never an access lost that a user had before
  (`OriginalAccessKept`).
* `RunningHasAccess` speaks of processes that were started on the session of their
  preparation. The code does not compare the two: when the console is switched
  between the preparation and `StartProcess`, the process is started on a session
  that was not prepared, and with sessions nobody is logged on to, which share a key,
  even a new client gets the preparation of the other session.
* `AccessWhileActive`, `RunningHasAccess` and `AccessUnlessDisturbed` except the
  desktop (`Lasting`), and `PreparedIsServed` everything, when the process of the
  preparation was terminated from outside: the desktop goes with its last
  handle, `mIsPrepared` stays set, and clients are told that the window station is
  prepared.
* `AccessUnlessDisturbed` excludes what `lost_update` shows and what an orphan does.
  `Conflict` speaks of two keys, not of two users: also one user has two keys when
  he works at two consoles of one session.
* `NothingLeft` excludes a process that could not be assigned to its job, and
  `InheritsOwnEnds` the handles a failed `SetHandleInformation` leaves.
* `ProcessAsRequested` is about arguments without quotes that do not end in a
  backslash; the others reach the process changed.
* `DataInOrder` places the warning about the working directory where the code
  does (`Exec.cpp:179`), in the standard output, although its comment
  (`Exec.cpp:173`) says stderr. It leaves out the data of one call of the server that
  failed (`lost`, `LossIsOneCall`).
* `FileHasLines` excludes lines during whose writing another program wrote, and
  lines of a stream that has failed once.

### Disagreements between the code and its comments

Three runs are expected to find a violation. Each checks what a comment says.

* `lost_update`: "signal that desktop is ready", but a grant is lost to the
  read-modify-write of another user's process.
* `stale_ping`: the timer checks "if client is alive", but a client does not ping
  while it waits to be prepared; after three to ten seconds of waiting its
  process may be killed at once.
* `lost_output`: "receive and output stdout", but OnConsole returns when the last
  output has been queued, and the destructor of the `PipeWriter` drops the queue.

## 4. Proofs

TLAPS checks the following for all values of the constants under the named
assumptions of the modules (which TLC evaluates in the runs).

**PrepareWindowStationProofs, the registry.** `Spec => []IInv`, and from it `TypeCorrect`,
`MapsCorrect`, `RunningCorrect`, `LeftoverCorrect`, `SharingCorrect`. The
properties are not inductive one by one: that a new preparation meets no
attached process needs the exact list of running processes; that the list is
exact needs that at most one preparation of a key is active when its process
attaches; that a destructor erases its own entry only needs both. `IInv` is the
conjunction, with the facts about ids never used (no key, not launched, no
communication object) that make `CreatePreparation` harmless. `SetPreparation`,
which every handler of a client uses, has lemmas of its own.

`RegistryImplementsLease == Spec => LeaseSpec` is the refinement. The mapping
takes the tenancy of a client from the key of its preparation and the holder of
a place from the one attached process; `IInv` makes the `CHOOSE` unambiguous.
Every registry step is a step of the lease or a stutter: `CreatePreparation` and
`ReusePreparation` join, `DestroyExec` leaves, `Attach` acquires, `AttachFails`
is turned away, `CommDestroyed` releases.

**PrepareWindowStationProofs, the processes.** The processes use the
registry by its own steps only (the lemma `StepOfRegistry`, which holds by the way
the module is put together), so every theorem above holds of the whole. On it rests
`PositionInv`, which ties the position of a process to its preparation (completed
from the wait on, without clients beyond it); it gives `PreparedServed`. The lemmas about steps (`Step`)
cover the processes of a crashed server too, so that one proof serves both
specifications.

* `OriginalKept` and `OriginalKeptAcrossCrashes`: `OriginalAccessKept` alone is not
  inductive, since a stale copy could be written back. `KeepsOriginal` adds that
  a process past `HasSidAce` remembers an original entry of its user, that the copy
  in its hand contains the original entries, and that what it is about to revoke is
  none of them. Any number of processes may work at once, in any order.
* `AccessKeptUnlessDisturbed` (`RSpec`): what a process has granted up to its position
  (`AccessOf`) stays while nobody else works on the session (`Alone`), and whoever is
  not in `disturbed` is alone, because the registry admits one attached process per
  key (`GuardInv`). The end of another process closes no desktop that is in use
  (`ClosingKeepsLists`), since the process that granted it has it open
  (`GrantedIsOpen`); its own death leaves the shared objects (`AccessLasts`).
* `AccessKept`, `RunningKeepsAccess`, `RestoredCorrect` assume `OneKey`: all clients ask
  for one key. This is the case of one user and one logon, at any number of consoles
  and sessions, and the constants of `one_user` satisfy it; without it `lost_update` is
  the counterexample. `OneKeyInv` then shows that a working process is alone, and
  `RestoredInv` follows each access-control list from the first grant to the last
  revocation. `RunningKeepsAccess` needs besides that a client keeps the
  preparation with which it started its process (`StartedInv`), wherever the console
  is switched.

**ExecSessionProofs.** `CompleteWhenDone`, `JobCorrect`, `TypeCorrect` from an
invariant of four parts: types; what OnConsole believes about the process;
what it has read (a stream that was drained by a read without data stays
drained because the process had already ended); the job, into which nothing can
come once the process counts as killed or the CExec is gone.
`KilledOnlyAfterLongWait` holds for all limits, those of the code included: a
living client loses its process only if its own wait for the preparation and one
pass of the loop may have exceeded the limit of the timer. `AgeInv` bounds the age of
the ping by the position of the client: by the wait and the pass before the
first ping, by the pass after it.
This is `ServedAfterShortWait`; its premise is about the wait of the client at hand,
not about the limits, which in the code allow a longer one.

**PipeWriterProofs.** `PipeInv` has, besides types and `WaitsOnlyWhenEmpty`, the agreement of
owner and thread (the flag falls with the destructor, the thread leaves its loop only
then, the destructor returns only after it), an empty hand outside of `WriteFile`,
and where the bytes are: received, in the pipe, in hand and in the queue they are
together what was sent, until the thread drops the queue; and at any time what
is ahead of the queue is a prefix of what was sent. This is what the
refinement `ChannelImplemented` needs: the channel's output is `received \o pipe`, which the
destructor cuts off at an arbitrary place.

**RedirectionProofs.** `DataCorrect` follows the items of the input through the unread part,
the thread's hand, the queue and the first channel, and those of the outputs
through the pipes, for any number of items; a thread that is
terminated stops anywhere between. `EndsCorrect` needs what the loop knows
(`LoopInv`): a process that was seen to have ended has ended, and if no data came since,
standard output was found empty after that. `DataCorrect` leaves a place for the data of
the call that failed, after all that was passed on and before all that was not; it is
filled at most once, since the loop is left then. The writers are used by their promise,
`Channel`, which `ChannelImplemented` justifies.

**ControlEventsProofs.** `OrdersFromPresses` is not inductive because the handler sets the
event before the flag and the loop clears the flag after its call. `SourceInv` adds three
parts: `Count` counts the orders the loop still owes (`Owed`) and the event whose flag is not
raised yet (`Rising`), and leaves out a flag about to be cleared, which is the event that gets
lost; `InHandInv` says which event the loop has in hand; and `LastInv` that the last event, once it
has made an order, makes another one only if its flag was raised after the first. `DeliveryCorrect` needs `OrderInv`: between taking an order and being done with it
the process is attached to the console of that order's client, and otherwise to none until the
process once fails to register its handler or to detach. The queue is shared by all clients; each
client's part of it is a `FlattenSeq` of pieces, one for each order.

**LaunchProofs.** `LaunchInv` says for each position which pipes of the launch at hand
exist and which of their ends are inheritable (`Own`), what earlier launches may have
left (`Kept`, `leaked`), and who is responsible for each process. `HandlesCorrect`,
`CleanupCorrect` and `InheritanceCorrect` follow for any number of launches and any call
that fails.

`RequestCorrect` has two parts. What a launch is about to ask for, up to its call of
`CreateProcess`, is what its client wants (`RequestInv`, which also follows the fallback of the
working directory and its warning). And the pure part compares `CommandLine` with
`ParseCommandLine`: `Parses` says that the parser goes from one state to another over a
text, which composes, and `Held` what it has read of an argument while it waits to
see what follows some backslashes. Thus a quoted argument is read
back as it was, for arguments of any length without quotes and without a backslash
at the end, and by induction any number of them. That the environment
block is copied up to its two zeros, and no further, is proved likewise.

**LoggingProofs.** `FileHasLines` is not inductive, because it says nothing of a line
that is being written. `FileInv` adds for each statement on its way which of its units are
in the file and which are still to come (`CurrentLines`), that the file
holds no unit of a line that has not begun, that nobody has a statement whose program
is over, and that beyond the place where a buffer is about to be written there are only
units of disturbed lines (`TailRaced`). `WriteKeeps` is the one difficult step: a write
over other units hits only lines that are not clean.

`DefinedCorrect` rests on a fact about the configuration: every level of a configured
program has a file name (`ConfiguredNames`), whatever could be opened. The configuration
is made by loops in which each step sets a level; the lemmas `ApplyFacts`, `SetLevelsFacts`,
`BuildMapFacts` and `InsertFilesFacts` give, for each loop, the sequence of its intermediate
results and its type. The invariant (`DefinedInv`) then needs only that the thread of the library's
handler runs in interrupted programs alone.

`LinesCorrect` follows one value through all of it. The call that sets
the format of level Global comes before those for single levels, and none of these concerns
`Error`, `Warning`, `Info` or `Fatal` (`Establishes`); copying such a list gives such a list
(`DefaultsCopied`), whether a logger was configured by its program or not;
compiling it keeps an entry for each level, since a format knows its level and so no
two levels' formats are equal (`FormatCompiled`: with formats that compare by text the
entries would be dropped, which is the mutant of this property); and replacing the
specifiers in the order of the code leaves the message as it is, because it comes last
(`DefaultLine`). The levels are those the programs use; this is assumed of `Messages` and is what the
`LOG` statements of the three programs say.

**FlattenLemmas.** The library's induction theorems take an operator as a
parameter, which the provers here cannot instantiate. `SmallestNat` says that a set of
naturals that is not empty has a least member, and `SetInduction` draws from it the
induction over a *set*, which is an ordinary variable: the set of
lengths, or numbers of steps, for which a fact holds. So facts about this or that recursive
function, `FlattenSeq` among them, are proved for arguments of any length. A loop of the code
is in the models a recursive function; `LoopResult` takes it to the sequence of its intermediate
results (`Runs`). `Cat` is `\o` under a name that the provers do not unfold.

Definitions of the models that were restated for the proofs, none with another
meaning: in ControlEvents, that `None` is no client, event or order is assumed, since a
taken order is told from none by it, and a client's part of the queue is a
flattening instead of a filter; in Launch, texts are flattened pieces instead of folds, and
the constants' types are assumed; in the log, the levels a list lacks and the copying of one
list have names (`Missing`, `SetLevels`), the tables are functions of functions, and
`FileHasLines` speaks of the units of a line instead of selecting a subsequence. That programs
log at three levels only is an assumption new with `LinesCorrect`.

Only model-checked:

* All liveness (`LeftoverTerminates`, `PreparationCompletes`, `Delivered`,
  `DestructorReturnsOrHangs`, `AbandonedJobEnds`, `ClientReturns`, `OrdersExecuted`, `DataArrives`,
  `ReturnsOrHangs`) and `OrphanGoesOn`: fairness and ENABLED are beyond the prover.
* `LookupAgrees`: it compares two tables that depend on no constant of the model, so that
  TLC's evaluation is not an instance but the whole; a proof would repeat it,
  call by call. What depends on the constants, that a program uses the entry of its state, is
  the definition of `Typed`.

## 5. Not modelled

* Tokens, impersonation and access masks: calls of Windows that succeed or fail.
* Handles of PrepareWindowStation.exe other than the one on the desktop, and what the
  client processes on a desktop keep open of it.
* Text other than command line, environment and log formats; conversions between
  string types change no character. `LuidToString` writes two numbers one after
  the other, so that two logon sessions could in theory have one key; the model's
  keys are the sessions.
* COM errors other than those the server answers or its crash causes; the map of
  timer callbacks; failure of `TerminateJobObject`; reuse of process ids, which the
  handle a CExec keeps prevents.
* What the standard input of a process never learns: no call closes its pipe.
* Clients that keep alive a preparation whose process was never launched.
* The parts of the logging library no program here uses: configuration files,
  rolling of files, performance tracking, hit counters, conditional and verbose
  logging, custom specifiers, crash signals other than Ctrl-C.
* `ntapi.*`, IDL, registration, installer: no state and no steps.

`PROJECT.json` gives the reason for each hazard no property covers.

## 6. Plan

The modules are complete in the sense of section 5, and of the safety properties the runs
check all but `OrphanGoesOn` and `LookupAgrees` are stated by a theorem, for the reasons given
above. What could follow:

1. Levels other than those the programs use: `LinesCorrect` for the formats with more
   specifiers, which needs the order of all five replacements.
2. Liveness, once the prover reasons about fairness: the inductive invariants above are the
   safety part of such proofs.
