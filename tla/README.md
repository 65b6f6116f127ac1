# TLA+ models of the rs-rich-cli workspace

Specifications, TLC configurations and TLAPS proofs for the parts of this
workspace where threads, processes and messages meet. The Rust code is the
reference: every definition is translated from it, and `PROJECT.json` ("map")
names the lines each stands for.

## 1. The system

A Cargo workspace under `crates/`. Most of it turns values into text, one call
at a time, and is checked by its own tests against upstream's output; the rest
runs threads, and that is what is modelled here.

| Part | What it keeps | Operations | Here |
|---|---|---|---|
| `rich-acp` connection | `pending` (calls by number), `closed`, the writer under its lock, `permissions`, the agent's process | `request`, `wait`, `wait_timeout`, `cancel`, `shutdown`; a reader thread; a thread per request of the agent | `AcpCalls`, `AcpRequests` |
| `rich-acp` terminals | one child per terminal, output, exit status | create, output, wait, kill, release; two pipe readers and a watcher | planned |
| `rich-intuituive` latest threads | the app's clock: `running`, `asleep`, `waiting`, `notified`; each signal's slot and `queued` flag | `send`, `sleep`, `wait_for`, `blocking`, `notify`; the driver's `advance`, `settle`, inbox | `ThreadClock`, `LatestThreads` |
| `rich-intuituive` tasks, resources, signal graph | generations, memos, subscriptions, the inbox | `spawn`, `resource`, watches | resources planned |
| `rich` live display | the channel to the refresh thread, the progress under its lock, `holder` | `with`, `print`, `refresh`, `stop`, proxied writes | `LiveDisplay` |
| `rich` rendering, console | styles, segments, the stack of live displays | print, capture, log | not modelled; nested displays planned |
| `rich-web` server and program sessions | `pending`, `sessions`, `programs`, `stopping`; a session's `unshown` and `waiting` | accept, upgrade, serve, `stop` | `WebServer`, `PtySession` |
| `rich-web` app sessions, isolation | pages, relays to a process per session | serve, relay, end | not modelled |
| `rich-embed` panes | a PTY with reader, writer and waiter threads; input and output limits | start, read, write, resize, kill | `PtySession` (a `LocalPty` with backpressure); the waiter's kill also in `WebServer` |
| `rich-marketplace`, and `rich plugin` in `rich-cli` | signed index and its serial, keys, lockfile, state file, installed files | install, update, remove, enable, disable, load | `Marketplace`, `PackageStore` |
| `rich-ext` | mostly renderables; a bounded log channel, a cancellation tree | send, take_dropped, cancel | not modelled |
| `rich-interact`, `cornacai`, `noctiluca`, the rest of `rich-cli`, `rich-py`, `rich-record` | applications, the event loop and bindings over the above | | not modelled (see PROJECT.json) |
| `rich-art`, `-data`, `-diagram`, `-mermaid`, `-lumis`, `-micro`, `-macros`, `-plugin-api`, `-ratatui` | none that is shared | functions from values to text, interfaces, code generation | not modelled |

How they meet: an application (`cornacai`) calls an agent through `rich-acp`
and shows what it says with `intuituive`; `intuituive` draws with `rich`
through the event loop of `rich-interact`; `rich-web` runs such an app, or any
program on a `LocalPty` of `rich-embed`, behind a WebSocket. Between threads
the code uses four things only: channels (`mpsc`), mutexes with condition
variables, atomics, and the operating system's pipes and processes.

What is hard, by part (each is a hazard in `PROJECT.json` with its line):

- **Connection.** A call is registered, written and waited for in steps, while
  the reader may answer it or close the connection; the writer's lock is held
  while the pipe is full; a permission request can be answered by the user and
  by a `cancel` at once, and is known by an id the agent may use again.
  Correct when each reply reaches the call that asked, after the updates
  written before it; when each request is answered once; and when the end of
  the agent's output wakes everyone.
- **Latest threads.** A test must see the same values in the same turns on
  every run, so the driver waits until no thread runs; the count it waits for
  is changed by the threads, by whoever wakes them and by the driver. A value
  must not be left in its slot without a delivery.
- **Live display.** The refresh thread needs a lock that the threads printing
  through it may hold; it may stop, or die of a panic, with their jobs queued.
- **Server.** Limits are kept by atomics that connections race for, and
  `stop` must neither miss a program about to start nor wait for one that was
  never counted down.
- **Program session.** One loop carries output one way and input the other,
  and each way stops the other's traffic at its limit; three threads of the
  PTY work behind it at their own pace, and the program may ignore its hang-up
  or leave a process behind. Correct when memory stays within the limits, no
  input is lost or overtaken, the exit comes after the output, and every
  session that ends has ended its program.
- **Marketplace.** A command changes three things on the disk with three
  writes, may be killed between them, fetches keys and index from mirrors that
  may lag, and runs while other processes load what is installed. Correct when
  whatever is on the disk at any moment is a store: each package at one version
  an accepted index offered, or absent, and trust never going back.

## 2. The modules

| Module | Models | Stands beside |
|---|---|---|
| `AcpCalls` | calls of the agent | `rich-acp/src/connection.rs` |
| `AcpRequests` | requests of the agent | `rich-acp/src/connection.rs`, `schema.rs` (`allows`) |
| `ThreadClock` | the clock of latest threads | `rich-intuituive/src/task.rs`, a turn of `app.rs` |
| `LatestThreads` | latest signals; extends `ThreadClock` | `task.rs`, `reactive.rs` (`run_inbox`) |
| `LiveDisplay` | a progress with its refresh thread | `rich/src/live.rs`, `progress.rs`, `file_proxy.rs` |
| `WebServer` | the server of programs | `rich-web/src/server.rs`, `pty.rs`, `rich-embed/src/host.rs` |
| `PtySession` | one program's session and its PTY | `rich-web/src/pty.rs`, `rich-embed/src/host.rs` |
| `PackageStore` | what the plugin directory promises | the docs and effects of the next |
| `Marketplace` | the plugin directory; implements `PackageStore` | `rich-cli/src/marketplace.rs`, `rich-marketplace/src/install.rs`, `lockfile.rs`, `index.rs`, `keys.rs`, `resolve.rs` |
| `AcpCallsProofs`, `AcpRequestsProofs`, `LatestThreadsProofs` (the clock and the signals), `LiveDisplayProofs`, `MarketplaceProofs`, `PtySessionProofs`, `WebServerProofs` | theorems about the module each is named after, and their proofs | |
| `QueueLemmas` | what an append and a take do to a queue, for those proofs | |
| `MC...` | instances for TLC | |

`PtySession` is what lies between `StartProgram` and `Uncount` of one
connection of `WebServer`, whose `program` it opens up; the two are checked
apart, since their product is out of reach.

Each module says at its head which threads it has. A variable carries the name
of the field it models; a thread's program counter (`pc`, `at`, `stage`,
`conn`, `sd`, `handle`) says between which two steps it is. One action is what
a thread does without another being able to see it half done: a critical
section, one atomic operation, one message sent or received, a system call.
Operators named as mutants in a comment are not part of a specification: each
is what an action would be with a plausible mistake in the code, and the
property it is paired with in `PROJECT.json` fails with it.

**AcpCalls.** `CheckClosed`, `Register`, `LockWriter`, `WriteLine` and `Wait`
are the steps of `request(..).wait()`; `WriteFails`, `EncodeFails` and
`GiveUp` its other ends. The reader takes one message at a time
(`RouteResponse`, `RouteUpdate`), and closes in two steps (`ReadEnd` or
`ReadFails`, then `ClearPending`). `Shutdown`, `TakeWriter`, `Reap` and `Kill`
are `shutdown`. A pipe is a sequence; the one to the agent has room for
`PipeCap` lines, and a write waits for room while it holds the lock. Three
kinds of thread write: callers, the reader, which answers what it refuses
itself and reads no further until that is written (`RouteRequest`,
`LockToRefuse`, `WriteAnswer`), and the handlers of the agent's requests
(`LockToAnswer`). The agent is external: it reads, answers anything it has read
in any order and more than once, sends updates and requests, exits, when it
likes. Its pipes end apart from it (`OutputCloses`, `InputCloses`): `Kill` ends
the child only, and a process the agent started may hold them. Three of its
steps are taken only where they can show, which leaves out no behaviour of the
connection: it exits only while `shutdown` looks for it (its pipes say the
rest), its input closes only while someone writes, and it says nothing more once
the reader has left its loop.

**AcpRequests.** `Refuse`, `Accept`, `SpawnHandler` and `SpawnFails` are
`incoming_request` on the reader, with `AnswerRefused` and `AnswerFailed` for
the two answers it writes itself; `HandlerReturns`, `Claim` and `Answer` the
handler's thread; `Cancel`, `Drain`, `AnswerCancelled` and `CancelReturns` are
`cancel`. `output` says what a write meets: an agent that reads, one that has
left its input full (`AgentStalls`, and no answer is written any more, whoever's
it is), or none, which loses it. The lock and the room of the pipe are
`AcpCalls`'. `permissions` is the set of requests whose entry is in the map, with
`HashMap`'s replace and remove by id (`WithoutIdOf`). `got` and `stray` are the
agent's side: which handling answered each request, and answers that named no
request still waiting for one.

**ThreadClock, LatestThreads.** A ticket is named by its thread, `Never` is a
missing entry. A waker takes the entry out and adds to `running` in one step;
the thread it woke runs later. `Active` says which threads the count is meant
to count (`Counted`). A thread that panics in the work it gave to `blocking`
(`PanicBlocked`) is taken off the count twice, by `blocking` and by `Finished`.
The device that makes a condition true and then notifies is two
steps, outside the count. `LatestThreads` adds `send` (`BeginSend`, `Store`,
`Swap`, `Post`), the inbox the driver empties after settling (`Deliver`,
`Take`, in that order, as in the closure), and the end of the app
(`DropInbox`). Values are numbered as they are made.

**LiveDisplay.** The queue is the channel to the refresh thread; `wait` in a
message says that its sender waits for `done`. `Draw` needs the lock,
`PrintLine` does not: it draws again what was last built. `holder` is read by
its own thread only, which is why entering and leaving `with` are one step
each. A display that ends (`BeginStop` and `Draw`, or `RenderPanics`) drops
its receiver a step later (`DropReceiver`), with what is queued.

**WebServer.** A connection's place is one variable, `conn`, and the four
shared atomics are the code's. `Slot::acquire` is a load and then
compare-exchanges (`LoadSessions`, `TakeSlot`); `pty::run` counts its program,
looks at `stopping`, starts, serves, ends and counts down in steps of their
own. Ending has two outcomes: the program ended (`End`), or `END_WAIT` is over
and it is uncounted while it runs (`EndGivesUp`, which notes it in
`outlasting`). A connection that ends gives back what it holds in the action
that ends it, as the guards' `Drop` does.

**PtySession.** Output is counted in units, input in numbered keys, each at
the place it has reached: in the kernel's buffer (`ptyOut`, `ptyIn`), held by
the reader thread (`held`), kept (`buffer`), sent and not drawn (`unshown`,
`wire`); on its way from the page (`inbox`), refused (`waiting`), between the
two halves of `write` (`sending`), queued (`keys`). The session's loop is
`Turn` (its top, with the look at `stopping` and the output), `ExitStatus`,
`RetryInput` (which looks at the socket only, as `page_gone` does: a page may
seem gone whose last messages wait in the WebSocket's buffer), and one action
per message of the page; every return of `serve`
is `Leave`, after which `EndReads` and `End` are `end` and the rest of `run`.
The host's `write` is two steps (`Count`, then `Send`) because the writer thread
resets the same count when it fails. The reader is `wait_for_room`, a read and
`keep`; the writer one write at a time; the waiter polls, kills, sees the exit
and counts the reader's turns. Two timing assumptions stand for the code's
sleeps: while the waiter counts a turn of 10 ms the reader runs until it must
wait (`ReaderWaits` guards `WaiterTicks`), and `END_WAIT` (3 s) is longer than
the kill's second and the waiter's 50 turns together (`EndWaitOver`, which so
leaves only a program that outlives SIGKILL; `WebServer` assumes nothing of the
kind, and its `EndGivesUp` may come at any time).

**Marketplace, PackageStore.** A command is a record of what the process has in
memory: the packages still to do, the keys it walked to, the index it accepted.
`NextKeys` and `Open` are `open`; then `install` and `update` loop through
`Resolve` or `Review`, `Write`, `SaveLock`, `DropOld` and `Note`, and `remove`
through `Forget` and `Unlink` to `SaveRemoved`. Each write to the disk is an
action, because it is one rename. `Killed` ends a command between two of them;
`Fails` is a fetch that fails, an artifact that is refused, or a user who says
no. A run of `rich` that loads packages is `ReadLock`, `ReadState` and a `Load`
per file. The publisher rotates its keys and publishes; a mirror copies keys
and index apart and as late as it likes. `PackageStore` knows none of this:
packages are put at a version that an accepted index offers, or dropped, and
serials and generations only rise. `Implements` maps what a loader would find
(the lockfile's version if its file is there, `Missing` if not, 0 if there is
no entry) to its `installed`: a state in which the lockfile names a file that
is not there has no counterpart, wherever a command was killed.

## 3. The runs

All runs take two to four actors, because every hazard above is between two of
them, or between one and the thread that serves them; where a third matters
(the reader, the driver, the refresh thread, the stopping thread) the model has
it besides. Bounds cap what could grow for ever, and each is reached.

| Run | Instance | Shows |
|---|---|---|
| `AcpCalls` | 2 callers, 2 calls, 2 messages from the agent, pipe of 1 line | replies, history and closing as described; a wait ends with the agent's output unless its input is full for good; `shutdown` ends the agent once it has the writer |
| `WaitEndsOnClose` | same, 1 message | **violated**, see below |
| `ShutdownReturns` | same, 1 message | **violated** |
| `AcpRequests` | 2 requests of any kind and session, 2 sessions, 2 cancellers, ids not reused | one answer each, none forgotten, cancel answers its session's, while the agent reads, and no other's |
| `ThreadClock` | 2 threads, one sends once, times 0..2, 1 notification | the count is never too high and too low by no more than the panics in `blocking`, no notification lost, settle finds everyone quiet and everything sent but for as many |
| `LatestThreads` | 2 threads, one sends 2 values, times 0..1 | nothing stranded, newest wins, what is sent is shown, the end is told |
| `LiveDisplay` | 2 threads, 2 lines each, 1 change, 1 redraw queued | order, synchronous prints, current frames to the last, no deadlock |
| `NoLineSwallowed` | same | **violated** |
| `WebServer` | 4 connections, 2 pending, 1 session | counts exact and within limits, no program after `stop` but those that outlasted `END_WAIT`, `stop` returns |
| `PtySession` | every limit and room 1, 4 units of output, 2 keys | bounded memory, input in order, exit after output, programs ended, no session hangs, output flows |
| `WritesWaitForPage` | the same with 3 keys and a program that reads whenever it can | **violated** |
| `Marketplace` | 2 packages, 2 versions, 2 indexes (the second yanks a version), 2 key generations, a mirror; 3 commands, 1 kill, 1 run that loads | the refinement, that a run loads what was enabled and installed in it (or being installed), what is left between commands |

Two calls per caller are what it takes for a late reply to find a later call of
the same thread; a pipe of one line is the smallest that can be full; two
values are what it takes for one to overtake the other; four connections are
one more than the reading places and the session together. The run `AcpCalls`
has one constraint besides: the first call numbered is `c1`'s
(`NumberedFirst`). The two callers are alike and every property says the same of
both, so that a behaviour left out is one that is checked with the names
exchanged; TLC's own symmetry is not sound with liveness. With every room of
a session 1, each can be full while the next is too: four units fill the whole
way to the page, and three keys the way to the program. Three commands are an
install, its upgrade or the change of another, and what comes after; two
packages let a removal end half way; a second index and generation let a mirror
serve an older one after the newer was accepted. (An index that no longer lists a
package is not among the two: with a third the run takes too long, and passes;
the proofs are for any.)

Four runs show where the code does something else than it says:

- `WaitEndsOnClose`: `wait` "blocks until the agent answers, or the connection
  closes", but a call that registers just after the connection closed waits
  for ever.
- `ShutdownReturns`: `shutdown` "waits up to `grace`", but first waits, without
  limit, for a writer blocked on an agent that does not read.
- `NoLineSwallowed`: a line printed while the display draws its last frame is
  neither printed nor written to the file.
- `WritesWaitForPage`: the program's writes wait "until the page catches up",
  but the page's word that it has may lie behind input the program will not
  read before its write is done.

More was seen while modelling, and has no run of its own:

- A panic of the work given to `blocking` (`task.rs:725-730`) passes over
  `running(true)`, and `Finished` (`task.rs:1056-1066`) takes the thread off the
  count a second time, though its comment says "Counted finished however `run`
  ends, a panic included". The count is one too low from then on: `settle` may
  let a turn go on with a thread running. `CountIsExact` of `ThreadClock` states
  what the comment says and fails; `RunningCount`, `SettleIsQuiet` and
  `SettledIsSent` state what is left, and it is proved that the count is exact
  until the first such panic.
- `Handle::stop` "returns once every program has ended" (`server.rs:501`), but
  `end` gives up after `END_WAIT` (`pty.rs:103`) and the program is uncounted
  while it runs. For a `LocalPty` that is a program which outlives SIGKILL; a host
  of another kind may take its time. `StoppedIsEnded` says what holds.
- `is_closed` says that the agent "has closed its output (or exited)"
  (`connection.rs:313`). An agent that exited while a process it started holds
  its output is not seen: calls wait on, after `shutdown` too, until that
  process lets go. And the reader, which writes refusals itself
  (`connection.rs:465`, `496`), does not see the end of the output while it
  waits to write to an agent that does not read: `OutputEndWakes` makes the
  exception.
- A permission request whose handler could not be started is answered with an
  error and keeps its entry (`connection.rs:495-501`): a later cancel answers it
  again. `NoSecondAnswer` makes the exception.

- A removal of several packages that comes to one not installed ends without
  writing the state (`marketplace.rs:2533-2539`): the packages it did remove
  are still disabled when they are installed again. `AtRest` states what holds,
  with that case set apart by the history variable `cut`.
- A session whose program refuses its input sees only whether the page's end of
  the socket is shut with nothing left to read (`pty.rs:190-202`); a page that
  sent a Close frame, or anything, and went is not seen. `PageGoneEnds` of
  `PtySession` states what the doc of `run` says.
- An agent that gives a new permission request the id of one that was cancelled
  may get the first handler's answer to the second request
  (`connection.rs:489-493`). `AcpRequests` has ids as a constant and is run
  with distinct ones.

### Fairness

- `AcpCalls`, `AcpRequests`: weak fairness of each thread inside the
  connection's own code (an OS thread that can run does), and of the client's
  `session_update` (it returns). A thread in a write can run only while there is
  room, or no one left to read: nothing makes an agent read, so a write may
  never return, whoever's it is. None for the agent, the user, giving up, calling
  or shutting down. `Kill` may win over `Reap`
  whenever the grace runs; one of them happens.
- `LatestThreads`: weak fairness of each thread inside the clock's functions
  and `send`, of the inbox and of the driver's turns, and of `Advance`: an app
  that runs goes on with its loop. None for what a thread's own closure does.
- `LiveDisplay`: weak fairness of the refresh thread's steps, and strong
  fairness of `Draw`, because the lock may be taken and given back over and
  over and the operating system's mutex does let a waiter in; weak fairness of
  `Leave` (the closures given to `with` return). None for ticks, prints,
  changes or panics.
- `WebServer`: weak fairness of the accept loop, of each connection's thread
  and of the stopping thread: reads and writes have timeouts
  (`HANDSHAKE_TIMEOUT`, `WRITE_TIMEOUT`, `TURN`), and so has the wait for a
  program that is ended (`END_WAIT`): none is assumed for the program, nor that
  it dies when it is killed. The connection that wakes the accept loop is
  assumed to be made.
- `PtySession`: weak fairness of the reader, the waiter and the session's
  thread, and of the page's drawing (a page that does not draw holds the
  program back, as it should). None for the program, the page's typing and
  closing, or the server's stop. `WritesWaitForPage` is checked with more: the
  writer thread runs, the program makes the write it is in and reads whenever
  it is in none.
- The run `ThreadClock` and `Marketplace` have no liveness property and no
  fairness: a command is a sequential program that ends unless it is killed.

`CHECK_DEADLOCK FALSE` is in every configuration because each of these systems
really ends: calls are bounded, displays and servers stop.

## 4. What is proved

Every safety property and action property that a passing run checks is a
theorem of its specification, for every value of the constants, and so is the
refinement of `PackageStore`. The constants stand under the assumptions named
in the modules, which say what the code gives them and which TLC evaluates in
the runs: sets of threads and connections are finite only where the code counts
them (`ClockAssumption`, `ServerAssumption`); limits are natural numbers, at
least 1 where the code has a buffer or a window (`LimitsAssumption`,
`CallsAssumption`); each list of versions an index gives is finite and a
command names a package once (`MarketAssumption`); and values that stand for
nothing (`Nobody`, `NoReply`, `NoJob`, ...) are not one of the things they are
told from. One hypothesis is not an assumption of a module but stands in the
theorems that need it: `DistinctIds`, below.

Each module of proofs has the same shape: an invariant `IInv` of named parts,
one lemma per part that says every step keeps it (one case per action), a theorem
`Inductive`, and the properties from it. The parts beyond the properties are
what the code relies on without saying so.

**The clock (`LatestThreadsProofs`, first part).** `CountIsBounded`,
`ExactWithoutPanic`, `WokenInTime`, `NotifyIsSeen`, `SettledIsQuiet`. `Entries`
(only a sleeper or a waiter has an entry) makes `advance` and `notify` add
exactly the threads they make active; `now \in Times` keeps `Never` beyond
every time; `LookedKnows` carries what a thread saw while it looked up to the
moment it parks, and with it `NoLostNotify` survives `Park`; `ClosedIsIdle`
says that no one settles after the end, when the count is allowed to be wrong.
The count itself is a cardinality: one lemma says how it changes when one
thread becomes or ceases to be active, another when a set of sleeping threads
does. It is kept between two bounds rather than equal to `running`, because a
panic inside `blocking` lowers the count alone; as long as there was none the
bounds meet.

**The signals (second part).** `KeepsToClock` says every behaviour of
`LatestThreads` is one of `ThreadClock`, so that all of the above holds of it.
`NoneStranded` rests on three facts: a value in a slot has a delivery to come
(`Carried`), a delivery to come is in the inbox (`OnItsWay`), and a thread has
at most one there, which it is not posting again (`OneDelivery`). From them,
too: `ToldWhenGone`, `NewestIsShown`, and, with the clock's bound (a thread with
something unsent is one the count is for), `SentWhenSettled`.

**`WebServerProofs`.** `IInv` is `TypeOK`, `Counts` (each counter is the number
of connections in its places, `pending` with the one the accept loop has
counted and not yet handed over), `Limits`, `InHand` (the accept loop's
connection is in no one else's hands) and `Ends` (what `stop` relies on: a
program runs within a session that is counted, or has outlasted `END_WAIT`, and
after it has read a count of zero no connection is past its look at
`stopping`).
`CountsBounded` and `StopEndsPrograms` follow; the second is the argument of
the comment in `pty.rs`: the program is counted before `stopping` is read, and
`stopping` is set before the count is read.

**`PtySessionProofs`.** `TypeCorrect` is the bound on memory. The reader's part
is `Room` (it reads only below the limit); the page's is `Owed`: there is a
function `owed` that gives, for each message in the inbox, what the page still
has to draw when the messages up to it have been read; no message says more was
drawn than the page owed before it. (The sum that the code keeps in `unshown`
would need induction over the inbox; the function carries it step by step.)
`ExitsLast` rests on `Drained` (a turn is only counted, and an end only read,
of a PTY that is empty and that no program will write to) and `Accounts` (until
the session leaves its loop, what was written is the sum of what is at each
place). `InputOrdered` rests on `Continued` (each place on the way of the input
continues the number of the one before it), `Numbered` (the inbox holds later
keys, upwards) and `Counted` (`queued` is what is in the channel and in the
session's hand, until the writer thread fails and resets it). `EndedIsEnded`
rests on `Ended` (a session out of its loop has hung up or seen the status).

**`AcpCallsProofs`.** `RepliesAreOwn` rests on `Numbered`: wherever a number
and a call are found together (the map, a pipe, the agent, a caller), they are
found together everywhere, and only numbers below `nextId` are found; `Unsent`
is its other half: a request that is not written has no reply. `HistoryIsFirst`
rests on `History`: the agent's output holds every update not yet shown, in
order, and before each answer written after it. `ClosedMeansClosed` rests on
`Connected`: until the connection closes, a caller without its reply has its
Sender in the map. `Handles` says who may be inside a write: the reader when it
refuses, a handler when there is one.

**`AcpRequestsProofs`.** `AnsweredOnce`, `NotForgotten` and `SessionsApart`
follow the right to answer: it is the entry in `permissions` or a place in one
canceller's drained list (`Noted`, `Drained`), never both, and someone has it
as long as the request is open (`Held`). They have the hypothesis
`DistinctIds`, that the agent gives no id twice, as JSON-RPC asks of it; without
it the code does answer the wrong request (section 3). `TypeCorrect` holds of
any agent.

**`LiveDisplayProofs`.** `LinesInOrder` rests on `Lines`: a thread's lines are
numbered upwards from the screen through the queue, and, once the receiver is
gone, to the file. `PrintedWhenReturned` rests on `Waiting` (the message a
thread waits for is its only one) and `Served` (while the display runs no
message is lost); `RefreshIsCurrent` on `Frames` and `Stopping` (a message to
stop is queued only when no other thread can change the display).

**`MarketplaceProofs`.** `Refinement` is `Spec => Implements`: each step of the
plugin directory maps to a step of `PackageStore` or to none. It needs
`FilesThere` (an entry of the lockfile has its file, and so will the one about to
be saved) and `Trust` (what a command holds in memory is of the index the state
accepted last, and its version one that index offers). `LoadsLive` and
`RestsClean` speak of commands that were not killed and need `NoStray`,
`NoneDisabled` and `Wanted` besides. Proving them changed the model once:
`LoadsOnlyLive` used to count only what was installed, and the invariant it
needs is false, because an install writes the file before it saves the
lockfile. With one command more than the run had (install, disable; a run of
`rich` reads the lockfile; remove; the run reads the state; install again, up
to the file) the run loads a package that is only about to be installed.
`Live` now says so, and the theorem holds for any number of commands.

What stays with TLC: the liveness properties (`OutputEndWakes`,
`ShutdownEndsAgent`, `CancelAnswers`, `SentIsShown`, `EndWakes`, `CallsReturn`,
`StopReturns`, `StopIsSeen`, `OutputFlows`), since fairness and ENABLED are
beyond this prover, and the four violated properties, whose counterexamples are
what there is to show.

## 5. What is abstracted

- Payloads, formatting and JSON: a message is what the properties tell apart.
- Time: a timeout may run out at any step; the app's clock is a bounded number.
- Memory orderings: the code uses `SeqCst` throughout these parts.
- Tickets, thread ids and numbers do not wrap (`u64`, `usize`).
- A poisoned mutex is recovered everywhere in this code, so poisoning is no
  state. A panic of a caller's own closure is the end of that thread, and of
  nothing else but for one in `blocking`, which is modelled.
- `ThreadClock`, `LatestThreads`: the work given to `blocking`, and the condition
  given to `wait_for`, do not themselves call the thread's `Latest`, and the
  thread does not catch its own panics.
- `AcpCalls`: empty and malformed lines, which the reader reports and skips;
  notifications of the client.
- `LiveDisplay`: whether the terminal redirects, transient and alternate
  screens, partial lines, a panic in the very first frame.
- `WebServer`: what is served, who may open it; the bytes of a session are
  `PtySession`'s.
- `PtySession`: resizes, failures of the socket while the page is there, and
  what the page does once the loop is over. A unit of output stands for a read.
- `Marketplace`: one command runs at a time; nothing in the code keeps two
  apart, and two at once can lose an entry of the lockfile or the state, or
  remove a file the other's entry names (a hazard without a property). One
  trust root, each generation of keys with a new main key, arguments that name
  a package once, writes that do not fail. A version stands for its file, its
  hash and its path; signatures and hashes accept what they should. Agents
  (`agents.json`) are left out.

## 6. Plan

*Done:* the modules above, their runs, and the proofs of every safety and action
property and of the refinement.

Modules after them: the terminals of `rich-acp` (a child, two pipe readers, a
watcher, a limit on output); the generations of a `Resource`; nested live
displays; two marketplace commands at once. Of what is modelled, a refinement
still worth stating is that of `WebServer`'s `program` by the session of
`PtySession`: the two share the kill and the end, and are composed only in
words.

### Not modelled

The reactive graph, the event loop and the relay of an isolated session run on
one thread each, and their hard cases are of data, not of interleaving. The log
channel is one atomic and a library's queue. Rendering, layout, parsing, data
readers and art are functions from values to text, compared with upstream's by
their own tests. Bindings, macros and adapters keep no state. PROJECT.json
gives the reason for each component.

## 7. Running it

    tlc -workers 2 -config MCWebServer.cfg MCWebServer
    tlapm WebServerProofs.tla

Each passing run takes at most three minutes on two workers; each module of
proofs takes from a quarter of a minute to four minutes.
