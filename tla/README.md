# buffetcar in TLA+

buffetcar is a Nex server: it serves the public part of a directory tree to
anonymous TCP clients.  A client connects, sends one selector line, gets a file,
a listing or `document not found`, and is disconnected.  One process runs one
accept loop, a fixed pool of worker threads and a signal handler; the served
tree belongs to many authors, who change it while it is served.

These modules model the parts of it that are hard to test: the hand-over of
connections and permits between threads, shutdown by signal, slow and vanishing
clients, a walk over descriptors through a tree that moves, and a start-up whose
steps can fail, be overtaken by a signal or find the root replaced.  TLC checks
them on small instances; TLAPS proves the safety properties for every instance.
Paths below are those of the repository, seen from this directory's parent (`src/src/server.rs` is the crate's `server.rs`).

## 1. The system

| Component | State | Operations | Talks to |
|---|---|---|---|
| limiter (`limiter.rs`) | map from address to live permits, under a mutex | `try_acquire`, drop of a `ConnPermit` | accept loop acquires, workers drop |
| accept loop (`server.rs`, `serve`) | listener, sender of a channel of capacity 0, worker handles | look at the flag, poll, drain the pipe, accept, ask for a permit, send, join | kernel backlog, limiter, workers, flag and pipe |
| workers (`server.rs`, `worker_loop`) | receiver behind a mutex, one stream and one permit | mask signals, lock, receive, handle, drop | channel, limiter, connection handler |
| shutdown (`signal.rs`) | atomic flag, self-pipe | `install`, `handler`, `block_signals_on_current_thread` | interrupts poll on the main thread, writes the byte it polls |
| connection handler (`conn.rs`) | timeouts, line buffer, chunk being written | `handle`, `read_selector`, `write_response`, `stream_file` | the client's socket, parser, resolver |
| selector parser (`selector.rs`) | component vector | `parse_diagnostic` | handler, `check` |
| resolver (`root.rs`) | root descriptor and device | `resolve`, `classify_child`, `open_listable_dir` | the kernel's file system |
| listing (`listing.rs`) | entries found so far | `collect_entries`, `generate` | resolver |
| check (`check.rs`, the `_diagnostic` half of `root.rs`) | none | a verdict and a reason for each selector | the file system, as its own user |
| command line (`cli.rs`, `lib.rs`) | arguments, the flags' values, selectors | `parse`, `parse_serve`, `parse_check`, exit codes | configuration |
| configuration (`config.rs`) | `ServeConfig`, `CheckConfig` | `validate` with ranges and defaults | the file system (one `lstat` of the root) |
| start-up (`server.rs`, `run`) and sandbox (`sandbox.rs`) | root descriptor, listener, what is unveiled | open, bind, listen, unveil, pledge, `install`, banner | all of the above, once |
| version, build script, test support | none | formatting, fixtures | |

What is hard about each, and what makes it correct:

* **Accept loop, workers, limiter, signals.**  Three kinds of threads and a
  handler interleave at every step.  A signal may land between the look at the
  flag and `poll`, or on a worker that has not masked it; workers may panic
  with a permit in hand; the main thread blocks in `send` with a connection it
  has accepted; shutdown must drain all of it.  Correct means: no lost
  wake-up, no lost or doubled permit, no address above its cap and none refused
  below it, a drained pool when `serve` returns, a signal that always ends it.
* **Connection handler.**  Bytes come in any pieces, timeouts belong to single
  socket calls, writes are short, clients vanish.  Correct means: exactly the
  first line is resolved, `Ok` means the whole answer was written, and the time
  a worker is held is bounded.
* **Parser.**  Correct means: the components are normal names, a line is
  rejected for the documented reasons only and for the first that applies.
* **Resolver and listing.**  Every `openat` and `fstat` sees a tree of its own
  moment.  Correct means: in a tree at rest, the answer the README of the server
  promises; in a tree that moves, nothing goes out that was not public, and what
  stays public is served.
* **Check.**  It walks with code of its own.  Correct means: it predicts the
  daemon's answer, and the reasons it gives are true.
* **Command line and configuration.**  Loops over arguments that take some in
  pairs and some alone; defaults that depend on other options; two looks at the
  root by path.  Correct means: a line means what the usage text says, what is
  accepted satisfies what the server assumes, and the root that is served is the
  directory the path names.
* **Start-up and sandbox.**  A dozen system calls that may each fail, with
  signals between any two of them and before the handlers are there.  Correct
  means: the banner is not written before the server is ready, no signal is
  swallowed, and the exit code says what happened.

`PROJECT.json` lists every hazard at its line with the properties that watch it, and a
note where they watch only part of it.

## 2. Modules

```
PermitPool  <--implements--  Limiter  <--INSTANCE--  Server  --implements-->  Service
FileTree  <--EXTENDS--  Resolver  <--EXTENDS--  Check
CommandLine  <--EXTENDS--  Config  <--EXTENDS--  Launch
Conn      Selector
MCServer, MCSelector, MCResolver, MCCheck, MCLaunch     constants for TLC
LimiterProofs, ServerProofs, ConnProofs, SelectorProofs, LaunchProofs
ResolverProofs  <--EXTENDS--  AnswerProofs  <--EXTENDS--  CheckProofs
```

A definition with the word *Mutant*, or with a name beside the one it varies
(`HandoffKeepsLock`, `DropKeepsKey`, `EnterListable`, ...), is the plausible bug a
property must catch; no specification uses it.

**`PermitPool`** says what a limiter promises with no counters: a permit belongs
to one address and lives in one place, and a new one is handed out only while
fewer than `Cap` of that address are alive.  **`Limiter`** is the code: `counts` is
the `HashMap`, a function whose domain is the set of keys; `try_acquire` (`Acquire`,
`Refuse`) and the drop of a permit (`Drop`) are critical sections of the mutex and
so single steps; `Move` is the transfer of a `ConnPermit` from thread to thread, and
`permit` the ghost that says who owns one.  `PoolSpec` is the refinement.

**`Server`** composes the limiter with `serve`, `worker_loop` and the signal handler.
`mpc` is the main thread's place in `serve` (`check`, `enter` and `polling` are the flag
check, the way into `poll` and `poll`; `woken` dispatches `revents`; then `acquire`,
`granted`, `send`, `join`), `wpc[w]` each worker's, `handler[t]` that of a signal
handler running on thread `t` (`store` before the flag, `write` before the byte).
`txOpen`, `rxLocked` and `held`/`serving` are the channel and the owners of the
streams: capacity 0 means a stream goes from the sender's hand to the receiver's
in one step (`Handoff`).  Before `check` comes `spawn`, in which the workers are born one by
one (`SpawnWorker`) while the first of them already run and may take a signal.
Faults are actions: `StrayInterrupt`, `Fail` (no thread to be had,
`set_nonblocking`, poll), `AcceptFails`, `SetBlockingFails`, `Unwind` (a panic in `handle`: locals are dropped, the
thread dies).  A stream closes at `Finish` or `Unwind`, and its permit is returned
by a later step, `DropPermit`, as in the code.  `Deliver` respects the masks: a
signal goes to the main thread or a worker that has not run `BlockSignals`.
Clients connect, and a queued connection may be reset (`Abort`).

**`Service`** is what all of that amounts to for clients, without a thread, a channel or a
permit: a queue, the one connection that is taken and not decided on, the open ones, and
whether the service was asked to stop.  It takes connections in order and one at a
time, admits one only while fewer than `Cap` of its address and at most as many as there are
workers are open, stops only when asked or by failing, and comes down when nothing
is open.  `ServiceKept` is the refinement: `Open` collects the streams of the main thread and of
the workers, `Phase` folds `mpc`, `flag` is the request.  `Refuse` is always possible in
`Service`, because a permit outlives its stream by a step and an abstract service without permits
cannot say when it is right; `RefusedOnlyAtCap` says it of `Server`.

**`Conn`** is `conn::handle`.  `line` is the selector buffer, `rbuf` the `BufReader`'s,
`left` and `chunk` the rest of the file and of the current `write_all`; `Copy` and
`WriteReturns` split a `write` into bytes taken by the socket and the return, so a
write may be short by any amount.  `Tick` is the clock; it stops at the timeout of
the call the worker is blocked in.  What the selector resolves to is any size of
`Answers` or an I/O error: the parser and resolver are modules of their own.  The
client sends, shuts, receives and vanishes when it likes; closing with unread
bytes resets (`CloseResets`) and may lose what the client has not received.

**`Selector`** is `parse_diagnostic`, one segment per step.  A line is the sequence
`split('/')` makes of it, with the carriage returns at its end (`crs`) and bytes
that are never allowed (`nul`) kept apart.

**`FileTree`** is the kernel: inodes with kind, device and the bits for others, entries,
the results of the four ways the code opens things (`OpenProbe`, `OpenTraverse`,
`OpenSelf`, `OpenList`), and what owners do: `Chmod`, `Link`, `Unlink`, `Rename` (also onto
a file, which then has no link left).  **`Resolver`** is one request on it:
`conn::resolve`, `Root::resolve`, `directory_response` and `listing::generate`, one step for
each `openat` and each `fstat`, with `Owners` between any two.  `site` says whether the
daemon owns the files, how the platform opens a directory to descend (`path` for
`O_PATH`, `search` for `O_SEARCH`, `rdonly` for OpenBSD) and whether descriptors are
scarce, in which case every open may fail.  `moments`, a history variable, is
every tree there was since the request began.

**`CommandLine`** is `cli::parse`: `args` and `i` are the slice and the index of the two
loops, `parsed` and `selectors` the `ServeArgs` or `CheckArgs` they build.  An argument
is a string, which TLA+ cannot look into; so "begins with two dashes", "is not
UTF-8", "is an absolute path" and "parses as a number" are constant sets and
functions.  **`Config`** is `config::validate`: one step, because it looks at the file
system once (`Looks`); every way to refuse is one action, `RefuseCommand`.  `node` is
what the path of the root names at this moment.  **`Launch`** adds the rest of a
process: `Root::open`, `bind_with_backlog`, `sandbox::apply`, `signal::install` and the
banner, one step for each system call that can fail, then `serve` as the three ends
it may have, or `check`'s loop over the selectors, with a verdict for each.
`Signal` is a signal at any point: fatal before `Sigaction`, and after it the handler,
which reads the pointer (`ptr`) and the pipe as they are.  `Replace` is somebody
who puts another directory, a symlink, a file or nothing at the root's path.

`Launch` ends where `Server` begins: its `serving` is `Server`'s whole behaviour, and what
`Launch` may hand over (a set flag and a byte in the pipe, an empty pipe, or no
pipe) is what `Server`'s `Init` reaches when the signal is sent at once.

**`Check`** is `buffetcar check` on one selector: functions of the tree, context by
context as the `_diagnostic` methods are written, next to the answer of
`Resolver`'s daemon for the same tree and request.

## 3. What TLC checks

| Run | Instance | Shows |
|---|---|---|
| `limiter` | 5 places, 2 addresses, cap 3 | `TypeOK`, `CountsMatchPermits`, `NoStaleEntry`; implements `PermitPool` |
| `server_safety` | 2 workers, 4 connections (3 of one address), cap 1, backlog 2, 2 signals, 1 panic, with and without a self-pipe, all faults | `NoLostWakeup`, `InFlightWithinCap`, `DrainedOnReturn`, `PermitFollowsStream`, `RefusedOnlyAtCap`; implements `Service` (`ServiceKept`) |
| `server_live` | 2 workers, 3 connections, cap 1, 1 signal, 1 panic, with and without a self-pipe | `SignalStops`, `InterruptStops`, `QueueProgress`, `AcceptedIsServed`, `HandOver` |
| `conn` | selectors of 1 byte, chunks of 2, a window of 1, answers of 0 and 3 bytes, 4 bytes sent | `OneLine`, `AnswerComplete`, `HoldWithin`, `Returns` |
| `selector` | up to 5 segments of 2 names, 7 bytes | `RejectedExactly`, `ComponentsKept` |
| `launch` | 3,912 command lines, both platforms, root and not root, 2 signals, 2 replacements, every call failing | `ParsedExactly`, `ConfigSound`, `RootAsNamed`, `BannerTellsTruth`, `SignalKept`, `ExitTells`, `SignalEnds` |
| `tree` | 5,952 trees of 8 inodes that nobody changes, 3 trees with 2 changes anywhere in between; 5 requests, 5 sites | `QuietAnswer`, `SteadyFileServed`, `FileWasPublished`, `ListingWasPublished`, `SteadyEntriesListed`, `CheckAgrees`, `ReasonHolds` |
| `server_gone`, `server_accept`, `conn_hold`, `resolver_replace`, `check_rdonly` | as above, smaller where possible | the five disagreements of section 6 |

Every passing run also checks the type invariant of its module, which holds the
bounds the code relies on: a count is never above the cap, the line buffer
never above `MAX_SELECTOR_BYTES` + 1, entries never above `MAX_ENTRIES`.

Why the bounds are enough.  *Server*: one worker can hold the lock while the
other handles, and with both busy a third connection parks in `send` and a fourth
waits in the backlog, which is every stage there is; cap 1 makes every second
connection of an address a refusal (the other end, a cap of workers + 1 that refuses
nobody, is left to theorem `ServerNeverRefused`); a second signal can arrive during and after shutdown.  *Conn*: with one
byte of selector, four bytes sent reach a short line, a full one, one too long,
and bytes after the newline; an answer of 3 needs two chunks and, with a window of
1, a blocked write in each.  *Selector*: five segments hold every order of two
names, two `..` and a bad segment.  *Resolver*: the deepest request has two
components, and below them an index or a listing; a race needs the change that
spoils a name and, at most, the one that restores it, hence two.
*Launch*: lines of up to three arguments hold every kind of argument in every
order, a flag without a value and a value that looks like a flag; of `check`,
lines of up to five words reach two selectors around a `--root` whose value is
itself `--root`; longer lines of `serve` give one or two options their bounds (0, 1,
workers + 1, 1024, and one more than each).  Two replacements are a change and
its undoing; the second signal finds the work of the first.

The caps of the options (`--workers` up to 1024 and the rest) are checked as they are:
`Launch` only compares numbers.

`CHECK_DEADLOCK` is off where the modelled thing ends: one connection (`Conn`), one
line (`Selector`), one request (`Resolver`, `Check`), and `server_gone`, which shows a
server that stops.  The other server runs check deadlock, and the end of the
process is the explicit `Terminated`.

### Fairness

`Scheduling` in `Server` is weak fairness of the main thread, each worker, each running
handler and signal delivery: an OS scheduler that runs every thread.  No fault,
no client and no panic is fair, and no connection is promised to end.  That
`handle` returns is a premise of its own, `HandlersReturn`, written into
`SignalStops`, `QueueProgress`, `AcceptedIsServed` and `InterruptStops`, and absent from
`HandOver`.  `Conn` justifies it: with fairness of the worker's own steps and of the
clock, and nothing expected of the client, `Returns` holds.  (A file system that
blocks forever, say on a dead network mount, is outside both.)

`Launch` assumes that the process is scheduled, and that `serve` returns once the flag is
set, which is what `SignalStops` says of `Server`.  That premise holds with the
self-pipe; without it `InterruptStops` asks that the signal interrupts `poll` or comes
before the look at the flag, and section 5 says what is left.

## 4. What is proved

All proofs are for any value of the constants that the named `ASSUME`s allow: any
number of threads, connections, addresses, signals, panics, any cap; any bytes,
timeouts and answer sizes; lines of any number of segments; trees of any size and
any number of changes; command lines of any length.  The assumptions say that threads
and names are finitely many, that marker values (`NoIp`, `NoConn`, `NoInode`, `None`) are not
addresses, connections or inodes, that bounds are numbers of the sign the
configuration enforces (`Cap` >= 1), that an inode is a directory, a file, a symlink
or something special (`KindAssumption`, what `fstat` can say), and that a site is one of those the
model tells apart (`SitesAssumption`).

* **`LimiterProofs`**: `Inv` (counts are in range, equal the cardinality of the permits
  of their address, and have no key at 0) is inductive; the work is in four lemmas
  on how cardinality changes when a permit appears, moves or goes.  With `Inv`, every
  step is a step of the pool: a refusal is a stutter, and an acquisition happens
  below the cap because the count *is* the number of permits.
* **`ServerProofs`**: `IInv` is the conjunction of `LocalTypeOK`, `PermitFollowsStream`, the
  limiter's `Inv`, `ChannelOutlivesLoop`, `LockedByReceiver` and `NoLostWakeup`.
  `InFlightWithinCap` alone is not inductive: the cap bounds permits, so one must know
  that each live stream has a permit of its own address
  (`PermitFollowsStream`) and that counts match (`Inv`).  `DrainedOnReturn` needs to
  know in addition that no worker leaves while the channel is open
  (`ChannelOutlivesLoop`).  `RefusedOnlyAtCap` is a counting argument: the permits of an
  address match its count, and the main thread has none when it asks for one, so
  the `Cap` of them are with workers.  `NeverRefused`, what SECURITY.md says of a cap of
  workers + 1, follows from the same count; it is proved and has no
  run, and so is `LockedByReceiver`, whose hazards `HandOver` and `QueueProgress` watch.  `LimiterStep` shows that each
  server step is a limiter step or none, so `LimiterProofs`' lemmas carry over and
  `PermitsPooled` follows.
  `ServerKeepsService` shows every step to be one of `Service` or none (`ServiceStep`).  Most
  steps concern no connection (`QuietOrNotable` sorts them).  An admission is allowed because
  the open connections of an address are the image of workers with a permit for it
  (`AdmissionGuard`), which also gives the code's "at most `workers` handled connections plus one
  accepted connection parked in `send`".  That closing a stream closes one connection
  needs `OneOwner`: a connection is once in the queue, or with one thread, and never both.
* **`ConnProofs`**: `HoldWithin` bounds the worker's time by
  `(MaxSelector + 2) * ReadTimeout + MaxAnswer * WriteTimeout`.  The
  invariant is a budget: every successful call moved a byte (`ReadBudget`,
  `WriteBudget`), waited at most one timeout (`WaitBudget`), and `AgeBudget` sums them.
  With the code's 1024 bytes and 5 s, that is 85 minutes to read one line.
  `OneLine` needs `LineInv`: while the line is read, what the client has sent is the
  line so far, then `BufReader`'s bytes, then the socket's, in that order, and the
  line so far has no newline.  `AnswerComplete` needs to know that nothing is written
  before there is an answer.
* **`SelectorProofs`**: `Counted` ties the length of the vector to the numbers of names
  and `..` seen, which turns "the vector is empty at a `..`" into "the prefix leaves
  the root"; `RejectedExactly` follows.  `ComponentsKept` needs to know *which* segments the
  vector holds: `Ordered` says that they are the names no `..` has taken back so far, in
  their order, and each at the place that the names and the `..` up to it leave it;
  so a `..` takes back the last of them and no other.
* **`ResolverProofs`**: `TypeInv` (types, and what is in hand at each place of the walk)
  and `PublishInv`: the descriptor in hand is the end of a `Trail`, a sequence of
  inodes each of which stood under its name in the one before, in a directory that
  was public, *at some moment*.  `moments` only grows, so what was once true of it stays
  true (lemma `Lasting`) and owners' steps cannot disturb the invariant.
  For `SteadyEntriesListed` the argument runs the other way: what is public at *all*
  moments is, while the directory is collected, unread, or in hand and a file, or
  listed (`AwaitedInv`); a new moment can only make fewer entries steady.

* **`AnswerProofs`**: `QuietAnswer` and `SteadyFileServed` compare the walk, which goes down one
  component per step, with a reference that is recursive over them (`Named`).
  Both properties are one invariant, `AnswerInv`, under the premise `Sure`: nobody has
  changed the tree, or the path means the same public file at every moment.  Then what is in
  hand is what the path names so far (`OnPath`); the walk goes on only from what is no
  answer yet (`OnlyIfNot`, where descriptors suffice); and the listing holds the public
  entries already read (`ReadSoFar`).  Owners are the hard case: that the *end* of the
  path stays the same file does not say that the inodes on the way do, and a
  walk half-way down would then be lost.  They do stay (`PathKept`), because no single
  change takes a name from one directory to another: `rename` does not replace a
  directory, and `link` makes no name for one (`ChangeEntry`, `ChangeKeepsPath`).
* **`CheckProofs`**: `ResolveTells` is an induction over the components: after each of them
  `check` has the inode the daemon would have, or a reason that is true of something on
  the way.  With `AnswerProofs`' account of what the daemon answers in a
  tree at rest, `CheckAgrees` and `ReasonHolds` follow.  On a tree at rest the two ways to
  classify differ in how they open and agree in what they accept
  (`ClassifyTells`); the proof fails for OpenBSD where the properties leave it out, at the
  directory that is opened for reading.

  Induction over `0 .. n` is not a theorem of the library that can be used here
  (those take operators as parameters), so `AnswerProofs` begins with it: a step is a
  function, the claim is a set of numbers, the least number outside it comes from
  `WFMin` of WellFoundedInduction (`UpTo`), and the recursive functions exist and are unique by it
  (`IterationExists`, `IterationUnique`).

* **`LaunchProofs`**: `LaunchInv` adds to the properties `Stages`: what each place in the
  program has already done (at `sigaction` the pointer is stored, past `listen` the
  socket listens, before `serving` there is no banner), without which no
  property about the end of the start-up is inductive.  `LaunchParsedExactly` has an
  invariant of its own for the loops, `Scanned`: that what is parsed so far is what the
  arguments before `i` say, and that `i` is not the place of a value.  Whether an
  argument is a value depends on the unbroken run of `--root` before it, so the step
  of the proof is a lemma on how that run grows.

Only model-checked: all liveness, which is out of the prover's reach (`SignalStops`,
`InterruptStops`, `QueueProgress`, `AcceptedIsServed`, `HandOver`, `Returns`, `SignalEnds`).  Every
invariant and every other action property of a passing run has its theorem.

## 5. What the properties do not say

* `FileWasPublished` claims a moment for each step of the walk, not one moment for
  all: an author who moves directories during a request can have a client reach a
  file by a path that never existed as a whole.  The code promises no more, and
  each component was public when it was passed.
* `SteadyFileServed` and `SteadyEntriesListed` assume enough descriptors.  Any failure of
  `openat`, `EMFILE` included, counts as absence in the code (`root.rs`, `conn.rs`), so a
  daemon short of them denies files, and may list a directory that has an index;
  `QuietAnswer` says only that it never sends *another* file.
* A read of a directory that fails half-way ends the connection without an answer
  (`src/src/listing.rs:42`).  `ListingWasPublished` sees to it that no part of a listing
  goes out; it does not say that the client is told.
* Reading a directory is one step (`ReadDir`); `getdents` may in fact be spread over
  several calls.  The two `fstat`s of an entry that is a directory are one.
* A listing may lack entries when its directory loses its search bit during the
  reading; `SteadyEntriesListed` therefore asks that it stays listable.
* `CheckAgrees` and `ReasonHolds` compare on a tree at rest, with descriptors to spare, and
  not on OpenBSD, where section 6 applies.  `ReasonHolds` leaves out a root its author cannot
  search, which `check` calls "not found" (`src/src/root.rs:344-346`).

* Without a self-pipe a signal that lands between the look at the flag and `poll` is
  noticed only at the next connection: the code says so (`src/src/signal.rs:18`), and
  `SignalStops` is stated for a server that has the pipe.
* `RootAsNamed` is about the last component of the path: a symlink further up is
  followed, by design.  Once the path has been replaced it says only that the served
  root is not behind a symlink; that the root is the directory the path names, and the one
  unveiled, it says while nobody replaces it.  On OpenBSD a root replaced between its
  opening and `unveil` is unveiled in its new form; the walk then stays with the
  descriptor, and no property excludes that.
* `ExitTells` says nothing of a process that a signal killed or that panicked: neither
  prints an error line.  Of every other end it says
  that there is an error line if and only if the process failed, where a no of
  `check` is an answer and no failure.

## 6. Disagreements found

Five statements of the repository are not true of the code; each has a run whose
counterexample shows it, and a quotation in `PROJECT.json`.

1. `server_gone`: once every worker has panicked, the main thread stays in `send`: `serve`
   itself keeps the receiver alive (`src/src/server.rs:161`), so the `break` for "all
   workers have gone away" is never taken.
2. `conn_hold`: the two timeouts do not bound a connection by their sum ("~35 s of
   worker-hold"), because they restart with every call; section 4 has the true bound.
3. `resolver_replace`: a directory whose index is replaced by `rename` between the open
   and the `fstat` of it is answered with a generated listing: the opened file has no
   link left and is refused.
4. `check_rdonly`: on OpenBSD, where a directory is opened for reading to descend,
   `check` run by the owner of a `0711` directory accepts what the daemon refuses.
5. `server_accept`: any error of `accept` but `WouldBlock` ends `serve` (`src/src/server.rs:253`).
   A connection that its peer resets while it is queued gives such an error on
   some systems (`ECONNABORTED`), and so does a moment without descriptors
   (`EMFILE`); the design says that connection events never crash the server, and
   the plan for this loop that such errors are transient and silent.

One more thing the models can show and no run claims: the answer to an oversized
selector is written while input is unread, and the reset that follows may take
it with it (`CloseResets`); what the client sees depends on its kernel.

Two that were met on the way and have no run.  `thread::spawn` panics when there
are no more threads (`src/src/server.rs:167`, `SpawnPanics` in `Launch`), after the banner,
with exit code 101, a panic message and no error line, where the design says that start-up
failures print one `error:` line and "never panic"
(`src/docs/superpowers/specs/2026-06-06-multi-user-nex-server-design.md:293`); it qualifies
that by "in normal operation".  The comment of `server::run` (`src/src/server.rs:50`)
names the sandbox and the handlers before the bind; the code binds first, so that
connections queue in the kernel before the sandbox is in force, but none is accepted.

## 7. Not modelled, and why

* `version.rs`, `build.rs`, test support: formatting and fixtures.
* Inside modelled parts: order and text of listing lines, the wording of check's
  output, `listing::serve` and `serve_selector` (the library's buffered variants of `generate` and
  `resolve`), the loop for platforms other than Unix, help texts and colours, socket
  options, what the kernel forbids after `pledge`, and the defensive `break` for a
  pipe in error (`src/src/server.rs:221`).

## 8. Plan

Done, in this order: `PermitPool`, `Limiter`, `Server`, `Conn` with their runs and proofs;
`Selector`; `FileTree` and `Resolver`; `Check`; `CommandLine`, `Config` and `Launch` with their
proofs; the spawning of workers and the errors of `accept` in `Server`; the proofs about
what the resolver answers and `check` predicts; `Service` and its refinement.

Left:

1. **`NexService`**: one connection as its client sees it (refused, or answered in full from
   a tree of one of its moments, or dropped), with `Conn` composed with `Selector` and
   `Resolver` shown to implement it.  `Service` is that for the connections among each other.
2. `check` against `serve` on selectors that contain a newline.
