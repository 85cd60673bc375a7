-------------------------------- MODULE Server --------------------------------
(***************************************************************************)
(* The accept loop, the worker pool and the shutdown signal of             *)
(* src/server.rs and src/signal.rs, around the limiter of Limiter.tla.     *)
(*                                                                         *)
(* The main thread polls the listener and the self-pipe, accepts, asks the *)
(* limiter for a permit and hands (stream, permit) over a zero-capacity    *)
(* channel.  Every worker takes the receiver's mutex, receives, handles    *)
(* the connection, drops the permit and starts again.  A signal handler    *)
(* runs on the main thread, or on a worker that has not masked signals     *)
(* yet, and is interleaved with everything else between its two effects.   *)
(*                                                                         *)
(* Init is where Launch calls serve: the handlers are installed, with or   *)
(* without a self-pipe.  A signal that came before is one that comes now.  *)
(***************************************************************************)
EXTENDS Naturals, FiniteSets, Sequences

CONSTANTS Workers, Main,       \* the threads
          Conns, NoConn,       \* client connections
          Ips, NoIp, Peer,     \* Peer[c]: the address c comes from
          Cap,                 \* settings.max_conns_per_ip
          Backlog,             \* bound: LISTEN_BACKLOG (128 in the code)
          MaxSignals,          \* bound: SIGTERM/SIGINT sent to the process
          MaxUnwinds           \* bound: workers that may panic in handle

Threads == Workers \cup {Main}

ASSUME WorkersAssumption == IsFiniteSet(Workers) /\ Workers # {} /\ Main \notin Workers
ASSUME ConnsAssumption   == NoConn \notin Conns /\ Peer \in [Conns -> Ips]
ASSUME IpsAssumption     == NoIp \notin Ips
ASSUME LimitsAssumption  == Cap \in Nat \ {0} /\ Backlog \in Nat /\ MaxSignals \in Nat

VARIABLES
    mpc,        \* where the main thread is in serve
    revents,    \* what poll last reported, while it is being dispatched
    held,       \* the stream the main thread owns
    backlog,    \* established connections the kernel queues for accept
    wpc,        \* where each worker is in worker_loop
    serving,    \* the stream each worker owns
    rxLocked,   \* the mutex around the channel's receiver
    txOpen,     \* the channel's sender is alive
    counts, permit,                        \* the limiter
    flag,       \* the AtomicBool `shutdown`
    pipe,       \* the self-pipe: "empty", "byte", or "none"
    handler,    \* where each thread is in the signal handler
    pending,    \* a signal waits for delivery
    sent        \* signals sent so far

Lim == INSTANCE Limiter WITH Slots <- Threads

mainVars   == <<mpc, revents, held>>
workerVars == <<wpc, serving, rxLocked>>
limVars    == <<counts, permit>>
sigVars    == <<flag, pipe, handler, pending, sent>>
vars       == <<mainVars, backlog, workerVars, txOpen, limVars, sigVars>>

Init ==
    /\ mpc = "spawn" /\ revents = {} /\ held = NoConn
    /\ backlog = <<>>
    /\ wpc = [w \in Workers |-> "unborn"]
    /\ serving = [w \in Workers |-> NoConn]
    /\ rxLocked = FALSE
    /\ txOpen = TRUE
    /\ Lim!Init
    /\ flag = FALSE /\ pipe \in {"none", "empty"}
    /\ handler = [t \in Threads |-> "idle"]
    /\ pending = FALSE /\ sent = 0

\* The main thread is at l and no signal handler suspends it there.
At(l) == mpc = l /\ handler[Main] = "idle"

Ended(w) == wpc[w] \in {"exited", "dead"}

Listening == mpc \notin {"returned", "failed", "exited"}

InBacklog(c) == \E i \in 1 .. Len(backlog) : backlog[i] = c
-------------------------------------------------------------------------------
(* serve: the workers are spawned, the listener is made non-blocking, ...   *)
SpawnWorker(w) ==
    /\ At("spawn")
    /\ wpc[w] = "unborn"
    /\ wpc' = [wpc EXCEPT ![w] = "spawned"]
    /\ UNCHANGED <<mainVars, backlog, serving, rxLocked, txOpen, limVars, sigVars>>

SetNonblocking ==
    /\ At("spawn")
    /\ \A w \in Workers : wpc[w] # "unborn"
    /\ mpc' = "check"
    /\ UNCHANGED <<revents, held, backlog, workerVars, txOpen, limVars, sigVars>>

(* ... and then the accept loop.                                            *)

\* The load at the top of the loop; on a set flag, break and drop(tx).
CheckFlag ==
    /\ At("check")
    /\ mpc' = IF flag THEN "join" ELSE "enter"
    /\ txOpen' = ~flag
    /\ UNCHANGED <<revents, held, backlog, workerVars, limVars, sigVars>>

EnterPoll ==
    /\ At("enter")
    /\ mpc' = "polling"
    /\ UNCHANGED <<revents, held, backlog, workerVars, txOpen, limVars, sigVars>>

Ready == (IF backlog # <<>> THEN {"listener"} ELSE {})
         \cup (IF pipe = "byte" THEN {"pipe"} ELSE {})

\* poll has no timeout: it returns once a descriptor is ready ...
PollReturns ==
    /\ At("polling")
    /\ Ready # {}
    /\ revents' = Ready
    /\ mpc' = "woken"
    /\ UNCHANGED <<held, backlog, workerVars, txOpen, limVars, sigVars>>

InterruptBreaks ==
    /\ At("polling")
    /\ Ready = {}
    /\ mpc' = "join" /\ txOpen' = FALSE
    /\ UNCHANGED <<revents, held, backlog, workerVars, limVars, sigVars>>

\* ... or with EINTR, here from a signal that has no handler of ours.
StrayInterrupt ==
    /\ At("polling")
    /\ Ready = {}
    /\ mpc' = "check"
    /\ UNCHANGED <<revents, held, backlog, workerVars, txOpen, limVars, sigVars>>

\* The pipe is looked at first; the flag is left to the check above.
DrainPipe ==
    /\ At("woken")
    /\ "pipe" \in revents
    /\ pipe' = "empty"
    /\ revents' = {}
    /\ mpc' = "check"
    /\ UNCHANGED <<held, backlog, workerVars, txOpen, limVars, flag, handler, pending, sent>>

Accept ==
    /\ At("woken")
    /\ revents = {"listener"}
    /\ backlog # <<>>
    /\ held' = Head(backlog)
    /\ backlog' = Tail(backlog)
    /\ revents' = {}
    /\ mpc' = "acquire"
    /\ UNCHANGED <<workerVars, txOpen, limVars, sigVars>>

AcceptBlocks == FALSE

\* The peer that woke poll has gone: the listener is non-blocking.
AcceptWouldBlock ==
    /\ At("woken")
    /\ revents = {"listener"}
    /\ backlog = <<>>
    /\ revents' = {}
    /\ mpc' = "check"
    /\ UNCHANGED <<held, backlog, workerVars, txOpen, limVars, sigVars>>

\* serve returns Err, or panics in thread::spawn: its locals (the sender, the
\* listener) are dropped, and nobody is joined.
Leave ==
    /\ mpc' = "failed"
    /\ revents' = {} /\ backlog' = <<>> /\ txOpen' = FALSE
    /\ UNCHANGED <<held, workerVars, limVars, sigVars>>

\* No more threads; set_nonblocking; a poll error other than EINTR; POLLERR,
\* POLLHUP or POLLNVAL on the listener.
Fail == (At("spawn") \/ At("polling")) /\ Leave

\* An accept error other than WouldBlock: a queued connection that its peer has
\* reset (ECONNABORTED), or no descriptor left (EMFILE).
AcceptFails == At("woken") /\ revents = {"listener"} /\ Leave

RefuseBelowCap ==
    /\ At("acquire")
    /\ held' = NoConn
    /\ mpc' = "check"
    /\ UNCHANGED <<revents, backlog, workerVars, txOpen, limVars, sigVars>>

\* try_acquire at the cap: the stream is dropped.
Refuse ==
    /\ At("acquire")
    /\ Lim!Refuse(Peer[held])
    /\ held' = NoConn
    /\ mpc' = "check"
    /\ UNCHANGED <<revents, backlog, workerVars, txOpen, sigVars>>

Grant ==
    /\ At("acquire")
    /\ Lim!Acquire(Main, Peer[held])
    /\ mpc' = "granted"
    /\ UNCHANGED <<revents, held, backlog, workerVars, txOpen, sigVars>>

SetBlockingUnlessStopping ==
    /\ At("granted") /\ ~flag
    /\ mpc' = "send"
    /\ UNCHANGED <<revents, held, backlog, workerVars, txOpen, limVars, sigVars>>

SetBlocking ==
    /\ At("granted")
    /\ mpc' = "send"
    /\ UNCHANGED <<revents, held, backlog, workerVars, txOpen, limVars, sigVars>>

\* set_nonblocking(false)? returns Err with the permit and the stream in hand.
SetBlockingFails ==
    /\ At("granted")
    /\ Lim!Drop(Main)
    /\ held' = NoConn
    /\ mpc' = "failed"
    /\ backlog' = <<>> /\ txOpen' = FALSE
    /\ UNCHANGED <<revents, workerVars, sigVars>>

HandoffKeepsLock(w) ==
    /\ mpc = "send" /\ wpc[w] = "recv"
    /\ Lim!Move(Main, w)
    /\ serving' = [serving EXCEPT ![w] = held]
    /\ held' = NoConn
    /\ wpc' = [wpc EXCEPT ![w] = "handling"]
    /\ mpc' = "check"
    /\ UNCHANGED <<rxLocked, revents, backlog, txOpen, sigVars>>
HandoffDropsPermit(w) ==
    /\ mpc = "send" /\ wpc[w] = "recv"
    /\ Lim!Drop(Main)
    /\ serving' = [serving EXCEPT ![w] = held]
    /\ held' = NoConn
    /\ wpc' = [wpc EXCEPT ![w] = "handling"]
    /\ rxLocked' = FALSE
    /\ mpc' = "check"
    /\ UNCHANGED <<revents, backlog, txOpen, sigVars>>

\* The rendezvous of tx.send with rx.recv.  The receiver's guard lives to the
\* end of the `let` that receives, so the lock is free before handle starts.
Handoff(w) ==
    /\ mpc = "send" /\ wpc[w] = "recv"
    /\ Lim!Move(Main, w)
    /\ serving' = [serving EXCEPT ![w] = held]
    /\ held' = NoConn
    /\ wpc' = [wpc EXCEPT ![w] = "handling"]
    /\ rxLocked' = FALSE
    /\ mpc' = "check"
    /\ UNCHANGED <<revents, backlog, txOpen, sigVars>>

JoinSkipped ==
    /\ At("join")
    /\ mpc' = "returned"
    /\ backlog' = <<>>
    /\ UNCHANGED <<revents, held, workerVars, txOpen, limVars, sigVars>>

\* Every handle joins (a panicked worker too); the listener is dropped.
Join ==
    /\ At("join")
    /\ \A w \in Workers : Ended(w)
    /\ mpc' = "returned"
    /\ backlog' = <<>>
    /\ UNCHANGED <<revents, held, workerVars, txOpen, limVars, sigVars>>

\* run returns to main and the process exits, with whatever still runs.
Exit ==
    /\ At("returned") \/ At("failed")
    /\ mpc' = "exited"
    /\ UNCHANGED <<revents, held, backlog, workerVars, txOpen, limVars, sigVars>>
-------------------------------------------------------------------------------
(* worker_loop.  A process that has exited runs no thread.                  *)

WorkerAt(w, l) == mpc # "exited" /\ wpc[w] = l

\* block_signals_on_current_thread, not before a handler on w has returned.
BlockSignals(w) ==
    /\ WorkerAt(w, "spawned") /\ handler[w] = "idle"
    /\ wpc' = [wpc EXCEPT ![w] = "lock"]
    /\ UNCHANGED <<mainVars, backlog, serving, rxLocked, txOpen, limVars, sigVars>>

TakeLock(w) ==
    /\ WorkerAt(w, "lock")
    /\ ~rxLocked
    /\ rxLocked' = TRUE
    /\ wpc' = [wpc EXCEPT ![w] = "recv"]
    /\ UNCHANGED <<mainVars, backlog, serving, txOpen, limVars, sigVars>>

\* recv fails: the channel is closed and the worker returns.
RecvClosed(w) ==
    /\ WorkerAt(w, "recv")
    /\ ~txOpen
    /\ rxLocked' = FALSE
    /\ wpc' = [wpc EXCEPT ![w] = "exited"]
    /\ UNCHANGED <<mainVars, backlog, serving, txOpen, limVars, sigVars>>

\* conn::handle returns; it owns the stream, which is closed here.
Finish(w) ==
    /\ WorkerAt(w, "handling")
    /\ serving' = [serving EXCEPT ![w] = NoConn]
    /\ wpc' = [wpc EXCEPT ![w] = "release"]
    /\ UNCHANGED <<mainVars, backlog, rxLocked, txOpen, limVars, sigVars>>

\* conn::handle panics: the unwinding closes the stream.
Unwind(w) ==
    /\ WorkerAt(w, "handling")
    /\ Cardinality({v \in Workers : wpc[v] \in {"unwinding", "dead"}}) < MaxUnwinds
    /\ serving' = [serving EXCEPT ![w] = NoConn]
    /\ wpc' = [wpc EXCEPT ![w] = "unwinding"]
    /\ UNCHANGED <<mainVars, backlog, rxLocked, txOpen, limVars, sigVars>>

DropPermitUnlessUnwinding(w) ==
    \/ /\ WorkerAt(w, "release")
       /\ Lim!Drop(w)
       /\ wpc' = [wpc EXCEPT ![w] = "lock"]
       /\ UNCHANGED <<mainVars, backlog, serving, rxLocked, txOpen, sigVars>>
    \/ /\ WorkerAt(w, "unwinding")
       /\ wpc' = [wpc EXCEPT ![w] = "dead"]
       /\ UNCHANGED <<mainVars, backlog, serving, rxLocked, txOpen, sigVars, limVars>>

\* _permit goes out of scope: the iteration ends, or the thread does.
DropPermit(w) ==
    /\ WorkerAt(w, "release") \/ WorkerAt(w, "unwinding")
    /\ Lim!Drop(w)
    /\ wpc' = [wpc EXCEPT ![w] = IF @ = "release" THEN "lock" ELSE "dead"]
    /\ UNCHANGED <<mainVars, backlog, serving, rxLocked, txOpen, sigVars>>
-------------------------------------------------------------------------------
(* The clients and the kernel.                                              *)

Connect(c) ==
    /\ Listening
    /\ Len(backlog) < Backlog
    /\ ~InBacklog(c) /\ held # c /\ \A w \in Workers : serving[w] # c
    /\ backlog' = Append(backlog, c)
    /\ UNCHANGED <<mainVars, workerVars, txOpen, limVars, sigVars>>

\* A queued connection is reset by its peer and leaves the queue.
Abort(i) ==
    /\ i \in 1 .. Len(backlog)
    /\ backlog' = SubSeq(backlog, 1, i - 1) \o SubSeq(backlog, i + 1, Len(backlog))
    /\ UNCHANGED <<mainVars, workerVars, txOpen, limVars, sigVars>>

SendSignal ==
    /\ mpc # "exited"
    /\ sent < MaxSignals
    /\ sent' = sent + 1
    /\ pending' = TRUE
    /\ UNCHANGED <<mainVars, backlog, workerVars, txOpen, limVars, flag, pipe, handler>>

DeliverRestartsPoll(t) ==
    /\ mpc # "exited"
    /\ pending /\ handler[t] = "idle"
    /\ t \in {Main} \cup {w \in Workers : wpc[w] = "spawned"}
    /\ pending' = FALSE
    /\ handler' = [handler EXCEPT ![t] = "store"]
    /\ UNCHANGED <<mainVars, backlog, workerVars, txOpen, limVars, flag, pipe, sent>>

Unmasked == {Main} \cup {w \in Workers : wpc[w] = "spawned"}

\* A thread that does not mask the signal runs the handler; with no SA_RESTART,
\* a poll it interrupts returns EINTR (a channel wait or a join resumes).
Deliver(t) ==
    /\ mpc # "exited"
    /\ pending /\ handler[t] = "idle"
    /\ t \in Unmasked
    /\ pending' = FALSE
    /\ handler' = [handler EXCEPT ![t] = "store"]
    /\ mpc' = IF t = Main /\ mpc = "polling" THEN "check" ELSE mpc
    /\ UNCHANGED <<revents, held, backlog, workerVars, txOpen, limVars, flag, pipe, sent>>

\* handler: the store of the flag ...
StoreFlag(t) ==
    /\ mpc # "exited"
    /\ handler[t] = "store"
    /\ flag' = TRUE
    /\ handler' = [handler EXCEPT ![t] = "write"]
    /\ UNCHANGED <<mainVars, backlog, workerVars, txOpen, limVars, pipe, pending, sent>>

WriteByteSkipped(t) ==
    /\ mpc # "exited"
    /\ handler[t] = "write"
    /\ handler' = [handler EXCEPT ![t] = "idle"]
    /\ UNCHANGED <<mainVars, backlog, workerVars, txOpen, limVars, flag, pipe, pending, sent>>

\* ... and then the write of a byte to the self-pipe, if there is one.
WriteByte(t) ==
    /\ mpc # "exited"
    /\ handler[t] = "write"
    /\ pipe' = IF pipe = "none" THEN "none" ELSE "byte"
    /\ handler' = [handler EXCEPT ![t] = "idle"]
    /\ UNCHANGED <<mainVars, backlog, workerVars, txOpen, limVars, flag, pending, sent>>
-------------------------------------------------------------------------------
MainProgress ==
    \/ \E w \in Workers : SpawnWorker(w)
    \/ SetNonblocking
    \/ CheckFlag \/ EnterPoll \/ PollReturns \/ DrainPipe
    \/ Accept \/ AcceptWouldBlock \/ Refuse \/ Grant \/ SetBlocking
    \/ \E w \in Workers : Handoff(w)
    \/ Join \/ Exit

MainFault == StrayInterrupt \/ Fail \/ AcceptFails \/ SetBlockingFails

WorkerProgress(w) == BlockSignals(w) \/ TakeLock(w) \/ RecvClosed(w) \/ DropPermit(w)

Handler(t) == StoreFlag(t) \/ WriteByte(t)

Environment ==
    \/ \E c \in Conns : Connect(c)
    \/ \E i \in 1 .. Backlog : Abort(i)
    \/ SendSignal

Terminated == mpc = "exited" /\ UNCHANGED vars

Next ==
    \/ MainProgress \/ MainFault
    \/ \E w \in Workers : WorkerProgress(w) \/ Finish(w) \/ Unwind(w)
    \/ \E t \in Threads : Deliver(t) \/ Handler(t)
    \/ Environment
    \/ Terminated

Spec == Init /\ [][Next]_vars

(* The scheduler runs every thread and delivers signals; no fault, no new   *)
(* connection and no end of a handler is promised.                          *)
Scheduling ==
    /\ WF_vars(MainProgress)
    /\ \A w \in Workers : WF_vars(WorkerProgress(w))
    /\ WF_vars(\E t \in Threads : Deliver(t))
    /\ \A t \in Threads : WF_vars(Handler(t))

ScheduledSpec == Spec /\ Scheduling

(* conn::handle returns: its reads and writes carry timeouts.  The liveness *)
(* properties that need it take it as a premise; HandOver does without.     *)
HandlersReturn == \A w \in Workers : WF_vars(Finish(w))
-------------------------------------------------------------------------------
LocalTypeOK ==
    /\ mpc \in {"spawn", "check", "enter", "polling", "woken", "acquire", "granted", "send",
                "join", "returned", "failed", "exited"}
    /\ revents \subseteq {"listener", "pipe"}
    /\ held \in Conns \cup {NoConn}
    /\ backlog \in Seq(Conns)
    /\ wpc \in [Workers -> {"unborn", "spawned", "lock", "recv", "handling", "release",
                            "unwinding", "dead", "exited"}]
    /\ serving \in [Workers -> Conns \cup {NoConn}]
    /\ rxLocked \in BOOLEAN /\ txOpen \in BOOLEAN
    /\ flag \in BOOLEAN /\ pipe \in {"none", "empty", "byte"} /\ pending \in BOOLEAN
    /\ handler \in [Threads -> {"idle", "store", "write"}]
    /\ sent \in 0 .. MaxSignals

(* Every variable holds a value of its kind, the limiter's counts with them: *)
(* in the server too no count is above the cap.                             *)
TypeOK == LocalTypeOK /\ Lim!TypeOK

(* A main thread that is about to sleep in poll, or sleeps there, after a   *)
(* handler has run to its end, finds the byte in the pipe: the wake-up can  *)
(* not fall between the flag check and poll, on whichever thread the        *)
(* handler ran (src/signal.rs: "closing that race").                        *)
NoLostWakeup ==
    (/\ flag
     /\ mpc \in {"enter", "polling"}
     /\ \A t \in Threads : handler[t] # "write") => pipe # "empty"

(* The streams of an IP that are being handled, or wait in the channel.     *)
InFlight(ip) ==
    {w \in Workers : serving[w] # NoConn /\ Peer[serving[w]] = ip}
    \cup {m \in {Main} : mpc \in {"granted", "send"} /\ Peer[held] = ip}

(* No IP ever has more than Cap connections in flight, whatever panics and  *)
(* however closing, releasing and accepting interleave (SECURITY.md: "caps   *)
(* concurrent connections from one source IP").                             *)
InFlightWithinCap == \A ip \in Ips : Cardinality(InFlight(ip)) <= Cap

(* When serve returns Ok no worker runs, no stream is open and the limiter  *)
(* is empty: the shutdown has drained every accepted connection.            *)
DrainedOnReturn ==
    mpc = "returned" =>
        /\ \A w \in Workers : Ended(w) /\ serving[w] = NoConn
        /\ held = NoConn
        /\ DOMAIN counts = {}

(* The receiver's lock is held by the one worker that waits in recv and by  *)
(* no other, so a worker that handles, or has died, blocks nobody.          *)
LockedByReceiver ==
    /\ rxLocked <=> \E w \in Workers : wpc[w] = "recv"
    /\ \A v, w \in Workers : wpc[v] = "recv" /\ wpc[w] = "recv" => v = w

(* A permit lives exactly as long as the stream it was granted for has an   *)
(* owner, and one step longer: from the grant on with the main thread, then *)
(* with the worker that handles the stream, and until that worker drops it. *)
PermitFollowsStream ==
    /\ permit[Main] = IF mpc \in {"granted", "send"} THEN Peer[held] ELSE NoIp
    /\ held \in Conns <=> mpc \in {"acquire", "granted", "send"}
    /\ \A w \in Workers :
        /\ serving[w] \in Conns <=> wpc[w] = "handling"
        /\ wpc[w] = "handling" => permit[w] = Peer[serving[w]]
        /\ wpc[w] \notin {"handling", "release", "unwinding"} => permit[w] = NoIp

(* The channel is open as long as serve loops, and no worker leaves before. *)
ChannelOutlivesLoop ==
    /\ txOpen <=> mpc \notin {"join", "returned", "failed", "exited"}
    /\ \A w \in Workers : wpc[w] = "exited" => ~txOpen
    /\ mpc = "returned" => \A w \in Workers : Ended(w)

(* A connection is refused only while Cap workers are busy with its IP: the *)
(* one in hand does not count against itself, and no dead worker does.      *)
RefusedOnlyAtCap ==
    [][mpc = "acquire" /\ mpc' = "check"
          => Cardinality({w \in Workers : permit[w] = Peer[held]}) >= Cap]_vars

(* So with a cap of workers + 1 the limiter refuses nobody: SECURITY.md,    *)
(* "the maximum `workers + 1` neutralizes the cap".                         *)
NeverRefused ==
    Cap > Cardinality(Workers) /\ mpc = "acquire" => Lim!Count(Peer[held]) < Cap

(* The server uses the limiter as a pool of at most Cap permits per IP.     *)
PermitsPooled == Lim!PoolSpec

\* What a client sees of it: the stream the loop asks a permit for, and those
\* that are admitted and not closed, with the main thread or with a worker.
Taken == IF mpc = "acquire" THEN {held} ELSE {}
Open ==
    {c \in Conns :
        /\ mpc # "exited"
        /\ \/ mpc \in {"granted", "send"} /\ held = c
           \/ \E w \in Workers : serving[w] = c}
Phase ==
    CASE mpc = "join"     -> "stopping"
      [] mpc = "returned" -> "down"
      [] mpc = "failed"   -> "failed"
      [] mpc = "exited"   -> "ended"
      [] OTHER            -> "up"

Svc == INSTANCE Service WITH
           queue <- backlog, taken <- Taken, open <- Open, phase <- Phase, asked <- flag,
           Hands <- Cardinality(Workers)

(* Accept loop, channel, workers, permits and the signal together are that   *)
(* service: connections are taken in order and never by two threads, at      *)
(* most Cap of an address and workers + 1 in all are open (server.rs: "at    *)
(* most `workers` handled connections plus one accepted connection parked    *)
(* in `send`"), and serve returns Ok only when it was asked to and all that  *)
(* it admitted are closed.                                                   *)
ServiceKept == Svc!Spec
-------------------------------------------------------------------------------
Done == mpc \in {"returned", "failed", "exited"}

(* A signal stops the server without the help of any client.                *)
SignalStops == HandlersReturn => (pending /\ pipe # "none" ~> Done)

(* A queued connection does not wait forever, while one worker is left.     *)
QueueProgress == HandlersReturn => \A c \in Conns : InBacklog(c) ~> ~InBacklog(c)

(* A connection that got its permit reaches a worker, even if the shutdown  *)
(* begins in between; only a failing serve drops it.                        *)
AcceptedIsServed ==
    HandlersReturn => \A c \in Conns :
        (held = c /\ mpc \in {"granted", "send"})
            ~> (mpc \in {"failed", "exited"} \/ \E w \in Workers : serving[w] = c)

(* A connection parked in send reaches an idle worker without any handler   *)
(* having to end: a slow client delays nobody while workers are free.       *)
HandOver ==
    (mpc = "send" /\ \E w \in Workers : wpc[w] \in {"spawned", "lock", "recv"})
        ~> mpc # "send"

(* A handler that runs on the main thread while it sleeps in poll, or comes *)
(* back from it, stops the server even without the self-pipe: "the caller   *)
(* then relies on EINTR alone" (src/signal.rs).                             *)
InterruptStops == HandlersReturn => ((handler[Main] = "store" /\ mpc \in {"polling", "check"}) ~> Done)

(* docs/superpowers/specs/2026-06-05-buffetcar-design.md:279: "connection   *)
(* reset, client disconnect — never crash the server"; of the errors of     *)
(* accept docs/superpowers/plans/2026-06-07-buffetcar-server-conn-sandbox.md *)
(* says at 871 that they "are transient and silent".                        *)
AcceptErrorsPass == [][mpc = "woken" => mpc' # "failed"]_vars

(* server.rs: "all workers have gone away": serve would break out of the    *)
(* loop, so a server without workers does not stay in send.                 *)
GoneWorkersEndServe ==
    (mpc = "send" /\ \A w \in Workers : wpc[w] = "dead") ~> mpc # "send"
===============================================================================
