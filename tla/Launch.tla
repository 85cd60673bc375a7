-------------------------------- MODULE Launch --------------------------------
(***************************************************************************)
(* One process of buffetcar: run_with_io of src/lib.rs, from the arguments *)
(* to the exit code.  After CommandLine and Config come the start-up of    *)
(* serve (server::run, bind_with_backlog, sandbox::apply, signal::install) *)
(* or the loop of check::run over its selectors.  Every system call may    *)
(* fail; a signal may come, and what the path of the root names may        *)
(* change, between any two of them.                                        *)
(*                                                                         *)
(* server::serve is Server.tla, a single selector of check is Check.tla:   *)
(* here they are the outcomes they may have.                               *)
(***************************************************************************)
EXTENDS Config

CONSTANTS Platforms,        \* "openbsd", where there is a sandbox, or "other"
          MaxSignals,       \* bound: SIGTERM and SIGINT sent to the process
          MaxReplacements   \* bound: changes of what the path of the root names

ASSUME LaunchAssumption == MaxSignals \in Nat /\ MaxReplacements \in Nat

VARIABLES
    platform,
    rootFd,     \* the directory Root::open has opened
    listener,   \* the socket of bind_with_backlog
    unveiled, sandbox,        \* what sandbox::apply has done
    ptr, pipe, installed,     \* SHUTDOWN_PTR, the self-pipe, the sigactions
    flag,       \* the AtomicBool `shutdown`
    banner,     \* the banner is on standard error
    verdicts,   \* the lines check has printed
    all_ok,
    signals, replacements

rootVars   == <<platform, rootFd, replacements>>
serveVars  == <<listener, unveiled, sandbox, banner>>
signalVars == <<ptr, pipe, installed, flag, signals>>
checkVars  == <<verdicts, all_ok>>
launchVars == <<rootVars, serveVars, signalVars, checkVars>>
vars == <<pc, code, error, commandLineVars, configVars, launchVars>>

Signals == {"TERM", "INT"}

Init ==
    /\ CommandLineInit /\ ConfigInit
    /\ platform \in Platforms
    /\ rootFd = "none" /\ listener = "none" /\ unveiled = "none" /\ sandbox = "off"
    /\ ptr = FALSE /\ pipe = "none" /\ installed = {} /\ flag = FALSE
    /\ banner = FALSE
    /\ verdicts = <<>> /\ all_ok = TRUE
    /\ signals = 0 /\ replacements = 0

Goto(l) == pc' = l /\ UNCHANGED <<code, error>>
Keeps == UNCHANGED <<commandLineVars, configVars>>
-------------------------------------------------------------------------------
(* Root::open, for serve and check.                                         *)

\* Mutants of OpenRoot: without O_DIRECTORY, and without O_NOFOLLOW.
OpenAnything ==
    /\ pc = "open" /\ node \notin {"missing", "symlink"}
    /\ rootFd' = Names(config.root, node)
    /\ Goto(IF config.mode = "serve" THEN "bind" ELSE "diagnose")
    /\ Keeps /\ UNCHANGED <<platform, replacements, serveVars, signalVars, checkVars>>
OpenRootFollows ==
    /\ pc = "open" /\ node \in Dirs \cup {"symlink"}
    /\ rootFd' = IF node = "symlink" THEN "elsewhere" ELSE node
    /\ Goto(IF config.mode = "serve" THEN "bind" ELSE "diagnose")
    /\ Keeps /\ UNCHANGED <<platform, replacements, serveVars, signalVars, checkVars>>

\* O_NOFOLLOW and O_DIRECTORY look at what the path names now.
OpenRoot ==
    /\ pc = "open" /\ IsDirectory(Names(config.root, node))
    /\ rootFd' = Names(config.root, node)
    /\ Goto(IF config.mode = "serve" THEN "bind" ELSE "diagnose")
    /\ Keeps /\ UNCHANGED <<platform, replacements, serveVars, signalVars, checkVars>>

OpenRootFails ==
    /\ pc = "open"
    /\ Exit(IF config.mode = "serve" THEN 1 ELSE 2, "root")
    /\ Keeps /\ UNCHANGED launchVars

(* bind_with_backlog; an error on the way closes the socket.                *)
Bind ==
    /\ pc = "bind"
    /\ listener' = "bound" /\ Goto("listen")
    /\ Keeps /\ UNCHANGED <<rootVars, unveiled, sandbox, banner, signalVars, checkVars>>

Listen ==
    /\ pc = "listen"
    /\ listener' = "listening" /\ Goto("local_addr")
    /\ Keeps /\ UNCHANGED <<rootVars, unveiled, sandbox, banner, signalVars, checkVars>>

LocalAddr ==
    /\ pc = "local_addr"
    /\ Goto(IF platform = "openbsd" THEN "unveil" ELSE "install")
    /\ Keeps /\ UNCHANGED launchVars

BindFails ==
    /\ pc \in {"bind", "listen", "local_addr"}
    /\ listener' = "none" /\ Exit(1, "bind")
    /\ Keeps /\ UNCHANGED <<rootVars, unveiled, sandbox, banner, signalVars, checkVars>>

(* sandbox::apply on OpenBSD; unveil goes by the path, not by rootFd.       *)
Unveil ==
    /\ pc = "unveil" /\ node # "missing"
    /\ unveiled' = IF node = "symlink" THEN "elsewhere" ELSE node
    /\ sandbox' = "unveiled" /\ Goto("lock")
    /\ Keeps /\ UNCHANGED <<rootVars, listener, banner, signalVars, checkVars>>

Lock ==
    /\ pc = "lock"
    /\ sandbox' = "locked" /\ Goto("pledge")
    /\ Keeps /\ UNCHANGED <<rootVars, listener, unveiled, banner, signalVars, checkVars>>

Pledge ==
    /\ pc = "pledge"
    /\ sandbox' = "pledged" /\ Goto("install")
    /\ Keeps /\ UNCHANGED <<rootVars, listener, unveiled, banner, signalVars, checkVars>>

\* Mutant: a failed sandbox is passed over.
SandboxIgnored ==
    /\ pc \in {"unveil", "lock", "pledge"}
    /\ Goto("install")
    /\ Keeps /\ UNCHANGED launchVars

SandboxFails ==
    /\ pc \in {"unveil", "lock", "pledge"}
    /\ listener' = "none" /\ Exit(1, "sandbox")
    /\ Keeps /\ UNCHANGED <<rootVars, unveiled, sandbox, banner, signalVars, checkVars>>
-------------------------------------------------------------------------------
(* signal::install.  Nothing in it stops the start-up: without a pipe the   *)
(* accept loop has EINTR alone.                                             *)
PtrForgotten ==
    /\ pc = "install"
    /\ Goto("create_self_pipe")
    /\ Keeps /\ UNCHANGED launchVars

StorePtr ==
    /\ pc = "install"
    /\ ptr' = TRUE /\ Goto("create_self_pipe")
    /\ Keeps /\ UNCHANGED <<rootVars, serveVars, pipe, installed, flag, signals, checkVars>>

CreateSelfPipe ==
    /\ pc = "create_self_pipe"
    /\ pipe' \in {"none", "empty"} /\ Goto("sigaction")
    /\ Keeps /\ UNCHANGED <<rootVars, serveVars, ptr, installed, flag, signals, checkVars>>

\* Mutant: the handlers are there before the pointer and the pipe.
SigactionFirst ==
    /\ pc = "sigaction" \/ (pc = "install" /\ installed = {})
    /\ installed' = Signals
    /\ Goto(IF pc = "install" THEN "install" ELSE "banner")
    /\ Keeps /\ UNCHANGED <<rootVars, serveVars, ptr, pipe, flag, signals, checkVars>>

\* SIGTERM first, then SIGINT.
Sigaction ==
    /\ pc = "sigaction"
    /\ installed' = IF "TERM" \in installed THEN Signals ELSE {"TERM"}
    /\ Goto(IF "TERM" \in installed THEN "banner" ELSE "sigaction")
    /\ Keeps /\ UNCHANGED <<rootVars, serveVars, ptr, pipe, flag, signals, checkVars>>

\* What fails to be written is ignored.
WriteBanner ==
    /\ pc = "banner"
    /\ banner' \in BOOLEAN /\ Goto("serving")
    /\ Keeps /\ UNCHANGED <<rootVars, listener, unveiled, sandbox, signalVars, checkVars>>

\* serve returns Ok once the flag is set and the connections are drained ...
ServeReturns ==
    /\ pc = "serving" /\ flag
    /\ listener' = "none" /\ Exit(0, "none")
    /\ Keeps /\ UNCHANGED <<rootVars, unveiled, sandbox, banner, signalVars, checkVars>>

\* ... or an error ...
ServeFails ==
    /\ pc = "serving"
    /\ listener' = "none" /\ Exit(1, "serve")
    /\ Keeps /\ UNCHANGED <<rootVars, unveiled, sandbox, banner, signalVars, checkVars>>

\* ... or it panics, and prints no error line: thread::spawn does when there are no more threads.
SpawnPanics ==
    /\ pc = "serving"
    /\ listener' = "none" /\ Exit(101, "panic")
    /\ Keeps /\ UNCHANGED <<rootVars, unveiled, sandbox, banner, signalVars, checkVars>>
-------------------------------------------------------------------------------
(* check::run: a line for each selector.                                    *)
Left == Len(verdicts) < Len(config.selectors)

\* Mutant: the last selector decides.
DiagnoseLastCounts(verdict) ==
    /\ pc = "diagnose" /\ Left
    /\ verdicts' = Append(verdicts, verdict)
    /\ all_ok' = (verdict = "ok")
    /\ Keeps /\ UNCHANGED <<pc, code, error, rootVars, serveVars, signalVars>>

Diagnose(verdict) ==
    /\ pc = "diagnose" /\ Left
    /\ verdicts' = Append(verdicts, verdict)
    /\ all_ok' = (all_ok /\ verdict = "ok")
    /\ Keeps /\ UNCHANGED <<pc, code, error, rootVars, serveVars, signalVars>>

\* An I/O error of the walk, or of the output.
DiagnoseFails ==
    /\ pc = "diagnose" /\ Left
    /\ Exit(2, "check")
    /\ Keeps /\ UNCHANGED launchVars

CheckReturns ==
    /\ pc = "diagnose" /\ ~Left
    /\ Exit(IF all_ok THEN 0 ELSE 1, "none")
    /\ Keeps /\ UNCHANGED launchVars
-------------------------------------------------------------------------------
(* The world outside.                                                       *)

\* The default action ends the process, with a status for a code.  The handler, once it is there, does
\* what it can with what it finds, on the main thread and to its end.
Signal(s) ==
    /\ pc # "exited" /\ signals < MaxSignals
    /\ signals' = signals + 1
    /\ IF s \in installed
       THEN /\ flag' = (flag \/ ptr)
            /\ pipe' = IF pipe = "none" THEN "none" ELSE "byte"
            /\ UNCHANGED <<pc, code, error, listener>>
       ELSE /\ Exit(128, "killed") /\ listener' = "none"
            /\ UNCHANGED <<flag, pipe>>
    /\ Keeps
    /\ UNCHANGED <<rootVars, unveiled, sandbox, banner, ptr, installed, checkVars>>

\* Whoever may write the parent directory puts something else in its place.
Replace(n) ==
    /\ config.mode # "none" /\ pc # "exited" /\ node # n
    /\ replacements < MaxReplacements /\ replacements' = replacements + 1
    /\ node' = n
    /\ UNCHANGED <<pc, code, error, commandLineVars, config, euid, platform, rootFd,
                   serveVars, signalVars, checkVars>>
-------------------------------------------------------------------------------
Startup ==
    \/ OpenRoot \/ OpenRootFails \/ Bind \/ Listen \/ LocalAddr \/ BindFails
    \/ Unveil \/ Lock \/ Pledge \/ SandboxFails
    \/ StorePtr \/ CreateSelfPipe \/ Sigaction \/ WriteBanner

Serving == ServeReturns \/ ServeFails \/ SpawnPanics

Checking ==
    \/ \E v \in {"ok", "reject"} : Diagnose(v)
    \/ DiagnoseFails \/ CheckReturns

Arguing == ParseNext /\ UNCHANGED <<configVars, launchVars>>
Validating == ValidateNext /\ UNCHANGED launchVars

World == (\E s \in Signals : Signal(s)) \/ (\E n \in Nodes : Replace(n))

Exited == pc = "exited" /\ UNCHANGED vars

Next == Arguing \/ Validating \/ Startup \/ Serving \/ Checking \/ World \/ Exited

Spec == Init /\ [][Next]_vars

(* The process is scheduled and serve, once asked to stop, returns: that is *)
(* what SignalStops of Server says.                                         *)
FairSpec ==
    /\ Spec
    /\ WF_vars(Arguing \/ Validating \/ Startup \/ Checking)
    /\ WF_vars(ServeReturns)
-------------------------------------------------------------------------------
CommandTypeOK ==
    /\ args \in Seq(Arguments) /\ selectors \in Seq(Arguments)
    /\ i \in Nat \ {0}
    /\ parsed \in [ServeFlags -> Arguments \cup {None}]
RootTypeOK ==
    /\ platform \in Platforms /\ node \in Nodes
    /\ rootFd \in Dirs \cup {"elsewhere", "none"}
    /\ replacements \in 0 .. MaxReplacements
ServeTypeOK ==
    /\ listener \in {"none", "bound", "listening"}
    /\ sandbox \in {"off", "unveiled", "locked", "pledged"}
    /\ banner \in BOOLEAN
SignalTypeOK ==
    /\ ptr \in BOOLEAN /\ flag \in BOOLEAN
    /\ pipe \in {"none", "empty", "byte"} /\ installed \subseteq Signals
    /\ signals \in 0 .. MaxSignals
CheckTypeOK == verdicts \in Seq({"ok", "reject"}) /\ all_ok \in BOOLEAN

(* Every variable holds a value of its kind.                                *)
TypeOK ==
    /\ pc \in {"parse", "serve", "check", "validate", "open", "bind", "listen", "local_addr",
               "unveil", "lock", "pledge", "install", "create_self_pipe", "sigaction",
               "banner", "serving", "diagnose", "exited"}
    /\ CommandTypeOK /\ RootTypeOK /\ ServeTypeOK /\ SignalTypeOK /\ CheckTypeOK

\* The k-th argument is the value of the flag before it: of the unbroken run of
\* --root that ends there, every second one is a value itself.
IsValue(k) ==
    \E j \in Begin .. (k - 1) :
        /\ (k - j) % 2 = 1
        /\ \A m \in j .. (k - 1) : args[m] = "--root"
        /\ j = Begin \/ args[j - 1] # "--root"

\* The arguments that must be flags; and, of check, those that are selectors.
Flagged(k) ==
    IF Mode = "serve" THEN (k - Begin) % 2 = 0 ELSE ~IsValue(k) /\ args[k] = "--root"
Positional(k) == Mode = "check" /\ ~IsValue(k) /\ args[k] # "--root"

Positions == Begin .. Len(args)

WellFormed ==
    \A k \in Positions :
        /\ Flagged(k) => Accepts(ServeFlags, k)
        /\ Positional(k) => IsSelector(k)

\* Of a flag that is given twice the last value counts.
ValuesAsGiven ==
    \A f \in ServeFlags :
        LET given == {k \in Positions : Flagged(k) /\ args[k] = f} IN
        IF given = {} THEN parsed[f] = None
        ELSE \E k \in given : parsed[f] = args[k + 1] /\ \A m \in given : m <= k

SelectorsAsGiven ==
    LET given == {k \in Positions : Positional(k)} IN
    /\ Len(selectors) = Cardinality(given)
    /\ \A k \in given : selectors[Cardinality({m \in given : m <= k})] = args[k]

(* The loops over the arguments, which take some in pairs and, in check,    *)
(* some alone, mean what the usage text says: a line is refused only if it  *)
(* is not of its shape, and a line that is not refused gives each flag the  *)
(* last of its values and check its selectors in their order.               *)
ParsedExactly ==
    /\ pc = "validate" => WellFormed /\ ValuesAsGiven /\ SelectorsAsGiven
    /\ error = "arguments" => ~WellFormed

(* Whatever is left out and whatever is given, an accepted configuration is *)
(* one the server can work with: the assumptions of Server and Conn on      *)
(* their constants.  A default counts too (workers / 8 is 0 below 8).       *)
ConfigSound ==
    config.mode # "none" =>
        /\ euid # 0 /\ Normalized(config.root)
        /\ config.mode = "serve" =>
            /\ config.workers \in 1 .. 1024
            /\ config.max_conns_per_ip \in 1 .. (config.workers + 1)
            /\ config.write_timeout \in 1 .. 300
        /\ config.mode = "check" => config.selectors # <<>>

(* The root that is served is a directory the path itself names, never one  *)
(* behind a symlink, though the path is looked at twice and may have been   *)
(* replaced in between; and while nobody replaces it the sandbox shows that *)
(* directory and no other.                                                  *)
RootAsNamed ==
    /\ rootFd # "elsewhere"
    /\ replacements = 0 /\ rootFd # "none" =>
          rootFd = node /\ unveiled \in {"none", rootFd}

(* The banner is a readiness signal: from then on connections are queued,   *)
(* the sandbox is in force and a signal stops the server in good order; it  *)
(* does not kill it.                                                        *)
BannerTellsTruth ==
    banner =>
        /\ pc # "exited" => listener = "listening" /\ installed = Signals
        /\ platform = "openbsd" => sandbox = "pledged"
        /\ error # "killed"

(* No signal the process survives is lost: the flag is set and, if there is *)
(* a pipe, its byte waits for the first poll of serve (src/signal.rs: "the  *)
(* handler is a no-op until install stores a valid address").               *)
SignalKept ==
    pc # "exited" /\ signals > 0 => flag /\ pipe # "empty"

(* What the exit code of a process tells that neither a signal nor a panic  *)
(* ends: 0 is the end of a served server, or a yes to every selector, or    *)
(* information that was asked for; 1 of check is a no to one of them after  *)
(* a line for each; 2 comes before anything is served.  There is an error   *)
(* line if and only if the process failed: with 1 of check it did not.      *)
ExitTells ==
    pc = "exited" /\ error \notin {"killed", "panic"} =>
        /\ code = 0 =>
            \/ help # "none"
            \/ config.mode = "serve" /\ flag
            \/ /\ config.mode = "check" /\ Len(verdicts) = Len(config.selectors)
               /\ \A k \in 1 .. Len(verdicts) : verdicts[k] = "ok"
        /\ code = 1 /\ config.mode = "check" =>
            /\ Len(verdicts) = Len(config.selectors)
            /\ \E k \in 1 .. Len(verdicts) : verdicts[k] = "reject"
        /\ code = 2 => ~banner /\ listener = "none"
        /\ error = "none" <=> (code = 0 \/ (code = 1 /\ config.mode = "check"))

(* A signal ends the process, at whatever point of its start it comes.      *)
SignalEnds == signals > 0 ~> pc = "exited"
===============================================================================
