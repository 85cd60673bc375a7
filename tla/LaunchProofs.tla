---------------------------- MODULE LaunchProofs -----------------------------
(***************************************************************************)
(* Proofs about Launch for any command lines, any values and any number of *)
(* signals and replacements.  Three invariants carry them: TypeOK, the     *)
(* stages of the start-up (Stages), and what the loops over the arguments  *)
(* have understood so far (Scanned).                                       *)
(***************************************************************************)
EXTENDS Launch, FiniteSetTheorems, TLAPS

(***************************************************************************)
(* Types, one group of variables at a time: an action disturbs one or two. *)
(***************************************************************************)
LEMMA InitTypeOK == Init => TypeOK
<1> SUFFICES ASSUME Init PROVE TypeOK
  OBVIOUS
<1> USE DEF Init, CommandLineInit, ConfigInit
<1>1. CommandTypeOK
  <2>1. args \in Seq(Arguments) /\ selectors \in Seq(Arguments)
    BY ArgumentsAssumption
  <2>2. parsed \in [ServeFlags -> Arguments \cup {None}] /\ i \in Nat \ {0}
    OBVIOUS
  <2> QED BY <2>1, <2>2 DEF CommandTypeOK
<1>2. RootTypeOK
  <2>1. replacements \in 0 .. MaxReplacements
    BY LaunchAssumption
  <2>2. platform \in Platforms /\ node \in Nodes /\ rootFd \in Dirs \cup {"elsewhere", "none"}
    BY DEF Nodes
  <2> QED BY <2>1, <2>2 DEF RootTypeOK
<1>3. ServeTypeOK
  BY DEF ServeTypeOK
<1>4. CheckTypeOK
  <2>1. verdicts \in Seq({"ok", "reject"})
    OBVIOUS
  <2> QED BY <2>1 DEF CheckTypeOK
<1>5. SignalTypeOK
  <2>1. signals \in 0 .. MaxSignals
    BY LaunchAssumption
  <2>2. ptr \in BOOLEAN /\ flag \in BOOLEAN /\ pipe \in {"none", "empty", "byte"}
        /\ installed \subseteq Signals
    OBVIOUS
  <2> QED BY <2>1, <2>2 DEF SignalTypeOK
<1> QED BY <1>1, <1>2, <1>3, <1>4, <1>5 DEF TypeOK

LEMMA CommandStep ==
    ASSUME CommandTypeOK, [Next]_vars
    PROVE  CommandTypeOK'
<1> USE DEF CommandTypeOK
<1>1. CASE Arguing
  <2>1. CASE Version \/ Help \/ RefuseArgument \/ Parsed
    BY <2>1 DEF Version, Help, RefuseArgument, Parsed, commandLineVars
  <2>2. CASE Dispatch
    BY <2>2 DEF Dispatch, Begin
  <2>3. ASSUME NEW mode, NEW flags \in SUBSET ServeFlags, TakeFlag(mode, flags)
        PROVE  CommandTypeOK'
    <3>1. args[i + 1] \in Arguments
      BY <2>3 DEF TakeFlag, Accepts
    <3>2. parsed' \in [ServeFlags -> Arguments \cup {None}]
      BY <2>3, <3>1 DEF TakeFlag
    <3>3. i' \in Nat \ {0} /\ UNCHANGED <<args, selectors>>
      BY <2>3 DEF TakeFlag
    <3> QED BY <3>2, <3>3
  <2>4. CASE TakeServeFlag \/ TakeCheckRoot
    BY <2>3, <2>4 DEF TakeServeFlag, TakeCheckRoot, ServeFlags
  <2>5. CASE TakeSelector
    BY <2>5 DEF TakeSelector
  <2> QED BY <1>1, <2>1, <2>2, <2>4, <2>5 DEF Arguing, ParseNext
<1>2. CASE Validating
  <2>1. ASSUME NEW n \in Nodes, Looks(n) PROVE CommandTypeOK'
    BY <2>1 DEF Looks
  <2> QED BY <1>2, <2>1 DEF Validating, ValidateNext, Validate, RefuseCommand
<1>3. CASE UNCHANGED commandLineVars
  BY <1>3 DEF commandLineVars
<1> QED
  BY <1>1, <1>2, <1>3
     DEF Next, Startup, Serving, Checking, World, Exited, vars, Keeps, OpenRoot,
         OpenRootFails, Bind, Listen, LocalAddr, BindFails, Unveil, Lock, Pledge,
         SandboxFails, StorePtr, CreateSelfPipe, Sigaction, WriteBanner, ServeReturns,
         ServeFails, SpawnPanics, Diagnose, DiagnoseFails, CheckReturns, Signal, Replace

LEMMA RootStep ==
    ASSUME RootTypeOK, [Next]_vars
    PROVE  RootTypeOK'
<1> USE DEF RootTypeOK
<1>1. ASSUME NEW n \in Nodes, Looks(n), UNCHANGED launchVars PROVE RootTypeOK'
  BY <1>1 DEF Looks, launchVars, rootVars
<1>2. CASE OpenRoot
  <2>1. rootFd' \in Dirs \cup {"elsewhere", "none"}
    BY <1>2 DEF OpenRoot, Names, IsDirectory
  <2> QED BY <1>2, <2>1 DEF OpenRoot, Keeps, configVars
<1>3. ASSUME NEW n \in Nodes, Replace(n) PROVE RootTypeOK'
  <2>1. replacements' \in 0 .. MaxReplacements
    BY <1>3, LaunchAssumption DEF Replace
  <2> QED BY <1>3, <2>1 DEF Replace
<1>4. CASE UNCHANGED rootVars /\ UNCHANGED configVars
  BY <1>4 DEF rootVars, configVars
<1> QED
  BY <1>1, <1>2, <1>3, <1>4
     DEF Next, Arguing, Validating, ValidateNext, Validate, RefuseCommand,
         Startup, Serving, Checking, World, Exited, vars, launchVars, Keeps,
         OpenRootFails, Bind, Listen, LocalAddr, BindFails, Unveil, Lock, Pledge,
         SandboxFails, StorePtr, CreateSelfPipe, Sigaction, WriteBanner, ServeReturns,
         ServeFails, SpawnPanics, Diagnose, DiagnoseFails, CheckReturns, Signal

LEMMA ServeStep ==
    ASSUME ServeTypeOK, [Next]_vars
    PROVE  ServeTypeOK'
<1> USE DEF ServeTypeOK, serveVars
<1>1. CASE Startup
  BY <1>1 DEF Startup, launchVars, OpenRoot, OpenRootFails, Bind, Listen, LocalAddr,
         BindFails, Unveil, Lock, Pledge, SandboxFails, StorePtr, CreateSelfPipe,
         Sigaction, WriteBanner
<1>2. CASE Serving
  BY <1>2 DEF Serving, ServeReturns, ServeFails, SpawnPanics
<1>3. ASSUME NEW s \in Signals, Signal(s) PROVE ServeTypeOK'
  BY <1>3 DEF Signal
<1>4. CASE UNCHANGED serveVars
  BY <1>4
<1> QED
  BY <1>1, <1>2, <1>3, <1>4
     DEF Next, Arguing, Validating, Checking, World, Exited, vars, launchVars,
         Diagnose, DiagnoseFails, CheckReturns, Replace

LEMMA SignalStep ==
    ASSUME SignalTypeOK, [Next]_vars
    PROVE  SignalTypeOK'
<1> USE DEF SignalTypeOK, signalVars
<1>1. CASE StorePtr \/ CreateSelfPipe \/ Sigaction
  BY <1>1 DEF StorePtr, CreateSelfPipe, Sigaction, Signals
<1>2. ASSUME NEW s \in Signals, Signal(s) PROVE SignalTypeOK'
  <2>1. signals' \in 0 .. MaxSignals
    BY <1>2, LaunchAssumption DEF Signal
  <2>2. pipe' \in {"none", "empty", "byte"}
    BY <1>2 DEF Signal
  <2>3. flag' \in BOOLEAN /\ ptr' \in BOOLEAN /\ installed' \subseteq Signals
    BY <1>2 DEF Signal
  <2> QED BY <2>1, <2>2, <2>3
<1>3. CASE UNCHANGED signalVars
  BY <1>3
<1> QED
  BY <1>1, <1>2, <1>3
     DEF Next, Arguing, Validating, Startup, Serving, Checking, World, Exited, vars,
         launchVars, OpenRoot, OpenRootFails, Bind, Listen, LocalAddr, BindFails, Unveil,
         Lock, Pledge, SandboxFails, WriteBanner, ServeReturns, ServeFails, SpawnPanics,
         Diagnose, DiagnoseFails, CheckReturns, Replace

LEMMA CheckStep ==
    ASSUME CheckTypeOK, [Next]_vars
    PROVE  CheckTypeOK'
<1> USE DEF CheckTypeOK, checkVars
<1>1. ASSUME NEW v \in {"ok", "reject"}, Diagnose(v) PROVE CheckTypeOK'
  <2>1. verdicts' \in Seq({"ok", "reject"})
    BY <1>1 DEF Diagnose
  <2> QED BY <1>1, <2>1 DEF Diagnose
<1>2. CASE UNCHANGED checkVars
  BY <1>2
<1> QED
  BY <1>1, <1>2
     DEF Next, Arguing, Validating, Startup, Serving, Checking, World, Exited, vars,
         launchVars, OpenRoot, OpenRootFails, Bind, Listen, LocalAddr, BindFails, Unveil,
         Lock, Pledge, SandboxFails, StorePtr, CreateSelfPipe, Sigaction, WriteBanner,
         ServeReturns, ServeFails, SpawnPanics, DiagnoseFails, CheckReturns, Signal,
         Replace

LEMMA PlaceStep ==
    ASSUME TypeOK, [Next]_vars
    PROVE  pc' \in {"parse", "serve", "check", "validate", "open", "bind", "listen",
               "local_addr", "unveil", "lock", "pledge", "install", "create_self_pipe",
               "sigaction", "banner", "serving", "diagnose", "exited"}
<1> USE DEF TypeOK, Goto, Exit
<1>1. CASE Arguing
  BY <1>1 DEF Arguing, ParseNext, Version, Help, Dispatch, Mode, TakeServeFlag,
         TakeCheckRoot, TakeFlag, TakeSelector, RefuseArgument, Parsed
<1>2. CASE Validating
  BY <1>2 DEF Validating, ValidateNext, Validate, RefuseCommand
<1>3. CASE Startup
  BY <1>3 DEF Startup, OpenRoot, OpenRootFails, Bind, Listen, LocalAddr, BindFails,
         Unveil, Lock, Pledge, SandboxFails, StorePtr, CreateSelfPipe, Sigaction,
         WriteBanner
<1>4. CASE Serving \/ Checking
  BY <1>4 DEF Serving, Checking, ServeReturns, ServeFails, SpawnPanics, Diagnose,
         DiagnoseFails, CheckReturns
<1>5. CASE World
  BY <1>5 DEF World, Signal, Replace
<1>6. CASE Exited \/ UNCHANGED vars
  BY <1>6 DEF Exited, vars
<1> QED BY <1>1, <1>2, <1>3, <1>4, <1>5, <1>6 DEF Next

LEMMA TypeOKStep ==
    ASSUME TypeOK, [Next]_vars
    PROVE  TypeOK'
BY CommandStep, RootStep, ServeStep, SignalStep, CheckStep, PlaceStep DEF TypeOK

(* For every command line and whatever fails, every variable of Launch has  *)
(* a value of its kind.                                                     *)
THEOREM LaunchTypeOK == Spec => []TypeOK
<1>1. Init => TypeOK
  BY InitTypeOK
<1>2. TypeOK /\ [Next]_vars => TypeOK'
  BY TypeOKStep
<1> QED BY <1>1, <1>2, PTL DEF Spec
-------------------------------------------------------------------------------
(***************************************************************************)
(* The stages of a run: what each point of the start-up may rely on.       *)
(***************************************************************************)
Understanding == {"parse", "serve", "check", "validate"}
Listens       == {"local_addr", "unveil", "lock", "pledge", "install", "create_self_pipe",
                  "sigaction", "banner", "serving"}
Binding       == {"bind", "listen"}
Sandboxed     == {"install", "create_self_pipe", "sigaction", "banner", "serving"}
Installing    == {"sigaction", "banner", "serving"}

ModeStage ==
    /\ pc \in Understanding => config.mode = "none"
    /\ pc \in Binding \cup Listens => config.mode = "serve"
    /\ pc = "open" => config.mode \in {"serve", "check"}
    /\ pc = "diagnose" => config.mode = "check"

SocketStage ==
    /\ listener = "listening" <=> pc \in Listens
    /\ listener = "bound" <=> pc = "listen"

BannerStage ==
    /\ platform = "openbsd" /\ pc \in {"lock", "pledge"} => sandbox # "off"
    /\ platform = "openbsd" /\ (pc \in Sandboxed \/ banner) => sandbox = "pledged"
    /\ banner => pc \in {"serving", "exited"} /\ installed = Signals

HandlerStage ==
    /\ installed \in {{}, {"TERM"}, Signals}
    /\ installed # {} => ptr /\ pc \in Installing \cup {"exited"}
    /\ pc \in {"create_self_pipe"} \cup Installing => ptr
    /\ pc \in {"banner", "serving"} => installed = Signals
    /\ installed = {} /\ pc # "exited" => signals = 0

ErrorStage ==
    /\ error # "none" => pc = "exited"
    /\ banner => error # "killed"

LEMMA ModeStep ==
    ASSUME TypeOK, ModeStage, [Next]_vars
    PROVE  ModeStage'
<1> USE DEF ModeStage, Understanding, Listens, Binding, Goto, Exit, Keeps, configVars
<1>1. CASE Arguing
  BY <1>1 DEF Arguing, ParseNext, Version, Help, Dispatch, Mode, TakeServeFlag,
         TakeCheckRoot, TakeFlag, TakeSelector, RefuseArgument, Parsed
<1>2. CASE Validating
  BY <1>2 DEF Validating, ValidateNext, Validate, RefuseCommand, Looks, ServeConfig,
         CheckConfig
<1>3. CASE Startup
  BY <1>3 DEF Startup, OpenRoot, OpenRootFails, Bind, Listen, LocalAddr, BindFails,
         Unveil, Lock, Pledge, SandboxFails, StorePtr, CreateSelfPipe, Sigaction,
         WriteBanner
<1>4. CASE Serving \/ Checking
  BY <1>4 DEF Serving, Checking, ServeReturns, ServeFails, SpawnPanics, Diagnose,
         DiagnoseFails, CheckReturns
<1>5. CASE World
  BY <1>5 DEF World, Signal, Replace
<1>6. CASE UNCHANGED vars
  BY <1>6 DEF vars
<1> QED BY <1>1, <1>2, <1>3, <1>4, <1>5, <1>6 DEF Next, Exited

LEMMA SocketStep ==
    ASSUME TypeOK, SocketStage, [Next]_vars
    PROVE  SocketStage'
<1> USE DEF SocketStage, Listens, Goto, Exit, launchVars, serveVars
<1>1. CASE Arguing
  BY <1>1 DEF Arguing, ParseNext, Version, Help, Dispatch, Mode, TakeServeFlag,
         TakeCheckRoot, TakeFlag, TakeSelector, RefuseArgument, Parsed
<1>2. CASE Validating
  BY <1>2 DEF Validating, ValidateNext, Validate, RefuseCommand, Looks
<1>3. CASE Startup
  BY <1>3 DEF Startup, OpenRoot, OpenRootFails, Bind, Listen, LocalAddr, BindFails,
         Unveil, Lock, Pledge, SandboxFails, StorePtr, CreateSelfPipe, Sigaction,
         WriteBanner
<1>4. CASE Serving \/ Checking
  BY <1>4 DEF Serving, Checking, ServeReturns, ServeFails, SpawnPanics, Diagnose,
         DiagnoseFails, CheckReturns
<1>5. CASE World
  BY <1>5 DEF World, Signal, Replace
<1>6. CASE UNCHANGED vars
  BY <1>6 DEF vars
<1> QED BY <1>1, <1>2, <1>3, <1>4, <1>5, <1>6 DEF Next, Exited

LEMMA HandlerStep ==
    ASSUME TypeOK, HandlerStage, [Next]_vars
    PROVE  HandlerStage'
<1> USE DEF HandlerStage, Installing, Signals, Goto, Exit, launchVars, signalVars
<1>1. CASE Arguing
  BY <1>1 DEF Arguing, ParseNext, Version, Help, Dispatch, Mode, TakeServeFlag,
         TakeCheckRoot, TakeFlag, TakeSelector, RefuseArgument, Parsed
<1>2. CASE Validating
  BY <1>2 DEF Validating, ValidateNext, Validate, RefuseCommand, Looks
<1>3. CASE Startup
  BY <1>3 DEF Startup, OpenRoot, OpenRootFails, Bind, Listen, LocalAddr, BindFails,
         Unveil, Lock, Pledge, SandboxFails, StorePtr, CreateSelfPipe, Sigaction,
         WriteBanner
<1>4. CASE Serving \/ Checking
  BY <1>4 DEF Serving, Checking, ServeReturns, ServeFails, SpawnPanics, Diagnose,
         DiagnoseFails, CheckReturns
<1>5. CASE World
  BY <1>5 DEF World, Signal, Replace
<1>6. CASE UNCHANGED vars
  BY <1>6 DEF vars
<1> QED BY <1>1, <1>2, <1>3, <1>4, <1>5, <1>6 DEF Next, Exited

LEMMA BannerStep ==
    ASSUME TypeOK, HandlerStage, BannerStage, [Next]_vars
    PROVE  BannerStage'
<1> USE DEF BannerStage, HandlerStage, Sandboxed, Installing, Goto, Exit, launchVars,
            rootVars, serveVars, signalVars
<1>1. CASE Arguing
  BY <1>1 DEF Arguing, ParseNext, Version, Help, Dispatch, Mode, TakeServeFlag,
         TakeCheckRoot, TakeFlag, TakeSelector, RefuseArgument, Parsed
<1>2. CASE Validating
  BY <1>2 DEF Validating, ValidateNext, Validate, RefuseCommand, Looks
<1>3. CASE Startup
  BY <1>3 DEF Startup, OpenRoot, OpenRootFails, Bind, Listen, LocalAddr, BindFails,
         Unveil, Lock, Pledge, SandboxFails, StorePtr, CreateSelfPipe, Sigaction,
         WriteBanner
<1>4. CASE Serving \/ Checking
  BY <1>4 DEF Serving, Checking, ServeReturns, ServeFails, SpawnPanics, Diagnose,
         DiagnoseFails, CheckReturns
<1>5. CASE World
  BY <1>5 DEF World, Signal, Replace
<1>6. CASE UNCHANGED vars
  BY <1>6 DEF vars
<1> QED BY <1>1, <1>2, <1>3, <1>4, <1>5, <1>6 DEF Next, Exited

LEMMA ErrorStep ==
    ASSUME TypeOK, HandlerStage, BannerStage, ErrorStage, [Next]_vars
    PROVE  ErrorStage'
<1> USE DEF BannerStage, ErrorStage, Goto, Exit, launchVars, serveVars
<1>1. CASE Arguing
  BY <1>1 DEF Arguing, ParseNext, Version, Help, Dispatch, Mode, TakeServeFlag,
         TakeCheckRoot, TakeFlag, TakeSelector, RefuseArgument, Parsed
<1>2. CASE Validating
  BY <1>2 DEF Validating, ValidateNext, Validate, RefuseCommand, Looks
<1>3. CASE Startup
  BY <1>3 DEF Startup, OpenRoot, OpenRootFails, Bind, Listen, LocalAddr, BindFails,
         Unveil, Lock, Pledge, SandboxFails, StorePtr, CreateSelfPipe, Sigaction,
         WriteBanner
<1>4. CASE Serving \/ Checking
  BY <1>4 DEF Serving, Checking, ServeReturns, ServeFails, SpawnPanics, Diagnose,
         DiagnoseFails, CheckReturns
<1>5. CASE World
  BY <1>5 DEF World, Signal, Replace
<1>6. CASE UNCHANGED vars
  BY <1>6 DEF vars
<1> QED BY <1>1, <1>2, <1>3, <1>4, <1>5, <1>6 DEF Next, Exited

\* The default action kills, so a signal that is survived found the handler.
LEMMA KeptStep ==
    ASSUME TypeOK, HandlerStage, SignalKept, [Next]_vars
    PROVE  SignalKept'
<1> USE DEF SignalKept, HandlerStage, Installing, Goto, Exit, launchVars, signalVars
<1>1. CASE Arguing
  BY <1>1 DEF Arguing, ParseNext, Version, Help, Dispatch, Mode, TakeServeFlag,
         TakeCheckRoot, TakeFlag, TakeSelector, RefuseArgument, Parsed
<1>2. CASE Validating
  BY <1>2 DEF Validating, ValidateNext, Validate, RefuseCommand, Looks
<1>3. CASE Startup
  BY <1>3 DEF Startup, OpenRoot, OpenRootFails, Bind, Listen, LocalAddr, BindFails,
         Unveil, Lock, Pledge, SandboxFails, StorePtr, CreateSelfPipe, Sigaction,
         WriteBanner
<1>4. CASE Serving \/ Checking
  BY <1>4 DEF Serving, Checking, ServeReturns, ServeFails, SpawnPanics, Diagnose,
         DiagnoseFails, CheckReturns
<1>5. CASE World
  BY <1>5 DEF World, Signal, Replace, TypeOK, SignalTypeOK
<1>6. CASE UNCHANGED vars
  BY <1>6 DEF vars
<1> QED BY <1>1, <1>2, <1>3, <1>4, <1>5, <1>6 DEF Next, Exited

-------------------------------------------------------------------------------
(***************************************************************************)
(* The configuration and the root.                                         *)
(***************************************************************************)
LEMMA AcceptedConfigSound ==
    ASSUME CommandTypeOK, NEW n, Validate(n)
    PROVE  ConfigSound'
<1>1. euid' # 0 /\ RootValid(n) /\ config' = IF Mode = "serve" THEN ServeConfig ELSE CheckConfig
  BY DEF Validate, Looks, CommandValid
<1>2. Normalized(normalize_root[parsed["--root"]])
  BY <1>1, PathsAssumption DEF RootValid, Normalized
<1>3. CASE Mode = "serve"
  <2>1. SettingsValid
    BY <1>3 DEF Validate, CommandValid
  <2>2. Workers \in 1 .. 1024
    BY <2>1 DEF SettingsValid, InRange, Workers, ValueOr, DefaultWorkers
  <2>3. PerIpDefault \in 1 .. (Workers + 1)
    BY <2>2 DEF PerIpDefault
  <2>4. ValueOr("--max-conns-per-ip", PerIpDefault) \in 1 .. (Workers + 1)
    BY <2>1, <2>3 DEF SettingsValid, InRange, ValueOr
  <2>5. ValueOr("--write-timeout", DefaultWriteTimeout) \in 1 .. 300
    BY <2>1 DEF SettingsValid, InRange, ValueOr, DefaultWriteTimeout
  <2>6. /\ config'.mode = "serve" /\ config'.root = normalize_root[parsed["--root"]]
        /\ config'.workers = Workers
        /\ config'.max_conns_per_ip = ValueOr("--max-conns-per-ip", PerIpDefault)
        /\ config'.write_timeout = ValueOr("--write-timeout", DefaultWriteTimeout)
    BY <1>1, <1>3 DEF ServeConfig
  <2>7. config'.max_conns_per_ip \in 1 .. (config'.workers + 1)
    BY <2>4, <2>6, Zenon
  <2>8. config'.workers \in 1 .. 1024 /\ config'.write_timeout \in 1 .. 300
    BY <2>2, <2>5, <2>6, SMT
  <2>9. Normalized(config.root)'
    BY <1>2, <2>6 DEF Normalized
  <2>10. euid' # 0 /\ config'.mode # "check"
    BY <1>1, <2>6
  <2> QED BY <2>7, <2>8, <2>9, <2>10, Zenon DEF ConfigSound
<1>4. CASE Mode # "serve"
  <2>1. selectors # <<>>
    BY <1>4 DEF Validate, CommandValid
  <2>2. /\ config'.mode = "check" /\ config'.root = normalize_root[parsed["--root"]]
        /\ config'.selectors = selectors
    BY <1>1, <1>4 DEF CheckConfig
  <2> QED BY <1>1, <1>2, <2>1, <2>2 DEF ConfigSound, Normalized
<1> QED BY <1>3, <1>4

LEMMA ConfigStep ==
    ASSUME TypeOK, ConfigSound, [Next]_vars
    PROVE  ConfigSound'
<1>1. ASSUME NEW n \in Nodes, Validate(n) PROVE ConfigSound'
  BY <1>1, AcceptedConfigSound DEF TypeOK
<1>2. CASE UNCHANGED <<config, euid>>
  BY <1>2 DEF ConfigSound, Normalized
<1>3. (\E n \in Nodes : Validate(n)) \/ UNCHANGED <<config, euid>>
  BY DEF Next, Arguing, Validating, ValidateNext, RefuseCommand, Looks, Startup, Serving,
         Checking, World, Exited, vars, configVars, Keeps, OpenRoot, OpenRootFails, Bind,
         Listen, LocalAddr, BindFails, Unveil, Lock, Pledge, SandboxFails, StorePtr,
         CreateSelfPipe, Sigaction, WriteBanner, ServeReturns, ServeFails, SpawnPanics,
         Diagnose, DiagnoseFails, CheckReturns, Signal, Replace
<1> QED BY <1>1, <1>2, <1>3

RootStage ==
    /\ rootFd # "none" => pc \notin Understanding \cup {"open"}
    /\ pc \in {"open"} \cup Binding \cup Listens \cup {"diagnose"} => Normalized(config.root)
    /\ pc \in Binding \cup Listens => rootFd # "none"
    /\ rootFd = "none" => unveiled = "none"

LEMMA RootStageStep ==
    ASSUME TypeOK, ConfigSound, RootStage, RootAsNamed, ModeStage, [Next]_vars
    PROVE  RootStage' /\ RootAsNamed'
<1> USE DEF RootStage, RootAsNamed, Understanding, Binding, Listens, Goto, Exit, Keeps,
            launchVars, rootVars, serveVars, configVars, Normalized
<1>1. CASE Arguing
  BY <1>1 DEF Arguing, ParseNext, Version, Help, Dispatch, Mode, TakeServeFlag,
         TakeCheckRoot, TakeFlag, TakeSelector, RefuseArgument, Parsed
<1>2. CASE Validating
  <2>1. ASSUME NEW n \in Nodes, RefuseCommand(n) PROVE RootStage' /\ RootAsNamed'
    BY <1>2, <2>1 DEF Validating, RefuseCommand, Looks
  <2>2. ASSUME NEW n \in Nodes, Validate(n) PROVE RootStage' /\ RootAsNamed'
    <3>1. ConfigSound'
      BY <2>2, AcceptedConfigSound DEF TypeOK
    <3>2. config'.mode \in {"serve", "check"}
      BY <2>2 DEF Validate, ServeConfig, CheckConfig
    <3> QED BY <1>2, <2>2, <3>1, <3>2 DEF Validating, Validate, Looks, ConfigSound
  <2> QED BY <1>2, <2>1, <2>2 DEF Validating, ValidateNext
<1>3. CASE OpenRoot
  <2>1. rootFd' = node /\ node \in Dirs
    BY <1>3 DEF OpenRoot, Names, IsDirectory, TypeOK, RootTypeOK, Nodes, Dirs
  <2> QED BY <1>3, <2>1 DEF OpenRoot, Dirs
<1>4. CASE Startup /\ ~OpenRoot
  BY <1>4 DEF Startup, OpenRootFails, Bind, Listen, LocalAddr, BindFails,
         Unveil, Lock, Pledge, SandboxFails, StorePtr, CreateSelfPipe, Sigaction,
         WriteBanner, TypeOK, RootTypeOK, Dirs
<1>5. CASE Serving \/ Checking
  BY <1>5 DEF Serving, Checking, ServeReturns, ServeFails, SpawnPanics, Diagnose,
         DiagnoseFails, CheckReturns
<1>6. ASSUME NEW s \in Signals, Signal(s) PROVE RootStage' /\ RootAsNamed'
  BY <1>6 DEF Signal
<1>7. ASSUME NEW n \in Nodes, Replace(n) PROVE RootStage' /\ RootAsNamed'
  <2>1. replacements' # 0
    BY <1>7, LaunchAssumption DEF Replace, TypeOK, RootTypeOK
  <2> QED BY <1>7, <2>1 DEF Replace
<1>8. CASE UNCHANGED vars
  BY <1>8 DEF vars
<1> QED BY <1>1, <1>2, <1>3, <1>4, <1>5, <1>6, <1>7, <1>8 DEF Next, World, Exited
-------------------------------------------------------------------------------
(***************************************************************************)
(* The exit code.                                                          *)
(***************************************************************************)
VerdictStage ==
    /\ all_ok <=> \A k \in 1 .. Len(verdicts) : verdicts[k] = "ok"
    /\ pc \in Understanding \cup {"open"} => verdicts = <<>>
    /\ config.mode = "check" =>
          config.selectors \in Seq(Arguments) /\ Len(verdicts) <= Len(config.selectors)

LEMMA VerdictStep ==
    ASSUME TypeOK, ModeStage, VerdictStage, [Next]_vars
    PROVE  VerdictStage'
<1> USE DEF VerdictStage, Understanding
<1>1. ASSUME NEW v \in {"ok", "reject"}, Diagnose(v) PROVE VerdictStage'
  <2>1. verdicts \in Seq({"ok", "reject"}) /\ all_ok \in BOOLEAN
    BY DEF TypeOK, CheckTypeOK
  <2>2. pc = "diagnose" /\ config.mode = "check" /\ UNCHANGED <<pc, config>>
    BY <1>1 DEF Diagnose, ModeStage, Keeps, configVars
  <2>3. /\ Len(verdicts') = Len(verdicts) + 1 /\ verdicts'[Len(verdicts) + 1] = v
        /\ \A k \in 1 .. Len(verdicts) : verdicts'[k] = verdicts[k]
    BY <1>1, <2>1 DEF Diagnose
  <2>4. Len(verdicts) \in Nat /\ 1 .. (Len(verdicts) + 1) = 1 .. Len(verdicts) \cup {Len(verdicts) + 1}
    BY <2>1
  <2>5. all_ok' <=> all_ok /\ v = "ok"
    BY <1>1 DEF Diagnose
  <2>6. all_ok' <=> \A k \in 1 .. Len(verdicts') : verdicts'[k] = "ok"
    BY <2>3, <2>4, <2>5
  <2>7. Len(verdicts') <= Len(config.selectors)
    BY <1>1, <2>1, <2>2, <2>3 DEF Diagnose, Left
  <2> QED BY <2>2, <2>6, <2>7
<1>2. CASE Validating
  <2>1. verdicts = <<>> /\ UNCHANGED <<verdicts, all_ok>>
    BY <1>2 DEF Validating, ValidateNext, Validate, RefuseCommand, Looks, launchVars, checkVars
  <2>2. config'.mode = "check" => config'.selectors \in Seq(Arguments) /\ Len(verdicts') <= Len(config'.selectors)
    <3>1. ASSUME NEW n \in Nodes, Validate(n), config'.mode = "check"
          PROVE  config'.selectors \in Seq(Arguments)
      BY <3>1 DEF Validate, ServeConfig, CheckConfig, TypeOK, CommandTypeOK
    <3>2. ASSUME NEW n \in Nodes, RefuseCommand(n), config'.mode = "check"
          PROVE  config'.selectors \in Seq(Arguments)
      BY <3>2 DEF RefuseCommand
    <3>3. config'.mode = "check" => config'.selectors \in Seq(Arguments)
      BY <1>2, <3>1, <3>2 DEF Validating, ValidateNext
    <3> QED BY <2>1, <3>3
  <2> QED BY <2>1, <2>2
<1>3. CASE UNCHANGED <<verdicts, all_ok, config>> /\ (pc' \in Understanding \cup {"open"} => pc \in Understanding \cup {"open"})
  BY <1>3
<1>4. \/ \E v \in {"ok", "reject"} : Diagnose(v)
      \/ Validating
      \/ /\ UNCHANGED <<verdicts, all_ok, config>>
         /\ pc' \in Understanding \cup {"open"} => pc \in Understanding \cup {"open"}
  <2> USE DEF Goto, Exit, Keeps, configVars, launchVars, checkVars
  <2>1. CASE Arguing
    BY <2>1 DEF Arguing, ParseNext, Version, Help, Dispatch, Mode, TakeServeFlag,
           TakeCheckRoot, TakeFlag, TakeSelector, RefuseArgument, Parsed
  <2>2. CASE Startup
    BY <2>2 DEF Startup, OpenRoot, OpenRootFails, Bind, Listen, LocalAddr, BindFails,
           Unveil, Lock, Pledge, SandboxFails, StorePtr, CreateSelfPipe, Sigaction,
           WriteBanner
  <2>3. CASE Serving \/ Checking
    BY <2>3 DEF Serving, Checking, ServeReturns, ServeFails, SpawnPanics, DiagnoseFails,
           CheckReturns
  <2>4. CASE World
    BY <2>4 DEF World, Signal, Replace
  <2>5. CASE UNCHANGED vars
    BY <2>5 DEF vars
  <2> QED BY <2>1, <2>2, <2>3, <2>4, <2>5 DEF Next, Exited
<1> QED BY <1>1, <1>2, <1>3, <1>4

LEMMA ExitStep ==
    ASSUME TypeOK, ModeStage, SocketStage, BannerStage, VerdictStage, ExitTells, [Next]_vars
    PROVE  ExitTells'
<1> USE DEF Exit, Goto, Keeps, configVars, launchVars, serveVars
<1>1. CASE CheckReturns
  <2>1. /\ pc = "diagnose" /\ config.mode = "check" /\ ~Left /\ pc' = "exited"
        /\ code' = (IF all_ok THEN 0 ELSE 1) /\ error' = "none"
        /\ UNCHANGED <<config, verdicts, all_ok>>
    BY <1>1 DEF CheckReturns, ModeStage, checkVars
  <2>2. Len(verdicts) = Len(config.selectors)
    <3>1. verdicts \in Seq({"ok", "reject"}) /\ config.selectors \in Seq(Arguments)
          /\ Len(verdicts) <= Len(config.selectors)
      BY <2>1 DEF VerdictStage, TypeOK, CheckTypeOK
    <3> QED BY <2>1, <3>1 DEF Left
  <2>3. ~all_ok => \E k \in 1 .. Len(verdicts) : verdicts[k] = "reject"
    <3>1. verdicts \in Seq({"ok", "reject"})
      BY DEF TypeOK, CheckTypeOK
    <3> QED BY <3>1 DEF VerdictStage
  <2>4. all_ok => \A k \in 1 .. Len(verdicts) : verdicts[k] = "ok"
    BY DEF VerdictStage
  <2> QED BY <2>1, <2>2, <2>3, <2>4 DEF ExitTells
<1>2. CASE Version \/ Help
  BY <1>2 DEF Version, Help, Topic, Infer, Subcommands, ExitTells
<1>3. CASE RefuseArgument /\ UNCHANGED launchVars
  BY <1>3 DEF RefuseArgument, ExitTells, BannerStage, SocketStage, Listens, TypeOK, ServeTypeOK
<1>4. ASSUME NEW n \in Nodes, RefuseCommand(n), UNCHANGED launchVars PROVE ExitTells'
  BY <1>4 DEF RefuseCommand, Looks, ExitTells, BannerStage, SocketStage, Listens, TypeOK, ServeTypeOK
<1>5. CASE OpenRootFails \/ DiagnoseFails
  BY <1>5 DEF OpenRootFails, DiagnoseFails, ExitTells, ModeStage, BannerStage, SocketStage, Listens,
         TypeOK, ServeTypeOK
<1>6. CASE BindFails \/ SandboxFails \/ ServeFails \/ SpawnPanics
  BY <1>6 DEF BindFails, SandboxFails, ServeFails, SpawnPanics, ExitTells, ModeStage, Binding, Listens
<1>7. CASE ServeReturns
  BY <1>7 DEF ServeReturns, ExitTells, ModeStage, Listens, signalVars
<1>8. ASSUME NEW s \in Signals, Signal(s) PROVE ExitTells'
  BY <1>8 DEF Signal, ExitTells, TypeOK
<1>9. CASE pc' # "exited"
  BY <1>9 DEF ExitTells
<1>10. CASE UNCHANGED vars
  BY <1>10 DEF ExitTells, vars, configVars, commandLineVars, launchVars, serveVars, checkVars, signalVars
<1> QED
  BY <1>1, <1>2, <1>3, <1>4, <1>5, <1>6, <1>7, <1>8, <1>9, <1>10
     DEF Next, Arguing, ParseNext, Validating, ValidateNext, Startup, Serving, Checking,
         World, Exited, Dispatch, Mode, TakeServeFlag, TakeCheckRoot, TakeFlag,
         TakeSelector, Parsed, Validate, OpenRoot, Bind, Listen, LocalAddr, Unveil, Lock,
         Pledge, StorePtr, CreateSelfPipe, Sigaction, WriteBanner, Diagnose, Replace

(***************************************************************************)
(* Together.                                                               *)
(***************************************************************************)
Stages ==
    /\ ModeStage /\ SocketStage /\ HandlerStage /\ BannerStage /\ ErrorStage
    /\ RootStage /\ VerdictStage

LaunchInv == TypeOK /\ Stages /\ ConfigSound /\ RootAsNamed /\ SignalKept /\ ExitTells

LEMMA InitLaunchInv == Init => LaunchInv
<1> SUFFICES ASSUME Init PROVE LaunchInv
  OBVIOUS
<1> USE DEF Init, CommandLineInit, ConfigInit, Understanding, Binding, Listens, Sandboxed, Installing
<1>1. TypeOK
  BY InitTypeOK
<1>2. ModeStage /\ SocketStage /\ HandlerStage /\ BannerStage /\ ErrorStage /\ RootStage
  BY DEF ModeStage, SocketStage, HandlerStage, BannerStage, ErrorStage, RootStage
<1>3. VerdictStage
  BY DEF VerdictStage
<1>4. ConfigSound /\ RootAsNamed /\ SignalKept /\ ExitTells
  BY DEF ConfigSound, RootAsNamed, SignalKept, ExitTells
<1> QED BY <1>1, <1>2, <1>3, <1>4 DEF LaunchInv, Stages

THEOREM LaunchInvariant == Spec => []LaunchInv
<1>1. Init => LaunchInv
  BY InitLaunchInv
<1>2. LaunchInv /\ [Next]_vars => LaunchInv'
  BY TypeOKStep, ModeStep, SocketStep, HandlerStep, BannerStep, ErrorStep, RootStageStep,
     VerdictStep, ConfigStep, KeptStep, ExitStep DEF LaunchInv, Stages
<1> QED BY <1>1, <1>2, PTL DEF Spec

-------------------------------------------------------------------------------
(***************************************************************************)
(* The loops over the arguments.  Before its i-th argument each loop has   *)
(* understood the ones before it, and stands where a flag may be: in check *)
(* the unbroken run of --root that ends before it, if any, is even.        *)
(***************************************************************************)
Seen == {k \in Positions : k < i}
FlagsSeen(f)  == {k \in Seen : Flagged(k) /\ args[k] = f}
SelectorsSeen == {k \in Seen : Positional(k)}

RunEven(n) ==
    \E j \in Begin .. n :
        /\ (n - j) % 2 = 0
        /\ \A m \in j .. (n - 1) : args[m] = "--root"
        /\ j = Begin \/ args[j - 1] # "--root"

AtFlag == IF Mode = "serve" THEN (i - Begin) % 2 = 0 ELSE RunEven(i)

ShapeSeen ==
    \A k \in Seen : (Flagged(k) => Accepts(ServeFlags, k)) /\ (Positional(k) => IsSelector(k))

ValuesSeen ==
    \A f \in ServeFlags :
        IF FlagsSeen(f) = {} THEN parsed[f] = None
        ELSE \E k \in FlagsSeen(f) : parsed[f] = args[k + 1] /\ \A m \in FlagsSeen(f) : m <= k

SelectorsKept ==
    /\ Len(selectors) = Cardinality(SelectorsSeen)
    /\ \A k \in SelectorsSeen :
          selectors[Cardinality({m \in SelectorsSeen : m <= k})] = args[k]

Scanned ==
    /\ pc = "parse" => parsed = [f \in ServeFlags |-> None] /\ selectors = <<>>
    /\ pc \in {"serve", "check"} =>
        /\ pc = Mode /\ i \in Begin .. (Len(args) + 1)
        /\ AtFlag /\ ShapeSeen /\ ValuesSeen /\ SelectorsKept

\* Two runs that end at the same place begin at the same place.
LEMMA EvenIsNoValue ==
    ASSUME NEW n \in Nat, RunEven(n)
    PROVE  ~IsValue(n)
<1> SUFFICES ASSUME IsValue(n) PROVE FALSE
  OBVIOUS
<1>0. Begin \in {1, 2}
  BY DEF Begin
<1>1. PICK j \in Begin .. n :
        /\ (n - j) % 2 = 0
        /\ \A m \in j .. (n - 1) : args[m] = "--root"
        /\ j = Begin \/ args[j - 1] # "--root"
  BY DEF RunEven
<1>2. PICK h \in Begin .. (n - 1) :
        /\ (n - h) % 2 = 1
        /\ \A m \in h .. (n - 1) : args[m] = "--root"
        /\ h = Begin \/ args[h - 1] # "--root"
  BY DEF IsValue
<1>3. CASE j < h
  <2>1. h - 1 \in j .. (n - 1) /\ h # Begin
    BY <1>0, <1>3
  <2> QED BY <2>1, <1>1, <1>2
<1>4. CASE h < j
  <2>1. j - 1 \in h .. (n - 1) /\ j # Begin
    BY <1>0, <1>4
  <2> QED BY <2>1, <1>1, <1>2
<1>5. CASE h = j
  BY <1>1, <1>2, <1>5
<1> QED BY <1>0, <1>3, <1>4, <1>5

LEMMA ArgsFixed ==
    ASSUME UNCHANGED args
    PROVE  /\ Mode' = Mode /\ Begin' = Begin /\ Positions' = Positions
           /\ \A k : Flagged(k)' = Flagged(k) /\ Positional(k)' = Positional(k)
           /\ \A k, flags : Accepts(flags, k)' = Accepts(flags, k)
           /\ \A k : IsSelector(k)' = IsSelector(k)
           /\ \A k : RunEven(k)' = RunEven(k)
BY DEF Mode, Begin, First, Positions, Flagged, Positional, IsValue, Accepts, IsSelector, RunEven

(* In serve the arguments are pairs: the one after a flag is no flag.       *)
LEMMA ServePair ==
    ASSUME Mode = "serve", i \in Nat, AtFlag
    PROVE  /\ Flagged(i) /\ ~Flagged(i + 1) /\ ((i + 2) - Begin) % 2 = 0
           /\ ~Positional(i) /\ ~Positional(i + 1)
<1>1. Begin \in {1, 2}
  BY DEF Begin
<1> QED BY <1>1 DEF Flagged, Positional, AtFlag

(* In check --root takes the argument after it, even another --root.        *)
LEMMA CheckPair ==
    ASSUME Mode = "check", i \in Nat, Begin <= i, AtFlag, args[i] = "--root"
    PROVE  /\ Flagged(i) /\ ~Flagged(i + 1) /\ ~Positional(i) /\ ~Positional(i + 1)
           /\ RunEven(i + 2)
<1>0. Begin \in {1, 2} /\ RunEven(i)
  BY DEF Begin, AtFlag
<1>1. ~IsValue(i)
  BY <1>0, EvenIsNoValue
<1>2. PICK j \in Begin .. i :
        /\ (i - j) % 2 = 0
        /\ \A m \in j .. (i - 1) : args[m] = "--root"
        /\ j = Begin \/ args[j - 1] # "--root"
  BY <1>0 DEF RunEven
<1>3. \A m \in j .. i : args[m] = "--root"
  <2> TAKE m \in j .. i
  <2>1. m = i \/ m \in j .. (i - 1)
    BY <1>0
  <2> QED BY <2>1, <1>2
<1>4. IsValue(i + 1)
  <2>1. j \in Begin .. ((i + 1) - 1) /\ ((i + 1) - j) % 2 = 1 /\ (i + 1) - 1 = i
    BY <1>0, <1>2
  <2> QED BY <2>1, <1>2, <1>3 DEF IsValue
<1>5. RunEven(i + 2)
  <2>1. CASE args[i + 1] = "--root"
    <3>1. \A m \in j .. ((i + 2) - 1) : args[m] = "--root"
      <4> TAKE m \in j .. ((i + 2) - 1)
      <4>1. m = i + 1 \/ m \in j .. i
        BY <1>0
      <4> QED BY <4>1, <1>3, <2>1
    <3>2. j \in Begin .. (i + 2) /\ ((i + 2) - j) % 2 = 0
      BY <1>0, <1>2
    <3> QED BY <3>1, <3>2, <1>2 DEF RunEven
  <2>2. CASE args[i + 1] # "--root"
    <3>1. /\ i + 2 \in Begin .. (i + 2) /\ ((i + 2) - (i + 2)) % 2 = 0
          /\ (i + 2) - 1 = i + 1 /\ (i + 2) .. ((i + 2) - 1) = {}
      BY <1>0
    <3> QED BY <3>1, <2>2 DEF RunEven
  <2> QED BY <2>1, <2>2
<1> QED BY <1>1, <1>4, <1>5 DEF Flagged, Positional

(* A flag and its value extend what has been understood by the flag alone.  *)
LEMMA PairScanned ==
    ASSUME CommandTypeOK, Begin <= i, ShapeSeen, ValuesSeen, SelectorsKept,
           Flagged(i), ~Flagged(i + 1), ~Positional(i), ~Positional(i + 1),
           Accepts(ServeFlags, i),
           parsed' = [parsed EXCEPT ![args[i]] = args[i + 1]],
           i' = i + 2, UNCHANGED <<args, selectors>>
    PROVE  /\ i' \in Begin .. (Len(args) + 1)
           /\ ShapeSeen' /\ ValuesSeen' /\ SelectorsKept'
<1>1. /\ i \in Nat /\ i < Len(args) /\ Len(args) \in Nat /\ Begin \in {1, 2}
      /\ args[i] \in ServeFlags
  BY DEF CommandTypeOK, Accepts, Begin
<1>2. Seen' = Seen \cup {i, i + 1}
  BY <1>1, ArgsFixed DEF Seen, Positions
<1>3. SelectorsSeen' = SelectorsSeen
  BY <1>2, ArgsFixed DEF SelectorsSeen
<1>4. \A f : FlagsSeen(f)' = FlagsSeen(f) \cup {k \in {i} : args[i] = f}
  BY <1>2, ArgsFixed DEF FlagsSeen
<1>5. ShapeSeen'
  BY <1>2, ArgsFixed DEF ShapeSeen
<1>6. SelectorsKept'
  BY <1>3 DEF SelectorsKept
<1>7. ValuesSeen'
  <2> SUFFICES ASSUME NEW f \in ServeFlags
               PROVE  IF FlagsSeen(f)' = {} THEN parsed'[f] = None
                      ELSE \E k \in FlagsSeen(f)' : /\ parsed'[f] = args[k + 1]
                                                    /\ \A m \in FlagsSeen(f)' : m <= k
    BY DEF ValuesSeen
  <2>1. CASE args[i] = f
    <3>1. parsed'[f] = args[i + 1]
      BY <1>1, <2>1 DEF CommandTypeOK
    <3>2. FlagsSeen(f)' = FlagsSeen(f) \cup {i}
      BY <1>4, <2>1
    <3>3. \A m \in FlagsSeen(f) : m <= i
      BY <1>1 DEF FlagsSeen, Seen, Positions
    <3>4. i \in FlagsSeen(f)' /\ \A m \in FlagsSeen(f)' : m <= i
      BY <1>1, <3>2, <3>3
    <3> QED BY <3>1, <3>4
  <2>2. CASE args[i] # f
    <3>1. parsed'[f] = parsed[f] /\ FlagsSeen(f)' = FlagsSeen(f)
      BY <1>4, <2>2 DEF CommandTypeOK
    <3> QED BY <3>1 DEF ValuesSeen
  <2> QED BY <2>1, <2>2
<1> QED BY <1>1, <1>5, <1>6, <1>7

(* A selector extends them by itself, as the last one.                      *)
LEMMA SelectorScanned ==
    ASSUME CommandTypeOK, Begin <= i, i <= Len(args), ShapeSeen, ValuesSeen, SelectorsKept,
           ~Flagged(i), Positional(i), IsSelector(i),
           selectors' = Append(selectors, args[i]),
           i' = i + 1, UNCHANGED <<args, parsed>>
    PROVE  /\ i' \in Begin .. (Len(args) + 1)
           /\ ShapeSeen' /\ ValuesSeen' /\ SelectorsKept'
<1>1. i \in Nat /\ Len(args) \in Nat /\ Begin \in {1, 2}
  BY DEF CommandTypeOK, Begin
<1>2. Seen' = Seen \cup {i}
  BY <1>1, ArgsFixed DEF Seen, Positions
<1>3. SelectorsSeen' = SelectorsSeen \cup {i}
  BY <1>2, ArgsFixed DEF SelectorsSeen
<1>4. \A f : FlagsSeen(f)' = FlagsSeen(f)
  BY <1>2, ArgsFixed DEF FlagsSeen
<1>5. ShapeSeen'
  BY <1>2, ArgsFixed DEF ShapeSeen
<1>6. ValuesSeen'
  BY <1>4 DEF ValuesSeen
<1>7. SelectorsKept'
  <2> DEFINE S == SelectorsSeen
  <2>1. IsFiniteSet(S) /\ i \notin S /\ \A k \in S : k \in Nat /\ k < i
    <3>1. IsFiniteSet(1 .. Len(args))
      BY <1>1, FS_Interval
    <3>2. S \subseteq 1 .. Len(args) /\ \A k \in S : k \in Nat /\ k < i
      BY <1>1 DEF SelectorsSeen, Seen, Positions
    <3>3. IsFiniteSet(S)
      BY <3>1, <3>2, FS_Subset
    <3>4. i \notin S
      BY <1>1, <3>2
    <3> QED BY <3>2, <3>3, <3>4
  <2> HIDE DEF S
  <2>2. Cardinality(S \cup {i}) = Cardinality(S) + 1 /\ Cardinality(S) \in Nat
    BY <2>1, FS_AddElement, FS_CardinalityType
  <2>3. /\ Len(selectors) = Cardinality(S)
        /\ \A k \in S : selectors[Cardinality({m \in S : m <= k})] = args[k]
    BY DEF SelectorsKept, S
  <2>4. /\ Len(selectors') = Len(selectors) + 1 /\ selectors'[Len(selectors) + 1] = args[i]
        /\ \A n \in 1 .. Len(selectors) : selectors'[n] = selectors[n]
    BY DEF CommandTypeOK
  <2>5. ASSUME NEW k \in S
        PROVE  selectors'[Cardinality({m \in S \cup {i} : m <= k})] = args[k]
    <3> DEFINE T == {m \in S : m <= k}
    <3>1. {m \in S \cup {i} : m <= k} = T
      BY <1>1, <2>1
    <3>2. T \subseteq S /\ T # {}
      BY <2>1
    <3> HIDE DEF T
    <3>3. Cardinality(T) \in 1 .. Cardinality(S)
      <4>1. IsFiniteSet(T) /\ Cardinality(T) <= Cardinality(S)
        BY <2>1, <3>2, FS_Subset
      <4>2. Cardinality(T) # 0 /\ Cardinality(T) \in Nat
        BY <3>2, <4>1, FS_EmptySet, FS_CardinalityType
      <4> QED BY <2>2, <4>1, <4>2
    <3>4. selectors[Cardinality(T)] = args[k]
      BY <2>3 DEF T
    <3> QED BY <2>3, <2>4, <3>1, <3>3, <3>4
  <2>6. selectors'[Cardinality({m \in S \cup {i} : m <= i})] = args[i]
    <3>1. {m \in S \cup {i} : m <= i} = S \cup {i}
      BY <1>1, <2>1
    <3> QED BY <2>2, <2>3, <2>4, <3>1
  <2>7. SelectorsSeen' = S \cup {i}
    BY <1>3 DEF S
  <2> QED BY <2>2, <2>3, <2>4, <2>5, <2>6, <2>7 DEF SelectorsKept
<1> QED BY <1>1, <1>5, <1>6, <1>7

\* Where a loop stands, a step later: the arguments are the same.
LEMMA StandsFixed ==
    ASSUME UNCHANGED args
    PROVE  AtFlag' <=> IF Mode = "serve" THEN (i' - Begin) % 2 = 0 ELSE RunEven(i')
BY DEF AtFlag, Mode, Begin, First, RunEven

\* Before the first argument nothing has been understood.
LEMMA ScanBegins ==
    ASSUME CommandTypeOK, Dispatch,
           parsed = [f \in ServeFlags |-> None], selectors = <<>>
    PROVE  Scanned'
<1>1. pc' = Mode /\ i' = Begin /\ UNCHANGED <<args, parsed, selectors>> /\ args # <<>>
  BY DEF Dispatch, WantsHelp
<1>2. Begin \in {1, 2} /\ Begin \in Begin .. (Len(args) + 1)
  <2>1. Len(args) \in Nat \ {0}
    BY <1>1 DEF CommandTypeOK
  <2> QED BY <2>1 DEF Begin
<1>3. Seen' = {}
  BY <1>1, <1>2, ArgsFixed DEF Seen, Positions
<1>4. RunEven(Begin)
  <2>1. Begin \in Begin .. Begin /\ (Begin - Begin) % 2 = 0 /\ Begin .. (Begin - 1) = {}
    BY <1>2
  <2> QED BY <2>1 DEF RunEven
<1>5. AtFlag'
  BY <1>1, <1>2, <1>4, StandsFixed
<1>6. ShapeSeen' /\ ValuesSeen'
  BY <1>1, <1>3 DEF ShapeSeen, ValuesSeen, FlagsSeen
<1>7. SelectorsKept'
  <2>1. SelectorsSeen' = {}
    BY <1>3 DEF SelectorsSeen
  <2> QED BY <1>1, <2>1, FS_EmptySet DEF SelectorsKept
<1>8. pc' # "parse" /\ pc' = Mode' /\ i' \in Begin' .. (Len(args') + 1)
  BY <1>1, <1>2, ArgsFixed DEF Mode
<1> QED BY <1>5, <1>6, <1>7, <1>8 DEF Scanned

LEMMA ScannedStep ==
    ASSUME TypeOK, Scanned, [Next]_vars
    PROVE  Scanned'
<1>1. CASE Dispatch
  BY <1>1, ScanBegins DEF Dispatch, Scanned, TypeOK
<1>2. CASE TakeServeFlag
  <2>1. /\ pc = "serve" /\ Mode = "serve" /\ Begin <= i /\ i \in Nat
        /\ AtFlag /\ ShapeSeen /\ ValuesSeen /\ SelectorsKept
    BY <1>2 DEF TakeServeFlag, TakeFlag, Scanned, TypeOK, CommandTypeOK, Begin
  <2>2. /\ Accepts(ServeFlags, i) /\ parsed' = [parsed EXCEPT ![args[i]] = args[i + 1]]
        /\ i' = i + 2 /\ UNCHANGED <<pc, args, selectors>>
    BY <1>2 DEF TakeServeFlag, TakeFlag
  <2>3. /\ i' \in Begin .. (Len(args) + 1) /\ ShapeSeen' /\ ValuesSeen' /\ SelectorsKept'
    BY <2>1, <2>2, ServePair, PairScanned DEF TypeOK
  <2>4. AtFlag'
    <3>1. ((i + 2) - Begin) % 2 = 0
      BY <2>1, ServePair
    <3>2. i' = i + 2
      BY <2>2
    <3>3. (i' - Begin) % 2 = 0
      BY <3>1, <3>2
    <3> QED BY <2>1, <2>2, <3>3, StandsFixed, Zenon
  <2>5. pc' = Mode' /\ i' \in Begin' .. (Len(args') + 1)
    BY <2>1, <2>2, <2>3, ArgsFixed
  <2> QED BY <2>1, <2>2, <2>3, <2>4, <2>5 DEF Scanned
<1>3. CASE TakeCheckRoot
  <2>1. /\ pc = "check" /\ Mode = "check" /\ Begin <= i /\ i \in Nat
        /\ AtFlag /\ ShapeSeen /\ ValuesSeen /\ SelectorsKept
    BY <1>3 DEF TakeCheckRoot, TakeFlag, Scanned, TypeOK, CommandTypeOK, Begin
  <2>2. /\ args[i] = "--root" /\ parsed' = [parsed EXCEPT ![args[i]] = args[i + 1]]
        /\ i' = i + 2 /\ UNCHANGED <<pc, args, selectors>>
    BY <1>3 DEF TakeCheckRoot, TakeFlag, Accepts
  <2>3. Accepts(ServeFlags, i)
    BY <1>3, <2>2 DEF TakeCheckRoot, TakeFlag, Accepts, ServeFlags
  <2>4. /\ i' \in Begin .. (Len(args) + 1) /\ ShapeSeen' /\ ValuesSeen' /\ SelectorsKept'
    BY <2>1, <2>2, <2>3, CheckPair, PairScanned DEF TypeOK
  <2>5. AtFlag'
    BY <2>1, <2>2, CheckPair, StandsFixed
  <2>6. pc' = Mode' /\ i' \in Begin' .. (Len(args') + 1)
    BY <2>1, <2>2, <2>4, ArgsFixed
  <2> QED BY <2>1, <2>2, <2>4, <2>5, <2>6 DEF Scanned
<1>4. CASE TakeSelector
  <2>1. /\ pc = "check" /\ Mode = "check" /\ Begin <= i /\ i <= Len(args) /\ i \in Nat
        /\ AtFlag /\ ShapeSeen /\ ValuesSeen /\ SelectorsKept /\ IsSelector(i)
    BY <1>4 DEF TakeSelector, Scanned, TypeOK, CommandTypeOK, Begin
  <2>2. /\ selectors' = Append(selectors, args[i]) /\ i' = i + 1
        /\ UNCHANGED <<pc, args, parsed>> /\ args[i] # "--root"
    BY <1>4 DEF TakeSelector, IsSelector, Dashed, ServeFlags
  <2>3. ~Flagged(i) /\ Positional(i)
    BY <2>1, <2>2, EvenIsNoValue DEF Flagged, Positional, AtFlag
  <2>4. /\ i' \in Begin .. (Len(args) + 1) /\ ShapeSeen' /\ ValuesSeen' /\ SelectorsKept'
    BY <2>1, <2>2, <2>3, SelectorScanned DEF TypeOK
  <2>5. RunEven(i + 1)
    <3>1. /\ i + 1 \in Begin .. (i + 1) /\ ((i + 1) - (i + 1)) % 2 = 0
          /\ (i + 1) - 1 = i /\ (i + 1) .. ((i + 1) - 1) = {}
      BY <2>1 DEF Begin
    <3> QED BY <2>2, <3>1 DEF RunEven
  <2>6. AtFlag'
    BY <2>1, <2>2, <2>5, StandsFixed
  <2>7. pc' = Mode' /\ i' \in Begin' .. (Len(args') + 1)
    BY <2>1, <2>2, <2>4, ArgsFixed
  <2> QED BY <2>1, <2>2, <2>4, <2>6, <2>7 DEF Scanned
<1>5. CASE pc' \notin {"parse", "serve", "check"}
  BY <1>5 DEF Scanned
<1>6. CASE UNCHANGED <<pc, args, i, parsed, selectors>>
  <2>1. Seen' = Seen /\ (AtFlag' <=> AtFlag)
    BY <1>6, ArgsFixed, StandsFixed DEF Seen, AtFlag
  <2>2. SelectorsSeen' = SelectorsSeen /\ \A f : FlagsSeen(f)' = FlagsSeen(f)
    BY <1>6, <2>1, ArgsFixed DEF SelectorsSeen, FlagsSeen
  <2>3. (ShapeSeen' <=> ShapeSeen) /\ (ValuesSeen' <=> ValuesSeen) /\ (SelectorsKept' <=> SelectorsKept)
    BY <1>6, <2>1, <2>2, ArgsFixed DEF ShapeSeen, ValuesSeen, SelectorsKept
  <2> QED BY <1>6, <2>1, <2>3, ArgsFixed DEF Scanned
<1>7. \/ Dispatch \/ TakeServeFlag \/ TakeCheckRoot \/ TakeSelector
      \/ pc' \notin {"parse", "serve", "check"}
      \/ UNCHANGED <<pc, args, i, parsed, selectors>>
  <2> USE DEF Goto, Exit, Keeps, commandLineVars
  <2>1. CASE Arguing
    BY <2>1 DEF Arguing, ParseNext, Version, Help, RefuseArgument, Parsed
  <2>2. CASE Validating
    BY <2>2 DEF Validating, ValidateNext, Validate, RefuseCommand
  <2>3. CASE Startup
    BY <2>3 DEF Startup, OpenRoot, OpenRootFails, Bind, Listen, LocalAddr, BindFails,
           Unveil, Lock, Pledge, SandboxFails, StorePtr, CreateSelfPipe, Sigaction,
           WriteBanner
  <2>4. CASE Serving \/ Checking
    BY <2>4 DEF Serving, Checking, ServeReturns, ServeFails, SpawnPanics, Diagnose,
           DiagnoseFails, CheckReturns
  <2>5. CASE World
    BY <2>5 DEF World, Signal, Replace
  <2>6. CASE UNCHANGED vars
    BY <2>6 DEF vars
  <2> QED BY <2>1, <2>2, <2>3, <2>4, <2>5, <2>6 DEF Next, Exited
<1> QED BY <1>1, <1>2, <1>3, <1>4, <1>5, <1>6, <1>7

LEMMA MeaningFixed ==
    ASSUME UNCHANGED <<args, parsed, selectors>>
    PROVE  /\ WellFormed' <=> WellFormed
           /\ ValuesAsGiven' <=> ValuesAsGiven
           /\ SelectorsAsGiven' <=> SelectorsAsGiven
<1>1. WellFormed' <=> WellFormed
  BY ArgsFixed DEF WellFormed
<1>2. ValuesAsGiven' <=> ValuesAsGiven
  BY ArgsFixed DEF ValuesAsGiven
<1>3. SelectorsAsGiven' <=> SelectorsAsGiven
  BY ArgsFixed DEF SelectorsAsGiven
<1> QED BY <1>1, <1>2, <1>3

LEMMA ParsedExactlyStep ==
    ASSUME TypeOK, ErrorStage, Scanned, ParsedExactly, [Next]_vars
    PROVE  ParsedExactly'
<1>1. CASE Parsed
  <2>1. /\ pc' = "validate" /\ UNCHANGED <<error, args, parsed, selectors>> /\ error = "none"
        /\ pc \in {"serve", "check"} /\ i > Len(args)
    BY <1>1 DEF Parsed, commandLineVars, ErrorStage
  <2>2. Seen = Positions
    BY <2>1 DEF Scanned, Seen, Positions, TypeOK, CommandTypeOK
  <2>3. WellFormed
    BY <2>1, <2>2 DEF Scanned, ShapeSeen, WellFormed
  <2>4. ValuesAsGiven
    BY <2>1, <2>2 DEF Scanned, ValuesSeen, FlagsSeen, ValuesAsGiven
  <2>5. SelectorsAsGiven
    BY <2>1, <2>2 DEF Scanned, SelectorsKept, SelectorsSeen, SelectorsAsGiven
  <2>6. WellFormed' /\ ValuesAsGiven' /\ SelectorsAsGiven'
    BY <2>1, <2>3, <2>4, <2>5, MeaningFixed
  <2> QED BY <2>1, <2>6 DEF ParsedExactly
<1>2. CASE RefuseArgument
  <2>1. /\ pc' = "exited" /\ UNCHANGED <<args, parsed, selectors>> /\ pc \in {"serve", "check"} /\ i <= Len(args)
        /\ pc = Mode /\ Begin <= i /\ i \in Nat /\ AtFlag /\ i \in Positions
    BY <1>2 DEF RefuseArgument, Exit, commandLineVars, Scanned, TypeOK, CommandTypeOK, Begin,
           Positions
  <2>2. ASSUME Mode = "serve" PROVE ~WellFormed
    <3>1. Flagged(i) /\ ~Accepts(ServeFlags, i)
      BY <1>2, <2>1, <2>2, ServePair DEF RefuseArgument
    <3> QED BY <2>1, <3>1 DEF WellFormed
  <2>3. ASSUME Mode = "check" PROVE ~WellFormed
    <3>1. ~Accepts({"--root"}, i) /\ ~IsSelector(i) /\ ~IsValue(i)
      BY <1>2, <2>1, <2>3, EvenIsNoValue DEF RefuseArgument, AtFlag
    <3>2. CASE args[i] = "--root"
      <4>1. Flagged(i) /\ ~Accepts(ServeFlags, i)
        BY <2>3, <3>1, <3>2 DEF Flagged, Accepts, ServeFlags
      <4> QED BY <2>1, <4>1 DEF WellFormed
    <3>3. CASE args[i] # "--root"
      BY <2>1, <2>3, <3>1, <3>3 DEF Positional, WellFormed
    <3> QED BY <3>2, <3>3
  <2>4. ~WellFormed
    BY <2>2, <2>3 DEF Mode
  <2>5. ~WellFormed'
    BY <2>1, <2>4, MeaningFixed
  <2> QED BY <2>1, <2>5 DEF ParsedExactly
<1>3. CASE pc' # "validate" /\ error' # "arguments"
  BY <1>3 DEF ParsedExactly
<1>4. CASE UNCHANGED <<pc, error, args, parsed, selectors>>
  BY <1>4, MeaningFixed DEF ParsedExactly
<1>5. \/ Parsed \/ RefuseArgument
      \/ pc' # "validate" /\ error' # "arguments"
      \/ UNCHANGED <<pc, error, args, parsed, selectors>>
  <2> USE DEF Goto, Exit, Keeps, commandLineVars, ErrorStage
  <2>1. CASE Arguing
    BY <2>1 DEF Arguing, ParseNext, Version, Help, Dispatch, Mode, TakeServeFlag,
           TakeCheckRoot, TakeFlag, TakeSelector
  <2>2. CASE Validating
    BY <2>2 DEF Validating, ValidateNext, Validate, RefuseCommand, Looks
  <2>3. CASE Startup
    BY <2>3 DEF Startup, OpenRoot, OpenRootFails, Bind, Listen, LocalAddr, BindFails,
           Unveil, Lock, Pledge, SandboxFails, StorePtr, CreateSelfPipe, Sigaction,
           WriteBanner
  <2>4. CASE Serving \/ Checking
    BY <2>4 DEF Serving, Checking, ServeReturns, ServeFails, SpawnPanics, Diagnose,
           DiagnoseFails, CheckReturns
  <2>5. CASE World
    BY <2>5 DEF World, Signal, Replace
  <2>6. CASE UNCHANGED vars
    BY <2>6 DEF vars
  <2> QED BY <2>1, <2>2, <2>3, <2>4, <2>5, <2>6 DEF Next, Exited
<1> QED BY <1>1, <1>2, <1>3, <1>4, <1>5

(***************************************************************************)
(* The theorems.                                                           *)
(***************************************************************************)
LEMMA ScannedAlways == Spec => [](Scanned /\ ParsedExactly)
<1>1. Init => Scanned /\ ParsedExactly
  BY DEF Init, CommandLineInit, Scanned, ParsedExactly
<1>2. LaunchInv /\ Scanned /\ ParsedExactly /\ [Next]_vars => (Scanned /\ ParsedExactly)'
  BY ScannedStep, ParsedExactlyStep DEF LaunchInv, Stages
<1> QED BY <1>1, <1>2, LaunchInvariant, PTL DEF Spec

(* For every command line: the parsing loops accept exactly the lines of    *)
(* the shape the usage text gives, and take each value and selector from    *)
(* its place.                                                               *)
THEOREM LaunchParsedExactly == Spec => []ParsedExactly
BY ScannedAlways, PTL

(* For every command and every value of its flags: a configuration that is  *)
(* accepted satisfies what Server and Conn assume of their constants.       *)
THEOREM LaunchConfigSound == Spec => []ConfigSound
BY LaunchInvariant, PTL DEF LaunchInv

(* However often the path is replaced, the root is never a directory behind *)
(* a symlink; and if it never is, it is what the path names, and unveiled.  *)
THEOREM LaunchRootAsNamed == Spec => []RootAsNamed
BY LaunchInvariant, PTL DEF LaunchInv

(* For any number of signals at any point of the start-up: one that is      *)
(* survived has set the flag, and its byte waits in the pipe.               *)
THEOREM LaunchSignalKept == Spec => []SignalKept
BY LaunchInvariant, PTL DEF LaunchInv

(* Whatever fails on the way: a banner that is out is true, until the end.  *)
THEOREM LaunchBannerTellsTruth == Spec => []BannerTellsTruth
<1>1. LaunchInv => BannerTellsTruth
  BY DEF LaunchInv, Stages, SocketStage, BannerStage, ErrorStage, BannerTellsTruth, Sandboxed, Listens
<1> QED BY <1>1, LaunchInvariant, PTL

(* For any number of selectors and verdicts the exit code and the error     *)
(* line tell what happened, unless a signal or a panic ended the process.   *)
THEOREM LaunchExitTells == Spec => []ExitTells
BY LaunchInvariant, PTL DEF LaunchInv
===============================================================================
