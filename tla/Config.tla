-------------------------------- MODULE Config --------------------------------
(***************************************************************************)
(* config::validate of src/config.rs: the command becomes a configuration, *)
(* or one error line.  The path of --root is looked at here for the first  *)
(* time; what it names is `node`, which others may change at any moment.   *)
(***************************************************************************)
EXTENDS CommandLine

CONSTANTS Absolute,   \* the arguments that are absolute paths
          normalize_root,  \* the path without a trailing slash, dots, double slashes
          Addresses,  \* the arguments that parse as a socket address
          Number      \* the arguments that parse as a number, and which

ASSUME PathsAssumption ==
    /\ normalize_root \in [Absolute -> Absolute]
    /\ \A p \in Absolute : normalize_root[normalize_root[p]] = normalize_root[p]
ASSUME NumberAssumption == Number \in [DOMAIN Number -> Nat]

DefaultListen       == "127.0.0.1:1900"
DefaultWorkers      == 128
DefaultWriteTimeout == 30

VARIABLES config,  \* the ServeConfig or CheckConfig
          node,    \* what the path names, since it was looked at
          euid     \* the effective user

configVars == <<config, node, euid>>

\* The path may name two directories in turn, a symlink to a third, a file.
Dirs  == {"root", "replacement"}
Nodes == Dirs \cup {"symlink", "file", "missing"}

\* A path that ends in a slash or a dot has the kernel follow the last link.
Normalized(p) == normalize_root[p] = p
Names(p, n)   == IF n = "symlink" /\ ~Normalized(p) THEN "elsewhere" ELSE n
IsDirectory(n) == n \in Dirs \cup {"elsewhere"}

ConfigInit == config = [mode |-> "none"] /\ node = "missing" /\ euid \in {0, 1}
-------------------------------------------------------------------------------
Given(f) == parsed[f] # None

\* validate_root, on a tree where the path names n.
RootValid(n) ==
    /\ Given("--root") /\ parsed["--root"] \in Absolute
    /\ IsDirectory(Names(normalize_root[parsed["--root"]], n))

\* parse_range.
InRange(f, low, high) ==
    Given(f) => parsed[f] \in DOMAIN Number /\ Number[parsed[f]] \in low .. high
ValueOr(f, default) == IF Given(f) THEN Number[parsed[f]] ELSE default

Workers == ValueOr("--workers", DefaultWorkers)

PerIpEighth  == Workers \div 8   \* mutant
PerIpDefault == IF Workers \div 8 > 1 THEN Workers \div 8 ELSE 1

SettingsValid ==
    /\ Given("--listen") => parsed["--listen"] \in Addresses
    /\ InRange("--workers", 1, 1024)
    /\ InRange("--max-conns-per-ip", 1, Workers + 1)
    /\ InRange("--write-timeout", 1, 300)

ServeConfig ==
    [mode |-> "serve", root |-> normalize_root[parsed["--root"]],
     listen |-> IF Given("--listen") THEN parsed["--listen"] ELSE DefaultListen,
     workers |-> Workers,
     max_conns_per_ip |-> ValueOr("--max-conns-per-ip", PerIpDefault),
     write_timeout |-> ValueOr("--write-timeout", DefaultWriteTimeout)]

CheckConfig ==
    [mode |-> "check", root |-> normalize_root[parsed["--root"]], selectors |-> selectors]

CommandValid(n) ==
    /\ RootValid(n)
    /\ IF Mode = "serve" THEN SettingsValid ELSE selectors # <<>>

\* validate looks at the file system once; the command is used up.
Looks(n) ==
    /\ pc = "validate"
    /\ node' = n
    /\ parsed' = [f \in ServeFlags |-> None] /\ selectors' = <<>> /\ args' = <<>> /\ i' = 1
    /\ UNCHANGED <<help, euid>>

Validate(n) ==
    /\ Looks(n)
    /\ CommandValid(n) /\ euid # 0
    /\ config' = IF Mode = "serve" THEN ServeConfig ELSE CheckConfig
    /\ pc' = "open"
    /\ UNCHANGED <<code, error>>

RefuseCommand(n) ==
    /\ Looks(n)
    /\ ~CommandValid(n) \/ euid = 0
    /\ Exit(2, "config")
    /\ UNCHANGED config

ValidateNext == \E n \in Nodes : Validate(n) \/ RefuseCommand(n)
===============================================================================
