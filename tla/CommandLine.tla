----------------------------- MODULE CommandLine ------------------------------
(***************************************************************************)
(* cli::parse of src/cli.rs: the arguments of the process become a command *)
(* or one error line, with one argument, or one flag and its value, looked *)
(* at per step.  An argument is a string; those that are not UTF-8, and    *)
(* those that begin with two dashes and are no flag of the program, are    *)
(* sets of their own, because a string cannot be looked into.              *)
(***************************************************************************)
EXTENDS Integers, Sequences, FiniteSets

CONSTANTS Lines,         \* the command lines, without the program's name
          Arguments,     \* what they are made of
          UnknownFlags,  \* arguments that begin with -- and name no flag
          NotUtf8,       \* arguments that are not UTF-8
          None           \* of a flag that is not given

ServeFlags == {"--root", "--listen", "--workers", "--max-conns-per-ip", "--write-timeout"}
HelpFlags    == {"-h", "--help"}
VersionFlags == {"-V", "--version"}
Subcommands  == {"serve", "check"}

Dashed == ServeFlags \cup UnknownFlags \cup {"--help", "--version"}
Known  == ServeFlags \cup HelpFlags \cup VersionFlags \cup Subcommands \cup {"help", "version"}

ASSUME ArgumentsAssumption ==
    /\ None \notin Arguments
    /\ NotUtf8 \cap (Known \cup UnknownFlags) = {}
    /\ UnknownFlags \cap Known = {}
    /\ Lines \subseteq Seq(Arguments)

VARIABLES pc,         \* where run_with_io is; "exited" when the process is gone
          code,       \* its exit code
          error,      \* what its error line is about; "none", "killed" (by a signal)
                      \* and "panic" are ends without one
          args,       \* the arguments
          i,          \* those before the i-th have been looked at
          parsed,     \* the values of the flags: ServeArgs and CheckArgs
          selectors,  \* CheckArgs.selectors
          help        \* what is printed by a run that is asked for nothing else
commandLineVars == <<args, i, parsed, selectors, help>>

CommandLineInit ==
    /\ pc = "parse" /\ code = 0 /\ error = "none"
    /\ args \in Lines
    /\ i = 1
    /\ parsed = [f \in ServeFlags |-> None]
    /\ selectors = <<>>
    /\ help = "none"

First == IF args = <<>> THEN "" ELSE args[1]
Mentions(S) == \E k \in 1 .. Len(args) : args[k] \in S

Exit(c, e) == pc' = "exited" /\ code' = c /\ error' = e
-------------------------------------------------------------------------------
(* parse looks for a request for information before anything else.          *)

WantsVersion ==
    \/ First = "version"
    \/ First # "help" /\ Mentions(VersionFlags)

WantsHelp == ~WantsVersion /\ (args = <<>> \/ First = "help" \/ Mentions(HelpFlags))

\* infer_help_subcommand: a help flag among arguments of any shape.
Infer ==
    IF First \in Subcommands THEN First
    ELSE IF Mentions({"check"}) THEN "check"
    ELSE IF Mentions({"serve"}) \/ (Len(args) > 1 /\ Mentions(Dashed)) THEN "serve"
    ELSE "general"

Topic ==
    IF First # "help" THEN Infer
    ELSE IF Len(args) > 1 /\ args[2] \in Subcommands THEN args[2]
    ELSE "general"

Version ==
    /\ pc = "parse" /\ WantsVersion
    /\ help' = "version" /\ Exit(0, "none")
    /\ UNCHANGED <<args, i, parsed, selectors>>

Help ==
    /\ pc = "parse" /\ WantsHelp
    /\ help' = Topic /\ Exit(0, "none")
    /\ UNCHANGED <<args, i, parsed, selectors>>

\* serve is what a line without a subcommand means.
Mode == IF First = "check" THEN "check" ELSE "serve"
Begin == IF First \in Subcommands THEN 2 ELSE 1

Dispatch ==
    /\ pc = "parse" /\ ~WantsVersion /\ ~WantsHelp
    /\ pc' = Mode /\ i' = Begin
    /\ UNCHANGED <<code, error, args, parsed, selectors, help>>
-------------------------------------------------------------------------------
(* parse_serve and parse_check, one iteration of their loops at a time.     *)

Accepts(flags, k) ==
    /\ args[k] \in flags
    /\ k < Len(args)
    /\ args[k] = "--root" \/ args[k + 1] \notin NotUtf8

\* Mutant: the first value of a flag stays.
TakeFlagOnce(mode, flags) ==
    /\ pc = mode /\ i <= Len(args) /\ Accepts(flags, i)
    /\ parsed' = [parsed EXCEPT ![args[i]] = IF @ = None THEN args[i + 1] ELSE @]
    /\ i' = i + 2
    /\ UNCHANGED <<pc, code, error, args, selectors, help>>

\* take_value and take_utf8_value: the next argument, whatever it is.
TakeFlag(mode, flags) ==
    /\ pc = mode /\ i <= Len(args) /\ Accepts(flags, i)
    /\ parsed' = [parsed EXCEPT ![args[i]] = args[i + 1]]
    /\ i' = i + 2
    /\ UNCHANGED <<pc, code, error, args, selectors, help>>

TakeServeFlag == TakeFlag("serve", ServeFlags)
TakeCheckRoot == TakeFlag("check", {"--root"})

IsSelector(k) == args[k] \notin Dashed \cup NotUtf8

TakeSelector ==
    /\ pc = "check" /\ i <= Len(args) /\ IsSelector(i)
    /\ selectors' = Append(selectors, args[i])
    /\ i' = i + 1
    /\ UNCHANGED <<pc, code, error, args, parsed, help>>

\* An unknown flag, a flag without a value, a stray word, or not UTF-8.
RefuseArgument ==
    /\ i <= Len(args)
    /\ \/ pc = "serve" /\ ~Accepts(ServeFlags, i)
       \/ pc = "check" /\ ~Accepts({"--root"}, i) /\ ~IsSelector(i)
    /\ Exit(2, "arguments")
    /\ UNCHANGED commandLineVars

Parsed ==
    /\ pc \in {"serve", "check"} /\ i > Len(args)
    /\ pc' = "validate"
    /\ UNCHANGED <<code, error, commandLineVars>>

ParseNext ==
    \/ Version \/ Help \/ Dispatch \/ TakeServeFlag \/ TakeCheckRoot \/ TakeSelector
    \/ RefuseArgument \/ Parsed
===============================================================================
