-------------------------------- MODULE Service --------------------------------
(***************************************************************************)
(* What `serve` promises of connections, with no threads, channel, locks   *)
(* or permits.  They are taken from the kernel's queue one at a time and   *)
(* in order; one that is taken is refused or admitted, and is admitted     *)
(* only while fewer than Cap of its address and no more than Hands in all  *)
(* are open, so that with it at most Hands + 1 are.  The service stops     *)
(* taking connections only when asked to or when it fails, and has not     *)
(* come down before all it has admitted are closed.                        *)
(***************************************************************************)
EXTENDS Naturals, Sequences, FiniteSets

CONSTANTS Conns,     \* client connections
          Peer,      \* Peer[c]: the address c comes from
          Cap,       \* most open connections of one address
          Hands,     \* how many connections are handled at a time
          Backlog    \* most connections in the queue

VARIABLES queue,     \* connections that wait to be taken
          taken,     \* the one that is taken and not yet decided on, if any
          open,      \* the admitted connections that are not closed
          phase,     \* "up", "stopping", "down", "failed" or "ended"
          asked      \* the service has been asked to stop
vars == <<queue, taken, open, phase, asked>>

Init ==
    /\ queue = <<>> /\ taken = {} /\ open = {}
    /\ phase = "up" /\ asked = FALSE

\* A client connects; a connection is in one place only.
Arrive(c) ==
    /\ phase \in {"up", "stopping"} /\ Len(queue) < Backlog
    /\ c \notin taken \cup open /\ \A i \in DOMAIN queue : queue[i] # c
    /\ queue' = Append(queue, c)
    /\ UNCHANGED <<taken, open, phase, asked>>

\* A client gives up while it waits.
Vanish(i) ==
    /\ i \in DOMAIN queue
    /\ queue' = SubSeq(queue, 1, i - 1) \o SubSeq(queue, i + 1, Len(queue))
    /\ UNCHANGED <<taken, open, phase, asked>>

Take ==
    /\ phase = "up" /\ taken = {} /\ queue # <<>>
    /\ taken' = {Head(queue)}
    /\ queue' = Tail(queue)
    /\ UNCHANGED <<open, phase, asked>>

Admit(c) ==
    /\ c \in taken
    /\ Cardinality({d \in open : Peer[d] = Peer[c]}) < Cap
    /\ Cardinality(open) <= Hands
    /\ taken' = {}
    /\ open' = open \cup {c}
    /\ UNCHANGED <<queue, phase, asked>>

Refuse(c) ==
    /\ c \in taken
    /\ taken' = {}
    /\ UNCHANGED <<queue, open, phase, asked>>

Close(c) ==
    /\ c \in open
    /\ open' = open \ {c}
    /\ UNCHANGED <<queue, taken, phase, asked>>

Ask ==
    /\ asked' = TRUE
    /\ UNCHANGED <<queue, taken, open, phase>>

\* Nothing that was taken is left undecided, and nothing more is taken.
Stop ==
    /\ phase = "up" /\ asked /\ taken = {}
    /\ phase' = "stopping"
    /\ UNCHANGED <<queue, taken, open, asked>>

ComeDown ==
    /\ phase = "stopping" /\ open = {}
    /\ phase' = "down" /\ queue' = <<>>
    /\ UNCHANGED <<taken, open, asked>>

\* The service gives up, and may lose one connection that nobody handles yet.
Fail ==
    /\ phase = "up" /\ taken = {}
    /\ phase' = "failed" /\ queue' = <<>>
    /\ \/ open' = open
       \/ \E c \in open : open' = open \ {c}
    /\ UNCHANGED <<taken, asked>>

\* The process ends; after a failure it ends with whatever is open.
End ==
    /\ phase \in {"down", "failed"}
    /\ phase' = "ended" /\ open' = {}
    /\ UNCHANGED <<queue, taken, asked>>

Next ==
    \/ \E c \in Conns : Arrive(c) \/ Admit(c) \/ Refuse(c) \/ Close(c)
    \/ \E i \in 1 .. Backlog : Vanish(i)
    \/ Take \/ Ask \/ Stop \/ ComeDown \/ Fail \/ End

Spec == Init /\ [][Next]_vars
===============================================================================
