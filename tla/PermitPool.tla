------------------------------ MODULE PermitPool ------------------------------
(***************************************************************************)
(* What the per-IP connection limiter promises, with no counters: a permit *)
(* belongs to one IP and lives in one place, and a new permit is handed    *)
(* out only while fewer than Cap permits of that IP are alive.             *)
(***************************************************************************)
EXTENDS Naturals, FiniteSets

CONSTANTS Ips,    \* peer addresses
          NoIp,   \* marks a place that holds no permit
          Slots,  \* the places a permit can live in
          Cap     \* most live permits of one IP

VARIABLE permit   \* permit[s]: the IP of the permit living in s, or NoIp

InUse(ip) == {s \in Slots : permit[s] = ip}

Init == permit = [s \in Slots |-> NoIp]

Acquire(s, ip) ==
    /\ permit[s] = NoIp
    /\ Cardinality(InUse(ip)) < Cap
    /\ permit' = [permit EXCEPT ![s] = ip]

Move(s, t) ==
    /\ permit[s] # NoIp
    /\ permit[t] = NoIp
    /\ permit' = [permit EXCEPT ![s] = NoIp, ![t] = permit[s]]

Drop(s) ==
    /\ permit[s] # NoIp
    /\ permit' = [permit EXCEPT ![s] = NoIp]

Next == \E s \in Slots :
            \/ \E ip \in Ips : Acquire(s, ip)
            \/ \E t \in Slots : Move(s, t)
            \/ Drop(s)

Spec == Init /\ [][Next]_permit
===============================================================================
