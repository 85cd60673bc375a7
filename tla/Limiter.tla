------------------------------- MODULE Limiter --------------------------------
(***************************************************************************)
(* PerIpLimiter and ConnPermit (src/limiter.rs): a map from IP to the      *)
(* number of live permits, guarded by a mutex.  try_acquire and the drop   *)
(* of a permit are critical sections of that mutex, so each is one step.   *)
(* `counts` is the HashMap, a function whose domain is the set of keys;    *)
(* `permit` is the ghost of the Rust values: which place owns a permit.    *)
(***************************************************************************)
EXTENDS Naturals, FiniteSets

CONSTANTS Ips, NoIp, Slots, Cap

ASSUME SlotsAssumption == IsFiniteSet(Slots)
ASSUME NoIpAssumption  == NoIp \notin Ips
ASSUME CapAssumption   == Cap \in Nat \ {0}   \* config.rs accepts 1..workers+1

VARIABLES counts, permit
vars == <<counts, permit>>

InUse(ip) == {s \in Slots : permit[s] = ip}
-------------------------------------------------------------------------------
Init ==
    /\ counts = [ip \in {} |-> 0]
    /\ permit = [s \in Slots |-> NoIp]

\* The map without the key ip, and with ip bound to n.
Without(ip)  == [i \in DOMAIN counts \ {ip} |-> counts[i]]
With(ip, n)  == [i \in DOMAIN counts \cup {ip} |-> IF i = ip THEN n ELSE counts[i]]

\* entry(ip).or_insert(0): the value read; the insertion itself is With.
Count(ip) == IF ip \in DOMAIN counts THEN counts[ip] ELSE 0

\* Mutants of the operations below.
AcquireOffByOne(s, ip) ==
    /\ permit[s] = NoIp
    /\ Count(ip) <= Cap
    /\ counts' = With(ip, Count(ip) + 1)
    /\ permit' = [permit EXCEPT ![s] = ip]
DropKeepsKey(s) ==
    /\ permit[s] # NoIp
    /\ permit' = [permit EXCEPT ![s] = NoIp]
    /\ counts' = With(permit[s], counts[permit[s]] - 1)
DropRemovesKey(s) ==
    /\ permit[s] # NoIp
    /\ permit' = [permit EXCEPT ![s] = NoIp]
    /\ counts' = Without(permit[s])

\* try_acquire below the cap; the caller keeps the new permit in s.
Acquire(s, ip) ==
    /\ permit[s] = NoIp
    /\ Count(ip) < Cap
    /\ counts' = With(ip, Count(ip) + 1)
    /\ permit' = [permit EXCEPT ![s] = ip]

\* try_acquire at the cap: None, but entry() has inserted a missing key.
Refuse(ip) ==
    /\ Count(ip) >= Cap
    /\ counts' = With(ip, Count(ip))
    /\ UNCHANGED permit

\* The permit is a Rust value: sending it over the channel moves it.
Move(s, t) ==
    /\ permit[s] # NoIp
    /\ permit[t] = NoIp
    /\ permit' = [permit EXCEPT ![s] = NoIp, ![t] = permit[s]]
    /\ UNCHANGED counts

\* Drop: a missing key is reported in debug builds and ignored otherwise.
Drop(s) ==
    /\ permit[s] # NoIp
    /\ permit' = [permit EXCEPT ![s] = NoIp]
    /\ counts' = LET ip == permit[s] IN
                 IF ip \notin DOMAIN counts THEN counts
                 ELSE IF counts[ip] = 1 THEN Without(ip)
                 ELSE With(ip, counts[ip] - 1)

Next ==
    \/ \E s \in Slots, ip \in Ips : Acquire(s, ip)
    \/ \E ip \in Ips : Refuse(ip)
    \/ \E s, t \in Slots : Move(s, t)
    \/ \E s \in Slots : Drop(s)

Spec == Init /\ [][Next]_vars
-------------------------------------------------------------------------------
(* The keys are addresses, no count exceeds the cap, a place has one permit.*)
TypeOK ==
    /\ DOMAIN counts \subseteq Ips
    /\ \A ip \in DOMAIN counts : counts[ip] \in 0 .. Cap
    /\ permit \in [Slots -> Ips \cup {NoIp}]

(* The counter of an IP is the number of permits of that IP that are alive, *)
(* however acquisitions, moves and drops (also of unwinding threads) mix:   *)
(* no permit is leaked, none is counted twice, and the debug_assert in Drop *)
(* never fires.                                                             *)
CountsMatchPermits == \A ip \in Ips : Count(ip) = Cardinality(InUse(ip))

(* The map forgets an IP with its last permit: its size is bounded by the   *)
(* connections alive and not by the addresses ever seen.                    *)
NoStaleEntry == \A ip \in DOMAIN counts : InUse(ip) # {}

Inv == TypeOK /\ CountsMatchPermits /\ NoStaleEntry

(* The counting limiter implements the abstract pool of permits: an IP gets *)
(* a permit only while fewer than Cap of its permits are alive.             *)
Pool == INSTANCE PermitPool
PoolSpec == Pool!Spec
===============================================================================
