---------------------------- MODULE LimiterProofs -----------------------------
(***************************************************************************)
(* Proofs about Limiter for any finite set of places, any set of addresses *)
(* and any positive cap.  Inv is inductive as it stands: the counter tells *)
(* how many permits are alive, so a key whose count drops to 0 is exactly  *)
(* a key whose last permit has gone.                                       *)
(***************************************************************************)
EXTENDS Limiter, FiniteSetTheorems, TLAPS

USE SlotsAssumption, NoIpAssumption, CapAssumption

\* The permits of an IP are finitely many: their number is a natural number.
LEMMA InUseFinite ==
    ASSUME NEW ip
    PROVE  IsFiniteSet(InUse(ip)) /\ Cardinality(InUse(ip)) \in Nat
<1>1. InUse(ip) \subseteq Slots
  BY DEF InUse
<1> QED BY <1>1, FS_Subset, FS_CardinalityType

\* An IP with no permit is one whose permits number 0.
LEMMA InUseEmpty ==
    ASSUME NEW ip
    PROVE  (InUse(ip) = {}) <=> (Cardinality(InUse(ip)) = 0)
BY InUseFinite, FS_EmptySet

\* A permit that appears in s adds one to its own IP and to no other.
LEMMA InUseAdd ==
    ASSUME TypeOK, NEW s \in Slots, NEW ip \in Ips, permit[s] = NoIp,
           permit' = [permit EXCEPT ![s] = ip]
    PROVE  /\ Cardinality(InUse(ip)') = Cardinality(InUse(ip)) + 1
           /\ \A i \in Ips \ {ip} : InUse(i)' = InUse(i)
<1>1. InUse(ip)' = InUse(ip) \cup {s} /\ s \notin InUse(ip)
  BY DEF InUse, TypeOK
<1>2. \A i \in Ips \ {ip} : InUse(i)' = InUse(i)
  BY DEF InUse, TypeOK
<1> QED BY <1>1, <1>2, InUseFinite, FS_AddElement

\* A permit that leaves s takes one from its own IP and from no other.
LEMMA InUseRemove ==
    ASSUME TypeOK, NEW s \in Slots, NEW ip \in Ips, permit[s] = ip,
           permit' = [permit EXCEPT ![s] = NoIp]
    PROVE  /\ Cardinality(InUse(ip)) \in Nat \ {0}
           /\ Cardinality(InUse(ip)') = Cardinality(InUse(ip)) - 1
           /\ \A i \in Ips \ {ip} : InUse(i)' = InUse(i)
<1>1. s \in InUse(ip) /\ InUse(ip)' = InUse(ip) \ {s}
  BY DEF InUse, TypeOK
<1>2. \A i \in Ips \ {ip} : InUse(i)' = InUse(i)
  BY DEF InUse, TypeOK
<1>3. Cardinality(InUse(ip)) # 0
  BY <1>1, InUseEmpty
<1>4. Cardinality(InUse(ip) \ {s}) = Cardinality(InUse(ip)) - 1
  BY <1>1, InUseFinite, FS_RemoveElement
<1> QED BY <1>1, <1>2, <1>3, <1>4, InUseFinite

\* Replacing one of two places of a permit by the other keeps its number.
LEMMA SwapElement ==
    ASSUME NEW A, IsFiniteSet(A), NEW x, NEW y, x \in A, y \notin A
    PROVE  Cardinality((A \ {x}) \cup {y}) = Cardinality(A)
<1>1. IsFiniteSet(A \ {x}) /\ Cardinality(A \ {x}) = Cardinality(A) - 1
  BY FS_RemoveElement
<1>2. Cardinality((A \ {x}) \cup {y}) = Cardinality(A \ {x}) + 1
  BY <1>1, FS_AddElement
<1>3. Cardinality(A) \in Nat
  BY FS_CardinalityType
<1> QED BY <1>1, <1>2, <1>3

\* A permit that moves is neither lost nor doubled, for any IP.
LEMMA InUseMove ==
    ASSUME TypeOK, NEW s \in Slots, NEW t \in Slots, Move(s, t)
    PROVE  \A i \in Ips : Cardinality(InUse(i)') = Cardinality(InUse(i))
<1>1. SUFFICES ASSUME NEW i \in Ips
               PROVE  Cardinality(InUse(i)') = Cardinality(InUse(i))
  OBVIOUS
<1>2. CASE i = permit[s]
  <2>1. /\ InUse(i)' = (InUse(i) \ {s}) \cup {t}
        /\ s \in InUse(i) /\ t \notin InUse(i)
    BY <1>2 DEF InUse, TypeOK, Move
  <2> QED BY <2>1, SwapElement, InUseFinite
<1>3. CASE i # permit[s]
  BY <1>3 DEF InUse, TypeOK, Move
<1> QED BY <1>2, <1>3

\* The values With and Without give the counters.
LEMMA CountWith ==
    ASSUME NEW ip \in Ips, NEW n, counts' = With(ip, n)
    PROVE  /\ DOMAIN counts' = DOMAIN counts \cup {ip}
           /\ \A i \in DOMAIN counts' : counts'[i] = IF i = ip THEN n ELSE counts[i]
           /\ \A i \in Ips : Count(i)' = IF i = ip THEN n ELSE Count(i)
BY DEF With, Count

LEMMA CountWithout ==
    ASSUME NEW ip \in Ips, counts' = Without(ip)
    PROVE  /\ DOMAIN counts' = DOMAIN counts \ {ip}
           /\ \A i \in DOMAIN counts' : counts'[i] = counts[i]
           /\ \A i \in Ips : Count(i)' = IF i = ip THEN 0 ELSE Count(i)
BY DEF Without, Count
-------------------------------------------------------------------------------
LEMMA InitInv == Init => Inv
<1> SUFFICES ASSUME Init PROVE Inv
  OBVIOUS
<1>1. \A ip \in Ips : InUse(ip) = {} /\ Count(ip) = 0
  BY DEF Init, InUse, Count
<1>2. TypeOK /\ NoStaleEntry
  BY DEF Init, TypeOK, NoStaleEntry
<1> QED BY <1>1, <1>2, FS_EmptySet DEF Inv, CountsMatchPermits

LEMMA AcquireInv ==
    ASSUME Inv, NEW s \in Slots, NEW ip \in Ips, Acquire(s, ip)
    PROVE  Inv'
<1> USE DEF Inv
<1>1. /\ Cardinality(InUse(ip)') = Cardinality(InUse(ip)) + 1
      /\ \A i \in Ips \ {ip} : InUse(i)' = InUse(i)
  BY InUseAdd DEF Acquire
<1>2. /\ DOMAIN counts' = DOMAIN counts \cup {ip}
      /\ \A i \in DOMAIN counts' :
             counts'[i] = IF i = ip THEN Count(ip) + 1 ELSE counts[i]
      /\ \A i \in Ips : Count(i)' = IF i = ip THEN Count(ip) + 1 ELSE Count(i)
  BY CountWith DEF Acquire
<1>3. Count(ip) \in Nat /\ Count(ip) + 1 \in 0 .. Cap
  BY DEF Acquire, Count, TypeOK
<1>4. TypeOK'
  BY <1>2, <1>3 DEF TypeOK, Acquire
<1>5. CountsMatchPermits'
  BY <1>1, <1>2 DEF CountsMatchPermits
<1>6. InUse(ip)' # {}
  BY DEF Acquire, InUse, TypeOK
<1>7. NoStaleEntry'
  BY <1>1, <1>2, <1>6, <1>4 DEF NoStaleEntry, TypeOK
<1> QED BY <1>4, <1>5, <1>7

LEMMA RefuseInv ==
    ASSUME Inv, NEW ip \in Ips, Refuse(ip)
    PROVE  Inv'
<1> USE DEF Inv
<1>1. \A i \in Ips : InUse(i)' = InUse(i)
  BY DEF InUse, Refuse
<1>2. ip \in DOMAIN counts
  BY DEF Refuse, Count
<1>3. DOMAIN counts' = DOMAIN counts /\ \A i \in DOMAIN counts : counts'[i] = counts[i]
  BY <1>2, CountWith DEF Refuse, Count
<1>4. TypeOK' /\ NoStaleEntry'
  BY <1>1, <1>3 DEF TypeOK, NoStaleEntry, Refuse
<1>5. CountsMatchPermits'
  BY <1>1, <1>3 DEF CountsMatchPermits, Count
<1> QED BY <1>4, <1>5

LEMMA MoveInv ==
    ASSUME Inv, NEW s \in Slots, NEW t \in Slots, Move(s, t)
    PROVE  Inv'
<1> USE DEF Inv
<1>1. TypeOK'
  BY DEF TypeOK, Move
<1>2. \A i \in Ips : Cardinality(InUse(i)') = Cardinality(InUse(i))
  BY InUseMove
<1>3. CountsMatchPermits'
  BY <1>2 DEF CountsMatchPermits, Count, Move
<1>4. \A i \in Ips : InUse(i) # {} => InUse(i)' # {}
  BY DEF InUse, Move, TypeOK
<1>5. NoStaleEntry'
  BY <1>4 DEF NoStaleEntry, Move, TypeOK
<1> QED BY <1>1, <1>3, <1>5

LEMMA DropInv ==
    ASSUME Inv, NEW s \in Slots, Drop(s)
    PROVE  Inv'
<1> USE DEF Inv
<1>0. PICK ip \in Ips : ip = permit[s]
  BY DEF Drop, TypeOK
<1>1. permit' = [permit EXCEPT ![s] = NoIp]
  BY DEF Drop
<1>2. /\ Cardinality(InUse(ip)) \in Nat \ {0}
      /\ Cardinality(InUse(ip)') = Cardinality(InUse(ip)) - 1
      /\ \A i \in Ips \ {ip} : InUse(i)' = InUse(i)
  BY <1>0, <1>1, InUseRemove
<1>3. Count(ip) = Cardinality(InUse(ip))
  BY DEF CountsMatchPermits
<1>4. ip \in DOMAIN counts /\ counts[ip] = Count(ip) /\ Count(ip) \in 1 .. Cap
  BY <1>2, <1>3 DEF Count, TypeOK
<1>5. CASE counts[ip] = 1
  <2>1. counts' = Without(ip)
    BY <1>0, <1>4, <1>5 DEF Drop
  <2>2. /\ DOMAIN counts' = DOMAIN counts \ {ip}
        /\ \A i \in DOMAIN counts' : counts'[i] = counts[i]
        /\ \A i \in Ips : Count(i)' = IF i = ip THEN 0 ELSE Count(i)
    BY <1>1, <2>1, CountWithout
  <2>3. TypeOK'
    BY <1>1, <2>2 DEF TypeOK
  <2>4. CountsMatchPermits'
    BY <1>2, <1>3, <1>4, <1>5, <2>2 DEF CountsMatchPermits
  <2>5. NoStaleEntry'
    BY <1>2, <2>2 DEF NoStaleEntry, TypeOK
  <2> QED BY <2>3, <2>4, <2>5
<1>6. CASE counts[ip] # 1
  <2>1. counts' = With(ip, counts[ip] - 1)
    BY <1>0, <1>4, <1>6 DEF Drop
  <2>2. /\ DOMAIN counts' = DOMAIN counts
        /\ \A i \in DOMAIN counts' :
               counts'[i] = IF i = ip THEN counts[ip] - 1 ELSE counts[i]
        /\ \A i \in Ips : Count(i)' = IF i = ip THEN counts[ip] - 1 ELSE Count(i)
    BY <1>1, <1>4, <2>1, CountWith
  <2>3. counts[ip] - 1 \in 1 .. Cap
    BY <1>4, <1>6
  <2>4. TypeOK'
    BY <1>1, <2>2, <2>3 DEF TypeOK
  <2>5. CountsMatchPermits'
    BY <1>2, <1>3, <1>4, <2>2 DEF CountsMatchPermits
  <2>6. Cardinality(InUse(ip)') # 0
    BY <1>2, <1>3, <1>4, <2>3
  <2>7. InUse(ip)' # {}
    BY <2>6, FS_EmptySet
  <2>8. NoStaleEntry'
    BY <1>2, <2>2, <2>7 DEF NoStaleEntry, TypeOK
  <2> QED BY <2>4, <2>5, <2>8
<1> QED BY <1>5, <1>6

LEMMA NextInv == Inv /\ [Next]_vars => Inv'
<1> SUFFICES ASSUME Inv, [Next]_vars PROVE Inv'
  OBVIOUS
<1>1. ASSUME NEW s \in Slots, NEW ip \in Ips, Acquire(s, ip) PROVE Inv'
  BY <1>1, AcquireInv
<1>2. ASSUME NEW ip \in Ips, Refuse(ip) PROVE Inv'
  BY <1>2, RefuseInv
<1>3. ASSUME NEW s \in Slots, NEW t \in Slots, Move(s, t) PROVE Inv'
  BY <1>3, MoveInv
<1>4. ASSUME NEW s \in Slots, Drop(s) PROVE Inv'
  BY <1>4, DropInv
<1>5. CASE UNCHANGED vars
  BY <1>5 DEF vars, Inv, TypeOK, CountsMatchPermits, NoStaleEntry, Count, InUse
<1> QED BY <1>1, <1>2, <1>3, <1>4, <1>5 DEF Next

(* The limiter's map always has the shape the code gives it: no count above *)
(* the cap (so the u32 never overflows) and one permit per place.           *)
THEOREM LimiterTypeOK == Spec => []TypeOK
<1>1. Inv => TypeOK
  BY DEF Inv
<1> QED BY InitInv, NextInv, <1>1, PTL DEF Spec

(* The count of an IP is the number of its permits alive, after any mix of  *)
(* try_acquire, moves and drops of src/limiter.rs by any number of threads. *)
THEOREM LimiterCountsMatch == Spec => []CountsMatchPermits
<1>1. Inv => CountsMatchPermits
  BY DEF Inv
<1> QED BY InitInv, NextInv, <1>1, PTL DEF Spec

(* The map keeps no key of an IP without a live permit.                     *)
THEOREM LimiterNoStaleEntry == Spec => []NoStaleEntry
<1>1. Inv => NoStaleEntry
  BY DEF Inv
<1> QED BY InitInv, NextInv, <1>1, PTL DEF Spec

(* Every step of the counting limiter is a step of the abstract pool.       *)
THEOREM LimiterImplementsPool == Spec => PoolSpec
<1>1. Init => Pool!Init
  BY DEF Init, Pool!Init
<1>2. ASSUME Inv, [Next]_vars PROVE [Pool!Next]_permit
  <2>1. ASSUME NEW s \in Slots, NEW ip \in Ips, Acquire(s, ip) PROVE Pool!Next
    <3>1. Cardinality(InUse(ip)) < Cap
      BY <1>2, <2>1 DEF Acquire, Inv, CountsMatchPermits
    <3>2. Pool!Acquire(s, ip)
      BY <2>1, <3>1 DEF Acquire, Pool!Acquire, InUse, Pool!InUse,
                         Cardinality, Pool!Cardinality
    <3> QED BY <3>2 DEF Pool!Next
  <2>2. ASSUME NEW ip \in Ips, Refuse(ip) PROVE UNCHANGED permit
    BY <2>2 DEF Refuse
  <2>3. ASSUME NEW s \in Slots, NEW t \in Slots, Move(s, t) PROVE Pool!Next
    BY <2>3 DEF Move, Pool!Next, Pool!Move
  <2>4. ASSUME NEW s \in Slots, Drop(s) PROVE Pool!Next
    BY <2>4 DEF Drop, Pool!Next, Pool!Drop
  <2> QED BY <1>2, <2>1, <2>2, <2>3, <2>4 DEF Next, vars
<1>3. Inv /\ [Next]_vars => [Pool!Next]_permit
  BY <1>2
<1> QED BY InitInv, NextInv, <1>1, <1>3, PTL DEF Spec, PoolSpec, Pool!Spec
===============================================================================
