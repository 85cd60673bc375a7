---------------------------- MODULE SelectorProofs ----------------------------
(***************************************************************************)
(* Proofs about Selector for any names, any bound on the bytes and any     *)
(* number of segments.  The invariant counts: the vector is as long as the *)
(* names seen outnumber the ".."s seen, and no segment seen so far is bad. *)
(***************************************************************************)
EXTENDS Selector, FiniteSetTheorems, SequenceTheorems, TLAPS

\* One more segment adds one to the count of the sets it is in.
LEMMA CountStep ==
    ASSUME NEW S, NEW k \in Nat
    PROVE  /\ Count(S, k) \in Nat
           /\ Count(S, k + 1) = IF segs[k + 1] \in S THEN Count(S, k) + 1 ELSE Count(S, k)
<1> DEFINE A == {j \in 1 .. k : segs[j] \in S}
           B == {j \in 1 .. k + 1 : segs[j] \in S}
<1>1. IsFiniteSet(A)
  <2>1. IsFiniteSet(1 .. k)
    BY FS_Interval
  <2> QED BY <2>1, FS_Subset
<1>2. Cardinality(A) \in Nat
  BY <1>1, FS_CardinalityType
<1>3. CASE segs[k + 1] \in S
  <2>1. B = A \cup {k + 1} /\ k + 1 \notin A
    BY <1>3
  <2>2. Cardinality(B) = Cardinality(A) + 1
    BY <2>1, <1>1, FS_AddElement
  <2> QED BY <2>2, <1>2, <1>3 DEF Count
<1>4. CASE segs[k + 1] \notin S
  <2>1. B = A
    BY <1>4
  <2> QED BY <2>1, <1>2, <1>4 DEF Count
<1> QED BY <1>3, <1>4

LEMMA CountZero == \A S : Count(S, 0) = 0
<1>1. ASSUME NEW S PROVE Count(S, 0) = 0
  <2>1. {j \in 1 .. 0 : segs[j] \in S} = {}
    OBVIOUS
  <2> QED BY <2>1, FS_EmptySet DEF Count
<1> QED BY <1>1

\* The counts and the badness of a segment depend on the selector alone.
LEMMA InputKept ==
    ASSUME UNCHANGED input
    PROVE  /\ \A S, k : Count(S, k)' = Count(S, k)
           /\ \A k : Bad(k)' <=> Bad(k)
           /\ Oversized' <=> Oversized
           /\ LeftCrs' = LeftCrs
<1>1. \A S, k : Count(S, k)' = Count(S, k)
  BY DEF input, Count
<1>2. \A k : Bad(k)' <=> Bad(k)
  BY DEF input, Bad, Count
<1>3. LeftCrs' = LeftCrs
  BY DEF input, LeftCrs
<1>4. Size' = Size
  BY <1>3 DEF input, Size
<1>5. Oversized' <=> Oversized
  BY <1>4 DEF Oversized
<1> QED BY <1>1, <1>2, <1>3, <1>5
-------------------------------------------------------------------------------
LEMMA InitTypeOK == Init => TypeOK
<1> SUFFICES ASSUME Init PROVE TypeOK
  OBVIOUS
<1>1. PICK n \in 1 .. MaxSegments : segs \in [1 .. n -> Segment]
  BY DEF Init
<1>2. n \in Nat /\ segs \in Seq(Segment) /\ Len(segs) = n
  BY <1>1, BoundsAssumption, SeqDef
<1>3. <<>> \in Seq(Names)
  BY EmptySeq
<1> QED BY <1>2, <1>3 DEF Init, TypeOK

\* front of a non-empty sequence
LEMMA FrontType ==
    ASSUME NEW s \in Seq(Names), s # <<>>
    PROVE  Front(s) \in Seq(Names) /\ Len(Front(s)) + 1 = Len(s)
<1> DEFINE n == Len(s)
<1>1. n \in Nat /\ n # 0 /\ \A k \in 1 .. n : s[k] \in Names
  BY EmptySeq, LenProperties
<1>2. n - 1 \in Int /\ 1 <= n
  BY <1>1
<1>3. \A k \in 1 .. n - 1 : s[k] \in Names
  BY <1>1
<1>4. SubSeq(s, 1, n - 1) \in Seq(Names)
  BY <1>2, <1>3, SubSeqProperties
<1>5. Len(SubSeq(s, 1, n - 1)) = IF 1 <= n - 1 THEN (n - 1) - 1 + 1 ELSE 0
  <2> HIDE DEF n
  <2> QED BY <1>2, <1>3, SubSeqProperties
<1>6. Front(s) = SubSeq(s, 1, n - 1)
  BY DEF Front
<1>7. (IF 1 <= n - 1 THEN (n - 1) - 1 + 1 ELSE 0) + 1 = n
  <2> HIDE DEF n
  <2> QED BY <1>1, <1>2
<1> QED BY <1>4, <1>5, <1>6, <1>7

LEMMA TypeOKStep ==
    ASSUME TypeOK, [Next]_vars
    PROVE  TypeOK'
<1> USE DEF TypeOK, input
<1>0. Len(segs) \in Nat
  BY LenProperties
<1>1. CASE TooLong
  BY <1>1 DEF TooLong
<1>2. CASE Nul
  BY <1>2 DEF Nul
<1>3. CASE Split
  BY <1>3 DEF Split
<1>4. CASE Skip
  <2>1. i < Len(segs) /\ i' = i + 1 /\ UNCHANGED <<segs, crs, nul, components, result>>
    BY <1>4, Zenon DEF Skip
  <2> QED BY <1>0, <2>1
<1>5. CASE Pop
  <2>1. components' \in Seq(Names)
    BY <1>5, FrontType DEF Pop
  <2> QED BY <1>0, <1>5, <2>1 DEF Pop
<1>6. CASE EscapesRoot
  BY <1>6 DEF EscapesRoot
<1>7. CASE DotfileComponent
  BY <1>7 DEF DotfileComponent
<1>8. CASE Push
  <2>1. components' \in Seq(Names)
    BY <1>8, AppendProperties DEF Push
  <2> QED BY <1>0, <1>8, <2>1 DEF Push
<1>9. CASE Accept
  BY <1>9 DEF Accept
<1>10. CASE UNCHANGED vars
  BY <1>10 DEF vars
<1> QED BY <1>1, <1>2, <1>3, <1>4, <1>5, <1>6, <1>7, <1>8, <1>9, <1>10 DEF Next

(* The vector parse returns is made of normal names only, so the resolver   *)
(* that walks it never opens "..", "." or a dotfile.                        *)
THEOREM SelectorTypeOK == Spec => []TypeOK
BY InitTypeOK, TypeOKStep, PTL DEF Spec
-------------------------------------------------------------------------------
\* The vector is as long as the names outnumber the ".."s, and nothing bad has
\* been passed.
Counted ==
    /\ result = "check" => i = 0
    /\ Len(components) + Count({".."}, i) = Count(Names, i)
    /\ \A k \in 1 .. i : ~Bad(k)

IInv == TypeOK /\ Counted /\ RejectedExactly

LEMMA InitIInv == Init => IInv
<1> SUFFICES ASSUME Init PROVE IInv
  OBVIOUS
<1>1. i = 0 /\ result = "check" /\ Len(components) = 0
  BY EmptySeq DEF Init
<1>2. Counted
  BY <1>1, CountZero DEF Counted
<1>3. RejectedExactly
  BY <1>1 DEF RejectedExactly
<1> QED BY InitTypeOK, <1>2, <1>3 DEF IInv

\* What the next segment does to the counts, by its kind.
LEMMA NextSegment ==
    ASSUME TypeOK, Counted, i < Len(segs)
    PROVE  /\ Raw \in {"", "."} => /\ Count(Names, i + 1) = Count(Names, i)
                                   /\ Count({".."}, i + 1) = Count({".."}, i)
                                   /\ ~Bad(i + 1)
           /\ Raw \in Names => /\ Count(Names, i + 1) = Count(Names, i) + 1
                               /\ Count({".."}, i + 1) = Count({".."}, i)
                               /\ ~Bad(i + 1)
           /\ Raw = ".." => /\ Count(Names, i + 1) = Count(Names, i)
                            /\ Count({".."}, i + 1) = Count({".."}, i) + 1
                            /\ Raw \notin Hidden
                            /\ Bad(i + 1) <=> Len(components) = 0
           /\ Raw \in Hidden => Bad(i + 1)
<1> DEFINE n == Count(Names, i)
           d == Count({".."}, i)
           n1 == Count(Names, i + 1)
           d1 == Count({".."}, i + 1)
           l == Len(components)
<1>1. i \in Nat /\ l \in Nat
  BY LenProperties DEF TypeOK
<1>2. /\ n \in Nat /\ n1 = IF Raw \in Names THEN n + 1 ELSE n
      /\ d \in Nat /\ d1 = IF Raw \in {".."} THEN d + 1 ELSE d
  BY <1>1, CountStep DEF Raw
<1>3. l + d = n
  BY DEF Counted
<1>4. Bad(i + 1) <=> Raw \in Hidden \/ n1 < d1
  BY DEF Bad, Raw
<1>5. /\ Raw \in {"", "."} => Raw \notin Names /\ Raw \notin {".."} /\ Raw \notin Hidden
      /\ Raw \in Names => Raw \notin {".."} /\ Raw \notin Hidden
      /\ Raw = ".." => Raw \notin Names /\ Raw \in {".."} /\ Raw \notin Hidden
  BY NamesAssumption
<1> HIDE DEF n, d, n1, d1, l
<1>6. ASSUME Raw \in {"", "."}
      PROVE  n1 = n /\ d1 = d /\ ~Bad(i + 1)
  <2>1. n1 = n /\ d1 = d /\ Raw \notin Hidden
    BY <1>2, <1>5, <1>6, Zenon
  <2>2. ~(n < d)
    BY <1>1, <1>2, <1>3
  <2> QED BY <1>4, <2>1, <2>2
<1>7. ASSUME Raw \in Names
      PROVE  n1 = n + 1 /\ d1 = d /\ ~Bad(i + 1)
  <2>1. n1 = n + 1 /\ d1 = d /\ Raw \notin Hidden
    BY <1>2, <1>5, <1>7, Zenon
  <2>2. ~(n + 1 < d)
    BY <1>1, <1>2, <1>3
  <2> QED BY <1>4, <2>1, <2>2
<1>8. ASSUME Raw = ".."
      PROVE  n1 = n /\ d1 = d + 1 /\ Raw \notin Hidden /\ (Bad(i + 1) <=> l = 0)
  <2>1. n1 = n /\ d1 = d + 1 /\ Raw \notin Hidden
    BY <1>2, <1>5, <1>8, Zenon
  <2>2. n < d + 1 <=> l = 0
    BY <1>1, <1>2, <1>3
  <2> QED BY <1>4, <2>1, <2>2
<1>9. Raw \in Hidden => Bad(i + 1)
  BY <1>4
<1> QED BY <1>6, <1>7, <1>8, <1>9 DEF n, d, n1, d1, l

\* A step that looks at one good segment.
LEMMA CountedAdvance ==
    ASSUME TypeOK, Counted, i < Len(segs), i' = i + 1, UNCHANGED input,
           ~Bad(i + 1), result' # "check",
           Len(components') + Count({".."}, i + 1) = Count(Names, i + 1)
    PROVE  Counted'
<1>1. i \in Nat
  BY DEF TypeOK
<1>2. Count(Names, i)' = Count(Names, i + 1) /\ Count({".."}, i)' = Count({".."}, i + 1)
  BY DEF Count, input
<1>3. \A k \in 1 .. i + 1 : ~Bad(k)
  BY <1>1 DEF Counted
<1>4. (\A k \in 1 .. i : ~Bad(k))'
  BY <1>3, InputKept
<1> QED BY <1>2, <1>4 DEF Counted

LEMMA CountedStay ==
    ASSUME Counted, result' # "check", i' = i, components' = components, UNCHANGED input
    PROVE  Counted'
<1>1. Count(Names, i)' = Count(Names, i) /\ Count({".."}, i)' = Count({".."}, i)
  BY DEF Count, input
<1>2. (\A k \in 1 .. i : ~Bad(k))'
  BY InputKept DEF Counted
<1> QED BY <1>1, <1>2 DEF Counted

LEMMA CountedStep ==
    ASSUME TypeOK, Counted, [Next]_vars
    PROVE  Counted'
<1>1. CASE TooLong \/ Nul \/ Split \/ EscapesRoot \/ DotfileComponent \/ Accept
  <2>1. /\ result' # "check" /\ i' = i /\ components' = components /\ UNCHANGED input
    BY <1>1, Zenon DEF TooLong, Nul, Split, EscapesRoot, DotfileComponent, Accept, input
  <2> QED BY <2>1, CountedStay
<1>2. CASE Skip
  <2>1. /\ i < Len(segs) /\ i' = i + 1 /\ UNCHANGED input /\ components' = components
        /\ result' = result /\ result = "split" /\ Raw \in {"", "."}
    BY <1>2, Zenon DEF Skip, input
  <2>2. Len(components') + Count({".."}, i + 1) = Count(Names, i + 1)
    BY <2>1, NextSegment DEF Counted
  <2> QED BY <2>1, <2>2, NextSegment, CountedAdvance
<1>3. CASE Pop
  <2>1. /\ i < Len(segs) /\ i' = i + 1 /\ UNCHANGED input /\ components' = Front(components)
        /\ result' = result /\ result = "split" /\ Raw = ".." /\ components # <<>>
    BY <1>3, Zenon DEF Pop, input
  <2>2. components \in Seq(Names) /\ i \in Nat
    BY DEF TypeOK
  <2>3. Len(components') + 1 = Len(components) /\ Len(components') \in Nat
    BY <2>1, <2>2, FrontType, LenProperties
  <2>4. Count({".."}, i) \in Nat
    BY <2>2, CountStep
  <2>5. Len(components') + Count({".."}, i + 1) = Count(Names, i + 1)
    BY <2>1, <2>3, <2>4, NextSegment DEF Counted
  <2>6. Len(components) # 0
    BY <2>3
  <2> QED BY <2>1, <2>5, <2>6, NextSegment, CountedAdvance
<1>4. CASE Push
  <2>1. /\ i < Len(segs) /\ i' = i + 1 /\ UNCHANGED input
        /\ components' = Append(components, Raw)
        /\ result' = result /\ result = "split" /\ Raw \in Names
    BY <1>4, Zenon DEF Push, input
  <2>2. components \in Seq(Names) /\ i \in Nat
    BY DEF TypeOK
  <2>3. Len(components') = Len(components) + 1 /\ Len(components) \in Nat
    BY <2>1, <2>2, AppendProperties, LenProperties
  <2>4. Count({".."}, i) \in Nat
    BY <2>2, CountStep
  <2>5. /\ Count(Names, i + 1) = Count(Names, i) + 1
        /\ Count({".."}, i + 1) = Count({".."}, i)
        /\ Len(components) + Count({".."}, i) = Count(Names, i)
    BY <2>1, NextSegment, Zenon DEF Counted
  <2>6. Len(components') + Count({".."}, i + 1) = Count(Names, i + 1)
    BY <2>3, <2>4, <2>5
  <2> QED BY <2>1, <2>6, NextSegment, CountedAdvance
<1>5. CASE UNCHANGED vars
  BY <1>5, InputKept DEF vars, input, Counted, Count
<1> QED BY <1>1, <1>2, <1>3, <1>4, <1>5 DEF Next

LEMMA RejectedExactlyStep ==
    ASSUME TypeOK, Counted, RejectedExactly, [Next]_vars
    PROVE  RejectedExactly'
<1>1. CASE TooLong
  BY <1>1, InputKept DEF TooLong, RejectedExactly, input
<1>2. CASE Nul
  BY <1>2, InputKept DEF Nul, RejectedExactly, input
<1>3. CASE Split
  BY <1>3, InputKept DEF Split, RejectedExactly, input
<1>4. CASE Skip \/ Pop \/ Push
  <2>1. UNCHANGED input /\ result' = result /\ result = "split"
    BY <1>4, Zenon DEF Skip, Pop, Push, input
  <2> QED BY <2>1, InputKept DEF RejectedExactly, input
<1>5. CASE EscapesRoot
  <2>1. /\ UNCHANGED input /\ i' = i /\ result' = "EscapesRoot" /\ result = "split"
        /\ i < Len(segs) /\ Raw = ".." /\ components = <<>>
    BY <1>5, Zenon DEF EscapesRoot, input
  <2>2. Bad(i + 1) /\ segs[i + 1] \notin Hidden
    BY <2>1, NextSegment, EmptySeq DEF Raw
  <2>3. \A k \in 1 .. i : ~Bad(k)
    BY DEF Counted
  <2> QED BY <2>1, <2>2, <2>3, InputKept DEF RejectedExactly, input
<1>6. CASE DotfileComponent
  <2>1. /\ UNCHANGED input /\ i' = i /\ result' = "DotfileComponent" /\ result = "split"
        /\ i < Len(segs) /\ Raw \in Hidden
    BY <1>6, Zenon DEF DotfileComponent, input
  <2>2. Bad(i + 1) /\ segs[i + 1] \in Hidden
    BY <2>1, NextSegment DEF Raw
  <2>3. \A k \in 1 .. i : ~Bad(k)
    BY DEF Counted
  <2> QED BY <2>1, <2>2, <2>3, InputKept DEF RejectedExactly, input
<1>7. CASE Accept
  <2>1. UNCHANGED input /\ i' = i /\ result' = "ok" /\ result = "split" /\ i = Len(segs)
    BY <1>7, Zenon DEF Accept, input
  <2>2. \A k \in 1 .. Len(segs) : ~Bad(k)
    BY <2>1 DEF Counted
  <2> QED BY <2>1, <2>2, InputKept DEF RejectedExactly, input
<1>8. CASE UNCHANGED vars
  BY <1>8, InputKept DEF vars, input, RejectedExactly
<1> QED BY <1>1, <1>2, <1>3, <1>4, <1>5, <1>6, <1>7, <1>8 DEF Next

(* Whatever the selector: it is rejected exactly for the first thing that   *)
(* makes it unavailable, and an accepted one never leaves the root.         *)
THEOREM SelectorRejectedExactly == Spec => []RejectedExactly
<1>1. IInv /\ [Next]_vars => IInv'
  BY TypeOKStep, CountedStep, RejectedExactlyStep DEF IInv
<1>2. IInv => RejectedExactly
  BY DEF IInv
<1> QED BY InitIInv, <1>1, <1>2, PTL DEF Spec
-------------------------------------------------------------------------------
(* The invariant behind ComponentsKept: the vector holds the names that no    *)
(* ".." has taken back so far, in their order; what is left of the path from  *)
(* the root down to one of them is as long as its place in the vector.        *)
Standing(n) ==
    {k \in 1 .. n :
        /\ segs[k] \in Names
        /\ \A j \in k .. n :
            Count({".."}, j) - Count({".."}, k) <= Count(Names, j) - Count(Names, k)}

Orders(order, vector, n) ==
    /\ order \in [1 .. Len(vector) -> Standing(n)]
    /\ \A j, k \in 1 .. Len(vector) : j < k => order[j] < order[k]
    /\ \A k \in Standing(n) : \E j \in 1 .. Len(vector) : order[j] = k
    /\ \A j \in 1 .. Len(vector) :
          /\ vector[j] = segs[order[j]]
          /\ Count(Names, order[j]) = Count({".."}, order[j]) + j

Ordered ==
    /\ \E order : Orders(order, components, i)
    /\ result = "ok" => i = Len(segs)

LEMMA InitOrdered == Init => Ordered
<1> SUFFICES ASSUME Init PROVE Ordered
  OBVIOUS
<1>1. i = 0 /\ result = "check" /\ Len(components) = 0
  BY EmptySeq DEF Init
<1> DEFINE order == [j \in 1 .. 0 |-> 0]
<1>2. Standing(0) = {}
  BY DEF Standing
<1>3. Orders(order, components, 0)
  BY <1>1, <1>2 DEF Orders
<1> QED BY <1>1, <1>3 DEF Ordered

\* What one more segment leaves standing.
LEMMA StandingNext ==
    ASSUME NEW n \in Nat
    PROVE  /\ \A k \in Standing(n) :
                 /\ k \in 1 .. n /\ Count(Names, k) \in Nat /\ Count({".."}, k) \in Nat
                 /\ Count({".."}, n) - Count({".."}, k) <= Count(Names, n) - Count(Names, k)
           /\ \A k : k \in Standing(n + 1) <=>
                 \/ /\ k \in Standing(n)
                    /\ Count({".."}, n + 1) - Count({".."}, k)
                          <= Count(Names, n + 1) - Count(Names, k)
                 \/ k = n + 1 /\ segs[n + 1] \in Names
<1> DEFINE Fits(j, k) ==
             Count({".."}, j) - Count({".."}, k) <= Count(Names, j) - Count(Names, k)
<1>1. \A k \in Nat : Count(Names, k) \in Nat /\ Count({".."}, k) \in Nat
  BY CountStep
<1>2. \A k \in Nat : Fits(k, k)
  BY <1>1
<1> HIDE DEF Fits
<1>3. \A m, k : k \in Standing(m) <=>
          k \in 1 .. m /\ segs[k] \in Names /\ \A j \in k .. m : Fits(j, k)
  BY DEF Standing, Fits
<1>4. ASSUME NEW k \in 1 .. n
      PROVE  (\A j \in k .. n + 1 : Fits(j, k)) <=> (\A j \in k .. n : Fits(j, k)) /\ Fits(n + 1, k)
  <2>1. k .. n + 1 = (k .. n) \cup {n + 1}
    OBVIOUS
  <2> QED BY <2>1
<1>5. \A k : k \in 1 .. n + 1 <=> k \in 1 .. n \/ k = n + 1
  OBVIOUS
<1>6. ASSUME NEW k, k = n + 1
      PROVE  (k \in Standing(n + 1) <=> segs[n + 1] \in Names) /\ k \notin Standing(n)
  <2>1. k .. n + 1 = {n + 1} /\ k \in 1 .. n + 1 /\ k \notin 1 .. n
    BY <1>6
  <2>2. \A j \in k .. n + 1 : Fits(j, k)
    BY <1>2, <1>6, <2>1
  <2> QED BY <1>3, <1>6, <2>1, <2>2
<1>7. ASSUME NEW k, k # n + 1
      PROVE  k \in Standing(n + 1) <=> k \in Standing(n) /\ Fits(n + 1, k)
  BY <1>3, <1>4, <1>5, <1>7
<1>8. ASSUME NEW k \in Standing(n) PROVE k \in 1 .. n /\ Fits(n, k)
  <2>1. n \in k .. n /\ k \in 1 .. n
    BY <1>3
  <2> QED BY <1>3, <2>1
<1>9. \A k : k \in Standing(n + 1) <=>
         (k \in Standing(n) /\ Fits(n + 1, k)) \/ (k = n + 1 /\ segs[n + 1] \in Names)
  BY <1>6, <1>7
<1>10. \A k \in Standing(n) : k \in 1 .. n /\ Count(Names, k) \in Nat /\ Count({".."}, k) \in Nat
  BY <1>1, <1>8
<1> QED BY <1>8, <1>9, <1>10 DEF Fits
LEMMA StandingKept ==
    ASSUME UNCHANGED input
    PROVE  /\ \A n : Standing(n)' = Standing(n)
           /\ \A order, vector, n : Orders(order, vector, n) <=> Orders(order, vector, n)'
<1>1. \A n : Standing(n)' = Standing(n)
  BY DEF input, Standing, Count
<1> QED BY <1>1 DEF input, Orders, Count

LEMMA OrderedStay ==
    ASSUME Ordered, i' = i, components' = components, UNCHANGED input,
           result' = "ok" => result = "ok" \/ i = Len(segs)
    PROVE  Ordered'
<1>1. PICK order : Orders(order, components, i)
  BY DEF Ordered
<1>2. Orders(order, components, i)'
  <2>1. Orders(order, components', i')
    BY <1>1
  <2> QED BY <2>1, StandingKept
<1> QED BY <1>2 DEF Ordered, input

LEMMA OrderedAdvance ==
    ASSUME Ordered, i' = i + 1, UNCHANGED input, result' # "ok",
           \E order : Orders(order, components', i + 1)
    PROVE  Ordered'
<1>1. PICK order : Orders(order, components', i + 1)
  OBVIOUS
<1>2. Orders(order, components, i)'
  <2>1. Orders(order, components', i')
    BY <1>1
  <2> QED BY <2>1, StandingKept
<1> QED BY <1>2 DEF Ordered

LEMMA OrderedStep ==
    ASSUME TypeOK, Counted, Ordered, [Next]_vars
    PROVE  Ordered'
<1>0. /\ i \in Nat /\ Len(segs) \in Nat /\ components \in Seq(Names)
      /\ Len(components) \in Nat
  BY LenProperties DEF TypeOK
<1>1. CASE TooLong \/ Nul \/ Split \/ EscapesRoot \/ DotfileComponent \/ Accept
  <2>1. /\ i' = i /\ components' = components /\ UNCHANGED input
        /\ result' = "ok" => i = Len(segs)
    BY <1>1 DEF TooLong, Nul, Split, EscapesRoot, DotfileComponent, Accept, input
  <2> QED BY <2>1, OrderedStay
<1>2. PICK order : Orders(order, components, i)
  BY DEF Ordered
<1> DEFINE L == Len(components)
<1>3. /\ order \in [1 .. L -> Standing(i)]
      /\ \A j, k \in 1 .. L : j < k => order[j] < order[k]
      /\ \A k \in Standing(i) : \E j \in 1 .. L : order[j] = k
      /\ \A j \in 1 .. L : /\ components[j] = segs[order[j]]
                           /\ Count(Names, order[j]) = Count({".."}, order[j]) + j
  BY <1>2 DEF Orders
<1>4. L + Count({".."}, i) = Count(Names, i) /\ L \in Nat
      /\ Count(Names, i) \in Nat /\ Count({".."}, i) \in Nat
  BY <1>0, CountStep DEF Counted
<1>5. \A k \in Standing(i) :
          /\ k \in 1 .. i /\ Count(Names, k) \in Nat /\ Count({".."}, k) \in Nat
          /\ Count({".."}, i) - Count({".."}, k) <= Count(Names, i) - Count(Names, k)
  BY <1>0, StandingNext
<1>6. \A k : k \in Standing(i + 1) <=>
          \/ /\ k \in Standing(i)
             /\ Count({".."}, i + 1) - Count({".."}, k) <= Count(Names, i + 1) - Count(Names, k)
          \/ k = i + 1 /\ Raw \in Names
  BY <1>0, StandingNext DEF Raw
<1>7. CASE Skip
  <2>1. /\ i < Len(segs) /\ i' = i + 1 /\ UNCHANGED input /\ components' = components
        /\ result' = "split" /\ Raw \in {"", "."}
    BY <1>7 DEF Skip, input
  <2>2. /\ Count(Names, i + 1) = Count(Names, i) /\ Count({".."}, i + 1) = Count({".."}, i)
        /\ Raw \notin Names
    BY <2>1, NextSegment, NamesAssumption
  <2>3. Standing(i + 1) = Standing(i)
    <3>1. \A k : k \in Standing(i + 1) <=> k \in Standing(i)
      BY <1>5, <1>6, <2>2
    <3> QED BY <3>1
  <2>4. Orders(order, components', i + 1)
    BY <1>2, <2>1, <2>3 DEF Orders
  <2> QED BY <2>1, <2>4, OrderedAdvance
<1>8. CASE Pop
  <2>1. /\ i < Len(segs) /\ i' = i + 1 /\ UNCHANGED input /\ components' = Front(components)
        /\ result' = "split" /\ Raw = ".." /\ components # <<>>
    BY <1>8 DEF Pop, input
  <2>2. /\ Count(Names, i + 1) = Count(Names, i) /\ Count({".."}, i + 1) = Count({".."}, i) + 1
        /\ Raw \notin Names
    BY <2>1, NextSegment, NamesAssumption
  <2>3. /\ Len(components') + 1 = L /\ Len(components') \in Nat
        /\ \A j \in 1 .. Len(components') : components'[j] = components[j]
    <3>1. Len(components') + 1 = L /\ Len(components') \in Nat
      BY <1>0, <2>1, FrontType, LenProperties
    <3>2. components' = SubSeq(components, 1, L - 1)
      BY <2>1 DEF Front
    <3>3. \A j \in 1 .. L - 1 : components[j] \in Names
      BY <1>0
    <3>4. \A j \in 1 .. L - 1 : SubSeq(components, 1, L - 1)[j] = components[j]
      BY <1>0, <3>1, <3>3
    <3> QED BY <3>1, <3>2, <3>4
  <2> DEFINE M == Len(components')
             shorter == [j \in 1 .. M |-> order[j]]
  <2>4. ASSUME NEW k
        PROVE  k \in Standing(i + 1) <=> \E j \in 1 .. M : k = order[j]
    <3>1. k \in Standing(i + 1) <=>
             k \in Standing(i) /\ (Count({".."}, i) + 1) - Count({".."}, k) <= Count(Names, i) - Count(Names, k)
      <4>1. k \in Standing(i + 1) <=>
              \/ /\ k \in Standing(i)
                 /\ Count({".."}, i + 1) - Count({".."}, k) <= Count(Names, i + 1) - Count(Names, k)
              \/ k = i + 1 /\ Raw \in Names
        BY <1>6
      <4>2. Count({".."}, i + 1) - Count({".."}, k) = (Count({".."}, i) + 1) - Count({".."}, k)
            /\ Count(Names, i + 1) - Count(Names, k) = Count(Names, i) - Count(Names, k)
        BY <2>2
      <4> QED BY <2>2, <4>1, <4>2, Zenon
    <3>2. ASSUME NEW j \in 1 .. L
          PROVE  (Count({".."}, i) + 1) - Count({".."}, order[j]) <= Count(Names, i) - Count(Names, order[j])
                 <=> j \in 1 .. M
      <4>1. order[j] \in Standing(i) /\ j \in Nat /\ 1 <= j
        BY <1>3
      <4>2. /\ Count({".."}, order[j]) \in Nat /\ Count(Names, order[j]) \in Nat
            /\ Count(Names, order[j]) = Count({".."}, order[j]) + j
        BY <1>3, <1>5, <4>1
      <4> HIDE DEF L, M
      <4>3. M + 1 = L /\ M \in Nat
        BY <2>3 DEF M
      <4> QED BY <1>4, <4>1, <4>2, <4>3
    <3>3. 1 .. M \subseteq 1 .. L
      BY <2>3
    <3> HIDE DEF M, L
    <3> QED BY <1>3, <3>1, <3>2, <3>3
  <2>5. Orders(shorter, components', i + 1)
    <3>1. \A j \in 1 .. M : j \in 1 .. L /\ shorter[j] = order[j]
      BY <2>3
    <3>2. shorter \in [1 .. M -> Standing(i + 1)]
      BY <2>4
    <3> HIDE DEF shorter
    <3>3. \A j, k \in 1 .. M : j < k => shorter[j] < shorter[k]
      BY <1>3, <3>1
    <3>4. \A k \in Standing(i + 1) : \E j \in 1 .. M : shorter[j] = k
      BY <2>4, <3>1
    <3>5. \A j \in 1 .. M : /\ components'[j] = segs[shorter[j]]
                            /\ Count(Names, shorter[j]) = Count({".."}, shorter[j]) + j
      BY <1>3, <2>3, <3>1
    <3> QED BY <3>2, <3>3, <3>4, <3>5 DEF Orders
  <2> QED BY <2>1, <2>5, OrderedAdvance
<1>9. CASE Push
  <2>1. /\ i < Len(segs) /\ i' = i + 1 /\ UNCHANGED input
        /\ components' = Append(components, Raw)
        /\ result' = "split" /\ Raw \in Names
    BY <1>9 DEF Push, input
  <2>2. /\ Count(Names, i + 1) = Count(Names, i) + 1 /\ Count({".."}, i + 1) = Count({".."}, i)
    BY <2>1, NextSegment
  <2> DEFINE M == Len(components')
             longer == [j \in 1 .. M |-> IF j = M THEN i + 1 ELSE order[j]]
  <2>3. /\ M = L + 1 /\ M \in Nat /\ components'[M] = segs[i + 1]
        /\ \A j \in 1 .. L : components'[j] = components[j]
    BY <1>0, <2>1, AppendProperties DEF Raw
  <2>4. \A k : k \in Standing(i + 1) <=> k \in Standing(i) \/ k = i + 1
    BY <1>4, <1>5, <1>6, <2>1, <2>2
  <2>5. Orders(longer, components', i + 1)
    <3>1. /\ \A j \in 1 .. M : j \in 1 .. L \/ j = M
          /\ longer[M] = i + 1 /\ M \in 1 .. M
          /\ \A j \in 1 .. L : longer[j] = order[j] /\ j \in 1 .. M /\ j < M
          /\ longer = [j \in 1 .. M |-> longer[j]]
      BY <2>3
    <3> HIDE DEF longer, M, L
    <3>2. longer \in [1 .. M -> Standing(i + 1)]
      BY <1>3, <2>4, <3>1
    <3>3. \A j, k \in 1 .. M : j < k => longer[j] < longer[k]
      <4> SUFFICES ASSUME NEW j \in 1 .. M, NEW k \in 1 .. M, j < k
                   PROVE  longer[j] < longer[k]
        OBVIOUS
      <4>1. j \in 1 .. L
        BY <2>3, <3>1
      <4>2. CASE k = M
        <5>1. order[j] \in 1 .. i
          BY <1>3, <1>5, <4>1
        <5>2. longer[j] = order[j] /\ longer[k] = i + 1
          BY <3>1, <4>1, <4>2
        <5>3. order[j] < i + 1
          BY <1>0, <5>1
        <5> QED BY <5>2, <5>3
      <4>3. CASE k \in 1 .. L
        BY <1>3, <3>1, <4>1, <4>3
      <4> QED BY <3>1, <4>2, <4>3
    <3>4. \A k \in Standing(i + 1) : \E j \in 1 .. M : longer[j] = k
      BY <1>3, <2>4, <3>1
    <3>5. Count(Names, i + 1) = Count({".."}, i + 1) + M
      BY <1>4, <2>2, <2>3
    <3>6. ASSUME NEW j \in 1 .. M
          PROVE  /\ components'[j] = segs[longer[j]]
                 /\ Count(Names, longer[j]) = Count({".."}, longer[j]) + j
      <4>1. CASE j = M
        BY <2>3, <3>1, <3>5, <4>1
      <4>2. CASE j \in 1 .. L
        BY <1>3, <2>3, <3>1, <4>2
      <4> QED BY <3>1, <4>1, <4>2
    <3> QED BY <3>2, <3>3, <3>4, <3>6 DEF Orders, M
  <2> QED BY <2>1, <2>5, OrderedAdvance
<1>10. CASE UNCHANGED vars
  <2>1. i' = i /\ components' = components /\ UNCHANGED input /\ result' = result
    BY <1>10 DEF vars, input
  <2> QED BY <2>1, OrderedStay
<1> QED BY <1>1, <1>7, <1>8, <1>9, <1>10 DEF Next

\* An accepted selector means what a reader makes of it: the components are the
\* names that no ".." takes back, each once and in their order.
THEOREM SelectorComponentsKept == Spec => []ComponentsKept
<1>1. TypeOK /\ Ordered => ComponentsKept
  <2> SUFFICES ASSUME TypeOK, Ordered, result = "ok" PROVE ComponentsKept
    BY DEF ComponentsKept
  <2>1. PICK order : Orders(order, components, Len(segs))
    BY DEF Ordered
  <2>2. Survivors = Standing(Len(segs))
    BY DEF Survivors, Standing
  <2>3. order \in [1 .. Len(components) -> Survivors] /\ DOMAIN order = 1 .. Len(components)
    BY <2>1, <2>2 DEF Orders
  <2> QED BY <2>1, <2>2, <2>3 DEF Orders, ComponentsKept
<1>2. IInv /\ Ordered /\ [Next]_vars => (IInv /\ Ordered)'
  BY TypeOKStep, CountedStep, RejectedExactlyStep, OrderedStep DEF IInv
<1>3. IInv => TypeOK
  BY DEF IInv
<1> QED BY InitIInv, InitOrdered, <1>1, <1>2, <1>3, PTL DEF Spec
===============================================================================
