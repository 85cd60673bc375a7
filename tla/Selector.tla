------------------------------- MODULE Selector -------------------------------
(***************************************************************************)
(* parse_diagnostic of src/selector.rs: one selector line becomes a list   *)
(* of normal path components, or is rejected.  The line is what split('/') *)
(* makes of it, a sequence of segments; a segment is empty, a dot, two     *)
(* dots, a dotfile name or a normal name.  Carriage returns at the end and *)
(* bytes that are never allowed are kept apart from the segments.          *)
(***************************************************************************)
EXTENDS Naturals, Sequences, FiniteSets, FiniteSetsExt, SequencesExt

CONSTANTS Names,        \* normal names
          Hidden,       \* names that begin with a dot, other than . and ..
          Bytes,        \* Bytes[n]: the length of a name
          MaxBytes,     \* MAX_SELECTOR_BYTES: 1024 in the code
          MaxSegments   \* bound: segments of a selector

ASSUME NamesAssumption ==
    /\ Names \cap ({"", ".", ".."} \cup Hidden) = {}
    /\ Hidden \cap {"", ".", ".."} = {}
    /\ Bytes \in [Names \cup Hidden -> Nat]
ASSUME BoundsAssumption == MaxBytes \in Nat /\ MaxSegments \in Nat \ {0}

Segment == {"", ".", ".."} \cup Names \cup Hidden

VARIABLES segs,        \* the selector, split at its slashes
          crs,         \* carriage returns at its end
          nul,         \* a NUL or a carriage return elsewhere
          i,           \* segments looked at
          components,  \* the vector being built
          result       \* "check", "split", or how parse_diagnostic returned
vars == <<segs, crs, nul, i, components, result>>
input == <<segs, crs, nul>>

Init ==
    /\ segs \in UNION {[1 .. n -> Segment] : n \in 1 .. MaxSegments}
    /\ crs \in 0 .. 2
    /\ nul \in BOOLEAN
    /\ i = 0 /\ components = <<>> /\ result = "check"

\* strip_suffix('\r') removes one carriage return.
LeftCrs == IF crs > 0 THEN crs - 1 ELSE 0

SegmentBytes(s) ==
    CASE s = "" -> 0 [] s = "." -> 1 [] s = ".." -> 2
      [] OTHER -> Bytes[s]

\* The length after the strip: the segments, the slashes, other CRs.
BytesOf(s) == MapThenSumSet(LAMBDA k : SegmentBytes(s[k]), DOMAIN s) + (Len(s) - 1)
Size == BytesOf(segs) + LeftCrs

Oversized == Size > MaxBytes
-------------------------------------------------------------------------------
TooLong ==
    /\ result = "check" /\ Oversized
    /\ result' = "TooLong"
    /\ UNCHANGED <<input, i, components>>

Nul ==
    /\ result = "check" /\ ~Oversized
    /\ nul \/ LeftCrs > 0
    /\ result' = "Nul"
    /\ UNCHANGED <<input, i, components>>

Split ==
    /\ result = "check" /\ ~Oversized
    /\ ~nul /\ LeftCrs = 0
    /\ result' = "split"
    /\ UNCHANGED <<input, i, components>>

Raw == segs[i + 1]

Skip ==
    /\ result = "split" /\ i < Len(segs) /\ Raw \in {"", "."}
    /\ i' = i + 1
    /\ UNCHANGED <<input, components, result>>

\* Mutants of the actions below.
PopAtRoot ==
    /\ result = "split" /\ i < Len(segs) /\ Raw = ".."
    /\ i' = i + 1
    /\ components' = IF components = <<>> THEN <<>> ELSE Front(components)
    /\ UNCHANGED <<input, result>>
PopIgnored ==
    /\ result = "split" /\ i < Len(segs) /\ Raw = ".."
    /\ components # <<>>
    /\ i' = i + 1
    /\ UNCHANGED <<input, components, result>>
PushHidden ==
    /\ result = "split" /\ i < Len(segs) /\ Raw \in Names \cup Hidden
    /\ i' = i + 1
    /\ components' = Append(components, Raw)
    /\ UNCHANGED <<input, result>>

Pop ==
    /\ result = "split" /\ i < Len(segs) /\ Raw = ".."
    /\ components # <<>>
    /\ i' = i + 1
    /\ components' = Front(components)
    /\ UNCHANGED <<input, result>>

EscapesRoot ==
    /\ result = "split" /\ i < Len(segs) /\ Raw = ".."
    /\ components = <<>>
    /\ result' = "EscapesRoot"
    /\ UNCHANGED <<input, i, components>>

DotfileComponent ==
    /\ result = "split" /\ i < Len(segs) /\ Raw \in Hidden
    /\ result' = "DotfileComponent"
    /\ UNCHANGED <<input, i, components>>

Push ==
    /\ result = "split" /\ i < Len(segs) /\ Raw \in Names
    /\ i' = i + 1
    /\ components' = Append(components, Raw)
    /\ UNCHANGED <<input, result>>

Accept ==
    /\ result = "split" /\ i = Len(segs)
    /\ result' = "ok"
    /\ UNCHANGED <<input, i, components>>

\* The selector ends with a slash: the request is for a directory only.
DirOnly == Len(segs) > 1 /\ Last(segs) = ""

Next ==
    \/ TooLong \/ Nul \/ Split \/ Skip \/ Pop \/ EscapesRoot \/ DotfileComponent
    \/ Push \/ Accept

Spec == Init /\ [][Next]_vars
-------------------------------------------------------------------------------
(* Every variable has its type; above all, whatever the selector, the       *)
(* components are normal names: none is empty, a dot, two dots or hidden.   *)
TypeOK ==
    /\ segs \in Seq(Segment) /\ crs \in 0 .. 2 /\ nul \in BOOLEAN
    /\ i \in 0 .. Len(segs)
    /\ components \in Seq(Names)
    /\ result \in {"check", "split", "ok", "TooLong", "Nul", "EscapesRoot",
                   "DotfileComponent"}

\* How many of the first k segments are in S.
Count(S, k) == Cardinality({j \in 1 .. k : segs[j] \in S})

\* Segment k names a dotfile, or with it the path leaves the root.
Bad(k) == segs[k] \in Hidden \/ Count(Names, k) < Count({".."}, k)

(* A selector is rejected exactly if it is too long once a CR is stripped,  *)
(* holds a NUL or another CR, names a dotfile anywhere (also one a later    *)
(* ".." would take back) or leaves the root at any of its prefixes, and for *)
(* the reason that comes first.                                             *)
RejectedExactly ==
    /\ result # "check" => (result = "TooLong" <=> Oversized)
    /\ result \notin {"check", "TooLong"} => (result = "Nul" <=> nul \/ LeftCrs > 0)
    /\ result \in {"DotfileComponent", "EscapesRoot"} =>
        /\ Bad(i + 1) /\ \A k \in 1 .. i : ~Bad(k)
        /\ result = "DotfileComponent" <=> segs[i + 1] \in Hidden
    /\ result = "ok" => \A k \in 1 .. Len(segs) : ~Bad(k)

\* The names that no later ".." takes back.
Survivors ==
    {k \in 1 .. Len(segs) :
        /\ segs[k] \in Names
        /\ \A j \in k .. Len(segs) :
            Count({".."}, j) - Count({".."}, k) <= Count(Names, j) - Count(Names, k)}

(* The components of an accepted selector are what a reader of the path     *)
(* means by it: the names that stay when every ".." has taken one back, in  *)
(* their order.                                                             *)
ComponentsKept ==
    result = "ok" =>
        \E order \in [1 .. Len(components) -> Survivors] :
            /\ \A j, k \in DOMAIN order : j < k => order[j] < order[k]
            /\ \A k \in Survivors : \E j \in DOMAIN order : order[j] = k
            /\ \A j \in DOMAIN order : components[j] = segs[order[j]]
===============================================================================
