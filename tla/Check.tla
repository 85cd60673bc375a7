-------------------------------- MODULE Check --------------------------------
(***************************************************************************)
(* `buffetcar check` on one selector (src/src/check.rs:8-58, the           *)
(* `_diagnostic` half of src/src/root.rs, listing::diagnose), run by an    *)
(* author in a tree that nobody changes: a verdict as a function of the    *)
(* tree, next to the answer that Resolver's daemon gives.  Results are an  *)
(* inode that was accepted or the reason of a refusal.                     *)
(***************************************************************************)
EXTENDS Resolver

CONSTANT Authors   \* who runs check: "owner" or "other"

Accepted(i)  == [fd |-> i, reason |-> "none"]
Rejected(r)  == [fd |-> NoInode, reason |-> r]
IsAccepted(result) == result.fd # NoInode

\* accept_dir and accept_file.
AcceptDir(i) ==
    IF ~OnRootDevice(i) THEN Rejected("CrossDevice")
    ELSE IF i \notin Dirs THEN Rejected("SpecialFile")
    ELSE IF i \notin tree.xoth THEN Rejected("DirectoryNotWorldExecutable")
    ELSE Accepted(i)

AcceptFile(i) ==
    IF ~OnRootDevice(i) THEN Rejected("CrossDevice")
    ELSE IF i \notin Files THEN Rejected("SpecialFile")
    ELSE IF i \notin tree.roth THEN Rejected("NotWorldReadable")
    ELSE IF NLink(tree, i) # 1 THEN Rejected("Hardlink")
    ELSE Accepted(i)

Or(result, reason) == IF IsAccepted(result) THEN Rejected(reason) ELSE result

\* Mutant: a symlink is looked at like a file.
RejectNoSymlink(i, context) ==
    IF ~OnRootDevice(i) THEN Rejected("CrossDevice")
    ELSE IF i \in Dirs THEN Or(AcceptDir(i), "DirectoryNotWorldReadable")
    ELSE IF Kind[i] = "special" THEN Rejected("SpecialFile")
    ELSE IF context = "Intermediate" THEN Rejected("NotADirectory")
    ELSE Rejected("NotWorldReadable")

\* reject_for_stat; its last argument is the DiagnosticContext.
RejectForStat(i, context) ==
    IF ~OnRootDevice(i) THEN Rejected("CrossDevice")
    ELSE IF Kind[i] = "link" THEN Rejected("Symlink")
    ELSE IF i \in Dirs THEN Or(AcceptDir(i), "DirectoryNotWorldReadable")
    ELSE IF Kind[i] = "special" THEN Rejected("SpecialFile")
    ELSE IF context = "Intermediate" THEN Rejected("NotADirectory")
    ELSE Or(AcceptFile(i), IF context = "DirOnly" THEN "TrailingSlashOnFile"
                                                  ELSE "NotWorldReadable")

\* diagnose_child: statat without following a symlink.
DiagnoseChild(who, d, n, context) ==
    LET i == Lookup(who, d, n) IN
    IF i = NoInode THEN Rejected("Missing") ELSE RejectForStat(i, context)

\* open_root_dir_diagnostic and open_child_dir_diagnostic.
RootDir(who) ==
    LET i == OpenSelf(who, site.platform, Root) IN
    IF i = NoInode THEN Rejected("Missing") ELSE AcceptDir(i)

ChildDir(who, d, n) ==
    LET i == OpenTraverse(who, site.platform, d, n) IN
    IF i = NoInode THEN DiagnoseChild(who, d, n, "Intermediate") ELSE AcceptDir(i)

\* open_leaf_diagnostic.
LeafDir(who, d, n, context) ==
    LET i == ChildDir(who, d, n) IN
    IF IsAccepted(i) THEN i ELSE DiagnoseChild(who, d, n, context)

Leaf(who, d, n) ==
    LET i == OpenProbe(who, d, n) IN
    IF request.dirOnly THEN LeafDir(who, d, n, "DirOnly")
    ELSE CASE i = NoInode -> LeafDir(who, d, n, "Leaf")
           [] i \in Dirs  -> AcceptDir(i)
           [] i \in Files -> AcceptFile(i)
           [] OTHER       -> RejectForStat(i, "Leaf")

\* Mutant: the last component is opened like the others.
ResolveAllDirs(who) ==
    LET c == request.components
        w[k \in 0 .. Len(c)] ==
            IF k = 0 THEN RootDir(who)
            ELSE IF ~IsAccepted(w[k-1]) THEN w[k-1]
            ELSE ChildDir(who, w[k-1].fd, c[k])
    IN w[Len(c)]

\* resolve_diagnostic: w[k] is the result after k components.
ResolveDiagnostic(who) ==
    LET c == request.components
        w[k \in 0 .. Len(c)] ==
            IF k = 0 THEN RootDir(who)
            ELSE IF ~IsAccepted(w[k-1]) THEN w[k-1]
            ELSE IF k = Len(c) THEN Leaf(who, w[k-1].fd, c[k])
            ELSE ChildDir(who, w[k-1].fd, c[k])
    IN w[Len(c)]

\* What asks for a listable directory.
AcceptListable(result) ==
    IF IsAccepted(result) /\ result.fd \notin tree.roth
    THEN Rejected("DirectoryNotWorldReadable") ELSE result

\* classify_child_diagnostic.
ClassifyChild(who, d, n) ==
    LET i == OpenProbe(who, d, n) IN
    CASE i = NoInode -> AcceptListable(ChildDir(who, d, n))
      [] i \in Dirs  -> AcceptListable(AcceptDir(i))
      [] i \in Files -> AcceptFile(i)
      [] OTHER       -> RejectForStat(i, "Leaf")

\* open_listable_dir_diagnostic.
ListableDir(who, d) ==
    LET result == AcceptListable(AcceptDir(d)) IN
    IF IsAccepted(result) /\ OpenList(who, d) = NoInode
    THEN Rejected("DirectoryNotWorldReadable") ELSE result

\* collect_entries, with classify_child_diagnostic.
Collected(who, d) ==
    {<<n, ClassifyChild(who, d, n).fd \in Dirs>> :
        n \in {m \in NamesIn(tree, d) \ (Hidden \cup Garbled) :
                 IsAccepted(ClassifyChild(who, d, m))}}

\* listing::diagnose.
Diagnose(who, d) ==
    LET listing == ListableDir(who, d)
        E == Collected(who, d) IN
    IF ClassifyChild(who, d, "index").fd \in Files THEN "index"
    ELSE IF ~IsAccepted(listing) THEN listing.reason
    ELSE IF Cardinality(E) > MaxEntries THEN "ListingTooManyEntries"
    ELSE IF Size(E) > MaxBytes THEN "ListingTooManyBytes"
    ELSE "listing"

\* check::run on one selector that parsed.
Verdict(who) ==
    LET target == ResolveDiagnostic(who) IN
    CASE target.fd \in Files -> "file"
      [] target.fd \in Dirs  -> Diagnose(who, target.fd)
      [] OTHER               -> target.reason

Ok(verdict) == verdict \in {"file", "index", "listing"}
-------------------------------------------------------------------------------
\* Nothing happened yet that check would not see.
Comparable == Done /\ moments = {tree} /\ Enough

\* Where a directory is opened without asking for its read bit, check gives the
\* daemon's answer, whoever runs it: served or not, and as a file or a listing.
CheckAgrees ==
    Comparable /\ site.platform # "rdonly" =>
        \A who \in Authors :
            /\ Verdict(who) \in {"file", "index"} <=> answer.kind = "file"
            /\ Verdict(who) = "listing" <=> answer.kind = "listing"

\* The inodes on the way to the target, as far as there are any.
OnTheWay == {Named(tree, k) : k \in 0 .. Len(request.components)} \ {NoInode}

\* What a reason says of the inodes on the way.
Holds(reason) ==
    CASE reason = "Missing"       ->
            \E k \in 1 .. Len(request.components) :
                CanEnter(tree, Named(tree, k-1)) /\ Named(tree, k) = NoInode
      [] reason = "Symlink"       -> \E i \in OnTheWay : Kind[i] = "link"
      [] reason = "SpecialFile"   -> \E i \in OnTheWay : Kind[i] = "special"
      [] reason = "CrossDevice"   -> \E i \in OnTheWay : ~OnRootDevice(i)
      [] reason = "Hardlink"      -> \E i \in OnTheWay \cap Files : NLink(tree, i) # 1
      [] reason = "NotWorldReadable" -> \E i \in OnTheWay \cap Files : i \notin tree.roth
      [] reason = "DirectoryNotWorldExecutable" ->
            \E i \in OnTheWay \cap Dirs : i \notin tree.xoth
      [] reason = "DirectoryNotWorldReadable" ->
            \E i \in OnTheWay \cap Dirs : i \notin tree.roth
      [] reason = "NotADirectory" ->
            \E k \in 1 .. Len(request.components) - 1 : Named(tree, k) \in Files
      [] reason = "TrailingSlashOnFile" -> request.dirOnly /\ Target(tree) \in Files
      [] reason = "ListingTooManyEntries" ->
            Cardinality(PublicEntries(tree, Target(tree))) > MaxEntries
      [] reason = "ListingTooManyBytes" ->
            Size(PublicEntries(tree, Target(tree))) > MaxBytes

\* The reason of a refusal is true: what it names is on the requested path.  Not
\* so for a root the author cannot search, which is "not found".
ReasonHolds ==
    Comparable /\ site.platform # "rdonly" /\ Root \in tree.xoth =>
        \A who \in Authors : Ok(Verdict(who)) \/ Holds(Verdict(who))

\* docs/superpowers/specs/2026-06-06-multi-user-nex-server-design.md:362: check
\* "never runs with weaker rules than `serve`".  On OpenBSD it does: a directory
\* that only its owner reads is open to the author and closed to the daemon.
CheckNotWeaker ==
    Comparable => \A who \in Authors : Ok(Verdict(who)) => answer # NotFound
===============================================================================
