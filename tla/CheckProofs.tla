------------------------------ MODULE CheckProofs ------------------------------
(***************************************************************************)
(* `check` says what the daemon answers, and its reasons are true, for     *)
(* every tree, request and author, and every site that opens a directory   *)
(* without asking for its read bit.                                        *)
(***************************************************************************)
EXTENDS Check, AnswerProofs

(* `check` walks the same path: a result is the inode, if the daemon would   *)
(* take it, or else one of these reasons.                                    *)
Reasons == {"Missing", "Symlink", "SpecialFile", "CrossDevice", "Hardlink", "NotWorldReadable",
            "DirectoryNotWorldExecutable", "DirectoryNotWorldReadable", "NotADirectory",
            "TrailingSlashOnFile", "ListingTooManyEntries", "ListingTooManyBytes"}

Refusals == {Rejected(r) : r \in Reasons}
Refused(result) == result \in Refusals
Judged(result, i, fine) ==
    IF fine THEN i # NoInode /\ result = Accepted(i) ELSE Refused(result)

\* Holds, one reason at a time.
LEMMA HoldsIs ==
    /\ Holds("Missing") <=>
            \E k \in 1 .. N : CanEnter(tree, Named(tree, k-1)) /\ Named(tree, k) = NoInode
    /\ Holds("Symlink") <=> \E i \in OnTheWay : Kind[i] = "link"
    /\ Holds("SpecialFile") <=> \E i \in OnTheWay : Kind[i] = "special"
    /\ Holds("CrossDevice") <=> \E i \in OnTheWay : ~OnRootDevice(i)
    /\ Holds("Hardlink") <=> \E i \in OnTheWay \cap Files : NLink(tree, i) # 1
    /\ Holds("NotWorldReadable") <=> \E i \in OnTheWay \cap Files : i \notin tree.roth
    /\ Holds("DirectoryNotWorldExecutable") <=>
            \E i \in OnTheWay \cap Dirs : i \notin tree.xoth
    /\ Holds("DirectoryNotWorldReadable") <=>
            \E i \in OnTheWay \cap Dirs : i \notin tree.roth
    /\ Holds("NotADirectory") <=> \E k \in 1 .. N - 1 : Named(tree, k) \in Files
    /\ Holds("TrailingSlashOnFile") <=> request.dirOnly /\ Target(tree) \in Files
    /\ Holds("ListingTooManyEntries") <=>
            Cardinality(PublicEntries(tree, Target(tree))) > MaxEntries
    /\ Holds("ListingTooManyBytes") <=>
            Size(PublicEntries(tree, Target(tree))) > MaxBytes
  BY DEF Holds, N

\* An acceptance and a refusal are told apart.
LEMMA ResultIs ==
    ASSUME NEW i, NEW r
    PROVE  /\ Accepted(i).fd = i /\ (IsAccepted(Accepted(i)) <=> i # NoInode)
           /\ Rejected(r).fd = NoInode /\ Rejected(r).reason = r /\ ~IsAccepted(Rejected(r))
           /\ r \in Reasons => Refused(Rejected(r))
           /\ \A result : Refused(result) => /\ ~IsAccepted(result) /\ result.fd = NoInode
                                            /\ result.reason \in Reasons
  BY DEF Accepted, Rejected, IsAccepted, Refused, Refusals

\* accept_dir and accept_file decide by the policy, and say why not.
LEMMA AcceptDirTells ==
    ASSUME NEW i \in Dirs
    PROVE  /\ Judged(AcceptDir(i), i, DirOK(tree, i))
           /\ i \in OnTheWay /\ ~DirOK(tree, i) => Holds(AcceptDir(i).reason)
  <1>1. CASE ~OnRootDevice(i)
    <2>1. AcceptDir(i) = Rejected("CrossDevice") /\ ~DirOK(tree, i)
      BY <1>1 DEF AcceptDir, DirOK
    <2> QED
      BY <1>1, <2>1, ResultIs, HoldsIs DEF Judged, Reasons
  <1>2. CASE OnRootDevice(i) /\ i \notin tree.xoth
    <2>1. AcceptDir(i) = Rejected("DirectoryNotWorldExecutable") /\ ~DirOK(tree, i)
      BY <1>2 DEF AcceptDir, DirOK
    <2> QED
      BY <1>2, <2>1, ResultIs, HoldsIs DEF Judged, Reasons
  <1>3. CASE OnRootDevice(i) /\ i \in tree.xoth
    <2>1. AcceptDir(i) = Accepted(i) /\ DirOK(tree, i)
      BY <1>3 DEF AcceptDir, DirOK
    <2> QED
      BY <2>1, Kinds DEF Judged
  <1> QED
    BY <1>1, <1>2, <1>3

LEMMA AcceptFileTells ==
    ASSUME NEW i \in Files
    PROVE  /\ Judged(AcceptFile(i), i, FileOK(tree, i))
           /\ i \in OnTheWay /\ ~FileOK(tree, i) => Holds(AcceptFile(i).reason)
           /\ OnRootDevice(i) /\ i \notin tree.roth => AcceptFile(i) = Rejected("NotWorldReadable")
  <1>1. CASE ~OnRootDevice(i)
    <2>1. AcceptFile(i) = Rejected("CrossDevice") /\ ~FileOK(tree, i)
      BY <1>1 DEF AcceptFile, FileOK
    <2> QED
      BY <1>1, <2>1, ResultIs, HoldsIs DEF Judged, Reasons
  <1>2. CASE OnRootDevice(i) /\ i \notin tree.roth
    <2>1. AcceptFile(i) = Rejected("NotWorldReadable") /\ ~FileOK(tree, i)
      BY <1>2 DEF AcceptFile, FileOK
    <2> QED
      BY <1>2, <2>1, ResultIs, HoldsIs DEF Judged, Reasons
  <1>3. CASE OnRootDevice(i) /\ i \in tree.roth /\ NLink(tree, i) # 1
    <2>1. AcceptFile(i) = Rejected("Hardlink") /\ ~FileOK(tree, i)
      BY <1>3 DEF AcceptFile, FileOK
    <2> QED
      BY <1>3, <2>1, ResultIs, HoldsIs DEF Judged, Reasons
  <1>4. CASE OnRootDevice(i) /\ i \in tree.roth /\ NLink(tree, i) = 1
    <2>1. AcceptFile(i) = Accepted(i) /\ FileOK(tree, i) /\ i # NoInode
      BY <1>4, Kinds DEF AcceptFile, FileOK
    <2> QED
      BY <1>4, <2>1 DEF Judged
  <1> QED
    BY <1>1, <1>2, <1>3, <1>4

\* A second look at what was not opened refuses always.
LEMMA RejectTells ==
    ASSUME NEW i \in Inodes, NEW context
    PROVE  /\ Refused(RejectForStat(i, context))
           /\ /\ i \in OnTheWay /\ ~DirOK(tree, i)
              /\ context = "Intermediate" => \E k \in 1 .. N - 1 : Named(tree, k) = i
              /\ context = "DirOnly" => request.dirOnly /\ Target(tree) = i
              /\ context \notin {"Intermediate", "DirOnly"} => i \notin tree.roth \/ i \notin Files
              => Holds(RejectForStat(i, context).reason)
  <1>1. CASE ~OnRootDevice(i)
    <2>1. RejectForStat(i, context) = Rejected("CrossDevice")
      BY <1>1 DEF RejectForStat
    <2> QED
      BY <1>1, <2>1, ResultIs, HoldsIs DEF Reasons
  <1>2. CASE OnRootDevice(i) /\ Kind[i] = "link"
    <2>1. RejectForStat(i, context) = Rejected("Symlink")
      BY <1>2 DEF RejectForStat
    <2> QED
      BY <1>2, <2>1, ResultIs, HoldsIs DEF Reasons
  <1>3. CASE OnRootDevice(i) /\ i \in Dirs
    <2>0. Kind[i] # "link"
      BY <1>3 DEF Dirs
    <2>1. RejectForStat(i, context) = Or(AcceptDir(i), "DirectoryNotWorldReadable")
      BY <1>3, <2>0 DEF RejectForStat
    <2>2. CASE DirOK(tree, i)
      <3>1. RejectForStat(i, context) = Rejected("DirectoryNotWorldReadable")
        BY <1>3, <2>1, <2>2, AcceptDirTells, ResultIs DEF Or, Judged
      <3> QED
        BY <2>2, <3>1, ResultIs DEF Reasons
    <2>3. CASE ~DirOK(tree, i)
      <3>1. Refused(AcceptDir(i)) /\ (i \in OnTheWay => Holds(AcceptDir(i).reason))
        BY <1>3, <2>3, AcceptDirTells DEF Judged
      <3>2. RejectForStat(i, context) = AcceptDir(i)
        BY <2>1, <3>1, ResultIs DEF Or
      <3> QED
        BY <3>1, <3>2
    <2> QED
      BY <2>2, <2>3
  <1>4. CASE OnRootDevice(i) /\ Kind[i] = "special"
    <2>1. RejectForStat(i, context) = Rejected("SpecialFile")
      BY <1>4 DEF RejectForStat, Dirs
    <2> QED
      BY <1>4, <2>1, ResultIs, HoldsIs DEF Reasons
  <1>5. CASE OnRootDevice(i) /\ i \in Files
    <2>0. Kind[i] # "link" /\ i \notin Dirs /\ Kind[i] # "special"
      BY <1>5 DEF Dirs, Files
    <2>1. CASE context = "Intermediate"
      <3>1. RejectForStat(i, context) = Rejected("NotADirectory")
        BY <1>5, <2>0, <2>1 DEF RejectForStat
      <3> QED
        BY <1>5, <2>1, <3>1, ResultIs, HoldsIs DEF Reasons
    <2>2. ASSUME FileOK(tree, i), context # "Intermediate",
                 NEW r \in Reasons, RejectForStat(i, context) = Or(AcceptFile(i), r)
          PROVE  RejectForStat(i, context) = Rejected(r)
      BY <1>5, <2>2, AcceptFileTells, ResultIs DEF Or, Judged
    <2>3. ASSUME ~FileOK(tree, i), NEW r, RejectForStat(i, context) = Or(AcceptFile(i), r)
          PROVE  /\ Refused(RejectForStat(i, context))
                 /\ i \in OnTheWay => Holds(RejectForStat(i, context).reason)
      <3>1. Refused(AcceptFile(i)) /\ (i \in OnTheWay => Holds(AcceptFile(i).reason))
        BY <1>5, <2>3, AcceptFileTells DEF Judged
      <3>2. RejectForStat(i, context) = AcceptFile(i)
        BY <2>3, <3>1, ResultIs DEF Or
      <3> QED
        BY <3>1, <3>2
    <2>4. CASE context = "DirOnly"
      <3>1. RejectForStat(i, context) = Or(AcceptFile(i), "TrailingSlashOnFile")
        BY <1>5, <2>0, <2>4 DEF RejectForStat
      <3>2. CASE FileOK(tree, i)
        <4>1. RejectForStat(i, context) = Rejected("TrailingSlashOnFile")
          BY <2>2, <2>4, <3>1, <3>2 DEF Reasons
        <4> QED
          BY <1>5, <2>4, <4>1, ResultIs, HoldsIs DEF Reasons
      <3> QED
        BY <2>3, <3>1, <3>2
    <2>5. CASE context \notin {"Intermediate", "DirOnly"}
      <3>1. RejectForStat(i, context) = Or(AcceptFile(i), "NotWorldReadable")
        BY <1>5, <2>0, <2>5 DEF RejectForStat
      <3>2. CASE FileOK(tree, i)
        <4>1. RejectForStat(i, context) = Rejected("NotWorldReadable") /\ i \in tree.roth
          BY <2>2, <2>5, <3>1, <3>2 DEF Reasons, FileOK
        <4> QED
          BY <1>5, <2>5, <4>1, ResultIs DEF Reasons
      <3> QED
        BY <2>3, <3>1, <3>2
    <2> QED
      BY <2>1, <2>4, <2>5
  <1> QED
    BY <1>1, <1>2, <1>3, <1>4, <1>5, KindAssumption DEF Dirs, Files

-------------------------------------------------------------------------------
\* Where others may search d, whoever runs check looks up what the entry is.
LEMMA LookupTells ==
    ASSUME TypeOK, NEW who, NEW d \in Dirs, DirOK(tree, d), NEW n \in Names
    PROVE  LET x == tree.entry[d][n] IN
           /\ x \in Inodes \cup {NoInode} /\ NoInode \notin Inodes
           /\ Lookup(who, d, n) = x
           /\ OpenProbe(who, d, n) = x \/ OpenProbe(who, d, n) = NoInode
           /\ OpenProbe(who, d, n) = NoInode /\ x \in Inodes => Kind[x] = "link" \/ x \notin tree.roth
           /\ \/ OpenTraverse(who, site.platform, d, n) = NoInode
              \/ OpenTraverse(who, site.platform, d, n) = x /\ x \in Dirs
           /\ site.platform # "rdonly" /\ DirOK(tree, x) =>
              OpenTraverse(who, site.platform, d, n) = x
  <1> DEFINE x == tree.entry[d][n]
  <1>1. x \in Inodes \cup {NoInode} /\ NoInode \notin Inodes
    BY InodesAssumption DEF TypeOK, TreeOK, Trees
  <1>2. Lookup(who, d, n) = x
    BY DEF Lookup, CanSearch, DirOK
  <1> HIDE DEF x
  <1>3. /\ OpenProbe(who, d, n) = x \/ OpenProbe(who, d, n) = NoInode
        /\ OpenProbe(who, d, n) = NoInode /\ x \in Inodes => Kind[x] = "link" \/ x \notin tree.roth
    BY <1>1, <1>2 DEF OpenProbe, If, CanRead
  <1>4. \/ OpenTraverse(who, site.platform, d, n) = NoInode
        \/ OpenTraverse(who, site.platform, d, n) = x /\ x \in Dirs
    BY <1>2 DEF OpenTraverse, If
  <1>5. ASSUME site.platform # "rdonly", DirOK(tree, x)
        PROVE  OpenTraverse(who, site.platform, d, n) = x
    BY <1>2, <1>5, SiteType DEF OpenTraverse, If, DirOK, Enterable, CanSearch
  <1> QED
    BY <1>1, <1>2, <1>3, <1>4, <1>5 DEF x

\* diagnose_child never accepts.
LEMMA DiagnoseTells ==
    ASSUME TypeOK, NEW who, NEW d \in Dirs, DirOK(tree, d), NEW n \in Names, NEW context
    PROVE  Refused(DiagnoseChild(who, d, n, context))
  <1>1. CASE Lookup(who, d, n) = NoInode
    BY <1>1, ResultIs DEF DiagnoseChild, Reasons
  <1>2. CASE Lookup(who, d, n) # NoInode
    <2>1. Lookup(who, d, n) \in Inodes
      BY <1>2, LookupTells
    <2> QED
      BY <1>2, <2>1, RejectTells DEF DiagnoseChild
  <1> QED
    BY <1>1, <1>2

\* open_child_dir_diagnostic takes what the daemon could enter.
LEMMA ChildDirTells ==
    ASSUME TypeOK, site.platform # "rdonly", NEW who, NEW d \in Dirs, DirOK(tree, d),
           NEW n \in Names
    PROVE  Judged(ChildDir(who, d, n), tree.entry[d][n], DirOK(tree, tree.entry[d][n]))
  <1> DEFINE x == tree.entry[d][n]
             i == OpenTraverse(who, site.platform, d, n)
  <1>0. /\ i = NoInode \/ (i = x /\ x \in Dirs)
        /\ DirOK(tree, x) => i = x
        /\ DirOK(tree, x) => x # NoInode
    BY LookupTells, Kinds DEF DirOK
  <1>1. CASE i = NoInode
    <2>1. ChildDir(who, d, n) = DiagnoseChild(who, d, n, "Intermediate")
      BY <1>1 DEF ChildDir
    <2> QED
      BY <1>0, <1>1, <2>1, DiagnoseTells DEF Judged
  <1>2. CASE i # NoInode
    <2>1. ChildDir(who, d, n) = AcceptDir(x)
      BY <1>0, <1>2 DEF ChildDir
    <2> HIDE DEF x, i
    <2> QED
      BY <1>0, <1>2, <2>1, AcceptDirTells DEF x
  <1> QED
    BY <1>1, <1>2

\* A last component is taken as a directory, or as a file unless the path ends
\* in a slash.
Taken(i) == CanEnter(tree, i) \/ (~request.dirOnly /\ FileOK(tree, i))

\* open_leaf_diagnostic takes what the daemon would take as the last component.
LEMMA LeafTells ==
    ASSUME TypeOK, site.platform # "rdonly", NEW who, NEW d \in Dirs, DirOK(tree, d),
           NEW n \in Names
    PROVE  Judged(Leaf(who, d, n), tree.entry[d][n], Taken(tree.entry[d][n]))
  <1> DEFINE x == tree.entry[d][n]
             i == OpenProbe(who, d, n)
  <1>0. /\ i = NoInode \/ i = x
        /\ i = NoInode /\ x \in Inodes => Kind[x] = "link" \/ x \notin tree.roth
        /\ x \in Inodes \cup {NoInode} /\ NoInode \notin Inodes
    BY LookupTells
  <1>1. CanEnter(tree, x) <=> DirOK(tree, x)
    BY DEF CanEnter
  <1>2. Judged(ChildDir(who, d, n), x, DirOK(tree, x))
    BY ChildDirTells
  <1> SUFFICES Judged(Leaf(who, d, n), x, Taken(x))
    OBVIOUS
  <1> HIDE DEF x, i
  <1>3. ASSUME NEW context PROVE Judged(LeafDir(who, d, n, context), x, DirOK(tree, x))
    <2>1. CASE DirOK(tree, x)
      BY <1>2, <2>1, ResultIs DEF LeafDir, Judged
    <2>2. CASE ~DirOK(tree, x)
      <3>1. LeafDir(who, d, n, context) = DiagnoseChild(who, d, n, context)
        BY <1>2, <2>2, ResultIs DEF LeafDir, Judged
      <3> QED
        BY <2>2, <3>1, DiagnoseTells DEF Judged
    <2> QED
      BY <2>1, <2>2
  <1>4. CASE request.dirOnly
    <2>1. Leaf(who, d, n) = LeafDir(who, d, n, "DirOnly")
      BY <1>4 DEF Leaf
    <2>2. Taken(x) <=> DirOK(tree, x)
      BY <1>1, <1>4 DEF Taken
    <2> QED
      BY <1>3, <2>1, <2>2 DEF Judged
  <1>5. CASE ~request.dirOnly /\ i = NoInode
    <2>1. Leaf(who, d, n) = LeafDir(who, d, n, "Leaf")
      BY <1>0, <1>5 DEF Leaf, i, Dirs, Files
    <2>2. ~FileOK(tree, x)
      BY <1>0, <1>5 DEF FileOK, Files
    <2>3. Taken(x) <=> DirOK(tree, x)
      BY <1>1, <2>2 DEF Taken
    <2> QED
      BY <1>3, <2>1, <2>3 DEF Judged
  <1>6. CASE ~request.dirOnly /\ i # NoInode
    <2>0. i = x /\ x \in Inodes
      BY <1>0, <1>6
    <2>1. CASE x \in Dirs
      <3>1. Leaf(who, d, n) = AcceptDir(x)
        BY <1>6, <2>0, <2>1 DEF Leaf, i, Dirs, Files
      <3>2. ~FileOK(tree, x)
        BY <2>1, Kinds
      <3> QED
        <4>1. Taken(x) <=> DirOK(tree, x)
          BY <1>1, <3>2 DEF Taken
        <4> QED
          BY <2>1, <3>1, <4>1, AcceptDirTells DEF Judged
    <2>2. CASE x \in Files
      <3>1. Leaf(who, d, n) = AcceptFile(x)
        BY <1>6, <2>0, <2>2 DEF Leaf, i, Dirs, Files
      <3>2. ~DirOK(tree, x)
        BY <2>2 DEF DirOK, Dirs, Files
      <3> QED
        <4>1. Taken(x) <=> FileOK(tree, x)
          BY <1>1, <1>6, <3>2 DEF Taken
        <4> QED
          BY <2>2, <3>1, <4>1, AcceptFileTells DEF Judged
    <2>3. CASE x \notin Dirs \cup Files
      <3>1. Leaf(who, d, n) = RejectForStat(x, "Leaf")
        BY <1>6, <2>0, <2>3 DEF Leaf, i
      <3>2. ~DirOK(tree, x) /\ ~FileOK(tree, x)
        BY <2>3 DEF DirOK, FileOK
      <3> QED
        BY <1>1, <2>0, <3>1, <3>2, RejectTells DEF Taken, Judged
    <2> QED
      BY <2>1, <2>2, <2>3
  <1> QED
    BY <1>4, <1>5, <1>6

\* The entries of a listing, and its index.
LEMMA ClassifyTells ==
    ASSUME TypeOK, site.platform # "rdonly", NEW who, NEW d \in Dirs, DirOK(tree, d),
           NEW n \in Names
    PROVE  LET x == tree.entry[d][n] IN
           Judged(ClassifyChild(who, d, n), x, FileOK(tree, x) \/ Listable(tree, x))
  <1> DEFINE x == tree.entry[d][n]
             i == OpenProbe(who, d, n)
  <1>0. /\ i = NoInode \/ i = x
        /\ i = NoInode /\ x \in Inodes => Kind[x] = "link" \/ x \notin tree.roth
        /\ x \in Inodes \cup {NoInode} /\ NoInode \notin Inodes
    BY LookupTells
  <1>1. Judged(ChildDir(who, d, n), x, DirOK(tree, x))
    BY ChildDirTells
  <1> HIDE DEF x, i
  <1>2. ASSUME NEW result, Judged(result, x, DirOK(tree, x))
        PROVE  Judged(AcceptListable(result), x, Listable(tree, x))
    <2>1. CASE ~DirOK(tree, x)
      BY <1>2, <2>1, ResultIs DEF Judged, AcceptListable, Listable
    <2>2. CASE DirOK(tree, x) /\ x \notin tree.roth
      BY <1>2, <2>2, ResultIs DEF Judged, AcceptListable, Listable, Reasons
    <2>3. CASE DirOK(tree, x) /\ x \in tree.roth
      BY <1>2, <2>3, ResultIs DEF Judged, AcceptListable, Listable
    <2> QED
      BY <2>1, <2>2, <2>3
  <1>3. CASE i = NoInode
    <2>1. ClassifyChild(who, d, n) = AcceptListable(ChildDir(who, d, n))
      BY <1>0, <1>3 DEF ClassifyChild, i, Dirs, Files
    <2>2. ~FileOK(tree, x)
      BY <1>0, <1>3 DEF FileOK, Files
    <2> QED
      BY <1>1, <1>2, <2>1, <2>2 DEF Judged, x
  <1>4. CASE i # NoInode /\ x \in Dirs
    <2>1. ClassifyChild(who, d, n) = AcceptListable(AcceptDir(x))
      BY <1>0, <1>4 DEF ClassifyChild, i, Dirs, Files
    <2>2. ~FileOK(tree, x)
      BY <1>4, Kinds
    <2>3. Judged(AcceptDir(x), x, DirOK(tree, x))
      BY <1>4, AcceptDirTells
    <2> QED
      BY <1>2, <2>1, <2>2, <2>3 DEF Judged, x
  <1>5. CASE i # NoInode /\ x \in Files
    <2>1. ClassifyChild(who, d, n) = AcceptFile(x)
      BY <1>0, <1>5 DEF ClassifyChild, i, Dirs, Files
    <2>2. ~Listable(tree, x)
      BY <1>5 DEF Listable, DirOK, Dirs, Files
    <2> QED
      BY <1>5, <2>1, <2>2, AcceptFileTells DEF Judged, x
  <1>6. CASE i # NoInode /\ x \notin Dirs \cup Files
    <2>1. ClassifyChild(who, d, n) = RejectForStat(x, "Leaf") /\ x \in Inodes
      BY <1>0, <1>6 DEF ClassifyChild, i
    <2>2. ~FileOK(tree, x) /\ ~Listable(tree, x)
      BY <1>6 DEF FileOK, Listable, DirOK
    <2> QED
      BY <2>1, <2>2, RejectTells DEF Judged, x
  <1> QED
    BY <1>3, <1>4, <1>5, <1>6

\* The listing that check makes is the daemon's.
LEMMA CollectedTells ==
    ASSUME TypeOK, site.platform # "rdonly", NEW who, NEW d \in Dirs, DirOK(tree, d)
    PROVE  Collected(who, d) = PublicEntries(tree, d)
  <1> DEFINE Shown(n) == FileOK(tree, tree.entry[d][n]) \/ Listable(tree, tree.entry[d][n])
  <1>1. ASSUME NEW n \in NamesIn(tree, d)
        PROVE  /\ IsAccepted(ClassifyChild(who, d, n)) <=> Shown(n)
               /\ Shown(n) => (ClassifyChild(who, d, n).fd \in Dirs) = (Kind[tree.entry[d][n]] = "dir")
    <2> DEFINE x == tree.entry[d][n]
    <2>1. n \in Names /\ x \in Inodes
      BY DEF NamesIn
    <2>2. Judged(ClassifyChild(who, d, n), x, Shown(n))
      BY <2>1, ClassifyTells
    <2>3. CASE Shown(n)
      <3>1. IsAccepted(ClassifyChild(who, d, n)) /\ ClassifyChild(who, d, n).fd = x
        BY <2>2, <2>3, ResultIs DEF Judged
      <3> QED
        BY <2>1, <2>3, <3>1 DEF Dirs
    <2>4. CASE ~Shown(n)
      BY <2>2, <2>4, ResultIs DEF Judged
    <2> QED
      BY <2>3, <2>4
  <1> QED
    BY <1>1 DEF Collected, PublicEntries

-------------------------------------------------------------------------------
\* What each reason says of the path: for a directory on it, and for its end.
LEMMA OnPathIs ==
    ASSUME TypeOK, NEW k \in 1 .. N, CanEnter(tree, Named(tree, k-1))
    PROVE  /\ Named(tree, k-1) \in Dirs /\ DirOK(tree, Named(tree, k-1))
           /\ request.components[k] \in Names
           /\ Named(tree, k) = tree.entry[Named(tree, k-1)][request.components[k]]
           /\ Named(tree, k) # NoInode => Named(tree, k) \in OnTheWay /\ Named(tree, k) \in Inodes
           /\ Named(tree, k) = NoInode => Holds("Missing")
  <1>0. request.components \in Seq(Names) /\ N \in Nat /\ N = Len(request.components)
        /\ tree \in Trees
    BY RequestType DEF TypeOK, TreeOK
  <1>1. Named(tree, k-1) \in Dirs /\ DirOK(tree, Named(tree, k-1))
    BY Kinds
  <1>2. request.components[k] \in Names
    BY <1>0
  <1>3. /\ Named(tree, k) = tree.entry[Named(tree, k-1)][request.components[k]]
        /\ Named(tree, k) \in Inodes \cup {NoInode}
    BY <1>0, NamedStep
  <1>4. Named(tree, k) # NoInode => Named(tree, k) \in OnTheWay
    BY <1>0 DEF OnTheWay
  <1>5. Named(tree, k) = NoInode => Holds("Missing")
    BY HoldsIs
  <1> QED
    BY <1>1, <1>2, <1>3, <1>4, <1>5

\* Why a component was not opened,
LEMMA DiagnoseHolds ==
    ASSUME TypeOK, NEW who, NEW k \in 1 .. N, CanEnter(tree, Named(tree, k-1)),
           ~DirOK(tree, Named(tree, k)), NEW context,
           context = "Intermediate" => k # N,
           context = "DirOnly" => k = N /\ request.dirOnly,
           context \notin {"Intermediate", "DirOnly"} =>
               Named(tree, k) \notin tree.roth \/ Named(tree, k) \notin Files
    PROVE  Holds(DiagnoseChild(who, Named(tree, k-1), request.components[k], context).reason)
  <1> DEFINE d == Named(tree, k-1)
             n == request.components[k]
             x == Named(tree, k)
  <1>1. /\ d \in Dirs /\ DirOK(tree, d) /\ n \in Names
        /\ x # NoInode => x \in OnTheWay /\ x \in Inodes
        /\ x = NoInode => Holds("Missing")
        /\ x = tree.entry[d][n]
    BY OnPathIs
  <1>2. Lookup(who, d, n) = x
    BY <1>1, LookupTells
  <1> HIDE DEF d, n
  <1>3. CASE x = NoInode
    <2>1. DiagnoseChild(who, d, n, context) = Rejected("Missing")
      BY <1>2, <1>3 DEF DiagnoseChild
    <2> QED
      BY <1>1, <1>3, <2>1, ResultIs DEF d, n
  <1>4. CASE x # NoInode
    <2>1. DiagnoseChild(who, d, n, context) = RejectForStat(x, context)
      BY <1>2, <1>4 DEF DiagnoseChild
    <2>2. context = "Intermediate" => \E j \in 1 .. N - 1 : Named(tree, j) = x
      <3>1. N \in Nat
        BY RequestType
      <3>2. k # N => k \in 1 .. N - 1
        BY <3>1
      <3> QED
        BY <3>2
    <2>3. context = "DirOnly" => request.dirOnly /\ Target(tree) = x
      BY DEF Target, N
    <2>4. Holds(RejectForStat(x, context).reason)
      <3> HIDE DEF x
      <3>1. x \in Inodes /\ x \in OnTheWay
        BY <1>1, <1>4
      <3>2. ~DirOK(tree, x)
        BY DEF x
      <3>3. context \notin {"Intermediate", "DirOnly"} => x \notin tree.roth \/ x \notin Files
        BY DEF x
      <3> QED
        BY <2>2, <2>3, <3>1, <3>2, <3>3, RejectTells
    <2> QED
      BY <2>1, <2>4 DEF d, n
  <1> QED
    BY <1>3, <1>4

\* why a directory on the way was refused,
LEMMA ChildDirHolds ==
    ASSUME TypeOK, NEW who, NEW k \in 1 .. N, k # N,
           CanEnter(tree, Named(tree, k-1)), ~DirOK(tree, Named(tree, k))
    PROVE  Holds(ChildDir(who, Named(tree, k-1), request.components[k]).reason)
  <1> DEFINE d == Named(tree, k-1)
             n == request.components[k]
             x == Named(tree, k)
             i == OpenTraverse(who, site.platform, d, n)
  <1>1. /\ d \in Dirs /\ DirOK(tree, d) /\ n \in Names
        /\ x # NoInode => x \in OnTheWay /\ x \in Inodes
        /\ x = tree.entry[d][n]
    BY OnPathIs
  <1>2. i = NoInode \/ (i = x /\ x \in Dirs)
    BY <1>1, LookupTells
  <1>3. CASE i = NoInode
    <2>1. ChildDir(who, d, n) = DiagnoseChild(who, d, n, "Intermediate")
      BY <1>3 DEF ChildDir
    <2>2. Holds(DiagnoseChild(who, d, n, "Intermediate").reason)
      BY DiagnoseHolds
    <2> QED
      BY <2>1, <2>2
  <1>4. CASE i # NoInode
    <2>1. ChildDir(who, d, n) = AcceptDir(x) /\ x \in Dirs /\ x # NoInode
      BY <1>2, <1>4 DEF ChildDir
    <2>2. Holds(AcceptDir(x).reason)
      BY <1>1, <2>1, AcceptDirTells
    <2> QED
      BY <2>1, <2>2
  <1> QED
    BY <1>3, <1>4

\* why the last component was,
LEMMA LeafHolds ==
    ASSUME TypeOK, site.platform # "rdonly", NEW who, N # 0,
           CanEnter(tree, Named(tree, N-1)), ~Taken(Target(tree))
    PROVE  Holds(Leaf(who, Named(tree, N-1), request.components[N]).reason)
  <1> DEFINE d == Named(tree, N-1)
             n == request.components[N]
             x == Named(tree, N)
             i == OpenProbe(who, d, n)
  <1>0. N \in 1 .. N /\ x = Target(tree)
    BY RequestType DEF Target, N
  <1>1. /\ d \in Dirs /\ DirOK(tree, d) /\ n \in Names
        /\ x # NoInode => x \in OnTheWay /\ x \in Inodes
        /\ x = tree.entry[d][n]
    BY <1>0, OnPathIs
  <1>2. /\ i = NoInode \/ i = x
        /\ i = NoInode /\ x \in Inodes => Kind[x] = "link" \/ x \notin tree.roth
        /\ NoInode \notin Inodes
    BY <1>1, LookupTells
  <1>3. ~DirOK(tree, x) /\ (request.dirOnly \/ ~FileOK(tree, x))
    BY <1>0 DEF Taken, CanEnter
  <1>4. \A context :
           LeafDir(who, d, n, context) = DiagnoseChild(who, d, n, context)
    <2>1. Judged(ChildDir(who, d, n), x, DirOK(tree, x))
      BY <1>1, ChildDirTells
    <2> HIDE DEF d, n, x
    <2> QED
      BY <1>3, <2>1, ResultIs DEF LeafDir, Judged
  <1>5. CASE request.dirOnly
    <2>1. Leaf(who, d, n) = DiagnoseChild(who, d, n, "DirOnly")
      BY <1>4, <1>5 DEF Leaf
    <2>2. Holds(DiagnoseChild(who, d, n, "DirOnly").reason)
      BY <1>0, <1>3, <1>5, DiagnoseHolds
    <2> QED
      BY <2>1, <2>2
  <1>6. CASE ~request.dirOnly /\ i = NoInode
    <2>1. Leaf(who, d, n) = DiagnoseChild(who, d, n, "Leaf")
      BY <1>2, <1>4, <1>6 DEF Leaf, Dirs, Files
    <2>2. x \notin tree.roth \/ x \notin Files
      BY <1>2, <1>6 DEF Files
    <2>3. Holds(DiagnoseChild(who, d, n, "Leaf").reason)
      BY <1>0, <1>3, <2>2, DiagnoseHolds
    <2> QED
      BY <2>1, <2>3
  <1>7. CASE ~request.dirOnly /\ i # NoInode
    <2> HIDE DEF d, n, x
    <2>0. i = x /\ x # NoInode /\ x \in OnTheWay /\ x \in Inodes
      BY <1>1, <1>2, <1>7
    <2>1. CASE x \in Dirs
      <3>1. Leaf(who, d, n) = AcceptDir(x)
        BY <1>7, <2>0, <2>1 DEF Leaf, Dirs, Files
      <3>2. Holds(AcceptDir(x).reason)
        BY <1>3, <2>0, <2>1, AcceptDirTells
      <3> QED
        BY <3>1, <3>2 DEF d, n
    <2>2. CASE x \in Files
      <3>1. Leaf(who, d, n) = AcceptFile(x)
        BY <1>7, <2>0, <2>2 DEF Leaf, Dirs, Files
      <3>2. Holds(AcceptFile(x).reason)
        BY <1>3, <1>7, <2>0, <2>2, AcceptFileTells
      <3> QED
        BY <3>1, <3>2 DEF d, n
    <2>3. CASE x \notin Dirs \cup Files
      <3>1. Leaf(who, d, n) = RejectForStat(x, "Leaf")
        BY <1>7, <2>0, <2>3 DEF Leaf
      <3>2. Holds(RejectForStat(x, "Leaf").reason)
        BY <1>3, <2>0, <2>3, RejectTells
      <3> QED
        BY <3>1, <3>2 DEF d, n
    <2> QED
      BY <2>1, <2>2, <2>3
  <1> QED
    BY <1>5, <1>6, <1>7

\* and the root, which alone is "not found" where it cannot be searched.
LEMMA RootDirTells ==
    ASSUME TypeOK, site.platform # "rdonly", NEW who
    PROVE  /\ Judged(RootDir(who), Root, DirOK(tree, Root))
           /\ Root \in tree.xoth /\ ~DirOK(tree, Root) => Holds(RootDir(who).reason)
  <1> DEFINE i == OpenSelf(who, site.platform, Root)
  <1>0. Root \in Dirs /\ Root # NoInode /\ Root \in OnTheWay
    <2>1. Root \in Dirs /\ Root # NoInode
      BY InodesAssumption, Kinds
    <2>2. Named(tree, 0) = Root /\ 0 \in 0 .. Len(request.components)
      BY RequestType, NamedStep DEF TypeOK, TreeOK
    <2> QED
      BY <2>1, <2>2 DEF OnTheWay
  <1>1. i = Root \/ i = NoInode
    BY DEF OpenSelf, If
  <1>2. Root \in tree.xoth => i = Root
    BY SiteType DEF OpenSelf, If, CanSearch, Enterable
  <1>3. CASE i = NoInode
    <2>1. RootDir(who) = Rejected("Missing")
      BY <1>3 DEF RootDir
    <2>2. Root \notin tree.xoth /\ ~DirOK(tree, Root)
      BY <1>0, <1>2, <1>3 DEF DirOK
    <2> QED
      BY <2>1, <2>2, ResultIs DEF Judged, Reasons
  <1>4. CASE i = Root
    <2>1. RootDir(who) = AcceptDir(Root)
      BY <1>0, <1>4 DEF RootDir
    <2> QED
      BY <1>0, <2>1, AcceptDirTells
  <1> QED
    BY <1>1, <1>3, <1>4

-------------------------------------------------------------------------------
\* What the result after k components should be.
Good(k) == IF k < N THEN CanEnter(tree, Named(tree, k)) ELSE Taken(Named(tree, k))

DiagnosticFor(result, k) ==
    /\ Judged(result, Named(tree, k), Good(k))
    /\ Root \in tree.xoth /\ ~Good(k) => Holds(result.reason)

\* One component more, from a result that is right.
LEMMA ResolveStep ==
    ASSUME TypeOK, site.platform # "rdonly", NEW who, NEW k \in 1 .. N, NEW before, NEW after,
           DiagnosticFor(before, k - 1),
           after = IF ~IsAccepted(before) THEN before
                   ELSE IF k = N THEN Leaf(who, before.fd, request.components[k])
                   ELSE ChildDir(who, before.fd, request.components[k])
    PROVE  DiagnosticFor(after, k)
  <1> DEFINE d == Named(tree, k-1)
             n == request.components[k]
             x == Named(tree, k)
  <1>0. k - 1 < N /\ N \in Nat /\ k - 1 \in 0 .. N /\ k \in 0 .. N /\ tree \in Trees
    BY RequestType DEF TypeOK, TreeOK
  <1>1. Good(k-1) <=> CanEnter(tree, d)
    BY <1>0 DEF Good
  <1>2. CASE ~CanEnter(tree, d)
    <2>1. after = before /\ Refused(before)
      BY <1>1, <1>2, ResultIs DEF DiagnosticFor, Judged
    <2>2. x = NoInode
      <3>1. k - 1 < k
        BY <1>0
      <3> QED
        BY <1>0, <1>2, <3>1, NamedEnds
    <2>3. ~Good(k)
      BY <2>2, Kinds DEF Good, Taken
    <2> QED
      BY <1>1, <1>2, <2>1, <2>3 DEF DiagnosticFor, Judged
  <1>3. CASE CanEnter(tree, d)
    <2>1. /\ before = Accepted(d) /\ IsAccepted(before) /\ before.fd = d
          /\ d \in Dirs /\ DirOK(tree, d) /\ n \in Names /\ x = tree.entry[d][n]
      BY <1>1, <1>3, ResultIs, OnPathIs DEF DiagnosticFor, Judged
    <2>2. CASE k = N
      <3>1. after = Leaf(who, d, n) /\ x = Target(tree)
        BY <2>1, <2>2 DEF Target, N
      <3>2. Good(k) <=> Taken(x)
        BY <1>0, <2>2 DEF Good
      <3>3. Judged(Leaf(who, d, n), x, Taken(x))
        BY <2>1, LeafTells
      <3>4. ~Taken(x) => Holds(Leaf(who, d, n).reason)
        <4>1. N # 0
          BY <1>0, <2>2
        <4> QED
          BY <1>3, <2>2, <3>1, <4>1, LeafHolds
      <3> HIDE DEF d, n
      <3> QED
        BY <3>1, <3>2, <3>3, <3>4 DEF DiagnosticFor, Judged
    <2>3. CASE k # N
      <3>1. after = ChildDir(who, d, n)
        BY <2>1, <2>3
      <3>2. Good(k) <=> DirOK(tree, x)
        <4>1. k < N
          BY <1>0, <2>3
        <4> QED
          BY <4>1 DEF Good, CanEnter
      <3>3. Judged(ChildDir(who, d, n), x, DirOK(tree, x))
        BY <2>1, ChildDirTells
      <3>4. ~DirOK(tree, x) => Holds(ChildDir(who, d, n).reason)
        BY <1>3, <2>3, ChildDirHolds
      <3> HIDE DEF d, n
      <3> QED
        BY <3>1, <3>2, <3>3, <3>4 DEF DiagnosticFor, Judged
    <2> QED
      BY <2>2, <2>3
  <1> QED
    BY <1>2, <1>3

\* The result for the root.
LEMMA ResolveStart ==
    ASSUME TypeOK, site.platform # "rdonly", NEW who
    PROVE  DiagnosticFor(RootDir(who), 0)
  <1>0. N \in Nat /\ Named(tree, 0) = Root
    BY RequestType, NamedStep DEF TypeOK, TreeOK
  <1>1. ~FileOK(tree, Root) /\ (CanEnter(tree, Root) <=> DirOK(tree, Root))
    BY Kinds, InodesAssumption DEF CanEnter
  <1>2. Good(0) <=> DirOK(tree, Root)
    BY <1>0, <1>1 DEF Good, Taken
  <1> QED
    BY <1>0, <1>2, RootDirTells DEF DiagnosticFor, Judged

\* resolve_diagnostic takes what the walk would take, and its reason is true.
LEMMA ResolveTells ==
    ASSUME TypeOK, site.platform # "rdonly", NEW who
    PROVE  DiagnosticFor(ResolveDiagnostic(who), N)
  <1> DEFINE c == request.components
             After(result, k) ==
                IF ~IsAccepted(result) THEN result
                ELSE IF k = Len(c) THEN Leaf(who, result.fd, c[k])
                ELSE ChildDir(who, result.fd, c[k])
             w[k \in 0 .. Len(c)] == IF k = 0 THEN RootDir(who) ELSE
                IF ~IsAccepted(w[k-1]) THEN w[k-1]
                ELSE IF k = Len(c) THEN Leaf(who, w[k-1].fd, c[k])
                ELSE ChildDir(who, w[k-1].fd, c[k])
  <1>0. N \in Nat /\ N = Len(c)
    BY RequestType
  <1>1. PICK f \in [0 .. N -> Refusals \cup {Accepted(i) : i \in Inodes}] :
          /\ f[0] = RootDir(who)
          /\ \A k \in 1 .. N : f[k] = After(f[k-1], k)
    <2> DEFINE S == {r \in Refusals \cup {Accepted(i) : i \in Inodes} :
                        \E k \in 0 .. N : DiagnosticFor(r, k)}
               step == [p \in S \X (1 .. N) |->
                           IF DiagnosticFor(p[1], p[2] - 1) THEN After(p[1], p[2]) ELSE RootDir(who)]
    <2>1. ASSUME NEW r, NEW k \in 0 .. N, DiagnosticFor(r, k)
          PROVE  r \in S
      <3>1. Named(tree, k) \in Inodes \cup {NoInode}
        BY <1>0, RequestType, NamedStep DEF TypeOK, TreeOK
      <3> QED
        BY <2>1, <3>1 DEF DiagnosticFor, Judged, Refused
    <2>2. RootDir(who) \in S
      <3>1. 0 \in 0 .. N
        BY <1>0
      <3> HIDE DEF S
      <3> QED
        BY <2>1, <3>1, ResolveStart
    <2>3. ASSUME NEW r, NEW k \in 1 .. N, DiagnosticFor(r, k - 1)
          PROVE  /\ DiagnosticFor(After(r, k), k) /\ k \in 0 .. N /\ k - 1 \in 0 .. N
                 /\ After(r, k) \in S /\ r \in S
      <3>1. k \in 0 .. N /\ k - 1 \in 0 .. N
        BY <1>0
      <3>2. After(r, k) = IF ~IsAccepted(r) THEN r
                          ELSE IF k = N THEN Leaf(who, r.fd, request.components[k])
                          ELSE ChildDir(who, r.fd, request.components[k])
        BY <1>0
      <3> HIDE DEF After, S
      <3>3. DiagnosticFor(After(r, k), k)
        BY <2>3, <3>2, ResolveStep
      <3> QED
        BY <2>1, <2>3, <3>1, <3>3
    <2> HIDE DEF S, After
    <2>4. ASSUME NEW r \in S, NEW k \in 1 .. N
          PROVE  /\ step[<<r, k>>] \in S
                 /\ DiagnosticFor(r, k - 1) => step[<<r, k>>] = After(r, k)
      BY <2>2, <2>3
    <2> HIDE DEF step
    <2>5. PICK f \in [0 .. N -> S] : Iterates(f, N, RootDir(who), step)
      BY <1>0, <2>2, <2>4, IterationExists
    <2> DEFINE T == {k \in 0 .. N : DiagnosticFor(f[k], k)}
    <2>6. 0 \in T
      BY <1>0, <2>5, ResolveStart DEF Iterates
    <2>7. ASSUME NEW k \in 1 .. N, k - 1 \in T
          PROVE  k \in T /\ f[k] = After(f[k-1], k)
      <3>1. k - 1 \in 0 .. N /\ f[k-1] \in S /\ DiagnosticFor(f[k-1], k - 1)
        BY <1>0, <2>5, <2>7
      <3>2. f[k] = step[<<f[k-1], k>>]
        BY <2>5 DEF Iterates
      <3>3. f[k] = After(f[k-1], k)
        BY <2>4, <3>1, <3>2
      <3> QED
        BY <2>3, <3>1, <3>3
    <2> HIDE DEF T
    <2>8. 0 .. N \subseteq T
      BY <1>0, <2>6, <2>7, UpTo
    <2>9. ASSUME NEW k \in 1 .. N PROVE f[k] = After(f[k-1], k)
      <3>1. k - 1 \in 0 .. N
        BY <1>0
      <3> QED
        BY <2>7, <2>8, <3>1
    <2>10. S \subseteq Refusals \cup {Accepted(i) : i \in Inodes}
      BY DEF S
    <2> QED
      BY <2>5, <2>9, <2>10 DEF Iterates
  <1>2. f = [k \in 0 .. Len(c) |-> IF k = 0 THEN RootDir(who) ELSE
                IF ~IsAccepted(f[k-1]) THEN f[k-1]
                ELSE IF k = Len(c) THEN Leaf(who, f[k-1].fd, c[k])
                ELSE ChildDir(who, f[k-1].fd, c[k])]
    <2> HIDE DEF c
    <2> QED
      BY <1>0, <1>1
  <1>3. w = [k \in 0 .. Len(c) |-> IF k = 0 THEN RootDir(who) ELSE
                IF ~IsAccepted(w[k-1]) THEN w[k-1]
                ELSE IF k = Len(c) THEN Leaf(who, w[k-1].fd, c[k])
                ELSE ChildDir(who, w[k-1].fd, c[k])]
    BY <1>2
  <1>4. ResolveDiagnostic(who) = w[N]
    BY <1>0 DEF ResolveDiagnostic, w
  <1> HIDE DEF w
  <1> DEFINE T == {k \in 0 .. N : DiagnosticFor(w[k], k)}
  <1>5. 0 \in T
    BY <1>0, <1>3, ResolveStart
  <1>6. ASSUME NEW k \in 1 .. N, k - 1 \in T
        PROVE  k \in T
    <2>1. k \in 0 .. Len(c) /\ k # 0 /\ DiagnosticFor(w[k-1], k - 1)
      BY <1>0, <1>6
    <2>2. w[k] = IF ~IsAccepted(w[k-1]) THEN w[k-1]
                 ELSE IF k = N THEN Leaf(who, w[k-1].fd, request.components[k])
                 ELSE ChildDir(who, w[k-1].fd, request.components[k])
      <3> HIDE DEF c
      <3>1. w[k] = IF ~IsAccepted(w[k-1]) THEN w[k-1]
                   ELSE IF k = Len(c) THEN Leaf(who, w[k-1].fd, c[k])
                   ELSE ChildDir(who, w[k-1].fd, c[k])
        BY <1>3, <2>1
      <3> QED
        BY <1>0, <3>1 DEF c
    <2>3. DiagnosticFor(w[k], k)
      BY <2>1, <2>2, ResolveStep
    <2> QED
      BY <1>0, <2>3
  <1> HIDE DEF T
  <1>7. 0 .. N \subseteq T
    BY <1>0, <1>5, <1>6, UpTo
  <1>8. N \in T
    BY <1>0, <1>7
  <1> QED
    BY <1>4, <1>8 DEF T

-------------------------------------------------------------------------------
\* listing::diagnose decides on what the daemon's listing is made of.
LEMMA ListableDirTells ==
    ASSUME NEW who, NEW d \in Dirs, DirOK(tree, d)
    PROVE  IF Listable(tree, d) THEN ListableDir(who, d) = Accepted(d)
           ELSE ListableDir(who, d) = Rejected("DirectoryNotWorldReadable")
  <1>1. AcceptDir(d) = Accepted(d) /\ d # NoInode
    BY AcceptDirTells DEF Judged
  <1>2. CASE d \notin tree.roth
    <2>1. AcceptListable(AcceptDir(d)) = Rejected("DirectoryNotWorldReadable")
      BY <1>1, <1>2, ResultIs DEF AcceptListable
    <2>2. ~Listable(tree, d)
      BY <1>2 DEF Listable
    <2> QED
      BY <2>1, <2>2, ResultIs DEF ListableDir
  <1>3. CASE d \in tree.roth
    <2>1. AcceptListable(AcceptDir(d)) = Accepted(d)
      BY <1>1, <1>3, ResultIs DEF AcceptListable
    <2>2. Listable(tree, d)
      BY <1>3 DEF Listable
    <2>3. OpenList(who, d) = d
      BY <1>3 DEF OpenList, If, CanSearch, CanRead, DirOK
    <2> QED
      BY <1>1, <2>1, <2>2, <2>3 DEF ListableDir
  <1> QED
    BY <1>2, <1>3

\* listing::diagnose finds the index, or the first thing that forbids a listing.
LEMMA DiagnoseIs ==
    ASSUME TypeOK, site.platform # "rdonly", NEW who, NEW d \in Dirs, DirOK(tree, d)
    PROVE  LET E == PublicEntries(tree, d) IN
           Diagnose(who, d) =
             IF FileOK(tree, tree.entry[d]["index"]) THEN "index"
             ELSE IF ~Listable(tree, d) THEN "DirectoryNotWorldReadable"
             ELSE IF Cardinality(E) > MaxEntries THEN "ListingTooManyEntries"
             ELSE IF Size(E) > MaxBytes THEN "ListingTooManyBytes"
             ELSE "listing"
  <1> DEFINE x == tree.entry[d]["index"]
             child == ClassifyChild(who, d, "index")
  <1>1. child.fd \in Files <=> FileOK(tree, x)
    <2>1. Judged(child, x, FileOK(tree, x) \/ Listable(tree, x))
      BY NamesAssumption, ClassifyTells
    <2>2. NoInode \notin Files
      BY InodesAssumption DEF Files
    <2> HIDE DEF x, child
    <2>3. CASE FileOK(tree, x) \/ Listable(tree, x)
      <3>1. child.fd = x
        BY <2>1, <2>3, ResultIs DEF Judged
      <3>2. Listable(tree, x) => x \notin Files
        BY DEF Listable, DirOK, Dirs, Files
      <3>3. FileOK(tree, x) => x \in Files
        BY Kinds
      <3> QED
        BY <2>3, <3>1, <3>2, <3>3
    <2>4. CASE ~FileOK(tree, x) /\ ~Listable(tree, x)
      BY <2>1, <2>2, <2>4, ResultIs DEF Judged
    <2> QED
      BY <2>3, <2>4
  <1>2. Collected(who, d) = PublicEntries(tree, d)
    BY CollectedTells
  <1> HIDE DEF x
  <1>3. CASE Listable(tree, d)
    <2>1. IsAccepted(ListableDir(who, d))
      BY <1>3, ListableDirTells, ResultIs, Kinds
    <2> QED
      BY <1>1, <1>2, <1>3, <2>1 DEF Diagnose, x
  <1>4. CASE ~Listable(tree, d)
    <2>1. /\ ~IsAccepted(ListableDir(who, d))
          /\ ListableDir(who, d).reason = "DirectoryNotWorldReadable"
      BY <1>4, ListableDirTells, ResultIs
    <2> QED
      BY <1>1, <1>2, <1>4, <2>1 DEF Diagnose, x
  <1> QED
    BY <1>3, <1>4

\* The verdict next to what a reader is to expect.
LEMMA VerdictTells ==
    ASSUME TypeOK, site.platform # "rdonly", NEW who
    PROVE  /\ Verdict(who) \in {"file", "index"} <=> Expected(tree).kind = "file"
           /\ Verdict(who) = "listing" <=> Expected(tree).kind = "listing"
           /\ Root \in tree.xoth => Ok(Verdict(who)) \/ Holds(Verdict(who))
  <1> DEFINE i == Target(tree)
             result == ResolveDiagnostic(who)
  <1>0. /\ tree \in Trees /\ N \in Nat /\ Named(tree, N) = i
        /\ Dirs \cap Files = {} /\ NoInode \notin Dirs \cup Files
        /\ \A r \in Reasons : r \notin {"file", "index", "listing"}
    BY RequestType, InodesAssumption DEF TypeOK, TreeOK, Target, N, Dirs, Files, Reasons
  <1>1. /\ Judged(result, i, Taken(i))
        /\ Root \in tree.xoth /\ ~Taken(i) => Holds(result.reason)
    <2>1. Good(N) <=> Taken(i)
      BY <1>0 DEF Good
    <2> QED
      BY <1>0, <2>1, ResolveTells DEF DiagnosticFor, Judged
  <1>2. CASE ~Taken(i)
    <2>1. result.fd = NoInode /\ result.reason \in Reasons
      BY <1>1, <1>2, ResultIs DEF Judged
    <2>2. Verdict(who) = result.reason
      BY <1>0, <2>1 DEF Verdict
    <2>3. Expected(tree) = NotFound
      BY <1>0, <1>2, Expects DEF Taken
    <2> QED
      BY <1>0, <1>1, <1>2, <2>1, <2>2, <2>3, AnswerKinds
  <1>3. CASE CanEnter(tree, i)
    <2> DEFINE E == PublicEntries(tree, i)
    <2>1. result.fd = i /\ i \in Dirs /\ DirOK(tree, i) /\ i # NoInode
      BY <1>1, <1>3, ResultIs, Kinds DEF Judged, Taken
    <2>2. Verdict(who) = Diagnose(who, i)
      BY <1>0, <2>1 DEF Verdict
    <2>3. Expected(tree) = Contents(tree, i)
      BY <1>0, <1>3, Expects
    <2>4. Cardinality(E) \in Nat
      BY <1>0, <2>1, PublicFinite, FS_CardinalityType
    <2>5. Cardinality(E) > MaxEntries <=> ~(Cardinality(E) <= MaxEntries)
      BY <2>4, BoundsAssumption
    <2>6. i \notin tree.roth => Holds("DirectoryNotWorldReadable")
      <3>1. i \in OnTheWay
        BY <1>0, <2>1 DEF OnTheWay, N
      <3> QED
        BY <2>1, <3>1, HoldsIs
    <2>7. /\ Cardinality(E) > MaxEntries => Holds("ListingTooManyEntries")
          /\ Size(E) > MaxBytes => Holds("ListingTooManyBytes")
      BY HoldsIs
    <2>8. ~Listable(tree, i) => i \notin tree.roth
      BY <2>1 DEF Listable
    <2> DEFINE f == tree.entry[i]["index"]
    <2>9. Diagnose(who, i) =
            IF FileOK(tree, f) THEN "index"
            ELSE IF ~Listable(tree, i) THEN "DirectoryNotWorldReadable"
            ELSE IF Cardinality(E) > MaxEntries THEN "ListingTooManyEntries"
            ELSE IF Size(E) > MaxBytes THEN "ListingTooManyBytes"
            ELSE "listing"
      BY <2>1, DiagnoseIs
    <2>10. Contents(tree, i) =
            IF FileOK(tree, f) THEN File(f)
            ELSE IF Listable(tree, i) /\ ~(Cardinality(E) > MaxEntries) /\ ~(Size(E) > MaxBytes)
                 THEN Listing(E) ELSE NotFound
      BY <2>5 DEF Contents
    <2> HIDE DEF E, f, i
    <2>11. CASE FileOK(tree, f)
      BY <2>2, <2>3, <2>9, <2>10, <2>11, AnswerKinds DEF Ok
    <2>12. CASE ~FileOK(tree, f) /\ ~Listable(tree, i)
      BY <2>2, <2>3, <2>6, <2>8, <2>9, <2>10, <2>12, AnswerKinds DEF Ok
    <2>13. CASE ~FileOK(tree, f) /\ Listable(tree, i) /\ Cardinality(E) > MaxEntries
      BY <2>2, <2>3, <2>7, <2>9, <2>10, <2>13, AnswerKinds DEF Ok
    <2>14. CASE /\ ~FileOK(tree, f) /\ Listable(tree, i) /\ ~(Cardinality(E) > MaxEntries)
                /\ Size(E) > MaxBytes
      BY <2>2, <2>3, <2>7, <2>9, <2>10, <2>14, AnswerKinds DEF Ok
    <2>15. CASE /\ ~FileOK(tree, f) /\ Listable(tree, i) /\ ~(Cardinality(E) > MaxEntries)
                /\ ~(Size(E) > MaxBytes)
      BY <2>2, <2>3, <2>9, <2>10, <2>15, AnswerKinds DEF Ok
    <2> QED
      BY <2>11, <2>12, <2>13, <2>14, <2>15
  <1>4. CASE ~CanEnter(tree, i) /\ ~request.dirOnly /\ FileOK(tree, i)
    <2>1. result.fd = i /\ i \in Files
      BY <1>1, <1>4, ResultIs, Kinds DEF Judged, Taken
    <2>2. Verdict(who) = "file"
      BY <1>0, <2>1 DEF Verdict
    <2>3. Expected(tree) = File(i)
      BY <1>0, <1>4, Expects
    <2> QED
      BY <2>2, <2>3, AnswerKinds DEF Ok
  <1> QED
    BY <1>2, <1>3, <1>4 DEF Taken

\* In a tree of any size that nobody changes, OpenBSD aside, whoever runs check is
\* told what the daemon answers: served or not, as a file or as a listing.
THEOREM CheckTellsTheAnswer == Spec => []CheckAgrees
  <1>1. TypeOK /\ QuietAnswer => CheckAgrees
    <2> SUFFICES ASSUME TypeOK, QuietAnswer, Comparable, site.platform # "rdonly", NEW who \in Authors
                 PROVE  /\ Verdict(who) \in {"file", "index"} <=> answer.kind = "file"
                        /\ Verdict(who) = "listing" <=> answer.kind = "listing"
      BY DEF CheckAgrees
    <2>1. answer = Expected(tree)
      BY DEF QuietAnswer, Comparable
    <2> QED
      BY <2>1, VerdictTells
  <1> QED
    BY <1>1, ResolverTypeOK, ResolverQuietAnswer, PTL

\* A reason that check gives names something that is on the requested path, in a
\* tree at rest, OpenBSD and a root that its author cannot search aside.
THEOREM CheckReasonIsTrue == Spec => []ReasonHolds
  <1>1. TypeOK => ReasonHolds
    BY VerdictTells DEF ReasonHolds
  <1> QED
    BY <1>1, ResolverTypeOK, PTL
===============================================================================
