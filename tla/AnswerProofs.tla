----------------------------- MODULE AnswerProofs -----------------------------
(***************************************************************************)
(* The walk of the daemon answers what a reader of the tree expects, for   *)
(* every tree, request and site: where nobody changes the tree, and where  *)
(* the same file is expected at every moment of the request.  What a path  *)
(* names is defined by recursion over its components (Named); the lemmas   *)
(* come first that say of such functions that they exist, that they are    *)
(* unique, and what induction over 0 .. n shows.  A step is a function and *)
(* what is shown by induction a set in them, where the theorems of         *)
(* NaturalsInduction take operators.                                       *)
(***************************************************************************)
EXTENDS ResolverProofs, WellFoundedInduction

\* f[0] is the start and every later value comes from the one before.
Iterates(f, n, start, step) ==
    f[0] = start /\ \A k \in 1 .. n : f[k] = step[<<f[k-1], k>>]
\* Every set of numbers that is not empty has a least one.
LEMMA LeastNumber ==
    ASSUME NEW T \in SUBSET Nat, T # {}
    PROVE  \E x \in T : \A y \in T : ~(y < x)
  <1> DEFINE Less == {p \in Nat \X Nat : p[1] < p[2]}
  <1>1. IsWellFoundedOn(Less, Nat)
    BY NatLessThanWellFounded DEF OpToRel
  <1> HIDE DEF Less
  <1>2. PICK x \in T : \A y \in T : <<y, x>> \notin Less
    BY <1>1, WFMin
  <1> QED
    BY <1>2 DEF Less

\* Induction up to n: a set with 0 and the successors of its members has it all.
LEMMA UpTo ==
    ASSUME NEW n \in Nat, NEW T, 0 \in T, \A k \in 1 .. n : k - 1 \in T => k \in T
    PROVE  0 .. n \subseteq T
  <1> SUFFICES ASSUME 0 .. n \ T # {} PROVE FALSE
    OBVIOUS
  <1> DEFINE Out == 0 .. n \ T
  <1>0. Out \in SUBSET Nat /\ Out # {}
    OBVIOUS
  <1> HIDE DEF Out
  <1>1. PICK x \in Out : \A y \in Out : ~(y < x)
    BY <1>0, LeastNumber
  <1> USE DEF Out
  <1>2. x \in 1 .. n /\ x - 1 \in 0 .. n
    BY <1>1
  <1>3. x - 1 \in T
    BY <1>1, <1>2
  <1> QED
    BY <1>1, <1>2, <1>3

\* A step that stays in S can be iterated.
LEMMA IterationExists ==
    ASSUME NEW S, NEW start \in S, NEW n \in Nat, NEW step,
           \A x \in S, k \in 1 .. n : step[<<x, k>>] \in S
    PROVE  \E f \in [0 .. n -> S] : Iterates(f, n, start, step)
  <1> DEFINE T == {k \in 0 .. n : \E f \in [0 .. k -> S] : Iterates(f, k, start, step)}
  <1>1. 0 \in T
    <2> DEFINE f == [j \in 0 .. 0 |-> start]
    <2>1. f \in [0 .. 0 -> S] /\ Iterates(f, 0, start, step)
      BY DEF Iterates
    <2> QED
      BY <2>1
  <1>2. ASSUME NEW k \in 1 .. n, k - 1 \in T
        PROVE  k \in T
    <2>1. PICK g \in [0 .. k - 1 -> S] : Iterates(g, k - 1, start, step)
      BY <1>2
    <2> DEFINE f == [j \in 0 .. k |-> IF j = k THEN step[<<g[k-1], k>>] ELSE g[j]]
    <2>2. step[<<g[k-1], k>>] \in S
      OBVIOUS
    <2>3. f \in [0 .. k -> S]
      BY <2>2
    <2>4. f[0] = start
      BY <2>1 DEF Iterates
    <2>5. ASSUME NEW j \in 1 .. k PROVE f[j] = step[<<f[j-1], j>>]
      <3>1. f[j-1] = g[j-1]
        OBVIOUS
      <3>2. CASE j = k
        <4>1. f[k] = step[<<g[k-1], k>>] /\ f[k-1] = g[k-1]
          BY <3>1, <3>2
        <4> QED
          BY <3>2, <4>1
      <3>3. CASE j # k
        <4>1. j \in 1 .. k - 1
          BY <3>3
        <4> QED
          <5>1. f[j] = g[j]
            BY <3>3
          <5>2. g[j] = step[<<g[j-1], j>>]
            BY <2>1, <4>1 DEF Iterates
          <5> QED
            BY <3>1, <5>1, <5>2
      <3> QED
        BY <3>2, <3>3
    <2> HIDE DEF f
    <2>6. Iterates(f, k, start, step)
      BY <2>4, <2>5 DEF Iterates
    <2> QED
      BY <2>3, <2>6
  <1> HIDE DEF T
  <1>3. n \in T
    BY <1>1, <1>2, UpTo
  <1> QED
    BY <1>3 DEF T

\* Two iterations from the same start agree as far as both go.
LEMMA IterationUnique ==
    ASSUME NEW start, NEW step, NEW m \in Nat, NEW n \in Nat, m <= n, NEW f, NEW g,
           Iterates(f, m, start, step), Iterates(g, n, start, step)
    PROVE  \A k \in 0 .. m : f[k] = g[k]
  <1> DEFINE T == {k \in 0 .. m : f[k] = g[k]}
  <1>1. 0 \in T
    BY DEF Iterates
  <1>2. ASSUME NEW k \in 1 .. m, k - 1 \in T
        PROVE  k \in T
    <2>1. f[k-1] = g[k-1] /\ k \in 1 .. n
      BY <1>2
    <2>2. f[k] = step[<<f[k-1], k>>] /\ g[k] = step[<<g[k-1], k>>]
      BY <2>1 DEF Iterates
    <2> QED
      BY <2>1, <2>2
  <1> HIDE DEF T
  <1>3. 0 .. m \subseteq T
    BY <1>1, <1>2, UpTo
  <1> QED
    BY <1>3 DEF T
-------------------------------------------------------------------------------
N == Len(request.components)

\* What to expect is the same at every moment.
SteadyFile(i) == \A t \in moments : Expected(t) = File(i)
Sure == moments = {tree} \/ \E i \in Files : SteadyFile(i)

\* Then the path leads over the same inodes at every moment, and what the walk
\* has in hand is on it.
PathKept == \A t \in moments, k \in 0 .. N : Named(t, k) = Named(tree, k)

OnPath ==
    /\ pc = "enter" => /\ fd = Named(tree, Depth) /\ fd \in Dirs
                       /\ DirOK(tree, fd) => CanEnter(tree, fd)
    /\ pc \in Descending => dir = Named(tree, Depth) /\ CanEnter(tree, dir)
    /\ pc = "leaf" => fd = Target(tree)
    /\ pc \in {"leaf", "reopen"} => ~request.dirOnly
    /\ pc \in AtTarget => dir = Target(tree) /\ CanEnter(tree, dir)
    /\ pc = "index_leaf" => fd = tree.entry[dir]["index"]

\* With descriptors enough, the walk goes on only from what is no answer yet.
InListing   == {"open_list", "stat_list", "read", "collect"} \cup Classified
Unindexed == {"generate"} \cup InListing

OnlyIfNot ==
    /\ pc = "reopen" => ~FileOK(tree, Target(tree))
    /\ pc \in Unindexed => ~FileOK(tree, tree.entry[dir]["index"])
    /\ pc \in InListing => Listable(tree, dir)

\* The entries in hand are the public ones that have been read.
Public(n) == FileOK(tree, tree.entry[dir][n]) \/ Listable(tree, tree.entry[dir][n])
Unlisted == unread \cup (IF pc \in Classified THEN {Head(todo)} ELSE {})

ReadSoFar ==
    /\ pc \in Collecting =>
          /\ Unlisted \subseteq NamesIn(tree, dir) \ Hidden
          /\ entries = {e \in PublicEntries(tree, dir) : e[1] \notin Unlisted}
    /\ pc \in Classified => Head(todo) \notin unread
    /\ pc \in {"entry", "entry_enter"} => fd = tree.entry[dir][Head(todo)]
    /\ pc \in {"entry_dir", "entry_enter"} => ~Public(Head(todo))

AsExpected ==
    Done => /\ Enough => answer = Expected(tree)
            /\ answer.kind = "file" => answer = Expected(tree)

AnswerInv ==
    Sure => PathKept /\ OnPath /\ (Enough => OnlyIfNot /\ ReadSoFar) /\ AsExpected
-------------------------------------------------------------------------------
\* One step of the recursion of Named.
Down(t) == [p \in (Inodes \cup {NoInode}) \X (1 .. N) |->
    IF CanEnter(t, p[1]) THEN t.entry[p[1]][request.components[p[2]]] ELSE NoInode]

\* Named is that recursion.
LEMMA NamedIs ==
    ASSUME NEW t \in Trees, request.components \in Seq(Names), NEW k \in 0 .. N
    PROVE  \E f : Iterates(f, k, Root, Down(t)) /\ Named(t, k) = f[k]
                  /\ f \in [0 .. k -> Inodes \cup {NoInode}]
  <1> DEFINE S == Inodes \cup {NoInode}
             c == request.components
             w[j \in 0 .. k] ==
                IF j = 0 THEN Root
                ELSE IF CanEnter(t, w[j-1]) THEN t.entry[w[j-1]][c[j]] ELSE NoInode
  <1>0. N \in Nat /\ N = Len(c) /\ k \in Nat /\ Root \in S
    BY InodesAssumption DEF N, Dirs
  <1>1. ASSUME NEW x \in S, NEW j \in 1 .. k
        PROVE  /\ Down(t)[<<x, j>>] = IF CanEnter(t, x) THEN t.entry[x][c[j]] ELSE NoInode
               /\ Down(t)[<<x, j>>] \in S
    <2>1. j \in 1 .. N /\ c[j] \in Names
      BY <1>0
    <2>2. CanEnter(t, x) => x \in Dirs
      BY DEF CanEnter, DirOK
    <2> QED
      BY <2>1, <2>2 DEF Down, Trees
  <1>2. PICK f \in [0 .. k -> S] : Iterates(f, k, Root, Down(t))
    <2> HIDE DEF S
    <2>1. \A x \in S, j \in 1 .. k : Down(t)[<<x, j>>] \in S
      BY <1>1
    <2> QED
      BY <1>0, <2>1, IterationExists
  <1>3. ASSUME NEW j \in 1 .. k
        PROVE  f[j] = IF CanEnter(t, f[j-1]) THEN t.entry[f[j-1]][c[j]] ELSE NoInode
    <2>1. f[j-1] \in S /\ f[j] = Down(t)[<<f[j-1], j>>]
      BY <1>2 DEF Iterates
    <2> QED
      BY <1>1, <2>1
  <1>4. f = [j \in 0 .. k |->
                IF j = 0 THEN Root
                ELSE IF CanEnter(t, f[j-1]) THEN t.entry[f[j-1]][c[j]] ELSE NoInode]
    BY <1>2, <1>3 DEF Iterates
  <1>5. w = [j \in 0 .. k |->
                IF j = 0 THEN Root
                ELSE IF CanEnter(t, w[j-1]) THEN t.entry[w[j-1]][c[j]] ELSE NoInode]
    BY <1>4
  <1> HIDE DEF w
  <1>6. w[0] = Root
    BY <1>5
  <1>7. ASSUME NEW j \in 1 .. k
        PROVE  w[j] \in S /\ w[j] = IF CanEnter(t, w[j-1]) THEN t.entry[w[j-1]][c[j]] ELSE NoInode
    <2> HIDE DEF c, S
    <2>0. j \in 0 .. k /\ j # 0
      OBVIOUS
    <2>1. w[j] = IF CanEnter(t, w[j-1]) THEN t.entry[w[j-1]][c[j]] ELSE NoInode
      BY <1>5, <2>0
    <2> USE DEF c, S
    <2>2. c[j] \in Names
      BY <1>0
    <2>3. CanEnter(t, w[j-1]) => w[j-1] \in Dirs
      BY DEF CanEnter, DirOK
    <2>4. CanEnter(t, w[j-1]) => t.entry[w[j-1]][c[j]] \in S
      BY <2>2, <2>3 DEF Trees
    <2> HIDE DEF c
    <2> QED
      BY <2>1, <2>4
  <1>8. w \in [0 .. k -> S]
    <2> HIDE DEF S, c
    <2>1. \A j \in 0 .. k : w[j] \in S
      BY <1>0, <1>6, <1>7
    <2> QED
      BY <1>5, <2>1
  <1>9. Iterates(w, k, Root, Down(t))
    <2>1. ASSUME NEW j \in 1 .. k PROVE w[j] = Down(t)[<<w[j-1], j>>]
      <3>1. w[j-1] \in S
        BY <1>8
      <3> QED
        BY <1>1, <1>7, <3>1
    <2> QED
      BY <1>6, <2>1 DEF Iterates
  <1>10. Named(t, k) = w[k]
    BY DEF Named, w
  <1> QED
    BY <1>8, <1>9, <1>10

\* What Named says, one component at a time.
LEMMA NamedStep ==
    ASSUME NEW t \in Trees, request.components \in Seq(Names)
    PROVE  /\ Named(t, 0) = Root
           /\ \A k \in 0 .. N : Named(t, k) \in Inodes \cup {NoInode}
           /\ \A k \in 1 .. N : Named(t, k) =
                 IF CanEnter(t, Named(t, k-1))
                 THEN t.entry[Named(t, k-1)][request.components[k]] ELSE NoInode
  <1>0. N \in Nat
    BY DEF N
  <1>1. Named(t, 0) = Root
    <2>1. PICK f : Iterates(f, 0, Root, Down(t)) /\ Named(t, 0) = f[0]
      BY <1>0, NamedIs
    <2> QED
      BY <2>1 DEF Iterates
  <1>2. ASSUME NEW k \in 0 .. N PROVE Named(t, k) \in Inodes \cup {NoInode}
    <2>1. PICK f \in [0 .. k -> Inodes \cup {NoInode}] : Named(t, k) = f[k]
      BY NamedIs
    <2> QED
      BY <1>0, <2>1
  <1>3. ASSUME NEW k \in 1 .. N
        PROVE  Named(t, k) = IF CanEnter(t, Named(t, k-1))
                             THEN t.entry[Named(t, k-1)][request.components[k]] ELSE NoInode
    <2>0. k \in 0 .. N /\ k - 1 \in 0 .. N /\ k - 1 <= k /\ k \in Nat /\ k - 1 \in Nat
      BY <1>0
    <2>1. PICK f : Iterates(f, k, Root, Down(t)) /\ Named(t, k) = f[k]
      BY <2>0, NamedIs
    <2>2. PICK g : Iterates(g, k - 1, Root, Down(t)) /\ Named(t, k - 1) = g[k-1]
      BY <2>0, NamedIs
    <2>3. \A j \in 0 .. k - 1 : g[j] = f[j]
      BY <2>0, <2>1, <2>2, IterationUnique
    <2>4. f[k] = Down(t)[<<f[k-1], k>>] /\ f[k-1] = Named(t, k - 1)
      BY <2>0, <2>1, <2>2, <2>3 DEF Iterates
    <2>5. Named(t, k - 1) \in Inodes \cup {NoInode}
      BY <1>2, <2>0
    <2> QED
      BY <2>1, <2>4, <2>5 DEF Down
  <1> QED
    BY <1>1, <1>2, <1>3
-------------------------------------------------------------------------------
\* The components are names, N of them.
LEMMA RequestType ==
    ASSUME TypeOK
    PROVE  /\ request.components \in Seq(Names) /\ request.dirOnly \in BOOLEAN
           /\ N \in Nat /\ N = Len(request.components)
  BY RequestsAssumption DEF TypeOK, N

\* A directory, a file and no inode are told apart.
LEMMA Kinds ==
    ASSUME NEW t, NEW i
    PROVE  /\ CanEnter(t, i) => i \in Dirs /\ DirOK(t, i)
           /\ FileOK(t, i) => i \in Files /\ i \in Inodes /\ i \notin Dirs /\ i # NoInode
           /\ Listable(t, i) => i \in Dirs /\ i \in Inodes /\ i # NoInode /\ CanEnter(t, i)
           /\ i \in Dirs => i \in Inodes /\ i # NoInode
  BY InodesAssumption DEF CanEnter, DirOK, FileOK, Listable, Dirs, Files

\* Behind a directory that cannot be entered the path names nothing.
LEMMA NamedEnds ==
    ASSUME TypeOK, NEW t \in Trees, NEW j \in 0 .. N, ~CanEnter(t, Named(t, j)),
           NEW m \in 0 .. N, j < m
    PROVE  Named(t, m) = NoInode
  <1> DEFINE T == {d \in Nat : j + 1 + d <= N => Named(t, j + 1 + d) = NoInode}
  <1>0. N \in Nat /\ request.components \in Seq(Names)
    BY RequestType
  <1>1. ASSUME NEW d \in Nat, j + 1 + d <= N, ~CanEnter(t, Named(t, j + d))
        PROVE  Named(t, j + 1 + d) = NoInode
    <2>1. j + 1 + d \in 1 .. N /\ (j + 1 + d) - 1 = j + d
      BY <1>0, <1>1
    <2> QED
      BY <1>0, <1>1, <2>1, NamedStep
  <1>2. 0 \in T
    BY <1>0, <1>1
  <1>3. ASSUME NEW d \in 1 .. N, d - 1 \in T
        PROVE  d \in T
    <2>1. ASSUME j + 1 + d <= N PROVE Named(t, j + 1 + d) = NoInode
      <3>1. Named(t, j + d) = NoInode
        <4>1. j + 1 + (d - 1) = j + d /\ j + d <= N
          BY <1>0, <2>1
        <4> QED
          BY <1>3, <4>1
      <3>2. ~CanEnter(t, NoInode)
        BY Kinds
      <3>3. ~CanEnter(t, Named(t, j + d)) /\ d \in Nat
        BY <1>0, <3>1, <3>2
      <3> QED
        BY <1>1, <2>1, <3>3
    <2> QED
      BY <1>0, <2>1
  <1> HIDE DEF T
  <1>4. m - j - 1 \in 0 .. N
    BY <1>0
  <1>5. m - j - 1 \in T
    BY <1>0, <1>2, <1>3, <1>4, UpTo
  <1>6. j + 1 + (m - j - 1) = m
    BY <1>0
  <1> QED
    BY <1>0, <1>5, <1>6 DEF T

\* What to expect, by what the path names.
LEMMA Expects ==
    ASSUME TypeOK, NEW t \in Trees
    PROVE  /\ FileOK(t, Target(t)) /\ ~request.dirOnly => Expected(t) = File(Target(t))
           /\ CanEnter(t, Target(t)) => Expected(t) = Contents(t, Target(t))
           /\ /\ ~CanEnter(t, Target(t))
              /\ request.dirOnly \/ ~FileOK(t, Target(t))
              => Expected(t) = NotFound
           /\ \A j \in 0 .. N : j < N /\ ~CanEnter(t, Named(t, j)) => Expected(t) = NotFound
  <1>1. /\ FileOK(t, Target(t)) /\ ~request.dirOnly => Expected(t) = File(Target(t))
        /\ CanEnter(t, Target(t)) => Expected(t) = Contents(t, Target(t))
        /\ /\ ~CanEnter(t, Target(t))
           /\ request.dirOnly \/ ~FileOK(t, Target(t))
           => Expected(t) = NotFound
    <2>1. CanEnter(t, Target(t)) => ~FileOK(t, Target(t))
      BY Kinds
    <2> QED
      BY <2>1 DEF Expected
  <1>2. ASSUME NEW j \in 0 .. N, j < N, ~CanEnter(t, Named(t, j))
        PROVE  Expected(t) = NotFound
    <2>1. N \in 0 .. N /\ Target(t) = Named(t, N)
      BY RequestType DEF Target
    <2>2. Target(t) = NoInode
      BY <1>2, <2>1, NamedEnds
    <2>3. ~CanEnter(t, Target(t)) /\ ~FileOK(t, Target(t))
      BY <2>2, Kinds
    <2> QED
      BY <1>1, <2>3
  <1> QED
    BY <1>1, <1>2

\* A file is expected under its own name or as the index of its directory.
LEMMA ExpectsFile ==
    ASSUME TypeOK, NEW t \in Trees, NEW i, Expected(t) = File(i)
    PROVE  /\ FileOK(t, i)
           /\ \/ Target(t) = i /\ ~request.dirOnly
              \/ CanEnter(t, Target(t)) /\ t.entry[Target(t)]["index"] = i
           /\ \A j \in 0 .. N : j < N => CanEnter(t, Named(t, j))
  <1>1. File(i) # NotFound /\ \A E : File(i) # Listing(E)
    <2>1. File(i).kind = "file" /\ NotFound.kind = "not_found" /\ \A E : Listing(E).kind = "listing"
      BY AnswerKinds
    <2> QED
      BY <2>1
  <1>2. \A k : File(k) = File(i) => k = i
    BY AnswerKinds
  <1>3. \A j \in 0 .. N : j < N => CanEnter(t, Named(t, j))
    BY <1>1, Expects
  <1>4. CASE FileOK(t, Target(t)) /\ ~request.dirOnly
    <2>1. Target(t) = i
      BY <1>2, <1>4, Expects
    <2> QED
      BY <1>3, <1>4, <2>1
  <1>5. CASE CanEnter(t, Target(t))
    <2>1. Contents(t, Target(t)) = File(i)
      BY <1>5, Expects
    <2>2. FileOK(t, t.entry[Target(t)]["index"])
      BY <1>1, <2>1 DEF Contents
    <2>3. t.entry[Target(t)]["index"] = i
      BY <1>2, <2>1, <2>2 DEF Contents
    <2> QED
      BY <1>3, <1>5, <2>2, <2>3
  <1>6. CASE ~CanEnter(t, Target(t)) /\ (request.dirOnly \/ ~FileOK(t, Target(t)))
    BY <1>1, <1>6, Expects
  <1> QED
    BY <1>4, <1>5, <1>6

-------------------------------------------------------------------------------
\* What the opens of the daemon tell of the tree, where it may enter dir.
LEMMA SiteType ==
    ASSUME TypeOK
    PROVE  /\ site.daemon \in {"owner", "other"}
           /\ site.platform \in {"path", "search", "rdonly"}
  BY SitesAssumption DEF TypeOK

\* classify_child's and open_leaf's probe: what is public is always found.
LEMMA ProbeTells ==
    ASSUME TypeOK, CanEnter(tree, dir), NEW n \in Names, NEW f \in Probe(n)
    PROVE  /\ f # NoInode => f = tree.entry[dir][n] /\ f \in Inodes
           /\ f = NoInode /\ Enough => /\ ~FileOK(tree, tree.entry[dir][n])
                                     /\ ~Listable(tree, tree.entry[dir][n])
  <1>1. dir \in Dirs /\ dir \in tree.xoth /\ TreeOK
    BY DEF CanEnter, DirOK, TypeOK
  <1>2. f # NoInode => f = tree.entry[dir][n] /\ f \in Inodes
    BY <1>1, ProbeIs
  <1>3. ASSUME f = NoInode, Enough
        PROVE  /\ ~FileOK(tree, tree.entry[dir][n]) /\ ~Listable(tree, tree.entry[dir][n])
    <2> DEFINE x == tree.entry[dir][n]
    <2>1. OpenProbe(site.daemon, dir, n) = NoInode
      BY <1>3 DEF Probe, Opened, Enough
    <2>2. Lookup(site.daemon, dir, n) = x
      BY <1>1 DEF Lookup, CanSearch
    <2>3. ~(x \in Inodes /\ Kind[x] # "link" /\ CanRead(site.daemon, x))
      BY <2>1, <2>2, InodesAssumption DEF OpenProbe, If
    <2> QED
      BY <2>3 DEF CanRead, FileOK, Files, Listable, DirOK, Dirs
  <1> QED
    BY <1>2, <1>3

\* An open to descend: what can be entered is always found.
LEMMA TraverseTells ==
    ASSUME TypeOK, CanEnter(tree, dir), NEW n \in Names, NEW f \in Traverse(n)
    PROVE  /\ f # NoInode => /\ f = tree.entry[dir][n] /\ f \in Dirs
                             /\ DirOK(tree, f) => CanEnter(tree, f)
           /\ f = NoInode /\ Enough => ~CanEnter(tree, tree.entry[dir][n])
  <1>1. dir \in Dirs /\ dir \in tree.xoth /\ TreeOK
    BY DEF CanEnter, DirOK, TypeOK
  <1> DEFINE x == tree.entry[dir][n]
  <1>2. Lookup(site.daemon, dir, n) = x
    BY <1>1 DEF Lookup, CanSearch
  <1>3. ASSUME f # NoInode
        PROVE  f = x /\ f \in Dirs /\ (DirOK(tree, f) => CanEnter(tree, f))
    <2>1. f = x /\ f \in Dirs
      BY <1>1, <1>3, TraverseIs
    <2>2. f = OpenTraverse(site.daemon, site.platform, dir, n)
      BY <1>3, OpenedIs DEF Traverse
    <2>3. Enterable(site.daemon, site.platform, x)
      BY <1>2, <1>3, <2>2 DEF OpenTraverse, If
    <2> QED
      BY <2>1, <2>3 DEF Enterable, CanRead, CanEnter
  <1>4. ASSUME f = NoInode, Enough PROVE ~CanEnter(tree, x)
    <2>1. OpenTraverse(site.daemon, site.platform, dir, n) = NoInode
      BY <1>4 DEF Traverse, Opened, Enough
    <2>2. ~(x \in Dirs /\ Enterable(site.daemon, site.platform, x))
      BY <1>2, <2>1, InodesAssumption DEF OpenTraverse, If, Dirs
    <2> QED
      BY <2>2, SiteType DEF Enterable, CanRead, CanSearch, CanEnter, DirOK
  <1> QED
    BY <1>3, <1>4

\* The same of the root.
LEMMA RootTells ==
    ASSUME TypeOK, NEW f \in Opened(OpenSelf(site.daemon, site.platform, Root))
    PROVE  /\ f # NoInode => f = Root /\ (DirOK(tree, Root) => CanEnter(tree, Root))
           /\ f = NoInode /\ Enough => ~CanEnter(tree, Root)
  <1>1. ASSUME f # NoInode
        PROVE  f = Root /\ (DirOK(tree, Root) => CanEnter(tree, Root))
    <2>1. f = OpenSelf(site.daemon, site.platform, Root)
      BY <1>1, OpenedIs
    <2>2. Enterable(site.daemon, site.platform, Root) /\ f = Root
      BY <1>1, <2>1 DEF OpenSelf, If
    <2> QED
      BY <2>2 DEF Enterable, CanRead, CanEnter
  <1>2. ASSUME f = NoInode, Enough PROVE ~CanEnter(tree, Root)
    <2>1. OpenSelf(site.daemon, site.platform, Root) = NoInode
      BY <1>2 DEF Opened, Enough
    <2>2. ~(CanSearch(site.daemon, Root) /\ Enterable(site.daemon, site.platform, Root))
      BY <2>1, InodesAssumption DEF OpenSelf, If, Dirs
    <2> QED
      BY <2>2, SiteType DEF Enterable, CanRead, CanSearch, CanEnter, DirOK
  <1> QED
    BY <1>1, <1>2

\* What is expected of a tree depends on the request and the site only.
LEMMA SameReader ==
    ASSUME UNCHANGED <<request, site>>
    PROVE  /\ N' = N
           /\ \A t, i : CanEnter(t, i)' = CanEnter(t, i)
           /\ \A t, k : Named(t, k)' = Named(t, k)
           /\ \A t : Target(t)' = Target(t)
           /\ \A t, i : Contents(t, i)' = Contents(t, i)
           /\ \A t : Expected(t)' = Expected(t)
  <1>1. N' = N
    BY DEF N
  <1>2. \A t, i : CanEnter(t, i)' = CanEnter(t, i)
    BY DEF CanEnter
  <1>3. \A t, k : Named(t, k)' = Named(t, k)
    BY <1>2 DEF Named
  <1>4. \A t : Target(t)' = Target(t)
    BY <1>3 DEF Target
  <1>5. \A t, i : Contents(t, i)' = Contents(t, i)
    BY DEF Contents
  <1>6. \A t : Expected(t)' = Expected(t)
    BY <1>2, <1>4, <1>5 DEF Expected
  <1> QED
    BY <1>1, <1>2, <1>3, <1>4, <1>5, <1>6

\* Steps that answer, and steps that go on without reading entries.
LEMMA Answered ==
    ASSUME UNCHANGED <<tree, request, site>>, pc' = "done",
           \/ answer' = Expected(tree)
           \/ ~Enough /\ answer'.kind # "file"
    PROVE  OnPath' /\ OnlyIfNot' /\ ReadSoFar' /\ AsExpected'
  <1>1. Expected(tree)' = Expected(tree) /\ (Enough' <=> Enough)
    BY SameReader DEF Enough
  <1> QED
    BY <1>1
    DEF OnPath, OnlyIfNot, ReadSoFar, AsExpected, Descending, AtTarget, InListing, Unindexed,
        Collecting, Classified

LEMMA GoesOn ==
    ASSUME pc' # "done", pc' \notin Unindexed
    PROVE  /\ ReadSoFar' /\ AsExpected'
           /\ (pc' = "reopen" => ~FileOK(tree, Target(tree))') => OnlyIfNot'
  BY DEF ReadSoFar, AsExpected, Done, OnlyIfNot, InListing, Unindexed, Collecting, Classified

\* The steps from the root to the target keep the walk on the path.
LEMMA AnswerWalk ==
    ASSUME TypeInv, PublishInv, PathKept, OnPath, Enough => OnlyIfNot,
           OpenRoot \/ OpenDir \/ Enter \/ ProbeLeaf \/ StatLeaf
    PROVE  OnPath' /\ (Enough => OnlyIfNot' /\ ReadSoFar') /\ AsExpected'
  <1>0. UNCHANGED <<tree, request, site>>
    BY DEF OpenRoot, OpenDir, Enter, ProbeLeaf, StatLeaf, Keep
  <1>1. /\ N \in Nat /\ N = Len(request.components) /\ request.components \in Seq(Names)
        /\ TypeOK /\ tree \in Trees /\ todo \in Seq(Names) /\ Len(todo) \in Nat
        /\ Depth = N - Len(todo)
    BY RequestType DEF TypeInv, TypeOK, TreeOK, Depth
  <1>7. \A k \in Nat : Depth + k = N <=> Len(todo) = k
    BY <1>1
  <1>2. CASE OpenRoot
    <2>1. /\ pc = "start" /\ Depth = 0 /\ Depth' = 0
          /\ Named(tree, 0) = Root /\ 0 \in 0 .. N
      BY <1>0, <1>1, <1>2, NamedStep DEF OpenRoot, Keep, PublishInv, OnTrail, Depth
    <2>2. CASE fd' = NoInode /\ Answer(NotFound)
      <3>1. Enough => ~CanEnter(tree, Named(tree, 0))
        BY <1>1, <1>2, <2>1, <2>2, RootTells DEF OpenRoot
      <3>2. Enough => Expected(tree) = NotFound
        <4>1. CASE N = 0
          <5>1. Target(tree) = Root
            BY <2>1, <4>1 DEF Target, N
          <5>2. ~FileOK(tree, Root)
            BY Kinds, InodesAssumption
          <5> QED
            BY <1>1, <2>1, <3>1, <5>1, <5>2, Expects
        <4>2. CASE N > 0
          BY <1>1, <2>1, <3>1, <4>2, Expects
        <4> QED
          BY <1>1, <4>1, <4>2
      <3> QED
        BY <1>0, <2>2, <3>2, Answered, AnswerKinds DEF Answer
    <2>3. CASE fd' # NoInode /\ GoTo("enter")
      <3>1. fd' = Root /\ fd' \in Dirs /\ (DirOK(tree, fd') => CanEnter(tree, fd'))
        BY <1>1, <1>2, <2>3, RootTells, InodesAssumption DEF OpenRoot
      <3>2. pc' = "enter" /\ pc' \notin Unindexed
        BY <2>3 DEF GoTo, Unindexed, InListing, Classified
      <3>3. fd' = Named(tree, Depth)'
        BY <1>0, <2>1, <3>1, SameReader
      <3>4. DirOK(tree, fd)' => CanEnter(tree, fd)'
        BY <1>0, <3>1, SameReader DEF DirOK
      <3>5. OnPath'
        BY <3>1, <3>2, <3>3, <3>4 DEF OnPath, Descending, AtTarget
      <3> QED
        BY <3>2, <3>5, GoesOn
    <2> QED
      BY <1>2, <2>2, <2>3 DEF OpenRoot
  <1>3. CASE OpenDir
    <2>1. /\ pc \in Descending /\ todo # <<>> /\ dir = Named(tree, Depth)
          /\ CanEnter(tree, dir) /\ Depth \in 0 .. N
          /\ pc = "reopen" => Len(todo) = 1 /\ ~request.dirOnly
          /\ pc # "reopen" => Len(todo) > 1 \/ request.dirOnly
      BY <1>1, <1>3 DEF OpenDir, Descending, TypeInv, Held, OnPath, PublishInv, Remaining
    <2>2. /\ Head(todo) \in Names /\ Len(todo) > 0 /\ Len(todo') = Len(todo) - 1
          /\ Head(todo) = request.components[Depth + 1]
          /\ Depth + 1 \in 1 .. N /\ Depth' = Depth + 1
      <3>1. Head(todo) \in Names /\ Head(todo) = todo[1] /\ Len(todo) > 0
            /\ Len(todo') = Len(todo) - 1
        BY <1>1, <1>3, <2>1, HeadTailProperties DEF OpenDir
      <3>2. todo[1] = request.components[Depth + 1]
        BY <1>1, <2>1, <3>1 DEF PublishInv, Remaining
      <3>3. Depth' = Depth + 1
        <4>1. Depth' = N' - Len(todo') /\ N' = N
          BY <1>0 DEF Depth, N
        <4> QED
          BY <1>1, <3>1, <4>1
      <3> QED
        BY <1>1, <2>1, <3>1, <3>2, <3>3
    <2>3. Named(tree, Depth + 1) = tree.entry[dir][Head(todo)]
      <3>1. (Depth + 1) - 1 = Depth
        BY <1>1
      <3> QED
        BY <1>1, <2>1, <2>2, <3>1, NamedStep
    <2>4. CASE fd' = NoInode /\ Answer(NotFound)
      <3>1. Enough => ~CanEnter(tree, Named(tree, Depth + 1))
        BY <1>1, <1>3, <2>1, <2>2, <2>3, <2>4, TraverseTells DEF OpenDir
      <3>2. Enough => Expected(tree) = NotFound
        <4>1. CASE Depth + 1 = N
          <5>1. Named(tree, Depth + 1) = Target(tree)
            BY <1>1, <4>1 DEF Target
          <5>2. Len(todo) = 1
            BY <1>1, <1>7, <4>1
          <5>3. Enough => request.dirOnly \/ ~FileOK(tree, Target(tree))
            BY <2>1, <5>2 DEF OnlyIfNot
          <5>4. Enough => ~CanEnter(tree, Target(tree))
            BY <3>1, <5>1
          <5> QED
            BY <1>1, <5>3, <5>4, Expects
        <4>2. CASE Depth + 1 < N
          BY <1>1, <2>2, <3>1, <4>2, Expects
        <4> QED
          BY <1>1, <2>2, <4>1, <4>2
      <3> QED
        BY <1>0, <2>4, <3>2, Answered, AnswerKinds DEF Answer
    <2>5. CASE fd' # NoInode /\ GoTo("enter")
      <3>1. /\ fd' = Named(tree, Depth + 1) /\ fd' \in Dirs
            /\ DirOK(tree, fd') => CanEnter(tree, fd')
        BY <1>1, <1>3, <2>1, <2>2, <2>3, <2>5, TraverseTells DEF OpenDir
      <3>2. pc' = "enter" /\ pc' \notin Unindexed
        BY <2>5 DEF GoTo, Unindexed, InListing, Classified
      <3>3. fd' = Named(tree, Depth)'
        BY <1>0, <2>2, <3>1, SameReader
      <3>4. DirOK(tree, fd)' => CanEnter(tree, fd)'
        BY <1>0, <3>1, SameReader DEF DirOK
      <3>5. OnPath'
        BY <3>1, <3>2, <3>3, <3>4 DEF OnPath, Descending, AtTarget
      <3> QED
        BY <3>2, <3>5, GoesOn
    <2> QED
      BY <1>3, <2>4, <2>5 DEF OpenDir
  <1>4. CASE Enter
    <2>1. /\ pc = "enter" /\ fd = Named(tree, Depth) /\ fd \in Dirs
          /\ DirOK(tree, fd) => CanEnter(tree, fd)
          /\ todo' = todo /\ Depth' = Depth /\ Depth \in 0 .. N
      BY <1>0, <1>1, <1>4 DEF Enter, Keep, Depth, OnPath, PublishInv, Remaining
    <2>2. CASE ~DirOK(tree, fd) /\ Answer(NotFound)
      <3>1. ~CanEnter(tree, Named(tree, Depth)) /\ ~FileOK(tree, Named(tree, Depth))
        BY <2>1, <2>2, Kinds
      <3>2. Expected(tree) = NotFound
        <4>1. CASE Depth = N
          BY <1>1, <3>1, <4>1, Expects DEF Target
        <4>2. CASE Depth < N
          BY <1>1, <2>1, <3>1, <4>2, Expects
        <4> QED
          BY <1>1, <2>1, <4>1, <4>2
      <3> QED
        BY <1>0, <2>2, <3>2, Answered, AnswerKinds DEF Answer
    <2>3. CASE DirOK(tree, fd) /\ dir' = fd /\ GoTo(IF todo = <<>> THEN "index" ELSE "walk")
      <3>1. /\ dir' = Named(tree, Depth)' /\ CanEnter(tree, dir)'
        BY <1>0, <2>1, <2>3, SameReader
      <3>2. CASE todo = <<>>
        <4>1. pc' = "index" /\ pc' \notin Unindexed /\ Depth = N
          BY <1>1, <2>3, <3>2 DEF GoTo, Unindexed, InListing, Classified
        <4>2. dir' = Target(tree)'
          BY <1>0, <1>1, <2>1, <2>3, <4>1, SameReader DEF Target
        <4>3. OnPath'
          BY <3>1, <4>1, <4>2 DEF OnPath, Descending, AtTarget
        <4> QED
          BY <4>1, <4>3, GoesOn
      <3>3. CASE todo # <<>>
        <4>1. pc' = "walk" /\ pc' \notin Unindexed
          BY <2>3, <3>3 DEF GoTo, Unindexed, InListing, Classified
        <4>2. OnPath'
          BY <3>1, <4>1 DEF OnPath, Descending, AtTarget
        <4> QED
          BY <4>1, <4>2, GoesOn
      <3> QED
        BY <3>2, <3>3
    <2> QED
      BY <1>4, <2>2, <2>3 DEF Enter
  <1>5. CASE ProbeLeaf
    <2>1. /\ pc = "walk" /\ Len(todo) = 1 /\ ~request.dirOnly /\ UNCHANGED <<dir, todo>>
          /\ dir = Named(tree, Depth) /\ CanEnter(tree, dir) /\ Depth \in 0 .. N
      BY <1>1, <1>5 DEF ProbeLeaf, Keep, Descending, OnPath, PublishInv, Remaining
    <2>0. Depth' = Depth /\ ~request.dirOnly'
      BY <1>0, <2>1 DEF Depth
    <2>2. Head(todo) \in Names /\ tree.entry[dir][Head(todo)] = Target(tree)
      <3>1. Head(todo) \in Names /\ Head(todo) = todo[1] /\ Depth + 1 = N /\ N \in 1 .. N
        <4>1. Depth + 1 = N /\ N \in 1 .. N
          BY <1>1, <1>7, <2>1
        <4>2. Head(todo) \in Names /\ Head(todo) = todo[1]
          <5>1. todo # <<>>
            BY <2>1 DEF TypeInv, Held, Descending
          <5> QED
            BY <1>1, <5>1, HeadTailProperties
        <4> QED
          BY <4>1, <4>2
      <3>2. todo[1] = request.components[N]
        BY <1>1, <2>1, <3>1 DEF PublishInv, Remaining, Descending
      <3>3. N - 1 = Depth
        BY <1>1, <3>1
      <3>4. Named(tree, N) = tree.entry[dir][request.components[N]]
        BY <1>1, <2>1, <3>1, <3>3, NamedStep
      <3> QED
        BY <1>1, <3>1, <3>2, <3>4 DEF Target
    <2>3. /\ fd' # NoInode => fd' = Target(tree)
          /\ fd' = NoInode /\ Enough => ~FileOK(tree, Target(tree))
      BY <1>1, <1>5, <2>1, <2>2, ProbeTells DEF ProbeLeaf
    <2>4. /\ dir' = Named(tree, Depth)' /\ CanEnter(tree, dir)'
          /\ Target(tree)' = Target(tree)
      BY <1>0, <2>0, <2>1, SameReader
    <2>5. /\ pc' \in {"leaf", "reopen"} /\ pc' # "done" /\ pc' \notin Unindexed
          /\ pc' = "leaf" => fd' # NoInode
          /\ pc' = "reopen" => fd' = NoInode
      BY <1>5 DEF ProbeLeaf, GoTo, Unindexed, InListing, Classified
    <2>6. OnPath'
      BY <2>0, <2>1, <2>3, <2>4, <2>5 DEF OnPath, Descending, AtTarget
    <2>7. Enough => (pc' = "reopen" => ~FileOK(tree, Target(tree))')
      BY <1>0, <2>3, <2>4, <2>5 DEF FileOK
    <2> QED
      BY <2>5, <2>6, <2>7, GoesOn
  <1>6. CASE StatLeaf
    <2>1. /\ pc = "leaf" /\ ~request.dirOnly /\ fd = Target(tree) /\ UNCHANGED <<dir, todo>>
          /\ dir = Named(tree, Depth) /\ CanEnter(tree, dir)
      BY <1>6 DEF StatLeaf, Keep, Descending, OnPath
    <2>0. Depth' = Depth /\ ~request.dirOnly'
      BY <1>0, <2>1 DEF Depth
    <2>2. CASE FileOK(tree, fd) /\ Answer(File(fd))
      <3>1. Expected(tree) = File(fd)
        BY <1>1, <2>1, <2>2, Expects
      <3> QED
        BY <1>0, <2>2, <3>1, Answered DEF Answer
    <2>3. CASE ~FileOK(tree, fd) /\ GoTo("reopen")
      <3>1. pc' = "reopen" /\ pc' \notin Unindexed
        BY <2>3 DEF GoTo, Unindexed, InListing, Classified
      <3>2. /\ dir' = Named(tree, Depth)' /\ CanEnter(tree, dir)'
            /\ Target(tree)' = Target(tree)
        BY <1>0, <2>0, <2>1, SameReader
      <3>3. OnPath'
        BY <2>0, <2>1, <3>1, <3>2 DEF OnPath, Descending, AtTarget
      <3>4. ~FileOK(tree, Target(tree))'
        BY <1>0, <2>1, <2>3, <3>2 DEF FileOK
      <3> QED
        BY <3>1, <3>3, <3>4, GoesOn
    <2>4. CASE ~FileOK(tree, fd) /\ ~DirOK(tree, fd) /\ Answer(NotFound)
      <3>1. ~CanEnter(tree, Target(tree)) /\ ~FileOK(tree, Target(tree))
        BY <2>1, <2>4, Kinds
      <3>2. Expected(tree) = NotFound
        BY <1>1, <3>1, Expects
      <3> QED
        BY <1>0, <2>4, <3>2, Answered DEF Answer
    <2>5. FileOK(tree, fd) => ~DirOK(tree, fd)
      BY Kinds DEF DirOK
    <2> QED
      BY <1>6, <2>2, <2>3, <2>4, <2>5 DEF StatLeaf
  <1> QED
    BY <1>2, <1>3, <1>4, <1>5, <1>6

-------------------------------------------------------------------------------
\* A listing is finite and has only names that may be shown.
LEMMA PublicFinite ==
    ASSUME TypeOK, NEW t \in Trees, NEW d \in Dirs
    PROVE  /\ PublicEntries(t, d) \subseteq Names \X BOOLEAN
           /\ IsFiniteSet(PublicEntries(t, d))
           /\ \A e \in PublicEntries(t, d) : e[1] \in NamesIn(t, d) \ (Hidden \cup Garbled)
  <1>1. /\ PublicEntries(t, d) \subseteq Names \X BOOLEAN
        /\ \A e \in PublicEntries(t, d) : e[1] \in NamesIn(t, d) \ (Hidden \cup Garbled)
    <2> SUFFICES ASSUME NEW e \in PublicEntries(t, d)
                 PROVE  /\ e \in Names \X BOOLEAN
                        /\ e[1] \in NamesIn(t, d) \ (Hidden \cup Garbled)
      OBVIOUS
    <2>1. PICK n \in NamesIn(t, d) \ (Hidden \cup Garbled) :
                e = <<n, Kind[t.entry[d][n]] = "dir">>
      BY DEF PublicEntries
    <2>2. (Kind[t.entry[d][n]] = "dir") \in BOOLEAN
      BY Zenon
    <2> QED
      BY <2>1, <2>2 DEF NamesIn
  <1>2. IsFiniteSet(BOOLEAN)
    <2>1. IsFiniteSet({TRUE}) /\ IsFiniteSet({FALSE})
      BY FS_Singleton
    <2>2. BOOLEAN = {TRUE} \cup {FALSE}
      OBVIOUS
    <2> QED
      BY <2>1, <2>2, FS_Union
  <1>3. IsFiniteSet(Names \X BOOLEAN)
    BY <1>2, NamesAssumption, FS_Product
  <1> QED
    BY <1>1, <1>3, FS_Subset

\* The entry of a public name.
LEMMA PublicEntry ==
    ASSUME TypeOK, NEW n \in NamesIn(tree, dir) \ Hidden
    PROVE  \A e : e \in PublicEntries(tree, dir) /\ e[1] = n <=>
                  /\ n \notin Garbled /\ Public(n)
                  /\ e = <<n, Kind[tree.entry[dir][n]] = "dir">>
  BY DEF PublicEntries, Public

\* An entry in hand is counted, or does not matter, or is one too many.
LEMMA Collects ==
    ASSUME TypeInv, dir \in Dirs, pc \in Classified, ReadSoFar, OnlyIfNot,
           NEW isDir \in BOOLEAN, Collect(isDir), UNCHANGED unread,
           Public(Head(todo)), isDir <=> Kind[tree.entry[dir][Head(todo)]] = "dir"
    PROVE  \/ pc' = "collect" /\ entries' = {e \in PublicEntries(tree, dir) : e[1] \notin unread'}
           \/ pc' = "done" /\ answer' = NotFound /\ Contents(tree, dir) = NotFound
  <1> DEFINE n == Head(todo)
             PE == PublicEntries(tree, dir)
             e0 == <<n, isDir>>
  <1>0. /\ TypeOK /\ tree \in Trees /\ n \in NamesIn(tree, dir) \ Hidden /\ n \notin unread
        /\ Unlisted = unread \cup {n}
        /\ entries = {e \in PE : e[1] \notin unread \cup {n}}
    BY DEF TypeInv, TypeOK, TreeOK, ReadSoFar, Unlisted, Collecting
  <1>1. \A e : e \in PE /\ e[1] = n <=> n \notin Garbled /\ e = e0
    <2>1. isDir = (Kind[tree.entry[dir][n]] = "dir")
      OBVIOUS
    <2> QED
      BY <1>0, <2>1, PublicEntry
  <1>2. CASE n \in Garbled /\ GoTo("collect") /\ UNCHANGED entries
    <2>1. entries = {e \in PE : e[1] \notin unread}
      <3>1. \A e \in PE : e[1] # n
        BY <1>1, <1>2
      <3> QED
        BY <1>0, <3>1
    <2> QED
      BY <1>2, <2>1 DEF GoTo
  <1>3. CASE n \notin Garbled /\ Cardinality(entries) >= MaxEntries /\ Answer(NotFound)
    <2>1. e0 \in PE /\ e0[1] = n
      BY <1>1, <1>3
    <2>2. e0 \notin entries /\ entries \subseteq PE
      BY <1>0, <2>1
    <2>3. IsFiniteSet(PE)
      BY <1>0, PublicFinite
    <2>4. /\ IsFiniteSet(entries)
          /\ IsFiniteSet(entries \cup {e0})
          /\ Cardinality(entries \cup {e0}) = Cardinality(entries) + 1
      BY <2>2, FS_AddElement DEF TypeInv
    <2>5. Cardinality(entries \cup {e0}) <= Cardinality(PE)
      <3>1. entries \cup {e0} \subseteq PE
        BY <2>1, <2>2
      <3> HIDE DEF e0, PE
      <3> QED
        BY <2>3, <3>1, FS_Subset
    <2>6. Cardinality(entries) \in Nat /\ Cardinality(PE) \in Nat
      BY <2>3, <2>4, FS_CardinalityType
    <2>7. ~(Cardinality(PE) <= MaxEntries)
      BY <1>3, <2>4, <2>5, <2>6, BoundsAssumption
    <2>8. ~FileOK(tree, tree.entry[dir]["index"])
      BY DEF OnlyIfNot, Unindexed, InListing
    <2> QED
      BY <1>3, <2>7, <2>8 DEF Answer, Contents
  <1>4. CASE n \notin Garbled /\ GoTo("collect") /\ entries' = entries \cup {e0}
    <2>1. entries \cup {e0} = {e \in PE : e[1] \notin unread}
      <3>1. e0 \in PE /\ e0[1] = n
        BY <1>1, <1>4
      <3>2. \A e \in PE : e[1] = n => e = e0
        BY <1>1
      <3> HIDE DEF e0, PE
      <3> QED
        BY <1>0, <3>1, <3>2
    <2> QED
      BY <1>4, <2>1 DEF GoTo
  <1> QED
    BY <1>2, <1>3, <1>4 DEF Collect

\* Whether a listing can be opened, where dir is listable.
LEMMA ListTells ==
    ASSUME TypeOK, Listable(tree, dir), NEW f \in Opened(OpenList(site.daemon, dir))
    PROVE  (f # NoInode => f = dir) /\ (Enough => f = dir /\ f # NoInode)
  <1>1. f # NoInode => f = dir
    BY ListIs
  <1>2. ASSUME Enough PROVE f = dir
    BY <1>2 DEF Opened, Enough, OpenList, If, CanSearch, CanRead, Listable, DirOK
  <1> QED
    BY <1>1, <1>2, Kinds

\* The steps from the target to the first entry: index, fstat, openat, fstat, read.
LEMMA AnswerIndex ==
    ASSUME TypeInv, OnPath, Enough => OnlyIfNot /\ ReadSoFar,
           ProbeIndex \/ StatIndex \/ StatDir \/ OpenListing \/ StatListing \/ ReadDir
    PROVE  OnPath' /\ (Enough => OnlyIfNot' /\ ReadSoFar') /\ AsExpected'
  <1>0. UNCHANGED <<tree, request, site>>
    BY DEF ProbeIndex, StatIndex, StatDir, OpenListing, StatListing, ReadDir, Keep
  <1>1. /\ TypeOK /\ TreeOK /\ tree \in Trees /\ dir \in Dirs /\ dir' = dir
        /\ dir = Target(tree) /\ CanEnter(tree, dir) /\ entries = {}
        /\ Expected(tree) = Contents(tree, dir)
    <2>1. /\ TypeOK /\ TreeOK /\ tree \in Trees /\ dir \in Dirs /\ dir' = dir
          /\ pc \in AtTarget \ ({"collect"} \cup Classified)
      BY DEF ProbeIndex, StatIndex, StatDir, OpenListing, StatListing, ReadDir, Keep,
             AtTarget, Classified, TypeInv, TypeOK, TreeOK, Held
    <2> QED
      BY <2>1, Expects DEF OnPath, TypeInv, Held
  <1>2. dir' = Target(tree)' /\ CanEnter(tree, dir)' /\ Target(tree)' = Target(tree)
    BY <1>0, <1>1, SameReader
  <1>3. ASSUME pc' \in AtTarget, pc' # "index_leaf"
        PROVE  OnPath' /\ AsExpected'
    BY <1>2, <1>3 DEF OnPath, AsExpected, Done, Descending, AtTarget
  <1>4. /\ (tree.entry[dir]["index"])' = tree.entry[dir]["index"]
        /\ \A i : FileOK(tree, i)' = FileOK(tree, i)
        /\ \A i : Listable(tree, i)' = Listable(tree, i)
    BY <1>0, <1>1 DEF FileOK, Listable, DirOK
  <1>5. CASE ProbeIndex
    <2>1. /\ pc = "index"
          /\ fd' # NoInode => fd' = tree.entry[dir]["index"]
          /\ fd' = NoInode /\ Enough => ~FileOK(tree, tree.entry[dir]["index"])
      BY <1>1, <1>5, ProbeTells, NamesAssumption DEF ProbeIndex
    <2>2. CASE fd' = NoInode /\ pc' = "generate"
      BY <1>3, <1>4, <2>1, <2>2
      DEF OnlyIfNot, ReadSoFar, Unindexed, InListing, Collecting, Classified, AtTarget
    <2>3. CASE fd' # NoInode /\ pc' = "index_leaf"
      <3>1. OnPath'
        BY <1>2, <1>4, <2>1, <2>3 DEF OnPath, Descending, AtTarget
      <3> QED
        BY <2>3, <3>1, GoesOn DEF Unindexed, InListing, Classified
    <2> QED
      BY <1>5, <2>2, <2>3 DEF ProbeIndex, GoTo
  <1>6. CASE StatIndex
    <2>1. pc = "index_leaf" /\ fd = tree.entry[dir]["index"]
      BY <1>6 DEF StatIndex, OnPath
    <2>2. CASE FileOK(tree, fd) /\ Answer(File(fd))
      <3>1. Expected(tree) = File(fd)
        BY <1>1, <2>1, <2>2 DEF Contents
      <3> QED
        BY <1>0, <2>2, <3>1, Answered DEF Answer
    <2>3. CASE ~FileOK(tree, fd) /\ pc' = "generate"
      BY <1>3, <1>4, <2>1, <2>3
      DEF OnlyIfNot, ReadSoFar, Unindexed, InListing, Collecting, Classified, AtTarget
    <2> QED
      BY <1>6, <2>2, <2>3 DEF StatIndex, GoTo
  <1>7. ASSUME pc \in Unindexed, Listable(tree, dir), pc' \in InListing, pc' \notin Collecting
        PROVE  OnPath' /\ (Enough => OnlyIfNot' /\ ReadSoFar') /\ AsExpected'
    <2>1. Enough => ~FileOK(tree, tree.entry[dir]["index"])
      BY <1>7 DEF OnlyIfNot
    <2>2. ~FileOK(tree, tree.entry[dir]["index"]) =>
             ~FileOK(tree, tree.entry[dir]["index"])' /\ Listable(tree, dir)'
      BY <1>1, <1>4, <1>7
    <2>3. OnPath' /\ AsExpected'
      BY <1>3, <1>7 DEF InListing, AtTarget, Classified
    <2> QED
      BY <1>7, <2>1, <2>2, <2>3
      DEF OnlyIfNot, ReadSoFar, Unindexed, InListing, Collecting, Classified
  <1>8. ASSUME pc \in Unindexed, ~Listable(tree, dir), pc' = "done", answer' = NotFound
        PROVE  OnPath' /\ (Enough => OnlyIfNot' /\ ReadSoFar') /\ AsExpected'
    <2>1. Enough => Expected(tree) = NotFound
      BY <1>1, <1>8 DEF OnlyIfNot, Contents
    <2> QED
      BY <1>0, <1>8, <2>1, Answered, AnswerKinds
  <1>9. CASE StatDir
    <2>1. pc = "generate"
      BY <1>9 DEF StatDir
    <2> QED
      BY <1>7, <1>8, <1>9, <2>1
      DEF StatDir, GoTo, Answer, Unindexed, InListing, Collecting, Classified
  <1>10. ASSUME pc \in InListing, Enough
         PROVE  Listable(tree, dir)
    BY <1>10 DEF OnlyIfNot
  <1>11. CASE OpenListing
    <2>1. CASE Answer(NotFound) /\ fd' = NoInode
      <3>1. ~Enough
        <4>1. pc \in InListing
          BY <1>11 DEF OpenListing, InListing
        <4> QED
          BY <1>1, <1>10, <1>11, <2>1, <4>1, ListTells DEF OpenListing
      <3> QED
        BY <1>0, <2>1, <3>1, Answered, AnswerKinds DEF Answer
    <2>2. CASE GoTo("stat_list")
      <3>1. /\ pc' = "stat_list" /\ pc' \in AtTarget /\ pc = "open_list"
            /\ pc \in InListing /\ pc' \in InListing /\ pc \in Unindexed /\ pc' \notin Collecting
        BY <1>11, <2>2 DEF OpenListing, GoTo, AtTarget, InListing, Unindexed, Collecting, Classified
      <3>2. OnPath' /\ AsExpected'
        BY <1>3, <3>1
      <3>3. CASE Enough
        BY <1>7, <1>10, <3>1, <3>3
      <3> QED
        BY <3>2, <3>3
    <2> QED
      BY <1>11, <2>1, <2>2 DEF OpenListing
  <1>12. CASE StatListing
    <2>1. pc = "stat_list" /\ fd = dir
      BY <1>12 DEF StatListing, TypeInv, Held
    <2> QED
      BY <1>7, <1>8, <1>12, <2>1
      DEF StatListing, GoTo, Answer, Unindexed, InListing, Collecting, Classified
  <1>13. CASE ReadDir
    <2>0. pc = "read" /\ pc \in InListing /\ entries' = entries
      BY <1>13 DEF ReadDir, InListing, Keep
    <2>1. CASE Answer(Failed) /\ fd' = NoInode
      <3>1. ~Enough
        BY <1>1, <1>10, <1>13, <2>0, <2>1, ListTells DEF ReadDir
      <3> QED
        BY <1>0, <2>1, <3>1, Answered, AnswerKinds DEF Answer
    <2>2. CASE GoTo("collect") /\ unread' = NamesIn(tree, dir) \ Hidden
      <3>1. pc' = "collect" /\ pc' \in AtTarget
        BY <2>2 DEF GoTo, AtTarget
      <3>2. OnPath' /\ AsExpected'
        BY <1>3, <3>1
      <3>3. Enough => OnlyIfNot'
        <4>1. Enough => ~FileOK(tree, tree.entry[dir]["index"])' /\ Listable(tree, dir)'
          BY <1>1, <1>4, <1>10, <2>0 DEF OnlyIfNot, Unindexed
        <4> QED
          BY <3>1, <4>1 DEF OnlyIfNot
      <3>4. ReadSoFar'
        <4>1. Unlisted' = NamesIn(tree, dir) \ Hidden
          BY <2>2, <3>1 DEF Unlisted, Classified
        <4>2. {e \in PublicEntries(tree, dir) : e[1] \notin NamesIn(tree, dir) \ Hidden} = {}
          BY <1>1, PublicFinite
        <4>3. /\ PublicEntries(tree, dir)' = PublicEntries(tree, dir)
              /\ NamesIn(tree, dir)' = NamesIn(tree, dir)
          BY <1>0, <1>1 DEF PublicEntries, NamesIn
        <4> QED
          BY <1>1, <2>0, <3>1, <4>1, <4>2, <4>3 DEF ReadSoFar, Classified
      <3> QED
        BY <3>2, <3>3, <3>4
    <2> QED
      BY <1>13, <2>1, <2>2 DEF ReadDir
  <1> QED
    BY <1>5, <1>6, <1>9, <1>11, <1>12, <1>13

\* The same for the steps that classify the entries, and for the listing.
LEMMA AnswerEntries ==
    ASSUME TypeInv, OnPath, Enough => OnlyIfNot /\ ReadSoFar,
           ProbeEntry \/ StatEntry \/ OpenEntry \/ StatEntryDir \/ Render
    PROVE  OnPath' /\ (Enough => OnlyIfNot' /\ ReadSoFar') /\ AsExpected'
  <1> DEFINE PE == PublicEntries(tree, dir)
  <1>0. UNCHANGED <<tree, request, site>>
    BY DEF ProbeEntry, StatEntry, OpenEntry, StatEntryDir, Render, Keep
  <1>1. /\ TypeOK /\ TreeOK /\ tree \in Trees /\ dir \in Dirs /\ dir' = dir
        /\ dir = Target(tree) /\ CanEnter(tree, dir)
        /\ pc \in AtTarget /\ pc \in Collecting /\ pc \in InListing /\ pc \in Unindexed
        /\ Expected(tree) = Contents(tree, dir)
    <2>1. /\ TypeOK /\ TreeOK /\ tree \in Trees /\ dir \in Dirs /\ dir' = dir
          /\ pc \in AtTarget /\ pc \in Collecting /\ pc \in InListing /\ pc \in Unindexed
      BY DEF ProbeEntry, StatEntry, OpenEntry, StatEntryDir, Render, Keep,
             AtTarget, Classified, TypeInv, TypeOK, TreeOK, Held, Collecting, InListing, Unindexed
    <2> QED
      BY <2>1, Expects DEF OnPath
  <1>2. dir' = Target(tree)' /\ CanEnter(tree, dir)' /\ Target(tree)' = Target(tree)
    BY <1>0, <1>1, SameReader
  <1>3. /\ (tree.entry[dir]["index"])' = tree.entry[dir]["index"]
        /\ \A i : FileOK(tree, i)' = FileOK(tree, i)
        /\ \A i : Listable(tree, i)' = Listable(tree, i)
        /\ PublicEntries(tree, dir)' = PE
        /\ NamesIn(tree, dir)' = NamesIn(tree, dir)
    BY <1>0, <1>1 DEF FileOK, Listable, DirOK, PublicEntries, NamesIn
  <1>4. ASSUME pc' \in Collecting
        PROVE  OnPath' /\ AsExpected' /\ (Enough => OnlyIfNot')
    <2>1. pc' \in AtTarget /\ pc' # "index_leaf" /\ pc' # "done" /\ pc' # "enter"
          /\ pc' \notin Descending
      BY <1>4 DEF AtTarget, Collecting, Classified, Descending
    <2>2. OnPath' /\ AsExpected'
      BY <1>2, <2>1 DEF OnPath, AsExpected, Done, Descending
    <2>3. Enough => ~FileOK(tree, tree.entry[dir]["index"]) /\ Listable(tree, dir)
      BY <1>1 DEF OnlyIfNot
    <2>4. Enough => ~FileOK(tree, tree.entry[dir]["index"])' /\ Listable(tree, dir)'
      BY <1>1, <1>3, <2>3
    <2> QED
      BY <2>1, <2>2, <2>4 DEF OnlyIfNot, AtTarget
  \* What ReadSoFar says next, in terms of this state.
  <1>5. ASSUME pc' = "collect", entries' = {e \in PE : e[1] \notin unread'},
               unread' \subseteq NamesIn(tree, dir) \ Hidden
        PROVE  ReadSoFar'
    BY <1>3, <1>5 DEF ReadSoFar, Unlisted, Classified
  <1>6. Enough /\ pc \in Classified =>
          /\ Head(todo) \in NamesIn(tree, dir) \ Hidden /\ Head(todo) \in Names
          /\ unread \subseteq NamesIn(tree, dir) \ Hidden
          /\ Head(todo) \notin unread
          /\ entries = {e \in PE : e[1] \notin unread \cup {Head(todo)}}
    BY <1>1 DEF ReadSoFar, Unlisted, NamesIn
  <1>7. ASSUME NEW isDir \in BOOLEAN, pc \in Classified, Collect(isDir), UNCHANGED unread,
               Enough => /\ Public(Head(todo))
                         /\ isDir <=> Kind[tree.entry[dir][Head(todo)]] = "dir"
        PROVE  OnPath' /\ (Enough => OnlyIfNot' /\ ReadSoFar') /\ AsExpected'
    <2>1. CASE Enough
      <3>1. CASE pc' = "collect" /\ entries' = {e \in PE : e[1] \notin unread'}
        <4>1. pc' \in Collecting
          BY <3>1 DEF Collecting
        <4> QED
          BY <1>4, <1>5, <1>6, <1>7, <2>1, <3>1, <4>1
      <3>2. CASE pc' = "done" /\ answer' = NotFound /\ Contents(tree, dir) = NotFound
        BY <1>0, <1>1, <3>2, Answered
      <3> QED
        BY <1>1, <1>7, <2>1, <3>1, <3>2, Collects
    <2>2. CASE ~Enough
      <3>1. CASE GoTo("collect")
        <4>1. pc' \in Collecting
          BY <3>1 DEF GoTo, Collecting
        <4> QED
          BY <1>4, <2>2, <4>1
      <3>2. CASE Answer(NotFound)
        BY <1>0, <2>2, <3>2, Answered, AnswerKinds DEF Answer
      <3> QED
        BY <1>7, <3>1, <3>2 DEF Collect
    <2> QED
      BY <2>1, <2>2
  <1>8. CASE ProbeEntry
    <2>1. PICK n \in unread :
             unread' = unread \ {n} /\ todo' = <<n>> /\ fd' \in Probe(n)
      BY <1>8 DEF ProbeEntry
    <2>2. /\ pc = "collect" /\ entries' = entries /\ n \in Names /\ Head(todo') = n
          /\ pc' = IF fd' = NoInode THEN "entry_dir" ELSE "entry"
          /\ pc' \in Collecting /\ pc' \in Classified
      BY <1>1, <1>8, <2>1 DEF ProbeEntry, Keep, GoTo, Collecting, Classified, TypeOK
    <2>3. ASSUME Enough PROVE ReadSoFar'
      <3>1. /\ unread \subseteq NamesIn(tree, dir) \ Hidden
            /\ entries = {e \in PE : e[1] \notin unread}
        BY <1>1, <2>2, <2>3 DEF ReadSoFar, Unlisted, Classified
      <3>2. Unlisted' = unread
        BY <2>1, <2>2 DEF Unlisted
      <3>3. /\ fd' # NoInode => fd' = tree.entry[dir][n]
            /\ fd' = NoInode => ~Public(n)
        BY <1>1, <2>1, <2>2, <2>3, ProbeTells DEF Public
      <3>4. /\ (tree.entry[dir][Head(todo)])' = tree.entry[dir][n]
            /\ Public(Head(todo))' = Public(n)
        BY <1>0, <1>1, <1>3, <2>2 DEF Public
      <3>5. /\ Unlisted' \subseteq NamesIn(tree, dir)' \ Hidden
            /\ entries' = {e \in PublicEntries(tree, dir)' : e[1] \notin Unlisted'}
        BY <1>3, <2>2, <3>1, <3>2
      <3>6. Head(todo') \notin unread'
        BY <2>1, <2>2
      <3>7. pc' \in {"entry", "entry_enter"} => fd' = (tree.entry[dir][Head(todo)])'
        BY <2>2, <3>3, <3>4
      <3>8. pc' \in {"entry_dir", "entry_enter"} => ~Public(Head(todo))'
        BY <2>2, <3>3, <3>4
      <3> QED
        BY <3>5, <3>6, <3>7, <3>8 DEF ReadSoFar
    <2> QED
      BY <1>4, <2>2, <2>3
  <1>9. CASE StatEntry
    <2>0. /\ pc = "entry" /\ pc \in Classified /\ UNCHANGED <<fd, todo, unread>>
          /\ Enough => fd = tree.entry[dir][Head(todo)]
      BY <1>9 DEF StatEntry, Keep, Classified, ReadSoFar
    <2>1. CASE Listable(tree, fd) /\ Collect(TRUE)
      <3>1. Enough => Public(Head(todo)) /\ Kind[tree.entry[dir][Head(todo)]] = "dir"
        BY <2>0, <2>1, Kinds DEF Public, Dirs
      <3> QED
        BY <1>7, <2>0, <2>1, <3>1
    <2>2. CASE FileOK(tree, fd) /\ Collect(FALSE)
      <3>1. Enough => Public(Head(todo)) /\ Kind[tree.entry[dir][Head(todo)]] # "dir"
        BY <2>0, <2>2, Kinds DEF Public, Dirs
      <3> QED
        BY <1>7, <2>0, <2>2, <3>1
    <2>3. CASE /\ ~Listable(tree, fd) /\ ~FileOK(tree, fd)
               /\ GoTo("entry_dir") /\ UNCHANGED entries
      <3>1. /\ pc' = "entry_dir" /\ pc' \in Collecting /\ pc' \in Classified
            /\ pc' \notin {"entry", "entry_enter"}
        BY <2>3 DEF GoTo, Collecting, Classified
      <3>2. ASSUME Enough PROVE ReadSoFar'
        <4>1. ~Public(Head(todo))
          BY <2>0, <2>3, <3>2 DEF Public
        <4>2. ~Public(Head(todo))'
          BY <1>0, <1>1, <1>3, <2>0, <4>1 DEF Public
        <4>3. Unlisted' = unread \cup {Head(todo)}
          BY <2>0, <3>1 DEF Unlisted
        <4>4. /\ Unlisted' \subseteq NamesIn(tree, dir)' \ Hidden
              /\ entries' = {e \in PublicEntries(tree, dir)' : e[1] \notin Unlisted'}
              /\ Head(todo') \notin unread'
          BY <1>3, <1>6, <2>0, <2>3, <3>2, <4>3
        <4> QED
          BY <3>1, <4>2, <4>4 DEF ReadSoFar
      <3> QED
        BY <1>4, <3>1, <3>2
    <2>4. ~(Listable(tree, fd) /\ FileOK(tree, fd))
      BY Kinds
    <2> QED
      BY <1>9, <2>1, <2>2, <2>3, <2>4 DEF StatEntry
  <1>10. CASE OpenEntry
    <2>0. /\ pc = "entry_dir" /\ pc \in Classified /\ UNCHANGED <<todo, unread, entries>>
          /\ fd' \in Traverse(Head(todo))
          /\ Enough => ~Public(Head(todo))
          /\ pc' = IF fd' = NoInode THEN "collect" ELSE "entry_enter"
          /\ pc' \in Collecting
      BY <1>10 DEF OpenEntry, Keep, GoTo, Classified, ReadSoFar, Collecting
    <2>1. ASSUME Enough PROVE ReadSoFar'
      <3>1. CASE fd' = NoInode
        <4>1. \A e \in PE : e[1] # Head(todo)
          BY <1>1, <1>6, <2>0, <2>1, PublicEntry
        <4>2. entries' = {e \in PE : e[1] \notin unread'}
          BY <1>6, <2>0, <2>1, <4>1
        <4>3. pc' = "collect" /\ unread' \subseteq NamesIn(tree, dir) \ Hidden
          BY <1>6, <2>0, <2>1, <3>1
        <4> QED
          BY <1>5, <4>2, <4>3
      <3>2. CASE fd' # NoInode
        <4>0. pc' = "entry_enter" /\ pc' \in Classified
          BY <2>0, <3>2 DEF Classified
        <4>1. fd' = tree.entry[dir][Head(todo)]
          <5>1. Head(todo) \in Names /\ fd' \in Traverse(Head(todo))
            BY <1>6, <2>0, <2>1
          <5> QED
            BY <1>1, <3>2, <5>1, TraverseTells
        <4>2. fd' = (tree.entry[dir][Head(todo)])' /\ ~Public(Head(todo))'
          BY <1>0, <1>1, <1>3, <2>0, <2>1, <4>1 DEF Public
        <4>3. Unlisted' = unread \cup {Head(todo)}
          BY <2>0, <4>0 DEF Unlisted
        <4>4. /\ Unlisted' \subseteq NamesIn(tree, dir)' \ Hidden
              /\ entries' = {e \in PublicEntries(tree, dir)' : e[1] \notin Unlisted'}
              /\ Head(todo') \notin unread'
          BY <1>3, <1>6, <2>0, <2>1, <4>3
        <4> QED
          BY <4>2, <4>4 DEF ReadSoFar
      <3> QED
        BY <3>1, <3>2
    <2> QED
      BY <1>4, <2>0, <2>1
  <1>11. CASE StatEntryDir
    <2>0. /\ pc = "entry_enter" /\ pc \in Classified /\ UNCHANGED <<fd, todo, unread>>
          /\ Enough => fd = tree.entry[dir][Head(todo)] /\ ~Public(Head(todo))
      BY <1>11 DEF StatEntryDir, Keep, Classified, ReadSoFar
    <2>1. CASE Listable(tree, fd) /\ Collect(TRUE)
      <3>1. ~Enough
        BY <2>0, <2>1 DEF Public
      <3> QED
        BY <1>7, <2>0, <2>1, <3>1
    <2>2. CASE GoTo("collect") /\ UNCHANGED entries
      <3>1. pc' = "collect" /\ pc' \in Collecting
        BY <2>2 DEF GoTo, Collecting
      <3>2. ASSUME Enough PROVE ReadSoFar'
        <4>1. \A e \in PE : e[1] # Head(todo)
          BY <1>1, <1>6, <2>0, <3>2, PublicEntry
        <4>2. entries' = {e \in PE : e[1] \notin unread'}
          BY <1>6, <2>0, <2>2, <3>2, <4>1
        <4> QED
          BY <1>5, <1>6, <2>0, <3>1, <3>2, <4>2
      <3> QED
        BY <1>4, <3>1, <3>2
    <2> QED
      BY <1>11, <2>1, <2>2 DEF StatEntryDir
  <1>12. CASE Render
    <2>0. /\ pc = "collect" /\ unread = {} /\ pc' = "done"
          /\ answer' = IF Size(entries) > MaxBytes THEN NotFound ELSE Listing(entries)
      BY <1>12 DEF Render, Answer
    <2>1. CASE Enough
      <3>1. entries = PE
        <4>1. Unlisted = {}
          BY <2>0 DEF Unlisted, Classified
        <4> QED
          BY <1>1, <2>1, <4>1 DEF ReadSoFar
      <3>2. ~FileOK(tree, tree.entry[dir]["index"]) /\ Listable(tree, dir)
        BY <1>1, <2>1 DEF OnlyIfNot
      <3>3. Cardinality(PE) <= MaxEntries
        BY <1>1, <3>1 DEF TypeOK
      <3>4. answer' = Contents(tree, dir)
        BY <2>0, <3>1, <3>2, <3>3 DEF Contents
      <3> QED
        BY <1>0, <1>1, <2>0, <3>4, Answered
    <2>2. CASE ~Enough
      <3>1. answer'.kind # "file"
        BY <2>0, AnswerKinds
      <3> QED
        BY <1>0, <2>0, <2>2, <3>1, Answered
    <2> QED
      BY <2>1, <2>2
  <1> QED
    BY <1>8, <1>9, <1>10, <1>11, <1>12

-------------------------------------------------------------------------------
LEMMA AnswerInit == Init => AnswerInv
  <1> SUFFICES ASSUME Init PROVE PathKept /\ OnPath /\ OnlyIfNot /\ ReadSoFar /\ AsExpected
    BY DEF AnswerInv
  <1>1. PathKept
    BY DEF Init, PathKept
  <1> QED
    BY <1>1 DEF Init, OnPath, OnlyIfNot, ReadSoFar, AsExpected, Done, Descending, AtTarget,
                InListing, Unindexed, Collecting, Classified

\* What a step keeps that changes nothing of it.
LEMMA AnswerSame ==
    ASSUME AnswerInv, UNCHANGED <<tree, walk, moments>>
    PROVE  AnswerInv'
  <1>0. UNCHANGED <<tree, moments, site, request, pc, dir, fd, todo, unread, entries, answer>>
    BY DEF walk
  <1>1. /\ N' = N
        /\ \A t, i : CanEnter(t, i)' = CanEnter(t, i)
        /\ \A t, k : Named(t, k)' = Named(t, k)
        /\ \A t : Target(t)' = Target(t)
        /\ \A t : Expected(t)' = Expected(t)
    BY <1>0, SameReader
  <1>2. Sure' => Sure
    BY <1>0, <1>1 DEF Sure, SteadyFile
  <1>3. PathKept => PathKept'
    BY <1>0, <1>1 DEF PathKept
  <1>4. Depth' = Depth
    BY <1>0 DEF Depth
  <1>5. OnPath => OnPath'
    BY <1>0, <1>1, <1>4 DEF OnPath, DirOK
  <1>6. (Enough' <=> Enough) /\ (OnlyIfNot => OnlyIfNot')
    BY <1>0, <1>1 DEF Enough, OnlyIfNot, FileOK, Listable, DirOK
  <1>7. ReadSoFar => ReadSoFar'
    <2>1. /\ PublicEntries(tree, dir)' = PublicEntries(tree, dir)
          /\ NamesIn(tree, dir)' = NamesIn(tree, dir)
          /\ Unlisted' = Unlisted
          /\ Public(Head(todo))' = Public(Head(todo))
          /\ (tree.entry[dir][Head(todo)])' = tree.entry[dir][Head(todo)]
      BY <1>0 DEF PublicEntries, NamesIn, Unlisted, Public, FileOK, Listable, DirOK
    <2> QED
      BY <1>0, <2>1 DEF ReadSoFar
  <1>8. AsExpected => AsExpected'
    BY <1>0, <1>1, <1>6 DEF AsExpected, Done
  <1> QED
    BY <1>2, <1>3, <1>5, <1>6, <1>7, <1>8 DEF AnswerInv

\* The invariant is kept by the daemon,
LEMMA AnswerServe ==
    ASSUME TypeInv, PublishInv, AnswerInv, Serve
    PROVE  AnswerInv'
  <1>0. UNCHANGED <<tree, moments, request, site>>
    BY DEF Serve, OpenRoot, OpenDir, Enter, ProbeLeaf, StatLeaf, ProbeIndex, StatIndex,
           StatDir, OpenListing, StatListing, ReadDir,
           ProbeEntry, StatEntry, OpenEntry, StatEntryDir, Render, Keep
  <1> SUFFICES ASSUME Sure'
               PROVE  /\ PathKept' /\ OnPath' /\ AsExpected'
                      /\ Enough' => OnlyIfNot' /\ ReadSoFar'
    BY DEF AnswerInv
  <1>1. Sure
    BY <1>0, SameReader DEF Sure, SteadyFile
  <1>2. PathKept /\ OnPath /\ (Enough => OnlyIfNot /\ ReadSoFar)
    BY <1>1 DEF AnswerInv
  <1>3. PathKept'
    BY <1>0, <1>2, SameReader DEF PathKept
  <1>4. Enough' <=> Enough
    BY <1>0 DEF Enough
  <1>5. OnPath' /\ (Enough => OnlyIfNot' /\ ReadSoFar') /\ AsExpected'
    BY <1>2, AnswerWalk, AnswerIndex, AnswerEntries DEF Serve
  <1> QED
    BY <1>3, <1>4, <1>5

\* A directory keeps its name or loses it; no name goes over to a directory.
LEMMA ChangeEntry ==
    ASSUME TreeOK, Change, NEW d \in Dirs, NEW n \in Names
    PROVE  LET x == tree.entry[d][n]
               y == tree'.entry[d][n]
           IN  /\ x \in Dirs => y = x \/ y = NoInode
               /\ x \in Inodes /\ y \in Dirs => y = x
  <1> DEFINE x == tree.entry[d][n]
             y == tree'.entry[d][n]
  <1> SUFFICES /\ x \in Dirs => y = x \/ y = NoInode
               /\ x \in Inodes /\ y \in Dirs => y = x
    OBVIOUS
  <1>0. NoInode \notin Dirs /\ NoInode \notin Inodes /\ tree \in Trees
        /\ \A i : i \in Files => i \notin Dirs /\ i \in Inodes
    BY InodesAssumption DEF Dirs, Files, TreeOK
  <1>1. CASE \E i \in Touched : Chmod(i)
    <2>1. y = x
      BY <1>0, <1>1 DEF Chmod, Trees
    <2> QED
      BY <2>1
  <1>2. ASSUME NEW e \in Dirs, NEW m \in Names, Unlink(e, m)
        PROVE  y = x \/ y = NoInode
    BY <1>0, <1>2 DEF Unlink, Trees
  <1>3. ASSUME NEW i \in Files, NEW e \in Dirs, NEW m \in Names, Link(i, e, m)
        PROVE  y = x \/ x = NoInode
    BY <1>0, <1>3 DEF Link, Trees
  <1>4. ASSUME NEW a \in Dirs, NEW b \in Names, NEW e \in Dirs, NEW m \in Names,
               Rename(a, b, e, m)
        PROVE  /\ x \in Dirs => y = x \/ y = NoInode
               /\ x \in Inodes /\ y \in Dirs => y = x
    <2> DEFINE i == tree.entry[a][b]
    <2>1. /\ i \in Inodes /\ tree.entry[e][m] \notin Dirs /\ tree.entry[e][m] # i
          /\ i \in Dirs => tree.entry[e][m] = NoInode
      BY <1>4 DEF Rename
    <2>2. /\ d = e /\ n = m => y = i
          /\ ~(d = e /\ n = m) /\ d = a /\ n = b => y = NoInode
          /\ ~(d = e /\ n = m) /\ ~(d = a /\ n = b) => y = x
      BY <1>0, <1>4 DEF Rename, Trees
    <2> HIDE DEF y
    <2>3. CASE d = e /\ n = m
      BY <1>0, <2>1, <2>2, <2>3
    <2>4. CASE ~(d = e /\ n = m)
      BY <1>0, <2>2, <2>4
    <2> QED
      BY <2>3, <2>4
  <1> HIDE DEF y
  <1> QED
    BY <1>0, <1>1, <1>2, <1>3, <1>4, TouchedAssumption DEF Change

\* Where the same file is expected before a change and after it, the path leads
\* over the same inodes.
LEMMA ChangeKeepsPath ==
    ASSUME TypeOK, TypeOK', Change, UNCHANGED <<request, site>>,
           NEW i \in Files, Expected(tree) = File(i), Expected(tree') = File(i)
    PROVE  \A k \in 0 .. N : Named(tree', k) = Named(tree, k)
  <1> DEFINE u == tree'
             c == request.components
             T == {k \in 0 .. N : Named(u, k) = Named(tree, k)}
  <1>0. /\ N \in Nat /\ c \in Seq(Names) /\ N = Len(c)
        /\ TreeOK /\ tree \in Trees /\ u \in Trees /\ NoInode \notin Inodes
        /\ i \in Inodes /\ i \notin Dirs
        /\ \A d \in Dirs : d \in Inodes
    BY RequestType, InodesAssumption DEF TypeOK, TreeOK, Files, Dirs
  <1>1. /\ \A j \in 0 .. N : j < N => CanEnter(tree, Named(tree, j))
        /\ Target(tree) = i \/ CanEnter(tree, Target(tree))
    BY <1>0, ExpectsFile
  <1>2. /\ \A j \in 0 .. N : j < N => CanEnter(u, Named(u, j))
        /\ Target(u) = i \/ CanEnter(u, Target(u))
    <2> HIDE DEF u
    <2>1. Expected(u) = File(i)
      BY DEF u
    <2> QED
      BY <1>0, <2>1, ExpectsFile
  <1>3. /\ Named(tree, 0) = Root /\ Named(u, 0) = Root
        /\ \A k \in 1 .. N :
              /\ Named(tree, k) = IF CanEnter(tree, Named(tree, k-1))
                                  THEN tree.entry[Named(tree, k-1)][c[k]] ELSE NoInode
              /\ Named(u, k) = IF CanEnter(u, Named(u, k-1))
                               THEN u.entry[Named(u, k-1)][c[k]] ELSE NoInode
    <2> HIDE DEF u
    <2> QED
      BY <1>0, NamedStep
  <1>4. Target(tree) = Named(tree, N) /\ Target(u) = Named(u, N)
    BY DEF Target, N
  <1>5. 0 \in T
    BY <1>0, <1>3
  <1>6. ASSUME NEW k \in 1 .. N, k - 1 \in T
        PROVE  k \in T
    <2> DEFINE d == Named(tree, k - 1)
               x == Named(tree, k)
               y == Named(u, k)
    <2>1. k - 1 \in 0 .. N /\ k - 1 < N /\ k \in 0 .. N /\ Named(u, k-1) = d
      BY <1>0, <1>6
    <2>2. CanEnter(tree, d) /\ CanEnter(u, d)
      BY <1>1, <1>2, <2>1
    <2>3. d \in Dirs /\ c[k] \in Names
      BY <1>0, <2>2, Kinds
    <2>4. x = tree.entry[d][c[k]] /\ y = u.entry[d][c[k]]
      BY <1>3, <2>1, <2>2
    <2>5. /\ x \in Dirs => y = x \/ y = NoInode
          /\ x \in Inodes /\ y \in Dirs => y = x
      BY <1>0, <2>3, <2>4, ChangeEntry
    <2>6. (x = i \/ x \in Dirs) /\ (y = i \/ y \in Dirs)
      <3>1. CASE k = N
        BY <1>1, <1>2, <1>4, <3>1, Kinds
      <3>2. CASE k # N
        <4>1. k < N
          BY <1>0, <3>2
        <4>2. CanEnter(tree, x) /\ CanEnter(u, y)
          BY <1>1, <1>2, <2>1, <4>1
        <4> QED
          BY <4>2, Kinds
      <3> QED
        BY <3>1, <3>2
    <2>7. y = x
      <3> HIDE DEF x, y
      <3> QED
        BY <1>0, <2>5, <2>6
    <2> QED
      BY <2>1, <2>7
  <1> HIDE DEF T
  <1>7. 0 .. N \subseteq T
    BY <1>0, <1>5, <1>6, UpTo
  <1> QED
    BY <1>7 DEF T

\* and by the owners of the files, as long as what to expect is the same.
LEMMA AnswerOwners ==
    ASSUME TypeInv, TypeInv', PublishInv, AnswerInv, Owners
    PROVE  AnswerInv'
  <1>0. /\ Change /\ pc # "done" /\ moments' = moments \cup {tree'} /\ tree \in moments
        /\ UNCHANGED <<site, request, pc, dir, fd, todo, unread, entries, answer>>
        /\ TypeOK /\ TypeOK' /\ tree \in Trees /\ tree' \in Trees
    BY DEF Owners, walk, TypeInv, TypeOK, TreeOK
  <1>1. CASE moments' = {tree'}
    <2>1. tree' = tree /\ moments' = moments
      BY <1>0, <1>1
    <2> QED
      BY <1>0, <2>1, AnswerSame DEF walk
  <1>2. ASSUME NEW i \in Files, SteadyFile(i)'
        PROVE  AnswerInv'
    <2>1. SteadyFile(i) /\ Expected(tree) = File(i) /\ Expected(tree') = File(i)
      <3>1. \A t \in moments' : Expected(t)' = File(i)
        BY <1>2 DEF SteadyFile, File
      <3>2. \A t \in moments' : Expected(t) = File(i)
        BY <1>0, <3>1, SameReader
      <3> QED
        BY <1>0, <3>2 DEF SteadyFile
    <2>2. PathKept /\ OnPath /\ (Enough => OnlyIfNot /\ ReadSoFar)
      BY <2>1 DEF AnswerInv, Sure
    <2>3. /\ N' = N /\ N \in Nat /\ N = Len(request.components)
          /\ \A k \in 0 .. N : Named(tree', k) = Named(tree, k)
          /\ \A t, k : Named(t, k)' = Named(t, k)
          /\ \A t, x : CanEnter(t, x)' = CanEnter(t, x)
          /\ \A t : Target(t)' = Target(t)
      BY <1>0, <2>1, ChangeKeepsPath, SameReader, RequestType
    <2>4. PathKept'
      <3>1. ASSUME NEW t \in moments', NEW k \in 0 .. N
            PROVE  Named(t, k) = Named(tree', k)
        BY <1>0, <2>2, <2>3 DEF PathKept
      <3> QED
        BY <2>3, <3>1 DEF PathKept
    <2>5. /\ Target(tree') = Target(tree)
          /\ Target(tree) = Named(tree, N)
          /\ N \in 0 .. N
      BY <2>3 DEF Target, N
    \* A directory the path leads to has the file as its index.
    <2>6. ASSUME Target(tree) \in Dirs
          PROVE  /\ CanEnter(tree', Target(tree))
                 /\ FileOK(tree, i)
                 /\ tree.entry[Target(tree)]["index"] = i
                 /\ tree'.entry[Target(tree)]["index"] = i
      <3>1. Target(tree) # i
        BY <2>6 DEF Files, Dirs
      <3>2. FileOK(tree, i) /\ tree.entry[Target(tree)]["index"] = i
        BY <1>0, <2>1, <3>1, ExpectsFile
      <3> DEFINE u == tree'
      <3>3. Expected(u) = File(i) /\ u \in Trees /\ Target(u) = Target(tree)
        BY <1>0, <2>1, <2>5
      <3> HIDE DEF u
      <3>4. CanEnter(u, Target(u)) /\ u.entry[Target(u)]["index"] = i
        BY <1>0, <3>1, <3>3, ExpectsFile
      <3> QED
        BY <3>2, <3>3, <3>4 DEF u
    <2>7. OnPath'
      <3>0. Depth' = Depth /\ request.dirOnly' = request.dirOnly
        BY <1>0 DEF Depth
      <3>1. pc = "enter" => /\ fd = Named(tree', Depth) /\ fd \in Dirs
                            /\ CanEnter(tree', fd)
        <4> SUFFICES ASSUME pc = "enter"
                     PROVE  fd = Named(tree', Depth) /\ fd \in Dirs /\ CanEnter(tree', fd)
          OBVIOUS
        <4>1. Depth \in 0 .. N /\ fd = Named(tree, Depth) /\ fd \in Dirs
          BY <2>2, <2>3 DEF PublishInv, Remaining, OnPath
        <4>2. fd = Named(tree', Depth)
          BY <2>3, <4>1
        <4>3. CASE Depth = N
          BY <2>5, <2>6, <4>1, <4>2, <4>3
        <4>4. CASE Depth # N
          <5>1. Depth < N
            BY <2>3, <4>1, <4>4
          <5> DEFINE u == tree'
          <5>2. Expected(u) = File(i) /\ u \in Trees /\ fd = Named(u, Depth)
            BY <1>0, <2>1, <4>2
          <5> HIDE DEF u
          <5>3. CanEnter(u, fd)
            BY <1>0, <4>1, <5>1, <5>2, ExpectsFile
          <5> QED
            BY <4>1, <4>2, <5>3 DEF u
        <4> QED
          BY <4>3, <4>4
      <3>2. pc \in Descending => dir = Named(tree', Depth) /\ CanEnter(tree', dir)
        <4> SUFFICES ASSUME pc \in Descending
                     PROVE  dir = Named(tree', Depth) /\ CanEnter(tree', dir)
          OBVIOUS
        <4>1. Depth \in 0 .. N /\ dir = Named(tree, Depth)
          BY <2>2, <2>3 DEF PublishInv, Remaining, OnPath
        <4>2. dir = Named(tree', Depth)
          BY <2>3, <4>1
        <4>3. Depth < N
          <5>1. todo \in Seq(Names) /\ todo # <<>> /\ Depth = N - Len(todo)
            BY <2>3 DEF TypeInv, TypeOK, Held, Depth
          <5> QED
            BY <2>3, <5>1
        <4> DEFINE u == tree'
        <4>4. Expected(u) = File(i) /\ u \in Trees /\ dir = Named(u, Depth)
          BY <1>0, <2>1, <4>2
        <4> HIDE DEF u
        <4>5. CanEnter(u, dir)
          BY <1>0, <4>1, <4>3, <4>4, ExpectsFile
        <4> QED
          BY <4>2, <4>5 DEF u
      <3>3. pc \in AtTarget => dir = Target(tree') /\ CanEnter(tree', dir)
        BY <2>2, <2>5, <2>6, Kinds DEF OnPath
      <3>4. pc = "index_leaf" => fd = tree'.entry[dir]["index"]
        BY <2>2, <2>6, Kinds DEF OnPath, AtTarget
      <3>5. pc = "leaf" => fd = Target(tree')
        BY <2>2, <2>5 DEF OnPath
      <3>6. pc \in {"leaf", "reopen"} => ~request.dirOnly
        BY <2>2 DEF OnPath
      <3> QED
        BY <1>0, <2>3, <3>0, <3>1, <3>2, <3>3, <3>4, <3>5, <3>6
        DEF OnPath
    <2>8. Enough => pc \notin Unindexed
      <3>1. ASSUME Enough, pc \in Unindexed PROVE FALSE
        <4>1. pc \in AtTarget
          BY <3>1 DEF Unindexed, InListing, AtTarget, Classified
        <4>2. dir = Target(tree) /\ dir \in Dirs
          BY <2>2, <4>1, Kinds DEF OnPath
        <4> QED
          BY <2>2, <2>6, <3>1, <4>2 DEF OnlyIfNot
      <3> QED
        BY <3>1
    <2>9. Enough /\ pc = "reopen" => Target(tree) \in Dirs
      <3>1. ASSUME Enough, pc = "reopen" PROVE Target(tree) \in Dirs
        <4>1. ~FileOK(tree, Target(tree))
          BY <2>2, <3>1 DEF OnlyIfNot
        <4> QED
          BY <1>0, <2>1, <4>1, ExpectsFile, Kinds
      <3> QED
        BY <3>1
    <2>10. Enough' => OnlyIfNot' /\ ReadSoFar'
      <3> SUFFICES ASSUME Enough PROVE OnlyIfNot' /\ ReadSoFar'
        BY <1>0 DEF Enough
      <3>1. pc' = pc /\ pc \notin Unindexed /\ pc \notin InListing /\ pc \notin Collecting
            /\ pc \notin Classified
        BY <1>0, <2>8 DEF Unindexed, InListing, Collecting
      <3>2. pc = "reopen" => ~FileOK(tree, Target(tree))'
        BY <2>3, <2>5, <2>9, Kinds DEF FileOK
      <3>3. OnlyIfNot'
        BY <3>1, <3>2 DEF OnlyIfNot
      <3>4. ReadSoFar'
        BY <3>1 DEF ReadSoFar, Classified
      <3> QED
        BY <3>3, <3>4
    <2>11. AsExpected'
      BY <1>0 DEF AsExpected, Done
    <2> QED
      BY <2>4, <2>7, <2>10, <2>11 DEF AnswerInv
  <1> QED
    BY <1>1, <1>2 DEF AnswerInv, Sure

LEMMA AnswerStep == TypeInv /\ TypeInv' /\ PublishInv /\ AnswerInv /\ [Next]_vars => AnswerInv'
  BY AnswerServe, AnswerOwners, AnswerSame DEF Next, vars

LEMMA AnswerInvariant == Spec => []AnswerInv
  BY TypeInvariant, PublishInvariant, AnswerInit, AnswerStep, PTL DEF Spec

\* In a tree of any size that nobody changes, the answer to every request is the
\* one that the README promises; a daemon short of descriptors may answer less,
\* but never with another file.
THEOREM ResolverQuietAnswer == Spec => []QuietAnswer
  <1>1. AnswerInv => QuietAnswer
    BY DEF AnswerInv, Sure, AsExpected, QuietAnswer
  <1> QED
    BY <1>1, AnswerInvariant, PTL

\* A file that is public under the requested name, or is the index there, at
\* every moment of a request is served, whatever else is changed meanwhile.
THEOREM ResolverSteadyFileServed == Spec => []SteadyFileServed
  <1>1. TypeInv /\ AnswerInv => SteadyFileServed
    BY DEF TypeInv, AnswerInv, Sure, SteadyFile, AsExpected, SteadyFileServed
  <1> QED
    BY <1>1, TypeInvariant, AnswerInvariant, PTL
===============================================================================
