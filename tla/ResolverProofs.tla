---------------------------- MODULE ResolverProofs ----------------------------
(***************************************************************************)
(* What the daemon gives out was public, for every tree, however often it  *)
(* changes during the request, and for every request and site.             *)
(***************************************************************************)
EXTENDS Resolver, FiniteSetTheorems, SequenceTheorems, TLAPS

\* The types, with what the program counter says of the descriptors in hand.
Descending == {"walk", "leaf", "reopen"}
AtTarget   == {"index", "index_leaf", "generate", "open_list", "stat_list",
               "read", "collect", "entry", "entry_dir", "entry_enter"}
Classified == {"entry", "entry_dir", "entry_enter"}

Held ==
    /\ pc \in Descending \cup AtTarget => dir \in Dirs
    /\ pc \in {"enter", "leaf", "index_leaf", "entry", "entry_enter"} => fd \in Inodes
    /\ pc = "stat_list" => fd = dir
    /\ pc \in Descending \cup Classified => todo # <<>>
    /\ pc \in {"leaf", "reopen"} => Len(todo) = 1
    /\ pc \in {"start", "enter"} \cup Descending \cup (AtTarget \ ({"collect"} \cup Classified))
       => entries = {}

TypeInv == TypeOK /\ IsFiniteSet(entries) /\ tree \in moments /\ Held
-------------------------------------------------------------------------------
\* What an open returns: nothing, or the inode the name stands for.
LEMMA OpenedIs ==
    ASSUME NEW i, NEW f \in Opened(i)
    PROVE  f = i \/ f = NoInode
  BY DEF Opened

LEMMA ProbeIs ==
    ASSUME TreeOK, dir \in Dirs, NEW n \in Names, NEW f \in Probe(n), f # NoInode
    PROVE  f \in Inodes /\ f = tree.entry[dir][n]
  <1>1. f = OpenProbe(site.daemon, dir, n)
    BY OpenedIs DEF Probe
  <1> QED
    BY <1>1 DEF OpenProbe, Lookup, If

LEMMA TraverseIs ==
    ASSUME TreeOK, dir \in Dirs, NEW n \in Names, NEW f \in Traverse(n), f # NoInode
    PROVE  f \in Dirs /\ f = tree.entry[dir][n]
  <1>1. f = OpenTraverse(site.daemon, site.platform, dir, n)
    BY OpenedIs DEF Traverse
  <1> QED
    BY <1>1 DEF OpenTraverse, Lookup, If

LEMMA RootIs ==
    ASSUME NEW f \in Opened(OpenSelf(site.daemon, site.platform, Root)), f # NoInode
    PROVE  f = Root
  <1>1. f = OpenSelf(site.daemon, site.platform, Root)
    BY OpenedIs
  <1> QED
    BY <1>1 DEF OpenSelf, If

LEMMA ListIs ==
    ASSUME NEW f \in Opened(OpenList(site.daemon, dir)), f # NoInode
    PROVE  f = dir
  <1>1. f = OpenList(site.daemon, dir)
    BY OpenedIs
  <1> QED
    BY <1>1 DEF OpenList, If

\* The owners keep the tree a tree of this kind.
LEMMA ChangeKeepsTree ==
    ASSUME TreeOK, Change
    PROVE  TreeOK'
  <1> USE TouchedAssumption DEF TreeOK, Trees
  <1>1. changes' \in Nat
    BY DEF Change
  <1>2. CASE \E i \in Touched : Chmod(i)
    BY <1>1, <1>2 DEF Chmod, Flip
  <1>3. ASSUME NEW d \in Dirs, NEW n \in Names, Unlink(d, n)
        PROVE  TreeOK'
    BY <1>1, <1>3 DEF Unlink
  <1>4. ASSUME NEW d \in Dirs, NEW n \in Names, NEW i \in Files, Link(i, d, n)
        PROVE  TreeOK'
    BY <1>1, <1>4 DEF Link, Files
  <1>5. ASSUME NEW d \in Dirs, NEW n \in Names, NEW e \in Dirs, NEW m \in Names,
               Rename(d, n, e, m)
        PROVE  TreeOK'
    BY <1>1, <1>5 DEF Rename
  <1> QED
    BY <1>2, <1>3, <1>4, <1>5 DEF Change
-------------------------------------------------------------------------------
LEMMA TypeInit == Init => TypeInv
  <1> SUFFICES ASSUME Init PROVE TypeInv
    OBVIOUS
  <1>1. TypeOK
    BY StartsAssumption, RequestsAssumption, BoundsAssumption,
       FS_EmptySet
    DEF Init, TypeOK, TreeOK, Answers
  <1>2. IsFiniteSet(entries)
    BY FS_EmptySet DEF Init
  <1>3. Held
    BY DEF Init, Held, Descending, AtTarget, Classified
  <1> QED
    BY <1>1, <1>2, <1>3 DEF Init, TypeInv

\* Entries are counted before one more is taken in.
LEMMA CollectKeepsBound ==
    ASSUME TypeInv, todo # <<>>, NEW isDir \in BOOLEAN, Collect(isDir)
    PROVE  /\ entries' \subseteq Names \X BOOLEAN /\ IsFiniteSet(entries')
           /\ Cardinality(entries') <= MaxEntries
           /\ answer' \in Answers
           /\ pc' \in {"collect", "done"}
  <1> USE BoundsAssumption DEF TypeInv, TypeOK
  <1>0. Head(todo) \in Names
    BY HeadTailProperties
  <1>1. CASE UNCHANGED entries
    BY <1>1 DEF Collect, GoTo, Answer, Answers
  <1>2. CASE entries' = entries \cup {<<Head(todo), isDir>>} /\ Cardinality(entries) < MaxEntries
    <2>1. /\ IsFiniteSet(entries')
          /\ \/ Cardinality(entries') = Cardinality(entries)
             \/ Cardinality(entries') = Cardinality(entries) + 1
      BY <1>2, FS_AddElement
    <2>2. Cardinality(entries) \in Nat
      BY FS_CardinalityType
    <2>3. Cardinality(entries') <= MaxEntries
      BY <2>1, <2>2, <1>2
    <2> QED
      BY <1>0, <1>2, <2>1, <2>3 DEF Collect, GoTo, Answer, Answers
  <1> QED
    BY <1>1, <1>2 DEF Collect

LEMMA TypeServe ==
    ASSUME TypeInv, Serve
    PROVE  TypeInv'
  <1> USE DEF TypeInv, TypeOK
  <1>1. CASE OpenRoot
    <2>1. fd' \in {Root, NoInode}
      BY <1>1, RootIs DEF OpenRoot
    <2> QED
      BY <1>1, <2>1, InodesAssumption
      DEF OpenRoot, Keep, GoTo, Answer, Answers, Held, Descending, AtTarget, Classified, TreeOK, Dirs
  <1>2. CASE OpenDir
    <2>1. todo # <<>> /\ dir \in Dirs
      BY <1>2 DEF OpenDir, Held, Descending
    <2>2. Head(todo) \in Names /\ Tail(todo) \in Seq(Names)
      BY <2>1, HeadTailProperties
    <2>3. fd' \in Dirs \cup {NoInode}
      BY <1>2, <2>1, <2>2, TraverseIs DEF OpenDir
    <2> QED
      BY <1>2, <2>2, <2>3
      DEF OpenDir, Keep, GoTo, Answer, Answers, Held, Descending, AtTarget, Classified, TreeOK, Dirs
  <1>3. CASE Enter
    BY <1>3 DEF Enter, DirOK, Keep, GoTo, Answer, Answers, Held, Descending, AtTarget,
                Classified, TreeOK
  <1>4. CASE ProbeLeaf
    <2>1. todo # <<>> /\ dir \in Dirs
      BY <1>4 DEF ProbeLeaf, Held, Descending
    <2>2. fd' \in Inodes \cup {NoInode}
      BY <1>4, <2>1, HeadTailProperties, ProbeIs DEF ProbeLeaf
    <2> QED
      BY <1>4, <2>1, <2>2
      DEF ProbeLeaf, Keep, GoTo, Answers, Held, Descending, AtTarget, Classified, TreeOK
  <1>5. CASE StatLeaf
    BY <1>5 DEF StatLeaf, FileOK, Keep, GoTo, Answer, Answers, Held, Descending, AtTarget,
                Classified, TreeOK
  <1>6. CASE ProbeIndex
    <2>1. dir \in Dirs
      BY <1>6 DEF ProbeIndex, Held, AtTarget
    <2>2. fd' \in Inodes \cup {NoInode}
      BY <1>6, <2>1, NamesAssumption, ProbeIs DEF ProbeIndex
    <2> QED
      BY <1>6, <2>1, <2>2
      DEF ProbeIndex, Keep, GoTo, Answers, Held, Descending, AtTarget, Classified, TreeOK
  <1>7. CASE StatIndex
    BY <1>7 DEF StatIndex, FileOK, Keep, GoTo, Answer, Answers, Held, Descending, AtTarget,
                Classified, TreeOK
  <1>8. CASE StatDir
    BY <1>8 DEF StatDir, Keep, GoTo, Answer, Answers, Held, Descending, AtTarget,
                Classified, TreeOK
  <1>9. CASE OpenListing
    <2>1. fd' \in {dir, NoInode} /\ dir \in Dirs
      BY <1>9, ListIs DEF OpenListing, Held, AtTarget
    <2> QED
      BY <1>9, <2>1
      DEF OpenListing, Keep, GoTo, Answer, Answers, Held, Descending, AtTarget, Classified,
          TreeOK, Dirs
  <1>10. CASE StatListing
    BY <1>10 DEF StatListing, Keep, GoTo, Answer, Answers, Held, Descending, AtTarget,
                 Classified, TreeOK
  <1>11. CASE ReadDir
    <2>1. fd' \in {dir, NoInode} /\ dir \in Dirs
      BY <1>11, ListIs DEF ReadDir, Held, AtTarget
    <2> QED
      BY <1>11, <2>1
      DEF ReadDir, NamesIn, Keep, GoTo, Answer, Answers, Held, Descending, AtTarget, Classified,
          TreeOK, Dirs
  <1>12. CASE ProbeEntry
    <2>1. dir \in Dirs
      BY <1>12 DEF ProbeEntry, Held, AtTarget
    <2>2. PICK n \in unread : unread' = unread \ {n} /\ todo' = <<n>> /\ fd' \in Probe(n)
      BY <1>12 DEF ProbeEntry
    <2>3. n \in Names
      BY <2>2
    <2>4. fd' \in Inodes \cup {NoInode}
      BY <2>1, <2>2, <2>3, ProbeIs
    <2>5. todo' \in Seq(Names) /\ todo' # <<>>
      BY <2>2, <2>3
    <2> QED
      BY <1>12, <2>1, <2>2, <2>4, <2>5
      DEF ProbeEntry, Keep, GoTo, Answers, Held, Descending, AtTarget, Classified, TreeOK
  <1>13. CASE StatEntry
    <2>1. todo # <<>> /\ dir \in Dirs
      BY <1>13 DEF StatEntry, Held, AtTarget, Classified
    <2>2. CASE \E isDir \in BOOLEAN : Collect(isDir)
      BY <1>13, <2>1, <2>2, CollectKeepsBound
      DEF StatEntry, Keep, Held, Descending, AtTarget, Classified, TreeOK
    <2>3. CASE GoTo("entry_dir") /\ UNCHANGED entries
      BY <1>13, <2>1, <2>3
      DEF StatEntry, Keep, GoTo, Answers, Held, Descending, AtTarget, Classified, TreeOK
    <2> QED
      BY <1>13, <2>2, <2>3 DEF StatEntry
  <1>14. CASE OpenEntry
    <2>1. todo # <<>> /\ dir \in Dirs
      BY <1>14 DEF OpenEntry, Held, AtTarget, Classified
    <2>2. fd' \in Dirs \cup {NoInode}
      BY <1>14, <2>1, HeadTailProperties, TraverseIs DEF OpenEntry
    <2> QED
      BY <1>14, <2>1, <2>2
      DEF OpenEntry, Keep, GoTo, Answers, Held, Descending, AtTarget, Classified, TreeOK, Dirs
  <1>15. CASE StatEntryDir
    <2>1. todo # <<>> /\ dir \in Dirs
      BY <1>15 DEF StatEntryDir, Held, AtTarget, Classified
    <2>2. CASE Collect(TRUE)
      BY <1>15, <2>1, <2>2, CollectKeepsBound
      DEF StatEntryDir, Keep, Held, Descending, AtTarget, Classified, TreeOK
    <2>3. CASE GoTo("collect") /\ UNCHANGED entries
      BY <1>15, <2>1, <2>3
      DEF StatEntryDir, Keep, GoTo, Answers, Held, Descending, AtTarget, Classified, TreeOK
    <2> QED
      BY <1>15, <2>2, <2>3 DEF StatEntryDir
  <1>16. CASE Render
    BY <1>16 DEF Render, Keep, Answer, Answers, Held, Descending, AtTarget, Classified, TreeOK
  <1> QED
    BY <1>1, <1>2, <1>3, <1>4, <1>5, <1>6, <1>7, <1>8, <1>9, <1>10, <1>11, <1>12, <1>13,
       <1>14, <1>15, <1>16
    DEF Serve

LEMMA TypeStep == TypeInv /\ [Next]_vars => TypeInv'
  <1> SUFFICES ASSUME TypeInv, [Next]_vars PROVE TypeInv'
    OBVIOUS
  <1>1. CASE Serve
    BY <1>1, TypeServe
  <1>2. CASE Owners
    <2>1. TreeOK'
      BY <1>2, ChangeKeepsTree DEF Owners, TypeInv, TypeOK
    <2> QED
      BY <1>2, <2>1
      DEF Owners, walk, TypeInv, TypeOK, TreeOK, Held, Descending, AtTarget, Classified
  <1>3. CASE UNCHANGED vars
    BY <1>3 DEF vars, walk, TypeInv, TypeOK, TreeOK, Held, Descending, AtTarget, Classified
  <1> QED
    BY <1>1, <1>2, <1>3 DEF Next

LEMMA TypeInvariant == Spec => []TypeInv
  BY TypeInit, TypeStep, PTL DEF Spec

\* Types, and never more entries in hand than MAX_ENTRIES, in a tree of any size.
THEOREM ResolverTypeOK == Spec => []TypeOK
  BY TypeInvariant, PTL DEF TypeInv
-------------------------------------------------------------------------------
(* The inductive invariant behind FileWasPublished and ListingWasPublished:   *)
(* what the walk has in hand was reached over public directories, each at a   *)
(* moment of its own.                                                         *)
Depth == Len(request.components) - Len(todo)

\* The components not opened yet are the last ones of the request.
Remaining ==
    pc \in {"start", "enter"} \cup Descending =>
        /\ Depth \in 0 .. Len(request.components)
        /\ \A j \in 1 .. Len(todo) : todo[j] = request.components[Depth + j]

OnTrail ==
    /\ pc = "start" => Depth = 0
    /\ pc = "enter" => Trail(Depth, fd)
    /\ pc \in Descending => Trail(Depth, dir) /\ Passable(dir)
    /\ pc = "leaf" => Stood(dir, Head(todo), fd)
    /\ pc \in AtTarget => ToTarget(dir) /\ Passable(dir)
    /\ pc = "index_leaf" => Stood(dir, "index", fd)

Listed ==
    /\ pc \in {"open_list", "stat_list", "read", "collect"} \cup Classified =>
         \E t \in moments : Listable(t, dir)
    /\ unread \subseteq Names \ Hidden
    /\ pc \in Classified => Head(todo) \notin Hidden
    /\ pc \in {"entry", "entry_enter"} => Stood(dir, Head(todo), fd)
    /\ \A e \in entries : EntryPublished(dir, e)

PublishInv == Remaining /\ OnTrail /\ Listed /\ FileWasPublished /\ ListingWasPublished

LEMMA TrailStart == Trail(0, Root)
  <1> DEFINE s == [j \in 0 .. 0 |-> Root]
  <1>1. s \in [0 .. 0 -> Inodes] /\ s[0] = Root
    BY InodesAssumption DEF Dirs
  <1>2. \A j \in 1 .. 0 : FALSE
    OBVIOUS
  <1> QED
    BY <1>1, <1>2, Zenon DEF Trail

\* A trail goes on below a directory that was public.
LEMMA TrailStep ==
    ASSUME NEW k \in Nat, NEW d, NEW i \in Inodes, Trail(k, d), Passable(d),
           Stood(d, request.components[k + 1], i)
    PROVE  Trail(k + 1, i)
  <1>1. PICK s \in [0 .. k -> Inodes] :
          /\ s[0] = Root /\ s[k] = d
          /\ \A j \in 1 .. k : /\ Passable(s[j-1])
                               /\ Stood(s[j-1], request.components[j], s[j])
    BY DEF Trail
  <1> DEFINE u == [j \in 0 .. k + 1 |-> IF j = k + 1 THEN i ELSE s[j]]
  <1>2. u \in [0 .. k + 1 -> Inodes]
    OBVIOUS
  <1>3. u[0] = Root /\ u[k + 1] = i
    BY <1>1
  <1>4. ASSUME NEW j \in 1 .. k + 1
        PROVE  Passable(u[j-1]) /\ Stood(u[j-1], request.components[j], u[j])
    <2>1. CASE j = k + 1
      <3>1. u[j-1] = d /\ u[j] = i
        BY <1>1, <2>1
      <3> QED
        BY <2>1, <3>1
    <2>2. CASE j # k + 1
      <3>1. j \in 1 .. k
        BY <2>2
      <3>2. u[j-1] = s[j-1] /\ u[j] = s[j]
        BY <3>1
      <3> QED
        BY <1>1, <3>1, <3>2
    <2> QED
      BY <2>1, <2>2
  <1> QED
    BY <1>2, <1>3, <1>4 DEF Trail

\* The history only grows, so what it shows once it shows for ever.
LEMMA Lasting ==
    ASSUME moments \subseteq moments', request' = request
    PROVE  /\ \A k, i : Trail(k, i) => Trail(k, i)'
           /\ \A d : Passable(d) => Passable(d)'
           /\ \A d, n, i : Stood(d, n, i) => Stood(d, n, i)'
           /\ \A d, e : EntryPublished(d, e) => EntryPublished(d, e)'
  <1>1. \A d : Passable(d) => Passable(d)'
    BY DEF Passable
  <1>2. \A d, n, i : Stood(d, n, i) => Stood(d, n, i)'
    BY DEF Stood
  <1>3. \A k, i : Trail(k, i) => Trail(k, i)'
    BY <1>1, <1>2 DEF Trail
  <1>4. \A d, e : EntryPublished(d, e) => EntryPublished(d, e)'
    BY <1>2 DEF EntryPublished
  <1> QED
    BY <1>1, <1>2, <1>3, <1>4

LEMMA PublishInit == Init => PublishInv
  <1> SUFFICES ASSUME Init PROVE PublishInv
    OBVIOUS
  <1>1. todo = request.components /\ todo \in Seq(Names)
    BY RequestsAssumption DEF Init
  <1>2. Depth = 0 /\ Len(todo) \in Nat
    BY <1>1 DEF Depth
  <1>3. Remaining
    BY <1>1, <1>2 DEF Remaining
  <1>4. pc = "start" /\ unread = {} /\ entries = {} /\ ~Done
    BY DEF Init, Done
  <1> QED
    BY <1>2, <1>3, <1>4
    DEF PublishInv, OnTrail, Listed, FileWasPublished, ListingWasPublished, Descending,
        AtTarget, Classified

\* A step of the walk that answers nothing published keeps what was answered.
LEMMA NothingPublished ==
    ASSUME pc' # "done" \/ answer'.kind \notin {"file", "listing"}
    PROVE  FileWasPublished' /\ ListingWasPublished'
  BY DEF FileWasPublished, ListingWasPublished, Done

LEMMA AnswerKinds ==
    /\ NotFound.kind = "not_found" /\ Failed.kind = "error" /\ NoAnswer.kind = "none"
    /\ \A i : File(i).kind = "file" /\ File(i).inode = i
    /\ \A E : Listing(E).kind = "listing" /\ Listing(E).entries = E
  BY DEF NotFound, Failed, NoAnswer, File, Listing

\* The inode an entry of the tree stands for is seen in the history.
LEMMA StoodNow ==
    ASSUME TypeInv, NEW d, NEW n
    PROVE  Stood(d, n, tree.entry[d][n])
  BY DEF Stood, TypeInv

\* The whole of PublishInv is about walk and the history.
LEMMA PublishLasting ==
    ASSUME PublishInv, moments \subseteq moments', UNCHANGED walk
    PROVE  PublishInv'
  <1>1. UNCHANGED <<request, pc, dir, fd, todo, unread, entries, answer>>
    BY DEF walk
  <1>2. Remaining' /\ Depth' = Depth
    BY <1>1 DEF PublishInv, Remaining, Depth
  <1>3. OnTrail'
    BY <1>1, <1>2, Lasting DEF PublishInv, OnTrail, ToTarget
  <1>4. Listed'
    BY <1>1, Lasting DEF PublishInv, Listed
  <1>5. FileWasPublished'
    BY <1>1, Lasting DEF PublishInv, FileWasPublished, Done, ToTarget
  <1>6. ListingWasPublished'
    BY <1>1, Lasting DEF PublishInv, ListingWasPublished, Done, ToTarget
  <1> QED
    BY <1>2, <1>3, <1>4, <1>5, <1>6 DEF PublishInv

\* What stays as it is when a step changes the descriptors but not the entries.
LEMMA ListedLasting ==
    ASSUME PublishInv, moments' = moments, request' = request,
           dir' = dir, unread' \subseteq unread, entries' = entries
    PROVE  /\ unread' \subseteq Names \ Hidden
           /\ \A e \in entries' : EntryPublished(dir, e)'
  BY Lasting DEF PublishInv, Listed

LEMMA PublishWalk ==
    ASSUME TypeInv, PublishInv,
           OpenRoot \/ OpenDir \/ Enter \/ ProbeLeaf \/ StatLeaf
    PROVE  PublishInv'
  <1> DEFINE N == Len(request.components)
  <1>0. /\ moments' = moments /\ request' = request /\ tree' = tree
        /\ unread' = unread /\ entries' = entries
    BY DEF OpenRoot, OpenDir, Enter, ProbeLeaf, StatLeaf, Keep
  <1>1. N \in Nat /\ todo \in Seq(Names) /\ Len(todo) \in Nat
    BY RequestsAssumption DEF TypeInv, TypeOK
  <1>2. CASE OpenRoot
    <2>1. pc = "start" /\ Depth = 0 /\ UNCHANGED <<dir, todo>> /\ Depth' = Depth
      BY <1>0, <1>2 DEF OpenRoot, Keep, PublishInv, OnTrail, Depth
    <2>2. CASE fd' = NoInode /\ Answer(NotFound)
      BY <1>0, <2>1, <2>2, NothingPublished, AnswerKinds, ListedLasting
      DEF Answer, PublishInv, Remaining, OnTrail, Listed, Descending, AtTarget, Classified
    <2>3. CASE fd' # NoInode /\ GoTo("enter")
      <3>1. fd' = Root
        BY <1>2, <2>3, RootIs DEF OpenRoot
      <3>2. Trail(0, fd)'
        BY <1>0, <3>1, TrailStart, Lasting
      <3>3. Remaining'
        BY <1>0, <2>1, <2>3 DEF GoTo, PublishInv, Remaining, Depth
      <3> QED
        BY <1>0, <2>1, <2>3, <3>2, <3>3, NothingPublished, ListedLasting
        DEF GoTo, PublishInv, OnTrail, Listed, Descending, AtTarget, Classified
    <2> QED
      BY <1>2, <2>2, <2>3 DEF OpenRoot
  <1>3. CASE OpenDir
    <2>1. pc \in Descending /\ todo # <<>> /\ dir \in Dirs /\ dir' = dir
      BY <1>3 DEF OpenDir, Keep, Descending, TypeInv, Held
    <2>2. CASE fd' = NoInode /\ Answer(NotFound)
      BY <1>0, <2>1, <2>2, NothingPublished, AnswerKinds, ListedLasting
      DEF Answer, PublishInv, Remaining, OnTrail, Listed, Descending, AtTarget, Classified
    <2>3. CASE fd' # NoInode /\ GoTo("enter")
      <3>1. /\ Head(todo) \in Names /\ Head(todo) = todo[1] /\ todo' = Tail(todo)
            /\ Len(todo) > 0 /\ Len(Tail(todo)) = Len(todo) - 1
            /\ \A j \in 1 .. Len(Tail(todo)) : Tail(todo)[j] = todo[j + 1]
        BY <1>1, <1>3, <2>1, HeadTailProperties DEF OpenDir
      <3>2. /\ Depth \in 0 .. N /\ Head(todo) = request.components[Depth + 1]
            /\ \A j \in 1 .. Len(todo) : todo[j] = request.components[Depth + j]
        BY <1>1, <2>1, <3>1 DEF PublishInv, Remaining
      <3>3. fd' \in Inodes /\ fd' = tree.entry[dir][Head(todo)]
        BY <1>3, <2>1, <2>3, <3>1, TraverseIs DEF OpenDir, TypeInv, TypeOK, Dirs
      <3>4. Trail(Depth + 1, fd')
        <4>1. Trail(Depth, dir) /\ Passable(dir)
          BY <2>1 DEF PublishInv, OnTrail
        <4>2. Stood(dir, request.components[Depth + 1], fd')
          BY <3>2, <3>3, StoodNow
        <4> QED
          BY <3>2, <3>3, <4>1, <4>2, TrailStep
      <3>5. Depth' = Depth + 1
        <4>1. Depth = N - Len(todo) /\ Depth' = N' - Len(todo') /\ N' = N
          BY <1>0 DEF Depth
        <4>2. Len(todo') = Len(todo) - 1
          BY <3>1
        <4> QED
          BY <1>1, <4>1, <4>2
      <3>6. Remaining'
        <4>1. Depth + 1 \in 0 .. N
          BY <1>1, <3>1, <3>2 DEF Depth
        <4>2. ASSUME NEW j \in 1 .. Len(Tail(todo))
              PROVE  Tail(todo)[j] = request.components[Depth + 1 + j]
          <5>1. j + 1 \in 1 .. Len(todo) /\ Depth + (j + 1) = Depth + 1 + j
            BY <1>1, <3>1, <3>2
          <5> QED
            BY <3>1, <3>2, <5>1
        <4> QED
          BY <1>0, <3>1, <3>5, <4>1, <4>2 DEF Remaining
      <3> QED
        BY <1>0, <2>1, <2>3, <3>4, <3>5, <3>6, Lasting, NothingPublished, ListedLasting
        DEF GoTo, PublishInv, OnTrail, Listed, Descending, AtTarget, Classified
    <2> QED
      BY <1>3, <2>2, <2>3 DEF OpenDir
  <1>4. CASE Enter
    <2>1. pc = "enter" /\ fd \in Inodes /\ todo' = todo /\ Depth' = Depth /\ Trail(Depth, fd)
      BY <1>0, <1>4 DEF Enter, Keep, Depth, TypeInv, Held, PublishInv, OnTrail
    <2>2. CASE dir' = dir /\ Answer(NotFound)
      BY <1>0, <2>1, <2>2, NothingPublished, AnswerKinds, ListedLasting
      DEF Answer, PublishInv, Remaining, OnTrail, Listed, Descending, AtTarget, Classified
    <2>3. CASE DirOK(tree, fd) /\ dir' = fd /\ GoTo(IF todo = <<>> THEN "index" ELSE "walk")
      <3>1. Passable(dir)' /\ Trail(Depth, dir)'
        <4>1. Passable(fd)
          BY <2>3 DEF Passable, TypeInv
        <4> QED
          BY <1>0, <2>1, <2>3, <4>1, Lasting
      <3>2. entries = {} /\ unread \subseteq Names \ Hidden
        BY <2>1 DEF TypeInv, Held, PublishInv, Listed
      <3>3. CASE todo = <<>>
        <4>1. Depth = N /\ pc' = "index"
          BY <1>1, <2>3, <3>3 DEF Depth, GoTo
        <4> QED
          BY <1>0, <2>1, <3>1, <3>2, <4>1, NothingPublished
          DEF PublishInv, Remaining, OnTrail, ToTarget, Listed, Descending, AtTarget, Classified
      <3>4. CASE todo # <<>>
        <4>1. pc' = "walk" /\ Remaining'
          BY <1>0, <2>1, <2>3, <3>4 DEF GoTo, PublishInv, Remaining, Depth
        <4> QED
          BY <1>0, <2>1, <3>1, <3>2, <4>1, NothingPublished
          DEF PublishInv, OnTrail, Listed, Descending, AtTarget, Classified
      <3> QED
        BY <3>3, <3>4
    <2> QED
      BY <1>4, <2>2, <2>3 DEF Enter
  <1>5. CASE ProbeLeaf
    <2>1. /\ pc = "walk" /\ pc \in Descending /\ todo # <<>> /\ dir \in Dirs
          /\ UNCHANGED <<dir, todo>> /\ Depth' = Depth
      BY <1>0, <1>5 DEF ProbeLeaf, Keep, Descending, Depth, TypeInv, Held
    <2>2. fd' # NoInode => Stood(dir, Head(todo), fd')
      BY <1>1, <1>5, <2>1, HeadTailProperties, ProbeIs, StoodNow DEF ProbeLeaf, TypeInv, TypeOK
    <2>3. \/ pc' = "reopen"
          \/ pc' = "leaf" /\ fd' # NoInode
      BY <1>5 DEF ProbeLeaf, GoTo
    <2>4. Remaining'
      BY <1>0, <2>1 DEF PublishInv, Remaining, Depth
    <2>5. OnTrail'
      BY <1>0, <2>1, <2>2, <2>3, Lasting DEF PublishInv, OnTrail, Descending, AtTarget
    <2> QED
      BY <1>0, <2>1, <2>3, <2>4, <2>5, NothingPublished, ListedLasting
      DEF PublishInv, Listed, Classified
  <1>6. CASE StatLeaf
    <2>1. /\ pc = "leaf" /\ pc \in Descending /\ todo # <<>> /\ dir \in Dirs /\ fd \in Inodes
          /\ UNCHANGED <<dir, fd, todo>> /\ Depth' = Depth /\ Len(todo) = 1
      BY <1>0, <1>6 DEF StatLeaf, Keep, Descending, Depth, TypeInv, Held
    <2>2. CASE FileOK(tree, fd) /\ Answer(File(fd))
      <3>1. /\ Head(todo) = todo[1] /\ Depth + 1 = N
            /\ todo[1] = request.components[Depth + 1] /\ Depth \in Nat
        BY <1>1, <2>1, HeadTailProperties DEF PublishInv, Remaining, Depth
      <3>2. Trail(Depth + 1, fd)
        BY <2>1, <3>1, TrailStep DEF PublishInv, OnTrail
      <3>3. ToTarget(fd)'
        BY <1>0, <2>1, <3>1, <3>2, Lasting DEF ToTarget
      <3>4. \E t \in moments : FileOK(t, fd)
        BY <2>2 DEF TypeInv
      <3>5. answer'.kind = "file" /\ answer'.inode = fd /\ pc' = "done"
        BY <2>2, AnswerKinds DEF Answer
      <3>6. FileWasPublished' /\ ListingWasPublished'
        BY <1>0, <2>1, <3>3, <3>4, <3>5 DEF FileWasPublished, ListingWasPublished
      <3> QED
        BY <1>0, <2>1, <3>5, <3>6, ListedLasting
        DEF PublishInv, Remaining, OnTrail, Listed, Descending, AtTarget, Classified
    <2>3. CASE GoTo("reopen")
      <3>1. Remaining' /\ pc' = "reopen"
        BY <1>0, <2>1, <2>3 DEF GoTo, PublishInv, Remaining, Depth, Descending
      <3> QED
        BY <1>0, <2>1, <3>1, Lasting, NothingPublished, ListedLasting
        DEF PublishInv, OnTrail, Listed, Descending, AtTarget, Classified
    <2>4. CASE Answer(NotFound)
      BY <1>0, <2>1, <2>4, NothingPublished, AnswerKinds, ListedLasting
      DEF Answer, PublishInv, Remaining, OnTrail, Listed, Descending, AtTarget, Classified
    <2> QED
      BY <1>6, <2>2, <2>3, <2>4 DEF StatLeaf
  <1> QED
    BY <1>2, <1>3, <1>4, <1>5, <1>6

\* Of an entry whose inode was public when it was looked at.
LEMMA CollectPublished ==
    ASSUME TypeInv, PublishInv, NEW isDir \in BOOLEAN, Collect(isDir),
           todo # <<>>, Head(todo) \notin Hidden, fd \in Inodes, Stood(dir, Head(todo), fd),
           IF isDir THEN Listable(tree, fd) ELSE FileOK(tree, fd)
    PROVE  \A e \in entries' : EntryPublished(dir, e)
  <1>1. \E t \in moments : IF isDir THEN Listable(t, fd) ELSE FileOK(t, fd)
    BY DEF TypeInv
  <1>2. Head(todo) \notin Garbled => EntryPublished(dir, <<Head(todo), isDir>>)
    BY <1>1 DEF EntryPublished
  <1> QED
    BY <1>2 DEF Collect, PublishInv, Listed

LEMMA PublishList ==
    ASSUME TypeInv, PublishInv,
           \/ ProbeIndex \/ StatIndex \/ StatDir \/ OpenListing \/ StatListing \/ ReadDir
           \/ ProbeEntry \/ StatEntry \/ OpenEntry \/ StatEntryDir \/ Render
    PROVE  PublishInv'
  <1>0. /\ moments' = moments /\ request' = request /\ tree' = tree
        /\ pc \in AtTarget /\ dir \in Dirs /\ dir' = dir
    BY DEF ProbeIndex, StatIndex, StatDir, OpenListing, StatListing, ReadDir, ProbeEntry,
           StatEntry, OpenEntry, StatEntryDir, Render, Keep, AtTarget, TypeInv, Held
  <1>1. ToTarget(dir)' /\ Passable(dir)'
    BY <1>0, Lasting DEF PublishInv, OnTrail, ToTarget
  <1>2. tree \in moments
    BY DEF TypeInv
  <1> USE <1>0, <1>1, <1>2
          DEF PublishInv, Remaining, OnTrail, Listed, Descending, AtTarget, Classified
  <1>3. CASE ProbeIndex
    <2>1. fd' # NoInode => Stood(dir, "index", fd')
      BY <1>3, NamesAssumption, ProbeIs, StoodNow DEF ProbeIndex, TypeInv, TypeOK
    <2>2. \/ pc' = "generate"
          \/ pc' = "index_leaf" /\ fd' # NoInode
      BY <1>3 DEF ProbeIndex, GoTo
    <2>3. unread' = unread /\ entries' = entries
      BY <1>3 DEF ProbeIndex, Keep
    <2> QED
      BY <2>1, <2>2, <2>3, Lasting, ListedLasting, NothingPublished
  <1>4. CASE StatIndex
    <2>1. pc = "index_leaf" /\ unread' = unread /\ entries' = entries /\ fd' = fd
      BY <1>4 DEF StatIndex, Keep
    <2>2. CASE FileOK(tree, fd) /\ Answer(File(fd))
      <3>1. answer'.kind = "file" /\ answer'.inode = fd /\ pc' = "done"
        BY <2>2, AnswerKinds DEF Answer
      <3>2. Stood(dir, "index", fd)'
        BY <2>1, Lasting
      <3>3. FileWasPublished' /\ ListingWasPublished'
        BY <2>1, <2>2, <3>1, <3>2 DEF FileWasPublished, ListingWasPublished
      <3> QED
        BY <2>1, <3>1, <3>3, ListedLasting
    <2>3. CASE GoTo("generate")
      BY <2>1, <2>3, ListedLasting, NothingPublished DEF GoTo
    <2> QED
      BY <1>4, <2>2, <2>3 DEF StatIndex
  <1>5. CASE StatDir
    <2>1. unread' = unread /\ entries' = entries
      BY <1>5 DEF StatDir, Keep
    <2>2. CASE Listable(tree, dir) /\ GoTo("open_list")
      BY <2>1, <2>2, ListedLasting, NothingPublished DEF GoTo
    <2>3. CASE Answer(NotFound)
      BY <2>1, <2>3, ListedLasting, NothingPublished, AnswerKinds DEF Answer
    <2> QED
      BY <1>5, <2>2, <2>3 DEF StatDir
  <1>6. CASE OpenListing
    <2>1. pc = "open_list" /\ unread' = unread /\ entries' = entries
      BY <1>6 DEF OpenListing, Keep
    <2>2. CASE Answer(NotFound)
      BY <2>1, <2>2, ListedLasting, NothingPublished, AnswerKinds DEF Answer
    <2>3. CASE GoTo("stat_list")
      BY <2>1, <2>3, ListedLasting, NothingPublished DEF GoTo
    <2> QED
      BY <1>6, <2>2, <2>3 DEF OpenListing
  <1>7. CASE StatListing
    <2>1. pc = "stat_list" /\ unread' = unread /\ entries' = entries
      BY <1>7 DEF StatListing, Keep
    <2>2. CASE Answer(NotFound)
      BY <2>1, <2>2, ListedLasting, NothingPublished, AnswerKinds DEF Answer
    <2>3. CASE GoTo("read")
      BY <2>1, <2>3, ListedLasting, NothingPublished DEF GoTo
    <2> QED
      BY <1>7, <2>2, <2>3 DEF StatListing
  <1>8. CASE ReadDir
    <2>1. pc = "read" /\ entries' = entries
      BY <1>8 DEF ReadDir, Keep
    <2>2. unread' \subseteq Names \ Hidden /\ (\A e \in entries' : EntryPublished(dir, e)')
      BY <1>8, <2>1, Lasting DEF ReadDir, NamesIn
    <2>3. CASE Answer(Failed)
      BY <2>1, <2>2, <2>3, NothingPublished, AnswerKinds DEF Answer
    <2>4. CASE GoTo("collect")
      BY <2>1, <2>2, <2>4, NothingPublished DEF GoTo
    <2> QED
      BY <1>8, <2>3, <2>4 DEF ReadDir
  <1>9. CASE ProbeEntry
    <2>1. PICK n \in unread : unread' = unread \ {n} /\ todo' = <<n>> /\ fd' \in Probe(n)
      BY <1>9 DEF ProbeEntry
    <2>2. n \in Names /\ n \notin Hidden /\ Head(todo') = n
      BY <2>1
    <2>3. fd' # NoInode => Stood(dir, n, fd')
      BY <2>1, <2>2, ProbeIs, StoodNow DEF TypeInv, TypeOK
    <2>4. \/ pc' = "entry_dir"
          \/ pc' = "entry" /\ fd' # NoInode
      BY <1>9 DEF ProbeEntry, GoTo
    <2>5. pc = "collect" /\ entries' = entries /\ unread' \subseteq unread
      BY <1>9, <2>1 DEF ProbeEntry, Keep
    <2>6. fd' # NoInode => Stood(dir, Head(todo), fd)'
      BY <2>2, <2>3, Lasting
    <2> QED
      BY <2>2, <2>4, <2>5, <2>6, ListedLasting, NothingPublished
  <1>10. CASE OpenEntry
    <2>1. pc = "entry_dir" /\ unread' = unread /\ entries' = entries /\ todo' = todo
      BY <1>10 DEF OpenEntry, Keep
    <2>2. \/ pc' = "collect"
          \/ pc' = "entry_enter" /\ fd' # NoInode
      BY <1>10 DEF OpenEntry, GoTo
    <2>3. fd' # NoInode => Stood(dir, Head(todo), fd')
      BY <1>10, <2>1, HeadTailProperties, TraverseIs, StoodNow
      DEF OpenEntry, TypeInv, TypeOK, Held
    <2>4. fd' # NoInode => Stood(dir, Head(todo), fd)'
      BY <2>1, <2>3, Lasting
    <2> QED
      BY <2>1, <2>2, <2>4, ListedLasting, NothingPublished
  <1>11. CASE StatEntry \/ StatEntryDir
    <2>1. /\ pc \in {"entry", "entry_enter"} /\ fd \in Inodes /\ todo # <<>>
          /\ UNCHANGED <<fd, todo, unread>>
      BY <1>11 DEF StatEntry, StatEntryDir, Keep, TypeInv, Held
    <2>2. CASE \E isDir \in BOOLEAN :
                  /\ Collect(isDir)
                  /\ IF isDir THEN Listable(tree, fd) ELSE FileOK(tree, fd)
      <3>1. \A e \in entries' : EntryPublished(dir, e)
        BY <2>1, <2>2, CollectPublished
      <3>2. \A e \in entries' : EntryPublished(dir, e)'
        BY <3>1, Lasting
      <3>3. \/ pc' = "collect"
            \/ pc' = "done" /\ answer' = NotFound
        BY <2>2 DEF Collect, GoTo, Answer
      <3> QED
        BY <2>1, <3>2, <3>3, NothingPublished, AnswerKinds
    <2>3. CASE pc' \in {"entry_dir", "collect"} /\ UNCHANGED entries
      BY <2>1, <2>3, Lasting, ListedLasting, NothingPublished
    <2> QED
      BY <1>11, <2>2, <2>3 DEF StatEntry, StatEntryDir, GoTo
  <1>12. CASE Render
    <2>1. /\ pc = "collect" /\ pc' = "done" /\ entries' = entries /\ unread' = unread
          /\ answer' = (IF Size(entries) > MaxBytes THEN NotFound ELSE Listing(entries))
      BY <1>12 DEF Render, Answer, Keep
    <2>2. CASE answer' = NotFound
      BY <2>1, <2>2, ListedLasting, NothingPublished, AnswerKinds
    <2>3. CASE answer' = Listing(entries) /\ ~(Size(entries) > MaxBytes)
      <3>1. answer'.kind = "listing" /\ answer'.entries = entries
        BY <2>3, AnswerKinds
      <3>2. \A e \in entries : EntryPublished(dir, e)'
        BY <2>1, Lasting
      <3>3. Cardinality(entries) <= MaxEntries
        BY DEF TypeInv, TypeOK
      <3>4. FileWasPublished' /\ ListingWasPublished'
        BY <2>1, <2>3, <3>1, <3>2, <3>3 DEF FileWasPublished, ListingWasPublished
      <3> QED
        BY <2>1, <3>2, <3>4
    <2> QED
      BY <2>1, <2>2, <2>3
  <1> QED
    BY <1>3, <1>4, <1>5, <1>6, <1>7, <1>8, <1>9, <1>10, <1>11, <1>12

LEMMA PublishStep == TypeInv /\ PublishInv /\ [Next]_vars => PublishInv'
  <1> SUFFICES ASSUME TypeInv, PublishInv, [Next]_vars PROVE PublishInv'
    OBVIOUS
  <1>1. CASE Serve
    BY <1>1, PublishWalk, PublishList DEF Serve
  <1>2. CASE Owners
    BY <1>2, PublishLasting DEF Owners
  <1>3. CASE UNCHANGED vars
    BY <1>3, PublishLasting DEF vars
  <1> QED
    BY <1>1, <1>2, <1>3 DEF Next

LEMMA PublishInvariant == Spec => []PublishInv
  BY TypeInvariant, PublishInit, PublishStep, PTL DEF Spec

\* Whatever the owners of the files change during a request, a file goes out
\* only if it was public, and was reached over directories that were public.
THEOREM ResolverFileWasPublished == Spec => []FileWasPublished
  BY PublishInvariant, PTL DEF PublishInv

\* A listing is of a directory that was readable and shows only entries that
\* were public, no dotfile, and never more than the bounds allow.
THEOREM ResolverListingWasPublished == Spec => []ListingWasPublished
  BY PublishInvariant, PTL DEF PublishInv
-------------------------------------------------------------------------------
(* The inductive invariant behind SteadyEntriesListed: until it is listed, an *)
(* entry that is public all the time is unread, or in hand as the file it is. *)
Steady(n, i) ==
    \A t \in moments : Listable(t, dir) /\ t.entry[dir][n] = i /\ FileOK(t, i)

Collecting == {"collect"} \cup Classified

Awaited(n, i) ==
    /\ pc \in Collecting =>
          \/ n \in unread
          \/ <<n, FALSE>> \in entries
          \/ pc = "entry" /\ todo = <<n>> /\ fd = i
    /\ pc = "done" /\ answer.kind = "listing" => <<n, FALSE>> \in answer.entries

Nameable == Names \ (Hidden \cup Garbled)

AwaitedInv ==
    Enough => \A n \in Nameable, i \in Inodes : Steady(n, i) => Awaited(n, i)

\* Opening and reading such an entry, or the directory it is in, succeeds.
LEMMA SteadyOpens ==
    ASSUME TypeInv, Enough, NEW n \in Nameable, NEW i \in Inodes, Steady(n, i), dir \in Dirs
    PROVE  /\ Probe(n) = {i} /\ n \in NamesIn(tree, dir)
           /\ FileOK(tree, i) /\ ~Listable(tree, i)
  <1>1. Listable(tree, dir) /\ tree.entry[dir][n] = i /\ FileOK(tree, i)
    BY DEF Steady, TypeInv
  <1>2. Kind[i] = "file" /\ i \in tree.roth /\ dir \in tree.xoth
    BY <1>1 DEF FileOK, Files, Listable, DirOK
  <1>3. i # NoInode /\ ~Listable(tree, i)
    BY <1>2, InodesAssumption DEF Listable, DirOK, Dirs
  <1>4. OpenProbe(site.daemon, dir, n) = i
    BY <1>1, <1>2 DEF OpenProbe, Lookup, If, CanSearch, CanRead
  <1>5. Probe(n) = {i}
    BY <1>4 DEF Probe, Opened, Enough
  <1> QED
    BY <1>1, <1>3, <1>5 DEF NamesIn, Nameable

\* The steps before the directory is read, and those that end with no listing.
LEMMA AwaitedElsewhere ==
    ASSUME NEW n, NEW i, pc' \notin Collecting, pc' = "done" => answer'.kind # "listing"
    PROVE  Awaited(n, i)'
  BY DEF Awaited

LEMMA AwaitedServe ==
    ASSUME TypeInv, AwaitedInv, Serve, Enough', NEW n \in Nameable, NEW i \in Inodes,
           Steady(n, i)'
    PROVE  Awaited(n, i)'
  <1> USE DEF Collecting, Classified
  <1>1. CASE OpenRoot \/ OpenDir \/ Enter \/ ProbeLeaf \/ StatLeaf
    <2>1. /\ pc' \notin Collecting
          /\ pc' = "done" => answer' = NotFound \/ answer' = File(fd)
      BY <1>1 DEF OpenRoot, OpenDir, Enter, ProbeLeaf, StatLeaf, GoTo, Answer
    <2> QED
      BY <2>1, AnswerKinds, AwaitedElsewhere
  <1>2. CASE ProbeIndex \/ StatIndex \/ StatDir \/ OpenListing \/ StatListing
    <2>1. /\ pc' \notin Collecting
          /\ pc' = "done" => answer' = NotFound \/ answer' = File(fd)
      BY <1>2 DEF ProbeIndex, StatIndex, StatDir, OpenListing, StatListing, GoTo, Answer
    <2> QED
      BY <2>1, AnswerKinds, AwaitedElsewhere
  <1>3. ASSUME ReadDir \/ ProbeEntry \/ StatEntry \/ OpenEntry \/ StatEntryDir \/ Render
        PROVE  dir \in Dirs /\ Enough /\ Steady(n, i) /\ UNCHANGED <<dir, moments, tree, site>>
    <2>1. UNCHANGED <<dir, moments, tree, site>> /\ pc \in {"read"} \cup Collecting
      BY <1>3 DEF ReadDir, ProbeEntry, StatEntry, OpenEntry, StatEntryDir, Render, Keep
    <2> QED
      BY <2>1 DEF Enough, Steady, TypeInv, Held, AtTarget
  <1>4. CASE ReadDir
    <2>1. CASE Answer(Failed)
      BY <2>1, AnswerKinds, AwaitedElsewhere DEF Answer
    <2>2. CASE GoTo("collect") /\ unread' = NamesIn(tree, dir) \ Hidden
      <3>1. n \in unread'
        BY <1>3, <1>4, <2>2, SteadyOpens DEF Nameable
      <3> QED
        BY <2>2, <3>1 DEF Awaited, GoTo
    <2> QED
      BY <1>4, <2>1, <2>2 DEF ReadDir
  <1>5. CASE ProbeEntry
    <2>1. PICK m \in unread : unread' = unread \ {m} /\ todo' = <<m>> /\ fd' \in Probe(m)
      BY <1>5 DEF ProbeEntry
    <2>2. /\ pc = "collect" /\ entries' = entries
          /\ pc' = IF fd' = NoInode THEN "entry_dir" ELSE "entry"
      BY <1>5 DEF ProbeEntry, GoTo, Keep
    <2>3. n \in unread \/ <<n, FALSE>> \in entries
      BY <1>3, <1>5, <2>2 DEF AwaitedInv, Awaited
    <2>4. CASE m = n
      <3>1. fd' = i /\ i # NoInode
        BY <1>3, <1>5, <2>1, <2>4, SteadyOpens, InodesAssumption
      <3> QED
        BY <2>1, <2>2, <2>4, <3>1 DEF Awaited
    <2>5. CASE m # n
      BY <2>1, <2>2, <2>3, <2>5 DEF Awaited
    <2> QED
      BY <2>4, <2>5
  <1>6. CASE StatEntry
    <2>1. /\ pc = "entry" /\ UNCHANGED <<fd, todo, unread>>
          /\ CASE Listable(tree, fd) -> Collect(TRUE)
               [] FileOK(tree, fd)   -> Collect(FALSE)
               [] OTHER              -> GoTo("entry_dir") /\ UNCHANGED entries
      BY <1>6 DEF StatEntry, Keep
    <2>2. n \in unread \/ <<n, FALSE>> \in entries \/ (todo = <<n>> /\ fd = i)
      BY <1>3, <1>6, <2>1 DEF AwaitedInv, Awaited
    <2>3. CASE n \in unread \/ <<n, FALSE>> \in entries
      <3>1. \/ pc' \in {"collect", "entry_dir"} /\ entries \subseteq entries'
            \/ pc' = "done" /\ answer' = NotFound
        BY <2>1 DEF Collect, GoTo, Answer
      <3> QED
        BY <2>1, <2>3, <3>1, AnswerKinds DEF Awaited
    <2>4. CASE todo = <<n>> /\ fd = i
      <3>0. FileOK(tree, i) /\ ~Listable(tree, i)
        BY <1>3, <1>6, SteadyOpens
      <3>1. Collect(FALSE)
        <4>1. FileOK(tree, fd) /\ ~Listable(tree, fd)
          BY <2>4, <3>0
        <4> QED
          BY <2>1, <4>1
      <3>3. Head(todo) = n /\ n \notin Garbled
        BY <2>4 DEF Nameable
      <3>2. \/ pc' = "collect" /\ <<n, FALSE>> \in entries'
            \/ pc' = "done" /\ answer' = NotFound
        BY <3>1, <3>3 DEF Collect, GoTo, Answer
      <3> QED
        BY <3>2, AnswerKinds DEF Awaited
    <2> QED
      BY <2>2, <2>3, <2>4
  <1>7. CASE OpenEntry
    <2>1. /\ pc = "entry_dir" /\ pc' \in {"collect", "entry_enter"}
          /\ UNCHANGED <<unread, entries>>
      BY <1>7 DEF OpenEntry, Keep, GoTo
    <2> QED
      BY <1>3, <1>7, <2>1 DEF AwaitedInv, Awaited
  <1>8. CASE StatEntryDir
    <2>1. /\ pc = "entry_enter" /\ unread' = unread
          /\ \/ pc' = "collect" /\ entries \subseteq entries'
             \/ pc' = "done" /\ answer' = NotFound
      BY <1>8 DEF StatEntryDir, Keep, Collect, GoTo, Answer
    <2> QED
      BY <1>3, <1>8, <2>1, AnswerKinds DEF AwaitedInv, Awaited
  <1>9. CASE Render
    <2>1. /\ pc = "collect" /\ unread = {} /\ pc' = "done"
          /\ answer' = NotFound \/ answer' = Listing(entries)
      BY <1>9 DEF Render, Answer
    <2>2. <<n, FALSE>> \in entries
      BY <1>3, <1>9, <2>1 DEF AwaitedInv, Awaited
    <2> QED
      BY <2>1, <2>2, AnswerKinds DEF Awaited
  <1> QED
    BY <1>1, <1>2, <1>4, <1>5, <1>6, <1>7, <1>8, <1>9 DEF Serve

\* What is public at every moment was so at those before.
LEMMA AwaitedLasting ==
    ASSUME AwaitedInv, UNCHANGED walk, moments \subseteq moments'
    PROVE  AwaitedInv'
  BY DEF AwaitedInv, Awaited, Steady, Enough, walk

LEMMA AwaitedStep == TypeInv /\ AwaitedInv /\ [Next]_vars => AwaitedInv'
  <1> SUFFICES ASSUME TypeInv, AwaitedInv, [Next]_vars PROVE AwaitedInv'
    OBVIOUS
  <1>1. CASE Serve
    BY <1>1, AwaitedServe DEF AwaitedInv
  <1>2. CASE Owners
    BY <1>2, AwaitedLasting DEF Owners
  <1>3. CASE UNCHANGED vars
    BY <1>3, AwaitedLasting DEF vars
  <1> QED
    BY <1>1, <1>2, <1>3 DEF Next

\* A file that is public under one name during the whole request is in the
\* listing of its directory, whatever else the owners do meanwhile.
THEOREM ResolverSteadyEntriesListed == Spec => []SteadyEntriesListed
  <1>1. Init => AwaitedInv
    BY DEF Init, AwaitedInv, Awaited, Collecting, Classified
  <1>2. TypeInv /\ AwaitedInv => SteadyEntriesListed
    BY DEF TypeInv, AwaitedInv, Awaited, Steady, SteadyEntriesListed, Done, Nameable
  <1> QED
    BY <1>1, <1>2, AwaitedStep, TypeInvariant, PTL DEF Spec
===============================================================================
