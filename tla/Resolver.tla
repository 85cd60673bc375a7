------------------------------- MODULE Resolver -------------------------------
(***************************************************************************)
(* One request against the served tree: conn::resolve, Root::resolve,      *)
(* directory_response and listing::generate (src/src/conn.rs:75-91,        *)
(* src/src/root.rs, src/src/listing.rs).  Every openat and every fstat is  *)
(* a step, and the owners of the files change the tree between any two.    *)
(***************************************************************************)
EXTENDS FileTree, Sequences, FiniteSetsExt

CONSTANTS
    Starts,                \* the tree when the request begins, and how often it changes
    Requests,              \* what selector::parse returns: [components, dirOnly]
    Sites,                 \* where the daemon runs: [daemon, platform, fds]
    NameBytes,             \* NameBytes[n]: length of a name
    Hidden, Garbled,       \* names with a leading dot, names that are not UTF-8
    MaxEntries, MaxBytes   \* MAX_ENTRIES and MAX_BYTES of listing.rs

ASSUME StartsAssumption == Starts \subseteq Trees \X Nat
ASSUME RequestsAssumption ==
    \A r \in Requests : r.components \in Seq(Names) /\ r.dirOnly \in BOOLEAN
ASSUME BoundsAssumption == MaxEntries \in Nat /\ MaxBytes \in Nat
ASSUME NamesAssumption == IsFiniteSet(Names) /\ "index" \in Names \ (Hidden \cup Garbled)
ASSUME SitesAssumption ==
    \A s \in Sites : /\ s.daemon \in {"owner", "other"}
                    /\ s.platform \in {"path", "search", "rdonly"}
                    /\ s.fds \in {"enough", "scarce"}

VARIABLES
    site, request,   \* chosen once
    pc,
    dir,             \* the directory descriptor in hand (`cur`, `dir`, `list_dir`)
    fd,              \* the descriptor just opened
    todo,            \* components not opened yet; then the entry being classified
    unread,          \* entries of the listed directory not classified yet
    entries,         \* `entries` of collect_entries: <<name, is_dir>>
    answer,
    moments          \* history: every tree there was since the request began
walk == <<site, request, pc, dir, fd, todo, unread, entries, answer>>
vars == <<tree, changes, walk, moments>>

NoAnswer   == [kind |-> "none"]
NotFound   == [kind |-> "not_found"]
Failed     == [kind |-> "error"]         \* io::Error: closed without an answer
File(i)    == [kind |-> "file", inode |-> i]
Listing(E) == [kind |-> "listing", entries |-> E]
Answers == {NoAnswer, NotFound, Failed} \cup {File(i) : i \in Files}
           \cup {Listing(E) : E \in SUBSET (Names \X BOOLEAN)}
-------------------------------------------------------------------------------
(* The policy, on what fstat says of an open descriptor.                    *)
OnRootDevice(i) == Device[i] = Device[Root]
DirOK(t, i)    == i \in Dirs /\ i \in t.xoth /\ OnRootDevice(i)
Listable(t, i) == DirOK(t, i) /\ i \in t.roth
FileOK(t, i)   == i \in Files /\ i \in t.roth /\ NLink(t, i) = 1 /\ OnRootDevice(i)

\* Where descriptors are scarce any open may fail (EMFILE, ENFILE).
Opened(i) == IF site.fds = "scarce" THEN {i, NoInode} ELSE {i}

Probe(n)    == Opened(OpenProbe(site.daemon, dir, n))
Traverse(n) == Opened(OpenTraverse(site.daemon, site.platform, dir, n))

EntrySize(e) == 4 + NameBytes[e[1]] + (IF e[2] THEN 1 ELSE 0)
Size(E) == MapThenSumSet(EntrySize, E)
-------------------------------------------------------------------------------
GoTo(label) == pc' = label /\ UNCHANGED answer
Answer(a)   == pc' = "done" /\ answer' = a
Keep(held)  == UNCHANGED <<tree, changes, moments, site, request, held>>

Init ==
    /\ \E start \in Starts : tree = start[1] /\ changes = start[2]
    /\ moments = {tree}
    /\ site \in Sites /\ request \in Requests
    /\ pc = "start" /\ dir = NoInode /\ fd = NoInode
    /\ todo = request.components /\ unread = {} /\ entries = {}
    /\ answer = NoAnswer

\* open_root_dir: the openat of ".".
OpenRoot ==
    /\ pc = "start"
    /\ fd' \in Opened(OpenSelf(site.daemon, site.platform, Root))
    /\ IF fd' = NoInode THEN Answer(NotFound) ELSE GoTo("enter")
    /\ Keep(<<dir, todo, unread, entries>>)

\* open_child_dir: the openat of a component on the way, of one that has to be
\* a directory, and of a last one whose probe found no file.
OpenDir ==
    /\ \/ pc = "walk" /\ (Len(todo) > 1 \/ request.dirOnly)
       \/ pc = "reopen"
    /\ fd' \in Traverse(Head(todo)) /\ todo' = Tail(todo)
    /\ IF fd' = NoInode THEN Answer(NotFound) ELSE GoTo("enter")
    /\ Keep(<<dir, unread, entries>>)

\* Mutant: the fstat asks what a listing asks.
EnterListable ==
    /\ pc = "enter"
    /\ \/ ~Listable(tree, fd) /\ Answer(NotFound) /\ UNCHANGED dir
       \/ Listable(tree, fd) /\ dir' = fd
          /\ GoTo(IF todo = <<>> THEN "index" ELSE "walk")
    /\ Keep(<<fd, todo, unread, entries>>)

\* The fstat that follows in open_root_dir and open_child_dir.
Enter ==
    /\ pc = "enter"
    /\ \/ ~DirOK(tree, fd) /\ Answer(NotFound) /\ UNCHANGED dir
       \/ DirOK(tree, fd) /\ dir' = fd
          /\ GoTo(IF todo = <<>> THEN "index" ELSE "walk")
    /\ Keep(<<fd, todo, unread, entries>>)

\* Mutant: no second try for a leaf that cannot be read.
ProbeLeafOnly ==
    /\ pc = "walk" /\ Len(todo) = 1 /\ ~request.dirOnly
    /\ fd' \in Probe(Head(todo))
    /\ IF fd' = NoInode THEN Answer(NotFound) ELSE GoTo("leaf")
    /\ Keep(<<dir, todo, unread, entries>>)

\* open_leaf: the openat with PROBE.
ProbeLeaf ==
    /\ pc = "walk" /\ Len(todo) = 1 /\ ~request.dirOnly
    /\ fd' \in Probe(Head(todo))
    /\ GoTo(IF fd' = NoInode THEN "reopen" ELSE "leaf")
    /\ Keep(<<dir, todo, unread, entries>>)

\* Mutant: looks at the name again, not at the descriptor.
StatLeafByName ==
    /\ pc = "leaf"
    /\ LET i == tree.entry[dir][Head(todo)] IN
       CASE FileOK(tree, i) -> Answer(File(fd))
         [] DirOK(tree, i)  -> GoTo("reopen")
         [] OTHER           -> Answer(NotFound)
    /\ Keep(<<dir, fd, todo, unread, entries>>)

StatLeaf ==
    /\ pc = "leaf"
    /\ CASE FileOK(tree, fd) -> Answer(File(fd))
         [] DirOK(tree, fd)  -> GoTo("reopen")
         [] OTHER            -> Answer(NotFound)
    /\ Keep(<<dir, fd, todo, unread, entries>>)

\* directory_response: classify_child of "index".  What follows there when it
\* is no file does not matter to the caller.
ProbeIndex ==
    /\ pc = "index"
    /\ fd' \in Probe("index")
    /\ GoTo(IF fd' = NoInode THEN "generate" ELSE "index_leaf")
    /\ Keep(<<dir, todo, unread, entries>>)

StatIndex ==
    /\ pc = "index_leaf"
    /\ IF FileOK(tree, fd) THEN Answer(File(fd)) ELSE GoTo("generate")
    /\ Keep(<<dir, fd, todo, unread, entries>>)

\* open_listable_dir: the first fstat, the openat, the second fstat.
StatDir ==
    /\ pc = "generate"
    /\ IF Listable(tree, dir) THEN GoTo("open_list") ELSE Answer(NotFound)
    /\ Keep(<<dir, fd, todo, unread, entries>>)

OpenListing ==
    /\ pc = "open_list"
    /\ fd' \in Opened(OpenList(site.daemon, dir))
    /\ IF fd' = NoInode THEN Answer(NotFound) ELSE GoTo("stat_list")
    /\ Keep(<<dir, todo, unread, entries>>)

StatListing ==
    /\ pc = "stat_list"
    /\ dir' = fd
    /\ IF Listable(tree, fd) THEN GoTo("read") ELSE Answer(NotFound)
    /\ Keep(<<fd, todo, unread, entries>>)

\* Mutant: dotfiles are read like other names.
ReadDirAll ==
    /\ pc = "read"
    /\ fd' \in Opened(OpenList(site.daemon, dir))
    /\ IF fd' = NoInode
       THEN Answer(Failed) /\ UNCHANGED unread
       ELSE GoTo("collect") /\ unread' = NamesIn(tree, dir)
    /\ Keep(<<dir, todo, entries>>)

\* Dir::read_from, which opens "." once more, and the names it then reads.
ReadDir ==
    /\ pc = "read"
    /\ fd' \in Opened(OpenList(site.daemon, dir))
    /\ IF fd' = NoInode
       THEN Answer(Failed) /\ UNCHANGED unread
       ELSE GoTo("collect") /\ unread' = NamesIn(tree, dir) \ Hidden
    /\ Keep(<<dir, todo, entries>>)

\* collect_entries: the next entry, and classify_child's openat with PROBE.
ProbeEntry ==
    /\ pc = "collect"
    /\ \E n \in unread :
          /\ unread' = unread \ {n} /\ todo' = <<n>>
          /\ fd' \in Probe(n)
    /\ GoTo(IF fd' = NoInode THEN "entry_dir" ELSE "entry")
    /\ Keep(<<dir, entries>>)

\* Mutants of Collect: one entry too many; the rest is dropped silently.
CollectOneMore(isDir) ==
    LET n == Head(todo) IN
    \/ n \in Garbled /\ GoTo("collect") /\ UNCHANGED entries
    \/ /\ n \notin Garbled /\ Cardinality(entries) > MaxEntries
       /\ Answer(NotFound) /\ UNCHANGED entries
    \/ /\ n \notin Garbled /\ Cardinality(entries) <= MaxEntries
       /\ GoTo("collect") /\ entries' = entries \cup {<<n, isDir>>}
CollectTruncates(isDir) ==
    /\ GoTo("collect")
    /\ entries' = IF Head(todo) \in Garbled \/ Cardinality(entries) >= MaxEntries
                  THEN entries ELSE entries \cup {<<Head(todo), isDir>>}

\* An entry that was classified is counted, or skipped for its name.
Collect(isDir) ==
    LET n == Head(todo) IN
    \/ n \in Garbled /\ GoTo("collect") /\ UNCHANGED entries
    \/ /\ n \notin Garbled /\ Cardinality(entries) >= MaxEntries
       /\ Answer(NotFound) /\ UNCHANGED entries
    \/ /\ n \notin Garbled /\ Cardinality(entries) < MaxEntries
       /\ GoTo("collect") /\ entries' = entries \cup {<<n, isDir>>}

StatEntry ==
    /\ pc = "entry"
    /\ CASE Listable(tree, fd) -> Collect(TRUE)
         [] FileOK(tree, fd)   -> Collect(FALSE)
         [] OTHER              -> GoTo("entry_dir") /\ UNCHANGED entries
    /\ Keep(<<dir, fd, todo, unread>>)

\* classify_child's second try, for a directory that cannot be read.
OpenEntry ==
    /\ pc = "entry_dir"
    /\ fd' \in Traverse(Head(todo))
    /\ GoTo(IF fd' = NoInode THEN "collect" ELSE "entry_enter")
    /\ Keep(<<dir, todo, unread, entries>>)

StatEntryDir ==
    /\ pc = "entry_enter"
    /\ IF Listable(tree, fd) THEN Collect(TRUE)
                             ELSE GoTo("collect") /\ UNCHANGED entries
    /\ Keep(<<dir, fd, todo, unread>>)

\* generate: the listing, if it is short enough.
Render ==
    /\ pc = "collect" /\ unread = {}
    /\ Answer(IF Size(entries) > MaxBytes THEN NotFound ELSE Listing(entries))
    /\ Keep(<<dir, fd, todo, unread, entries>>)

Serve ==
    \/ OpenRoot \/ OpenDir \/ Enter \/ ProbeLeaf \/ StatLeaf
    \/ ProbeIndex \/ StatIndex
    \/ StatDir \/ OpenListing \/ StatListing \/ ReadDir
    \/ ProbeEntry \/ StatEntry \/ OpenEntry \/ StatEntryDir \/ Render

Owners ==
    /\ pc # "done" /\ Change
    /\ moments' = moments \cup {tree'}
    /\ UNCHANGED walk

Next == Serve \/ Owners
Spec == Init /\ [][Next]_vars
-------------------------------------------------------------------------------
(* What README.md ("What you can serve") promises, as a function of a tree. *)
CanEnter(t, d) ==
    /\ DirOK(t, d)
    /\ site.platform = "rdonly" /\ site.daemon = "other" => d \in t.roth

\* The inode that the first k components name, if the directories before it
\* can be entered.
Named(t, k) ==
    LET c == request.components
        w[j \in 0 .. k] ==
            IF j = 0 THEN Root
            ELSE IF CanEnter(t, w[j-1]) THEN t.entry[w[j-1]][c[j]] ELSE NoInode
    IN w[k]

Target(t) == Named(t, Len(request.components))

PublicEntries(t, d) ==
    {<<n, Kind[t.entry[d][n]] = "dir">> :
        n \in {m \in NamesIn(t, d) \ (Hidden \cup Garbled) :
                 FileOK(t, t.entry[d][m]) \/ Listable(t, t.entry[d][m])}}

Contents(t, d) ==
    LET E == PublicEntries(t, d) IN
    IF FileOK(t, t.entry[d]["index"]) THEN File(t.entry[d]["index"])
    ELSE IF Listable(t, d) /\ Cardinality(E) <= MaxEntries /\ ~ (Size(E) > MaxBytes)
         THEN Listing(E) ELSE NotFound

Expected(t) ==
    LET i == Target(t) IN
    CASE FileOK(t, i) /\ ~request.dirOnly -> File(i)
      [] CanEnter(t, i)                   -> Contents(t, i)
      [] OTHER                            -> NotFound

Done == pc = "done"
Enough == site.fds = "enough"

\* Types, and never more entries in hand than MAX_ENTRIES.
TypeOK ==
    /\ TreeOK /\ moments \subseteq Trees
    /\ site \in Sites /\ request \in Requests
    /\ dir \in Inodes \cup {NoInode} /\ fd \in Inodes \cup {NoInode}
    /\ todo \in Seq(Names) /\ unread \subseteq Names
    /\ entries \subseteq Names \X BOOLEAN /\ Cardinality(entries) <= MaxEntries
    /\ answer \in Answers

\* In a tree that nobody changes, the steps of root.rs and listing.rs add up to
\* what the README promises; a daemon short of descriptors may answer less, but
\* never with another file.
QuietAnswer ==
    Done /\ moments = {tree} =>
        /\ Enough => answer = Expected(tree)
        /\ answer.kind = "file" => answer = Expected(tree)

\* A file that is public under the requested name all the time is served,
\* whatever else the owners change meanwhile.
SteadyFileServed ==
    Done /\ Enough =>
        \A i \in Files :
            (\A t \in moments : Expected(t) = File(i)) => answer = File(i)

\* A directory was public, a name stood for an inode, at some moment.
Passable(d)    == \E t \in moments : DirOK(t, d)
Stood(d, n, i) == \E t \in moments : t.entry[d][n] = i

\* The walk that leads over the first k components to inode i.
Trail(k, i) ==
    \E s \in [0 .. k -> Inodes] :
        /\ s[0] = Root /\ s[k] = i
        /\ \A j \in 1 .. k : /\ Passable(s[j-1])
                             /\ Stood(s[j-1], request.components[j], s[j])
ToTarget(i) == Trail(Len(request.components), i)

\* A file goes out only if it was public itself, and each directory on the way
\* to it was public and held the next name, at some moment of the request.
FileWasPublished ==
    Done /\ answer.kind = "file" =>
        LET i == answer.inode IN
        /\ \E t \in moments : FileOK(t, i)
        /\ \/ ToTarget(i)
           \/ \E d \in Dirs : ToTarget(d) /\ Passable(d) /\ Stood(d, "index", i)

\* The name of entry e of directory d, and what it says of the inode under it.
EntryPublished(d, e) ==
    /\ e[1] \notin Hidden \cup Garbled
    /\ \E i \in Inodes :
          /\ Stood(d, e[1], i)
          /\ \E t \in moments : IF e[2] THEN Listable(t, i) ELSE FileOK(t, i)

\* A listing shows a directory that others could read, and only entries that
\* were in it and public at some moment; no dotfile, and within the bounds.
ListingWasPublished ==
    Done /\ answer.kind = "listing" =>
        /\ ToTarget(dir) /\ \E t \in moments : Listable(t, dir)
        /\ \A e \in answer.entries : EntryPublished(dir, e)
        /\ Cardinality(answer.entries) <= MaxEntries
        /\ ~ (Size(answer.entries) > MaxBytes)

\* A file that is public, under one name of a directory that stays listable,
\* all the time is in the listing: a listing is whole or not given at all.
SteadyEntriesListed ==
    Done /\ Enough /\ answer.kind = "listing" /\ (\A t \in moments : Listable(t, dir)) =>
        \A n \in Names \ (Hidden \cup Garbled), i \in Inodes :
            /\ \A t \in moments : t.entry[dir][n] = i /\ FileOK(t, i)
            => <<n, FALSE>> \in answer.entries

\* docs/superpowers/specs/2026-06-06-multi-user-nex-server-design.md:228: "If a
\* directory has a safe `index`, the index bytes are streamed as-is."  It is
\* not so while the index is replaced: the descriptor's file has no name left.
IndexServed ==
    Done /\ Enough /\ (\A t \in moments : Expected(t).kind = "file") =>
        answer.kind # "listing"
===============================================================================
