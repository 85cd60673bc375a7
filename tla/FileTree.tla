------------------------------- MODULE FileTree -------------------------------
(***************************************************************************)
(* The file system below and around the served root, as the kernel shows   *)
(* it to src/root.rs: inodes with a kind, a device and the mode bits for   *)
(* others, and directory entries.  People who own files change it at any   *)
(* time.  An open finds an inode by directory and name, fstat looks at the *)
(* inode that was opened, whatever the name has come to mean since.        *)
(***************************************************************************)
EXTENDS Naturals, FiniteSets

CONSTANTS
    Inodes, NoInode,
    Kind,         \* Kind[i]: "dir", "file", "link" or "special"
    Device,       \* Device[i]: the st_dev of the file system i is on
    Root,         \* the directory Root::open has opened
    Names,        \* entry names
    Touched       \* bound: the inodes whose owners change anything

Dirs  == {i \in Inodes : Kind[i] = "dir"}
Files == {i \in Inodes : Kind[i] = "file"}

ASSUME InodesAssumption == Root \in Dirs /\ NoInode \notin Inodes
ASSUME KindAssumption == \A i \in Inodes : Kind[i] \in {"dir", "file", "link", "special"}
ASSUME TouchedAssumption == Touched \subseteq Inodes

VARIABLES
    tree,      \* the tree as it is now
    changes    \* bound: how often it may still change during the request

\* entry[d][n] is the inode of name n in directory d, or NoInode; others may
\* execute (search, for a directory) the inodes of xoth and read those of roth.
Trees == [entry : [Dirs -> [Names -> Inodes \cup {NoInode}]],
          xoth  : SUBSET Inodes,
          roth  : SUBSET Inodes]

TreeOK == tree \in Trees /\ changes \in Nat

Places == Dirs \X Names
NLink(t, i) == Cardinality({p \in Places : t.entry[p[1]][p[2]] = i})
-------------------------------------------------------------------------------
(* System calls of a process.  `who` is "owner" where it owns the files and *)
(* "other" where the bits for others decide.  What fails gives NoInode.     *)
CanSearch(who, d) == who = "owner" \/ d \in tree.xoth
CanRead(who, i)   == who = "owner" \/ i \in tree.roth

Lookup(who, d, n) == IF CanSearch(who, d) THEN tree.entry[d][n] ELSE NoInode

If(condition, i) == IF condition THEN i ELSE NoInode

\* openat with PROBE: no symlink, and readable.
OpenProbe(who, d, n) ==
    LET i == Lookup(who, d, n) IN
    If(i \in Inodes /\ Kind[i] # "link" /\ CanRead(who, i), i)

\* A directory can be opened to descend: O_PATH asks nothing of it, O_SEARCH
\* that it is executable, O_RDONLY (OpenBSD) that it is readable.
Enterable(who, platform, d) ==
    \/ platform = "path"
    \/ platform = "search" /\ CanSearch(who, d)
    \/ platform = "rdonly" /\ CanRead(who, d)

\* openat with TRAVERSE_DIR, of a name and of ".".
OpenTraverse(who, platform, d, n) ==
    LET i == Lookup(who, d, n) IN
    If(i \in Dirs /\ Enterable(who, platform, i), i)
OpenSelf(who, platform, d) ==
    If(CanSearch(who, d) /\ Enterable(who, platform, d), d)

\* openat of "." with LIST_DIR.
OpenList(who, d) == If(CanSearch(who, d) /\ CanRead(who, d), d)

\* Reading a directory: the names that are in it.
NamesIn(t, d) == {n \in Names : t.entry[d][n] \in Inodes}
-------------------------------------------------------------------------------
(* The owners of the files.                                                 *)
Flip(S, i) == IF i \in S THEN S \ {i} ELSE S \cup {i}

Chmod(i) ==
    \/ tree' = [tree EXCEPT !.xoth = Flip(@, i)]
    \/ tree' = [tree EXCEPT !.roth = Flip(@, i)]

\* link(2): a second name for a file.
Link(i, d, n) ==
    /\ i \in Files /\ NLink(tree, i) > 0 /\ tree.entry[d][n] = NoInode
    /\ tree' = [tree EXCEPT !.entry[d][n] = i]

Unlink(d, n) ==
    /\ tree.entry[d][n] \in Inodes \ Dirs
    /\ tree' = [tree EXCEPT !.entry[d][n] = NoInode]

Within(d, e) == e = d \/ \E n \in Names : tree.entry[d][n] = e

\* rename(2): a file at the target is replaced, a directory is not moved into
\* itself or (two levels are enough for the trees here) below itself.
Rename(d, n, e, m) ==
    LET i == tree.entry[d][n] IN
    /\ i \in Inodes /\ tree.entry[e][m] \notin Dirs \cup {i}
    /\ i \in Dirs => ~Within(i, e) /\ tree.entry[e][m] = NoInode
    /\ tree' = [tree EXCEPT !.entry[d][n] = NoInode, !.entry[e][m] = i]

Change ==
    /\ changes > 0 /\ changes' = changes - 1
    /\ \/ \E i \in Touched : Chmod(i)
       \/ \E d \in Dirs \cap Touched, n \in Names :
             \/ Unlink(d, n)
             \/ \E i \in Files \cap Touched : Link(i, d, n)
             \/ \E e \in Dirs \cap Touched, m \in Names : Rename(d, n, e, m)
===============================================================================
