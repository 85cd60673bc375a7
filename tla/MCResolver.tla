------------------------------ MODULE MCResolver ------------------------------
(* Trees of a root directory with a subdirectory or two, a few files and one  *)
(* inode of every kind that is refused.                                       *)
EXTENDS Resolver, TLC

MCInodes == {"root", "sub", "deep", "page", "other", "link", "pipe", "mount"}
MCKind == [i \in MCInodes |->
    CASE i \in {"root", "sub", "deep", "mount"} -> "dir"
      [] i \in {"page", "other"} -> "file"
      [] i = "link" -> "link"
      [] i = "pipe" -> "special"]
MCDevice == [i \in MCInodes |-> IF i = "mount" THEN 2 ELSE 1]
MCDirs == {"root", "sub", "deep", "mount"}

MCNames == {"a", "b", "index", ".h", "bad"}
MCNameBytes == [n \in MCNames |-> IF n = "index" THEN 5 ELSE 1]

\* Directories hold nothing but what is put into them.
Holding(dirs, names, places) ==
    [d \in dirs |-> [n \in names |->
        IF <<d, n>> \in DOMAIN places THEN places[<<d, n>>] ELSE "none"]]

Requested(components, dirOnly) == [components |-> components, dirOnly |-> dirOnly]
Site(daemon, platform, fds) == [daemon |-> daemon, platform |-> platform, fds |-> fds]

\* Every kind of inode as "a" of the root, an index or none, a file or a
\* directory below it, and the modes of those on the way.
WalkTrees ==
    {[entry |-> Holding(MCDirs, MCNames, <<"root", "a">> :> a @@ <<"root", "index">> :> index
                        @@ <<"sub", "a">> :> below @@ <<"sub", "index">> :> inner
                        @@ <<"mount", "a">> :> "other"),
      xoth |-> x \cup {"deep", "mount"}, roth |-> r \cup {"other", "deep", "mount", "pipe"}] :
        a \in (MCInodes \ {"root", "deep"}) \cup {"none"}, index \in {"none", "page", "other"},
        below \in {"none", "page", "deep"}, inner \in {"none", "page"},
        x \in SUBSET {"root", "sub"}, r \in SUBSET {"root", "sub", "page"}}

WalkRequests == {Requested(<<>>, FALSE), Requested(<<"a">>, FALSE),
                 Requested(<<"a">>, TRUE), Requested(<<"a", "a">>, FALSE),
                 Requested(<<"a", "a">>, TRUE)}

\* Every kind of entry in a root directory that is listed.
ListTrees ==
    {[entry |-> Holding(MCDirs, MCNames, <<"root", "a">> :> a @@ <<"root", "b">> :> b
                        @@ <<"root", "index">> :> index
                        @@ <<"root", ".h">> :> h @@ <<"root", "bad">> :> bad),
      xoth |-> x \cup {"root", "deep", "mount"},
      roth |-> r \cup {"root", "other", "deep", "mount"}] :
        a \in (MCInodes \ {"root", "deep"}) \cup {"none"}, b \in {"none", "deep", "other"},
        index \in {"none", "sub", "page"},
        h \in {"none", "other"}, bad \in {"none", "other"},
        x \in SUBSET {"sub"}, r \in SUBSET {"sub", "page"}}
ListTreesOnce == {t \in ListTrees : t.entry["root"]["a"] # "sub"
                                   \/ t.entry["root"]["index"] # "sub"}

QuietTrees == WalkTrees \cup ListTreesOnce

\* The owners change these, in the trees that change.
Few == {"root", "sub", "page", "other"}
FewHold(places) == Holding(MCDirs, MCNames, places)
Plain == FewHold(<<"root", "a">> :> "sub" @@ <<"root", "b">> :> "other"
                 @@ <<"sub", "a">> :> "page")
Indexed == FewHold(<<"root", "a">> :> "sub" @@ <<"sub", "b">> :> "other"
                   @@ <<"sub", "index">> :> "page")
Dotted == FewHold(<<"root", "a">> :> "page" @@ <<"root", ".h">> :> "other")

ChangedTrees ==
    {[entry |-> e, xoth |-> {"root", "sub"}, roth |-> {"root", "sub", "page", "other"}] :
        e \in {Plain, Indexed, Dotted}}

Quiet    == QuietTrees \X {0}
Changing == ChangedTrees \X {2}
MCStarts == Quiet \cup Changing

AllSites == {Site("owner", "path", "enough"), Site("other", "path", "enough"),
             Site("other", "search", "enough"), Site("other", "rdonly", "enough"),
             Site("other", "path", "scarce")}
===============================================================================
