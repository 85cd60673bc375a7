------------------------------- MODULE MCLaunch -------------------------------
(* Launch on every line of up to three arguments, and on longer lines of    *)
(* flags with values at the bounds of their ranges.                         *)
EXTENDS Launch, TLC

Paths == {"/srv", "/srv/", "srv"}
MCAbsolute == {"/srv", "/srv/"}
MCNormalize == [p \in MCAbsolute |-> "/srv"]
MCNumber == "0" :> 0 @@ "1" :> 1 @@ "2" :> 2 @@ "3" :> 3 @@ "300" :> 300 @@ "301" :> 301
            @@ "1024" :> 1024 @@ "1025" :> 1025
MCAddresses == {"[::1]:0"}

MCArguments == Known \cup Paths \cup DOMAIN MCNumber \cup MCAddresses
               \cup UnknownFlags \cup NotUtf8

\* One argument of every kind.
Kinds == {"--root", "--workers", "/srv", "2", "serve", "check", "help", "version",
          "-h", "--version"} \cup UnknownFlags \cup NotUtf8
Short == UNION {[1 .. n -> Kinds] : n \in 0 .. 3}

Roots == {<<"--root", p>> : p \in Paths}
Pairs == {<<"--listen", "[::1]:0">>, <<"--listen", "1">>}
         \cup {<<"--workers", w>> : w \in {"0", "1", "1024", "1025"}}
         \cup {<<"--max-conns-per-ip", m>> : m \in {"0", "1", "2", "3", "1025"}}
         \cup {<<"--write-timeout", t>> : t \in {"0", "300", "301"}}
ServeLines ==
    {r \o p \o q : r \in Roots, p \in Pairs \cup {<<>>}, q \in Pairs \cup {<<>>}}
    \cup {<<"serve">> \o p \o r : r \in Roots, p \in Pairs \cup Roots}

Words == {"--root", "/srv", "2", "serve"}
CheckLines == {<<"check">> \o w : w \in UNION {[1 .. n -> Words] : n \in 0 .. 5}}

MCLines == Short \cup ServeLines \cup CheckLines
===============================================================================
