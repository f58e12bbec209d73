------------------------------- MODULE MCRfs -------------------------------
(***************************************************************************)
(* Instances of Rfs for TLC: who asks for what, and what they find.        *)
(***************************************************************************)
EXTENDS RfsRefinement, TLC

CONSTANTS c1, c2, c3, n1

Line(cmd, p) == [cmd |-> cmd, path |-> p, perm |-> -1]
LineWrite(p, permission) == [cmd |-> "WRITE", path |-> p, perm |-> permission]

Lower(s) == [i \in DOMAIN s |-> [sym |-> s[i], case |-> "lower"]]

Ops(p) == {LineWrite(p, 0), LineWrite(p, 1), Line("GET", p), Line("RM", p), Line("LS", p)}
Ends(p) == {Line("STOP", p), Line("SKIP", p)}

\* One text is shorter than the other, so that one can overlay part of it.
Sources == <<Lower(<<"a", "b">>), Lower(<<"x">>), Lower(<<"y", "z">>)>>
AllSymbols == {"a", "b", "x", "y", "z", "old", "tail"}

Fresh == [k \in Kinds |-> [n \in Names |-> None]]
Kept(permission) ==
  [k \in Kinds |-> [n \in Names |->
     IF k = "meta" THEN <<permission>> ELSE <<"old", "tail">>]]
\* A crash between the two unlinks of handle_rm leaves the data alone.
NoHeader == [Fresh EXCEPT !["file"] = [n \in Names |-> <<"old">>]]
\* A crash after the first open of handle_write leaves an empty header.
Blank == [NoHeader EXCEPT !["meta"] = [n \in Names |-> <<>>]]

AllLeftovers == {Fresh, Kept("0"), Kept("1"), NoHeader, Blank}
SomeLeftovers == {Fresh, Kept("1"), Blank}
OneLeftover == {Kept("1")}
ReadOnlyLeftover == {Kept("0")}
NoLeftovers == {Fresh}

\* Three users one after the other, with any commands.
ThreeClients == {c1, c2, c3}
AnyPlan3 == [c \in ThreeClients |-> Ops(n1) \cup Ends(n1)]
ThreeSources == (c1 :> Sources[1]) @@ (c2 :> Sources[2]) @@ (c3 :> Sources[3])

\* Two users at once, with any commands.
TwoClients == {c1, c2}
AnyPlan2 == [c \in TwoClients |-> Ops(n1) \cup Ends(n1)]
TwoSources == (c1 :> Sources[1]) @@ (c2 :> Sources[2])

\* Two users at once: every exchange of messages, once in each role.
ExchangePlan == (c1 :> {LineWrite(n1, 1), Line("GET", n1), Line("LS", n1), Line("STOP", n1)})
                  @@ (c2 :> {LineWrite(n1, 0), Line("GET", n1), Line("RM", n1), Line("SKIP", n1)})

\* Two users at once, who both write.
TwoWriters == [c \in TwoClients |-> {LineWrite(n1, 1)}]

=============================================================================
