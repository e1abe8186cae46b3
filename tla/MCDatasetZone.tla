--------------------------- MODULE MCDatasetZone ---------------------------
(***************************************************************************)
(* Small instance: two slots, addresses 0..7, strings that collide.        *)
(***************************************************************************)
EXTENDS DatasetZone

Net(f, a, b) == <<"entry", [kind |-> "net", fam |-> f, start |-> a, end |-> b]>>
Str(t) == <<"entry", [kind |-> "text", text |-> t]>>
Line(n, args) == [name |-> n, args |-> args]

MCCrc == [p |-> 7, q |-> 15, r |-> 7, s |-> 0]
A == Line("a", <<<<"internal", 1>>>>)
ANets == Line("a", <<Net("v4", 2, 3), Net("v4", 0, 7), Net("mapped", 2, 3), Net("v6", 4, 7)>>)
AGaps == Line("a", <<Net("v4", 0, 3), Net("v4", 1, 1), Net("v4", 6, 6)>>)
AStr == Line("a", <<<<"type", "string">>, <<"internal", 1>>>>)
AStrs == Line("a", <<Str("p"), Str("q"), Str("p"), Str("r")>>)
B == Line("b", <<<<"active", 1>>, <<"limit", 2>>, <<"ttl", 1>>>>)
C == Line("c", <<<<"active", 1>>, <<"live_max", 1>>, <<"limit", 2>>>>)

MCConfs == { <<A, ANets, B>>, <<A, AGaps, C>>, <<AStr, AStrs>>, <<B>>,
             <<A, B, C>>,               \* more than there are slots
             <<A, Line("a", <<Str("p")>>)>>, <<B, ANets>>, <<A, A>> }    \* refused

MCQueries ==
    [cidr |-> {[fam |-> f, addr |-> a] : f \in {"v4", "v6", "mapped"}, a \in 0..7},
     string |-> {[text |-> t] : t \in DOMAIN MCCrc}]
=============================================================================
