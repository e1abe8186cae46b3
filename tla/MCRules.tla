------------------------------ MODULE MCRules -------------------------------
(* Locations with one or two rules, requests with repeated, escaped, empty *)
(* and quoted parts, and replies of one or two inspectors. *)
EXTENDS Rules

MCSets == [s |-> {"x"}, t |-> {"x", "z"}]
MCLower == [n \in {"a", "A", "b", "d", "f"} |-> IF n = "A" THEN "a" ELSE n]
MCPages == {"p"}
MCForbidSet == {"d"}
MCForbidUnset == {"f"}

Op(object, name) == [bad |-> FALSE, object |-> object, all |-> name = "*", name |-> name]
Sel(op) == IF op.object = "var" THEN Word(op.name)
           ELSE [prefix |-> "request", object |-> op.object, dot |-> TRUE, name |-> op.name]
Cond(op, ds, negate) == [negate |-> negate, operand |-> op, dataset |-> ds]
Rule(op, ds, conds, action) == [dataset |-> ds, operand |-> op, conds |-> conds, action |-> action]

Option(object, name) == [prefix |-> "option", object |-> object, dot |-> FALSE, name |-> name]

(* The line that says a rule. *)
Line(rule) ==
    <<Word(rule.dataset), Sel(rule.operand)>>
    \o FlattenSeq(Mapped(rule.conds, LAMBDA c : <<Word("if"), Sel(c.operand)>>
        \o (IF c.negate THEN <<Word("not")>> ELSE <<>>) \o <<Word("in"), Word(c.dataset)>>))
    \o <<Option("action", rule.action)>> \o (IF rule.action = "block" THEN <<Option("response", "p")>> ELSE <<>>)

ArgA == Op("args", "a")
CookieAll == Op("cookies", "*")
HeaderA == Op("headers", "a")
Conds == {<<>>, <<Cond(HeaderA, "s", FALSE)>>, <<Cond(HeaderA, "s", TRUE), Cond(ArgA, "t", FALSE)>>}
First == {Rule(op, "s", conds, action) : op \in {ArgA, CookieAll, Op("var", "v")}, conds \in Conds, action \in {"allow", "wave", "block"}}
RuleLists == {<<r>> : r \in First} \cup {<<r, Rule(Op("args", "*"), "t", <<>>, "block")>> : r \in First}

Insp(name, conds) == [name |-> name, conds |-> conds]
Inspects(b) ==
    [request |-> <<Insp("i", b), Insp("j", <<Cond(ArgA, "s", TRUE)>>)>>, response |-> <<Insp("i", b)>>,
     frame |-> <<Insp("i", <<Cond(CookieAll, "s", FALSE)>>), Insp("j", b)>>]

MCConfs ==
    {[rules |-> rules, lines |-> Mapped(rules, Line), inspects |-> Inspects(b),
      strip |-> {"b"}, upgrade |-> FALSE, store |-> TRUE] : rules \in RuleLists, b \in {<<>>, <<Cond(ArgA, "t", TRUE)>>}}
    \cup {[rules |-> <<>>, lines |-> lines, inspects |-> [p \in {"request", "response", "frame"} |-> <<>>],
           strip |-> {"all"}, upgrade |-> TRUE, store |-> FALSE] :
          lines \in {<<>>, <<<<Word("none")>>>>, <<<<Word("none")>>, Line(Rule(ArgA, "s", <<>>, "block"))>>}}

P(n, f, v, g) == Part([t |-> n, form |-> f], TRUE, [t |-> v, form |-> g])
Queries ==
    {<<>>, <<P("a", "plain", "x", "plain"), P("b", "plain", "z", "plain")>>,
     <<Part(Text(""), FALSE, Text("")), P("a", "escaped", "x", "escaped"), P("a", "plain", "w", "plain")>>,
     <<Part(Text("a"), FALSE, Text("")), P("b", "plain", "w", "plain"), P("a", "plain", "z", "quoted")>>}
Cookies == {<<>>, <<<<Part(Text("x"), FALSE, Text(""))>>, <<P("k", "plain", "x", "quoted")>>>>, <<<<P("k", "plain", "x", "escaped")>>>>}
MCArrivals ==
    {[args |-> q, cookies |-> k, headers |-> h, var |-> "x", upgrade |-> u,
      exts |-> <<[value |-> <<"b", "a">>, offered |-> TRUE], [value |-> <<"b">>, offered |-> TRUE]>>,
      out |-> <<[name |-> "a", value |-> "o", live |-> TRUE], [name |-> "A", value |-> "o", live |-> TRUE],
                [name |-> "f", value |-> "o", live |-> TRUE]>>] :
     q \in Queries, k \in Cookies, h \in {<<>>, <<[name |-> "A", value |-> "x"], [name |-> "b", value |-> "w"]>>}, u \in BOOLEAN}

Reply(unset, set, passive) == [unset |-> unset, set |-> set, passive |-> passive]
MCEdits ==
    {<<>>, <<Reply(<<"a">>, <<>>, FALSE)>>, <<Reply(<<>>, <<<<"a", "w">>>>, FALSE)>>,
     <<Reply(<<"a">>, <<<<"a", "x">>>>, FALSE), Reply(<<"f", "b">>, <<<<"d", "x">>, <<"f", "z">>>>, FALSE)>>,
     <<Reply(<<>>, <<<<"a", "z">>, <<"A", "z">>>>, FALSE), Reply(<<"a">>, <<>>, TRUE), Reply(<<"b">>, <<<<"a", "w">>>>, FALSE)>>}
=============================================================================
