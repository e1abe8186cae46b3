----------------------------- MODULE Selectors ------------------------------
(* The lists a location's rules select from and the edits inspectors make  *)
(* to them, as operators: local/ngx_http_waf_select.c, the rules of        *)
(* ngx_http_waf_dataset.c and the edits of runtime/ngx_http_waf_apply.c.   *)
(* A text is a word and the form it is written in: plain, escaped (%61 for *)
(* a) or in quotes.                                                        *)
EXTENDS Naturals, Sequences, FiniteSets, SequencesExt

CONSTANTS
    Sets,       \* a dataset's name |-> its words
    Pages,      \* names of deny responses
    Lower,      \* a header's name |-> the same in lower case
    ForbidSet, ForbidUnset,  \* response headers inspectors may not touch
    ArgsCap     \* parts a query string may have

Text(t) == [t |-> t, form |-> "plain"]

-----------------------------------------------------------------------------
(* Pairs. *)

unescape(x) == IF x.form = "escaped" THEN Text(x.t) ELSE x
Unquoted(x) == IF x.form = "quoted" THEN Text(x.t) ELSE x

(* A part between two '&' or ';' is a name and perhaps a '=' and a value.  *)
Part(name, eq, value) == [name |-> name, eq |-> eq, value |-> value]
Void(p) == ~p.eq /\ p.name.t = ""

Mapped(s, F(_)) == [i \in DOMAIN s |-> F(s[i])]

pairs_args(args) ==
    LET decode(p) == [name |-> unescape(p.name), value |-> IF p.eq THEN unescape(p.value) ELSE Text("")]
    IN Mapped(SelectSeq(args, LAMBDA p : ~Void(p)), decode)

(* pairs_cookies and cookie_split: cookies is a sequence of headers. *)
pairs_cookies(cookies) ==
    LET strip(p) == [name |-> p.name, value |-> Unquoted(p.value)]
    IN Mapped(SelectSeq(FlattenSeq(cookies), LAMBDA p : p.eq), strip)

pairs_headers(headers) == Mapped(headers, LAMBDA h : [name |-> Text(h.name), value |-> Text(h.value)])

pair_named(op, pair) ==
    \/ op.all
    \/ pair.name.form = "plain" /\
       IF op.object = "headers" THEN Lower[pair.name.t] = Lower[op.name] ELSE pair.name.t = op.name

-----------------------------------------------------------------------------
(* Directives.  A word of a line is a record; prefix is "request" for      *)
(* $waf_request_, "waf" for other words that start with $waf_, "option"    *)
(* for object=name and "" for the rest; "*" as a name stands for all       *)
(* pairs. *)
Word(w) == [prefix |-> "", object |-> "", dot |-> FALSE, name |-> w]
Bad == [bad |-> TRUE]

operand_compile(token) ==
    IF token.prefix = "waf" /\ token.dot THEN Bad
    ELSE IF token.prefix # "request" THEN [bad |-> FALSE, object |-> "var", all |-> FALSE, name |-> token.name]
    ELSE IF ~token.dot \/ token.name = "" \/ token.object \notin {"args", "cookies", "headers"} THEN Bad
    ELSE [bad |-> FALSE, object |-> token.object, all |-> token.name = "*", name |-> token.name]

(* cond_parse: the words after "if"; used is how many it takes. *)
cond_parse(words) ==
    LET negate == Len(words) >= 2 /\ words[2].name = "not"
        used == IF negate THEN 4 ELSE 3
    IN IF Len(words) < used \/ words[used - 1].name # "in" \/ words[used].name \notin DOMAIN Sets THEN Bad
       ELSE LET op == operand_compile(words[1])
            IN IF op.bad THEN Bad
               ELSE [bad |-> FALSE, used |-> used,
                     cond |-> [negate |-> negate, operand |-> op, dataset |-> words[used].name]]

(* The options of a line. *)
RECURSIVE check_options(_, _)
check_options(words, rule) ==
    IF words = <<>> THEN rule
    ELSE IF Head(words) = Word("if")
    THEN LET c == cond_parse(Tail(words))
         IN IF c.bad THEN Bad
            ELSE check_options(SubSeq(words, c.used + 2, Len(words)), [rule EXCEPT !.conds = Append(@, c.cond)])
    ELSE IF Head(words).prefix # "option" THEN Bad
    ELSE IF Head(words).object = "action" /\ Head(words).name \in {"block", "allow", "wave"}
    THEN check_options(Tail(words), [rule EXCEPT !.action = Head(words).name])
    ELSE IF Head(words).object = "response" /\ Head(words).name \in Pages
    THEN check_options(Tail(words), [rule EXCEPT !.response = Head(words).name])
    ELSE Bad

local_check(rules, line) ==
    IF line = <<Word("none")>> THEN (IF rules.none \/ rules.list # <<>> THEN Bad ELSE [rules EXCEPT !.none = TRUE])
    ELSE IF Len(line) < 2 \/ rules.none \/ line[1].name \notin DOMAIN Sets THEN Bad
    ELSE LET op == operand_compile(line[2])
             rule == IF op.bad THEN Bad
                     ELSE check_options(SubSeq(line, 3, Len(line)),
                            [bad |-> FALSE, dataset |-> line[1].name, operand |-> op, conds |-> <<>>, action |-> "block", response |-> ""])
         IN IF rule.bad THEN Bad
            ELSE IF rule.action # "block" /\ rule.response # "" THEN Bad
            ELSE [rules EXCEPT !.list = Append(@, rule)]

NoRules == [bad |-> FALSE, none |-> FALSE, list |-> <<>>]
Compiled(lines) == FoldLeft(LAMBDA rules, line : IF rules.bad THEN rules ELSE local_check(rules, line), NoRules, lines)

-----------------------------------------------------------------------------
(* Edits. *)

args_unset(pairs, name) == SelectSeq(pairs, LAMBDA p : p.name # name)

\* Mutant: the copies behind the first stay.
args_set_first(pairs, name, value) ==
    LET at == {i \in DOMAIN pairs : pairs[i].name = name}
    IN IF at = {} THEN Append(pairs, Part(name, TRUE, value))
       ELSE [pairs EXCEPT ![CHOOSE i \in at : \A j \in at : i <= j] = Part(name, TRUE, value)]

(* args_set: the first copy takes the value, the others go. *)
args_set(pairs, name, value) ==
    LET at == {i \in DOMAIN pairs : pairs[i].name = name}
        first == CHOOSE i \in at : \A j \in at : i <= j
    IN IF at = {} THEN Append(pairs, Part(name, TRUE, value))
       ELSE SubSeq(pairs, 1, first - 1) \o <<Part(name, TRUE, value)>>
            \o args_unset(SubSeq(pairs, first + 1, Len(pairs)), name)

(* args_apply: the edits of the replies, in the order of inspectors; those *)
(* of passive and voting ones are left out.  A query over the cap is       *)
(* dropped with all edits. *)
Edited(args, reply) ==
    FoldLeft(LAMBDA ps, kv : args_set(ps, Text(kv[1]), Text(kv[2])),
             FoldLeft(LAMBDA ps, name : args_unset(ps, Text(name)), args, reply.unset), reply.set)
Authors(replies) == SelectSeq(replies, LAMBDA p : ~p.passive /\ (p.unset # <<>> \/ p.set # <<>>))

args_apply(args, replies) ==
    LET edited == FoldLeft(Edited, args, Authors(replies))
    IN IF Len(edited) > ArgsCap THEN args ELSE edited

(* header_in_set: every copy of a request header takes the value. *)
header_in_set(headers, name, value) ==
    LET same(h) == Lower[h.name] = Lower[name]
    IN IF ~\E i \in DOMAIN headers : same(headers[i]) THEN Append(headers, [name |-> name, value |-> value])
       ELSE Mapped(headers, LAMBDA h : IF same(h) THEN [h EXCEPT !.value = value] ELSE h)

(* header_out_set: the first copy of a response header takes the value and *)
(* lives again. *)
header_out_set(headers, name, value) ==
    LET at == {i \in DOMAIN headers : Lower[headers[i].name] = Lower[name]}
    IN IF at = {} THEN Append(headers, [name |-> name, value |-> value, live |-> TRUE])
       ELSE [headers EXCEPT ![CHOOSE i \in at : \A j \in at : i <= j] = [@ EXCEPT !.value = value, !.live = TRUE]]

header_out_unset(headers, name) ==
    Mapped(headers, LAMBDA h : IF Lower[h.name] = Lower[name] THEN [h EXCEPT !.live = FALSE] ELSE h)

(* apply_headers on a response. *)
apply_headers(headers, reply) ==
    LET unset == FoldLeft(header_out_unset, headers,
                          SelectSeq(reply.unset, LAMBDA name : Lower[name] \notin ForbidUnset))
    IN IF reply.passive THEN headers
       ELSE FoldLeft(LAMBDA hs, kv : IF Lower[kv[1]] \in ForbidSet THEN hs ELSE header_out_set(hs, kv[1], kv[2]),
                     unset, reply.set)

(* ws_strip: a handshake header whose extensions all go gets another name. *)
ws_strip_one(h, strip) ==
    LET left == SelectSeq(h.value, LAMBDA e : "all" \notin strip /\ Lower[e] \notin strip)
    IN IF Len(left) = Len(h.value) THEN h
       ELSE IF left # <<>> THEN [h EXCEPT !.value = left] ELSE [h EXCEPT !.offered = FALSE]
ws_strip(exts, strip) == Mapped(exts, LAMBDA h : IF h.value = <<>> THEN h ELSE ws_strip_one(h, strip))
=============================================================================
