------------------------------- MODULE Rules --------------------------------
(* A request through the rules of its location: the handshake guard, the   *)
(* local checks, the conditions of inspectors in every phase, and the      *)
(* edits between them.  The lists a rule selects from are parsed once and  *)
(* kept for the life of the request, while the phases change what they     *)
(* were parsed from and frames come and go with pools of their own.        *)
EXTENDS Selectors

CONSTANTS
    Confs,      \* locations: rules as records and their lines
    Arrivals,   \* requests as they arrive
    Edits,      \* sequences of replies to the waves of a phase
    MaxFrames   \* bound: frames of a connection

VARIABLES conf, y

vars == <<conf, y>>

Objects == {"args", "cookies", "headers"}
NoPairs == [parsed |-> FALSE, list |-> <<>>, pool |-> "request"]

(* y: the request (args, cookies, headers, exts, out) and its context.     *)
(* pool: r->pool; keep: keep_pool is set; gone: pools destroyed.  was, by: *)
(* history, what the last edits were made to and by whom; rc: history, the *)
(* result of each call of the rules. *)
Init ==
    \E r \in Arrivals :
        /\ conf \in {f \in Confs : ~Compiled(f.lines).bad}
        /\ y = [r |-> r, state |-> "new", pairs |-> [o \in Objects |-> NoPairs], settled |-> FALSE, off |-> {},
                pool |-> "request", keep |-> FALSE, gone |-> {}, frames |-> 0,
                rc |-> <<>>, was |-> r, by |-> <<>>]

-----------------------------------------------------------------------------
ctx_pool(z) == IF z.keep THEN "request" ELSE z.pool

\* Mutant: the lists are parsed for each test.
pairs_ready_anew(z, o) ==
    [z EXCEPT !.pairs[o] = [parsed |-> TRUE, pool |-> ctx_pool(z),
        list |-> IF o = "args" THEN pairs_args(z.r.args) ELSE IF o = "cookies" THEN pairs_cookies(z.r.cookies)
                 ELSE pairs_headers(z.r.headers)]]

pairs_ready(z, o) ==
    IF z.pairs[o].parsed THEN z
    ELSE [z EXCEPT !.pairs[o] = [parsed |-> TRUE, pool |-> ctx_pool(z),
        list |-> IF o = "args" THEN pairs_args(z.r.args) ELSE IF o = "cookies" THEN pairs_cookies(z.r.cookies)
                 ELSE pairs_headers(z.r.headers)]]

dataset_hit(ds, value) == value.form = "plain" /\ value.t \in Sets[ds]

operand_hit(z, op, ds) ==
    IF op.object = "var" THEN [y |-> z, hit |-> dataset_hit(ds, Text(z.r.var))]
    ELSE LET w == pairs_ready(z, op.object)
         IN [y |-> w, hit |-> \E p \in Range(w.pairs[op.object].list) :
                pair_named(op, p) /\ p.value.t # "" /\ dataset_hit(ds, p.value)]

Tested(h, cond) == [y |-> h.y, ok |-> (h.hit # cond.negate)]

\* Mutant: one condition is enough.
cond_test_any(z, conds) ==
    FoldLeft(LAMBDA a, cond : Tested(operand_hit(a.y, cond.operand, cond.dataset), cond),
             [y |-> z, ok |-> TRUE], conds)

(* cond_test: all of them, up to the first that fails. *)
cond_test(z, conds) ==
    FoldLeft(LAMBDA a, cond : IF ~a.ok THEN a ELSE Tested(operand_hit(a.y, cond.operand, cond.dataset), cond),
             [y |-> z, ok |-> TRUE], conds)

(* dataset_check: the first rule whose conditions hold and that hits. *)
Ruled(h, rule) == [y |-> h.y, rc |-> IF h.hit THEN rule.action ELSE "declined"]
rule_hit(c, rule) ==
    IF c.ok THEN operand_hit(c.y, rule.operand, rule.dataset) ELSE [y |-> c.y, hit |-> FALSE]
dataset_check(z) ==
    FoldLeft(LAMBDA a, rule : IF a.rc # "declined" THEN a ELSE Ruled(rule_hit(cond_test(a.y, rule.conds), rule), rule),
             [y |-> z, rc |-> "declined"], Compiled(conf.lines).list)

(* local_checks; within: the rate limits let the request pass. *)
Checked(d, within) ==
    [y |-> [d.y EXCEPT !.rc = Append(@, d.rc)],
     rc |-> IF d.rc = "block" \/ (d.rc = "declined" /\ ~within) THEN "deny"
            ELSE IF d.rc = "allow" THEN "allow" ELSE "declined"]
local_checks(z, within) == Checked(dataset_check(z), within)

(* cond_off: settled once for a phase. *)
Judged(c, b) == IF c.ok THEN c.y ELSE [c.y EXCEPT !.off = @ \cup {b.name}]
cond_off(z, phase) ==
    IF z.settled THEN z
    ELSE FoldLeft(LAMBDA w, b : Judged(cond_test(w, b.conds), b),
                  [z EXCEPT !.settled = TRUE, !.off = {}], conf.inspects[phase])

waves_pending(z) == \E i \in DOMAIN conf.inspects["request"] : conf.inspects["request"][i].name \notin z.off

(* handshake_guard. *)
Guarded(z) == [z EXCEPT !.r.exts = ws_strip(@, conf.strip)]
Refused(z) == conf.upgrade /\ ~z.r.upgrade

-----------------------------------------------------------------------------
Becomes(z) == y' = z /\ UNCHANGED conf
State(z, s) == [z EXCEPT !.state = s]

Started(w) == State(w, IF waves_pending(w) THEN "waves" ELSE "upstream")
Passed(l) ==
    IF l.rc = "deny" THEN State(l.y, "denied")
    ELSE IF l.rc = "allow" \/ conf.inspects["request"] = <<>> THEN State(l.y, "upstream")
    ELSE Started(cond_off(l.y, "request"))

Access(within) ==
    /\ y.state = "new"
    /\ LET z == Guarded(y)
       IN Becomes(IF Refused(z) THEN State(z, "denied") ELSE Passed(local_checks(z, within)))

(* The waves end: apply.  Request headers cannot be unset. *)
Conclude(replies, deny) ==
    /\ y.state = "waves"
    /\ LET z == [y EXCEPT !.was = y.r, !.by = replies,
                          !.r.args = IF deny \/ ~conf.store THEN @ ELSE args_apply(@, replies),
                          !.r.headers = FoldLeft(LAMBDA hs, p : IF p.passive \/ ~conf.store THEN hs
                              ELSE FoldLeft(LAMBDA gs, kv : header_in_set(gs, kv[1], kv[2]), hs, p.set), @, replies)]
       IN Becomes(State(z, IF deny THEN "denied" ELSE "upstream"))

(* The response phase: its conditions, its waves, its edits. *)
Respond(replies) ==
    /\ y.state = "upstream" /\ ~y.r.upgrade
    /\ LET live == IF conf.inspects["response"] = <<>> \/ ~conf.store THEN <<>> ELSE replies
       IN Becomes(State([cond_off([y EXCEPT !.settled = FALSE], "response") EXCEPT
                            !.was = y.r, !.by = live, !.r.out = FoldLeft(apply_headers, @, live)], "done"))

Attach == y.state = "upstream" /\ y.r.upgrade /\ Becomes([State(y, "frames") EXCEPT !.keep = TRUE])

(* A frame: begin, the rules, the conditions of its inspectors, end. *)
frame_begin(z) == [z EXCEPT !.pool = ToString(z.frames), !.settled = FALSE, !.frames = @ + 1]
frame_run(l) ==
    IF l.rc = "declined" THEN cond_off(l.y, "frame")
    ELSE IF l.rc = "deny" THEN State(l.y, "done") ELSE l.y
frame_end(z) == [z EXCEPT !.pool = "request", !.gone = @ \cup {z.pool}]
Frame(within) ==
    /\ y.state = "frames" /\ y.frames < MaxFrames
    /\ Becomes(frame_end(frame_run(local_checks(frame_begin(y), within))))

Next ==
    \/ \E within \in BOOLEAN : Access(within) \/ Frame(within)
    \/ \E replies \in Edits : Respond(replies) \/ \E deny \in BOOLEAN : Conclude(replies, deny)
    \/ Attach

Spec == Init /\ [][Next]_vars

-----------------------------------------------------------------------------
(* Properties. *)

(* Some part of what the client sent is named so and has a listed value.   *)
Holds(r, op, ds) ==
    LET listed(v) == v # "" /\ v \in Sets[ds]
        args == {p \in Range(r.args) : p.eq /\ p.name.form # "quoted" /\ p.value.form # "quoted"}
        cookies == {p \in UNION {Range(h) : h \in Range(r.cookies)} : p.eq /\ p.value.form # "escaped"}
    IN \/ op.object = "var" /\ r.var \in Sets[ds]
       \/ op.object = "args" /\ \E p \in args : op.name \in {"*", p.name.t} /\ listed(p.value.t)
       \/ op.object = "cookies" /\ \E p \in cookies : op.name \in {"*", p.name.t} /\ listed(p.value.t)
       \/ op.object = "headers" /\ \E h \in Range(r.headers) :
            (op.name = "*" \/ Lower[h.name] = Lower[op.name]) /\ listed(h.value)

Applies(r, rule) ==
    /\ Holds(r, rule.operand, rule.dataset)
    /\ \A i \in DOMAIN rule.conds : Holds(r, rule.conds[i].operand, rule.conds[i].dataset) # rule.conds[i].negate

(* The local checks decide as the first rule of the location that applies  *)
(* to the request as it came: whatever the words of the directive, the     *)
(* forms of names and values, the repeated and empty parts, and the order  *)
(* in which lists are parsed for conditions.                               *)
RulesExact ==
    Len(y.rc) = 1 /\ y.by = <<>> /\ y.state # "done" =>
        LET at == {i \in DOMAIN conf.rules : Applies(y.was, conf.rules[i])}
        IN y.rc[1] = IF at = {} THEN "declined" ELSE conf.rules[CHOOSE i \in at : \A j \in at : i <= j].action

(* One view of a request: the rules decide for each frame of a connection  *)
(* as they decided for its handshake, although inspectors have edited the  *)
(* query and the headers since; and the lists kept for this were not made  *)
(* in the pool of a frame that has ended. *)
OneView ==
    /\ \A i \in DOMAIN y.rc : y.rc[i] = y.rc[1]
    /\ \A o \in Objects : y.pairs[o].parsed => y.pairs[o].pool \notin y.gone

(* What the replies ask, in their order; the last word on a name stands.   *)
Ops(replies) ==
    FlattenSeq(Mapped(SelectSeq(replies, LAMBDA p : ~p.passive), LAMBDA p :
        Mapped(p.unset, LAMBDA n : <<n, "unset", "">>) \o Mapped(p.set, LAMBDA kv : <<kv[1], "set", kv[2]>>)))
LastOn(ops, Same(_)) == LET s == SelectSeq(ops, LAMBDA e : Same(e[1])) IN s[Len(s)]

(* Edits by several inspectors leave a query in which a name that was set  *)
(* last has just that value once, one unset last is gone, and the other    *)
(* parts are as they came, in their order; or, over the cap, the query as  *)
(* it came.  In a response the first copy of a header set last has its     *)
(* value and is sent, of one unset last none is sent, and headers nobody   *)
(* may touch are as they came. *)
EditsExact ==
    LET ops == Ops(y.by)
        names == {Text(ops[i][1]) : i \in DOMAIN ops}
        last(n) == LastOn(ops, LAMBDA m : Text(m) = n)
        rest(s) == SelectSeq(s, LAMBDA p : p.name \notin names)
        sets == {n \in names : last(n)[2] = "set"}
        edited == /\ rest(y.r.args) = rest(y.was.args)
                  /\ \A n \in names : SelectSeq(y.r.args, LAMBDA p : p.name = n)
                                      = IF n \in sets THEN <<Part(n, TRUE, Text(last(n)[3]))>> ELSE <<>>
        may == SelectSeq(ops, LAMBDA e : Lower[e[1]] \notin IF e[2] = "set" THEN ForbidSet ELSE ForbidUnset)
        copies(hs, n) == SelectSeq(hs, LAMBDA h : Lower[h.name] = n)
    IN /\ y.state = "upstream" /\ y.by # <<>> /\ conf.store =>
            IF Len(rest(y.was.args)) + Cardinality(sets) > ArgsCap THEN y.r.args = y.was.args ELSE edited
       /\ y.state = "done" /\ ~y.r.upgrade => \A n \in Range(Lower) :
            LET now == copies(y.r.out, n)
                end == LastOn(may, LAMBDA m : Lower[m] = n)
            IN IF ~\E i \in DOMAIN may : Lower[may[i][1]] = n THEN now = copies(y.was.out, n)
               ELSE IF end[2] = "set" THEN now[1].live /\ now[1].value = end[3]
               ELSE \A i \in DOMAIN now : ~now[i].live
=============================================================================
