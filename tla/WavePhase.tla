----------------------------- MODULE WavePhase -----------------------------
(***************************************************************************)
(* One phase of one request in the wave engine (runtime/                   *)
(* ngx_http_waf_handler.c with _verdict.c, bus/ngx_http_waf_bus.c).        *)
(*                                                                         *)
(* The inspectors of a phase are asked wave by wave.  Everything after the *)
(* first step happens in callbacks of the worker's event loop: an answer,  *)
(* a "no responders" notice, the deadline timer, the end of a body read or *)
(* of a store operation, the destruction of the request.  Each callback    *)
(* runs to its end, so each is one action; a callback that leaves the      *)
(* state NEXT_WAVE calls wave_start before it returns, so nothing else     *)
(* happens in that state.                                                  *)
(*                                                                         *)
(* The phase is the request phase or the response phase; the state of the  *)
(* context (ctx, ctx->ph and the slot) is one record, and an operator with *)
(* the name of a C function maps the record it is given to the record the  *)
(* function leaves.  Where the function ends the phase the result is a set *)
(* of records, one per behaviour of the store and the agent.               *)
(*                                                                         *)
(* The slot is its acquisition number rid: SlotTable shows that an answer  *)
(* reaches the acquisition that asked or nobody.                           *)
(***************************************************************************)
EXTENDS Integers, Sequences, FiniteSets, FiniteSetsExt, WaveModes

CONSTANTS
    Routes,     \* the configurations of the locations, see below
    ScoreMax,   \* NGX_HTTP_WAF_SCORE_MAX, 100 in the build
    ActionsMax, \* waf_actions_max
    MaxDepth,   \* NGX_HTTP_WAF_REWRITE_MAX_DEPTH, 8 in the build
    Lag         \* how late the event loop may run an expired timer

VARIABLES
    route,  \* the location of the request: never changes
    now,    \* ngx_current_msec
    ctx,    \* the context
    asked   \* questions on the bus, <<inspector, rid>>; never forgotten, so
            \* an answer may be lost, late or repeated

vars == <<route, now, ctx, asked>>

(* The waves: [all, passive, vote, off, body, meta] each. *)
Waves == Routes[route].waves
(* Request phase or response phase. *)
IsRequest == Routes[route].request
(* waf_deny_mode fast, else deterministic. *)
DenyFast == Routes[route].fast
(* waf_score_deny, 0 when none. *)
Threshold == Routes[route].threshold
(* waf_exception of this phase: cause -> "pass" or "block". *)
Policy == Routes[route].policy
(* The policies of waf_body_limit, other than trim. *)
LimitPolicy == Routes[route].limit
(* waf_deadline, and timeout= of each binding, 0 when none. *)
Deadline == Routes[route].deadline
Timeout == Routes[route].timeout
(* The inspectors bound with if=, with resume=prefer, and those the        *)
(* request phase may have left a continuation of.                          *)
Conditional == Routes[route].conditional
Prefer == Routes[route].prefer
Resumable == Routes[route].resumable
(* waf_send request body=store. *)
SendStore == Routes[route].send
(* May the agent want the body of a request nobody read. *)
AgentBody == Routes[route].agent
(* The payloads an inspector may send. *)
Replies == Routes[route].replies

Inspectors == UNION {Waves[w].all : w \in DOMAIN Waves}

Causes == {"timeout", "absent", "bus", "body", "inspector", "overload"}

(* The waves of one phase: no inspector is bound twice, nor in two modes. *)
RouteWaves(waves) ==
    /\ waves \in Seq([all : SUBSET Nat, passive : SUBSET Nat, vote : SUBSET Nat,
                       off : SUBSET Nat, body : BOOLEAN, meta : BOOLEAN])
    /\ waves # <<>>
    /\ \A v, w \in DOMAIN waves : v # w => waves[v].all \cap waves[w].all = {}
    /\ \A w \in DOMAIN waves :
         /\ waves[w].all # {} /\ Exclusive(waves[w])
         /\ waves[w].passive \cup waves[w].vote \cup waves[w].off \subseteq waves[w].all

Payload ==
    [verdict : {"allow", "score", "redirect", "deny", "error"}, score : Int,
     overload : BOOLEAN, rewrite : BOOLEAN,
     actions : Seq([verb : Verbs \cup {"score", "note"}, to : Int, value : Int])]

ASSUME WaveAssumption ==
    /\ \A r \in DOMAIN Routes :
         /\ RouteWaves(Routes[r].waves)
         /\ Routes[r].policy \in [Causes -> {"pass", "block"}]
         /\ Routes[r].limit \subseteq {"pass", "block"}
         /\ Routes[r].deadline \in Nat \ {0} /\ Routes[r].threshold \in Nat
         /\ \A w \in DOMAIN Routes[r].waves :
              \A i \in Routes[r].waves[w].all : Routes[r].timeout[i] \in Nat
         /\ Routes[r].replies \subseteq Payload
    /\ Lag \in Nat /\ MaxDepth \in Nat /\ ScoreMax \in Nat

NIL == -1

NoReply ==
    [received |-> FALSE, state |-> "none", verdict |-> "allow", score |-> 0,
     rewrite |-> FALSE, passive |-> FALSE, vote |-> FALSE, order |-> 0]

Init ==
    /\ route \in DOMAIN Routes
    /\ now = 0
    /\ asked = {}
    /\ \E off \in SUBSET Conditional, cont \in SUBSET Resumable :
       ctx = [state |-> "INIT", waiting |-> FALSE, timer |-> NIL,
              rid |-> 0, rids |-> 0, got |-> {}, denied |-> {}, awaited |-> {},
              published |-> 0, wave |-> 1, due |-> NIL, resolved |-> {},
              personal |-> {}, cont |-> cont, cond_off |-> off,
              replies |-> [i \in Inspectors |-> NoReply], order |-> 0,
              score |-> 0, fail |-> "none", verdict |-> "allow",
              decisive |-> NIL, ctl |-> NoControl, actions |-> {},
              body_ready |-> FALSE, body_policy |-> "unset",
              placing |-> "none", locator |-> "none", meta_settled |-> FALSE,
              live |-> NIL, stale |-> <<>>, depth |-> 0, applied |-> {},
              agent_settled |-> FALSE, agent_after_body |-> FALSE,
              form_fetched |-> FALSE, send_done |-> FALSE,
              finish_how |-> "none", outcome |-> "none", first |-> NIL]
              \* first, history: the time of the first wave

Wave(c) == Waves[c.wave]

Fail(c, cause) == [c EXCEPT !.fail = cause]

(* slot_release and slot_drop; the masks die with the slot. *)
slot_release(c) == [c EXCEPT !.rid = 0, !.got = {}, !.denied = {}, !.awaited = {}]

-----------------------------------------------------------------------------
(* The end of the phase: exception policies, finish, the answer applied. *)

exception_policy(c) ==
    IF c.fail = "body" /\ c.body_policy # "unset" THEN c.body_policy ELSE Policy[c.fail]

(* The rewritten body cannot be fetched: waf_exception body decides. *)
send_fail(c) ==
    IF Policy["body"] = "block"
    THEN [c EXCEPT !.verdict = "deny", !.decisive = c.live,
                   !.replies[c.live].verdict = "deny"]
    ELSE c

apply(c) ==
    [c EXCEPT !.state = "DONE",
              !.outcome = IF c.verdict = "allow" THEN "pass" ELSE c.verdict]

(* The body of a deny, written by the inspector that decided. *)
form_reply(c) ==
    /\ IsRequest /\ c.verdict = "deny" /\ c.decisive # NIL
    /\ c.replies[c.decisive].rewrite

(* The body that goes to the upstream instead of the original. *)
send_reply(c) ==
    IsRequest /\ c.verdict = "allow" /\ c.live # NIL /\ SendStore

(* Both fetches are issued once; the store answers at once or later. *)
finish_done(c) ==
    LET formed == [c EXCEPT !.form_fetched = TRUE]
        sent   == [formed EXCEPT !.send_done = TRUE]
    IN  CASE c.finish_how = "FAIL"      -> {[c EXCEPT !.state = "DONE", !.outcome = "blocked"]}
          [] c.finish_how = "OVERRIDES" -> {[c EXCEPT !.state = "DONE", !.outcome = "pass"]}
          [] OTHER ->
             IF ~c.form_fetched /\ form_reply(c)
             THEN {apply(sent), [formed EXCEPT !.state = "FETCHING_FORM"]}
             ELSE IF ~c.send_done /\ send_reply(c)
             THEN IF c.locator = "avail"
                  THEN {apply(sent), apply(send_fail(sent)),
                        [sent EXCEPT !.state = "FETCHING_FORM"]}
                  ELSE {apply(send_fail(sent))}
             ELSE {apply(sent)}

finish(c, how) ==
    LET dropped == [slot_release(c) EXCEPT !.timer = NIL, !.finish_how = how]
        settled == [dropped EXCEPT !.agent_settled = TRUE]
        reading == [dropped EXCEPT !.agent_after_body = TRUE, !.state = "READING_BODY"]
    IN  finish_done(settled)
        \cup IF IsRequest /\ AgentBody /\ ~c.agent_settled /\ ~c.body_ready
             THEN {reading} ELSE {}

fail_policy(c) ==
    finish(c, IF exception_policy(c) = "pass" THEN "APPLY" ELSE "FAIL")

phase_apply(c) ==
    IF c.state = "FAILED" THEN fail_policy(c) ELSE finish(c, "APPLY")

-----------------------------------------------------------------------------
(* The verdict of the replies received so far. *)

Counted(c, verdict) ==
    {i \in Inspectors : LET r == c.replies[i] IN
        r.received /\ r.verdict = verdict /\ ~r.passive /\ ~r.vote}

pick(c, verdict) ==
    CHOOSE i \in Counted(c, verdict) : \A j \in Counted(c, verdict) :
        IF DenyFast THEN c.replies[i].order <= c.replies[j].order ELSE i <= j

ScoreDenies(c) == Threshold > 0 /\ c.score >= Threshold

(* Mutant: a failure is looked at before the verdicts. *)
resolve_verdict_fail_first(c) ==
    LET v == IF c.fail # "none" THEN "allow"
             ELSE IF Counted(c, "deny") # {} \/ ScoreDenies(c) THEN "deny"
             ELSE IF Counted(c, "redirect") # {} THEN "redirect" ELSE "allow"
    IN  [c EXCEPT !.verdict = v, !.state = IF c.fail # "none" THEN "FAILED" ELSE "ALLOW"]

resolve_verdict(c) ==
    CASE Counted(c, "deny") # {} ->
           [c EXCEPT !.verdict = "deny", !.decisive = pick(c, "deny"), !.state = "DENY"]
      [] Counted(c, "deny") = {} /\ ScoreDenies(c) ->
           [c EXCEPT !.verdict = "deny", !.decisive = NIL, !.state = "DENY"]
      [] Counted(c, "deny") = {} /\ ~ScoreDenies(c) /\ Counted(c, "redirect") # {} ->
           [c EXCEPT !.verdict = "redirect", !.decisive = pick(c, "redirect"),
                     !.state = "REDIRECT"]
      [] OTHER ->
           [c EXCEPT !.verdict = "allow", !.decisive = NIL,
                     !.state = IF c.fail = "none" THEN "ALLOW" ELSE "FAILED"]

fail_pass(c) ==
    IF c.state = "FAILED" /\ exception_policy(c) = "pass"
    THEN [c EXCEPT !.state = "ALLOW"] ELSE c

(* The timer stops, the slot goes back, the replies decide. *)
conclude(c) ==
    phase_apply(fail_pass(resolve_verdict(
        [slot_release(c) EXCEPT !.timer = NIL, !.waiting = FALSE])))

-----------------------------------------------------------------------------
(* A wave closes. *)

(* Mutant: the passive inspectors of a wave are not waited for. *)
wave_closed_mandatory(c) == wave_mandatory(c.ctl, Wave(c)) \subseteq c.got

wave_closed(c) == c.awaited \subseteq c.got

wave_advances(c) ==
    /\ c.wave < Len(Waves)
    /\ c.fail = "none"
    /\ ~ScoreDenies(c)
    /\ c.denied \cap wave_gating(c.ctl, Wave(c)) = {}

Rewriters(c) ==
    {i \in c.got : LET r == c.replies[i] IN
        r.received /\ r.rewrite /\ ~r.passive /\ ~r.vote /\ r.verdict # "deny"}

(* Mutant: the version before is forgotten. *)
superseded_forgotten(c) == c.stale

(* The versions to delete once the wave's own is live. *)
superseded(c) == IF c.live = NIL THEN c.stale ELSE Append(c.stale, c.live)

(* The wave's new version of the body joins the chain, or the body fails:  *)
(* two versions of one wave, or one past the limit.                        *)
rewrite_settle(c) ==
    CASE Rewriters(c) = {} -> c
      [] \/ \E i, j \in Rewriters(c) : i # j
         \/ Rewriters(c) # {} /\ c.depth >= MaxDepth -> Fail(c, "body")
      [] OTHER ->
         LET found == CHOOSE i \in Rewriters(c) : TRUE
         IN  IF c.live = NIL /\ c.locator = "none" THEN c
             ELSE [c EXCEPT !.live = found, !.depth = @ + 1,
                            !.applied = @ \cup {found},
                            !.stale = superseded(c)]

next_wave(c) ==
    [slot_release(c) EXCEPT !.wave = @ + 1, !.state = "NEXT_WAVE", !.waiting = FALSE]

(* Called with the slot waiting; the timer is left running when the wave   *)
(* only gives way to the next one.                                         *)
settle(c) ==
    IF ~wave_closed(c) THEN {c}
    ELSE LET s == rewrite_settle(c)
         IN  IF wave_advances(s) THEN {next_wave(s)} ELSE conclude(s)

resume(c) == conclude(rewrite_settle(c))

deadline_arm(c) ==
    LET pending == {i \in c.awaited \ c.got : Timeout[i] # 0}
        at      == Min({c.due} \cup {c.published + Timeout[i] : i \in pending})
    IN  [c EXCEPT !.timer = Max({at, now})]

(* Mutant: an inspector may answer twice. *)
unsettled_any(c, i) == i \in Wave(c).all

(* Of this wave and not settled yet. *)
unsettled(c, i) == i \in Wave(c).all /\ i \notin c.got

(* The inspector gives no verdict in this wave. *)
skip_mark(c, i, cause) ==
    LET s == [c EXCEPT !.got = @ \cup {i},
                       !.replies[i].state = IF cause = "absent" THEN "absent" ELSE "skipped"]
    IN  IF i \in wave_mandatory(c.ctl, Wave(c)) THEN Fail(s, cause) ELSE s

skip(c, i, cause) ==
    IF ~unsettled(c, i) THEN {c} ELSE settle(skip_mark(c, i, cause))

-----------------------------------------------------------------------------
(* An answer. *)

(* The actions the module itself carries out, in their order. *)
control_only(actions) ==
    LET kept[k \in 0 .. Len(actions)] ==
            IF k = 0 THEN <<>>
            ELSE IF actions[k].verb \in Verbs THEN Append(kept[k - 1], actions[k])
            ELSE kept[k - 1]
    IN  kept[Len(actions)]

(* What the reply parser makes of a payload.  An error keeps the actions   *)
(* the module itself carries out, but no score and nothing ("note" stands  *)
(* for all of these) that is meant for a neighbour.                        *)
msg_reply(r) ==
    LET taken == IF r.verdict = "redirect" /\ ~IsRequest THEN "allow" ELSE r.verdict
    IN  [r EXCEPT !.verdict = taken,
                  !.score   = IF taken = "score" THEN @ ELSE 0,
                  !.rewrite = @ /\ taken # "error",
                  !.actions = IF taken = "error" THEN control_only(@) ELSE @]

account(c, i) ==
    LET r     == c.replies[i]
        score == IF r.vote /\ r.verdict = "deny" THEN ScoreMax ELSE r.score
    IN  IF r.verdict # "score" /\ ~(r.vote /\ r.verdict = "deny")
        THEN [c EXCEPT !.order = @ + 1, !.replies[i] = [r EXCEPT !.order = c.order + 1]]
        ELSE [c EXCEPT !.order = @ + 1,
                       !.score = IF r.passive \/ score <= 0 THEN @ ELSE @ + score,
                       !.replies[i] = [r EXCEPT !.order = c.order + 1, !.score = score]]

(* Mutant: the sum is clamped, the sender's score is not. *)
score_apply_unclamped(c, i, value) ==
    LET was   == c.replies[i].score
        moved == Max({-ScoreMax, Min({ScoreMax, was + value})}) - was
    IN  [c EXCEPT !.replies[i].score = was + moved,
                  !.score = IF c.score + moved < 0 THEN 0 ELSE @ + moved]

(* The sender's score moves within +-ScoreMax and never takes the sum of   *)
(* the phase below zero.                                                   *)
score_apply(c, i, value) ==
    LET was     == c.replies[i].score
        moved   == Max({-ScoreMax, Min({ScoreMax, was + value})}) - was
        applied == IF c.score + moved < 0 THEN -c.score ELSE moved
    IN  [c EXCEPT !.replies[i].score = was + applied, !.score = @ + applied]

(* One action of a reply: a control or score action of a passive sender is *)
(* refused; an action like an earlier one of the same sender replaces it.  *)
action_merge(c, i, a) ==
    LET key     == <<i, a.verb, a.to>>
        kept    == [c EXCEPT !.actions = @ \cup {key}]
        passive == c.replies[i].passive
    IN  CASE key \notin c.actions /\ Cardinality(c.actions) >= ActionsMax -> c
          [] a.verb \in Verbs /\ (passive \/ a.to \notin Inspectors) -> c
          [] a.verb = "score" /\ passive -> c
          [] OTHER ->
             IF a.verb \in Verbs THEN [kept EXCEPT !.ctl = control_set(@, a.verb, a.to)]
             ELSE IF a.verb = "score" THEN score_apply(kept, i, a.value)
             ELSE kept

actions_merge(c, i, actions) ==
    LET merged[k \in 0 .. Len(actions)] ==
            IF k = 0 THEN c ELSE action_merge(merged[k - 1], i, actions[k])
    IN  merged[Len(actions)]

(* The answer is stored with the modes the inspector has now, accounted,   *)
(* and its actions applied; then the modes they leave decide what the      *)
(* verdict means for the wave.                                             *)
on_reply(c, i, r) ==
    LET stored == [c EXCEPT
            !.got = @ \cup {i}, !.resolved = @ \cup {i},
            !.replies[i] =
                [received |-> TRUE, state |-> "answered", verdict |-> r.verdict,
                 score |-> r.score, rewrite |-> r.rewrite,
                 passive |-> i \in wave_passive(c.ctl, Wave(c)),
                 vote |-> i \in wave_vote(c.ctl, Wave(c)), order |-> 0]]
        merged == actions_merge(account(stored, i), i, r.actions)
        gating == i \in wave_gating(merged.ctl, Wave(c))
        denied == [merged EXCEPT !.denied = @ \cup {i}]
    IN  IF ~unsettled(c, i) THEN {c}
        ELSE CASE r.verdict = "error" ->
                    IF gating
                    THEN resume(Fail(merged, IF r.overload THEN "overload" ELSE "inspector"))
                    ELSE settle(merged)
               [] r.verdict \in {"deny", "redirect"} ->
                    IF DenyFast /\ gating THEN resume(denied) ELSE settle(denied)
               [] OTHER -> settle(merged)

(* The slot behind a rid of the bus: only the one held now is found. *)
slot_lookup(rid) == rid # 0 /\ rid = ctx.rid

bus_dispatch(i, r) ==
    /\ <<i, ctx.rid>> \in asked /\ slot_lookup(ctx.rid)
    /\ ctx' \in on_reply(ctx, i, msg_reply(r))
    /\ UNCHANGED <<route, now, asked>>

(* "No responders" for a question.  The continuation of an inspector bound *)
(* with resume=prefer is replaced by its group; everyone else is skipped.  *)
bus_absent(i) ==
    /\ <<i, ctx.rid>> \in asked /\ slot_lookup(ctx.rid)
    /\ UNCHANGED <<route, now, asked>>
    /\ LET taken == [ctx EXCEPT !.personal = @ \ {i}]
       IN  IF i \notin ctx.personal \/ i \in ctx.resolved
           THEN ctx' \in skip(ctx, i, "absent")
           ELSE IF i \notin Prefer THEN ctx' \in skip(taken, i, "absent")
           ELSE \/ ctx' = taken
                \/ ctx' \in skip(taken, i, "bus")

-----------------------------------------------------------------------------
(* The deadline timer. *)

(* Mutant: the deadline sets no cause. *)
fail_silent(c) == resume(c)

fail(c) ==
    resume(IF wave_mandatory(c.ctl, Wave(c)) \subseteq c.got
           THEN c ELSE Fail(c, "timeout"))

Expired(c) ==
    {i \in c.awaited \ c.got : Timeout[i] # 0 /\ c.published + Timeout[i] <= now}

(* Mutant: the timer is not armed again for the others. *)
expire_unarmed(c) ==
    LET gone   == Expired(c)
        failed == Fail([c EXCEPT !.got = @ \cup gone,
                                 !.replies = [i \in Inspectors |->
                                     IF i \in gone THEN [@[i] EXCEPT !.state = "timeout"] ELSE @[i]]],
                       "timeout")
    IN  IF gone # {} /\ wave_closed(failed) THEN settle(failed) ELSE {failed}

expire(c) ==
    LET gone   == Expired(c)
        marked == [c EXCEPT !.got = @ \cup gone,
                            !.replies = [i \in Inspectors |->
                                IF i \in gone THEN [@[i] EXCEPT !.state = "timeout"] ELSE @[i]]]
        failed == IF gone \cap wave_mandatory(c.ctl, Wave(c)) # {}
                  THEN Fail(marked, "timeout") ELSE marked
    IN  IF gone # {} /\ wave_closed(failed) THEN settle(failed)
        ELSE {deadline_arm(failed)}

on_deadline ==
    /\ ctx.timer # NIL /\ ctx.timer <= now
    /\ LET fired == [ctx EXCEPT !.timer = NIL]
       IN  ctx' \in IF ~ctx.waiting THEN {fired}
                    ELSE IF ctx.due > now THEN expire(fired) ELSE fail(fired)
    /\ UNCHANGED <<route, now, asked>>

-----------------------------------------------------------------------------
(* A wave starts: the objects it needs are placed in the store, then it is *)
(* published.                                                              *)

Placed(rc, c) == [rc |-> rc, c |-> c]

(* A put settles with a policy when it fails; "block" ends the wave. *)
Unavailable(c, policy) ==
    Placed(IF policy = "block" THEN "error" ELSE "ok", [c EXCEPT !.body_policy = policy])

meta_place(c) ==
    LET s == [c EXCEPT !.meta_settled = TRUE]
    IN  {Placed("ok", s), Placed("again", [s EXCEPT !.placing = "meta"]),
         Unavailable(s, Policy["body"])}

body_place(c) ==
    LET s == [c EXCEPT !.locator = "avail"]
        u == [c EXCEPT !.locator = "unavail"]
    IN  IF c.locator # "none" THEN {Placed("ok", c)}
        ELSE {Placed("ok", c), Placed("ok", s), Placed("again", [s EXCEPT !.placing = "body"])}
             \cup {Unavailable(u, p) : p \in LimitPolicy \cup {Policy["body"]}}

wave_place(c) ==
    LET metas == IF Wave(c).meta /\ ~c.meta_settled THEN meta_place(c) ELSE {Placed("ok", c)}
    IN  UNION {IF m.rc # "ok" \/ ~Wave(c).body THEN {m}
               ELSE IF ~c.body_ready THEN {Placed("read", m.c)}
               ELSE IF IsRequest THEN body_place(m.c) ELSE {m} : m \in metas}

ensure_slot(c) ==
    IF c.rid # 0 THEN c ELSE [c EXCEPT !.rid = c.rids + 1, !.rids = @ + 1]

(* Inspectors left out by if= or switched off are settled, the rest are    *)
(* awaited. *)
omit(c) ==
    LET off  == c.cond_off \cap Wave(c).all
        ctrl == wave_off(c.ctl, Wave(c)) \ off
    IN  [c EXCEPT !.got = off \cup ctrl,
                  !.awaited = Live(c.ctl, Wave(c)) \ off,
                  !.replies = [i \in Inspectors |->
                      IF i \in off THEN [@[i] EXCEPT !.state = "skipped"]
                      ELSE IF i \in ctrl THEN [@[i] EXCEPT !.state = "off"]
                      ELSE @[i]]]

(* Every pending inspector in index order, until one publish fails: those  *)
(* with an open breaker are skipped, the others asked, a continuation over *)
(* its personal subject and only once.                                     *)
publish_wave(c, open, sent) ==
    LET s == [c EXCEPT !.got = @ \cup open,
                       !.replies = [i \in Inspectors |->
                           IF i \in open THEN [@[i] EXCEPT !.state = "skipped"] ELSE @[i]],
                       !.personal = @ \cup (sent \cap c.cont), !.cont = @ \ sent]
    IN  IF open \cap wave_mandatory(c.ctl, Wave(c)) # {} THEN Fail(s, "timeout") ELSE s

wave_start_done(c) ==
    IF ~wave_closed(c) THEN {[deadline_arm(c) EXCEPT !.state = "WAITING", !.waiting = TRUE]}
    ELSE LET s == rewrite_settle(c)
         IN  IF wave_advances(s) THEN {next_wave(s)} ELSE conclude(s)

(* The first entry of the phase. *)
access ==
    /\ ctx.state = "INIT"
    /\ ctx' \in IF IsRequest /\ Inspectors \subseteq ctx.cond_off
                THEN finish(ctx, "OVERRIDES")
                ELSE {[ctx EXCEPT !.state = "NEXT_WAVE"]}
    /\ UNCHANGED <<route, now, asked>>

NeedsRead == IsRequest /\ Wave(ctx).body /\ ~ctx.body_ready

WaveReads ==
    /\ ctx.state = "NEXT_WAVE" /\ NeedsRead
    /\ ctx' = [ctx EXCEPT !.state = "READING_BODY"]
    /\ UNCHANGED <<route, now, asked>>

WaveNoSlot ==
    /\ ctx.state = "NEXT_WAVE" /\ ~NeedsRead /\ ctx.rid = 0
    /\ ctx' \in fail_policy(Fail(ctx, "bus"))
    /\ UNCHANGED <<route, now, asked>>

WaveWaitsForObjects ==
    /\ ctx.state = "NEXT_WAVE" /\ ~NeedsRead
    /\ \E p \in wave_place(ensure_slot(ctx)) :
         \/ p.rc = "again" /\ ctx' = [p.c EXCEPT !.state = "PLACING_META"]
         \/ p.rc = "read" /\ ctx' = [p.c EXCEPT !.state = "NEED_BODY"]
         \/ p.rc = "error" /\ ctx' \in fail_policy(Fail(slot_release(p.c), "body"))
    /\ UNCHANGED <<route, now, asked>>

Stamped(c) ==
    omit([c EXCEPT !.due = IF @ = NIL THEN now + Deadline ELSE @,
                   !.first = IF @ = NIL THEN now ELSE @,
                   !.published = now])

(* The wave is published whole. *)
WavePublished ==
    /\ ctx.state = "NEXT_WAVE" /\ ~NeedsRead
    /\ \E p \in wave_place(ensure_slot(ctx)) :
         /\ p.rc = "ok"
         /\ LET c       == Stamped(p.c)
                pending == Wave(c).all \ c.got
            IN  \E open \in SUBSET pending :
                  /\ ctx' \in wave_start_done(publish_wave(c, open, pending \ open))
                  /\ asked' = asked \cup {<<i, c.rid>> : i \in pending \ open}
    /\ UNCHANGED <<route, now>>

(* The k-th publish fails: the questions before it are out, the wave is    *)
(* given up.                                                               *)
WavePublishFails ==
    /\ ctx.state = "NEXT_WAVE" /\ ~NeedsRead
    /\ \E p \in wave_place(ensure_slot(ctx)) :
         /\ p.rc = "ok"
         /\ LET c       == Stamped(p.c)
                pending == Wave(c).all \ c.got
            IN  \E k \in pending : \E open \in SUBSET {i \in pending : i < k} :
                  LET sent == {i \in pending : i < k} \ open
                  IN  /\ ctx' \in fail_policy(Fail(slot_release(
                                    publish_wave(c, open, sent)), "bus"))
                      /\ asked' = asked \cup {<<i, c.rid>> : i \in sent}
    /\ UNCHANGED <<route, now>>

-----------------------------------------------------------------------------
(* The body and the store answer. *)

body_resumed(c, rc) ==
    IF c.agent_after_body
    THEN finish_done([c EXCEPT !.agent_after_body = FALSE, !.agent_settled = TRUE])
    ELSE IF rc = "ok" THEN {[c EXCEPT !.state = "NEXT_WAVE"]}
    ELSE fail_policy(Fail(slot_release(c), "body"))

(* The request body has been read whole. *)
body_ready ==
    /\ ctx.state = "READING_BODY"
    /\ ctx' \in body_resumed([ctx EXCEPT !.body_ready = TRUE], "ok")
    /\ UNCHANGED <<route, now, asked>>

(* The body read fails: nginx finalizes the request with its own status. *)
BodyReadFails ==
    /\ ctx.state = "READING_BODY"
    /\ ctx' = [ctx EXCEPT !.state = "DONE", !.outcome = "error"]
    /\ UNCHANGED <<route, now, asked>>

(* Enough of the response body is held: it is placed. *)
response_body_place ==
    /\ ctx.state = "NEED_BODY" /\ ~ctx.body_ready
    /\ \E p \in body_place([ctx EXCEPT !.body_ready = TRUE]) :
         ctx' \in IF p.rc = "again" THEN {p.c} ELSE body_resumed(p.c, p.rc)
    /\ UNCHANGED <<route, now, asked>>

(* The pending put of the headers or of the body ends. *)
on_put ==
    /\ ctx.placing # "none"
    /\ LET c == [ctx EXCEPT !.placing = "none"]
           f == Unavailable(IF ctx.placing = "body" THEN [c EXCEPT !.locator = "unavail"]
                            ELSE c, Policy["body"])
       IN  ctx' \in body_resumed(c, "ok") \cup body_resumed(f.c, f.rc)
    /\ UNCHANGED <<route, now, asked>>

(* The fetch of a deny form or of the rewritten body ends. *)
form_resumed ==
    /\ ctx.state = "FETCHING_FORM"
    /\ ctx' \in IF ctx.send_done
                THEN finish_done(ctx) \cup finish_done(send_fail(ctx))
                ELSE finish_done(ctx)
    /\ UNCHANGED <<route, now, asked>>

(* The client goes away and nginx destroys the request with its pool. *)
Abort ==
    /\ ctx.state \notin {"INIT", "NEXT_WAVE", "DONE"}
    /\ ctx' = [slot_release(ctx) EXCEPT !.timer = NIL, !.waiting = FALSE,
                                        !.placing = "none",
                                        !.state = "DONE", !.outcome = "aborted"]
    /\ UNCHANGED <<route, now, asked>>

(* Time.  An armed timer runs at most Lag after it is due; past the        *)
(* deadline of the phase only that matters.                                *)
Tick ==
    /\ ctx.state # "NEXT_WAVE" /\ ctx.state # "DONE" /\ ctx.due # NIL
    /\ IF ctx.waiting THEN ctx.timer # NIL /\ now < ctx.timer + Lag ELSE now <= ctx.due
    /\ now' = now + 1
    /\ UNCHANGED <<route, ctx, asked>>

Done == ctx.state = "DONE" /\ UNCHANGED vars

(* The steps the worker owes: its own, time and the timers, and the ends   *)
(* of body reads (client_body_timeout) and store operations (the driver's  *)
(* timeouts).  No inspector owes an answer and no client its patience.     *)
WorkerStep ==
    \/ access \/ WaveReads \/ WaveNoSlot \/ WaveWaitsForObjects
    \/ WavePublished \/ WavePublishFails
    \/ on_deadline
    \/ body_ready \/ BodyReadFails \/ response_body_place \/ on_put \/ form_resumed
    \/ Tick

Next ==
    \/ WorkerStep
    \/ \E i \in Inspectors : bus_absent(i) \/ \E r \in Replies : bus_dispatch(i, r)
    \/ Abort \/ Done

Spec == Init /\ [][Next]_vars

(* The guards of these steps, which is when one of them can be taken.      *)
WorkerOwes ==
    \/ ctx.state \in {"INIT", "NEXT_WAVE", "READING_BODY", "FETCHING_FORM"}
    \/ ctx.state = "NEED_BODY" /\ ~ctx.body_ready
    \/ ctx.placing # "none"
    \/ ctx.timer # NIL /\ ctx.timer <= now
    \/ /\ ctx.state # "DONE" /\ ctx.due # NIL
       /\ IF ctx.waiting THEN ctx.timer # NIL /\ now < ctx.timer + Lag ELSE now <= ctx.due

(* Weak fairness of WorkerStep, with its ENABLED spelt out. *)
Fairness == []<>~WorkerOwes \/ []<><<WorkerStep>>_vars

FairSpec == Spec /\ Fairness

-----------------------------------------------------------------------------
(* Properties. *)

Reply ==
    [received : BOOLEAN, verdict : {"allow", "score", "redirect", "deny", "error"},
     state : {"none", "answered", "skipped", "absent", "timeout", "off"},
     score : Int, rewrite : BOOLEAN, passive : BOOLEAN, vote : BOOLEAN, order : Nat]

(* The inspectors of the waves run so far that nobody ever excused: not    *)
(* passive, not off, not touched by a control action.                      *)
Bound(c) ==
    (UNION {wave_mandatory(NoControl, Waves[w]) : w \in 1 .. c.wave})
    \ (c.ctl.active \cup c.ctl.passive \cup c.ctl.off \cup c.ctl.vote \cup c.cond_off)

(* The inspectors of the wave whose deny or redirect came in as a vote and *)
(* made its own sender gate: it ends the wave and decides nothing.         *)
Turned(c) ==
    {i \in wave_gating(c.ctl, Wave(c)) : LET r == c.replies[i] IN
        r.received /\ r.vote /\ r.verdict \in {"deny", "redirect"}}

(* A phase passes only on its merits or by the configuration: either it    *)
(* met no failure, every bound inspector of the waves it ran has answered, *)
(* the score stays under the threshold and, unless someone of its last     *)
(* wave was silent until the deadline or an inspector has changed the mode *)
(* of another, no wave is left out; or a voter turned itself active and    *)
(* ended the wave early; or the policy of the cause it ended with is pass. *)
PassJustified ==
    ctx.outcome = "pass" /\ ctx.finish_how = "APPLY" =>
        \/ /\ ctx.fail = "none" /\ ~ScoreDenies(ctx)
           /\ \/ /\ \A i \in Bound(ctx) : ctx.replies[i].received
                 /\ \/ ctx.wave = Len(Waves) \/ ctx.ctl # NoControl
                    \/ \E i \in Wave(ctx).all : ctx.replies[i].state = "none"
              \/ Turned(ctx) # {}
        \/ ctx.fail # "none" /\ exception_policy(ctx) = "pass"

(* The sum of the phase is the sum of what its replies still claim, and is *)
(* never negative: votes, score actions and their clamps, in any order of  *)
(* arrival, keep the two in step.                                          *)
ScoreIsSum ==
    ctx.score = SumFunction([i \in Inspectors |->
                    IF ctx.replies[i].received /\ ~ctx.replies[i].passive
                    THEN ctx.replies[i].score ELSE 0])

(* A later wave is asked only when every inspector of the earlier ones has *)
(* been settled, without a failure on the way; and waf_deadline bounds all *)
(* of them together: nobody waits later than Lag after the deadline of the *)
(* first wave (a wave that starts past it is given up at once).            *)
WavesInOrder ==
    /\ \A v \in 1 .. ctx.wave - 1 : \A i \in Waves[v].all : ctx.replies[i].state # "none"
    /\ \/ ctx.state \in {"NEXT_WAVE", "PLACING_META", "NEED_BODY"}
       \/ ctx.state = "READING_BODY" /\ ~ctx.agent_after_body
       \/ ctx.waiting /\ ctx.got = {}
       => ctx.fail = "none"
    /\ ctx.waiting => now <= Max({ctx.first + Deadline, ctx.published}) + Lag

(* Versions of the body form one chain: as many as the depth says, the     *)
(* last one live, every earlier one kept for deletion, none twice, the     *)
(* chain no longer than its limit.                                         *)
RewriteChain ==
    /\ ctx.depth <= MaxDepth
    /\ ctx.live = NIL => ctx.depth = 0 /\ ctx.applied = {} /\ ctx.stale = <<>>
    /\ ctx.live # NIL =>
         /\ ctx.depth = Len(ctx.stale) + 1
         /\ ctx.applied = {ctx.stale[k] : k \in DOMAIN ctx.stale} \cup {ctx.live}
         /\ \A k \in DOMAIN ctx.stale :
              /\ ctx.stale[k] # ctx.live
              /\ \A j \in DOMAIN ctx.stale : ctx.stale[j] = ctx.stale[k] => j = k

(* The first answer of an inspector counts, once: no later step, be it a   *)
(* repeated answer, a late notice or the timer, changes a stored reply,    *)
(* except that a rewriter whose body cannot be fetched becomes the deny.   *)
AnswersStand ==
    [][\A i \in Inspectors :
         ctx.replies[i].received /\ ctx'.replies[i] # ctx.replies[i] =>
           /\ i = ctx'.live
           /\ ctx'.replies[i] = [ctx.replies[i] EXCEPT !.verdict = "deny"]]_vars

(* A deny of an inspector that counted when it answered ends the phase     *)
(* with a deny response, as long as no inspector has changed the mode of   *)
(* another: no later failure, answer or wave turns it into anything else.  *)
DenyStandsUncontrolled ==
    ctx.ctl = NoControl /\ Counted(ctx, "deny") # {}
        => ctx.outcome \notin {"pass", "redirect", "blocked"}

(* A phase that passes without a failure has run its last wave. *)
AllWavesRun ==
    ctx.outcome = "pass" /\ ctx.fail = "none" /\ ctx.finish_how = "APPLY"
        => ctx.wave = Len(Waves)

(* Every phase ends, whatever the inspectors do. *)
PhaseEnds == <>(ctx.state = "DONE")

=============================================================================
