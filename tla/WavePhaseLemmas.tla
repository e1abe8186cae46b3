-------------------------- MODULE WavePhaseLemmas --------------------------
(***************************************************************************)
(* What each callback of a wave does to the context of a phase, for any    *)
(* routes, any number of waves and inspectors, any payloads and any clock  *)
(* lag.  WavePhaseProofs builds its inductive invariant on these lemmas.   *)
(*                                                                         *)
(* A context is Before the questions of its wave, has them Open, or is     *)
(* Over; a lemma says to which kind a C function takes a context of the    *)
(* kind it is called with.                                                 *)
(***************************************************************************)
EXTENDS WavePhase, WellFoundedInduction, TLAPS

CtxFields ==
    {"state", "waiting", "timer", "rid", "rids", "got", "denied", "awaited", "published",
     "wave", "due", "resolved", "personal", "cont", "cond_off", "replies", "order", "score",
     "fail", "verdict", "decisive", "ctl", "actions", "body_ready", "body_policy", "placing",
     "locator", "meta_settled", "live", "stale", "depth", "applied", "agent_settled",
     "agent_after_body", "form_fetched", "send_done", "finish_how", "outcome", "first"}

(* Inspectors of the waves before the current one. *)
Earlier(c) == UNION {Waves[v].all : v \in 1 .. c.wave - 1}

(* The versions of the body. *)
Chain(c) ==
    /\ c.depth \in Nat /\ c.stale \in Seq(Inspectors) /\ c.live \in Inspectors \cup {NIL}
    /\ c.depth <= MaxDepth
    /\ c.live = NIL => c.depth = 0 /\ c.applied = {} /\ c.stale = <<>>
    /\ c.live # NIL =>
         /\ c.depth = Len(c.stale) + 1
         /\ c.applied = {c.stale[k] : k \in DOMAIN c.stale} \cup {c.live}
         /\ \A k \in DOMAIN c.stale :
              /\ c.stale[k] # c.live
              /\ \A j \in DOMAIN c.stale : c.stale[j] = c.stale[k] => j = k

(* Every wave before the current one is settled. *)
Order(c) ==
    \A v \in 1 .. c.wave - 1 : \A i \in Waves[v].all : c.replies[i].state # "none"

(* What every context satisfies. *)
Typed(c) ==
    /\ DOMAIN c = CtxFields
    /\ c.wave \in DOMAIN Waves
    /\ c.rid \in Nat /\ c.rids \in Nat /\ c.rid <= c.rids
    /\ c.replies \in [Inspectors -> Reply]
    /\ c.verdict \in {"allow", "redirect", "deny"} /\ c.order \in Nat /\ c.score \in Int
    /\ c.timer \in Nat \cup {NIL} /\ c.published \in Nat
    /\ \/ c.due = NIL /\ c.first = NIL
       \/ c.due \in Nat /\ c.first \in Nat /\ c.due = c.first + Deadline
    /\ Chain(c) /\ Order(c)

(* What a phase that has not ended satisfies: no later wave is touched. *)
Running(c) ==
    /\ c.finish_how = "none" /\ c.outcome = "none" /\ c.verdict = "allow"
    /\ ~c.agent_after_body
    /\ c.applied \subseteq Earlier(c)
    /\ \A v \in DOMAIN Waves : v > c.wave => \A i \in Waves[v].all : c.replies[i] = NoReply

(* The questions of the wave are not out yet. *)
Before(c) ==
    /\ Running(c) /\ ~c.waiting /\ c.fail = "none" /\ c.got = {} /\ c.denied = {}
    /\ c.state \in {"INIT", "NEXT_WAVE", "READING_BODY", "PLACING_META", "NEED_BODY"}
    /\ c.placing # "none" =>
         c.state = "PLACING_META" \/ (c.state = "NEED_BODY" /\ c.body_ready)
    /\ \A i \in Wave(c).all : c.replies[i] = NoReply
    /\ \A i \in Bound(c) : i \in Wave(c).all \/ c.replies[i].received
    /\ c.ctl = NoControl => Counted(c, "deny") = {}

(* Without control actions the flags of a reply are those of the binding. *)
Uncontrolled(c) ==
    /\ wave_off(NoControl, Wave(c)) \subseteq c.got
    /\ Counted(c, "deny") \subseteq c.denied
    /\ \A i \in Wave(c).all : c.replies[i].received =>
         /\ i \notin wave_off(NoControl, Wave(c))
         /\ c.replies[i].passive <=> i \in wave_passive(NoControl, Wave(c))
         /\ c.replies[i].vote <=> i \in wave_vote(NoControl, Wave(c))

(* The questions of the wave are out. *)
Open(c) ==
    /\ Running(c) /\ c.placing = "none" /\ c.due # NIL
    /\ c.got \subseteq Wave(c).all /\ c.denied \subseteq c.got
    /\ c.awaited \subseteq Wave(c).all /\ Wave(c).all \subseteq c.got \cup c.awaited
    /\ \A i \in Wave(c).all \ c.got : c.replies[i] = NoReply
    /\ \A i \in c.got : c.replies[i].state # "none"
    /\ \A i \in c.denied :
         c.replies[i].received /\ c.replies[i].verdict \in {"deny", "redirect"}
    /\ c.fail = "none" =>
         \A i \in Bound(c) : i \in Wave(c).all \ c.got \/ c.replies[i].received
    /\ c.ctl = NoControl => Uncontrolled(c)

(* Why a phase with verdict allow may pass. *)
Justified(c) ==
    \/ /\ c.fail = "none" /\ ~ScoreDenies(c)
       /\ \/ /\ \A i \in Bound(c) : c.replies[i].received
             /\ \/ c.wave = Len(Waves) \/ c.ctl # NoControl
                \/ \E i \in Wave(c).all : c.replies[i].state = "none"
          \/ Turned(c) # {}
    \/ c.fail # "none" /\ exception_policy(c) = "pass"

(* What the end of a phase keeps of how it was reached. *)
Decided(c) ==
    /\ c.ctl = NoControl /\ Counted(c, "deny") # {} =>
         /\ c.finish_how \notin {"FAIL", "OVERRIDES"}
         /\ c.finish_how = "APPLY" => c.verdict = "deny"
    /\ c.finish_how = "APPLY" /\ c.verdict = "allow" => Justified(c)

Outcome(c) ==
    /\ c.outcome = "pass" =>
         \/ c.finish_how = "OVERRIDES"
         \/ c.finish_how = "APPLY" /\ c.verdict = "allow"
    /\ c.outcome = "redirect" => c.finish_how = "APPLY" /\ c.verdict = "redirect"
    /\ c.outcome = "blocked" => c.finish_how = "FAIL"

(* The phase has ended, but for a body the agent or the answer still needs. *)
Over(c) ==
    /\ ~c.waiting /\ c.placing = "none"
    /\ \/ c.state = "DONE"
       \/ c.state = "READING_BODY" /\ c.agent_after_body /\ c.outcome = "none"
            /\ c.finish_how \in {"APPLY", "FAIL", "OVERRIDES"}
       \/ c.state = "FETCHING_FORM" /\ c.finish_how = "APPLY" /\ c.outcome = "none"
    /\ Decided(c) /\ Outcome(c)

Waiting(c) ==
    /\ Open(c) /\ c.waiting /\ c.state = "WAITING" /\ ~wave_closed(c)
    /\ c.got = {} => c.fail = "none"

Stage(c) == Before(c) \/ Waiting(c) \/ Over(c)

(* The timer of a waiting phase at the time t. *)
Clock(c, t) ==
    /\ c.timer \in Nat /\ t <= c.timer + Lag
    /\ c.timer <= c.due \/ c.timer <= c.published

(* A question of q is answered under the acquisition that asked it. *)
Asked(c, q) ==
    \A x \in q : x[2] \in 1 .. c.rids /\ (x[2] = c.rid => c.waiting)

IInv ==
    /\ route \in DOMAIN Routes /\ now \in Nat
    /\ Typed(ctx) /\ Stage(ctx) /\ Asked(ctx, asked)
    /\ ctx.waiting => Clock(ctx, now)

-----------------------------------------------------------------------------
(* Numbers. *)

(* A nonempty set of naturals has a least element. *)
LEMMA LeastNat ==
    ASSUME NEW T \in SUBSET Nat, T # {}
    PROVE  \E x \in T : \A y \in T : x <= y
<1>1. IsWellFoundedOn(OpToRel(<, Nat), Nat)
  BY NatLessThanWellFounded, Zenon
<1>2. PICK R : R = {ss \in Nat \X Nat : ss[1] < ss[2]}
  BY Zenon
<1>3. IsWellFoundedOn(R, Nat)
  BY <1>1, <1>2 DEF OpToRel
<1>4. PICK x \in T : \A y \in T : ~(<<y, x>> \in R)
  BY <1>3, WFMin, Zenon
<1>5. \A y \in T : <<y, x>> \in Nat \X Nat /\ <<y, x>>[1] = y /\ <<y, x>>[2] = x
  OBVIOUS
<1>6. \A y \in T : ~(y < x)
  BY <1>2, <1>4, <1>5, Zenon
<1> QED BY <1>6

(* Induction over the naturals, about a set. *)
LEMMA SetInduction ==
    ASSUME NEW S, 0 \in S, \A n \in Nat : n \in S => n + 1 \in S
    PROVE  Nat \subseteq S
<1>1. SUFFICES ASSUME NEW T, T = {n \in Nat : n \notin S}, T # {}
               PROVE  FALSE
  BY Zenon
<1>2. PICK x \in T : \A y \in T : x <= y
  BY <1>1, LeastNat
<1>3. x # 0 /\ x \in Nat /\ x \notin S
  BY <1>1, <1>2
<1>4. x - 1 \in Nat /\ x - 1 \notin T
  BY <1>2, <1>3
<1>5. x - 1 \in S
  BY <1>1, <1>4
<1> QED BY <1>3, <1>4, <1>5

(* Min of a set of naturals, Max of two. *)
LEMMA MinNat ==
    ASSUME NEW T \in SUBSET Nat, T # {}
    PROVE  Min(T) \in T /\ \A y \in T : Min(T) <= y
BY LeastNat, Zenon DEF Min

LEMMA MaxNat ==
    ASSUME NEW a \in Nat, NEW b \in Nat
    PROVE  /\ Max({a, b}) \in Nat
           /\ Max({a, b}) = IF a <= b THEN b ELSE a
<1>1. \E x \in {a, b} : \A y \in {a, b} : x >= y
  BY a <= b \/ b <= a
<1>2. Max({a, b}) \in {a, b} /\ \A y \in {a, b} : Max({a, b}) >= y
  BY <1>1 DEF Max
<1> QED BY <1>2

-----------------------------------------------------------------------------
(* Routes. *)

LEMMA RouteFacts ==
    ASSUME route \in DOMAIN Routes
    PROVE  /\ Len(Waves) \in Nat \ {0} /\ DOMAIN Waves = 1 .. Len(Waves)
           /\ \A w \in DOMAIN Waves :
                /\ Waves[w].all \subseteq Nat /\ Waves[w].all \subseteq Inspectors
                /\ Exclusive(Waves[w])
                /\ Waves[w].passive \cup Waves[w].vote \cup Waves[w].off \subseteq Waves[w].all
           /\ \A v, w \in DOMAIN Waves : v # w => Waves[v].all \cap Waves[w].all = {}
           /\ Inspectors \subseteq Nat /\ NIL \notin Inspectors
           /\ Deadline \in Nat \ {0} /\ Threshold \in Nat
           /\ \A i \in Inspectors : Timeout[i] \in Nat
           /\ Replies \subseteq Payload
<1>1. RouteWaves(Waves)
  BY WaveAssumption DEF Waves
<1>2. Len(Waves) \in Nat \ {0} /\ DOMAIN Waves = 1 .. Len(Waves)
  BY <1>1 DEF RouteWaves
<1>3. \A w \in DOMAIN Waves : Waves[w].all \subseteq Nat
  <2>1. SUFFICES ASSUME NEW w \in DOMAIN Waves PROVE Waves[w].all \in SUBSET Nat
    OBVIOUS
  <2>2. PICK M : M = [all : SUBSET Nat, passive : SUBSET Nat, vote : SUBSET Nat,
                      off : SUBSET Nat, body : BOOLEAN, meta : BOOLEAN]
    BY Zenon
  <2>3. Waves \in Seq(M)
    BY <1>1, <2>2, Zenon DEF RouteWaves
  <2>4. Waves[w] \in M
    BY <1>2, <2>1, <2>3
  <2> QED BY <2>2, <2>4
<1>4. \A i \in Inspectors : \E w \in DOMAIN Waves : i \in Waves[w].all
  BY DEF Inspectors
<1>5. Inspectors \subseteq Nat
  BY <1>3, <1>4
<1>6. \A i \in Inspectors : Timeout[i] \in Nat
  BY <1>4, WaveAssumption DEF Timeout, Waves
<1> QED
  BY <1>1, <1>2, <1>3, <1>5, <1>6, WaveAssumption
  DEF RouteWaves, Inspectors, NIL, Deadline, Threshold, Replies

-----------------------------------------------------------------------------
(* The end of the phase. *)

(* Two contexts agree but for the fields F. *)
Same(c, d, F) == DOMAIN d = CtxFields /\ \A f \in CtxFields \ F : d[f] = c[f]

(* The rewriter whose body cannot be fetched becomes the deny. *)
SendFailed(c, d) ==
    /\ c.verdict = "allow" /\ c.live # NIL /\ d.verdict = "deny"
    /\ d.replies = [c.replies EXCEPT ![c.live].verdict = "deny"]

(* The answer is applied, or waits for the body it needs. *)
Applying(c, how, d) ==
    \/ /\ d.state = "FETCHING_FORM" /\ how = "APPLY" /\ d.outcome = c.outcome
    \/ /\ d.state = "DONE"
       /\ d.outcome = IF how = "FAIL" THEN "blocked"
                      ELSE IF how = "OVERRIDES" \/ d.verdict = "allow" THEN "pass"
                      ELSE d.verdict

Closing(c, d) ==
    /\ Same(c, d, {"state", "outcome", "form_fetched", "send_done", "verdict",
                   "decisive", "replies"})
    /\ \/ d.verdict = c.verdict /\ d.replies = c.replies
       \/ SendFailed(c, d) /\ c.finish_how = "APPLY"
    /\ Applying(c, c.finish_how, d)

Hows == {"APPLY", "FAIL", "OVERRIDES"}

LEMMA SlotRelease ==
    ASSUME NEW c, DOMAIN c = CtxFields
    PROVE  /\ Same(c, slot_release(c), {"rid", "got", "denied", "awaited"})
           /\ slot_release(c).rid = 0
           /\ slot_release(c).got = {}
           /\ slot_release(c).denied = {}
           /\ slot_release(c).awaited = {}
BY ZenonT(40) DEF slot_release, Same, CtxFields

LEMMA SendFail ==
    ASSUME NEW c, DOMAIN c = CtxFields, c.verdict = "allow", c.live # NIL
    PROVE  /\ Same(c, send_fail(c), {"verdict", "decisive", "replies"})
           /\ \/ send_fail(c) = c
              \/ SendFailed(c, send_fail(c))
BY Zenon DEF send_fail, Same, CtxFields, SendFailed

LEMMA Apply ==
    ASSUME NEW c, DOMAIN c = CtxFields
    PROVE  /\ Same(c, apply(c), {"state", "outcome"})
           /\ apply(c).state = "DONE"
           /\ apply(c).outcome = IF c.verdict = "allow" THEN "pass" ELSE c.verdict
BY Zenon DEF apply, Same, CtxFields

(* finish_done applies the answer, once what it needs has been fetched. *)
LEMMA FinishDone ==
    ASSUME NEW c, DOMAIN c = CtxFields, c.finish_how \in Hows, NEW d \in finish_done(c)
    PROVE  Closing(c, d)
<1>1. PICK formed : formed = [c EXCEPT !.form_fetched = TRUE]
  BY Zenon
<1>2. PICK sent : sent = [formed EXCEPT !.send_done = TRUE]
  BY Zenon
<1>3. /\ Same(c, formed, {"form_fetched"})
      /\ Same(c, sent, {"form_fetched", "send_done"})
  BY <1>1, <1>2, Zenon DEF Same, CtxFields
<1>4. CASE c.finish_how = "FAIL"
  <2>1. d = [c EXCEPT !.state = "DONE", !.outcome = "blocked"]
    BY <1>4 DEF finish_done
  <2> QED BY <1>4, <2>1, Zenon DEF Closing, Applying, Same, CtxFields
<1>5. CASE c.finish_how = "OVERRIDES"
  <2>1. d = [c EXCEPT !.state = "DONE", !.outcome = "pass"]
    BY <1>5 DEF finish_done
  <2> QED BY <1>5, <2>1, ZenonT(40) DEF Closing, Applying, Same, CtxFields
<1>6. CASE c.finish_how = "APPLY"
  <2>1. \/ d = apply(sent)
        \/ d = [formed EXCEPT !.state = "FETCHING_FORM"]
        \/ send_reply(c) /\ d = apply(send_fail(sent))
        \/ d = [sent EXCEPT !.state = "FETCHING_FORM"]
    <3>1. finish_done(c) =
            IF ~c.form_fetched /\ form_reply(c)
            THEN {apply(sent), [formed EXCEPT !.state = "FETCHING_FORM"]}
            ELSE IF ~c.send_done /\ send_reply(c)
            THEN IF c.locator = "avail"
                 THEN {apply(sent), apply(send_fail(sent)),
                       [sent EXCEPT !.state = "FETCHING_FORM"]}
                 ELSE {apply(send_fail(sent))}
            ELSE {apply(sent)}
      BY <1>1, <1>2, <1>6 DEF finish_done
    <3> QED BY <3>1
  <2>2. CASE d = apply(sent)
    BY <1>3, <1>6, <2>2, Apply DEF Closing, Applying, Same, CtxFields
  <2>3. CASE d = [formed EXCEPT !.state = "FETCHING_FORM"]
    BY <1>3, <1>6, <2>3 DEF Closing, Applying, Same, CtxFields
  <2>4. CASE send_reply(c) /\ d = apply(send_fail(sent))
    <3>1. /\ DOMAIN sent = CtxFields /\ sent.verdict = "allow" /\ sent.live # NIL
          /\ c.verdict = "allow" /\ c.live # NIL /\ sent.live = c.live
          /\ sent.replies = c.replies
      BY <1>3, <2>4 DEF send_reply, Same, CtxFields
    <3>2. PICK e : e = send_fail(sent)
      BY Zenon
    <3>3. /\ Same(sent, e, {"verdict", "decisive", "replies"})
          /\ e = sent \/ SendFailed(sent, e)
      BY <3>1, <3>2, SendFail
    <3>4. /\ Same(e, d, {"state", "outcome"})
          /\ d.state = "DONE"
          /\ d.outcome = IF e.verdict = "allow" THEN "pass" ELSE e.verdict
      BY <2>4, <3>2, <3>3, Apply DEF Same
    <3>5. d.verdict = e.verdict /\ d.replies = e.replies
      BY <3>4 DEF Same, CtxFields
    <3>6. \/ d.verdict = c.verdict /\ d.replies = c.replies
          \/ SendFailed(c, d)
      BY <3>1, <3>3, <3>5 DEF SendFailed
    <3>7. Same(c, d, {"state", "outcome", "form_fetched", "send_done", "verdict",
                      "decisive", "replies"})
      BY <1>3, <3>3, <3>4 DEF Same
    <3> QED BY <1>6, <3>4, <3>5, <3>6, <3>7 DEF Closing, Applying
  <2>5. CASE d = [sent EXCEPT !.state = "FETCHING_FORM"]
    BY <1>3, <1>6, <2>5 DEF Closing, Applying, Same, CtxFields
  <2> QED BY <2>1, <2>2, <2>3, <2>4, <2>5
<1> QED BY <1>4, <1>5, <1>6 DEF Hows

EndFields ==
    {"rid", "got", "denied", "awaited", "timer", "finish_how", "agent_settled",
     "agent_after_body", "state", "outcome", "form_fetched", "send_done", "verdict",
     "decisive", "replies"}

(* What finish leaves of a context. *)
Ending(c, how, d) ==
    /\ Same(c, d, EndFields)
    /\ d.rid = 0 /\ d.timer = NIL /\ d.finish_how = how
    /\ \/ d.verdict = c.verdict /\ d.replies = c.replies
       \/ SendFailed(c, d) /\ how = "APPLY"
    /\ \/ Applying(c, how, d)
       \/ d.state = "READING_BODY" /\ d.agent_after_body /\ d.outcome = c.outcome

LEMMA Finish ==
    ASSUME NEW c, DOMAIN c = CtxFields, NEW how \in Hows, NEW d \in finish(c, how)
    PROVE  Ending(c, how, d)
<1>1. PICK dropped : dropped = [slot_release(c) EXCEPT !.timer = NIL, !.finish_how = how]
  BY Zenon
<1>2. PICK settled : settled = [dropped EXCEPT !.agent_settled = TRUE]
  BY Zenon
<1>3. PICK reading : reading = [dropped EXCEPT !.agent_after_body = TRUE,
                                               !.state = "READING_BODY"]
  BY Zenon
<1>4. d = reading \/ d \in finish_done(settled)
  BY <1>1, <1>2, <1>3, Zenon DEF finish
<1>5. /\ Same(c, dropped, {"rid", "got", "denied", "awaited", "timer", "finish_how"})
      /\ dropped.rid = 0 /\ dropped.timer = NIL /\ dropped.finish_how = how
  <2>1. PICK s : s = slot_release(c)
    BY Zenon
  <2>2. Same(c, s, {"rid", "got", "denied", "awaited"}) /\ s.rid = 0
    BY <2>1, SlotRelease
  <2>3. /\ Same(s, dropped, {"timer", "finish_how"})
        /\ dropped.timer = NIL /\ dropped.finish_how = how
        /\ dropped.rid = s.rid
    BY <1>1, <2>1, <2>2, ZenonT(40) DEF Same, CtxFields
  <2> QED BY <2>2, <2>3 DEF Same
<1>6. CASE d = reading
  <2>1. /\ Same(dropped, d, {"agent_after_body", "state"})
        /\ d.agent_after_body /\ d.state = "READING_BODY"
    BY <1>3, <1>5, <1>6, Zenon DEF Same, CtxFields
  <2>2. /\ d.rid = dropped.rid /\ d.timer = dropped.timer /\ d.finish_how = dropped.finish_how
        /\ d.verdict = c.verdict /\ d.replies = c.replies /\ d.outcome = c.outcome
    BY <1>5, <2>1, ZenonT(40) DEF Same, CtxFields
  <2>3. Same(c, d, EndFields)
    BY <1>5, <2>1 DEF Same, EndFields
  <2> QED BY <1>5, <2>1, <2>2, <2>3 DEF Ending
<1>7. CASE d \in finish_done(settled)
  <2>1. /\ Same(dropped, settled, {"agent_settled"})
        /\ settled.rid = 0 /\ settled.timer = NIL /\ settled.finish_how = how
        /\ settled.verdict = c.verdict /\ settled.replies = c.replies
        /\ settled.outcome = c.outcome /\ settled.live = c.live
    BY <1>2, <1>5, ZenonT(40) DEF Same, CtxFields
  <2>2. Closing(settled, d)
    BY <1>7, <2>1, FinishDone DEF Same
  <2>3. d.rid = 0 /\ d.timer = NIL /\ d.finish_how = how
    BY <2>1, <2>2, ZenonT(40) DEF Closing, Same, CtxFields
  <2>4. Same(c, d, EndFields)
    BY <1>5, <2>1, <2>2 DEF Closing, Same, EndFields
  <2> QED BY <2>1, <2>2, <2>3, <2>4 DEF Ending, Closing, Applying, SendFailed
<1> QED BY <1>4, <1>6, <1>7

(* Nothing but a rewriter turned into the deny changes a stored reply. *)
Kept(c, d) ==
    \A i \in Inspectors : c.replies[i].received =>
        \/ d.replies[i] = c.replies[i]
        \/ i = d.live /\ d.replies[i] = [c.replies[i] EXCEPT !.verdict = "deny"]

(* The condition under which a phase may end the way it does. *)
DecidedAs(c, how) ==
    /\ c.ctl = NoControl /\ Counted(c, "deny") # {} =>
         how \notin {"FAIL", "OVERRIDES"} /\ c.verdict = "deny"
    /\ how = "APPLY" /\ c.verdict = "allow" => Justified(c)

(* The phase has ended and its slot is free. *)
Ended(c, d) ==
    /\ Typed(d) /\ Over(d) /\ Kept(c, d)
    /\ d.rid = 0 /\ d.rids = c.rids /\ ~d.waiting

LEMMA CountedSame ==
    ASSUME NEW c, NEW d, d.replies = c.replies, NEW v
    PROVE  Counted(d, v) = Counted(c, v)
BY Zenon DEF Counted

LEMMA JustifiedSame ==
    ASSUME NEW c, NEW d, d.replies = c.replies, d.fail = c.fail, d.score = c.score,
           d.wave = c.wave, d.ctl = c.ctl, d.cond_off = c.cond_off,
           d.body_policy = c.body_policy
    PROVE  Justified(d) <=> Justified(c)
BY DEF Justified, Bound, Turned, Wave, ScoreDenies, exception_policy

(* finish ends a phase that is decided. *)
LEMMA FinishEnds ==
    ASSUME route \in DOMAIN Routes, NEW c, Typed(c), ~c.waiting, c.placing = "none",
           c.outcome = "none", NEW how \in Hows, DecidedAs(c, how),
           NEW d \in finish(c, how)
    PROVE  Ended(c, d)
<1>1. DOMAIN c = CtxFields /\ Ending(c, how, d)
  BY Finish DEF Typed
<1>2. /\ d.wave = c.wave /\ d.rids = c.rids /\ d.published = c.published
      /\ d.due = c.due /\ d.first = c.first /\ d.applied = c.applied
      /\ d.depth = c.depth /\ d.stale = c.stale /\ d.live = c.live
      /\ d.waiting = c.waiting /\ d.placing = c.placing /\ d.ctl = c.ctl
      /\ d.fail = c.fail /\ d.score = c.score /\ d.cond_off = c.cond_off
      /\ d.body_policy = c.body_policy /\ d.order = c.order /\ DOMAIN d = CtxFields
  <2>1. \A f \in CtxFields \ EndFields : d[f] = c[f]
    BY <1>1, Zenon DEF Ending, Same
  <2>2. {"wave", "rids", "published", "due", "first", "applied", "depth", "stale", "live",
         "waiting", "placing", "ctl", "fail", "score", "cond_off", "body_policy", "order"}
          \subseteq CtxFields \ EndFields
    BY DEF CtxFields, EndFields
  <2> QED BY <1>1, <2>1, <2>2, ZenonT(40) DEF Ending, Same
<1>3. /\ d.rid = 0 /\ d.timer = NIL /\ d.finish_how = how
      /\ \/ d.verdict = c.verdict /\ d.replies = c.replies
         \/ SendFailed(c, d) /\ how = "APPLY"
  BY <1>1 DEF Ending
<1>4. /\ d.replies \in [Inspectors -> Reply]
      /\ \A i \in Inspectors : d.replies[i].state = c.replies[i].state
      /\ Kept(c, d)
  <2>1. c.replies \in [Inspectors -> Reply] /\ c.live \in Inspectors \cup {NIL}
    BY DEF Typed, Chain
  <2>2. CASE d.replies = c.replies
    BY <2>1, <2>2, ZenonT(40) DEF Kept
  <2>3. CASE SendFailed(c, d)
    <3>1. c.live \in Inspectors
      BY <2>1, <2>3 DEF SendFailed
    <3>2. PICK e : e = [c.replies[c.live] EXCEPT !.verdict = "deny"]
      BY Zenon
    <3>3. e \in Reply /\ e.state = c.replies[c.live].state
      BY <2>1, <3>1, <3>2 DEF Reply
    <3>4. d.replies = [c.replies EXCEPT ![c.live] = e]
      BY <2>3, <3>2 DEF SendFailed
    <3> QED BY <1>2, <2>1, <3>1, <3>2, <3>3, <3>4 DEF Kept
  <2> QED BY <1>3, <2>2, <2>3
<1>5. Typed(d)
  <2>1. Order(d)
    <3>1. \A v \in 1 .. c.wave - 1 : \A i \in Waves[v].all : i \in Inspectors
      BY RouteFacts DEF Typed
    <3> QED BY <1>2, <1>4, <3>1 DEF Typed, Order
  <2>2. Chain(d)
    BY <1>2 DEF Typed, Chain
  <2>3. d.verdict \in {"allow", "redirect", "deny"}
    BY <1>3 DEF Typed, SendFailed
  <2> QED BY <1>2, <1>3, <1>4, <2>1, <2>2, <2>3 DEF Typed
<1>6. Decided(d)
  <2>1. CASE d.verdict = c.verdict /\ d.replies = c.replies
    <3>1. Counted(d, "deny") = Counted(c, "deny")
      BY <2>1, CountedSame
    <3>2. Justified(d) <=> Justified(c)
      BY <1>2, <2>1, JustifiedSame
    <3> QED BY <1>2, <1>3, <2>1, <3>1, <3>2 DEF Decided, DecidedAs
  <2>2. CASE SendFailed(c, d) /\ how = "APPLY"
    BY <1>3, <2>2 DEF Decided, SendFailed
  <2> QED BY <1>3, <2>1, <2>2
<1>7. Outcome(d)
  BY <1>1, <1>3, <1>5 DEF Ending, Applying, Outcome, Hows, Typed, SendFailed
<1>8. Over(d)
  BY <1>1, <1>2, <1>3, <1>6, <1>7 DEF Over, Ending, Applying, Hows
<1> QED BY <1>2, <1>3, <1>4, <1>5, <1>8 DEF Ended

(* A failure with its policy ends the phase before anybody of its wave is  *)
(* asked, or because not everybody could be.                               *)
LEMMA FailPolicyEnds ==
    ASSUME route \in DOMAIN Routes, NEW c, Typed(c), ~c.waiting, c.placing = "none",
           c.outcome = "none", c.fail # "none",
           c.ctl = NoControl => Counted(c, "deny") = {},
           NEW d \in fail_policy(c)
    PROVE  Ended(c, d)
<1>1. PICK how : how = IF exception_policy(c) = "pass" THEN "APPLY" ELSE "FAIL"
  BY Zenon
<1>2. how \in Hows /\ d \in finish(c, how)
  BY <1>1 DEF Hows, fail_policy
<1>3. DecidedAs(c, how)
  BY <1>1 DEF DecidedAs, Justified
<1> QED BY <1>2, <1>3, FinishEnds

(* The versions of the body are what applied, depth, stale and live say. *)
LEMMA ChainSame ==
    ASSUME NEW c, Typed(c), NEW d,
           d.applied = c.applied, d.depth = c.depth, d.stale = c.stale, d.live = c.live
    PROVE  Chain(d)
<1>1. Chain(c)
  BY Zenon DEF Typed
<1> QED BY <1>1 DEF Chain

LEMMA TypedSame ==
    ASSUME NEW c, Typed(c), NEW d, DOMAIN d = CtxFields,
           d.wave = c.wave, d.rids = c.rids, d.replies = c.replies,
           d.published = c.published, d.due = c.due, d.first = c.first,
           d.applied = c.applied, d.depth = c.depth, d.stale = c.stale, d.live = c.live,
           d.rid \in {0, c.rid}, d.timer \in {NIL, c.timer},
           d.verdict \in {"allow", "redirect", "deny"},
           d.order = c.order, d.score = c.score
    PROVE  Typed(d)
<1>1. Chain(d)
  BY ChainSame
<1>2. Order(d)
  BY DEF Typed, Order
<1> QED BY <1>1, <1>2 DEF Typed

(* What the verdict of a phase with no counted deny or redirect needs. *)
Concludable(c) ==
    c.fail = "none" /\ ~ScoreDenies(c) /\ Counted(c, "deny") = {} /\ Counted(c, "redirect") = {} =>
        \/ /\ \A i \in Bound(c) : c.replies[i].received
           /\ \/ c.wave = Len(Waves) \/ c.ctl # NoControl
              \/ \E i \in Wave(c).all : c.replies[i].state = "none"
        \/ Turned(c) # {}

(* resolve_verdict sets the verdict and the state of the phase only. *)
LEMMA ResolveVerdict ==
    ASSUME NEW c, DOMAIN c = CtxFields, NEW v, v = resolve_verdict(c)
    PROVE  /\ Same(c, v, {"verdict", "decisive", "state"})
           /\ \/ v.verdict = "deny" /\ v.state = "DENY"
              \/ /\ v.verdict = "redirect" /\ v.state = "REDIRECT"
                 /\ Counted(c, "deny") = {}
              \/ /\ v.verdict = "allow"
                 /\ v.state = IF c.fail = "none" THEN "ALLOW" ELSE "FAILED"
                 /\ Counted(c, "deny") = {} /\ ~ScoreDenies(c)
                 /\ Counted(c, "redirect") = {}
<1>1. CASE Counted(c, "deny") # {}
  <2>1. v = [c EXCEPT !.verdict = "deny", !.decisive = pick(c, "deny"), !.state = "DENY"]
    BY <1>1, Zenon DEF resolve_verdict
  <2> QED BY <2>1, ZenonT(40) DEF Same, CtxFields
<1>2. CASE Counted(c, "deny") = {} /\ ScoreDenies(c)
  <2>1. v = [c EXCEPT !.verdict = "deny", !.decisive = NIL, !.state = "DENY"]
    BY <1>2, Zenon DEF resolve_verdict
  <2> QED BY <2>1, ZenonT(40) DEF Same, CtxFields
<1>3. CASE Counted(c, "deny") = {} /\ ~ScoreDenies(c) /\ Counted(c, "redirect") # {}
  <2>1. v = [c EXCEPT !.verdict = "redirect", !.decisive = pick(c, "redirect"),
                      !.state = "REDIRECT"]
    BY <1>3, Zenon DEF resolve_verdict
  <2> QED BY <1>3, <2>1, ZenonT(40) DEF Same, CtxFields
<1>4. CASE Counted(c, "deny") = {} /\ ~ScoreDenies(c) /\ Counted(c, "redirect") = {}
  <2>1. v = [c EXCEPT !.verdict = "allow", !.decisive = NIL,
                      !.state = IF c.fail = "none" THEN "ALLOW" ELSE "FAILED"]
    BY <1>4, Zenon DEF resolve_verdict
  <2> QED BY <1>4, <2>1, ZenonT(40) DEF Same, CtxFields
<1> QED BY <1>1, <1>2, <1>3, <1>4

(* conclude ends the phase. *)
LEMMA ConcludeEnds ==
    ASSUME route \in DOMAIN Routes, NEW c, Typed(c), c.placing = "none",
           c.outcome = "none", Concludable(c), NEW d \in conclude(c)
    PROVE  Ended(c, d)
<1>0. DOMAIN c = CtxFields
  BY DEF Typed
<1>1. PICK s : s = slot_release(c)
  BY Zenon
<1>2. Same(c, s, {"rid", "got", "denied", "awaited"}) /\ s.rid = 0
  BY <1>0, <1>1, SlotRelease
<1>3. PICK r : r = [s EXCEPT !.timer = NIL, !.waiting = FALSE]
  BY Zenon
<1>4. /\ Same(s, r, {"timer", "waiting"})
      /\ r.timer = NIL /\ r.waiting = FALSE /\ r.rid = s.rid
  BY <1>2, <1>3, ZenonT(40) DEF Same, CtxFields
<1>5. PICK v : v = resolve_verdict(r)
  BY Zenon
<1>6. /\ Same(r, v, {"verdict", "decisive", "state"})
      /\ \/ v.verdict = "deny" /\ v.state = "DENY"
         \/ /\ v.verdict = "redirect" /\ v.state = "REDIRECT"
            /\ Counted(r, "deny") = {}
         \/ /\ v.verdict = "allow"
            /\ v.state = IF r.fail = "none" THEN "ALLOW" ELSE "FAILED"
            /\ Counted(r, "deny") = {} /\ ~ScoreDenies(r)
            /\ Counted(r, "redirect") = {}
  BY <1>4, <1>5, ResolveVerdict DEF Same
<1>7. PICK p : p = fail_pass(v)
  BY Zenon
<1>8. /\ Same(v, p, {"state"})
      /\ p.state = IF v.state = "FAILED" /\ exception_policy(v) = "pass" THEN "ALLOW"
                   ELSE v.state
  BY <1>6, <1>7, ZenonT(40) DEF fail_pass, Same, CtxFields
<1>9. /\ DOMAIN p = CtxFields
      /\ p.timer = NIL /\ p.waiting = FALSE /\ p.rid = 0
      /\ p.verdict = v.verdict
  BY <1>2, <1>4, <1>6, <1>8 DEF Same, CtxFields
<1>10. PICK F : F = {"rid", "got", "denied", "awaited", "timer", "waiting",
                     "verdict", "decisive", "state"}
  BY Zenon
<1>11. Same(c, p, F) /\ Same(c, r, F) /\ Same(c, v, F)
  BY <1>2, <1>4, <1>6, <1>8, <1>10 DEF Same
<1>12. {"wave", "rids", "replies", "published", "due", "first", "applied", "depth", "stale",
        "live", "placing", "outcome", "ctl", "fail", "score", "cond_off", "body_policy",
        "order"} \subseteq CtxFields \ F
  BY <1>10 DEF CtxFields
<1>13. /\ p.wave = c.wave /\ p.rids = c.rids /\ p.replies = c.replies
       /\ p.published = c.published /\ p.due = c.due /\ p.first = c.first
       /\ p.applied = c.applied /\ p.depth = c.depth /\ p.stale = c.stale
       /\ p.live = c.live /\ p.placing = c.placing /\ p.outcome = c.outcome
       /\ p.ctl = c.ctl /\ p.fail = c.fail /\ p.score = c.score
       /\ p.cond_off = c.cond_off /\ p.body_policy = c.body_policy /\ p.order = c.order
  BY <1>11, <1>12, Zenon DEF Same
<1>14. /\ r.replies = c.replies /\ r.fail = c.fail /\ r.score = c.score
       /\ v.fail = c.fail /\ v.body_policy = c.body_policy
  BY <1>11, <1>12, Zenon DEF Same
<1>15. Typed(p)
  BY <1>6, <1>9, <1>13, TypedSame, Zenon
<1>16. /\ Counted(p, "deny") = Counted(c, "deny") /\ Counted(r, "deny") = Counted(c, "deny")
       /\ Counted(r, "redirect") = Counted(c, "redirect")
  BY <1>13, <1>14, CountedSame
<1>17. ScoreDenies(r) <=> ScoreDenies(c)
  BY <1>14, Zenon DEF ScoreDenies
<1>18. exception_policy(v) = exception_policy(p)
  BY <1>13, <1>14 DEF exception_policy
<1>19. /\ \A i : i \in Bound(p) <=> i \in Bound(c)
       /\ Turned(p) = Turned(c) /\ Wave(p) = Wave(c)
       /\ ScoreDenies(p) <=> ScoreDenies(c)
  BY <1>13 DEF Bound, Turned, Wave, ScoreDenies
<1>20. d \in phase_apply(p)
  BY <1>1, <1>3, <1>5, <1>7, Zenon DEF conclude
<1>21. Kept(p, d) => Kept(c, d)
  BY <1>13, ZenonT(40) DEF Kept
<1>22. Ended(p, d)
  <2>1. CASE p.state = "FAILED"
    <3>1. d \in fail_policy(p)
      BY <1>20, <2>1, Zenon DEF phase_apply
    <3>2. p.fail # "none" /\ Counted(p, "deny") = {}
      BY <1>6, <1>8, <1>13, <1>14, <1>16, <2>1
    <3> QED BY <1>9, <1>13, <1>15, <3>1, <3>2, FailPolicyEnds
  <2>2. CASE p.state # "FAILED"
    <3>1. d \in finish(p, "APPLY")
      BY <1>20, <2>2, Zenon DEF phase_apply
    <3>2. DecidedAs(p, "APPLY")
      <4>1. p.ctl = NoControl /\ Counted(p, "deny") # {} => p.verdict = "deny"
        BY <1>6, <1>9, <1>16
      <4>2. ASSUME p.verdict = "allow" PROVE Justified(p)
        <5>1. CASE p.fail = "none"
          BY <1>6, <1>9, <1>13, <1>16, <1>17, <1>19, <4>2, <5>1 DEF Justified,
             Concludable
        <5>2. CASE p.fail # "none"
          BY <1>6, <1>8, <1>9, <1>13, <1>14, <1>18, <2>2, <4>2, <5>2 DEF Justified
        <5> QED BY <5>1, <5>2
      <4> QED BY <4>1, <4>2 DEF DecidedAs
    <3> QED BY <1>9, <1>13, <1>15, <3>1, <3>2, FinishEnds DEF Hows
  <2> QED BY <2>1, <2>2
<1> QED BY <1>13, <1>21, <1>22, Zenon DEF Ended

-----------------------------------------------------------------------------
(* A wave closes. *)

LEMMA WaveFacts ==
    ASSUME route \in DOMAIN Routes, NEW c, Typed(c)
    PROVE  /\ c.wave \in Nat \ {0} /\ c.wave <= Len(Waves)
           /\ Wave(c) = Waves[c.wave]
           /\ Wave(c).all \subseteq Inspectors
           /\ Wave(c).passive \cup Wave(c).vote \cup Wave(c).off \subseteq Wave(c).all
           /\ Earlier(c) \cap Wave(c).all = {}
           /\ \A v \in DOMAIN Waves : v # c.wave => Waves[v].all \cap Wave(c).all = {}
           /\ Inspectors \subseteq Nat /\ NIL \notin Inspectors
<1>1. c.wave \in DOMAIN Waves
  BY DEF Typed
<1>2. /\ c.wave \in Nat \ {0} /\ c.wave <= Len(Waves)
      /\ \A v \in 1 .. c.wave - 1 : v \in DOMAIN Waves /\ v # c.wave
  BY <1>1, RouteFacts
<1>3. \A v \in DOMAIN Waves : v # c.wave => Waves[v].all \cap Waves[c.wave].all = {}
  BY <1>1, RouteFacts
<1>4. Earlier(c) \cap Waves[c.wave].all = {}
  BY <1>2, <1>3 DEF Earlier
<1> QED BY <1>1, <1>2, <1>3, <1>4, RouteFacts, Zenon DEF Wave

(* A new version joins the chain, or the body fails. *)
LEMMA RewriteSettle ==
    ASSUME route \in DOMAIN Routes, NEW c, Typed(c), Open(c),
           NEW s, s = rewrite_settle(c)
    PROVE  /\ Same(c, s, {"fail", "live", "depth", "applied", "stale"})
           /\ Chain(s)
           /\ s.applied \subseteq Earlier(c) \cup Wave(c).all
           /\ s.fail \in {c.fail, "body"}
<1>1. /\ DOMAIN c = CtxFields /\ Chain(c) /\ c.applied \subseteq Earlier(c)
      /\ c.got \subseteq Wave(c).all
  BY DEF Typed, Open, Running
<1>2. Rewriters(c) \subseteq c.got
  BY DEF Rewriters
<1>4. CASE s = c
  BY <1>1, <1>4 DEF Same
<1>5. CASE s = Fail(c, "body")
  <2>1. Same(c, s, {"fail"}) /\ s.fail = "body"
    BY <1>1, <1>5, ZenonT(40) DEF Fail, Same, CtxFields
  <2>2. /\ s.live = c.live /\ s.depth = c.depth /\ s.applied = c.applied
        /\ s.stale = c.stale
    BY <2>1 DEF Same, CtxFields
  <2> QED BY <1>1, <2>1, <2>2 DEF Chain, Same
<1>6. CASE /\ Rewriters(c) # {} /\ c.depth < MaxDepth
           /\ s = [c EXCEPT !.live = CHOOSE i \in Rewriters(c) : TRUE, !.depth = @ + 1,
                            !.applied = @ \cup {CHOOSE i \in Rewriters(c) : TRUE},
                            !.stale = superseded(c)]
  <2>1. PICK found : found = CHOOSE i \in Rewriters(c) : TRUE
    BY Zenon
  <2>2. found \in Rewriters(c)
    BY <1>6, <2>1, Zenon
  <2>3. /\ found \in Inspectors /\ found # NIL /\ found \in Wave(c).all
        /\ found \notin c.applied
    BY <1>1, <1>2, <2>2, WaveFacts
  <2>4. /\ Same(c, s, {"live", "depth", "applied", "stale"})
        /\ s.live = found /\ s.depth = c.depth + 1
        /\ s.applied = c.applied \cup {found} /\ s.stale = superseded(c)
    BY <1>1, <1>6, <2>1, ZenonT(40) DEF Same, CtxFields
  <2>5. s.fail = c.fail
    BY <2>4 DEF Same, CtxFields
  <2>6. /\ s.depth \in Nat /\ s.depth <= MaxDepth /\ c.depth \in Nat
    <3>1. c.depth < MaxDepth
      BY <1>6, Zenon
    <3> QED BY <1>1, <2>4, <3>1, WaveAssumption DEF Chain
  <2>7. /\ s.stale \in Seq(Inspectors) /\ s.depth = Len(s.stale) + 1
        /\ c.applied = {s.stale[k] : k \in DOMAIN s.stale}
        /\ \A j, k \in DOMAIN s.stale : s.stale[j] = s.stale[k] => j = k
    <3>1. CASE c.live = NIL
      <4>1. c.depth = 0 /\ c.applied = {} /\ s.stale = <<>>
        BY <1>1, <2>4, <3>1 DEF Chain, superseded
      <4> QED BY <2>4, <4>1
    <3>2. CASE c.live # NIL
      <4>1. /\ s.stale = Append(c.stale, c.live) /\ c.stale \in Seq(Inspectors)
            /\ c.live \in Inspectors /\ c.depth = Len(c.stale) + 1
            /\ c.applied = {c.stale[k] : k \in DOMAIN c.stale} \cup {c.live}
            /\ \A k \in DOMAIN c.stale :
                 /\ c.stale[k] # c.live
                 /\ \A j \in DOMAIN c.stale : c.stale[j] = c.stale[k] => j = k
        BY <1>1, <2>4, <3>2, Zenon DEF Chain, superseded
      <4>2. /\ s.stale \in Seq(Inspectors) /\ Len(s.stale) = Len(c.stale) + 1
            /\ DOMAIN s.stale = 1 .. Len(c.stale) + 1 /\ DOMAIN c.stale = 1 .. Len(c.stale)
            /\ Len(c.stale) \in Nat
            /\ \A k \in DOMAIN c.stale : s.stale[k] = c.stale[k]
            /\ s.stale[Len(c.stale) + 1] = c.live
        BY <4>1
      <4>3. c.applied = {s.stale[k] : k \in DOMAIN s.stale}
        BY <4>1, <4>2
      <4>4. \A j, k \in DOMAIN s.stale : s.stale[j] = s.stale[k] => j = k
        BY <4>1, <4>2
      <4> QED BY <2>4, <4>1, <4>2, <4>3, <4>4, Zenon
    <3> QED BY <3>1, <3>2
  <2>8. Chain(s)
    BY <2>3, <2>4, <2>6, <2>7 DEF Chain
  <2> QED BY <1>1, <2>3, <2>4, <2>5, <2>8 DEF Same
<1>7. \/ s = c \/ s = Fail(c, "body")
      \/ /\ Rewriters(c) # {} /\ c.depth < MaxDepth
         /\ s = [c EXCEPT !.live = CHOOSE i \in Rewriters(c) : TRUE, !.depth = @ + 1,
                          !.applied = @ \cup {CHOOSE i \in Rewriters(c) : TRUE},
                          !.stale = superseded(c)]
  <2>1. CASE c.depth >= MaxDepth
    BY <2>1, Zenon DEF rewrite_settle
  <2>2. CASE ~(c.depth >= MaxDepth)
    <3>1. c.depth < MaxDepth
      BY <1>1, <2>2, WaveAssumption DEF Chain
    <3> QED BY <2>2, <3>1, ZenonT(40) DEF rewrite_settle
  <2> QED BY <2>1, <2>2
<1> QED BY <1>4, <1>5, <1>6, <1>7

LEMMA Modes ==
    ASSUME NEW ctl, NEW w, NEW i
    PROVE  /\ i \in wave_gating(ctl, w) <=>
                /\ i \in w.all /\ i \notin wave_off(ctl, w)
                /\ i \notin wave_passive(ctl, w) /\ i \notin wave_vote(ctl, w)
           /\ i \in wave_mandatory(ctl, w) <=>
                i \in w.all /\ i \notin wave_off(ctl, w) /\ i \notin wave_passive(ctl, w)
BY DEF wave_gating, wave_mandatory, Live

LEMMA BoundIn ==
    ASSUME route \in DOMAIN Routes, NEW c, Typed(c), NEW i \in Bound(c)
    PROVE  i \in Inspectors /\ (i \in Earlier(c) \/ i \in Wave(c).all)
<1>1. PICK v \in 1 .. c.wave : i \in wave_mandatory(NoControl, Waves[v])
  BY DEF Bound
<1>2. i \in Waves[v].all
  BY <1>1, Modes
<1>3. v \in DOMAIN Waves /\ (v = c.wave \/ v \in 1 .. c.wave - 1)
  BY WaveFacts, RouteFacts
<1> QED BY <1>2, <1>3, RouteFacts, WaveFacts DEF Earlier

(* What is left of the phase once its wave has closed: the next wave has   *)
(* not been asked, or the phase is over; the slot is free.                 *)
Advanced(c, d) ==
    /\ Typed(d) /\ (Before(d) \/ Over(d)) /\ Kept(c, d)
    /\ d.rid = 0 /\ d.rids = c.rids /\ ~d.waiting

(* A phase begins before the questions of its first wave. *)
LEMMA InitInv ==
    ASSUME Init
    PROVE  IInv
<1>1. PICK c : c = ctx
  BY Zenon
<1>2. route \in DOMAIN Routes /\ now = 0 /\ asked = {}
  BY Zenon DEF Init
<1>3. DOMAIN c = CtxFields
  BY <1>1, Zenon DEF Init, CtxFields
<1>4. /\ c.state = "INIT" /\ c.waiting = FALSE /\ c.timer = NIL /\ c.rid = 0 /\ c.rids = 0
      /\ c.got = {} /\ c.denied = {} /\ c.published = 0 /\ c.wave = 1 /\ c.due = NIL
  BY <1>1 DEF Init
<1>5. /\ c.replies = [i \in Inspectors |-> NoReply] /\ c.order = 0 /\ c.score = 0
      /\ c.fail = "none" /\ c.verdict = "allow" /\ c.placing = "none" /\ c.live = NIL
      /\ c.stale = <<>> /\ c.depth = 0 /\ c.applied = {} /\ c.agent_after_body = FALSE
      /\ c.finish_how = "none" /\ c.outcome = "none" /\ c.first = NIL
  BY <1>1 DEF Init
<1>6. NoReply \in Reply /\ ~NoReply.received
  <2>1. /\ 0 \in Nat /\ 0 \in Int /\ FALSE \in BOOLEAN
        /\ "none" \in {"none", "answered", "skipped", "absent", "timeout", "off"}
        /\ "allow" \in {"allow", "score", "redirect", "deny", "error"}
    OBVIOUS
  <2> QED BY <2>1, Zenon DEF NoReply, Reply
<1>7. /\ Len(Waves) \in Nat \ {0} /\ DOMAIN Waves = 1 .. Len(Waves)
      /\ \A w \in DOMAIN Waves : Waves[w].all \subseteq Inspectors
  BY <1>2, RouteFacts, Zenon
<1>8. \A i \in Inspectors : c.replies[i] = NoReply
  BY <1>5
<1>9. Chain(c)
  <2>1. <<>> \in Seq(Inspectors)
    OBVIOUS
  <2>2. MaxDepth \in Nat
    BY WaveAssumption, Zenon
  <2> QED BY <1>5, <2>1, <2>2 DEF Chain
<1>10. Order(c)
  BY <1>4 DEF Order
<1>11. Typed(c)
  BY <1>3, <1>4, <1>5, <1>6, <1>7, <1>9, <1>10 DEF Typed, NIL
<1>12. Running(c)
  <2>1. \A v \in DOMAIN Waves : \A i \in Waves[v].all : c.replies[i] = NoReply
    BY <1>7, <1>8, Zenon
  <2> QED BY <1>5, <2>1, Zenon DEF Running
<1>13. Before(c)
  <2>1. /\ Wave(c).all \subseteq Inspectors
        /\ \A i \in Bound(c) : i \in Wave(c).all \/ i \in Earlier(c)
    BY <1>2, <1>11, WaveFacts, BoundIn, Zenon
  <2>2. Earlier(c) = {}
    BY <1>4 DEF Earlier
  <2>3. Counted(c, "deny") = {}
    BY <1>6, <1>8 DEF Counted
  <2> QED BY <1>4, <1>5, <1>8, <1>12, <2>1, <2>2, <2>3, Zenon DEF Before
<1>14. Asked(c, asked)
  BY <1>2 DEF Asked
<1> QED BY <1>1, <1>2, <1>4, <1>11, <1>13, <1>14, Zenon DEF IInv, Stage

(* Counted replies of an uncontrolled wave gate, and are marked. *)
LEMMA GatingCounted ==
    ASSUME route \in DOMAIN Routes, NEW c, Typed(c), Open(c), c.ctl = NoControl
    PROVE  /\ Counted(c, "deny") \subseteq c.denied \cap wave_gating(NoControl, Wave(c))
           /\ c.denied \cap wave_gating(NoControl, Wave(c))
                \subseteq Counted(c, "deny") \cup Counted(c, "redirect")
<1>1. /\ Uncontrolled(c) /\ c.denied \subseteq Wave(c).all
      /\ \A i \in c.denied :
           c.replies[i].received /\ c.replies[i].verdict \in {"deny", "redirect"}
  BY Zenon DEF Open
<1>2. ASSUME NEW i \in Counted(c, "deny") PROVE i \in wave_gating(NoControl, Wave(c))
  <2>1. i \in Wave(c).all /\ c.replies[i].received /\ ~c.replies[i].passive /\ ~c.replies[i].vote
    BY <1>1, <1>2 DEF Uncontrolled, Counted
  <2> QED BY <1>1, <2>1, Modes DEF Uncontrolled
<1>3. ASSUME NEW i \in c.denied, i \in wave_gating(NoControl, Wave(c))
      PROVE  i \in Counted(c, "deny") \cup Counted(c, "redirect")
  <2>1. i \in Wave(c).all /\ i \notin wave_passive(NoControl, Wave(c))
        /\ i \notin wave_vote(NoControl, Wave(c))
    BY <1>3, Modes
  <2>2. i \in Inspectors
    BY <2>1, WaveFacts
  <2> QED BY <1>1, <2>1, <2>2 DEF Uncontrolled, Counted
<1> QED BY <1>1, <1>2, <1>3 DEF Uncontrolled

(* The next wave. *)
LEMMA NextWave ==
    ASSUME route \in DOMAIN Routes, NEW c, Typed(c), Open(c), wave_closed(c),
           NEW s, s = rewrite_settle(c), wave_advances(s), NEW d, d = next_wave(s)
    PROVE  Advanced(c, d)
<1>1. /\ Same(c, s, {"fail", "live", "depth", "applied", "stale"})
      /\ Chain(s) /\ s.applied \subseteq Earlier(c) \cup Wave(c).all
      /\ s.fail \in {c.fail, "body"}
  BY RewriteSettle
<1>2. PICK r : r = slot_release(s)
  BY Zenon
<1>3. /\ Same(s, r, {"rid", "got", "denied", "awaited"})
      /\ r.rid = 0 /\ r.got = {} /\ r.denied = {}
  BY <1>1, <1>2, SlotRelease DEF Same
<1>4. /\ Same(r, d, {"wave", "state", "waiting"})
      /\ d.wave = r.wave + 1 /\ d.state = "NEXT_WAVE" /\ d.waiting = FALSE
  BY <1>2, <1>3, ZenonT(40) DEF next_wave, Same, CtxFields
<1>5. PICK F : F = {"fail", "live", "depth", "applied", "stale", "rid", "got", "denied",
                    "awaited", "wave", "state", "waiting"}
  BY Zenon
<1>6. Same(c, d, F)
  BY <1>1, <1>3, <1>4, <1>5 DEF Same
<1>7. {"rids", "replies", "verdict", "timer", "published", "due", "first", "finish_how",
       "outcome", "agent_after_body", "placing", "ctl", "cond_off", "order", "score"}
         \subseteq CtxFields \ F
  BY <1>5 DEF CtxFields
<1>8. /\ d.rids = c.rids /\ d.replies = c.replies /\ d.verdict = c.verdict
      /\ d.timer = c.timer /\ d.published = c.published /\ d.due = c.due
      /\ d.first = c.first /\ d.finish_how = c.finish_how /\ d.outcome = c.outcome
      /\ d.agent_after_body = c.agent_after_body /\ d.placing = c.placing
      /\ d.ctl = c.ctl /\ d.cond_off = c.cond_off /\ d.order = c.order
      /\ d.score = c.score /\ DOMAIN d = CtxFields
  BY <1>6, <1>7, ZenonT(40) DEF Same
<1>9. /\ d.rid = 0 /\ d.got = {} /\ d.denied = {} /\ d.fail = s.fail
      /\ d.live = s.live /\ d.depth = s.depth /\ d.applied = s.applied
      /\ d.stale = s.stale /\ d.wave = c.wave + 1
  BY <1>1, <1>3, <1>4 DEF Same, CtxFields
<1>10. /\ s.wave = c.wave /\ s.denied = c.denied /\ s.ctl = c.ctl
  BY <1>1 DEF Same, CtxFields
<1>11. /\ c.wave < Len(Waves) /\ s.fail = "none"
       /\ c.denied \cap wave_gating(c.ctl, Wave(c)) = {}
  BY <1>10 DEF wave_advances, Wave
<1>12. c.fail = "none"
  BY <1>1, <1>11
<1>13. Wave(c).all \subseteq c.got
  BY DEF wave_closed, Open
<1>14. /\ c.wave + 1 \in DOMAIN Waves /\ Wave(d) = Waves[c.wave + 1]
       /\ Earlier(d) = Earlier(c) \cup Wave(c).all
  <2>1. c.wave + 1 \in DOMAIN Waves /\ Wave(d) = Waves[c.wave + 1]
    <3>1. c.wave \in Nat \ {0} /\ DOMAIN Waves = 1 .. Len(Waves) /\ Len(Waves) \in Nat
      BY WaveFacts, RouteFacts, Zenon
    <3>2. c.wave + 1 \in DOMAIN Waves
      BY <1>11, <3>1
    <3>3. Wave(d) = Waves[c.wave + 1]
      BY <1>9, Zenon DEF Wave
    <3> QED BY <3>2, <3>3, Zenon
  <2>2. 1 .. (c.wave + 1) - 1 = (1 .. c.wave - 1) \cup {c.wave}
    BY WaveFacts
  <2> QED BY <1>9, <2>1, <2>2, WaveFacts DEF Earlier
<1>15. Order(d)
  <2>1. \A v \in 1 .. d.wave - 1 : v = c.wave \/ v \in 1 .. c.wave - 1
    BY <1>9, WaveFacts
  <2>2. \A i \in Wave(c).all : c.replies[i].state # "none"
    BY <1>13, Zenon DEF Open
  <2>3. Order(c)
    BY Zenon DEF Typed
  <2> QED BY <1>8, <2>1, <2>2, <2>3, Zenon DEF Order, Wave
<1>16. Typed(d)
  <2>1. Chain(d)
    BY <1>1, <1>9 DEF Chain
  <2>2. d.rid \in Nat /\ d.rids \in Nat /\ d.rid <= d.rids
    BY <1>8, <1>9 DEF Typed
  <2> QED BY <1>8, <1>9, <1>14, <1>15, <2>1, <2>2, Zenon DEF Typed
<1>17. Running(d)
  <2>1. \A v \in DOMAIN Waves : v > d.wave => v > c.wave
    BY <1>9, WaveFacts, RouteFacts
  <2>2. Running(c)
    BY Zenon DEF Open
  <2>3. /\ d.finish_how = "none" /\ d.outcome = "none" /\ d.verdict = "allow"
        /\ ~d.agent_after_body
    BY <1>8, <2>2, Zenon DEF Running
  <2>4. d.applied \subseteq Earlier(d)
    BY <1>1, <1>8, <1>9, <1>14, <2>2, Zenon DEF Running
  <2>5. \A v \in DOMAIN Waves : v > d.wave => \A i \in Waves[v].all : d.replies[i] = NoReply
    <3>1. \A v \in DOMAIN Waves : v > c.wave => \A i \in Waves[v].all : c.replies[i] = NoReply
      BY <2>2, Zenon DEF Running
    <3> QED BY <1>8, <2>1, <3>1, ZenonT(40)
  <2> QED BY <2>3, <2>4, <2>5, Zenon DEF Running
<1>18. \A i \in Wave(d).all : d.replies[i] = NoReply
  <2>1. c.wave + 1 > c.wave
    BY WaveFacts
  <2>2. \A i \in Waves[c.wave + 1].all : c.replies[i] = NoReply
    BY <1>14, <2>1, Zenon DEF Open, Running
  <2> QED BY <1>8, <1>14, <2>2, Zenon
<1>19. ASSUME NEW i \in Bound(d) PROVE i \in Wave(d).all \/ d.replies[i].received
  <2>1. CASE i \in Bound(c)
    <3>1. c.replies[i].received
      BY <1>12, <1>13, <2>1, Zenon DEF Open
    <3> QED BY <1>8, <3>1
  <2>2. CASE i \notin Bound(c)
    <3>1. PICK v \in 1 .. c.wave + 1 : i \in wave_mandatory(NoControl, Waves[v])
      BY <1>9, <1>19 DEF Bound
    <3>2. v \notin 1 .. c.wave
      <4>1. PICK X : X = c.ctl.active \cup c.ctl.passive \cup c.ctl.off \cup c.ctl.vote
                           \cup c.cond_off
        BY Zenon
      <4>2. /\ Bound(d) = (UNION {wave_mandatory(NoControl, Waves[w]) : w \in 1 .. d.wave}) \ X
            /\ Bound(c) = (UNION {wave_mandatory(NoControl, Waves[w]) : w \in 1 .. c.wave}) \ X
        BY <1>8, <4>1, Zenon DEF Bound
      <4>3. i \notin X
        BY <1>19, <4>2
      <4>4. i \notin UNION {wave_mandatory(NoControl, Waves[w]) : w \in 1 .. c.wave}
        BY <2>2, <4>2, <4>3
      <4> QED BY <3>1, <4>4, Zenon
    <3>3. v = c.wave + 1
      BY <3>1, <3>2, WaveFacts
    <3> QED BY <1>14, <3>1, <3>3, Modes, Zenon
  <2> QED BY <2>1, <2>2
<1>20. ASSUME d.ctl = NoControl PROVE Counted(d, "deny") = {}
  <2>1. c.ctl = NoControl
    BY <1>8, <1>20
  <2>2. Counted(c, "deny") \subseteq c.denied \cap wave_gating(NoControl, Wave(c))
    BY <2>1, GatingCounted
  <2>3. Counted(c, "deny") = {}
    BY <1>11, <2>1, <2>2, ZenonT(40)
  <2> QED BY <1>8, <2>3, CountedSame
<1>21. Before(d)
  BY <1>4, <1>8, <1>9, <1>11, <1>17, <1>18, <1>19, <1>20, Zenon DEF Before, Open
<1>22. Kept(c, d)
  BY <1>8, Zenon DEF Kept
<1> QED BY <1>4, <1>8, <1>9, <1>16, <1>21, <1>22, Zenon DEF Advanced

LEMMA ResumeEnds ==
    ASSUME route \in DOMAIN Routes, NEW c, Typed(c), Open(c),
           NEW s, s = rewrite_settle(c), s.fail = "none" => Concludable(c),
           NEW d \in conclude(s)
    PROVE  Ended(c, d)
<1>1. /\ Same(c, s, {"fail", "live", "depth", "applied", "stale"})
      /\ Chain(s) /\ s.fail \in {c.fail, "body"}
  BY RewriteSettle, Zenon
<1>2. /\ s.rid = c.rid /\ s.rids = c.rids /\ s.replies = c.replies /\ s.verdict = c.verdict
      /\ s.timer = c.timer /\ s.published = c.published /\ s.due = c.due
      /\ s.first = c.first /\ s.wave = c.wave /\ s.order = c.order
      /\ s.score = c.score /\ DOMAIN s = CtxFields
  BY <1>1 DEF Same, CtxFields
<1>3. /\ s.ctl = c.ctl /\ s.cond_off = c.cond_off /\ s.score = c.score
      /\ s.outcome = c.outcome /\ s.placing = c.placing
  BY <1>1 DEF Same, CtxFields
<1>4. Typed(s)
  BY <1>1, <1>2, Zenon DEF Typed, Order
<1>5. Concludable(s)
  <2>1. /\ Counted(s, "deny") = Counted(c, "deny")
        /\ Counted(s, "redirect") = Counted(c, "redirect")
    BY <1>2, CountedSame
  <2>2. /\ \A i : i \in Bound(s) <=> i \in Bound(c)
        /\ Turned(s) = Turned(c) /\ Wave(s) = Wave(c)
        /\ ScoreDenies(s) <=> ScoreDenies(c)
    BY <1>2, <1>3, Zenon DEF Bound, Turned, Wave, ScoreDenies
  <2>3. s.fail = "none" => c.fail = "none"
    BY <1>1
  <2> QED BY <1>2, <1>3, <2>1, <2>2, <2>3 DEF Concludable
<1>6. Ended(s, d)
  BY <1>3, <1>4, <1>5, ConcludeEnds, Zenon DEF Open, Running
<1> QED BY <1>2, <1>6, ZenonT(40) DEF Ended, Kept

(* A closed wave gives way to the next one or ends the phase. *)
LEMMA WaveCloses ==
    ASSUME route \in DOMAIN Routes, NEW c, Typed(c), Open(c), wave_closed(c),
           NEW s, s = rewrite_settle(c),
           NEW d \in IF wave_advances(s) THEN {next_wave(s)} ELSE conclude(s)
    PROVE  Advanced(c, d)
<1>1. CASE wave_advances(s)
  BY <1>1, NextWave
<1>2. CASE ~wave_advances(s)
  <2>1. /\ Same(c, s, {"fail", "live", "depth", "applied", "stale"})
        /\ s.fail \in {c.fail, "body"}
    BY RewriteSettle, Zenon
  <2>2. s.wave = c.wave /\ s.denied = c.denied /\ s.ctl = c.ctl /\ s.score = c.score
    BY <2>1 DEF Same, CtxFields
  <2>3. Wave(c).all \subseteq c.got
    BY Zenon DEF wave_closed, Open
  <2>4. CASE s.fail = "none"
    <3>1. Concludable(c)
      <4>1. SUFFICES ASSUME ~ScoreDenies(c), Counted(c, "deny") = {},
                            Counted(c, "redirect") = {}
                     PROVE  /\ \A i \in Bound(c) : c.replies[i].received
                            /\ c.wave = Len(Waves) \/ c.ctl # NoControl
        BY Zenon DEF Concludable
      <4>2. c.fail = "none"
        BY <2>1, <2>4
      <4>3. \A i \in Bound(c) : c.replies[i].received
        BY <2>3, <4>2, Zenon DEF Open
      <4>4. ASSUME c.ctl = NoControl PROVE c.wave = Len(Waves)
        <5>1. c.denied \cap wave_gating(NoControl, Wave(c))
                 \subseteq Counted(c, "deny") \cup Counted(c, "redirect")
          BY <4>4, GatingCounted, Zenon
        <5>2. c.denied \cap wave_gating(NoControl, Wave(c)) = {}
          BY <4>1, <5>1, Zenon
        <5>3. ~(c.wave < Len(Waves))
          BY <1>2, <2>2, <2>4, <4>1, <4>4, <5>2, Zenon DEF wave_advances, Wave, ScoreDenies
        <5> QED BY <5>3, WaveFacts, RouteFacts
      <4> QED BY <4>3, <4>4
    <3>2. Ended(c, d)
      BY <1>2, <3>1, ResumeEnds
    <3> QED BY <3>2 DEF Ended, Advanced
  <2>5. CASE s.fail # "none"
    BY <1>2, <2>5, ResumeEnds DEF Ended, Advanced
  <2> QED BY <2>4, <2>5
<1> QED BY <1>1, <1>2

LEMMA SettleSteps ==
    ASSUME route \in DOMAIN Routes, NEW c, Typed(c), Open(c), NEW d \in settle(c)
    PROVE  (d = c /\ ~wave_closed(c)) \/ Advanced(c, d)
<1>1. CASE ~wave_closed(c)
  BY <1>1 DEF settle
<1>2. CASE wave_closed(c)
  <2>1. PICK s : s = rewrite_settle(c)
    BY Zenon
  <2>2. d \in IF wave_advances(s) THEN {next_wave(s)} ELSE conclude(s)
    BY <1>2, <2>1, ZenonT(40) DEF settle
  <2> QED BY <1>2, <2>1, <2>2, WaveCloses
<1> QED BY <1>1, <1>2

-----------------------------------------------------------------------------
(* Inspectors that give no verdict. *)

LEMMA BoundMandatory ==
    ASSUME route \in DOMAIN Routes, NEW c, Typed(c), NEW i \in Bound(c), i \in Wave(c).all
    PROVE  i \in wave_mandatory(c.ctl, Wave(c))
<1>1. PICK v \in 1 .. c.wave : i \in wave_mandatory(NoControl, Waves[v])
  BY DEF Bound
<1>2. i \in Waves[v].all /\ v \in DOMAIN Waves
  BY <1>1, Modes, WaveFacts, RouteFacts
<1>3. Waves[v] = Wave(c)
  BY <1>2, WaveFacts
<1>4. i \in wave_mandatory(NoControl, Wave(c))
  BY <1>1, <1>3
<1>5. /\ i \notin c.ctl.active /\ i \notin c.ctl.passive
      /\ i \notin c.ctl.off /\ i \notin c.ctl.vote
  BY DEF Bound
<1> QED BY <1>4, <1>5, Zenon DEF wave_mandatory, wave_passive, wave_off, Live, NoControl

(* The inspectors G of the wave are settled without a reply. *)
Marked(c, G, s) ==
    /\ Same(c, s, {"got", "replies", "fail", "personal", "cont"})
    /\ G \subseteq Wave(c).all \ c.got /\ s.got = c.got \cup G
    /\ s.replies \in [Inspectors -> Reply]
    /\ \A i \in Inspectors \ G : s.replies[i] = c.replies[i]
    /\ \A i \in G : s.replies[i].state # "none" /\ ~s.replies[i].received
    /\ s.fail # c.fail => s.fail # "none"
    /\ G \cap wave_mandatory(c.ctl, Wave(c)) # {} => s.fail # "none"

(* Those of the other waves are inspectors outside a part of this one. *)
LEMMA OtherWaves ==
    ASSUME route \in DOMAIN Routes, NEW c, Typed(c), NEW G, G \subseteq Wave(c).all
    PROVE  /\ \A v \in 1 .. c.wave - 1 : Waves[v].all \subseteq Inspectors \ G
           /\ \A v \in DOMAIN Waves : v > c.wave => Waves[v].all \subseteq Inspectors \ G
<1>1. \A v \in 1 .. c.wave - 1 : v \in DOMAIN Waves /\ v # c.wave
  BY WaveFacts, RouteFacts
<1>2. \A v \in DOMAIN Waves : v > c.wave => v # c.wave
  BY WaveFacts, RouteFacts
<1>3. \A v \in DOMAIN Waves : v # c.wave => Waves[v].all \subseteq Inspectors \ G
  BY WaveFacts, RouteFacts, Zenon
<1> QED BY <1>1, <1>2, <1>3, Zenon

(* Inspectors that are settled without an answer leave the wave open. *)
LEMMA MarkedOpen ==
    ASSUME route \in DOMAIN Routes, NEW c, Typed(c), Open(c), NEW G, NEW s, Marked(c, G, s)
    PROVE  /\ Typed(s) /\ Open(s)
           /\ \A i \in Inspectors : c.replies[i].received => s.replies[i] = c.replies[i]
<1>1. PICK F : F = {"got", "replies", "fail", "personal", "cont"}
  BY Zenon
<1>2. {"wave", "rid", "rids", "verdict", "timer", "published", "due", "first", "applied",
       "depth", "stale", "live", "finish_how", "outcome", "agent_after_body", "placing",
       "denied", "awaited", "ctl", "cond_off", "order", "score"} \subseteq CtxFields \ F
  BY <1>1 DEF CtxFields
<1>3. Same(c, s, F)
  BY <1>1, Zenon DEF Marked
<1>4. /\ s.wave = c.wave /\ s.rid = c.rid /\ s.rids = c.rids /\ s.verdict = c.verdict
      /\ s.timer = c.timer /\ s.published = c.published /\ s.due = c.due
      /\ s.first = c.first /\ s.applied = c.applied /\ s.depth = c.depth
      /\ s.stale = c.stale /\ s.live = c.live /\ s.order = c.order
      /\ s.score = c.score /\ DOMAIN s = CtxFields
  BY <1>2, <1>3, Zenon DEF Same
<1>5. /\ s.finish_how = c.finish_how /\ s.outcome = c.outcome
      /\ s.agent_after_body = c.agent_after_body /\ s.placing = c.placing
      /\ s.denied = c.denied /\ s.awaited = c.awaited /\ s.ctl = c.ctl
      /\ s.cond_off = c.cond_off
  BY <1>2, <1>3, Zenon DEF Same
<1>6. /\ Wave(s) = Wave(c) /\ Earlier(s) = Earlier(c) /\ Bound(s) = Bound(c)
  BY <1>4, <1>5, ZenonT(40) DEF Wave, Earlier, Bound
<1>7. /\ G \subseteq Wave(c).all /\ Wave(c).all \subseteq Inspectors
      /\ G \cap c.got = {} /\ s.got = c.got \cup G
      /\ \A i \in G : c.replies[i] = NoReply
  BY WaveFacts, Zenon DEF Marked, Open
<1>8. /\ s.replies \in [Inspectors -> Reply]
      /\ \A i \in Inspectors \ G : s.replies[i] = c.replies[i]
      /\ \A i \in G : s.replies[i].state # "none" /\ ~s.replies[i].received
  BY Zenon DEF Marked
<1>9. \A i \in Inspectors : c.replies[i].received => s.replies[i] = c.replies[i]
  BY <1>7, <1>8 DEF NoReply
<1>10. Typed(s)
  <2>1. \A v \in 1 .. c.wave - 1 : Waves[v].all \subseteq Inspectors \ G
    BY <1>7, OtherWaves, Zenon
  <2>2. Order(s)
    BY <1>4, <1>8, <2>1, Zenon DEF Typed, Order
  <2>3. Chain(s)
    BY <1>4, ChainSame, Zenon
  <2> QED BY <1>4, <1>8, <2>2, <2>3, Zenon DEF Typed
<1>11. Running(s)
  <2>1. \A v \in DOMAIN Waves : v > c.wave => Waves[v].all \subseteq Inspectors \ G
    BY <1>7, OtherWaves, Zenon
  <2>2. Running(c)
    BY Zenon DEF Open
  <2>3. \A v \in DOMAIN Waves : v > s.wave => \A i \in Waves[v].all : s.replies[i] = NoReply
    BY <1>4, <1>8, <2>1, <2>2, Zenon DEF Running
  <2> QED BY <1>4, <1>5, <1>6, <2>2, <2>3, Zenon DEF Running
<1>12. ASSUME s.fail = "none", NEW i \in Bound(s)
       PROVE  i \in Wave(s).all \ s.got \/ s.replies[i].received
  <2>1. c.fail = "none"
    BY <1>12 DEF Marked
  <2>2. i \notin G
    BY <1>6, <1>7, <1>12, BoundMandatory, Zenon DEF Marked
  <2>3. i \in Inspectors
    BY <1>6, BoundIn
  <2> QED BY <1>6, <1>7, <1>8, <2>1, <2>2, <2>3, Zenon DEF Open
<1>13. ASSUME s.ctl = NoControl PROVE Uncontrolled(s)
  <2>1. Uncontrolled(c)
    BY <1>5, <1>13, Zenon DEF Open
  <2>2. ASSUME NEW i \in Inspectors, s.replies[i].received PROVE s.replies[i] = c.replies[i]
    BY <1>8, <2>2
  <2>3. Counted(s, "deny") \subseteq Counted(c, "deny")
    BY <2>2, Zenon DEF Counted
  <2>4. wave_off(NoControl, Wave(s)) \subseteq s.got /\ Counted(s, "deny") \subseteq s.denied
    BY <1>5, <1>6, <1>7, <2>1, <2>3, Zenon DEF Uncontrolled
  <2> QED BY <1>6, <1>7, <2>1, <2>2, <2>4, Zenon DEF Uncontrolled
<1>14. /\ s.got \subseteq Wave(s).all /\ s.denied \subseteq s.got
       /\ s.awaited \subseteq Wave(s).all /\ Wave(s).all \subseteq s.got \cup s.awaited
  BY <1>5, <1>6, <1>7, Zenon DEF Open
<1>15. /\ \A i \in Wave(s).all \ s.got : s.replies[i] = NoReply
       /\ \A i \in s.got : s.replies[i].state # "none"
  <2>1. \A i \in Wave(s).all \ s.got : s.replies[i] = NoReply
    BY <1>6, <1>7, <1>8, Zenon DEF Open
  <2>2. \A i \in s.got : s.replies[i].state # "none"
    <3>1. \A i \in c.got : i \in Inspectors \ G /\ c.replies[i].state # "none"
      BY <1>7, Zenon DEF Open
    <3> QED BY <1>7, <1>8, <3>1, Zenon
  <2> QED BY <2>1, <2>2, Zenon
<1>16. \A i \in s.denied :
         s.replies[i].received /\ s.replies[i].verdict \in {"deny", "redirect"}
  <2>1. \A i \in c.denied : i \in Inspectors \ G
    BY <1>7, Zenon DEF Open
  <2> QED BY <1>5, <1>8, <2>1, Zenon DEF Open
<1>17. s.placing = "none" /\ s.due # NIL
  BY <1>4, <1>5, Zenon DEF Open
<1>18. Open(s)
  BY <1>11, <1>12, <1>13, <1>14, <1>15, <1>16, <1>17, Zenon DEF Open
<1> QED BY <1>9, <1>10, <1>18

(* A failure noted leaves the wave open. *)
LEMMA FailOpen ==
    ASSUME route \in DOMAIN Routes, NEW c, Typed(c), Open(c), NEW cause, cause # "none",
           NEW f, f = Fail(c, cause)
    PROVE  /\ Typed(f) /\ Open(f) /\ f.fail # "none" /\ f.rids = c.rids
           /\ \A j \in Inspectors : c.replies[j].received => f.replies[j] = c.replies[j]
<1>1. DOMAIN c = CtxFields /\ c.replies \in [Inspectors -> Reply]
  BY Zenon DEF Typed
<1>2. Same(c, f, {"fail"}) /\ f.fail = cause
  BY <1>1, Zenon DEF Fail, Same, CtxFields
<1>3. f.got = c.got /\ f.replies = c.replies /\ f.rids = c.rids
  BY <1>2 DEF Same, CtxFields
<1>4. Same(c, f, {"got", "replies", "fail", "personal", "cont"})
  BY <1>2 DEF Same
<1>5. Marked(c, {}, f)
  BY <1>1, <1>2, <1>3, <1>4, Zenon DEF Marked
<1> QED BY <1>2, <1>3, <1>5, MarkedOpen

LEMMA MarkReply ==
    ASSUME NEW st \in {"skipped", "absent", "timeout", "off"}
    PROVE  /\ [NoReply EXCEPT !.state = st] \in Reply
           /\ [NoReply EXCEPT !.state = st].state # "none"
           /\ ~[NoReply EXCEPT !.state = st].received
<1>1. PICK e : e = [NoReply EXCEPT !.state = st]
  BY Zenon
<1>2. e = [received |-> FALSE, state |-> st, verdict |-> "allow", score |-> 0,
           rewrite |-> FALSE, passive |-> FALSE, vote |-> FALSE, order |-> 0]
  BY <1>1, Zenon DEF NoReply
<1>3. /\ 0 \in Nat /\ 0 \in Int /\ FALSE \in BOOLEAN
      /\ st \in {"none", "answered", "skipped", "absent", "timeout", "off"} /\ st # "none"
  OBVIOUS
<1>4. e \in Reply
  BY <1>2, <1>3, Zenon DEF Reply
<1>5. e.state # "none" /\ ~e.received
  BY <1>2, <1>3, ZenonT(40)
<1> QED BY <1>1, <1>4, <1>5, Zenon

(* An open or absent inspector is settled; the wave may close. *)
LEMMA SkipSteps ==
    ASSUME route \in DOMAIN Routes, NEW c, Typed(c), Open(c), NEW i,
           NEW cause \in {"absent", "bus"}, NEW d \in skip(c, i, cause)
    PROVE  \/ d = c
           \/ /\ Typed(d) /\ Open(d) /\ ~wave_closed(d) /\ d.got # {} /\ Kept(c, d)
              /\ Same(c, d, {"got", "replies", "fail", "personal", "cont"})
           \/ Advanced(c, d)
<1>1. CASE ~unsettled(c, i)
  BY <1>1, Zenon DEF skip
<1>2. CASE unsettled(c, i)
  <2>1. PICK s : s = skip_mark(c, i, cause)
    BY Zenon
  <2>2. d \in settle(s)
    BY <1>2, <2>1, ZenonT(40) DEF skip
  <2>3. i \in Wave(c).all \ c.got /\ i \in Inspectors /\ c.replies[i] = NoReply
    BY <1>2, WaveFacts, Zenon DEF unsettled, Open
  <2>0. PICK st : st = IF cause = "absent" THEN "absent" ELSE "skipped"
    BY Zenon
  <2>4. PICK m : m = [c EXCEPT !.got = c.got \cup {i}, !.replies[i].state = st]
    BY Zenon
  <2>5. s = IF i \in wave_mandatory(c.ctl, Wave(c)) THEN Fail(m, cause) ELSE m
    <3>1. CASE i \in wave_mandatory(c.ctl, Wave(c))
      BY <2>0, <2>1, <2>4, <3>1 DEF skip_mark
    <3>2. CASE i \notin wave_mandatory(c.ctl, Wave(c))
      BY <2>0, <2>1, <2>4, <3>2 DEF skip_mark
    <3> QED BY <3>1, <3>2, Zenon
  <2>6. DOMAIN c = CtxFields /\ c.replies \in [Inspectors -> Reply]
    BY DEF Typed
  <2>7. /\ Same(c, m, {"got", "replies"})
        /\ m.got = c.got \cup {i}
        /\ m.replies = [c.replies EXCEPT ![i].state = st]
    BY <2>4, <2>6, Zenon DEF Same, CtxFields
  <2>8. /\ Same(m, s, {"fail"}) /\ s.got = m.got /\ s.replies = m.replies
        /\ s.fail = IF i \in wave_mandatory(c.ctl, Wave(c)) THEN cause ELSE m.fail
    BY <2>5, <2>7, Zenon DEF Fail, Same, CtxFields
  <2>9. m.fail = c.fail
    BY <2>7 DEF Same, CtxFields
  <2>10. Same(c, s, {"got", "replies", "fail", "personal", "cont"})
    BY <2>7, <2>8 DEF Same
  <2>11. /\ m.replies \in [Inspectors -> Reply]
         /\ \A j \in Inspectors \ {i} : m.replies[j] = c.replies[j]
         /\ m.replies[i].state # "none" /\ ~m.replies[i].received
    <3>1. PICK e : e = [c.replies[i] EXCEPT !.state = st]
      BY Zenon
    <3>2. e \in Reply /\ e.state # "none" /\ ~e.received
      BY <2>0, <2>3, <3>1, MarkReply
    <3>3. m.replies = [c.replies EXCEPT ![i] = e]
      BY <2>7, <3>1, Zenon
    <3> QED BY <2>3, <2>6, <3>2, <3>3, Zenon
  <2>12. Marked(c, {i}, s)
    BY <2>3, <2>7, <2>8, <2>9, <2>10, <2>11 DEF Marked
  <2>13. /\ Typed(s) /\ Open(s)
         /\ \A j \in Inspectors : c.replies[j].received => s.replies[j] = c.replies[j]
    BY <2>12, MarkedOpen
  <2>14. CASE d = s /\ ~wave_closed(s)
    <3>1. s.got # {}
      BY <2>7, <2>8
    <3> QED BY <2>10, <2>13, <2>14, <3>1 DEF Kept
  <2>15. CASE Advanced(s, d)
    <3>1. s.rids = c.rids
      BY <2>10 DEF Same, CtxFields
    <3> QED BY <2>13, <2>15, <3>1 DEF Advanced, Kept
  <2> QED BY <2>2, <2>13, <2>14, <2>15, SettleSteps, Zenon
<1> QED BY <1>1, <1>2, Zenon

-----------------------------------------------------------------------------
(* The deadline timer is armed. *)

(* An open wave does not depend on the timer nor on who waits. *)
LEMMA OpenSame ==
    ASSUME route \in DOMAIN Routes, NEW c, Typed(c), Open(c), NEW d,
           Same(c, d, {"timer", "state", "waiting", "personal"}), d.timer \in Nat \cup {NIL}
    PROVE  /\ Typed(d) /\ Open(d) /\ d.rids = c.rids /\ d.rid = c.rid /\ d.got = c.got
           /\ d.replies = c.replies /\ d.fail = c.fail /\ d.due = c.due
           /\ wave_closed(d) <=> wave_closed(c)
<1>1. PICK F : F = {"timer", "state", "waiting", "personal"}
  BY Zenon
<1>2. {"wave", "rid", "rids", "verdict", "published", "due", "first", "applied", "depth",
       "stale", "live", "finish_how", "outcome", "agent_after_body", "placing", "awaited",
       "cond_off", "fail", "got", "denied", "replies", "order", "score", "ctl"}
         \subseteq CtxFields \ F
  BY <1>1 DEF CtxFields
<1>3. Same(c, d, F)
  BY <1>1, Zenon
<1>4. /\ d.wave = c.wave /\ d.rid = c.rid /\ d.rids = c.rids /\ d.verdict = c.verdict
      /\ d.published = c.published /\ d.due = c.due /\ d.first = c.first
      /\ d.applied = c.applied /\ d.depth = c.depth /\ d.stale = c.stale
      /\ d.live = c.live /\ DOMAIN d = CtxFields
  BY <1>2, <1>3, Zenon DEF Same
<1>5. /\ d.finish_how = c.finish_how /\ d.outcome = c.outcome
      /\ d.agent_after_body = c.agent_after_body /\ d.placing = c.placing
      /\ d.awaited = c.awaited /\ d.cond_off = c.cond_off /\ d.fail = c.fail
      /\ d.got = c.got /\ d.denied = c.denied /\ d.replies = c.replies
      /\ d.order = c.order /\ d.score = c.score /\ d.ctl = c.ctl
  BY <1>2, <1>3, ZenonT(40) DEF Same
<1>6. Typed(d)
  <2>1. Chain(d)
    BY <1>4, ChainSame, Zenon
  <2>2. Order(d)
    BY <1>4, <1>5, Zenon DEF Typed, Order
  <2> QED BY <1>4, <1>5, <2>1, <2>2, Zenon DEF Typed
<1>7. /\ Wave(d) = Wave(c) /\ Earlier(d) = Earlier(c) /\ Bound(d) = Bound(c)
  BY <1>4, <1>5, ZenonT(40) DEF Wave, Earlier, Bound
<1>8. Running(d)
  BY <1>4, <1>5, <1>7, Zenon DEF Open, Running
<1>9. d.ctl = NoControl => Uncontrolled(d)
  <2>1. Counted(d, "deny") = Counted(c, "deny")
    BY <1>5, CountedSame, Zenon
  <2> QED BY <1>5, <1>7, <2>1, Zenon DEF Open, Uncontrolled
<1>10. Open(d)
  <2>1. /\ d.placing = "none" /\ d.due # NIL
        /\ d.got \subseteq Wave(d).all /\ d.denied \subseteq d.got
        /\ d.awaited \subseteq Wave(d).all /\ Wave(d).all \subseteq d.got \cup d.awaited
    BY <1>4, <1>5, <1>7, Zenon DEF Open
  <2>2. /\ \A i \in Wave(d).all \ d.got : d.replies[i] = NoReply
        /\ \A i \in d.got : d.replies[i].state # "none"
        /\ \A i \in d.denied :
             d.replies[i].received /\ d.replies[i].verdict \in {"deny", "redirect"}
    BY <1>5, <1>7, ZenonT(40) DEF Open
  <2>3. d.fail = "none" =>
          \A i \in Bound(d) : i \in Wave(d).all \ d.got \/ d.replies[i].received
    BY <1>5, <1>7, Zenon DEF Open
  <2> QED BY <1>8, <1>9, <2>1, <2>2, <2>3, Zenon DEF Open
<1> QED BY <1>4, <1>5, <1>6, <1>10, Zenon DEF wave_closed

(* The timer is armed for the earliest deadline that is still ahead. *)
LEMMA DeadlineArm ==
    ASSUME route \in DOMAIN Routes, now \in Nat, NEW c, Typed(c), Open(c),
           NEW d, d = deadline_arm(c)
    PROVE  /\ Same(c, d, {"timer"}) /\ d.timer \in Nat /\ now <= d.timer
           /\ d.timer <= c.due \/ d.timer = now
<1>1. PICK T : T = {c.due} \cup {c.published + Timeout[i] :
                                   i \in {j \in c.awaited \ c.got : Timeout[j] # 0}}
  BY Zenon
<1>2. T \subseteq Nat /\ c.due \in T /\ c.due \in Nat
  <2>1. c.due \in Nat /\ c.published \in Nat /\ c.awaited \subseteq Inspectors
    BY WaveFacts, Zenon DEF Typed, Open
  <2> QED BY <1>1, <2>1, RouteFacts
<1>3. Min(T) \in Nat /\ Min(T) <= c.due
  BY <1>2, MinNat, Zenon
<1>4. PICK x : x = Max({Min(T), now})
  BY Zenon
<1>5. x \in Nat /\ now <= x /\ (x <= c.due \/ x = now)
  <2>1. x \in Nat /\ x = IF Min(T) <= now THEN now ELSE Min(T)
    BY <1>3, <1>4, MaxNat
  <2> QED BY <1>2, <1>3, <2>1
<1>6. d = [c EXCEPT !.timer = x]
  BY <1>1, <1>4, Zenon DEF deadline_arm
<1>7. Same(c, d, {"timer"}) /\ d.timer = x
  BY <1>6, ZenonT(40) DEF Typed, Same, CtxFields
<1> QED BY <1>5, <1>7

-----------------------------------------------------------------------------
(* A wave starts. *)

BeforeFields ==
    {"state", "placing", "meta_settled", "locator", "body_policy", "body_ready", "rid", "rids",
     "timer"}

(* What a phase needs before a wave is neither the store's nor the slot's. *)
LEMMA BeforeSame ==
    ASSUME route \in DOMAIN Routes, NEW c, Typed(c), Before(c), NEW d, Same(c, d, BeforeFields),
           d.rid \in Nat, d.rids \in Nat, d.rid <= d.rids, d.timer \in Nat \cup {NIL}
    PROVE  /\ Typed(d) /\ d.replies = c.replies /\ d.ctl = c.ctl /\ d.fail = "none"
           /\ d.outcome = "none" /\ ~d.waiting /\ Wave(d) = Wave(c)
           /\ (d.ctl = NoControl => Counted(d, "deny") = {})
           /\ ( /\ d.state \in {"INIT", "NEXT_WAVE", "READING_BODY", "PLACING_META", "NEED_BODY"}
                /\ d.placing # "none" =>
                     d.state = "PLACING_META" \/ (d.state = "NEED_BODY" /\ d.body_ready) )
              => Before(d)
<1>1. {"wave", "waiting", "verdict", "published", "due", "first", "applied", "depth",
       "stale", "live", "finish_how", "outcome", "agent_after_body",
       "cond_off", "fail", "got", "denied", "replies", "order", "score", "ctl"}
         \subseteq CtxFields \ BeforeFields
  BY DEF CtxFields, BeforeFields
<1>2. /\ d.wave = c.wave /\ d.verdict = c.verdict
      /\ d.published = c.published /\ d.due = c.due /\ d.first = c.first
      /\ d.applied = c.applied /\ d.depth = c.depth /\ d.stale = c.stale
      /\ d.live = c.live /\ DOMAIN d = CtxFields
  BY <1>1, Zenon DEF Same
<1>3. /\ d.finish_how = c.finish_how /\ d.outcome = c.outcome
      /\ d.agent_after_body = c.agent_after_body /\ d.waiting = c.waiting
      /\ d.cond_off = c.cond_off /\ d.fail = c.fail
      /\ d.got = c.got /\ d.denied = c.denied /\ d.replies = c.replies
      /\ d.order = c.order /\ d.score = c.score /\ d.ctl = c.ctl
  BY <1>1, ZenonT(40) DEF Same
<1>4. Typed(d)
  <2>1. Chain(d)
    BY <1>2, ChainSame, Zenon
  <2>2. Order(d)
    BY <1>2, <1>3, Zenon DEF Typed, Order
  <2> QED BY <1>2, <1>3, <2>1, <2>2, Zenon DEF Typed
<1>5. /\ Wave(d) = Wave(c) /\ Earlier(d) = Earlier(c) /\ Bound(d) = Bound(c)
      /\ Counted(d, "deny") = Counted(c, "deny")
  BY <1>2, <1>3, ZenonT(40) DEF Wave, Earlier, Bound, Counted
<1>6. Running(d)
  <2>1. Running(c)
    BY Zenon DEF Before
  <2> QED BY <1>2, <1>3, <1>5, <2>1, Zenon DEF Running
<1>7. /\ c.outcome = "none" /\ ~c.waiting /\ c.fail = "none"
      /\ c.ctl = NoControl => Counted(c, "deny") = {}
  BY Zenon DEF Before, Running
<1> QED BY <1>3, <1>4, <1>5, <1>6, <1>7, Zenon DEF Before

PlaceFields == {"meta_settled", "placing", "body_policy", "locator"}

(* What placing an object of the wave may change. *)
PlacedFrom(c, p) ==
    /\ Same(c, p.c, PlaceFields) /\ p.rc \in {"ok", "again", "error", "read"}
    /\ p.rc # "again" => p.c.placing = c.placing

LEMMA PlacedRecord ==
    ASSUME NEW rc, NEW c
    PROVE  Placed(rc, c).rc = rc /\ Placed(rc, c).c = c
BY Zenon DEF Placed

LEMMA Unavail ==
    ASSUME NEW c, DOMAIN c = CtxFields, NEW policy
    PROVE  /\ Same(c, Unavailable(c, policy).c, {"body_policy"})
           /\ Unavailable(c, policy).rc \in {"ok", "error"}
<1>1. PICK b : b = [c EXCEPT !.body_policy = policy]
  BY Zenon
<1>2. Same(c, b, {"body_policy"})
  BY <1>1, Zenon DEF Same
<1>3. /\ Unavailable(c, policy).c = b
      /\ Unavailable(c, policy).rc = IF policy = "block" THEN "error" ELSE "ok"
  BY <1>1, PlacedRecord, ZenonT(40) DEF Unavailable
<1> QED BY <1>2, <1>3

LEMMA BodyPlace ==
    ASSUME NEW c, DOMAIN c = CtxFields, NEW p \in body_place(c)
    PROVE  PlacedFrom(c, p)
<1>1. PICK s : s = [c EXCEPT !.locator = "avail"]
  BY Zenon
<1>2. PICK u : u = [c EXCEPT !.locator = "unavail"]
  BY Zenon
<1>3. PICK b : b = [s EXCEPT !.placing = "body"]
  BY Zenon
<1>4. Same(c, s, {"locator"}) /\ Same(c, u, {"locator"})
  BY <1>1, <1>2, Zenon DEF Same
<1>5. Same(s, b, {"placing"})
  BY <1>3, <1>4, Zenon DEF Same
<1>6. \/ p = Placed("ok", c) \/ p = Placed("ok", s) \/ p = Placed("again", b)
      \/ \E policy : p = Unavailable(u, policy)
  BY <1>1, <1>2, <1>3, Zenon DEF body_place
<1>7. CASE p = Placed("ok", c)
  BY <1>7, PlacedRecord DEF PlacedFrom, Same
<1>8. CASE p = Placed("ok", s)
  <2>1. p.c = s /\ p.rc = "ok"
    BY <1>8, PlacedRecord
  <2> QED BY <1>4, <2>1, Zenon DEF PlacedFrom, Same, PlaceFields, CtxFields
<1>9. CASE p = Placed("again", b)
  <2>1. p.c = b /\ p.rc = "again"
    BY <1>9, PlacedRecord
  <2> QED BY <1>4, <1>5, <2>1, Zenon DEF PlacedFrom, Same, PlaceFields, CtxFields
<1>10. CASE \E policy : p = Unavailable(u, policy)
  <2>0. PICK policy : p = Unavailable(u, policy)
    BY <1>10, Zenon
  <2>2. DOMAIN u = CtxFields
    BY <1>4 DEF Same
  <2>3. /\ Same(u, Unavailable(u, policy).c, {"body_policy"})
        /\ Unavailable(u, policy).rc \in {"ok", "error"}
    BY <2>2, Unavail, Zenon
  <2>1. Same(u, p.c, {"body_policy"}) /\ p.rc \in {"ok", "error"}
    BY <2>0, <2>3, Zenon
  <2> QED BY <1>4, <2>1, Zenon DEF PlacedFrom, Same, PlaceFields, CtxFields
<1> QED BY <1>6, <1>7, <1>8, <1>9, <1>10

LEMMA MetaPlace ==
    ASSUME NEW c, DOMAIN c = CtxFields, NEW p \in meta_place(c)
    PROVE  PlacedFrom(c, p)
<1>1. PICK s : s = [c EXCEPT !.meta_settled = TRUE]
  BY Zenon
<1>2. PICK b : b = [s EXCEPT !.placing = "meta"]
  BY Zenon
<1>3. Same(c, s, {"meta_settled"})
  BY <1>1, Zenon DEF Same
<1>4. Same(s, b, {"placing"})
  BY <1>2, <1>3, Zenon DEF Same
<1>5. \/ p = Placed("ok", s) \/ p = Placed("again", b)
      \/ \E policy : p = Unavailable(s, policy)
  BY <1>1, <1>2, ZenonT(40) DEF meta_place
<1>6. CASE p = Placed("ok", s)
  <2>1. p.c = s /\ p.rc = "ok"
    BY <1>6, PlacedRecord
  <2> QED BY <1>3, <2>1, Zenon DEF PlacedFrom, Same, PlaceFields, CtxFields
<1>7. CASE p = Placed("again", b)
  <2>1. p.c = b /\ p.rc = "again"
    BY <1>7, PlacedRecord
  <2> QED BY <1>3, <1>4, <2>1, Zenon DEF PlacedFrom, Same, PlaceFields, CtxFields
<1>8. CASE \E policy : p = Unavailable(s, policy)
  <2>0. PICK policy : p = Unavailable(s, policy)
    BY <1>8, Zenon
  <2>2. DOMAIN s = CtxFields
    BY <1>3 DEF Same
  <2>3. /\ Same(s, Unavailable(s, policy).c, {"body_policy"})
        /\ Unavailable(s, policy).rc \in {"ok", "error"}
    BY <2>2, Unavail, Zenon
  <2>1. Same(s, p.c, {"body_policy"}) /\ p.rc \in {"ok", "error"}
    BY <2>0, <2>3, Zenon
  <2> QED BY <1>3, <2>1, Zenon DEF PlacedFrom, Same, PlaceFields, CtxFields
<1> QED BY <1>5, <1>6, <1>7, <1>8

LEMMA WavePlace ==
    ASSUME NEW c, DOMAIN c = CtxFields, NEW p \in wave_place(c)
    PROVE  PlacedFrom(c, p)
<1>1. PICK metas : metas = IF Wave(c).meta /\ ~c.meta_settled THEN meta_place(c)
                           ELSE {Placed("ok", c)}
  BY Zenon
<1>2. PICK m \in metas : \/ p = m
                         \/ m.rc = "ok" /\ (p = Placed("read", m.c) \/ p \in body_place(m.c))
  BY <1>1, Zenon DEF wave_place
<1>3. PlacedFrom(c, m)
  <2>1. CASE m \in meta_place(c)
    BY <2>1, MetaPlace
  <2>2. CASE m = Placed("ok", c)
    BY <2>2, PlacedRecord DEF PlacedFrom, Same
  <2> QED BY <1>1, <2>1, <2>2
<1>4. CASE p = m
  BY <1>3, <1>4
<1>5. CASE m.rc = "ok" /\ p = Placed("read", m.c)
  <2>1. p.c = m.c /\ p.rc = "read"
    BY <1>5, PlacedRecord
  <2> QED BY <1>3, <1>5, <2>1, Zenon DEF PlacedFrom
<1>6. CASE m.rc = "ok" /\ p \in body_place(m.c)
  <2>1. PlacedFrom(m.c, p)
    BY <1>3, <1>6, BodyPlace, Zenon DEF PlacedFrom, Same
  <2> QED BY <1>3, <1>6, <2>1, Zenon DEF PlacedFrom, Same
<1> QED BY <1>2, <1>4, <1>5, <1>6

(* A new acquisition has a number of its own. *)
LEMMA EnsureSlot ==
    ASSUME NEW c, Typed(c), NEW d, d = ensure_slot(c)
    PROVE  /\ Same(c, d, {"rid", "rids"}) /\ d.rid \in Nat \ {0} /\ d.rids \in Nat
           /\ d.rid <= d.rids
           /\ \/ d.rid = c.rid /\ d.rids = c.rids
              \/ d.rid = c.rids + 1 /\ d.rids = c.rids + 1
<1>1. DOMAIN c = CtxFields /\ c.rid \in Nat /\ c.rids \in Nat /\ c.rid <= c.rids
  BY Zenon DEF Typed
<1>2. CASE c.rid # 0
  BY <1>1, <1>2 DEF ensure_slot, Same
<1>3. CASE c.rid = 0
  <2>1. PICK n : n = c.rids + 1
    BY Zenon
  <2>2. d = [c EXCEPT !.rid = n, !.rids = n]
    BY <1>3, <2>1, Zenon DEF ensure_slot
  <2>3. Same(c, d, {"rid", "rids"}) /\ d.rid = n /\ d.rids = n
    BY <1>1, <2>2, ZenonT(40) DEF Same, CtxFields
  <2> QED BY <1>1, <2>1, <2>3
<1> QED BY <1>2, <1>3

StampFields == {"due", "first", "published", "got", "awaited", "replies"}

(* A published wave waits, unless nobody is left to answer. *)
LEMMA StartSteps ==
    ASSUME route \in DOMAIN Routes, now \in Nat, NEW c, Typed(c), Open(c),
           c.published = now, c.got = {} => c.fail = "none", NEW d \in wave_start_done(c)
    PROVE  \/ /\ Typed(d) /\ Waiting(d) /\ Kept(c, d) /\ Clock(d, now)
              /\ d.rid = c.rid /\ d.rids = c.rids
           \/ Advanced(c, d)
<1>1. CASE wave_closed(c)
  <2>1. PICK s : s = rewrite_settle(c)
    BY Zenon
  <2>2. d \in IF wave_advances(s) THEN {next_wave(s)} ELSE conclude(s)
    BY <1>1, <2>1, ZenonT(40) DEF wave_start_done
  <2> QED BY <1>1, <2>1, <2>2, WaveCloses, Zenon
<1>2. CASE ~wave_closed(c)
  <2>1. PICK a : a = deadline_arm(c)
    BY Zenon
  <2>2. d = [a EXCEPT !.state = "WAITING", !.waiting = TRUE]
    BY <1>2, <2>1, ZenonT(40) DEF wave_start_done
  <2>3. /\ Same(c, a, {"timer"}) /\ a.timer \in Nat /\ now <= a.timer
        /\ a.timer <= c.due \/ a.timer = now
    BY <2>1, DeadlineArm, Zenon
  <2>4. DOMAIN a = CtxFields
    BY <2>3 DEF Same
  <2>5. Same(a, d, {"state", "waiting"}) /\ d.state = "WAITING" /\ d.waiting
    BY <2>2, <2>4, ZenonT(40) DEF Same, CtxFields
  <2>6. Same(c, d, {"timer", "state", "waiting", "personal"}) /\ d.timer = a.timer
        /\ d.published = c.published
    BY <2>3, <2>5 DEF Same, CtxFields
  <2>7. /\ Typed(d) /\ Open(d) /\ d.rids = c.rids /\ d.rid = c.rid /\ d.got = c.got
        /\ d.replies = c.replies /\ d.fail = c.fail /\ d.due = c.due
        /\ wave_closed(d) <=> wave_closed(c)
    BY <2>3, <2>6, OpenSame, Zenon
  <2>8. Lag \in Nat
    BY WaveAssumption, Zenon
  <2>9. Clock(d, now)
    BY <2>3, <2>6, <2>7, <2>8 DEF Clock
  <2>10. Waiting(d) /\ Kept(c, d)
    BY <1>2, <2>5, <2>7 DEF Waiting, Kept
  <2> QED BY <2>7, <2>9, <2>10, Zenon
<1> QED BY <1>1, <1>2, Zenon

-----------------------------------------------------------------------------
(* The steps of the phase. *)

(* The replies with the one of the live version turned into the deny. *)
Denied(c) == [c.replies EXCEPT ![c.live].verdict = "deny"]

LEMMA ReplyDenied ==
    ASSUME NEW c, Typed(c)
    PROVE  /\ Denied(c) \in [Inspectors -> Reply]
           /\ \A i \in Inspectors : Denied(c)[i].state = c.replies[i].state
           /\ \A i \in Inspectors : \/ Denied(c)[i] = c.replies[i]
                                    \/ /\ i = c.live
                                       /\ Denied(c)[i] = [c.replies[i] EXCEPT !.verdict = "deny"]
<1>1. PICK e : e = [c.replies[c.live] EXCEPT !.verdict = "deny"]
  BY Zenon
<1>2. Denied(c) = [c.replies EXCEPT ![c.live] = e]
  BY <1>1, ZenonT(40) DEF Denied
<1>3. c.replies \in [Inspectors -> Reply]
  BY Zenon DEF Typed
<1>4. CASE c.live \in Inspectors
  <2>1. e \in Reply /\ e.state = c.replies[c.live].state
    BY <1>1, <1>3, <1>4 DEF Reply
  <2> QED BY <1>1, <1>2, <1>3, <1>4, <2>1, Zenon
<1>5. CASE c.live \notin Inspectors
  <2>1. Denied(c) = c.replies
    BY <1>2, <1>3, <1>5, Zenon
  <2> QED BY <1>3, <2>1
<1> QED BY <1>4, <1>5

(* The end of a phase that has been decided. *)
LEMMA FinishDoneOver ==
    ASSUME route \in DOMAIN Routes, NEW c, Typed(c), ~c.waiting, c.placing = "none",
           c.outcome = "none", c.finish_how \in Hows, Decided(c),
           NEW d \in finish_done(c)
    PROVE  /\ Typed(d) /\ Over(d) /\ Kept(c, d) /\ ~d.waiting
           /\ d.rid = c.rid /\ d.rids = c.rids /\ d.live = c.live
           /\ c.verdict # "allow" => d.replies = c.replies
<1>1. DOMAIN c = CtxFields /\ Closing(c, d)
  BY FinishDone, Zenon DEF Typed
<1>2. PICK F : F = {"state", "outcome", "form_fetched", "send_done", "verdict",
                    "decisive", "replies"}
  BY Zenon
<1>3. Same(c, d, F)
  BY <1>1, <1>2, ZenonT(40) DEF Closing
<1>4. {"wave", "rids", "rid", "timer", "published", "due", "first", "applied", "depth",
       "stale", "live", "waiting", "placing", "ctl", "fail", "score", "cond_off",
       "body_policy", "order", "finish_how"} \subseteq CtxFields \ F
  BY <1>2 DEF CtxFields
<1>5. /\ d.wave = c.wave /\ d.rids = c.rids /\ d.published = c.published
      /\ d.due = c.due /\ d.first = c.first /\ d.applied = c.applied
      /\ d.depth = c.depth /\ d.stale = c.stale /\ d.live = c.live
      /\ d.waiting = c.waiting /\ d.placing = c.placing /\ d.ctl = c.ctl
  BY <1>3, <1>4, Zenon DEF Same
<1>6. /\ d.fail = c.fail /\ d.score = c.score /\ d.cond_off = c.cond_off
      /\ d.body_policy = c.body_policy /\ d.order = c.order /\ DOMAIN d = CtxFields
      /\ d.finish_how = c.finish_how /\ d.rid = c.rid /\ d.timer = c.timer
  BY <1>3, <1>4, ZenonT(40) DEF Same
<1>7. /\ \/ d.verdict = c.verdict /\ d.replies = c.replies
         \/ SendFailed(c, d) /\ c.finish_how = "APPLY"
      /\ Applying(c, c.finish_how, d)
  BY <1>1, Zenon DEF Closing
<1>8. /\ d.replies \in [Inspectors -> Reply]
      /\ \A i \in Inspectors : d.replies[i].state = c.replies[i].state
      /\ Kept(c, d)
  <2>1. c.replies \in [Inspectors -> Reply]
    BY Zenon DEF Typed
  <2>2. CASE d.replies = c.replies
    BY <2>1, <2>2, ZenonT(40) DEF Kept
  <2>3. CASE SendFailed(c, d)
    <3>1. d.replies = Denied(c)
      BY <2>3, Zenon DEF SendFailed, Denied
    <3>2. /\ d.replies \in [Inspectors -> Reply]
          /\ \A i \in Inspectors : d.replies[i].state = c.replies[i].state
          /\ \A i \in Inspectors :
               \/ d.replies[i] = c.replies[i]
               \/ i = c.live /\ d.replies[i] = [c.replies[i] EXCEPT !.verdict = "deny"]
      BY <3>1, ReplyDenied
    <3>3. Kept(c, d)
      BY <1>5, <3>2, ZenonT(40) DEF Kept
    <3> QED BY <3>2, <3>3
  <2> QED BY <1>7, <2>2, <2>3, Zenon
<1>9. Typed(d)
  <2>1. Order(d)
    <3>1. \A v \in 1 .. c.wave - 1 : \A i \in Waves[v].all : i \in Inspectors
      <4>1. PICK G : G = {}
        BY Zenon
      <4>2. G \subseteq Wave(c).all
        BY <4>1, Zenon
      <4> QED BY <4>2, OtherWaves, Zenon
    <3> QED BY <1>5, <1>8, <3>1, Zenon DEF Typed, Order
  <2>2. Chain(d)
    BY <1>5, ChainSame, Zenon
  <2>3. d.verdict \in {"allow", "redirect", "deny"}
    BY <1>7 DEF Typed, SendFailed
  <2> QED BY <1>5, <1>6, <1>8, <2>1, <2>2, <2>3, Zenon DEF Typed
<1>10. Decided(d)
  <2>1. CASE d.verdict = c.verdict /\ d.replies = c.replies
    <3>1. Counted(d, "deny") = Counted(c, "deny")
      BY <2>1, CountedSame
    <3>2. Justified(d) <=> Justified(c)
      BY <1>5, <1>6, <2>1, JustifiedSame, Zenon
    <3> QED BY <1>5, <1>6, <2>1, <3>1, <3>2, Zenon DEF Decided
  <2>2. CASE SendFailed(c, d) /\ c.finish_how = "APPLY"
    BY <1>6, <2>2 DEF Decided, SendFailed
  <2> QED BY <1>7, <2>1, <2>2
<1>11. Outcome(d)
  BY <1>6, <1>7, <1>9 DEF Applying, Outcome, Hows, Typed, SendFailed
<1>12. Over(d)
  BY <1>5, <1>6, <1>7, <1>10, <1>11, Zenon DEF Over, Applying, Hows
<1> QED BY <1>5, <1>6, <1>7, <1>8, <1>9, <1>12 DEF SendFailed
=============================================================================
