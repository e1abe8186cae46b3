-------------------------- MODULE WavePhaseProofs --------------------------
(***************************************************************************)
(* The invariants of WavePhase, for any routes, any number of waves and    *)
(* inspectors, any payloads and any clock lag.                             *)
(*                                                                         *)
(* The inductive invariant IInv follows the life of the phase: the context *)
(* is Before the questions of its wave, Waiting for the answers, or Over.  *)
(* One lemma per action, named after it, shows that the action leaves a    *)
(* context of one of these kinds; the lemmas about the callbacks are in    *)
(* WavePhaseLemmas and WaveAnswerLemmas.                                   *)
(***************************************************************************)
EXTENDS WaveAnswerLemmas

-----------------------------------------------------------------------------
(* The actions. *)

(* What one step has to establish of the context d it leaves, of the       *)
(* questions q and of the time t.                                          *)
Good(c, d, q, t) ==
    /\ Typed(d) /\ Stage(d) /\ Kept(c, d) /\ Asked(d, q)
    /\ d.waiting => Clock(d, t)

(* Questions of an earlier acquisition find no slot. *)
LEMMA AskedFree ==
    ASSUME NEW c, NEW q, Asked(c, q), NEW d, d.rids = c.rids, d.rid = 0
    PROVE  Asked(d, q)
BY DEF Asked

LEMMA AskedHeld ==
    ASSUME NEW c, NEW q, Asked(c, q), NEW d, d.rids = c.rids, d.rid = c.rid,
           d.waiting = c.waiting
    PROVE  Asked(d, q)
BY DEF Asked

LEMMA EndedGood ==
    ASSUME NEW c, NEW q, Asked(c, q), NEW d, Ended(c, d), NEW t
    PROVE  Good(c, d, q, t)
BY AskedFree DEF Ended, Good, Stage

LEMMA AdvancedGood ==
    ASSUME NEW c, NEW q, Asked(c, q), NEW d, Advanced(c, d), NEW t
    PROVE  Good(c, d, q, t)
BY AskedFree DEF Advanced, Good, Stage

(* A step that stays in a wave whose questions are out. *)
LEMMA WaitingGood ==
    ASSUME NEW c, NEW q, Asked(c, q), Waiting(c), NEW t, Clock(c, t), NEW d, Typed(d), Open(d),
           ~wave_closed(d), d.got = {} => d.fail = "none", Kept(c, d),
           d.rids = c.rids, d.rid = c.rid, d.waiting = c.waiting, d.state = c.state,
           d.timer = c.timer, d.due = c.due, d.published = c.published
    PROVE  Good(c, d, q, t)
BY AskedHeld, Zenon DEF Good, Stage, Waiting, Clock

(* A step that stays before the questions of the wave. *)
LEMMA BeforeGood ==
    ASSUME route \in DOMAIN Routes, NEW c, Typed(c), Before(c), NEW q, Asked(c, q), NEW t,
           NEW d, Same(c, d, BeforeFields), d.timer \in Nat \cup {NIL},
           \/ d.rid = c.rid /\ d.rids = c.rids
           \/ d.rid = c.rids + 1 /\ d.rids = c.rids + 1,
           d.state \in {"INIT", "NEXT_WAVE", "READING_BODY", "PLACING_META", "NEED_BODY"},
           d.placing # "none" =>
             d.state = "PLACING_META" \/ (d.state = "NEED_BODY" /\ d.body_ready)
    PROVE  Good(c, d, q, t)
<1>1. c.rid \in Nat /\ c.rids \in Nat /\ c.rid <= c.rids /\ ~c.waiting
  BY DEF Typed, Before
<1>2. d.rid \in Nat /\ d.rids \in Nat /\ d.rid <= d.rids
  BY <1>1
<1>3. Typed(d) /\ Before(d) /\ d.replies = c.replies /\ ~d.waiting
  BY <1>2, BeforeSame
<1>4. Asked(d, q)
  BY <1>1 DEF Asked
<1> QED BY <1>3, <1>4 DEF Good, Stage, Kept

LEMMA AccessGood ==
    ASSUME IInv, access
    PROVE  Good(ctx, ctx', asked', now')
<1>1. PICK d : d = ctx'
  BY Zenon
<1>2. route \in DOMAIN Routes /\ Typed(ctx) /\ Asked(ctx, asked) /\ Before(ctx)
  BY DEF IInv, access, Stage, Waiting, Over
<1>3. SUFFICES Good(ctx, d, asked, now)
  BY <1>1 DEF access
<1>4. ctx.placing = "none" /\ ~ctx.waiting /\ ctx.outcome = "none"
  BY <1>2 DEF access, Before, Running
<1>5. CASE d \in finish(ctx, "OVERRIDES")
  <2>1. DecidedAs(ctx, "OVERRIDES") /\ "OVERRIDES" \in Hows
    BY <1>2 DEF DecidedAs, Before, Hows
  <2>2. Ended(ctx, d)
    BY <1>2, <1>4, <1>5, <2>1, FinishEnds
  <2> QED BY <1>2, <2>2, EndedGood
<1>6. CASE d = [ctx EXCEPT !.state = "NEXT_WAVE"]
  <2>1. DOMAIN ctx = CtxFields
    BY <1>2 DEF Typed
  <2>2. Same(ctx, d, {"state"}) /\ d.state = "NEXT_WAVE"
    BY <1>6, <2>1, Zenon DEF Same, CtxFields
  <2>3. /\ Same(ctx, d, BeforeFields) /\ d.timer = ctx.timer /\ d.rid = ctx.rid
        /\ d.rids = ctx.rids /\ d.placing = ctx.placing
    BY <2>2 DEF Same, BeforeFields, CtxFields
  <2>4. ctx.timer \in Nat \cup {NIL}
    BY <1>2 DEF Typed
  <2> QED BY <1>2, <1>4, <2>2, <2>3, <2>4, BeforeGood
<1>7. d \in finish(ctx, "OVERRIDES") \/ d = [ctx EXCEPT !.state = "NEXT_WAVE"]
  BY <1>1 DEF access
<1> QED BY <1>5, <1>6, <1>7

LEMMA WaveReadsGood ==
    ASSUME IInv, WaveReads
    PROVE  Good(ctx, ctx', asked', now')
<1>1. PICK d : d = ctx'
  BY Zenon
<1>2. route \in DOMAIN Routes /\ Typed(ctx) /\ Asked(ctx, asked) /\ Before(ctx)
  BY DEF IInv, WaveReads, Stage, Waiting, Over
<1>3. SUFFICES Good(ctx, d, asked, now)
  BY <1>1 DEF WaveReads
<1>4. ctx.placing = "none" /\ ctx.timer \in Nat \cup {NIL}
  BY <1>2 DEF WaveReads, Before, Typed
<1>5. DOMAIN ctx = CtxFields /\ d = [ctx EXCEPT !.state = "READING_BODY"]
  BY <1>1, <1>2 DEF Typed, WaveReads
<1>6. Same(ctx, d, {"state"}) /\ d.state = "READING_BODY"
  BY <1>5, Zenon DEF Same, CtxFields
<1>7. /\ Same(ctx, d, BeforeFields) /\ d.timer = ctx.timer /\ d.rid = ctx.rid
      /\ d.rids = ctx.rids /\ d.placing = ctx.placing
  BY <1>6 DEF Same, BeforeFields, CtxFields
<1> QED BY <1>2, <1>4, <1>6, <1>7, BeforeGood

(* The wave is given up before its questions are out, the slot given back  *)
(* or not.                                                                 *)
LEMMA GiveUp ==
    ASSUME route \in DOMAIN Routes, NEW c, Typed(c), ~c.waiting, c.placing = "none",
           c.outcome = "none", c.ctl = NoControl => Counted(c, "deny") = {}, NEW cause, cause # "none", NEW f,
           f = Fail(c, cause) \/ f = Fail(slot_release(c), cause),
           NEW d \in fail_policy(f)
    PROVE  Ended(c, d)
<1>1. PICK r : f = Fail(r, cause) /\ (r = c \/ r = slot_release(c))
  BY Zenon
<1>2. DOMAIN c = CtxFields
  BY DEF Typed
<1>3. /\ Same(c, r, {"rid", "got", "denied", "awaited"}) /\ r.rid \in {0, c.rid}
  BY <1>1, <1>2, SlotRelease DEF Same
<1>4. Same(r, f, {"fail"}) /\ f.fail = cause
  BY <1>1, <1>3, ZenonT(40) DEF Fail, Same, CtxFields
<1>5. PICK F : F = {"rid", "got", "denied", "awaited", "fail"}
  BY Zenon
<1>6. Same(c, f, F) /\ f.rid = r.rid
  BY <1>3, <1>4, <1>5 DEF Same, CtxFields
<1>7. {"wave", "rids", "timer", "published", "due", "first", "applied", "depth",
       "stale", "live", "waiting", "placing", "ctl", "score",
       "order", "outcome", "verdict", "replies"} \subseteq CtxFields \ F
  BY <1>5 DEF CtxFields
<1>8. /\ f.wave = c.wave /\ f.rids = c.rids /\ f.published = c.published
      /\ f.due = c.due /\ f.first = c.first /\ f.applied = c.applied
      /\ f.depth = c.depth /\ f.stale = c.stale /\ f.live = c.live
      /\ f.waiting = c.waiting /\ f.placing = c.placing /\ f.ctl = c.ctl
  BY <1>6, <1>7, Zenon DEF Same
<1>9. /\ f.order = c.order /\ f.score = c.score /\ f.outcome = c.outcome
      /\ f.verdict = c.verdict /\ f.replies = c.replies /\ f.timer = c.timer
      /\ DOMAIN f = CtxFields
  BY <1>6, <1>7, Zenon DEF Same
<1>10. Typed(f)
  <2>1. f.rid \in {0, c.rid} /\ f.timer \in {NIL, c.timer}
        /\ f.verdict \in {"allow", "redirect", "deny"}
    BY <1>3, <1>6, <1>9 DEF Typed
  <2> QED BY <1>8, <1>9, <2>1, TypedSame
<1>11. f.ctl = NoControl => Counted(f, "deny") = {}
  BY <1>8, <1>9, CountedSame
<1>12. ~f.waiting /\ f.placing = "none" /\ f.outcome = "none" /\ f.fail # "none"
  BY <1>4, <1>8, <1>9
<1>13. Ended(f, d)
  BY <1>10, <1>11, <1>12, FailPolicyEnds
<1> QED BY <1>8, <1>9, <1>13 DEF Ended, Kept

LEMMA WaveNoSlotGood ==
    ASSUME IInv, WaveNoSlot
    PROVE  Good(ctx, ctx', asked', now')
<1>1. PICK d : d = ctx'
  BY Zenon
<1>2. route \in DOMAIN Routes /\ Typed(ctx) /\ Asked(ctx, asked) /\ Before(ctx)
  BY DEF IInv, WaveNoSlot, Stage, Waiting, Over
<1>3. SUFFICES Good(ctx, d, asked, now)
  BY <1>1 DEF WaveNoSlot
<1>4. /\ ctx.placing = "none"
      /\ ~ctx.waiting /\ ctx.outcome = "none"
      /\ ctx.ctl = NoControl => Counted(ctx, "deny") = {}
  BY <1>2 DEF WaveNoSlot, Before, Running
<1>5. PICK f : f = Fail(ctx, "bus")
  BY Zenon
<1>6. d \in fail_policy(f)
  BY <1>1, <1>5, Zenon DEF WaveNoSlot
<1>7. Ended(ctx, d)
  BY <1>2, <1>4, <1>5, <1>6, GiveUp
<1> QED BY <1>2, <1>7, EndedGood

(* The objects of the wave are placed under the slot the wave has got. *)
LEMMA PlacedStart ==
    ASSUME IInv, ctx.state = "NEXT_WAVE", NEW p \in wave_place(ensure_slot(ctx))
    PROVE  /\ route \in DOMAIN Routes /\ now \in Nat
           /\ Before(ctx) /\ Same(ctx, p.c, BeforeFields) /\ p.c.replies = ctx.replies
           /\ p.c.state = "NEXT_WAVE" /\ p.c.timer = ctx.timer
           /\ p.rc \in {"ok", "again", "error", "read"}
           /\ \/ p.c.rid = ctx.rid /\ p.c.rids = ctx.rids
              \/ p.c.rid = ctx.rids + 1 /\ p.c.rids = ctx.rids + 1
           /\ p.c.rid # 0
           /\ p.rc # "again" =>
                /\ Typed(p.c) /\ Before(p.c) /\ p.c.placing = "none"
                /\ Asked(p.c, asked)
<1>1. /\ route \in DOMAIN Routes /\ now \in Nat /\ Typed(ctx) /\ Asked(ctx, asked)
      /\ Before(ctx)
  BY DEF IInv, Stage, Waiting, Over
<1>2. PICK e : e = ensure_slot(ctx)
  BY Zenon
<1>3. /\ Same(ctx, e, {"rid", "rids"}) /\ e.rid \in Nat \ {0} /\ e.rids \in Nat
      /\ e.rid <= e.rids
      /\ \/ e.rid = ctx.rid /\ e.rids = ctx.rids
         \/ e.rid = ctx.rids + 1 /\ e.rids = ctx.rids + 1
  BY <1>1, <1>2, EnsureSlot
<1>4. PlacedFrom(e, p)
  BY <1>2, <1>3, WavePlace DEF Same
<1>5. PICK c : c = p.c
  BY Zenon
<1>6. /\ Same(e, c, PlaceFields) /\ p.rc \in {"ok", "again", "error", "read"}
      /\ p.rc # "again" => c.placing = e.placing
  BY <1>4, <1>5 DEF PlacedFrom
<1>7. /\ c.rid = e.rid /\ c.rids = e.rids /\ e.placing = ctx.placing
      /\ c.state = ctx.state /\ c.timer = ctx.timer /\ c.replies = ctx.replies
  BY <1>3, <1>6 DEF Same, PlaceFields, CtxFields
<1>8. Same(ctx, c, BeforeFields)
  BY <1>3, <1>6 DEF Same, PlaceFields, BeforeFields
<1>9. ctx.placing = "none" /\ ctx.timer \in Nat \cup {NIL}
  BY <1>1, Zenon DEF Before, Typed
<1>10. ASSUME p.rc # "again"
       PROVE  Typed(c) /\ Before(c) /\ c.placing = "none" /\ Asked(c, asked)
  <2>1. c.placing = "none"
    BY <1>6, <1>7, <1>9, <1>10
  <2>2. Typed(c) /\ Before(c)
    BY <1>1, <1>3, <1>7, <1>8, <1>9, <2>1, BeforeSame
  <2>3. Good(ctx, c, asked, now)
    BY <1>1, <1>3, <1>7, <1>8, <1>9, <2>1, BeforeGood
  <2> QED BY <2>1, <2>2, <2>3 DEF Good
<1> QED BY <1>1, <1>3, <1>5, <1>6, <1>7, <1>8, <1>10

LEMMA WaitsGood ==
    ASSUME IInv, WaveWaitsForObjects
    PROVE  Good(ctx, ctx', asked', now')
<1>1. PICK d : d = ctx'
  BY Zenon
<1>2. SUFFICES Good(ctx, d, asked, now)
  BY <1>1 DEF WaveWaitsForObjects
<1>3. ctx.state = "NEXT_WAVE"
  BY DEF WaveWaitsForObjects
<1>4. PICK p \in wave_place(ensure_slot(ctx)) :
         \/ p.rc = "again" /\ d = [p.c EXCEPT !.state = "PLACING_META"]
         \/ p.rc = "read" /\ d = [p.c EXCEPT !.state = "NEED_BODY"]
         \/ p.rc = "error" /\ d \in fail_policy(Fail(slot_release(p.c), "body"))
  BY <1>1 DEF WaveWaitsForObjects
<1>5. PICK c : c = p.c
  BY Zenon
<1>6. /\ route \in DOMAIN Routes /\ Typed(ctx) /\ Asked(ctx, asked)
      /\ Before(ctx) /\ Same(ctx, c, BeforeFields) /\ c.replies = ctx.replies
      /\ c.timer = ctx.timer
      /\ \/ c.rid = ctx.rid /\ c.rids = ctx.rids
         \/ c.rid = ctx.rids + 1 /\ c.rids = ctx.rids + 1
      /\ p.rc # "again" =>
           /\ Typed(c) /\ Before(c) /\ c.placing = "none" /\ Asked(c, asked)
  BY <1>3, <1>5, PlacedStart DEF IInv
<1>7. DOMAIN c = CtxFields /\ ctx.timer \in Nat \cup {NIL}
  BY <1>6, Zenon DEF Same, Typed
<1>8. ASSUME NEW st \in {"PLACING_META", "NEED_BODY"}, d = [c EXCEPT !.state = st],
             st = "NEED_BODY" => c.placing = "none"
      PROVE  Good(ctx, d, asked, now)
  <2>1. Same(c, d, {"state"}) /\ d.state = st
    BY <1>7, <1>8, Zenon DEF Same, CtxFields
  <2>2. /\ Same(ctx, d, BeforeFields) /\ d.timer = c.timer /\ d.rid = c.rid
        /\ d.rids = c.rids /\ d.placing = c.placing
    BY <1>6, <2>1 DEF Same, BeforeFields, CtxFields
  <2> QED BY <1>6, <1>7, <1>8, <2>1, <2>2, BeforeGood, Zenon
<1>9. CASE p.rc = "error" /\ d \in fail_policy(Fail(slot_release(p.c), "body"))
  <2>1. PICK f : f = Fail(slot_release(c), "body")
    BY Zenon
  <2>2. d \in fail_policy(f)
    BY <1>5, <1>9, <2>1
  <2>3. /\ Typed(c) /\ c.placing = "none" /\ Asked(c, asked) /\ ~c.waiting
        /\ c.outcome = "none"
        /\ c.ctl = NoControl => Counted(c, "deny") = {}
    BY <1>6, <1>9, Zenon DEF Before, Running
  <2>4. Ended(c, d)
    BY <1>6, <2>1, <2>2, <2>3, GiveUp
  <2>5. Good(c, d, asked, now)
    BY <2>3, <2>4, EndedGood
  <2> QED BY <1>6, <2>5 DEF Good, Kept
<1> QED BY <1>4, <1>5, <1>6, <1>8, <1>9

(* Every question of the wave is out. *)
LEMMA PublishedGood ==
    ASSUME IInv, WavePublished
    PROVE  Good(ctx, ctx', asked', now')
<1>1. PICK d : d = ctx'
  BY Zenon
<1>2. ctx.state = "NEXT_WAVE" /\ now' = now
  BY DEF WavePublished
<1>3. PICK p \in wave_place(ensure_slot(ctx)) :
         /\ p.rc = "ok"
         /\ \E open \in SUBSET (Wave(Stamped(p.c)).all \ Stamped(p.c).got) :
              /\ ctx' \in wave_start_done(publish_wave(Stamped(p.c), open,
                             (Wave(Stamped(p.c)).all \ Stamped(p.c).got) \ open))
              /\ asked' = asked \cup {<<i, Stamped(p.c).rid>> :
                             i \in (Wave(Stamped(p.c)).all \ Stamped(p.c).got) \ open}
  BY Zenon DEF WavePublished
<1> DEFINE c == p.c
           o == Stamped(c)
<1>6. PICK open, sent, q :
         /\ open \subseteq Wave(o).all \ o.got
         /\ d \in wave_start_done(publish_wave(o, open, sent))
         /\ asked' = q /\ q = asked \cup {<<i, o.rid>> : i \in sent}
  <2>1. PICK open \in SUBSET (Wave(o).all \ o.got) :
              /\ ctx' \in wave_start_done(publish_wave(o, open, (Wave(o).all \ o.got) \ open))
              /\ asked' = asked \cup {<<i, o.rid>> : i \in (Wave(o).all \ o.got) \ open}
    BY <1>3, Zenon
  <2>2. PICK sent : sent = (Wave(o).all \ o.got) \ open
    BY Zenon
  <2> QED BY <1>1, <2>1, <2>2, Zenon
<1>7. PICK s : s = publish_wave(o, open, sent)
  BY Zenon
<1>8. /\ route \in DOMAIN Routes /\ now \in Nat
      /\ Typed(c) /\ Before(c) /\ c.placing = "none" /\ Asked(c, asked)
      /\ c.replies = ctx.replies /\ c.rid # 0
  BY <1>2, <1>3, PlacedStart, Zenon
<1>9. /\ Typed(o) /\ Open(o) /\ o.fail = "none"
      /\ o.rid = c.rid /\ o.rids = c.rids /\ o.published = now
      /\ \A i \in Inspectors : c.replies[i].received => o.replies[i] = c.replies[i]
  BY <1>8, StampedOpen
<1>10. /\ Typed(s) /\ Open(s) /\ (s.got = {} => s.fail = "none")
       /\ Same(o, s, {"got", "replies", "fail", "personal", "cont"})
       /\ \A i \in Inspectors : o.replies[i].received => s.replies[i] = o.replies[i]
  <2>1. PICK oo : oo = o
    BY Zenon
  <2>2. Typed(oo) /\ Open(oo) /\ oo.fail = "none"
    BY <1>9, <2>1, Zenon
  <2>3. open \subseteq Wave(oo).all \ oo.got /\ s = publish_wave(oo, open, sent)
    BY <1>6, <1>7, <2>1, Zenon
  <2>4. /\ Typed(s) /\ Open(s) /\ (s.got = {} => s.fail = "none")
        /\ Same(oo, s, {"got", "replies", "fail", "personal", "cont"})
        /\ \A i \in Inspectors : oo.replies[i].received => s.replies[i] = oo.replies[i]
    BY <1>8, <2>2, <2>3, PublishWave
  <2> QED BY <2>1, <2>4, Zenon
<1>11. s.published = now /\ s.rid = c.rid /\ s.rids = c.rids
  BY <1>9, <1>10, Zenon DEF Same, CtxFields
<1>12. \A i \in Inspectors : ctx.replies[i].received => s.replies[i] = ctx.replies[i]
  BY <1>8, <1>9, <1>10, Zenon
<1>13. \/ /\ Typed(d) /\ Waiting(d) /\ Kept(s, d) /\ Clock(d, now)
          /\ d.rid = s.rid /\ d.rids = s.rids
       \/ Advanced(s, d)
  <2>1. d \in wave_start_done(s)
    BY <1>6, <1>7
  <2> QED BY <1>8, <1>10, <1>11, <2>1, StartSteps, Zenon
<1>14. c.rid \in 1 .. c.rids
  BY <1>8 DEF Typed
<1>15. Kept(s, d) => Kept(ctx, d)
  BY <1>12 DEF Kept
<1>16. \A x \in q : x \in asked \/ x[2] = c.rid
  BY <1>6, <1>9
<1>17. \A x \in q : x[2] \in 1 .. c.rids
  BY <1>8, <1>14, <1>16 DEF Asked
<1>18. Good(ctx, d, q, now)
  <2>1. CASE /\ Typed(d) /\ Waiting(d) /\ Kept(s, d) /\ Clock(d, now)
             /\ d.rid = s.rid /\ d.rids = s.rids
    <3>1. Asked(d, q)
      BY <1>11, <1>17, <2>1 DEF Asked, Waiting
    <3> QED BY <1>15, <2>1, <3>1, Zenon DEF Good, Stage
  <2>2. CASE Advanced(s, d)
    <3>1. Asked(d, q)
      BY <1>11, <1>17, <2>2 DEF Asked, Advanced
    <3> QED BY <1>15, <2>2, <3>1 DEF Good, Stage, Advanced
  <2> QED BY <1>13, <2>1, <2>2
<1> QED BY <1>1, <1>2, <1>6, <1>18, Zenon

(* One publish fails and the wave is given up. *)
LEMMA PublishFailsGood ==
    ASSUME IInv, WavePublishFails
    PROVE  Good(ctx, ctx', asked', now')
<1>1. PICK d : d = ctx'
  BY Zenon
<1>2. ctx.state = "NEXT_WAVE" /\ now' = now
  BY DEF WavePublishFails
<1>3. PICK p \in wave_place(ensure_slot(ctx)) :
         /\ p.rc = "ok"
         /\ LET c       == Stamped(p.c)
                pending == Wave(c).all \ c.got
            IN  \E k \in pending : \E open \in SUBSET {i \in pending : i < k} :
                  LET sent == {i \in pending : i < k} \ open
                  IN  /\ ctx' \in fail_policy(Fail(slot_release(
                                    publish_wave(c, open, sent)), "bus"))
                      /\ asked' = asked \cup {<<i, c.rid>> : i \in sent}
  BY Zenon DEF WavePublishFails
<1> DEFINE c == p.c
           w == Stamped(c)
<1>4. PICK o : o = w
  BY Zenon
<1>5. PICK open, sent, q :
         /\ open \subseteq Wave(w).all \ w.got
         /\ d \in fail_policy(Fail(slot_release(publish_wave(w, open, sent)), "bus"))
         /\ asked' = q /\ q = asked \cup {<<i, w.rid>> : i \in sent}
  <2>1. PICK k \in Wave(w).all \ w.got :
              \E open \in SUBSET {i \in Wave(w).all \ w.got : i < k} :
                  LET sent == {i \in Wave(w).all \ w.got : i < k} \ open
                  IN  /\ ctx' \in fail_policy(Fail(slot_release(
                                    publish_wave(w, open, sent)), "bus"))
                      /\ asked' = asked \cup {<<i, w.rid>> : i \in sent}
    BY <1>3, Zenon
  <2>2. PICK open \in SUBSET {i \in Wave(w).all \ w.got : i < k} :
                  LET sent == {i \in Wave(w).all \ w.got : i < k} \ open
                  IN  /\ ctx' \in fail_policy(Fail(slot_release(
                                    publish_wave(w, open, sent)), "bus"))
                      /\ asked' = asked \cup {<<i, w.rid>> : i \in sent}
    BY <2>1, Zenon
  <2>3. open \subseteq Wave(w).all \ w.got
    BY <2>2, Zenon
  <2>4. PICK sent : sent = {i \in Wave(w).all \ w.got : i < k} \ open
    BY Zenon
  <2> QED BY <1>1, <2>2, <2>3, <2>4, Zenon
<1>6. PICK s : s = publish_wave(o, open, sent)
  BY Zenon
<1>7. /\ route \in DOMAIN Routes /\ now \in Nat
      /\ Typed(c) /\ Before(c) /\ c.placing = "none" /\ Asked(c, asked)
      /\ c.replies = ctx.replies /\ c.rid # 0
  BY <1>2, <1>3, PlacedStart, Zenon
<1>8. /\ Typed(o) /\ Open(o) /\ o.fail = "none" /\ ~o.waiting /\ o.denied = {}
      /\ o.rid = c.rid /\ o.rids = c.rids
      /\ \A i \in Inspectors : c.replies[i].received => o.replies[i] = c.replies[i]
  BY <1>4, <1>7, StampedOpen
<1>9. open \subseteq Wave(o).all \ o.got
  BY <1>4, <1>5, Zenon
<1>10. /\ Typed(s) /\ Open(s)
       /\ Same(o, s, {"got", "replies", "fail", "personal", "cont"})
       /\ \A i \in Inspectors : o.replies[i].received => s.replies[i] = o.replies[i]
  BY <1>6, <1>7, <1>8, <1>9, PublishWave
<1>11. s.denied = {} /\ s.rid = c.rid /\ s.rids = c.rids /\ ~s.waiting
  BY <1>8, <1>10, Zenon DEF Same, CtxFields
<1>12. /\ s.placing = "none" /\ s.outcome = "none"
       /\ s.ctl = NoControl => Counted(s, "deny") = {}
  BY <1>10, <1>11, Zenon DEF Open, Running, Uncontrolled
<1>13. Ended(s, d)
  <2>1. PICK f : f = Fail(slot_release(s), "bus")
    BY Zenon
  <2>2. d \in fail_policy(f)
    BY <1>4, <1>5, <1>6, <2>1, Zenon
  <2> QED BY <1>7, <1>10, <1>11, <1>12, <2>1, <2>2, GiveUp, Zenon
<1>14. \A i \in Inspectors : ctx.replies[i].received => s.replies[i] = ctx.replies[i]
  BY <1>7, <1>8, <1>10
<1>15. c.rid \in 1 .. c.rids
  BY <1>7 DEF Typed
<1>16. \A x \in q : x \in asked \/ x[2] = c.rid
  BY <1>4, <1>5, <1>8
<1>17. \A x \in q : x[2] \in 1 .. c.rids
  BY <1>7, <1>15, <1>16 DEF Asked
<1>18. Asked(d, q)
  BY <1>11, <1>13, <1>17 DEF Asked, Ended
<1>19. Kept(ctx, d)
  BY <1>13, <1>14 DEF Kept, Ended
<1>20. Good(ctx, d, q, now)
  BY <1>13, <1>18, <1>19 DEF Good, Stage, Ended
<1> QED BY <1>1, <1>2, <1>5, <1>20

(* Only a waiting phase is found by its rid. *)
LEMMA FoundWaits ==
    ASSUME IInv, NEW i, <<i, ctx.rid>> \in asked, slot_lookup(ctx.rid)
    PROVE  Waiting(ctx) /\ Clock(ctx, now)
<1>1. ctx.waiting
  BY DEF IInv, Asked
<1> QED BY <1>1 DEF IInv, Stage, Before, Over

LEMMA DispatchGood ==
    ASSUME IInv, NEW i, NEW r \in Replies, bus_dispatch(i, r)
    PROVE  Good(ctx, ctx', asked', now')
<1>1. PICK d : d = ctx'
  BY Zenon
<1>2. SUFFICES Good(ctx, d, asked, now)
  BY <1>1 DEF bus_dispatch
<1>3. /\ route \in DOMAIN Routes /\ Typed(ctx) /\ Asked(ctx, asked)
      /\ Waiting(ctx) /\ Clock(ctx, now) /\ Open(ctx)
  BY FoundWaits DEF bus_dispatch, IInv, Waiting
<1>4. PICK m : m = msg_reply(r)
  BY Zenon
<1>5. m \in Payload
  BY <1>3, <1>4, RouteFacts, MsgReply
<1>6. d \in on_reply(ctx, i, m)
  BY <1>1, <1>4 DEF bus_dispatch
<1>7. PICK F : F = {"got", "resolved", "replies", "order", "score", "actions", "ctl", "denied"}
  BY Zenon
<1>8. \/ d = ctx
      \/ /\ Typed(d) /\ Open(d) /\ ~wave_closed(d) /\ d.got # {} /\ Kept(ctx, d)
         /\ Same(ctx, d, F)
      \/ Advanced(ctx, d)
  BY <1>3, <1>5, <1>6, <1>7, OnReplySteps DEF Waiting
<1>9. CASE d = ctx
  BY <1>3, <1>9 DEF Good, Stage, Kept
<1>10. CASE /\ Typed(d) /\ Open(d) /\ ~wave_closed(d) /\ d.got # {} /\ Kept(ctx, d)
            /\ Same(ctx, d, F)
  <2>1. {"rid", "rids", "waiting", "state", "timer", "due", "published"} \subseteq CtxFields \ F
    BY <1>7 DEF CtxFields
  <2>2. /\ d.rids = ctx.rids /\ d.rid = ctx.rid /\ d.waiting = ctx.waiting
        /\ d.state = ctx.state /\ d.timer = ctx.timer /\ d.due = ctx.due
        /\ d.published = ctx.published
    BY <1>10, <2>1, Zenon DEF Same
  <2> QED BY <1>3, <1>10, <2>2, WaitingGood
<1>11. CASE Advanced(ctx, d)
  BY <1>3, <1>11, AdvancedGood
<1> QED BY <1>8, <1>9, <1>10, <1>11

LEMMA AbsentGood ==
    ASSUME IInv, NEW i, bus_absent(i)
    PROVE  Good(ctx, ctx', asked', now')
<1>1. PICK d : d = ctx'
  BY Zenon
<1>2. SUFFICES Good(ctx, d, asked, now)
  BY <1>1 DEF bus_absent
<1>3. /\ route \in DOMAIN Routes /\ Typed(ctx) /\ Asked(ctx, asked)
      /\ Waiting(ctx) /\ Clock(ctx, now) /\ Open(ctx)
  BY FoundWaits DEF bus_absent, IInv, Waiting
<1>4. PICK taken : taken = [ctx EXCEPT !.personal = @ \ {i}]
  BY Zenon
<1>5. \E e \in {ctx, taken} : d = e \/ \E cause \in {"absent", "bus"} : d \in skip(e, i, cause)
  BY <1>1, <1>4 DEF bus_absent
<1>6. PICK e \in {ctx, taken} : d = e \/ \E cause \in {"absent", "bus"} : d \in skip(e, i, cause)
  BY <1>5
<1>7. DOMAIN ctx = CtxFields /\ ctx.timer \in Nat \cup {NIL}
  BY <1>3 DEF Typed
<1>8. Same(ctx, e, {"personal"})
  <2>1. Same(ctx, taken, {"personal"})
    BY <1>4, <1>7, Zenon DEF Same
  <2>2. Same(ctx, ctx, {"personal"})
    BY <1>7 DEF Same
  <2> QED BY <1>6, <2>1, <2>2
<1>9. /\ Same(ctx, e, {"timer", "state", "waiting", "personal"}) /\ e.timer = ctx.timer
      /\ e.waiting = ctx.waiting /\ e.state = ctx.state /\ e.published = ctx.published
  BY <1>8 DEF Same, CtxFields
<1>10. /\ Typed(e) /\ Open(e) /\ e.rids = ctx.rids /\ e.rid = ctx.rid /\ e.got = ctx.got
       /\ e.replies = ctx.replies /\ e.fail = ctx.fail /\ e.due = ctx.due
       /\ wave_closed(e) <=> wave_closed(ctx)
  BY <1>3, <1>7, <1>9, OpenSame
<1>11. Waiting(e) /\ Clock(e, now) /\ Asked(e, asked)
  BY <1>3, <1>9, <1>10, AskedHeld, Zenon DEF Waiting, Clock
<1>12. PICK F : F = {"got", "replies", "fail", "personal", "cont"}
  BY Zenon
<1>13. \/ d = e
       \/ /\ Typed(d) /\ Open(d) /\ ~wave_closed(d) /\ d.got # {} /\ Kept(e, d)
          /\ Same(e, d, F)
       \/ Advanced(e, d)
  BY <1>3, <1>6, <1>10, <1>12, SkipSteps, Zenon
<1>14. CASE d = e
  BY <1>10, <1>11, <1>14 DEF Good, Stage, Kept
<1>15. CASE /\ Typed(d) /\ Open(d) /\ ~wave_closed(d) /\ d.got # {} /\ Kept(e, d)
            /\ Same(e, d, F)
  <2>1. {"rid", "rids", "waiting", "state", "timer", "due", "published"} \subseteq CtxFields \ F
    BY <1>12 DEF CtxFields
  <2>2. /\ d.rids = e.rids /\ d.rid = e.rid /\ d.waiting = e.waiting
        /\ d.state = e.state /\ d.timer = e.timer /\ d.due = e.due
        /\ d.published = e.published
    BY <1>15, <2>1, Zenon DEF Same
  <2>3. Good(e, d, asked, now)
    BY <1>11, <1>15, <2>2, WaitingGood, Zenon
  <2> QED BY <1>10, <2>3 DEF Good, Kept
<1>16. CASE Advanced(e, d)
  <2>1. Good(e, d, asked, now)
    BY <1>11, <1>16, AdvancedGood
  <2> QED BY <1>10, <2>1 DEF Good, Kept
<1> QED BY <1>13, <1>14, <1>15, <1>16

(* The fields the end of a phase does not rest on. *)
RestFields ==
    {"timer", "body_ready", "agent_after_body", "agent_settled", "state", "outcome",
     "waiting", "placing", "rid", "got", "denied", "awaited"}

LEMMA RestSame ==
    ASSUME NEW c, Typed(c), NEW d, Same(c, d, RestFields), d.rid \in {0, c.rid},
           d.timer \in {NIL, c.timer}
    PROVE  /\ Typed(d) /\ d.replies = c.replies /\ d.rids = c.rids
           /\ d.finish_how = c.finish_how /\ d.verdict = c.verdict
           /\ d.live = c.live
           /\ Decided(c) => Decided(d)
<1>1. {"wave", "rids", "published", "due", "first", "applied", "depth",
       "stale", "live", "ctl", "fail", "score", "cond_off",
       "body_policy", "order", "finish_how", "verdict", "replies"} \subseteq CtxFields \ RestFields
  BY DEF CtxFields, RestFields
<1>2. /\ d.wave = c.wave /\ d.rids = c.rids /\ d.published = c.published
      /\ d.due = c.due /\ d.first = c.first /\ d.applied = c.applied
      /\ d.depth = c.depth /\ d.stale = c.stale /\ d.live = c.live
      /\ d.ctl = c.ctl /\ DOMAIN d = CtxFields
  BY <1>1, Zenon DEF Same
<1>3. /\ d.fail = c.fail /\ d.score = c.score /\ d.cond_off = c.cond_off
      /\ d.body_policy = c.body_policy /\ d.order = c.order
      /\ d.finish_how = c.finish_how /\ d.verdict = c.verdict /\ d.replies = c.replies
  BY <1>1, Zenon DEF Same
<1>4. Typed(d)
  <2>1. d.verdict \in {"allow", "redirect", "deny"}
    BY <1>3 DEF Typed
  <2> QED BY <1>2, <1>3, <2>1, TypedSame
<1>5. Counted(d, "deny") = Counted(c, "deny") /\ (Justified(d) <=> Justified(c))
  BY <1>2, <1>3, CountedSame, JustifiedSame
<1> QED BY <1>2, <1>3, <1>4, <1>5 DEF Decided

(* A phase that has not chosen how to end owes nothing to the choice. *)
LEMMA StageDecided ==
    ASSUME NEW c, Stage(c)
    PROVE  Decided(c)
BY Zenon DEF Stage, Before, Waiting, Open, Running, Over, Decided

(* nginx ends the request: the body read fails or the client goes away. *)
LEMMA CutGood ==
    ASSUME NEW c, Typed(c), Stage(c), NEW q, Asked(c, q), NEW t,
           NEW d, Same(c, d, RestFields), d.rid \in {0, c.rid}, d.rid # 0 => ~c.waiting,
           d.timer \in {NIL, c.timer}, ~d.waiting, d.placing = "none",
           d.state = "DONE", d.outcome \in {"error", "aborted"}
    PROVE  Good(c, d, q, t)
<1>1. Decided(c)
  BY StageDecided, Zenon
<1>2. /\ Typed(d) /\ d.replies = c.replies /\ d.rids = c.rids /\ Decided(d)
  BY <1>1, RestSame
<1>3. Over(d)
  BY <1>2 DEF Over, Outcome
<1>4. Asked(d, q)
  BY <1>2 DEF Asked
<1> QED BY <1>2, <1>3, <1>4 DEF Good, Stage, Kept

LEMMA AbortGood ==
    ASSUME IInv, Abort
    PROVE  Good(ctx, ctx', asked', now')
<1>1. PICK d : d = ctx'
  BY Zenon
<1>2. SUFFICES Good(ctx, d, asked, now)
  BY <1>1 DEF Abort
<1>3. PICK s : s = slot_release(ctx)
  BY Zenon
<1>4. Typed(ctx) /\ Stage(ctx) /\ Asked(ctx, asked) /\ DOMAIN ctx = CtxFields
  BY DEF IInv, Typed
<1>5. Same(ctx, s, {"rid", "got", "denied", "awaited"}) /\ s.rid = 0
  BY <1>3, <1>4, SlotRelease
<1>6. d = [s EXCEPT !.timer = NIL, !.waiting = FALSE, !.placing = "none",
                    !.state = "DONE", !.outcome = "aborted"]
  BY <1>1, <1>3 DEF Abort
<1>7. DOMAIN s = CtxFields
  BY <1>5 DEF Same
<1>8. Same(s, d, {"timer", "waiting", "placing", "state", "outcome"})
  BY <1>6, <1>7, Zenon DEF Same
<1>9. {"timer", "waiting", "placing", "state", "outcome"} \subseteq DOMAIN s
  BY <1>7 DEF CtxFields
<1>10. d.timer = NIL /\ d.waiting = FALSE /\ d.placing = "none"
  BY <1>6, <1>9, Zenon
<1>11. d.state = "DONE" /\ d.outcome = "aborted"
  BY <1>6, <1>9, Zenon
<1>12. d.rid = 0 /\ Same(ctx, d, RestFields)
  BY <1>5, <1>8 DEF Same, RestFields, CtxFields
<1> QED BY <1>4, <1>10, <1>11, <1>12, CutGood

LEMMA BodyReadFailsGood ==
    ASSUME IInv, BodyReadFails
    PROVE  Good(ctx, ctx', asked', now')
<1>1. PICK d : d = ctx'
  BY Zenon
<1>2. SUFFICES Good(ctx, d, asked, now)
  BY <1>1 DEF BodyReadFails
<1>3. Typed(ctx) /\ Stage(ctx) /\ Asked(ctx, asked) /\ DOMAIN ctx = CtxFields
  BY DEF IInv, Typed
<1>4. ~ctx.waiting /\ ctx.placing = "none"
  BY <1>3 DEF BodyReadFails, Stage, Before, Waiting, Over
<1>5. d = [ctx EXCEPT !.state = "DONE", !.outcome = "error"]
  BY <1>1 DEF BodyReadFails
<1>6. Same(ctx, d, {"state", "outcome"}) /\ d.state = "DONE" /\ d.outcome = "error"
  BY <1>3, <1>5, Zenon DEF Same, CtxFields
<1>7. /\ Same(ctx, d, RestFields) /\ d.rid = ctx.rid /\ d.timer = ctx.timer
      /\ d.waiting = ctx.waiting /\ d.placing = ctx.placing
  BY <1>6 DEF Same, RestFields, CtxFields
<1> QED BY <1>3, <1>4, <1>6, <1>7, CutGood

(* The timer. *)
LEMMA DeadlineGood ==
    ASSUME IInv, on_deadline
    PROVE  Good(ctx, ctx', asked', now')
<1>1. PICK d : d = ctx'
  BY Zenon
<1>2. SUFFICES Good(ctx, d, asked, now)
  BY <1>1 DEF on_deadline
<1>3. /\ route \in DOMAIN Routes /\ now \in Nat /\ Typed(ctx) /\ Stage(ctx)
      /\ Asked(ctx, asked) /\ DOMAIN ctx = CtxFields
  BY Zenon DEF IInv, Typed
<1>4. PICK fired : fired = [ctx EXCEPT !.timer = NIL]
  BY Zenon
<1>5. d \in IF ~ctx.waiting THEN {fired}
            ELSE IF ctx.due > now THEN expire(fired) ELSE fail(fired)
  BY <1>1, <1>4, Zenon DEF on_deadline
<1>6. Same(ctx, fired, {"timer"}) /\ fired.timer = NIL
  BY <1>3, <1>4, Zenon DEF Same, CtxFields
<1>7. /\ fired.rid = ctx.rid /\ fired.rids = ctx.rids /\ fired.state = ctx.state
      /\ fired.placing = ctx.placing /\ fired.body_ready = ctx.body_ready
      /\ fired.waiting = ctx.waiting /\ fired.published = ctx.published
  BY <1>6 DEF Same, CtxFields
<1>8. CASE ~ctx.waiting /\ Before(ctx)
  <2>1. d = fired /\ Same(ctx, d, BeforeFields)
    BY <1>5, <1>6, <1>8 DEF Same, BeforeFields
  <2>2. /\ ctx.state \in {"INIT", "NEXT_WAVE", "READING_BODY", "PLACING_META", "NEED_BODY"}
        /\ ctx.placing # "none" =>
             ctx.state = "PLACING_META" \/ (ctx.state = "NEED_BODY" /\ ctx.body_ready)
    BY <1>8 DEF Before
  <2> QED BY <1>3, <1>6, <1>7, <1>8, <2>1, <2>2, BeforeGood, Zenon
<1>9. CASE ~ctx.waiting /\ Over(ctx)
  <2>1. d = fired /\ Same(ctx, d, RestFields)
    BY <1>5, <1>6, <1>9 DEF Same, RestFields
  <2>2. /\ Typed(d) /\ d.replies = ctx.replies /\ d.rids = ctx.rids
        /\ d.finish_how = ctx.finish_how /\ d.verdict = ctx.verdict
        /\ Decided(d)
    BY <1>3, <1>6, <1>7, <1>9, <2>1, RestSame DEF Over
  <2>3. d.outcome = ctx.outcome /\ d.agent_after_body = ctx.agent_after_body
    BY <1>6, <2>1 DEF Same, CtxFields
  <2>4. Over(d)
    BY <1>7, <1>9, <2>1, <2>2, <2>3 DEF Over, Outcome
  <2>5. Asked(d, asked)
    BY <1>3, <1>7, <2>1, AskedHeld
  <2> QED BY <1>7, <1>9, <2>1, <2>2, <2>4, <2>5 DEF Good, Stage, Kept
<1>10. CASE Waiting(ctx)
  <2>1. Open(ctx) /\ ctx.waiting /\ ~wave_closed(ctx) /\ (ctx.got = {} => ctx.fail = "none")
        /\ ctx.state = "WAITING"
    BY <1>10 DEF Waiting
  <2>2. Same(ctx, fired, {"timer", "state", "waiting", "personal"})
    BY <1>6 DEF Same
  <2>3. /\ Typed(fired) /\ Open(fired) /\ fired.got = ctx.got
        /\ fired.replies = ctx.replies /\ fired.fail = ctx.fail /\ fired.due = ctx.due
        /\ wave_closed(fired) <=> wave_closed(ctx)
    BY <1>3, <1>6, <2>1, <2>2, OpenSame
  <2>4. Asked(fired, asked)
    BY <1>3, <1>7, AskedHeld
  <2>5. CASE ctx.due > now
    <3>1. d \in expire(fired)
      BY <1>5, <2>1, <2>5
    <3>2. PICK F : F = {"got", "replies", "fail", "personal", "cont", "timer"}
      BY Zenon
    <3>3. \/ /\ Typed(d) /\ Open(d) /\ ~wave_closed(d) /\ Kept(fired, d)
             /\ d.got = {} => d.fail = "none"
             /\ Same(fired, d, F)
             /\ d.timer \in Nat /\ now <= d.timer
             /\ d.timer <= fired.due \/ d.timer = now
          \/ Advanced(fired, d)
      BY <1>3, <2>1, <2>3, <3>1, <3>2, ExpireSteps, Zenon
    <3>4. CASE Advanced(fired, d)
      <4>1. Good(fired, d, asked, now)
        BY <2>4, <3>4, AdvancedGood
      <4> QED BY <2>3, <4>1 DEF Good, Kept
    <3>5. CASE /\ Typed(d) /\ Open(d) /\ ~wave_closed(d) /\ Kept(fired, d)
               /\ d.got = {} => d.fail = "none"
               /\ Same(fired, d, F)
               /\ d.timer \in Nat /\ now <= d.timer
               /\ d.timer <= fired.due \/ d.timer = now
      <4>1. {"rid", "rids", "waiting", "state", "due"} \subseteq CtxFields \ F
        BY <3>2 DEF CtxFields
      <4>2. /\ d.rids = fired.rids /\ d.rid = fired.rid /\ d.waiting = fired.waiting
            /\ d.state = fired.state /\ d.due = fired.due
        BY <3>5, <4>1, Zenon DEF Same
      <4>3. ctx.due \in Nat /\ Lag \in Nat
        BY <1>3, <2>1, WaveAssumption, Zenon DEF Typed, Open
      <4>4. Clock(d, now)
        BY <1>3, <2>3, <2>5, <3>5, <4>2, <4>3 DEF Clock
      <4>5. Waiting(d)
        BY <1>7, <2>1, <3>5, <4>2, Zenon DEF Waiting
      <4>6. Asked(d, asked)
        BY <2>4, <4>2, AskedHeld
      <4>7. Kept(ctx, d)
        BY <2>3, <3>5 DEF Kept
      <4> QED BY <3>5, <4>4, <4>5, <4>6, <4>7 DEF Good, Stage
    <3> QED BY <3>3, <3>4, <3>5
  <2>6. CASE ~(ctx.due > now)
    <3>1. d \in fail(fired)
      BY <1>5, <2>1, <2>6
    <3>2. Ended(fired, d)
      BY <1>3, <2>1, <2>3, <3>1, FailSteps
    <3>3. Good(fired, d, asked, now)
      BY <2>4, <3>2, EndedGood
    <3> QED BY <2>3, <3>3 DEF Good, Kept
  <2> QED BY <2>5, <2>6
<1> QED BY <1>3, <1>8, <1>9, <1>10, Zenon DEF Stage, Before, Over

(* Time passes; the timer of a waiting phase is served within Lag. *)
LEMMA TickGood ==
    ASSUME IInv, Tick
    PROVE  Good(ctx, ctx', asked', now')
<1>1. ctx' = ctx /\ asked' = asked /\ now' = now + 1
  BY DEF Tick
<1>2. Good(ctx, ctx, asked, now + 1)
  <2>1. Typed(ctx) /\ Stage(ctx) /\ Asked(ctx, asked)
    BY DEF IInv
  <2>2. ctx.waiting => Clock(ctx, now + 1)
    <3>1. SUFFICES ASSUME ctx.waiting PROVE Clock(ctx, now + 1)
      OBVIOUS
    <3>2. now \in Nat /\ Lag \in Nat /\ now < ctx.timer + Lag /\ Clock(ctx, now)
      BY <3>1, WaveAssumption DEF Tick, IInv
    <3> QED BY <3>2 DEF Clock
  <2> QED BY <2>1, <2>2 DEF Good, Kept
<1> QED BY <1>1, <1>2

(* The body or the store has answered before the questions of the wave. *)
LEMMA ResumedBefore ==
    ASSUME route \in DOMAIN Routes, NEW c, Typed(c), Before(c), c.placing = "none",
           NEW q, Asked(c, q), NEW t, NEW rc, NEW d \in body_resumed(c, rc)
    PROVE  Good(c, d, q, t)
<1>1. /\ ~c.agent_after_body /\ ~c.waiting /\ c.outcome = "none"
      /\ c.ctl = NoControl => Counted(c, "deny") = {}
  BY Zenon DEF Before, Running
<1>2. CASE rc = "ok"
  <2>1. d = [c EXCEPT !.state = "NEXT_WAVE"]
    BY <1>1, <1>2 DEF body_resumed
  <2>2. DOMAIN c = CtxFields /\ c.timer \in Nat \cup {NIL}
    BY Zenon DEF Typed
  <2>3. Same(c, d, {"state"}) /\ d.state = "NEXT_WAVE"
    BY <2>1, <2>2, Zenon DEF Same, CtxFields
  <2>4. /\ Same(c, d, BeforeFields) /\ d.timer = c.timer /\ d.rid = c.rid
        /\ d.rids = c.rids /\ d.placing = c.placing
    BY <2>3 DEF Same, BeforeFields, CtxFields
  <2> QED BY <2>2, <2>3, <2>4, BeforeGood
<1>3. CASE rc # "ok"
  <2>1. PICK f : f = Fail(slot_release(c), "body")
    BY Zenon
  <2>2. d \in fail_policy(f)
    BY <1>1, <1>3, <2>1, Zenon DEF body_resumed
  <2>3. Ended(c, d)
    BY <1>1, <2>1, <2>2, GiveUp
  <2> QED BY <2>3, EndedGood
<1> QED BY <1>2, <1>3

(* A step that only settles an object of the wave, then resumes it. *)
LEMMA SettledResumes ==
    ASSUME route \in DOMAIN Routes, NEW c, Typed(c), Before(c), NEW q, Asked(c, q), NEW t,
           NEW e, Same(c, e, {"body_ready", "meta_settled", "placing", "body_policy", "locator"}),
           e.placing = "none", NEW rc, NEW d \in body_resumed(e, rc)
    PROVE  Good(c, d, q, t)
<1>1. /\ Same(c, e, BeforeFields) /\ e.timer = c.timer /\ e.rid = c.rid
      /\ e.rids = c.rids /\ e.state = c.state
  BY DEF Same, BeforeFields, CtxFields
<1>2. /\ c.timer \in Nat \cup {NIL} /\ c.rid \in Nat /\ c.rids \in Nat /\ c.rid <= c.rids
      /\ c.state \in {"INIT", "NEXT_WAVE", "READING_BODY", "PLACING_META", "NEED_BODY"}
  BY Zenon DEF Typed, Before
<1>3. Typed(e) /\ Before(e) /\ e.replies = c.replies
  BY <1>1, <1>2, BeforeSame
<1>4. Asked(e, q)
  <2>1. Good(c, e, q, t)
    BY <1>1, <1>2, BeforeGood
  <2> QED BY <2>1 DEF Good
<1>5. Good(e, d, q, t)
  BY <1>3, <1>4, ResumedBefore
<1> QED BY <1>3, <1>5 DEF Good, Kept

(* The agent has got the body it waited for. *)
LEMMA ResumedOver ==
    ASSUME route \in DOMAIN Routes, NEW c, Typed(c), Over(c), c.outcome = "none",
           c.finish_how \in Hows, c.agent_after_body,
           NEW e, Same(c, e, {"body_ready", "agent_after_body", "agent_settled"}),
           NEW q, Asked(c, q), NEW t, NEW d \in finish_done(e)
    PROVE  Good(c, d, q, t)
<1>1. /\ Same(c, e, RestFields) /\ e.timer = c.timer /\ e.rid = c.rid /\ e.outcome = c.outcome
      /\ e.waiting = c.waiting /\ e.placing = c.placing
  BY DEF Same, RestFields, CtxFields
<1>2. /\ Typed(e) /\ e.replies = c.replies /\ e.rids = c.rids
      /\ e.finish_how = c.finish_how /\ Decided(e)
  BY <1>1, RestSame DEF Over
<1>3. ~e.waiting /\ e.placing = "none" /\ ~c.waiting
  BY <1>1 DEF Over
<1>4. /\ Typed(d) /\ Over(d) /\ Kept(e, d) /\ ~d.waiting
      /\ d.rid = e.rid /\ d.rids = e.rids
  BY <1>1, <1>2, <1>3, FinishDoneOver
<1>5. Asked(d, q)
  BY <1>1, <1>2, <1>3, <1>4 DEF Asked
<1> QED BY <1>2, <1>4, <1>5 DEF Good, Stage, Kept

LEMMA BodyReadyGood ==
    ASSUME IInv, body_ready
    PROVE  Good(ctx, ctx', asked', now')
<1>1. PICK d : d = ctx'
  BY Zenon
<1>2. SUFFICES Good(ctx, d, asked, now)
  BY <1>1 DEF body_ready
<1>3. PICK e : e = [ctx EXCEPT !.body_ready = TRUE]
  BY Zenon
<1>4. d \in body_resumed(e, "ok") /\ ctx.state = "READING_BODY"
  BY <1>1, <1>3, Zenon DEF body_ready
<1>5. /\ route \in DOMAIN Routes /\ Typed(ctx) /\ Stage(ctx) /\ Asked(ctx, asked)
      /\ DOMAIN ctx = CtxFields
  BY Zenon DEF IInv, Typed
<1>6. Same(ctx, e, {"body_ready"})
  BY <1>3, <1>5, Zenon DEF Same
<1>7. e.placing = ctx.placing /\ e.agent_after_body = ctx.agent_after_body
  BY <1>6 DEF Same, CtxFields
<1>8. CASE Before(ctx)
  <2>1. Same(ctx, e, {"body_ready", "meta_settled", "placing", "body_policy", "locator"})
    BY <1>6 DEF Same
  <2>2. e.placing = "none"
    BY <1>4, <1>7, <1>8 DEF Before
  <2> QED BY <1>4, <1>5, <1>8, <2>1, <2>2, SettledResumes
<1>9. CASE Over(ctx)
  <2>1. ctx.agent_after_body /\ ctx.outcome = "none" /\ ctx.finish_how \in Hows
    BY <1>4, <1>9 DEF Over, Hows
  <2>2. PICK f : f = [e EXCEPT !.agent_after_body = FALSE, !.agent_settled = TRUE]
    BY Zenon
  <2>3. d \in finish_done(f)
    BY <1>4, <1>7, <2>1, <2>2, Zenon DEF body_resumed
  <2>4. Same(e, f, {"agent_after_body", "agent_settled"})
    BY <1>6, <2>2, Zenon DEF Same
  <2>5. Same(ctx, f, {"body_ready", "agent_after_body", "agent_settled"})
    BY <1>6, <2>4 DEF Same
  <2> QED BY <1>5, <1>9, <2>1, <2>3, <2>5, ResumedOver
<1>10. ~Waiting(ctx)
  BY <1>4 DEF Waiting
<1> QED BY <1>5, <1>8, <1>9, <1>10 DEF Stage

LEMMA ResponsePlaceGood ==
    ASSUME IInv, response_body_place
    PROVE  Good(ctx, ctx', asked', now')
<1>1. PICK d : d = ctx'
  BY Zenon
<1>2. SUFFICES Good(ctx, d, asked, now)
  BY <1>1 DEF response_body_place
<1>3. PICK b : b = [ctx EXCEPT !.body_ready = TRUE]
  BY Zenon
<1>4. PICK p \in body_place(b) :
         d \in IF p.rc = "again" THEN {p.c} ELSE body_resumed(p.c, p.rc)
  BY <1>1, <1>3, Zenon DEF response_body_place
<1>5. /\ route \in DOMAIN Routes /\ Typed(ctx) /\ Before(ctx) /\ Asked(ctx, asked)
      /\ DOMAIN ctx = CtxFields /\ ctx.state = "NEED_BODY" /\ ctx.placing = "none"
      /\ ctx.timer \in Nat \cup {NIL}
  BY DEF IInv, Typed, response_body_place, Stage, Before, Waiting, Over
<1>6. Same(ctx, b, {"body_ready"}) /\ b.body_ready
  BY <1>3, <1>5, Zenon DEF Same, CtxFields
<1>7. PICK c : c = p.c
  BY Zenon
<1>9. /\ Same(ctx, c, {"body_ready", "meta_settled", "placing", "body_policy", "locator"})
      /\ Same(b, c, PlaceFields)
      /\ p.rc # "again" => c.placing = "none"
  <2>1. PlacedFrom(b, p)
    BY <1>6, BodyPlace DEF Same
  <2>2. Same(b, c, PlaceFields) /\ (p.rc # "again" => c.placing = b.placing)
    BY <1>7, <2>1 DEF PlacedFrom
  <2>3. b.placing = ctx.placing
    BY <1>6 DEF Same, CtxFields
  <2> QED BY <1>5, <1>6, <2>2, <2>3 DEF Same, PlaceFields
<1>10. CASE p.rc = "again"
  <2>1. d = c
    BY <1>4, <1>7, <1>10
  <2>2. /\ Same(ctx, d, BeforeFields) /\ d.timer = ctx.timer /\ d.rid = ctx.rid
        /\ d.rids = ctx.rids /\ d.state = ctx.state
    BY <1>9, <2>1 DEF Same, BeforeFields, CtxFields
  <2>3. d.body_ready
    BY <1>6, <1>9, <2>1 DEF Same, PlaceFields, CtxFields
  <2> QED BY <1>5, <2>2, <2>3, BeforeGood
<1>11. CASE p.rc # "again"
  <2>1. d \in body_resumed(c, p.rc)
    BY <1>4, <1>7, <1>11
  <2> QED BY <1>5, <1>9, <1>11, <2>1, SettledResumes
<1> QED BY <1>10, <1>11

LEMMA PutGood ==
    ASSUME IInv, on_put
    PROVE  Good(ctx, ctx', asked', now')
<1>1. PICK d : d = ctx'
  BY Zenon
<1>2. SUFFICES Good(ctx, d, asked, now)
  BY <1>1 DEF on_put
<1>3. PICK c : c = [ctx EXCEPT !.placing = "none"]
  BY Zenon
<1>4. PICK u : u = IF ctx.placing = "body" THEN [c EXCEPT !.locator = "unavail"] ELSE c
  BY Zenon
<1>5. PICK f : f = Unavailable(u, Policy["body"])
  BY Zenon
<1>6. d \in body_resumed(c, "ok") \cup body_resumed(f.c, f.rc) /\ ctx.placing # "none"
  BY <1>1, <1>3, <1>4, <1>5, Zenon DEF on_put
<1>7. /\ route \in DOMAIN Routes /\ Typed(ctx) /\ Before(ctx) /\ Asked(ctx, asked)
      /\ DOMAIN ctx = CtxFields
  BY <1>6, Zenon DEF IInv, Typed, Stage, Waiting, Open, Over
<1>8. Same(ctx, c, {"placing"}) /\ c.placing = "none"
  BY <1>3, <1>7, Zenon DEF Same, CtxFields
<1>9. Same(c, u, {"locator"})
  <2>1. CASE ctx.placing = "body"
    <3>1. u = [c EXCEPT !.locator = "unavail"]
      BY <1>4, <2>1, Zenon
    <3> QED BY <1>8, <3>1, Zenon DEF Same
  <2>2. CASE ctx.placing # "body"
    BY <1>4, <1>8, <2>2 DEF Same
  <2> QED BY <2>1, <2>2
<1>10. PICK g : g = f.c
  BY Zenon
<1>11. Same(u, g, {"body_policy"})
  BY <1>5, <1>9, <1>10, Unavail DEF Same
<1>12. /\ Same(ctx, g, {"body_ready", "meta_settled", "placing", "body_policy", "locator"})
       /\ g.placing = "none"
  BY <1>8, <1>9, <1>11 DEF Same, CtxFields
<1>13. Same(ctx, c, {"body_ready", "meta_settled", "placing", "body_policy", "locator"})
  BY <1>8 DEF Same
<1>14. CASE d \in body_resumed(c, "ok")
  BY <1>7, <1>8, <1>13, <1>14, SettledResumes
<1>15. CASE d \in body_resumed(g, f.rc)
  BY <1>7, <1>12, <1>15, SettledResumes
<1> QED BY <1>6, <1>10, <1>14, <1>15

(* The fetch of the answer's body ends, or fails and denies. *)
LEMMA FormGood ==
    ASSUME IInv, form_resumed
    PROVE  Good(ctx, ctx', asked', now')
<1>1. PICK d : d = ctx'
  BY Zenon
<1>2. SUFFICES Good(ctx, d, asked, now)
  BY <1>1 DEF form_resumed
<1>3. /\ route \in DOMAIN Routes /\ Typed(ctx) /\ Over(ctx) /\ Asked(ctx, asked)
      /\ DOMAIN ctx = CtxFields /\ ctx.outcome = "none" /\ ctx.finish_how = "APPLY"
      /\ ~ctx.waiting /\ ctx.placing = "none" /\ Decided(ctx) /\ ctx.finish_how \in Hows
  BY Zenon DEF IInv, form_resumed, Typed, Stage, Before, Waiting, Over, Hows
<1>4. PICK e : e = send_fail(ctx)
  BY Zenon
<1>5. d \in finish_done(ctx) \/ d \in finish_done(e)
  BY <1>1, <1>4, Zenon DEF form_resumed
<1>6. CASE d \in finish_done(ctx)
  <2>1. /\ Typed(d) /\ Over(d) /\ Kept(ctx, d) /\ ~d.waiting
        /\ d.rid = ctx.rid /\ d.rids = ctx.rids
    BY <1>3, <1>6, FinishDoneOver
  <2>2. Asked(d, asked)
    BY <1>3, <2>1 DEF Asked
  <2> QED BY <2>1, <2>2, Zenon DEF Good, Stage
<1>7. CASE d \in finish_done(e) /\ e # ctx
  <2>1. PICK reps : reps = Denied(ctx)
    BY Zenon
  <2>2. e = [ctx EXCEPT !.verdict = "deny", !.decisive = ctx.live,
                        !.replies[ctx.live].verdict = "deny"]
    BY <1>4, <1>7, Zenon DEF send_fail
  <2>3. {"verdict", "decisive", "replies"} \subseteq DOMAIN ctx
    BY <1>3 DEF CtxFields
  <2>4. e = [ctx EXCEPT !.verdict = "deny", !.decisive = ctx.live, !.replies = reps]
    BY <2>1, <2>2, <2>3, Zenon DEF Denied
  <2>5. Same(ctx, e, {"verdict", "decisive", "replies"})
    BY <1>3, <2>4, Zenon DEF Same
  <2>6. e.verdict = "deny" /\ e.replies = reps
    BY <2>3, <2>4, Zenon
  <2>7. PICK F : F = {"verdict", "decisive", "replies"}
    BY Zenon
  <2>8. {"wave", "rids", "rid", "timer", "published", "due", "first", "applied", "depth",
         "stale", "live", "waiting", "placing", "ctl", "score", "order", "finish_how",
         "outcome"} \subseteq CtxFields \ F
    BY <2>7 DEF CtxFields
  <2>9. /\ e.wave = ctx.wave /\ e.rids = ctx.rids /\ e.published = ctx.published
        /\ e.due = ctx.due /\ e.first = ctx.first /\ e.applied = ctx.applied
        /\ e.depth = ctx.depth /\ e.stale = ctx.stale /\ e.live = ctx.live
        /\ e.waiting = ctx.waiting /\ e.placing = ctx.placing
    BY <2>5, <2>7, <2>8, Zenon DEF Same
  <2>10. /\ e.score = ctx.score /\ e.order = ctx.order /\ DOMAIN e = CtxFields
         /\ e.finish_how = ctx.finish_how /\ e.rid = ctx.rid /\ e.timer = ctx.timer
         /\ e.outcome = ctx.outcome
    BY <2>5, <2>7, <2>8, Zenon DEF Same
  <2>11. /\ reps \in [Inspectors -> Reply]
         /\ \A i \in Inspectors : reps[i].state = ctx.replies[i].state
         /\ \A i \in Inspectors : \/ reps[i] = ctx.replies[i]
                                  \/ /\ i = ctx.live
                                     /\ reps[i] = [ctx.replies[i] EXCEPT !.verdict = "deny"]
    BY <1>3, <2>1, ReplyDenied
  <2>12. Order(e)
    <3>1. \A v \in 1 .. ctx.wave - 1 : \A i \in Waves[v].all : i \in Inspectors
      <4>1. \A v \in 1 .. ctx.wave - 1 : v \in DOMAIN Waves
        BY <1>3, RouteFacts, WaveFacts
      <4> QED BY <1>3, <4>1, RouteFacts, Zenon
    <3> QED BY <1>3, <2>6, <2>9, <2>11, <3>1 DEF Typed, Order
  <2>13. Chain(e)
    BY <1>3, <2>9 DEF Typed, Chain
  <2>14. Typed(e)
    BY <1>3, <2>6, <2>9, <2>10, <2>11, <2>12, <2>13 DEF Typed
  <2>15. Decided(e)
    BY <1>3, <2>6, <2>10 DEF Decided
  <2>16. /\ Typed(d) /\ Over(d) /\ ~d.waiting
         /\ d.rid = e.rid /\ d.rids = e.rids /\ d.live = e.live
         /\ d.replies = e.replies
    <3>1. ~e.waiting /\ e.placing = "none" /\ e.outcome = "none" /\ e.finish_how \in Hows
          /\ e.verdict # "allow"
      BY <1>3, <2>6, <2>9, <2>10
    <3> QED BY <1>3, <1>7, <2>14, <2>15, <3>1, FinishDoneOver, Zenon
  <2>17. Kept(ctx, d)
    BY <2>6, <2>9, <2>11, <2>16, Zenon DEF Kept
  <2>18. Asked(d, asked)
    BY <1>3, <2>9, <2>10, <2>16, Zenon DEF Asked
  <2> QED BY <2>16, <2>17, <2>18, Zenon DEF Good, Stage
<1> QED BY <1>5, <1>6, <1>7

-----------------------------------------------------------------------------
(* The invariant. *)

(* The route is chosen once. *)
LEMMA RouteKept ==
    ASSUME route' = route
    PROVE  /\ Waves' = Waves /\ Inspectors' = Inspectors /\ Deadline' = Deadline
           /\ Threshold' = Threshold /\ Policy' = Policy
BY DEF Waves, Inspectors, Deadline, Threshold, Policy

(* What is established of the next context holds in the next state. *)
LEMMA NextState ==
    ASSUME route' = route, Typed(ctx'), Stage(ctx')
    PROVE  Typed(ctx)' /\ Stage(ctx)'
<1>1. /\ Waves' = Waves /\ Inspectors' = Inspectors /\ Deadline' = Deadline
      /\ Threshold' = Threshold /\ Policy' = Policy
  BY RouteKept
<1>2. Chain(ctx)' <=> Chain(ctx')
  BY <1>1 DEF Chain
<1>3. Order(ctx)' <=> Order(ctx')
  BY <1>1 DEF Order
<1>4. Typed(ctx)'
  BY <1>1, <1>2, <1>3, Zenon DEF Typed
<1>5. Wave(ctx)' = Wave(ctx')
  BY <1>1 DEF Wave
<1>6. Earlier(ctx)' = Earlier(ctx')
  BY <1>1 DEF Earlier
<1>7. Counted(ctx, "deny")' = Counted(ctx', "deny")
  BY <1>1 DEF Counted
<1>8. Bound(ctx)' = Bound(ctx')
  BY <1>1 DEF Bound
<1>9. Turned(ctx)' = Turned(ctx')
  BY <1>5 DEF Turned
<1>10. Running(ctx)' <=> Running(ctx')
  BY <1>1, <1>6, Zenon DEF Running
<1>11. Before(ctx)' <=> Before(ctx')
  BY <1>5, <1>7, <1>8, <1>10, Zenon DEF Before
<1>12. Uncontrolled(ctx)' <=> Uncontrolled(ctx')
  BY <1>5, <1>7, Zenon DEF Uncontrolled
<1>13. Open(ctx)' <=> Open(ctx')
  BY <1>5, <1>8, <1>10, <1>12, Zenon DEF Open
<1>14. wave_closed(ctx)' <=> wave_closed(ctx')
  BY DEF wave_closed
<1>15. Waiting(ctx)' <=> Waiting(ctx')
  BY <1>13, <1>14, Zenon DEF Waiting
<1>16. ScoreDenies(ctx)' <=> ScoreDenies(ctx')
  BY <1>1 DEF ScoreDenies
<1>17. exception_policy(ctx)' = exception_policy(ctx')
  BY <1>1 DEF exception_policy
<1>18. Justified(ctx)' <=> Justified(ctx')
  BY <1>1, <1>5, <1>8, <1>9, <1>16, <1>17, Zenon DEF Justified
<1>19. Decided(ctx)' <=> Decided(ctx')
  BY <1>7, <1>18 DEF Decided
<1>20. Over(ctx)' <=> Over(ctx')
  BY <1>19 DEF Over, Outcome
<1> QED BY <1>4, <1>11, <1>15, <1>20 DEF Stage

(* Every step keeps the invariant and the stored replies. *)
LEMMA StepInv ==
    ASSUME IInv, [Next]_vars
    PROVE  /\ route' = route /\ IInv'
           /\ vars' # vars => Kept(ctx, ctx')
<1>1. CASE Next /\ vars' # vars
  <2>1. route' = route /\ now' \in Nat
    <3>1. now \in Nat
      BY DEF IInv
    <3>2. ASSUME access \/ WaveReads \/ WaveNoSlot \/ WaveWaitsForObjects
          PROVE  route' = route /\ now' = now
      BY <3>2, Zenon DEF access, WaveReads, WaveNoSlot, WaveWaitsForObjects
    <3>3. ASSUME WavePublished \/ WavePublishFails \/ on_deadline \/ body_ready
          PROVE  route' = route /\ now' = now
      BY <3>3, Zenon DEF WavePublished, WavePublishFails, on_deadline, body_ready
    <3>4. ASSUME BodyReadFails \/ response_body_place \/ on_put \/ form_resumed \/ Abort
          PROVE  route' = route /\ now' = now
      BY <3>4, Zenon DEF BodyReadFails, response_body_place, on_put, form_resumed, Abort
    <3>5. ASSUME Tick PROVE route' = route /\ now' \in Nat
      BY <3>1, <3>5 DEF Tick
    <3>6. ASSUME NEW i, NEW r, bus_absent(i) \/ bus_dispatch(i, r)
          PROVE  route' = route /\ now' = now
      BY <3>6, Zenon DEF bus_absent, bus_dispatch
    <3> QED BY <1>1, <3>1, <3>2, <3>3, <3>4, <3>5, <3>6 DEF Next, WorkerStep, Done
  <2>2. Good(ctx, ctx', asked', now')
    <3>1. CASE WorkerStep
      BY <3>1, AccessGood, WaveReadsGood, WaveNoSlotGood, WaitsGood, PublishedGood,
         PublishFailsGood, DeadlineGood, BodyReadyGood, BodyReadFailsGood,
         ResponsePlaceGood, PutGood, FormGood, TickGood DEF WorkerStep
    <3>2. CASE \E i \in Inspectors : bus_absent(i) \/ \E r \in Replies : bus_dispatch(i, r)
      BY <3>2, AbsentGood, DispatchGood
    <3>3. CASE Abort
      BY <3>3, AbortGood
    <3> QED BY <1>1, <3>1, <3>2, <3>3 DEF Next, Done
  <2>3. Typed(ctx)' /\ Stage(ctx)'
    BY <2>1, <2>2, NextState DEF Good
  <2>4. Asked(ctx, asked)' /\ (ctx'.waiting => Clock(ctx, now)')
    BY <2>2, Zenon DEF Good, Asked, Clock
  <2> QED BY <2>1, <2>2, <2>3, <2>4 DEF IInv, Good
<1>2. CASE vars' = vars
  <2>1. route' = route /\ now' = now /\ ctx' = ctx /\ asked' = asked
    BY <1>2 DEF vars
  <2>2. Typed(ctx') /\ Stage(ctx')
    BY <2>1 DEF IInv
  <2>3. Typed(ctx)' /\ Stage(ctx)'
    BY <2>1, <2>2, NextState
  <2>4. Asked(ctx, asked)' /\ (ctx'.waiting => Clock(ctx, now)')
    BY <2>1 DEF IInv, Asked, Clock
  <2> QED BY <1>2, <2>1, <2>3, <2>4, Zenon DEF IInv
<1> QED BY <1>1, <1>2

(* IInv is an invariant of the phase: every callback takes a context that  *)
(* is before its questions, waiting for them or over to another of these.  *)
THEOREM Invariance == Spec => []IInv
<1>1. Init => IInv
  BY InitInv
<1>2. IInv /\ [Next]_vars => IInv'
  BY StepInv
<1> QED BY <1>1, <1>2, PTL DEF Spec

(* A phase passes only on its merits or by the configuration.  The hard    *)
(* part is that no interleaving of answers, notices, timers and waves lets *)
(* a bound inspector go unheard without a cause being recorded.            *)
THEOREM Justification == Spec => []PassJustified
<1>1. IInv => PassJustified
  <2>1. SUFFICES ASSUME IInv, ctx.outcome = "pass", ctx.finish_how = "APPLY"
                 PROVE  Justified(ctx)
    BY Zenon DEF PassJustified, Justified
  <2>2. Over(ctx)
    BY <2>1, Zenon DEF IInv, Stage, Before, Waiting, Open, Running
  <2> QED BY <2>1, <2>2 DEF Over, Outcome, Decided
<1> QED BY <1>1, Invariance, PTL

(* Waves are asked in order, each only after the one before it is settled  *)
(* without a failure, and nobody waits past the deadline of the phase.     *)
THEOREM InOrder == Spec => []WavesInOrder
<1>1. IInv => WavesInOrder
  <2>1. SUFFICES ASSUME IInv PROVE WavesInOrder
    OBVIOUS
  <2>2. \A v \in 1 .. ctx.wave - 1 : \A i \in Waves[v].all : ctx.replies[i].state # "none"
    BY <2>1, Zenon DEF IInv, Typed, Order
  <2>3. \/ ctx.state \in {"NEXT_WAVE", "PLACING_META", "NEED_BODY"}
        \/ ctx.state = "READING_BODY" /\ ~ctx.agent_after_body
        \/ ctx.waiting /\ ctx.got = {}
        => ctx.fail = "none"
    BY <2>1, Zenon DEF IInv, Stage, Before, Waiting, Over
  <2>4. ASSUME ctx.waiting
        PROVE  now <= Max({ctx.first + Deadline, ctx.published}) + Lag
    <3>1. Waiting(ctx) /\ Clock(ctx, now) /\ now \in Nat /\ Typed(ctx)
      BY <2>1, <2>4, Zenon DEF IInv, Stage, Before, Over
    <3>2. /\ ctx.due \in Nat /\ ctx.first \in Nat /\ ctx.due = ctx.first + Deadline
          /\ ctx.published \in Nat
      BY <3>1, Zenon DEF Typed, Waiting, Open
    <3>3. ctx.first + Deadline \in Nat /\ Lag \in Nat
      BY <3>2, WaveAssumption, Zenon
    <3>4. PICK m : m = Max({ctx.first + Deadline, ctx.published})
      BY Zenon
    <3>5. m \in Nat /\ ctx.due <= m /\ ctx.published <= m
      BY <3>2, <3>3, <3>4, MaxNat
    <3>6. /\ ctx.timer \in Nat /\ now <= ctx.timer + Lag
          /\ ctx.timer <= ctx.due \/ ctx.timer <= ctx.published
      BY <3>1 DEF Clock
    <3>7. now <= m + Lag
      BY <3>1, <3>2, <3>3, <3>5, <3>6
    <3> QED BY <3>4, <3>7
  <2> QED BY <2>2, <2>3, <2>4, Zenon DEF WavesInOrder
<1> QED BY <1>1, Invariance, PTL

(* The versions of the rewritten body form one chain of bounded length,    *)
(* whichever inspectors rewrite and whenever a wave closes.                *)
THEOREM OneChain == Spec => []RewriteChain
<1>1. IInv => RewriteChain
  BY Zenon DEF IInv, Typed, Chain, RewriteChain
<1> QED BY <1>1, Invariance, PTL

(* A counted deny ends the phase with a deny, unless control actions were  *)
(* used: no failure, timeout or later wave overrules it.                   *)
THEOREM DenyStands == Spec => []DenyStandsUncontrolled
<1>1. IInv => DenyStandsUncontrolled
  <2>1. SUFFICES ASSUME IInv, ctx.ctl = NoControl, Counted(ctx, "deny") # {}
                 PROVE  ctx.outcome \notin {"pass", "redirect", "blocked"}
    BY DEF DenyStandsUncontrolled
  <2>2. CASE Over(ctx)
    BY <2>1, <2>2 DEF Over, Outcome, Decided
  <2>3. CASE ~Over(ctx)
    BY <2>1, <2>3, Zenon DEF IInv, Stage, Before, Waiting, Open, Running
  <2> QED BY <2>2, <2>3
<1> QED BY <1>1, Invariance, PTL

(* A stored answer is never changed again, but for the rewriter whose body *)
(* cannot be fetched.                                                      *)
THEOREM StoredOnce == Spec => AnswersStand
<1>1. IInv /\ [Next]_vars =>
        [\A i \in Inspectors :
           ctx.replies[i].received /\ ctx'.replies[i] # ctx.replies[i] =>
             /\ i = ctx'.live
             /\ ctx'.replies[i] = [ctx.replies[i] EXCEPT !.verdict = "deny"]]_vars
  <2>1. SUFFICES ASSUME IInv, [Next]_vars, vars' # vars,
                        NEW i \in Inspectors, ctx.replies[i].received,
                        ctx'.replies[i] # ctx.replies[i]
                 PROVE  /\ i = ctx'.live
                        /\ ctx'.replies[i] = [ctx.replies[i] EXCEPT !.verdict = "deny"]
    BY Zenon
  <2>2. Kept(ctx, ctx')
    BY <2>1, StepInv, Zenon
  <2> QED BY <2>1, <2>2, Zenon DEF Kept
<1> QED BY <1>1, Invariance, PTL DEF Spec, AnswersStand

-----------------------------------------------------------------------------
(* The masks of WaveModes. *)

(* control_set leaves overrides that give nobody two modes. *)
THEOREM ControlSetExclusive ==
    ASSUME NEW I, NEW ctl \in Controls(I), ExclusiveControl(ctl),
           NEW verb \in Verbs, NEW i \in I
    PROVE  /\ control_set(ctl, verb, i) \in Controls(I)
           /\ ExclusiveControl(control_set(ctl, verb, i))
BY Zenon DEF Controls, ExclusiveControl, Exclusive, Verbs, control_set

(* The four masks publish_wave, on_reply, fail and wave_advances work with *)
(* part the wave: an inspector is off, passive, voting or gating, and one  *)
(* of these only.                                                          *)
THEOREM ModesPart ==
    ASSUME NEW I, NEW ctl \in Controls(I), ExclusiveControl(ctl),
           NEW w \in WaveMasks(I), Exclusive(w),
           w.passive \cup w.vote \cup w.off \subseteq w.all
    PROVE  OneMode(ctl, w)
<1>1. /\ ctl.active \subseteq I /\ ctl.passive \subseteq I
      /\ ctl.off \subseteq I /\ ctl.vote \subseteq I
      /\ w.all \subseteq I
  BY DEF Controls, WaveMasks
<1>2. wave_off(ctl, w) \subseteq w.all
  BY Zenon DEF wave_off
<1>3. wave_passive(ctl, w) \cap wave_vote(ctl, w) = {}
  BY Zenon DEF wave_passive, wave_vote, ExclusiveControl, Exclusive
<1>4. /\ wave_passive(ctl, w) \subseteq Live(ctl, w)
      /\ wave_vote(ctl, w) \subseteq Live(ctl, w)
  BY Zenon DEF wave_passive, wave_vote
<1>5. /\ Live(ctl, w) \cup wave_off(ctl, w) = w.all
      /\ Live(ctl, w) \cap wave_off(ctl, w) = {}
  BY <1>2, Zenon DEF Live
<1>6. wave_gating(ctl, w) = (Live(ctl, w) \ wave_passive(ctl, w)) \ wave_vote(ctl, w)
  BY Zenon DEF wave_gating, wave_mandatory
<1> QED
  BY <1>3, <1>4, <1>5, <1>6, Zenon DEF OneMode

(* A control action has exactly the effect it names: the addressee is in   *)
(* the mode of the verb, whatever its binding and the earlier actions, and *)
(* everyone else is where they were.                                       *)
THEOREM ControlGoverns ==
    ASSUME NEW I, NEW ctl \in Controls(I), ExclusiveControl(ctl),
           NEW w \in WaveMasks(I), Exclusive(w),
           w.passive \cup w.vote \cup w.off \subseteq w.all,
           NEW verb \in Verbs, NEW i \in w.all
    PROVE  /\ i \in InMode(control_set(ctl, verb, i), w, verb)
           /\ \A j \in w.all \ {i}, v \in Verbs :
                j \in InMode(control_set(ctl, verb, i), w, v) <=> j \in InMode(ctl, w, v)
<1> DEFINE new == control_set(ctl, verb, i)
<1>1. /\ new.active = IF verb = "active" THEN ctl.active \cup {i} ELSE ctl.active \ {i}
      /\ new.passive = IF verb = "passive" THEN ctl.passive \cup {i} ELSE ctl.passive \ {i}
      /\ new.off = IF verb = "off" THEN ctl.off \cup {i} ELSE ctl.off \ {i}
      /\ new.vote = IF verb = "vote" THEN ctl.vote \cup {i} ELSE ctl.vote \ {i}
  BY Zenon DEF control_set
<1>2. \A j \in w.all \ {i} :
        /\ j \in new.active <=> j \in ctl.active
        /\ j \in new.passive <=> j \in ctl.passive
        /\ j \in new.off <=> j \in ctl.off
        /\ j \in new.vote <=> j \in ctl.vote
  BY <1>1, Zenon
<1> HIDE DEF new
<1>3. \A j \in w.all \ {i} :
        /\ j \in wave_off(new, w) <=> j \in wave_off(ctl, w)
        /\ j \in wave_passive(new, w) <=> j \in wave_passive(ctl, w)
        /\ j \in wave_vote(new, w) <=> j \in wave_vote(ctl, w)
        /\ j \in wave_gating(new, w) <=> j \in wave_gating(ctl, w)
  <2>1. \A j \in w.all \ {i} : j \in wave_off(new, w) <=> j \in wave_off(ctl, w)
    BY <1>2, Zenon DEF wave_off
  <2>2. \A j \in w.all \ {i} : j \in Live(new, w) <=> j \in Live(ctl, w)
    BY <2>1, Zenon DEF Live
  <2>3. \A j \in w.all \ {i} : j \in wave_passive(new, w) <=> j \in wave_passive(ctl, w)
    BY <1>2, <2>2, Zenon DEF wave_passive
  <2>4. \A j \in w.all \ {i} : j \in wave_vote(new, w) <=> j \in wave_vote(ctl, w)
    BY <1>2, <2>2, Zenon DEF wave_vote
  <2>5. \A j \in w.all \ {i} : j \in wave_gating(new, w) <=> j \in wave_gating(ctl, w)
    BY <2>2, <2>3, <2>4, Zenon DEF wave_gating, wave_mandatory
  <2> QED BY <2>1, <2>3, <2>4, <2>5, Zenon
<1>4. \A j \in w.all \ {i}, v \in Verbs : j \in InMode(new, w, v) <=> j \in InMode(ctl, w, v)
  BY <1>3 DEF InMode, Verbs
<1>5. CASE verb = "off"
  <2>1. i \in wave_off(new, w)
    BY <1>1, <1>5, Zenon DEF wave_off
  <2> QED BY <2>1, <1>4, <1>5, Zenon DEF InMode, new
<1>6. CASE verb = "passive"
  <2>1. i \in wave_passive(new, w)
    BY <1>1, <1>6, Zenon DEF wave_off, wave_passive, Live
  <2> QED BY <2>1, <1>4, <1>6, Zenon DEF InMode, new
<1>7. CASE verb = "vote"
  <2>1. i \in wave_vote(new, w)
    BY <1>1, <1>7, Zenon DEF wave_off, wave_vote, Live
  <2> QED BY <2>1, <1>4, <1>7, Zenon DEF InMode, new
<1>8. CASE verb = "active"
  <2>1. i \in wave_gating(new, w)
    BY <1>1, <1>8, Zenon DEF wave_off, wave_passive, wave_vote, wave_gating, wave_mandatory,
       Live
  <2> QED BY <2>1, <1>4, <1>8, Zenon DEF InMode, new
<1> QED BY <1>5, <1>6, <1>7, <1>8, Zenon DEF Verbs
=============================================================================
