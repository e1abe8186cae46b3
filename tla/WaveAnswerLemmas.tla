-------------------------- MODULE WaveAnswerLemmas -------------------------
(***************************************************************************)
(* What an answer, a deadline of the timer and a failed wave do to the     *)
(* context of a phase whose wave is open, and what publish_wave does to    *)
(* one whose wave goes out; continues WavePhaseLemmas.                     *)
(***************************************************************************)
EXTENDS WavePhaseLemmas

-----------------------------------------------------------------------------
(* An answer. *)

Action == [verb : Verbs \cup {"score", "note"}, to : Int, value : Int]

(* The parser keeps a sequence of actions. *)
LEMMA ControlOnly ==
    ASSUME NEW A, NEW actions \in Seq(A)
    PROVE  control_only(actions) \in Seq(A)
<1>1. Len(actions) \in Nat /\ \A k \in 1 .. Len(actions) : actions[k] \in A
  OBVIOUS
<1>2. PICK S : S = {n \in Nat : n <= Len(actions) =>
                      \E f : f = [k \in 0 .. n |->
                          IF k = 0 THEN <<>>
                          ELSE IF actions[k].verb \in Verbs THEN Append(f[k - 1], actions[k])
                          ELSE f[k - 1]]}
  BY Zenon
<1>3. 0 \in S
  <2>1. PICK f : f = [k \in 0 .. 0 |-> <<>>]
    BY Zenon
  <2>2. f = [k \in 0 .. 0 |->
                IF k = 0 THEN <<>>
                ELSE IF actions[k].verb \in Verbs THEN Append(f[k - 1], actions[k])
                ELSE f[k - 1]]
    BY <2>1
  <2> QED BY <1>2, <2>2
<1>4. ASSUME NEW n \in Nat, n \in S PROVE n + 1 \in S
  <2>1. SUFFICES ASSUME n + 1 <= Len(actions)
                 PROVE  \E g : g = [k \in 0 .. n + 1 |->
                            IF k = 0 THEN <<>>
                            ELSE IF actions[k].verb \in Verbs THEN Append(g[k - 1], actions[k])
                            ELSE g[k - 1]]
    BY <1>2
  <2>2. n <= Len(actions)
    BY <1>1, <2>1
  <2>3. PICK f : f = [k \in 0 .. n |->
                        IF k = 0 THEN <<>>
                        ELSE IF actions[k].verb \in Verbs THEN Append(f[k - 1], actions[k])
                        ELSE f[k - 1]]
    BY <1>2, <1>4, <2>2, Zenon
  <2>4. PICK last : last = IF actions[n + 1].verb \in Verbs THEN Append(f[n], actions[n + 1])
                           ELSE f[n]
    BY Zenon
  <2>5. PICK g : g = [k \in 0 .. n + 1 |-> IF k = n + 1 THEN last ELSE f[k]]
    BY Zenon
  <2>6. \A k \in 0 .. n + 1 :
          g[k] = IF k = 0 THEN <<>>
                 ELSE IF actions[k].verb \in Verbs THEN Append(g[k - 1], actions[k])
                 ELSE g[k - 1]
    <3>1. g[n + 1] = last /\ g[n] = f[n] /\ n + 1 # 0
      BY <2>5
    <3>2. \A k \in 0 .. n : g[k] = f[k] /\ (k # 0 => g[k - 1] = f[k - 1])
      BY <2>5
    <3>3. \A k \in 0 .. n :
            g[k] = IF k = 0 THEN <<>>
                   ELSE IF actions[k].verb \in Verbs THEN Append(g[k - 1], actions[k])
                   ELSE g[k - 1]
      <4>1. \A k \in 0 .. n :
              f[k] = IF k = 0 THEN <<>>
                     ELSE IF actions[k].verb \in Verbs THEN Append(f[k - 1], actions[k])
                     ELSE f[k - 1]
        BY <2>3, Zenon
      <4> QED BY <3>2, <4>1
    <3>4. \A k \in 0 .. n + 1 : k \in 0 .. n \/ k = n + 1
      OBVIOUS
    <3>5. (n + 1) - 1 = n
      OBVIOUS
    <3> QED BY <2>4, <3>1, <3>3, <3>4, <3>5, Zenon
  <2>7. g = [k \in 0 .. n + 1 |->
               IF k = 0 THEN <<>>
               ELSE IF actions[k].verb \in Verbs THEN Append(g[k - 1], actions[k])
               ELSE g[k - 1]]
    BY <2>5, <2>6
  <2> QED BY <2>7, Zenon
<1>5. Len(actions) \in S
  BY <1>1, <1>3, <1>4, SetInduction
<1>6. PICK kept : /\ kept = CHOOSE f : f = [k \in 0 .. Len(actions) |->
                          IF k = 0 THEN <<>>
                          ELSE IF actions[k].verb \in Verbs THEN Append(f[k - 1], actions[k])
                          ELSE f[k - 1]]
                  /\ control_only(actions) = kept[Len(actions)]
  BY Zenon DEF control_only
<1>7. kept = [k \in 0 .. Len(actions) |->
                IF k = 0 THEN <<>>
                ELSE IF actions[k].verb \in Verbs THEN Append(kept[k - 1], actions[k])
                ELSE kept[k - 1]]
  <2>1. \E f : f = [k \in 0 .. Len(actions) |->
                      IF k = 0 THEN <<>>
                      ELSE IF actions[k].verb \in Verbs THEN Append(f[k - 1], actions[k])
                      ELSE f[k - 1]]
    BY <1>1, <1>2, <1>5
  <2> QED BY <1>6, <2>1, Zenon
<1>8. /\ kept[0] = <<>>
      /\ \A k \in 1 .. Len(actions) :
           kept[k] = IF actions[k].verb \in Verbs THEN Append(kept[k - 1], actions[k])
                     ELSE kept[k - 1]
  <2>1. \A k \in 0 .. Len(actions) :
          kept[k] = IF k = 0 THEN <<>>
                    ELSE IF actions[k].verb \in Verbs THEN Append(kept[k - 1], actions[k])
                    ELSE kept[k - 1]
    BY <1>7, Zenon
  <2>2. 0 \in 0 .. Len(actions)
    BY <1>1
  <2>3. \A k \in 1 .. Len(actions) : k \in 0 .. Len(actions) /\ k # 0
    BY <1>1
  <2> QED BY <2>1, <2>2, <2>3, Zenon
<1>9. PICK T : T = {n \in Nat : n <= Len(actions) => kept[n] \in Seq(A)}
  BY Zenon
<1>10. 0 \in T
  <2>1. <<>> \in Seq(A) /\ 0 \in Nat
    OBVIOUS
  <2> QED BY <1>8, <1>9, <2>1, Zenon
<1>11. ASSUME NEW n \in Nat, n \in T PROVE n + 1 \in T
  <2>1. SUFFICES ASSUME n + 1 <= Len(actions) PROVE kept[n + 1] \in Seq(A)
    BY <1>9
  <2>2. n + 1 \in 1 .. Len(actions) /\ (n + 1) - 1 = n /\ kept[n] \in Seq(A)
    BY <1>1, <1>9, <1>11, <2>1
  <2>3. kept[n + 1] = Append(kept[n], actions[n + 1]) \/ kept[n + 1] = kept[n]
    BY <1>8, <2>2, Zenon
  <2>4. Append(kept[n], actions[n + 1]) \in Seq(A)
    BY <1>1, <2>2
  <2> QED BY <2>2, <2>3, <2>4, Zenon
<1>12. Len(actions) \in T
  BY <1>1, <1>10, <1>11, SetInduction
<1> QED BY <1>1, <1>6, <1>9, <1>12

LEMMA MinMaxInt ==
    ASSUME NEW a \in Int, NEW b \in Int
    PROVE  Min({a, b}) \in Int /\ Max({a, b}) \in Int
<1>1. /\ \E x \in {a, b} : \A y \in {a, b} : x >= y
      /\ \E x \in {a, b} : \A y \in {a, b} : x <= y
  BY a <= b \/ b <= a
<1>2. Max({a, b}) \in {a, b} /\ Min({a, b}) \in {a, b}
  BY <1>1 DEF Max, Min
<1> QED BY <1>2

(* The inspectors some control action is about. *)
Touched(ctl) == ctl.active \cup ctl.passive \cup ctl.off \cup ctl.vote

Mergeable(c) ==
    /\ DOMAIN c = CtxFields /\ c.replies \in [Inspectors -> Reply]
    /\ c.order \in Nat /\ c.score \in Int

(* What the answer of i may change once it is stored: its score, its place *)
(* in the order of arrival, the actions and, unless i is passive, modes.   *)
Merged(c, i, d) ==
    /\ Mergeable(d)
    /\ Same(c, d, {"order", "score", "replies", "actions", "ctl"})
    /\ \A j \in Inspectors \ {i} : d.replies[j] = c.replies[j]
    /\ d.replies[i].received = c.replies[i].received
    /\ d.replies[i].state = c.replies[i].state
    /\ d.replies[i].verdict = c.replies[i].verdict
    /\ d.replies[i].passive = c.replies[i].passive
    /\ d.replies[i].vote = c.replies[i].vote
    /\ Touched(c.ctl) \subseteq Touched(d.ctl)
    /\ d.ctl = c.ctl \/ d.ctl # NoControl
    /\ c.replies[i].passive => d.ctl = c.ctl

LEMMA MergedSelf ==
    ASSUME NEW c, Mergeable(c), NEW i
    PROVE  Merged(c, i, c)
BY Zenon DEF Merged, Mergeable, Same

LEMMA MergedTrans ==
    ASSUME NEW c, NEW d, NEW e, NEW i, Merged(c, i, d), Merged(d, i, e)
    PROVE  Merged(c, i, e)
<1>1. Same(c, e, {"order", "score", "replies", "actions", "ctl"})
  BY DEF Merged, Same
<1>2. \A j \in Inspectors \ {i} : e.replies[j] = c.replies[j]
  BY DEF Merged
<1>3. /\ Touched(c.ctl) \subseteq Touched(e.ctl)
      /\ e.ctl = c.ctl \/ e.ctl # NoControl
      /\ c.replies[i].passive => e.ctl = c.ctl
  BY Zenon DEF Merged
<1> QED BY <1>1, <1>2, <1>3, Zenon DEF Merged

LEMMA ControlTouches ==
    ASSUME NEW ctl, NEW verb \in Verbs, NEW i
    PROVE  /\ Touched(ctl) \subseteq Touched(control_set(ctl, verb, i))
           /\ control_set(ctl, verb, i) # NoControl
<1>1. PICK new : new = control_set(ctl, verb, i)
  BY Zenon
<1>2. /\ new.active = IF verb = "active" THEN ctl.active \cup {i} ELSE ctl.active \ {i}
      /\ new.passive = IF verb = "passive" THEN ctl.passive \cup {i} ELSE ctl.passive \ {i}
      /\ new.off = IF verb = "off" THEN ctl.off \cup {i} ELSE ctl.off \ {i}
      /\ new.vote = IF verb = "vote" THEN ctl.vote \cup {i} ELSE ctl.vote \ {i}
  BY <1>1 DEF control_set
<1>3. i \in Touched(new) /\ Touched(ctl) \subseteq Touched(new)
  BY <1>2 DEF Touched, Verbs
<1>4. Touched(NoControl) = {}
  BY DEF Touched, NoControl
<1> QED BY <1>1, <1>3, <1>4

LEMMA ScoreApply ==
    ASSUME NEW c, Mergeable(c), NEW i \in Inspectors, NEW value \in Int, ScoreMax \in Nat,
           NEW d, d = score_apply(c, i, value)
    PROVE  Merged(c, i, d)
<1>1. PICK was : was = c.replies[i].score
  BY Zenon
<1>2. was \in Int /\ c.score \in Int /\ c.replies[i] \in Reply
  BY <1>1 DEF Mergeable, Reply
<1>3. PICK moved : moved = Max({-ScoreMax, Min({ScoreMax, was + value})}) - was
  BY Zenon
<1>4. moved \in Int
  <2>1. Min({ScoreMax, was + value}) \in Int
    BY <1>2, MinMaxInt
  <2>2. -ScoreMax \in Int
    OBVIOUS
  <2>3. Max({-ScoreMax, Min({ScoreMax, was + value})}) \in Int
    BY <2>1, <2>2, MinMaxInt, Zenon
  <2> QED BY <1>2, <1>3, <2>3
<1>5. PICK applied : applied = IF c.score + moved < 0 THEN -c.score ELSE moved
  BY Zenon
<1>6. applied \in Int /\ was + applied \in Int /\ c.score + applied \in Int
  BY <1>2, <1>4, <1>5
<1>7. PICK x : x = was + applied
  BY Zenon
<1>8. PICK y : y = c.score + applied
  BY Zenon
<1>9. d = [c EXCEPT !.replies[i].score = x, !.score = y]
  BY <1>1, <1>3, <1>5, <1>7, <1>8, Zenon DEF score_apply
<1>10. PICK e : e = [c.replies[i] EXCEPT !.score = x]
  BY Zenon
<1>11. /\ e \in Reply /\ e.received = c.replies[i].received /\ e.state = c.replies[i].state
       /\ e.verdict = c.replies[i].verdict /\ e.passive = c.replies[i].passive
       /\ e.vote = c.replies[i].vote
  BY <1>2, <1>6, <1>7, <1>10 DEF Reply
<1>12. /\ Same(c, d, {"score", "replies"}) /\ d.score = y
       /\ d.replies = [c.replies EXCEPT ![i].score = x]
  BY <1>9, ZenonT(40) DEF Mergeable, Same, CtxFields
<1>13. d.replies = [c.replies EXCEPT ![i] = e]
  BY <1>10, <1>12, Zenon
<1>14. /\ d.replies \in [Inspectors -> Reply] /\ d.replies[i] = e
       /\ \A j \in Inspectors \ {i} : d.replies[j] = c.replies[j]
  BY <1>11, <1>13 DEF Mergeable
<1>15. d.ctl = c.ctl /\ d.order = c.order /\ DOMAIN d = CtxFields
  BY <1>12, Zenon DEF Same, CtxFields
<1>16. Mergeable(d)
  BY <1>6, <1>8, <1>12, <1>14, <1>15 DEF Mergeable
<1>17. Same(c, d, {"order", "score", "replies", "actions", "ctl"})
  BY <1>12 DEF Same
<1> QED BY <1>11, <1>14, <1>15, <1>16, <1>17, Zenon DEF Merged

LEMMA ActionMerge ==
    ASSUME NEW c, Mergeable(c), NEW i \in Inspectors, NEW a \in Action, ScoreMax \in Nat,
           NEW d, d = action_merge(c, i, a)
    PROVE  Merged(c, i, d)
<1>1. PICK key : key = <<i, a.verb, a.to>>
  BY Zenon
<1>2. PICK kept : kept = [c EXCEPT !.actions = c.actions \cup {key}]
  BY Zenon
<1>3. \/ d = c
      \/ a.verb \in Verbs /\ ~c.replies[i].passive
           /\ d = [kept EXCEPT !.ctl = control_set(kept.ctl, a.verb, a.to)]
      \/ d = score_apply(kept, i, a.value)
      \/ d = kept
  <2>1. CASE key \notin c.actions /\ Cardinality(c.actions) >= ActionsMax
    BY <1>1, <2>1, Zenon DEF action_merge
  <2>2. CASE /\ ~(key \notin c.actions /\ Cardinality(c.actions) >= ActionsMax)
             /\ a.verb \in Verbs /\ (c.replies[i].passive \/ a.to \notin Inspectors)
    BY <1>1, <2>2, Zenon DEF action_merge
  <2>3. CASE /\ ~(key \notin c.actions /\ Cardinality(c.actions) >= ActionsMax)
             /\ ~(a.verb \in Verbs /\ (c.replies[i].passive \/ a.to \notin Inspectors))
             /\ a.verb = "score" /\ c.replies[i].passive
    BY <1>1, <2>3, Zenon DEF action_merge
  <2>4. CASE /\ ~(key \notin c.actions /\ Cardinality(c.actions) >= ActionsMax)
             /\ ~(a.verb \in Verbs /\ (c.replies[i].passive \/ a.to \notin Inspectors))
             /\ ~(a.verb = "score" /\ c.replies[i].passive)
    <3>1. d = IF a.verb \in Verbs THEN [kept EXCEPT !.ctl = control_set(@, a.verb, a.to)]
              ELSE IF a.verb = "score" THEN score_apply(kept, i, a.value)
              ELSE kept
      BY <1>1, <1>2, <2>4, Zenon DEF action_merge
    <3> QED BY <2>4, <3>1, Zenon
  <2> QED BY <2>1, <2>2, <2>3, <2>4, Zenon
<1>4. /\ Same(c, kept, {"actions"}) /\ kept.replies = c.replies /\ kept.order = c.order
      /\ kept.score = c.score /\ kept.ctl = c.ctl /\ DOMAIN kept = CtxFields
  BY <1>2, Zenon DEF Mergeable, Same, CtxFields
<1>5. Mergeable(kept)
  BY <1>4, Zenon DEF Mergeable
<1>6. Same(c, kept, {"order", "score", "replies", "actions", "ctl"})
  BY <1>4 DEF Same
<1>7. Merged(c, i, kept)
  BY <1>4, <1>5, <1>6, Zenon DEF Merged
<1>8. CASE d = c
  BY <1>8, MergedSelf
<1>9. CASE d = kept
  BY <1>7, <1>9
<1>10. CASE d = score_apply(kept, i, a.value)
  <2>1. a.value \in Int
    BY DEF Action
  <2>2. Merged(kept, i, d)
    BY <1>5, <1>10, <2>1, ScoreApply
  <2> QED BY <1>7, <2>2, MergedTrans
<1>11. CASE /\ a.verb \in Verbs /\ ~c.replies[i].passive
            /\ d = [kept EXCEPT !.ctl = control_set(kept.ctl, a.verb, a.to)]
  <2>1. PICK ctl : ctl = control_set(c.ctl, a.verb, a.to)
    BY Zenon
  <2>2. a.verb \in Verbs /\ ~c.replies[i].passive
    BY <1>11, Zenon
  <2>3. Touched(c.ctl) \subseteq Touched(ctl) /\ ctl # NoControl
    BY <2>1, <2>2, ControlTouches, Zenon
  <2>4. /\ Same(kept, d, {"ctl"}) /\ d.ctl = ctl /\ d.replies = kept.replies
        /\ d.order = kept.order /\ d.score = kept.score /\ DOMAIN d = CtxFields
    <3>1. DOMAIN kept = CtxFields /\ kept.ctl = c.ctl
      BY <1>4, Zenon
    <3>2. d = [kept EXCEPT !.ctl = ctl]
      BY <1>11, <2>1, <3>1, Zenon
    <3>3. Same(kept, d, {"ctl"})
      BY <3>1, <3>2, Zenon DEF Same
    <3>4. d.ctl = ctl
      BY <3>1, <3>2, Zenon DEF CtxFields
    <3> QED BY <3>3, <3>4 DEF Same, CtxFields
  <2>5. Mergeable(d)
    BY <1>5, <2>4, Zenon DEF Mergeable
  <2>6. Same(c, d, {"order", "score", "replies", "actions", "ctl"})
    BY <1>4, <2>4 DEF Same
  <2> QED BY <1>4, <2>2, <2>3, <2>4, <2>5, <2>6, Zenon DEF Merged
<1> QED BY <1>3, <1>8, <1>9, <1>10, <1>11, Zenon

(* The actions of one answer, in their order. *)
LEMMA ActionsMerge ==
    ASSUME NEW c, Mergeable(c), NEW i \in Inspectors, NEW actions \in Seq(Action),
           ScoreMax \in Nat
    PROVE  Merged(c, i, actions_merge(c, i, actions))
<1>1. Len(actions) \in Nat /\ \A k \in 1 .. Len(actions) : actions[k] \in Action
  OBVIOUS
<1>2. PICK S : S = {n \in Nat : n <= Len(actions) =>
                      \E f : f = [k \in 0 .. n |->
                          IF k = 0 THEN c ELSE action_merge(f[k - 1], i, actions[k])]}
  BY Zenon
<1>3. 0 \in S
  <2>1. PICK f : f = [k \in 0 .. 0 |-> c]
    BY Zenon
  <2>2. f = [k \in 0 .. 0 |-> IF k = 0 THEN c ELSE action_merge(f[k - 1], i, actions[k])]
    BY <2>1
  <2> QED BY <1>2, <2>2
<1>4. ASSUME NEW n \in Nat, n \in S PROVE n + 1 \in S
  <2>1. SUFFICES ASSUME n + 1 <= Len(actions)
                 PROVE  \E g : g = [k \in 0 .. n + 1 |->
                            IF k = 0 THEN c ELSE action_merge(g[k - 1], i, actions[k])]
    BY <1>2
  <2>2. n <= Len(actions)
    BY <1>1, <2>1
  <2>3. PICK f : f = [k \in 0 .. n |->
                        IF k = 0 THEN c ELSE action_merge(f[k - 1], i, actions[k])]
    BY <1>2, <1>4, <2>2
  <2>4. PICK last : last = action_merge(f[n], i, actions[n + 1])
    BY Zenon
  <2>5. PICK g : g = [k \in 0 .. n + 1 |-> IF k = n + 1 THEN last ELSE f[k]]
    BY Zenon
  <2>6. \A k \in 0 .. n + 1 :
          g[k] = IF k = 0 THEN c ELSE action_merge(g[k - 1], i, actions[k])
    <3>1. g[n + 1] = last /\ g[n] = f[n] /\ n + 1 # 0
      BY <2>5
    <3>2. \A k \in 0 .. n : g[k] = f[k] /\ (k # 0 => g[k - 1] = f[k - 1])
      BY <2>5
    <3>3. \A k \in 0 .. n :
            f[k] = IF k = 0 THEN c ELSE action_merge(f[k - 1], i, actions[k])
      BY <2>3, Zenon
    <3>4. \A k \in 0 .. n + 1 : k \in 0 .. n \/ k = n + 1
      OBVIOUS
    <3>5. (n + 1) - 1 = n
      OBVIOUS
    <3> QED BY <2>4, <3>1, <3>2, <3>3, <3>4, <3>5, Zenon
  <2>7. g = [k \in 0 .. n + 1 |->
               IF k = 0 THEN c ELSE action_merge(g[k - 1], i, actions[k])]
    BY <2>5, <2>6
  <2> QED BY <2>7
<1>5. Len(actions) \in S
  BY <1>1, <1>3, <1>4, SetInduction
<1>6. PICK merged : /\ merged = CHOOSE f : f = [k \in 0 .. Len(actions) |->
                          IF k = 0 THEN c ELSE action_merge(f[k - 1], i, actions[k])]
                    /\ actions_merge(c, i, actions) = merged[Len(actions)]
  BY Zenon DEF actions_merge
<1>7. \A k \in 0 .. Len(actions) :
        merged[k] = IF k = 0 THEN c ELSE action_merge(merged[k - 1], i, actions[k])
  <2>1. \E f : f = [k \in 0 .. Len(actions) |->
                      IF k = 0 THEN c ELSE action_merge(f[k - 1], i, actions[k])]
    BY <1>1, <1>2, <1>5
  <2>2. merged = [k \in 0 .. Len(actions) |->
                    IF k = 0 THEN c ELSE action_merge(merged[k - 1], i, actions[k])]
    BY <1>6, <2>1, Zenon
  <2> QED BY <2>2, Zenon
<1>8. PICK T : T = {n \in Nat : n <= Len(actions) => Merged(c, i, merged[n])}
  BY Zenon
<1>9. 0 \in T
  <2>1. 0 \in 0 .. Len(actions) /\ 0 \in Nat
    BY <1>1
  <2>2. merged[0] = c
    BY <1>7, <2>1, Zenon
  <2> QED BY <1>8, <2>1, <2>2, MergedSelf, Zenon
<1>10. ASSUME NEW n \in Nat, n \in T PROVE n + 1 \in T
  <2>1. SUFFICES ASSUME n + 1 <= Len(actions) PROVE Merged(c, i, merged[n + 1])
    BY <1>8
  <2>2. n + 1 \in 1 .. Len(actions) /\ n + 1 \in 0 .. Len(actions) /\ (n + 1) - 1 = n
        /\ n + 1 # 0 /\ n <= Len(actions)
    BY <1>1, <2>1
  <2>3. Merged(c, i, merged[n])
    BY <1>8, <1>10, <2>2
  <2>4. merged[n + 1] = action_merge(merged[n], i, actions[n + 1])
    BY <1>7, <2>2, Zenon
  <2>5. Mergeable(merged[n]) /\ actions[n + 1] \in Action
    BY <1>1, <2>2, <2>3, Zenon DEF Merged
  <2>6. Merged(merged[n], i, merged[n + 1])
    BY <2>4, <2>5, ActionMerge
  <2> QED BY <2>3, <2>6, MergedTrans
<1>11. Len(actions) \in T
  BY <1>1, <1>9, <1>10, SetInduction
<1>12. Merged(c, i, merged[Len(actions)])
  BY <1>1, <1>8, <1>11
<1> QED BY <1>6, <1>12

LEMMA Account ==
    ASSUME NEW c, Mergeable(c), NEW i \in Inspectors, ScoreMax \in Nat, NEW d, d = account(c, i)
    PROVE  Merged(c, i, d)
<1>1. c.replies[i] \in Reply /\ c.order + 1 \in Nat /\ c.score \in Int
  BY DEF Mergeable
<1>2. PICK n : n = c.order + 1
  BY Zenon
<1>3. PICK x : x = IF c.replies[i].vote /\ c.replies[i].verdict = "deny" THEN ScoreMax
                   ELSE c.replies[i].score
  BY Zenon
<1>4. PICK y : y = IF c.replies[i].passive \/ x <= 0 THEN c.score ELSE c.score + x
  BY Zenon
<1>5. x \in Int /\ y \in Int /\ n \in Nat
  <2>1. c.replies[i].score \in Int
    BY <1>1 DEF Reply
  <2>2. x \in Int
    BY <1>3, <2>1
  <2> QED BY <1>1, <1>2, <1>4, <2>2
<1>6. PICK e : /\ \/ e = [c.replies[i] EXCEPT !.order = n]
                  \/ e = [c.replies[i] EXCEPT !.order = n, !.score = x]
               /\ \/ d = [c EXCEPT !.order = n, !.replies[i] = e]
                  \/ d = [c EXCEPT !.order = n, !.score = y, !.replies[i] = e]
  <2>1. CASE c.replies[i].verdict # "score"
             /\ ~(c.replies[i].vote /\ c.replies[i].verdict = "deny")
    BY <1>2, <2>1, Zenon DEF account
  <2>2. CASE ~(c.replies[i].verdict # "score"
               /\ ~(c.replies[i].vote /\ c.replies[i].verdict = "deny"))
    BY <1>2, <1>3, <1>4, <2>2, Zenon DEF account
  <2> QED BY <2>1, <2>2, Zenon
<1>7. /\ Same(c, d, {"order", "score", "replies"})
      /\ d.order = n /\ d.score \in {c.score, y}
      /\ d.replies = [c.replies EXCEPT ![i] = e]
  <2>1. DOMAIN c = CtxFields
    BY DEF Mergeable
  <2>2. CASE d = [c EXCEPT !.order = n, !.replies[i] = e]
    BY <2>1, <2>2, ZenonT(40) DEF Same, CtxFields
  <2>3. CASE d = [c EXCEPT !.order = n, !.score = y, !.replies[i] = e]
    BY <2>1, <2>3, ZenonT(40) DEF Same, CtxFields
  <2> QED BY <1>6, <2>2, <2>3
<1>8. \/ e = [c.replies[i] EXCEPT !.order = n]
      \/ e = [c.replies[i] EXCEPT !.order = n, !.score = x]
  BY <1>6, Zenon
<1>9. /\ e \in Reply /\ e.received = c.replies[i].received /\ e.state = c.replies[i].state
      /\ e.verdict = c.replies[i].verdict /\ e.passive = c.replies[i].passive
      /\ e.vote = c.replies[i].vote
  BY <1>1, <1>5, <1>8, Zenon DEF Reply
<1>10. /\ d.replies \in [Inspectors -> Reply] /\ d.replies[i] = e
       /\ \A j \in Inspectors \ {i} : d.replies[j] = c.replies[j]
  BY <1>7, <1>9 DEF Mergeable
<1>11. d.ctl = c.ctl /\ DOMAIN d = CtxFields
  BY <1>7, Zenon DEF Same, CtxFields
<1>12. Mergeable(d)
  BY <1>1, <1>5, <1>7, <1>10, <1>11 DEF Mergeable
<1>13. Same(c, d, {"order", "score", "replies", "actions", "ctl"})
  BY <1>7 DEF Same
<1> QED BY <1>9, <1>10, <1>11, <1>12, <1>13, Zenon DEF Merged

(* The answer of i has been stored and merged. *)
Answered(c, i, e) ==
    /\ Same(c, e, {"got", "resolved", "replies", "order", "score", "actions", "ctl", "denied"})
    /\ Mergeable(e) /\ e.got = c.got \cup {i}
    /\ \A j \in Inspectors \ {i} : e.replies[j] = c.replies[j]
    /\ e.replies[i].received /\ e.replies[i].state # "none"
    /\ e.replies[i].passive <=> i \in wave_passive(c.ctl, Wave(c))
    /\ e.replies[i].vote <=> i \in wave_vote(c.ctl, Wave(c))
    /\ Touched(c.ctl) \subseteq Touched(e.ctl)
    /\ e.ctl = c.ctl \/ e.ctl # NoControl
    /\ e.replies[i].passive => e.ctl = c.ctl
    /\ \/ e.denied = c.denied /\ e.replies[i].verdict \notin {"deny", "redirect"}
       \/ e.denied = c.denied \cup {i} /\ e.replies[i].verdict \in {"deny", "redirect"}

LEMMA BoundTouched ==
    ASSUME NEW c, NEW e, e.wave = c.wave, e.cond_off = c.cond_off,
           Touched(c.ctl) \subseteq Touched(e.ctl)
    PROVE  Bound(e) \subseteq Bound(c)
<1>1. PICK U : U = UNION {wave_mandatory(NoControl, Waves[w]) : w \in 1 .. c.wave}
  BY Zenon
<1>2. /\ Bound(c) = U \ (c.ctl.active \cup c.ctl.passive \cup c.ctl.off \cup c.ctl.vote
                           \cup c.cond_off)
      /\ Bound(e) = U \ (e.ctl.active \cup e.ctl.passive \cup e.ctl.off \cup e.ctl.vote
                           \cup c.cond_off)
  BY <1>1, Zenon DEF Bound
<1> QED BY <1>2 DEF Touched

LEMMA AnsweredOpen ==
    ASSUME route \in DOMAIN Routes, NEW c, Typed(c), Open(c), NEW i \in Wave(c).all \ c.got,
           NEW e, Answered(c, i, e)
    PROVE  /\ Typed(e) /\ Open(e) /\ Wave(e) = Wave(c)
           /\ \A j \in Inspectors : c.replies[j].received => e.replies[j] = c.replies[j]
<1>1. PICK F : F = {"got", "resolved", "replies", "order", "score", "actions", "ctl", "denied"}
  BY Zenon
<1>2. {"wave", "rid", "rids", "verdict", "timer", "published", "due", "first", "applied",
       "depth", "stale", "live", "finish_how", "outcome", "agent_after_body", "placing",
       "awaited", "cond_off", "fail"} \subseteq CtxFields \ F
  BY <1>1 DEF CtxFields
<1>3. Same(c, e, F)
  BY <1>1, Zenon DEF Answered
<1>4. /\ e.wave = c.wave /\ e.rid = c.rid /\ e.rids = c.rids /\ e.verdict = c.verdict
      /\ e.timer = c.timer /\ e.published = c.published /\ e.due = c.due
      /\ e.first = c.first /\ e.applied = c.applied /\ e.depth = c.depth
      /\ e.stale = c.stale /\ e.live = c.live /\ DOMAIN e = CtxFields
  BY <1>2, <1>3, Zenon DEF Same
<1>5. /\ e.finish_how = c.finish_how /\ e.outcome = c.outcome
      /\ e.agent_after_body = c.agent_after_body /\ e.placing = c.placing
      /\ e.awaited = c.awaited /\ e.cond_off = c.cond_off /\ e.fail = c.fail
  BY <1>2, <1>3, Zenon DEF Same
<1>6. /\ Wave(e) = Wave(c) /\ Earlier(e) = Earlier(c)
  BY <1>4, Zenon DEF Wave, Earlier
<1>7. /\ i \in Inspectors /\ i \notin c.got /\ i \in Wave(c).all
      /\ Wave(c).all \subseteq Inspectors
      /\ e.got = c.got \cup {i} /\ c.replies[i] = NoReply
  BY WaveFacts, Zenon DEF Answered, Open
<1>8. /\ e.replies \in [Inspectors -> Reply] /\ e.order \in Nat /\ e.score \in Int
      /\ \A j \in Inspectors \ {i} : e.replies[j] = c.replies[j]
      /\ e.replies[i].state # "none" /\ e.replies[i].received
  BY DEF Answered, Mergeable
<1>9. \A j \in Inspectors : c.replies[j].received => e.replies[j] = c.replies[j]
  BY <1>7, <1>8 DEF NoReply
<1>10. Typed(e)
  <2>1. \A v \in 1 .. c.wave - 1 : Waves[v].all \subseteq Inspectors \ {i}
    BY <1>7, WaveFacts, RouteFacts
  <2>2. Order(e)
    BY <1>4, <1>8, <2>1, ZenonT(40) DEF Typed, Order
  <2>3. Chain(e)
    BY <1>4 DEF Typed, Chain
  <2> QED BY <1>4, <1>8, <2>2, <2>3, Zenon DEF Typed
<1>11. Running(e)
  <2>1. \A v \in DOMAIN Waves : v > c.wave => Waves[v].all \subseteq Inspectors \ {i}
    BY <1>7, WaveFacts, RouteFacts
  <2> QED BY <1>4, <1>5, <1>6, <1>8, <2>1 DEF Open, Running
<1>12. ASSUME e.fail = "none", NEW j \in Bound(e)
       PROVE  j \in Wave(e).all \ e.got \/ e.replies[j].received
  <2>1. j \in Bound(c)
    BY <1>4, <1>5, <1>12, BoundTouched, Zenon DEF Answered
  <2>2. j \in Inspectors /\ (j \in Wave(c).all \ c.got \/ c.replies[j].received)
    BY <1>5, <1>12, <2>1, BoundIn, Zenon DEF Open
  <2> QED BY <1>6, <1>7, <1>8, <2>2
<1>13. ASSUME e.ctl = NoControl PROVE Uncontrolled(e)
  <2>1. c.ctl = NoControl /\ Uncontrolled(c)
    BY <1>13, Zenon DEF Answered, Open
  <2>2. i \notin wave_off(NoControl, Wave(c)) /\ wave_off(NoControl, Wave(c)) \subseteq e.got
    BY <1>7, <2>1 DEF Uncontrolled
  <2>3. Counted(e, "deny") \subseteq e.denied
    <3>1. ASSUME NEW j \in Counted(e, "deny"), j # i PROVE j \in Counted(c, "deny")
      BY <1>8, <3>1 DEF Counted
    <3>2. i \in Counted(e, "deny") => i \in e.denied
      BY Zenon DEF Counted, Answered
    <3>3. c.denied \subseteq e.denied
      BY Zenon DEF Answered
    <3> QED BY <2>1, <3>1, <3>2, <3>3 DEF Uncontrolled
  <2>4. /\ e.replies[i].passive <=> i \in wave_passive(NoControl, Wave(c))
        /\ e.replies[i].vote <=> i \in wave_vote(NoControl, Wave(c))
    BY <2>1, Zenon DEF Answered
  <2> QED BY <1>6, <1>7, <1>8, <2>1, <2>2, <2>3, <2>4, Zenon DEF Uncontrolled
<1>14. /\ e.got \subseteq Wave(e).all /\ e.denied \subseteq e.got
       /\ e.awaited \subseteq Wave(e).all /\ Wave(e).all \subseteq e.got \cup e.awaited
  BY <1>5, <1>6, <1>7, Zenon DEF Open, Answered
<1>15. /\ \A j \in Wave(e).all \ e.got : e.replies[j] = NoReply
       /\ \A j \in e.got : e.replies[j].state # "none"
  BY <1>6, <1>7, <1>8, Zenon DEF Open
<1>16. \A j \in e.denied :
         e.replies[j].received /\ e.replies[j].verdict \in {"deny", "redirect"}
  <2>1. \A j \in c.denied : j \in Inspectors \ {i}
    BY <1>7, Zenon DEF Open
  <2> QED BY <1>8, <2>1 DEF Open, Answered
<1>17. e.placing = "none" /\ e.due # NIL
  BY <1>4, <1>5, Zenon DEF Open
<1>18. Open(e)
  BY <1>11, <1>12, <1>13, <1>14, <1>15, <1>16, <1>17, Zenon DEF Open
<1> QED BY <1>6, <1>9, <1>10, <1>18

LEMMA MsgReply ==
    ASSUME NEW r \in Payload
    PROVE  msg_reply(r) \in Payload
<1>1. PICK V : V = {"allow", "score", "redirect", "deny", "error"}
  BY Zenon
<1>2. Payload = [verdict : V, score : Int, overload : BOOLEAN, rewrite : BOOLEAN,
                 actions : Seq(Action)]
  BY <1>1, Zenon DEF Payload, Action
<1>3. /\ r.verdict \in V /\ r.score \in Int /\ r.overload \in BOOLEAN
      /\ r.rewrite \in BOOLEAN /\ r.actions \in Seq(Action)
      /\ r = [verdict |-> r.verdict, score |-> r.score, overload |-> r.overload,
              rewrite |-> r.rewrite, actions |-> r.actions]
  BY <1>2, Zenon
<1>4. PICK taken : taken = IF r.verdict = "redirect" /\ ~IsRequest THEN "allow" ELSE r.verdict
  BY Zenon
<1>5. PICK score : score = IF taken = "score" THEN r.score ELSE 0
  BY Zenon
<1>6. PICK rewrite : rewrite = (r.rewrite /\ taken # "error")
  BY Zenon
<1>7. PICK actions : actions = IF taken = "error" THEN control_only(r.actions) ELSE r.actions
  BY Zenon
<1>8. msg_reply(r) = [r EXCEPT !.verdict = taken, !.score = score, !.rewrite = rewrite,
                               !.actions = actions]
  BY <1>4, <1>5, <1>6, <1>7, Zenon DEF msg_reply
<1>9. taken \in V /\ score \in Int /\ rewrite \in BOOLEAN
  BY <1>1, <1>3, <1>4, <1>5, <1>6
<1>10. actions \in Seq(Action)
  BY <1>3, <1>7, ControlOnly, Zenon
<1> HIDE DEF Action
<1> QED BY <1>2, <1>3, <1>8, <1>9, <1>10, Zenon

(* The reply as it is stored. *)
LEMMA ReplyRecord ==
    ASSUME NEW r \in Payload, NEW p \in BOOLEAN, NEW v \in BOOLEAN, NEW rep,
           rep = [received |-> TRUE, state |-> "answered", verdict |-> r.verdict,
                  score |-> r.score, rewrite |-> r.rewrite, passive |-> p, vote |-> v,
                  order |-> 0]
    PROVE  /\ rep \in Reply
           /\ rep.received /\ rep.state = "answered" /\ rep.verdict = r.verdict
           /\ rep.passive = p /\ rep.vote = v
<1>1. /\ TRUE \in BOOLEAN /\ 0 \in Nat
      /\ "answered" \in {"none", "answered", "skipped", "absent", "timeout", "off"}
  OBVIOUS
<1>2. /\ r.verdict \in {"allow", "score", "redirect", "deny", "error"} /\ r.score \in Int
      /\ r.rewrite \in BOOLEAN
  BY DEF Payload
<1>3. rep \in Reply
  BY <1>1, <1>2, Zenon DEF Reply
<1> QED BY <1>3, Zenon

(* An inspector answers: its answer is dropped, or the wave stays open, or *)
(* it closes, or the answer ends it.                                       *)
LEMMA OnReplySteps ==
    ASSUME route \in DOMAIN Routes, NEW c, Typed(c), Open(c), NEW i, NEW r \in Payload,
           NEW d \in on_reply(c, i, r)
    PROVE  \/ d = c
           \/ /\ Typed(d) /\ Open(d) /\ ~wave_closed(d) /\ d.got # {} /\ Kept(c, d)
              /\ Same(c, d, {"got", "resolved", "replies", "order", "score", "actions",
                             "ctl", "denied"})
           \/ Advanced(c, d)
<1>1. CASE ~unsettled(c, i)
  BY <1>1, Zenon DEF on_reply
<1>2. CASE unsettled(c, i)
  <2>1. i \in Wave(c).all \ c.got /\ i \in Inspectors
    BY <1>2, WaveFacts, Zenon DEF unsettled
  <2>2. PICK p : p = (i \in wave_passive(c.ctl, Wave(c)))
    BY Zenon
  <2>3. PICK v : v = (i \in wave_vote(c.ctl, Wave(c)))
    BY Zenon
  <2>31. p \in BOOLEAN /\ v \in BOOLEAN
    BY <2>2, <2>3
  <2>4. PICK rep : rep = [received |-> TRUE, state |-> "answered", verdict |-> r.verdict,
                          score |-> r.score, rewrite |-> r.rewrite, passive |-> p,
                          vote |-> v, order |-> 0]
    BY Zenon
  <2>5. /\ rep \in Reply
        /\ rep.received /\ rep.state = "answered" /\ rep.verdict = r.verdict
        /\ rep.passive = p /\ rep.vote = v
    BY <2>31, <2>4, ReplyRecord, Zenon
  <2>6. PICK s : s = [c EXCEPT !.got = @ \cup {i}, !.resolved = @ \cup {i}, !.replies[i] = rep]
    BY Zenon
  <2>7. PICK m : m = actions_merge(account(s, i), i, r.actions)
    BY Zenon
  <2>8. PICK e : e = IF r.verdict \in {"deny", "redirect"}
                     THEN [m EXCEPT !.denied = m.denied \cup {i}] ELSE m
    BY Zenon
  <2>9. \/ /\ r.verdict = "error" /\ i \in wave_gating(m.ctl, Wave(c))
           /\ \E cause \in {"overload", "inspector"} : d \in resume(Fail(m, cause))
        \/ /\ r.verdict \in {"deny", "redirect"} /\ i \in wave_gating(m.ctl, Wave(c))
           /\ d \in resume(e)
        \/ d \in settle(e)
    <3>1. PICK q : q = [m EXCEPT !.denied = m.denied \cup {i}]
      BY Zenon
    <3>2. d \in CASE r.verdict = "error" ->
                    IF i \in wave_gating(m.ctl, Wave(c))
                    THEN resume(Fail(m, IF r.overload THEN "overload" ELSE "inspector"))
                    ELSE settle(m)
               [] r.verdict \in {"deny", "redirect"} ->
                    IF DenyFast /\ i \in wave_gating(m.ctl, Wave(c)) THEN resume(q)
                    ELSE settle(q)
               [] OTHER -> settle(m)
      BY <1>2, <2>2, <2>3, <2>4, <2>6, <2>7, <3>1, Zenon DEF on_reply
    <3>3. CASE r.verdict = "error"
      <4>1. e = m /\ r.verdict \notin {"deny", "redirect"}
        BY <2>8, <3>3
      <4> QED BY <3>2, <3>3, <4>1, Zenon
    <3>4. CASE r.verdict \in {"deny", "redirect"}
      <4>1. e = q /\ r.verdict # "error"
        BY <2>8, <3>1, <3>4
      <4> QED BY <3>2, <3>4, <4>1, Zenon
    <3>5. CASE r.verdict # "error" /\ r.verdict \notin {"deny", "redirect"}
      BY <2>8, <3>2, <3>5, Zenon
    <3> QED BY <3>3, <3>4, <3>5, Zenon
  <2>10. /\ Same(c, s, {"got", "resolved", "replies"}) /\ Mergeable(s)
         /\ s.got = c.got \cup {i} /\ s.replies[i] = rep
         /\ \A j \in Inspectors \ {i} : s.replies[j] = c.replies[j]
    <3>1. /\ Same(c, s, {"got", "resolved", "replies"}) /\ s.got = c.got \cup {i}
          /\ s.replies = [c.replies EXCEPT ![i] = rep]
      BY <2>6, Zenon DEF Typed, Same, CtxFields
    <3>2. /\ s.replies \in [Inspectors -> Reply] /\ s.replies[i] = rep
          /\ \A j \in Inspectors \ {i} : s.replies[j] = c.replies[j]
      <4>1. c.replies \in [Inspectors -> Reply] /\ rep \in Reply
        BY <2>5 DEF Typed
      <4> QED BY <2>1, <3>1, <4>1
    <3>3. s.order = c.order /\ s.score = c.score /\ DOMAIN s = CtxFields
      BY <3>1, Zenon DEF Same, CtxFields
    <3>4. Mergeable(s)
      BY <3>2, <3>3 DEF Mergeable, Typed
    <3> QED BY <3>1, <3>2, <3>4, Zenon
  <2>11. Merged(s, i, m)
    <3>1. PICK a : a = account(s, i)
      BY Zenon
    <3>2. ScoreMax \in Nat
      BY WaveAssumption
    <3>3. Merged(s, i, a)
      BY <2>1, <2>10, <3>1, <3>2, Account, Zenon
    <3>4. r.actions \in Seq(Action)
      <4>1. Payload = [verdict : {"allow", "score", "redirect", "deny", "error"}, score : Int,
                       overload : BOOLEAN, rewrite : BOOLEAN, actions : Seq(Action)]
        BY Zenon DEF Payload, Action
      <4> QED BY <4>1, Zenon
    <3>5. Merged(a, i, m)
      <4>1. Mergeable(a) /\ i \in Inspectors
        BY <2>1, <3>3, Zenon DEF Merged
      <4>2. Merged(a, i, actions_merge(a, i, r.actions))
        BY <3>2, <3>4, <4>1, ActionsMerge, Zenon
      <4> QED BY <2>7, <3>1, <4>2, Zenon
    <3> QED BY <3>3, <3>5, MergedTrans
  <2>12. /\ Same(m, e, {"denied"}) /\ e.replies = m.replies /\ e.ctl = m.ctl
         /\ e.got = m.got /\ e.order = m.order /\ e.score = m.score
         /\ e.denied = IF r.verdict \in {"deny", "redirect"} THEN m.denied \cup {i}
                       ELSE m.denied
    <3>1. DOMAIN m = CtxFields
      BY <2>11, Zenon DEF Merged, Same
    <3>2. CASE r.verdict \in {"deny", "redirect"}
      <4>1. e = [m EXCEPT !.denied = m.denied \cup {i}]
        BY <2>8, <3>2, Zenon
      <4>2. Same(m, e, {"denied"})
        BY <3>1, <4>1, Zenon DEF Same
      <4>3. e.denied = m.denied \cup {i}
        BY <3>1, <4>1, Zenon DEF CtxFields
      <4> QED BY <3>2, <4>2, <4>3 DEF Same, CtxFields
    <3>3. CASE r.verdict \notin {"deny", "redirect"}
      BY <2>8, <3>1, <3>3, Zenon DEF Same
    <3> QED BY <3>2, <3>3
  <2>13. Answered(c, i, e)
    <3>1. s.ctl = c.ctl /\ s.denied = c.denied
      BY <2>10 DEF Same, CtxFields
    <3>2. m.got = s.got /\ m.denied = s.denied
      BY <2>11, Zenon DEF Merged, Same, CtxFields
    <3>3. Same(c, e, {"got", "resolved", "replies", "order", "score", "actions", "ctl",
                      "denied"})
      BY <2>10, <2>11, <2>12, Zenon DEF Merged, Same
    <3>4. /\ Mergeable(e) /\ \A j \in Inspectors \ {i} : e.replies[j] = c.replies[j]
      BY <2>10, <2>11, <2>12, Zenon DEF Merged, Mergeable, Same
    <3>5. /\ e.replies[i].received /\ e.replies[i].state # "none"
          /\ e.replies[i].passive = p /\ e.replies[i].vote = v
          /\ e.replies[i].verdict = r.verdict
      BY <2>5, <2>10, <2>11, <2>12, Zenon DEF Merged
    <3>6. /\ e.replies[i].passive <=> i \in wave_passive(c.ctl, Wave(c))
          /\ e.replies[i].vote <=> i \in wave_vote(c.ctl, Wave(c))
      BY <2>2, <2>3, <3>5, Zenon
    <3>7. /\ Touched(c.ctl) \subseteq Touched(e.ctl)
          /\ e.ctl = c.ctl \/ e.ctl # NoControl
          /\ e.replies[i].passive => e.ctl = c.ctl
      BY <2>11, <2>12, <3>1, Zenon DEF Merged
    <3>8. e.got = c.got \cup {i}
      BY <2>10, <2>12, <3>2, Zenon
    <3>9. \/ e.denied = c.denied /\ e.replies[i].verdict \notin {"deny", "redirect"}
          \/ e.denied = c.denied \cup {i} /\ e.replies[i].verdict \in {"deny", "redirect"}
      BY <2>12, <3>1, <3>2, <3>5, Zenon
    <3> QED BY <3>3, <3>4, <3>5, <3>6, <3>7, <3>8, <3>9, Zenon DEF Answered
  <2>14. /\ Typed(e) /\ Open(e) /\ Wave(e) = Wave(c)
         /\ \A j \in Inspectors : c.replies[j].received => e.replies[j] = c.replies[j]
         /\ e.rids = c.rids /\ e.got # {}
    <3>1. e.rids = c.rids /\ e.got # {}
      BY <2>13, Zenon DEF Answered, Same, CtxFields
    <3> QED BY <2>1, <2>13, <3>1, AnsweredOpen
  <2>15. \A x : Advanced(e, x) => Advanced(c, x)
    BY <2>14 DEF Advanced, Kept
  <2>16. CASE d \in settle(e)
    <3>1. CASE d = e /\ ~wave_closed(e)
      BY <2>13, <2>14, <3>1 DEF Kept, Answered
    <3> QED BY <2>14, <2>15, <2>16, <3>1, SettleSteps, Zenon
  <2>17. CASE /\ r.verdict \in {"deny", "redirect"} /\ i \in wave_gating(m.ctl, Wave(c))
              /\ d \in resume(e)
    <3>1. PICK z : z = rewrite_settle(e)
      BY Zenon
    <3>2. d \in conclude(z)
      BY <2>17, <3>1, Zenon DEF resume
    <3>3. Concludable(e)
      <4>1. /\ e.replies[i].received /\ e.replies[i].verdict \in {"deny", "redirect"}
            /\ i \in wave_gating(e.ctl, Wave(e)) /\ i \in Inspectors
        <5>1. e.replies[i].received /\ e.replies[i].verdict = r.verdict
          BY <2>5, <2>10, <2>11, <2>12, Zenon DEF Merged
        <5> QED BY <2>1, <2>12, <2>14, <2>17, <5>1, Zenon
      <4>2. ~e.replies[i].passive
        <5>1. SUFFICES ASSUME e.replies[i].passive PROVE FALSE
          OBVIOUS
        <5>2. i \in wave_passive(c.ctl, Wave(c)) /\ e.ctl = c.ctl
          BY <2>13, <5>1, Zenon DEF Answered
        <5> QED BY <2>14, <4>1, <5>2, Modes
      <4>3. CASE e.replies[i].vote
        BY <4>1, <4>3, Zenon DEF Turned, Concludable
      <4>4. CASE ~e.replies[i].vote
        <5>1. i \in Counted(e, "deny") \cup Counted(e, "redirect")
          BY <4>1, <4>2, <4>4, Zenon DEF Counted
        <5> QED BY <5>1, Zenon DEF Concludable
      <4> QED BY <4>3, <4>4
    <3>4. Ended(e, d)
      BY <2>14, <3>1, <3>2, <3>3, ResumeEnds
    <3>5. Advanced(e, d)
      BY <3>4 DEF Ended, Advanced
    <3> QED BY <2>15, <3>5
  <2>18. CASE /\ r.verdict = "error" /\ i \in wave_gating(m.ctl, Wave(c))
              /\ \E cause \in {"overload", "inspector"} : d \in resume(Fail(m, cause))
    <3>1. PICK cause \in {"overload", "inspector"} : d \in resume(Fail(m, cause))
      BY <2>18
    <3>2. PICK f : f = Fail(e, cause)
      BY Zenon
    <3>3. e = m
      BY <2>8, <2>18
    <3>4. PICK z : z = rewrite_settle(f)
      BY Zenon
    <3>5. d \in conclude(z)
      BY <3>1, <3>2, <3>3, <3>4, Zenon DEF resume
    <3>6. /\ Typed(f) /\ Open(f) /\ f.fail # "none" /\ f.rids = e.rids
          /\ \A j \in Inspectors : e.replies[j].received => f.replies[j] = e.replies[j]
      BY <2>14, <3>2, FailOpen
    <3>7. z.fail # "none"
      BY <3>4, <3>6, RewriteSettle
    <3>8. Ended(f, d)
      BY <3>4, <3>5, <3>6, <3>7, ResumeEnds
    <3>9. Advanced(e, d)
      BY <3>6, <3>8 DEF Ended, Advanced, Kept
    <3> QED BY <2>15, <3>9
  <2> QED BY <2>9, <2>16, <2>17, <2>18, Zenon
<1> QED BY <1>1, <1>2, Zenon

-----------------------------------------------------------------------------
(* The deadline timer fires. *)

(* The deadlines of single inspectors have passed. *)
LEMMA ExpireSteps ==
    ASSUME route \in DOMAIN Routes, now \in Nat, NEW c, Typed(c), Open(c), ~wave_closed(c),
           c.got = {} => c.fail = "none", NEW d \in expire(c)
    PROVE  \/ /\ Typed(d) /\ Open(d) /\ ~wave_closed(d) /\ Kept(c, d)
              /\ d.got = {} => d.fail = "none"
              /\ Same(c, d, {"got", "replies", "fail", "personal", "cont", "timer"})
              /\ d.timer \in Nat /\ now <= d.timer
              /\ d.timer <= c.due \/ d.timer = now
           \/ Advanced(c, d)
<1>1. PICK gone : gone = Expired(c)
  BY Zenon
<1>2. gone \subseteq Wave(c).all \ c.got
  BY <1>1, Zenon DEF Expired, Open
<1>3. PICK reps : reps = [i \in Inspectors |->
            IF i \in gone THEN [c.replies[i] EXCEPT !.state = "timeout"] ELSE c.replies[i]]
  BY Zenon
<1>4. PICK marked : marked = [c EXCEPT !.got = c.got \cup gone, !.replies = reps]
  BY Zenon
<1>5. PICK failed : failed = IF gone \cap wave_mandatory(c.ctl, Wave(c)) # {}
                             THEN Fail(marked, "timeout") ELSE marked
  BY Zenon
<1>6. d \in IF gone # {} /\ wave_closed(failed) THEN settle(failed) ELSE {deadline_arm(failed)}
  BY <1>1, <1>3, <1>4, <1>5, Zenon DEF expire
<1>7. DOMAIN c = CtxFields /\ c.replies \in [Inspectors -> Reply]
  BY DEF Typed
<1>8. /\ Same(c, marked, {"got", "replies"}) /\ marked.got = c.got \cup gone
      /\ marked.replies = reps
  BY <1>4, <1>7, Zenon DEF Same, CtxFields
<1>9. /\ Same(marked, failed, {"fail"}) /\ failed.got = marked.got
      /\ failed.replies = marked.replies
      /\ failed.fail = IF gone \cap wave_mandatory(c.ctl, Wave(c)) # {} THEN "timeout"
                       ELSE marked.fail
  BY <1>5, <1>8, Zenon DEF Fail, Same, CtxFields
<1>10. marked.fail = c.fail
  BY <1>8 DEF Same, CtxFields
<1>11. /\ reps \in [Inspectors -> Reply]
       /\ \A i \in Inspectors \ gone : reps[i] = c.replies[i]
       /\ \A i \in gone : reps[i].state # "none" /\ ~reps[i].received
  <2>1. PICK e : e = [NoReply EXCEPT !.state = "timeout"]
    BY Zenon
  <2>2. e \in Reply /\ e.state # "none" /\ ~e.received
    BY <2>1, MarkReply
  <2>3. \A i \in gone : i \in Inspectors /\ c.replies[i] = NoReply
    BY <1>2, WaveFacts, Zenon DEF Open
  <2>4. \A i \in gone : reps[i] = e
    <3>1. SUFFICES ASSUME NEW i \in gone PROVE reps[i] = e
      OBVIOUS
    <3>2. reps[i] = [c.replies[i] EXCEPT !.state = "timeout"]
      BY <1>3, <2>3, <3>1, Zenon
    <3> QED BY <2>1, <2>3, <3>1, <3>2, Zenon
  <2>5. \A i \in Inspectors \ gone : reps[i] = c.replies[i]
    BY <1>3, Zenon
  <2>6. reps = [i \in Inspectors |-> reps[i]]
    BY <1>3
  <2>7. \A i \in Inspectors : reps[i] \in Reply
    BY <1>7, <2>2, <2>4, <2>5
  <2> QED BY <2>2, <2>3, <2>4, <2>5, <2>6, <2>7
<1>12. Same(c, failed, {"got", "replies", "fail", "personal", "cont"})
  BY <1>8, <1>9 DEF Same
<1>13. Marked(c, gone, failed)
  BY <1>2, <1>8, <1>9, <1>10, <1>11, <1>12, Zenon DEF Marked
<1>14. /\ Typed(failed) /\ Open(failed) /\ failed.rids = c.rids
       /\ \A i \in Inspectors : c.replies[i].received => failed.replies[i] = c.replies[i]
  <2>1. failed.rids = c.rids
    BY <1>12 DEF Same, CtxFields
  <2> QED BY <1>13, <2>1, MarkedOpen
<1>15. CASE gone # {} /\ wave_closed(failed)
  <2>1. d \in settle(failed)
    BY <1>6, <1>15, Zenon
  <2>2. Advanced(failed, d)
    BY <1>14, <1>15, <2>1, SettleSteps
  <2> QED BY <1>14, <2>2 DEF Advanced, Kept
<1>16. CASE ~(gone # {} /\ wave_closed(failed))
  <2>1. d = deadline_arm(failed)
    BY <1>6, <1>16
  <2>2. /\ Same(failed, d, {"timer"}) /\ d.timer \in Nat /\ now <= d.timer
        /\ d.timer <= failed.due \/ d.timer = now
    BY <1>14, <2>1, DeadlineArm, Zenon
  <2>3. Same(failed, d, {"timer", "state", "waiting", "personal"})
    BY <2>2 DEF Same
  <2>4. /\ Typed(d) /\ Open(d) /\ d.got = failed.got /\ d.replies = failed.replies
        /\ d.fail = failed.fail
        /\ wave_closed(d) <=> wave_closed(failed)
    BY <1>14, <2>2, <2>3, OpenSame, Zenon
  <2>5. failed.due = c.due /\ failed.awaited = c.awaited
    BY <1>12 DEF Same, CtxFields
  <2>6. ~wave_closed(failed)
    <3>1. CASE gone = {}
      <4>1. failed.got = c.got
        BY <1>8, <1>9, <3>1, Zenon
      <4> QED BY <2>5, <4>1 DEF wave_closed
    <3> QED BY <1>16, <3>1
  <2>7. d.got = {} => d.fail = "none"
    BY <1>8, <1>9, <1>10, <2>4
  <2>8. Same(c, d, {"got", "replies", "fail", "personal", "cont", "timer"})
    BY <1>12, <2>2 DEF Same
  <2> QED BY <1>14, <2>2, <2>4, <2>5, <2>6, <2>7, <2>8 DEF Kept
<1> QED BY <1>15, <1>16

(* waf_deadline has passed. *)
LEMMA FailSteps ==
    ASSUME route \in DOMAIN Routes, NEW c, Typed(c), Open(c), ~wave_closed(c),
           NEW d \in fail(c)
    PROVE  Ended(c, d)
<1>1. CASE wave_mandatory(c.ctl, Wave(c)) \subseteq c.got
  <2>1. PICK s : s = rewrite_settle(c)
    BY Zenon
  <2>2. d \in conclude(s)
    BY <1>1, <2>1, Zenon DEF fail, resume
  <2>3. Concludable(c)
    <3>1. ASSUME c.fail = "none", NEW i \in Bound(c) PROVE c.replies[i].received
      <4>1. i \notin Wave(c).all \ c.got
        BY <1>1, BoundMandatory
      <4> QED BY <3>1, <4>1, Zenon DEF Open
    <3>2. \E i \in Wave(c).all : c.replies[i].state = "none"
      <4>1. PICK i \in c.awaited : i \notin c.got
        BY DEF wave_closed
      <4>2. i \in Wave(c).all /\ c.replies[i] = NoReply
        BY <4>1 DEF Open
      <4> QED BY <4>2 DEF NoReply
    <3> QED BY <3>1, <3>2 DEF Concludable
  <2> QED BY <2>1, <2>2, <2>3, ResumeEnds
<1>2. CASE ~(wave_mandatory(c.ctl, Wave(c)) \subseteq c.got)
  <2>1. PICK f : f = Fail(c, "timeout")
    BY Zenon
  <2>2. PICK s : s = rewrite_settle(f)
    BY Zenon
  <2>3. d \in conclude(s)
    BY <1>2, <2>1, <2>2, Zenon DEF fail, resume
  <2>4. /\ Typed(f) /\ Open(f) /\ f.fail # "none" /\ f.rids = c.rids
        /\ \A j \in Inspectors : c.replies[j].received => f.replies[j] = c.replies[j]
    BY <2>1, FailOpen
  <2>5. s.fail # "none"
    BY <2>2, <2>4, RewriteSettle, Zenon
  <2>6. Ended(f, d)
    BY <2>2, <2>3, <2>4, <2>5, ResumeEnds
  <2> QED BY <2>4, <2>6 DEF Ended, Kept
<1> QED BY <1>1, <1>2

-----------------------------------------------------------------------------
(* A wave goes out. *)

(* d is c stamped, with the inspectors left out by a condition or switched *)
(* off by an action settled.                                               *)
StampedAs(c, d, off, ctrl) ==
    /\ Same(c, d, StampFields)
    /\ d.got = off \cup ctrl /\ d.awaited = Live(c.ctl, Wave(c)) \ off
    /\ d.replies = [i \in Inspectors |->
           IF i \in off THEN [c.replies[i] EXCEPT !.state = "skipped"]
           ELSE IF i \in ctrl THEN [c.replies[i] EXCEPT !.state = "off"]
           ELSE c.replies[i]]
    /\ d.due \in Nat /\ d.first \in Nat /\ d.due = d.first + Deadline
    /\ d.published = now

(* What Stamped does to a context, the omitted inspectors named. *)
LEMMA StampedFields ==
    ASSUME route \in DOMAIN Routes, now \in Nat, NEW c, Typed(c), NEW d, d = Stamped(c),
           NEW off, off = c.cond_off \cap Wave(c).all,
           NEW ctrl, ctrl = wave_off(c.ctl, Wave(c)) \ off
    PROVE  StampedAs(c, d, off, ctrl)
<1>1. PICK due : due = IF c.due = NIL THEN now + Deadline ELSE c.due
  BY Zenon
<1>2. PICK first : first = IF c.first = NIL THEN now ELSE c.first
  BY Zenon
<1>3. PICK t : t = [c EXCEPT !.due = due, !.first = first, !.published = now]
  BY Zenon
<1>4. d = omit(t)
  BY <1>1, <1>2, <1>3, Zenon DEF Stamped
<1>5. DOMAIN c = CtxFields
  BY DEF Typed
<1>6. /\ Same(c, t, {"due", "first", "published"})
      /\ t.due = due /\ t.first = first /\ t.published = now
  BY <1>3, <1>5, ZenonT(40) DEF Same, CtxFields
<1>7. /\ t.ctl = c.ctl /\ t.cond_off = c.cond_off /\ t.wave = c.wave
      /\ t.replies = c.replies /\ DOMAIN t = CtxFields
  BY <1>6 DEF Same, CtxFields
<1>8. Wave(t) = Wave(c)
  BY <1>7 DEF Wave
<1>9. PICK reps : reps = [i \in Inspectors |->
                  IF i \in off THEN [c.replies[i] EXCEPT !.state = "skipped"]
                  ELSE IF i \in ctrl THEN [c.replies[i] EXCEPT !.state = "off"]
                  ELSE c.replies[i]]
  BY Zenon
<1>10. PICK aw : aw = Live(c.ctl, Wave(c)) \ off
  BY Zenon
<1>11. d = [t EXCEPT !.got = off \cup ctrl, !.awaited = aw, !.replies = reps]
  <2>1. off = t.cond_off \cap Wave(t).all /\ ctrl = wave_off(t.ctl, Wave(t)) \ off
    BY <1>7, <1>8, Zenon
  <2>2. aw = Live(t.ctl, Wave(t)) \ off
    BY <1>7, <1>8, <1>10, ZenonT(40)
  <2>3. reps = [i \in Inspectors |->
                  IF i \in off THEN [t.replies[i] EXCEPT !.state = "skipped"]
                  ELSE IF i \in ctrl THEN [t.replies[i] EXCEPT !.state = "off"]
                  ELSE t.replies[i]]
    BY <1>7, <1>9, ZenonT(40)
  <2> QED BY <1>4, <2>1, <2>2, <2>3, ZenonT(40) DEF omit
<1>12. /\ Same(t, d, {"got", "awaited", "replies"})
       /\ d.got = off \cup ctrl /\ d.awaited = aw /\ d.replies = reps
  <2>1. Same(t, d, {"got", "awaited", "replies"})
    BY <1>7, <1>11, ZenonT(40) DEF Same
  <2>2. {"got", "awaited", "replies"} \subseteq DOMAIN t
    BY <1>7 DEF CtxFields
  <2>3. d.got = off \cup ctrl
    BY <1>11, <2>2, Zenon
  <2>4. d.awaited = aw
    BY <1>11, <2>2, Zenon
  <2>5. d.replies = reps
    BY <1>11, <2>2, ZenonT(40)
  <2> QED BY <2>1, <2>3, <2>4, <2>5
<1>13. /\ Same(c, d, StampFields) /\ d.due = due /\ d.first = first /\ d.published = now
  BY <1>6, <1>12 DEF Same, StampFields, CtxFields
<1>14. due \in Nat /\ first \in Nat /\ due = first + Deadline
  <2>1. \/ c.due = NIL /\ c.first = NIL
        \/ c.due \in Nat /\ c.first \in Nat /\ c.due = c.first + Deadline
    BY DEF Typed
  <2>2. Deadline \in Nat
    BY RouteFacts
  <2> QED BY <1>1, <1>2, <2>1, <2>2 DEF NIL
<1> QED BY <1>9, <1>10, <1>12, <1>13, <1>14, Zenon DEF StampedAs

(* The wave is stamped, those it leaves out are settled. *)
LEMMA StampedOpen ==
    ASSUME route \in DOMAIN Routes, now \in Nat, NEW c, Typed(c), Before(c),
           c.placing = "none", NEW d, d = Stamped(c)
    PROVE  /\ Typed(d) /\ Open(d) /\ d.fail = "none" /\ ~d.waiting /\ d.denied = {}
           /\ d.rid = c.rid /\ d.rids = c.rids /\ d.published = now
           /\ \A i \in Inspectors : c.replies[i].received => d.replies[i] = c.replies[i]
<1>1. PICK off : off = c.cond_off \cap Wave(c).all
  BY Zenon
<1>2. PICK ctrl : ctrl = wave_off(c.ctl, Wave(c)) \ off
  BY Zenon
<1>3. /\ Same(c, d, StampFields)
      /\ d.got = off \cup ctrl /\ d.awaited = Live(c.ctl, Wave(c)) \ off
      /\ d.replies = [i \in Inspectors |->
             IF i \in off THEN [c.replies[i] EXCEPT !.state = "skipped"]
             ELSE IF i \in ctrl THEN [c.replies[i] EXCEPT !.state = "off"]
             ELSE c.replies[i]]
      /\ d.due \in Nat /\ d.first \in Nat /\ d.due = d.first + Deadline
      /\ d.published = now
  <2>1. StampedAs(c, d, off, ctrl)
    BY <1>1, <1>2, StampedFields, Zenon
  <2> QED BY <2>1, Zenon DEF StampedAs
<1>4. {"wave", "waiting", "verdict", "applied", "depth", "stale", "live", "finish_how",
       "outcome", "agent_after_body", "cond_off", "fail", "denied", "order", "score", "ctl",
       "rid", "rids", "timer", "placing"} \subseteq CtxFields \ StampFields
  BY DEF CtxFields, StampFields
<1>5. /\ d.wave = c.wave /\ d.verdict = c.verdict /\ d.waiting = c.waiting
      /\ d.applied = c.applied /\ d.depth = c.depth /\ d.stale = c.stale
      /\ d.live = c.live /\ DOMAIN d = CtxFields
      /\ d.rid = c.rid /\ d.rids = c.rids /\ d.timer = c.timer /\ d.placing = c.placing
  BY <1>3, <1>4, Zenon DEF Same
<1>6. /\ d.finish_how = c.finish_how /\ d.outcome = c.outcome
      /\ d.agent_after_body = c.agent_after_body
      /\ d.cond_off = c.cond_off /\ d.fail = c.fail
      /\ d.denied = c.denied
      /\ d.order = c.order /\ d.score = c.score /\ d.ctl = c.ctl
  BY <1>3, <1>4, ZenonT(40) DEF Same
<1>7. off \subseteq Wave(c).all /\ ctrl \subseteq Wave(c).all /\ Wave(c).all \subseteq Inspectors
  BY <1>1, <1>2, WaveFacts, Zenon DEF wave_off
<1>8. PICK e1 : e1 = [NoReply EXCEPT !.state = "skipped"]
  BY Zenon
<1>9. PICK e2 : e2 = [NoReply EXCEPT !.state = "off"]
  BY Zenon
<1>10. /\ e1 \in Reply /\ e1.state # "none" /\ ~e1.received
       /\ e2 \in Reply /\ e2.state # "none" /\ ~e2.received
  BY <1>8, <1>9, MarkReply
<1>11. \A i \in Wave(c).all : c.replies[i] = NoReply
  BY Zenon DEF Before
<1>12. /\ \A i \in off : d.replies[i] = e1
       /\ \A i \in ctrl : d.replies[i] = e2
  <2>1. ASSUME NEW i \in off PROVE d.replies[i] = e1
    <3>1. i \in Inspectors /\ c.replies[i] = NoReply
      BY <1>7, <1>11
    <3>2. d.replies[i] = [c.replies[i] EXCEPT !.state = "skipped"]
      BY <1>3, <2>1, <3>1, Zenon
    <3> QED BY <1>8, <3>1, <3>2, ZenonT(40)
  <2>2. ASSUME NEW i \in ctrl PROVE d.replies[i] = e2
    <3>1. i \in Inspectors /\ c.replies[i] = NoReply /\ i \notin off
      BY <1>2, <1>7, <1>11, Zenon
    <3>2. d.replies[i] = [c.replies[i] EXCEPT !.state = "off"]
      BY <1>3, <2>2, <3>1, ZenonT(40)
    <3> QED BY <1>9, <3>1, <3>2, ZenonT(40)
  <2> QED BY <2>1, <2>2
<1>13. \A i \in Inspectors : i \notin off \cup ctrl => d.replies[i] = c.replies[i]
  BY <1>3, Zenon
<1>14. DOMAIN d.replies = Inspectors /\ d.replies = [i \in Inspectors |-> d.replies[i]]
  BY <1>3
<1>15. d.replies \in [Inspectors -> Reply]
  <2>1. \A i \in Inspectors : c.replies[i] \in Reply
    BY Zenon DEF Typed
  <2>2. \A i \in Inspectors : d.replies[i] \in Reply
    BY <1>10, <1>12, <1>13, <2>1, Zenon
  <2> QED BY <1>14, <2>2
<1>16. \A i \in Inspectors : c.replies[i].received => d.replies[i] = c.replies[i]
  <2>1. ~NoReply.received
    BY DEF NoReply
  <2> QED BY <1>7, <1>11, <1>13, <2>1
<1>17. \A i \in Inspectors : d.replies[i].received => d.replies[i] = c.replies[i]
  BY <1>10, <1>12, <1>13
<1>18. Chain(d) /\ Order(d)
  <2>1. Chain(d)
    BY <1>5, ChainSame
  <2>2. Order(d)
    <3>1. SUFFICES ASSUME NEW v \in 1 .. c.wave - 1, NEW i \in Waves[v].all
                   PROVE  d.replies[i].state # "none"
      BY <1>5 DEF Order
    <3>2. v \in DOMAIN Waves /\ i \in Inspectors /\ c.replies[i].state # "none"
      <4>1. v \in DOMAIN Waves
        BY RouteFacts, WaveFacts
      <4> QED BY <4>1, RouteFacts, Zenon DEF Typed, Order
    <3> QED BY <1>10, <1>12, <1>13, <3>2
  <2> QED BY <2>1, <2>2
<1>19. Typed(d)
  BY <1>3, <1>5, <1>6, <1>15, <1>18 DEF Typed
<1>20. /\ Wave(d) = Wave(c) /\ Earlier(d) = Earlier(c) /\ Bound(d) = Bound(c)
  BY <1>5, <1>6, ZenonT(40) DEF Wave, Earlier, Bound
<1>21. Running(d)
  <2>1. ASSUME NEW v \in DOMAIN Waves, v > c.wave, NEW i \in Waves[v].all
        PROVE  d.replies[i] = NoReply
    <3>1. i \notin Wave(c).all /\ i \in Inspectors /\ c.replies[i] = NoReply
      <4>1. v # c.wave
        BY <2>1, WaveFacts, RouteFacts
      <4> QED BY <2>1, <4>1, WaveFacts, RouteFacts, Zenon DEF Before, Running
    <3> QED BY <1>7, <1>13, <3>1, Zenon
  <2> QED BY <1>5, <1>6, <1>20, <2>1, Zenon DEF Before, Running
<1>22. \A i \in Bound(d) : i \in Wave(c).all \ d.got \/ d.replies[i].received
  <2>1. SUFFICES ASSUME NEW i \in Bound(c) PROVE i \in Wave(c).all \ d.got \/ d.replies[i].received
    BY <1>20
  <2>2. CASE i \in Wave(c).all
    <3>1. i \in wave_mandatory(c.ctl, Wave(c))
      BY <2>2, BoundMandatory
    <3>2. i \notin c.cond_off
      BY <2>1 DEF Bound
    <3> QED BY <1>1, <1>2, <1>3, <2>2, <3>1, <3>2, Modes
  <2>3. CASE i \notin Wave(c).all
    <3>1. c.replies[i].received /\ i \in Inspectors
      BY <2>3, BoundIn, Zenon DEF Before
    <3> QED BY <1>16, <3>1
  <2> QED BY <2>2, <2>3, Zenon
<1>23. ASSUME c.ctl = NoControl PROVE Uncontrolled(d)
  <2>1. Counted(d, "deny") = {}
    <3>1. Counted(c, "deny") = {}
      BY <1>23 DEF Before
    <3> QED BY <1>17, <3>1 DEF Counted
  <2>2. \A i \in Wave(c).all : ~d.replies[i].received
    BY <1>7, <1>11, <1>17 DEF NoReply
  <2>3. wave_off(NoControl, Wave(d)) \subseteq d.got
    BY <1>2, <1>3, <1>20, <1>23
  <2> QED BY <1>20, <2>1, <2>2, <2>3, Zenon DEF Uncontrolled
<1>24. Open(d)
  <2>1. d.placing = "none" /\ d.due # NIL /\ d.denied = {}
    BY <1>3, <1>5, <1>6 DEF Before, NIL
  <2>2. d.got \subseteq Wave(c).all /\ d.awaited \subseteq Wave(c).all
    BY <1>3, <1>7 DEF Live
  <2>3. Wave(c).all \subseteq d.got \cup d.awaited
    BY <1>1, <1>2, <1>3 DEF Live
  <2>4. /\ \A i \in Wave(c).all \ d.got : d.replies[i] = NoReply
        /\ \A i \in d.got : d.replies[i].state # "none"
    BY <1>3, <1>7, <1>10, <1>11, <1>12, <1>13
  <2> QED BY <1>6, <1>20, <1>21, <1>22, <1>23, <2>1, <2>2, <2>3, <2>4, Zenon DEF Open
<1> QED BY <1>3, <1>5, <1>6, <1>16, <1>19, <1>24 DEF Before

(* The questions go out; those with an open breaker are skipped. *)
LEMMA PublishWave ==
    ASSUME route \in DOMAIN Routes, NEW c, Typed(c), Open(c), c.fail = "none",
           NEW open, open \subseteq Wave(c).all \ c.got, NEW sent,
           NEW s, s = publish_wave(c, open, sent)
    PROVE  /\ Typed(s) /\ Open(s) /\ (s.got = {} => s.fail = "none")
           /\ Same(c, s, {"got", "replies", "fail", "personal", "cont"})
           /\ \A i \in Inspectors : c.replies[i].received => s.replies[i] = c.replies[i]
<1>1. PICK reps : reps = [i \in Inspectors |->
            IF i \in open THEN [c.replies[i] EXCEPT !.state = "skipped"] ELSE c.replies[i]]
  BY Zenon
<1>2. PICK p : p = c.personal \cup (sent \cap c.cont)
  BY Zenon
<1>3. PICK q : q = c.cont \ sent
  BY Zenon
<1>4. PICK m : m = [c EXCEPT !.got = c.got \cup open, !.replies = reps,
                             !.personal = p, !.cont = q]
  BY Zenon
<1>5. s = IF open \cap wave_mandatory(c.ctl, Wave(c)) # {} THEN Fail(m, "timeout") ELSE m
  BY <1>1, <1>2, <1>3, <1>4, Zenon DEF publish_wave
<1>6. DOMAIN c = CtxFields /\ c.replies \in [Inspectors -> Reply]
  BY ZenonT(40) DEF Typed
<1>7. /\ Same(c, m, {"got", "replies", "personal", "cont"}) /\ m.got = c.got \cup open
      /\ m.replies = reps
  <2>1. Same(c, m, {"got", "replies", "personal", "cont"})
    BY <1>4, <1>6, Zenon DEF Same
  <2>2. {"got", "replies", "personal", "cont"} \subseteq DOMAIN c
    BY <1>6 DEF CtxFields
  <2>3. m.got = c.got \cup open
    BY <1>4, <2>2, Zenon
  <2>4. m.replies = reps
    BY <1>4, <2>2, Zenon
  <2> QED BY <2>1, <2>3, <2>4, Zenon
<1>8. /\ Same(m, s, {"fail"}) /\ s.got = m.got /\ s.replies = m.replies
      /\ s.fail = IF open \cap wave_mandatory(c.ctl, Wave(c)) # {} THEN "timeout"
                  ELSE m.fail
  BY <1>5, <1>7, ZenonT(40) DEF Fail, Same, CtxFields
<1>9. m.fail = "none"
  BY <1>7 DEF Same, CtxFields
<1>10. /\ reps \in [Inspectors -> Reply]
       /\ \A i \in Inspectors \ open : reps[i] = c.replies[i]
       /\ \A i \in open : reps[i].state # "none" /\ ~reps[i].received
  <2>1. PICK e : e = [NoReply EXCEPT !.state = "skipped"]
    BY Zenon
  <2>2. e \in Reply /\ e.state # "none" /\ ~e.received
    BY <2>1, MarkReply
  <2>3. \A i \in open : i \in Inspectors /\ c.replies[i] = NoReply
    BY WaveFacts, Zenon DEF Open
  <2>4. \A i \in open : reps[i] = e
    <3>1. SUFFICES ASSUME NEW i \in open PROVE reps[i] = e
      OBVIOUS
    <3>2. reps[i] = [c.replies[i] EXCEPT !.state = "skipped"]
      BY <1>1, <2>3, <3>1, Zenon
    <3> QED BY <2>1, <2>3, <3>1, <3>2, ZenonT(40)
  <2>5. \A i \in Inspectors \ open : reps[i] = c.replies[i]
    BY <1>1, Zenon
  <2>6. reps = [i \in Inspectors |-> reps[i]]
    BY <1>1
  <2>7. \A i \in Inspectors : reps[i] \in Reply
    BY <1>6, <2>2, <2>4, <2>5, Zenon
  <2> QED BY <2>2, <2>3, <2>4, <2>5, <2>6, <2>7
<1>11. Same(c, s, {"got", "replies", "fail", "personal", "cont"})
  BY <1>7, <1>8, Zenon DEF Same
<1>12. Marked(c, open, s)
  BY <1>7, <1>8, <1>9, <1>10, <1>11, Zenon DEF Marked
<1>13. ASSUME s.got = {} PROVE s.fail = "none"
  <2>1. s.got = c.got \cup open
    BY <1>7, <1>8, Zenon
  <2>2. open \cap wave_mandatory(c.ctl, Wave(c)) = {}
    BY <1>13, <2>1, Zenon
  <2> QED BY <1>8, <1>9, <2>2, Zenon
<1> QED BY <1>11, <1>12, <1>13, MarkedOpen
=============================================================================
