----------------------------- MODULE WaveModes -----------------------------
(***************************************************************************)
(* The modes of the inspectors of a wave (runtime/ngx_http_waf_verdict.c). *)
(*                                                                         *)
(* A binding fixes the mode an inspector starts with: active, passive,     *)
(* vote or off.  A control action of a neighbour overrides it for the rest *)
(* of the request.  The 64-bit masks of the code are sets of inspectors.   *)
(*                                                                         *)
(* A wave w is [all, passive, vote, off]; the overrides of a phase are     *)
(* ctl = [active, passive, off, vote].                                     *)
(***************************************************************************)

Verbs == {"active", "passive", "off", "vote"}

NoControl == [active |-> {}, passive |-> {}, off |-> {}, vote |-> {}]

WaveMasks(I) == [all : SUBSET I, passive : SUBSET I, vote : SUBSET I, off : SUBSET I]

Controls(I) == [active : SUBSET I, passive : SUBSET I, off : SUBSET I, vote : SUBSET I]

(* The last action about an inspector replaces every earlier one. *)
control_set(ctl, verb, i) ==
    [active  |-> IF verb = "active"  THEN ctl.active \cup {i}  ELSE ctl.active \ {i},
     passive |-> IF verb = "passive" THEN ctl.passive \cup {i} ELSE ctl.passive \ {i},
     off     |-> IF verb = "off"     THEN ctl.off \cup {i}     ELSE ctl.off \ {i},
     vote    |-> IF verb = "vote"    THEN ctl.vote \cup {i}    ELSE ctl.vote \ {i}]

wave_off(ctl, w) ==
    (w.all \cap ctl.off) \cup (w.off \ (ctl.active \cup ctl.passive \cup ctl.vote))

Live(ctl, w) == w.all \ wave_off(ctl, w)

wave_passive(ctl, w) ==
    (ctl.passive \cup (w.passive \ (ctl.active \cup ctl.vote))) \cap Live(ctl, w)

wave_vote(ctl, w) ==
    (ctl.vote \cup (w.vote \ (ctl.active \cup ctl.passive))) \cap Live(ctl, w)

wave_mandatory(ctl, w) == Live(ctl, w) \ wave_passive(ctl, w)

wave_gating(ctl, w) == wave_mandatory(ctl, w) \ wave_vote(ctl, w)

-----------------------------------------------------------------------------
(* What the masks are for. *)

(* Masks that give nobody two modes. *)
Exclusive(m) ==
    /\ m.passive \cap m.vote = {}
    /\ m.passive \cap m.off = {}
    /\ m.vote \cap m.off = {}

(* Overrides that give nobody two modes. *)
ExclusiveControl(ctl) ==
    /\ Exclusive(ctl)
    /\ ctl.active \cap (ctl.passive \cup ctl.vote \cup ctl.off) = {}

(* Every inspector of the wave is in exactly one of four modes. *)
OneMode(ctl, w) ==
    /\ wave_off(ctl, w) \cup wave_passive(ctl, w) \cup wave_vote(ctl, w)
         \cup wave_gating(ctl, w) = w.all
    /\ wave_off(ctl, w) \cap (wave_passive(ctl, w) \cup wave_vote(ctl, w)
         \cup wave_gating(ctl, w)) = {}
    /\ wave_passive(ctl, w) \cap (wave_vote(ctl, w) \cup wave_gating(ctl, w)) = {}
    /\ wave_vote(ctl, w) \cap wave_gating(ctl, w) = {}

(* The inspectors of the wave in the mode a verb asks for. *)
InMode(ctl, w, verb) ==
    CASE verb = "off"     -> wave_off(ctl, w)
      [] verb = "passive" -> wave_passive(ctl, w)
      [] verb = "vote"    -> wave_vote(ctl, w)
      [] verb = "active"  -> wave_gating(ctl, w)
=============================================================================
