------------------------------ MODULE MCFrames ------------------------------
(* Connections for Frames: frames, fragments and control frames of up to   *)
(* three cells against a limit of two or three. *)
EXTENDS Frames

F(op, fin, len) == [op |-> op, fin |-> fin, len |-> len, rsv |-> FALSE]
Dir(mode, frames) == [mode |-> mode, frames |-> frames, limit |-> 3, policy |-> "block",
                      assemble |-> TRUE, exception |-> "block", seed |-> 0]
Text == F("text", TRUE, 1)
Fragments == <<F("text", FALSE, 1), F("ctl", TRUE, 1), F("cont", TRUE, 2)>>

MCScripts == <<
    \* Both directions inspected, one seeded by the handshake.
    [c2s |-> [Dir("inspect", <<F("text", TRUE, 2), Text>>) EXCEPT !.seed = 1, !.exception = "pass"],
     s2c |-> Dir("inspect", <<Text>>), ctl |-> {TRUE}],
    \* A message in fragments around a control frame.
    [c2s |-> Dir("inspect", Fragments \o <<Text>>), s2c |-> Dir("pass", <<F("text", TRUE, 3)>>), ctl |-> {TRUE}],
    [c2s |-> Dir("inspect", Fragments), s2c |-> Dir("journal", <<Text, F("ctl", TRUE, 0)>>), ctl |-> {FALSE}],
    \* A message that outgrows the limit and is passed, and one with extension bits.
    [c2s |-> [Dir("inspect", <<F("text", FALSE, 1), F("cont", FALSE, 1), F("cont", TRUE, 3)>>)
                  EXCEPT !.limit = 2, !.policy = "pass"],
     s2c |-> [Dir("inspect", <<[Text EXCEPT !.rsv = TRUE], Text>>) EXCEPT !.assemble = FALSE], ctl |-> {TRUE}],
    \* A frame too big, a fragment out of place, a malformed frame.
    [c2s |-> [Dir("inspect", <<F("text", TRUE, 3)>>) EXCEPT !.limit = 2],
     s2c |-> Dir("inspect", <<F("cont", TRUE, 1)>>), ctl |-> {TRUE}],
    [c2s |-> Dir("journal", <<F("text", TRUE, 4), Text>>), s2c |-> Dir("pass", <<F("bad", TRUE, 1)>>), ctl |-> {TRUE}] >>
=============================================================================
