------------------------------ MODULE MCResponse ------------------------------
(* Locations for Response: a body of four bytes against limits of one to four. *)
EXTENDS Response

Base == [mode |-> "gate", waves |-> <<TRUE>>, need |-> Whole, limit |-> 4, policy |-> "block",
         exception |-> "pass", store |-> TRUE, encoded |-> FALSE]

MCRoutes == <<
    Base,
    [Base EXCEPT !.waves = <<FALSE, TRUE>>, !.exception = "block"],
    [Base EXCEPT !.waves = <<TRUE, FALSE>>],
    [Base EXCEPT !.encoded = TRUE],
    [Base EXCEPT !.limit = 2],
    [Base EXCEPT !.limit = 2, !.exception = "block"],
    [Base EXCEPT !.limit = 2, !.need = 2, !.policy = "trim"],
    [Base EXCEPT !.limit = 1, !.need = 2, !.policy = "trim", !.waves = <<FALSE, TRUE>>],
    [Base EXCEPT !.limit = 1, !.need = 2, !.policy = "pass", !.waves = <<FALSE, TRUE>>],
    [Base EXCEPT !.limit = 2, !.need = 1, !.policy = "block", !.exception = "block"],
    [Base EXCEPT !.mode = "monitor", !.limit = 2],
    [Base EXCEPT !.mode = "monitor", !.waves = <<FALSE, TRUE>>, !.exception = "block"],
    [Base EXCEPT !.mode = "journal", !.waves = <<>>, !.limit = 2],
    [Base EXCEPT !.mode = "bypass", !.waves = <<>>] >>
=============================================================================
