---------------------------- MODULE MCBodyStore -----------------------------
(* Two requests: one with two objects, a response phase or frames, and one *)
(* that rewrites. *)
EXTENDS BodyStore

Two == [capture |-> {"meta", "body"}, archive |-> {"body"}, when |-> {"deny"}, serves |-> {"body"},
        policy |-> "pass", follows |-> "none", rewrites |-> FALSE]
Long == [Two EXCEPT !.capture = {"body"}, !.follows = "response"]
Framed == [Long EXCEPT !.follows = "frame", !.archive = Objs, !.when = {"allow", "deny"}]
Brief == [Two EXCEPT !.capture = {"body"}, !.policy = "block", !.rewrites = TRUE]
MCRoutes == {<<Two, Brief>>, <<Long, Brief>>, <<Framed, Brief>>}
=============================================================================
