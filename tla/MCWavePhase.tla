---------------------------- MODULE MCWavePhase ----------------------------
(***************************************************************************)
(* Small routes for WavePhase: inspectors are 0 to 3; the configurations   *)
(* pick one route, one set of answers and one set of policies each.        *)
(***************************************************************************)
EXTENDS WavePhase

Route(all, passive, vote, body, meta) ==
    [all |-> all, passive |-> passive, vote |-> vote, off |-> {},
     body |-> body, meta |-> meta]

(* Two active inspectors, then one more. *)
ActiveWaves == <<Route({0, 1}, {}, {}, FALSE, FALSE), Route({2}, {}, {}, FALSE, FALSE)>>

(* An active and a passive inspector, then one that votes and one off. *)
MixedWaves ==
    <<Route({0, 1}, {1}, {}, FALSE, FALSE),
      [Route({2, 3}, {}, {2}, FALSE, FALSE) EXCEPT !.off = {3}]>>

(* A voter beside an active inspector, then one more. *)
VoteWaves == <<Route({0, 1}, {}, {0}, FALSE, FALSE), Route({2}, {}, {}, FALSE, FALSE)>>

(* The second wave needs the body, the first one the headers. *)
BodyWaves == <<Route({0}, {}, {}, FALSE, TRUE), Route({1, 2}, {}, {}, TRUE, FALSE)>>

(* Body from the start: up to two rewriters, then one more in each wave. *)
RewriteWaves ==
    <<Route({0, 1}, {}, {}, TRUE, FALSE), Route({2}, {}, {}, TRUE, FALSE),
      Route({3}, {}, {}, TRUE, FALSE)>>

Answer(verdict) ==
    [verdict |-> verdict, score |-> 0, overload |-> FALSE, rewrite |-> FALSE, actions |-> <<>>]

Scored(n) == [Answer("score") EXCEPT !.score = n]

Acting(verdict, verb, to, value) ==
    [Answer(verdict) EXCEPT !.actions = <<[verb |-> verb, to |-> to, value |-> value]>>]

PlainReplies ==
    {Answer("allow"), Answer("deny"), Answer("redirect"), Answer("error"), Scored(2),
     [Answer("error") EXCEPT !.overload = TRUE]}

FewReplies == {Answer("allow"), Answer("error")}

ScoreReplies ==
    {Answer("deny"), Scored(2), Acting("allow", "score", NIL, -3),
     [Scored(3) EXCEPT !.actions = <<[verb |-> "score", to |-> NIL, value |-> 2],
                                     [verb |-> "score", to |-> NIL, value |-> -1]>>]}

ControlReplies ==
    {Answer("allow"), Answer("deny"), Answer("error"), Acting("allow", "note", NIL, 0),
     Acting("error", "off", 2, 0), Acting("error", "score", NIL, 2)}
    \cup {Acting("allow", verb, to, 0) : verb \in Verbs, to \in {1, 2, 3}}

RewriteReplies ==
    {Answer("allow"), [Answer("allow") EXCEPT !.rewrite = TRUE],
     [Answer("deny") EXCEPT !.rewrite = TRUE]}

(* timeout and bus pass, the others block. *)
Mixed == [c \in Causes |-> IF c \in {"absent", "inspector", "body"} THEN "block" ELSE "pass"]

AllOf(policy) == [c \in Causes |-> policy]

NoTimeouts == [i \in 0 .. 3 |-> 0]

Timeouts == [i \in 0 .. 3 |-> i]

Plain ==
    [waves |-> ActiveWaves, request |-> TRUE, fast |-> TRUE, threshold |-> 3,
     policy |-> Mixed, limit |-> {}, deadline |-> 3, timeout |-> Timeouts,
     conditional |-> {1}, prefer |-> {}, resumable |-> {}, send |-> FALSE,
     agent |-> TRUE, replies |-> PlainReplies]

Scores ==
    [Plain EXCEPT !.waves = MixedWaves, !.fast = FALSE, !.threshold = 5,
                  !.timeout = NoTimeouts, !.conditional = {}, !.agent = FALSE,
                  !.replies = ScoreReplies]

Control ==
    [Plain EXCEPT !.waves = MixedWaves, !.fast = FALSE, !.threshold = 0,
                  !.conditional = {}, !.agent = FALSE, !.replies = ControlReplies]

Rewrite ==
    [Plain EXCEPT !.waves = RewriteWaves, !.threshold = 0, !.limit = {"pass", "block"},
                  !.timeout = NoTimeouts, !.conditional = {}, !.send = TRUE,
                  !.replies = RewriteReplies]

Response ==
    [Plain EXCEPT !.waves = BodyWaves, !.request = FALSE, !.fast = FALSE,
                  !.threshold = 0, !.limit = {"pass", "block"}, !.conditional = {},
                  !.resumable = {1, 2}, !.prefer = {1}, !.agent = FALSE]

(* The request's body is read between two waves. *)
Body ==
    [Plain EXCEPT !.waves = BodyWaves, !.threshold = 0, !.conditional = {},
                  !.replies = FewReplies]

(* A voter that makes itself active with its own answer. *)
Turncoat ==
    [Plain EXCEPT !.waves = VoteWaves, !.threshold = 0, !.timeout = NoTimeouts,
                  !.conditional = {}, !.agent = FALSE,
                  !.replies = FewReplies \cup {Acting("deny", "active", 0, 0)}]

AllRoutes == <<Plain, Scores, Control, Rewrite, Response, Body, Turncoat>>

(* Every cause blocks: a phase can pass only if it meets none. *)
SilentRoute ==
    <<[Control EXCEPT !.policy = AllOf("block"), !.timeout = NoTimeouts,
                      !.replies = FewReplies]>>
=============================================================================
