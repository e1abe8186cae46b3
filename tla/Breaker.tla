------------------------------ MODULE Breaker ------------------------------
(***************************************************************************)
(* The circuit breaker of one inspector (local/ngx_http_waf_breaker.c).    *)
(*                                                                         *)
(* The breaker is a record in the shared zone and has no lock: the worker  *)
(* processes read and store its fields one at a time and use compare-and-  *)
(* set for three of them.  A step of this module is one access to the      *)
(* zone; a run of plain stores is the sequence todo of the worker.         *)
(*                                                                         *)
(* A worker takes the time at the start of a call and keeps it, so it can  *)
(* be late by the time it is descheduled, at most Lag.                     *)
(***************************************************************************)
EXTENDS Integers, Sequences, FiniteSets

CONSTANTS
    Workers,
    Tag,            \* per worker: the inspector its configuration has here
    FirstTag,       \* the inspector the breaker was last used for, 0 if none
    MinSamples,     \* NGX_HTTP_WAF_BREAKER_MIN_SAMPLES
    Threshold,      \* breaker_threshold, in 1/10000
    Window,         \* breaker_window
    Probe,          \* breaker_probe
    Lag,            \* the longest a worker stands still in a call
    MaxTime,        \* bound: the clock
    MaxFlight,      \* bound: questions of a worker that wait for a result
    MaxAttempts     \* bound: results counted in a window

ASSUME BreakerAssumption ==
    /\ Workers # {} /\ IsFiniteSet(Workers)
    /\ {MinSamples, Threshold, Window, Probe, Lag, MaxTime, MaxFlight, MaxAttempts}
         \subseteq Nat
    /\ MinSamples > 0
    /\ Lag < Probe

VARIABLES
    clock,      \* the time
    b,          \* ngx_http_waf_breaker_t
    wk,         \* per worker: where it is in a call, and the call's locals
    flight,     \* per worker: questions let through and not yet accounted
    probed,     \* history: the time of the latest probe since a reset of the record
    opening,    \* history: the time of the latest decision to open
    opened      \* history: the same once its stores are done, since a reset

vars == <<clock, b, wk, flight, probed, opening, opened>>

\* clean, history: no reset of the record since the call began.
Idle == [pc |-> "idle", call |-> "none", todo |-> <<>>, now |-> 0, old |-> 0, clean |-> TRUE]

(* The zone comes zeroed, and the clock is far from zero. *)
Init ==
    /\ clock = Window
    /\ b = [tag |-> FirstTag, state |-> "CLOSED", probe_at |-> 0, epoch |-> 0,
            attempts |-> 0, failures |-> 0]
    /\ wk = [w \in Workers |-> Idle]
    /\ flight = [w \in Workers |-> 0]
    /\ probed = -Probe
    /\ opening = -Probe
    /\ opened = -Probe

-----------------------------------------------------------------------------
At(w, pc) == wk[w].pc = pc /\ wk[w].todo = <<>>

Goto(w, pc) == wk' = [wk EXCEPT ![w].pc = pc]

Read(w, pc, v) == wk' = [wk EXCEPT ![w].pc = pc, ![w].old = v]

Return(w) == wk' = [wk EXCEPT ![w] = Idle]

Write(w, stores) == wk' = [wk EXCEPT ![w] = [Idle EXCEPT !.todo = stores, !.now = wk[w].now,
                                                        !.clean = wk[w].clean]]

Kept == UNCHANGED <<clock, flight, probed, opening, opened>>

Latest(s, t) == IF s > t THEN s ELSE t

(* The next plain store of a worker. *)
Store(w) ==
    LET field == Head(wk[w].todo)[1]
        v     == Head(wk[w].todo)[2]
        rest  == Tail(wk[w].todo)
        wiped == field = "probe_at" /\ v = 0
    IN  /\ wk[w].todo # <<>>
        /\ b' = [b EXCEPT ![field] = v]
        /\ wk' = [x \in Workers |->
                     IF x = w THEN IF rest = <<>> /\ wk[w].pc = "idle" THEN Idle
                                   ELSE [wk[w] EXCEPT !.todo = rest]
                     ELSE IF wiped /\ wk[x] # Idle THEN [wk[x] EXCEPT !.clean = FALSE]
                     ELSE wk[x]]
        /\ opened' = IF wiped THEN -Probe
                     ELSE IF field = "state" /\ v = "OPEN" /\ wk[w].clean
                     THEN Latest(opened, wk[w].now)
                     ELSE opened
        /\ probed' = IF wiped THEN -Probe ELSE probed
        /\ UNCHANGED <<clock, flight, opening>>

-----------------------------------------------------------------------------
(* Calls, and breaker_get, with which each begins. *)

Begin(w, call) ==
    /\ At(w, "idle")
    /\ wk' = [wk EXCEPT ![w] = [Idle EXCEPT !.pc = "get", !.call = call, !.now = clock]]
    /\ UNCHANGED <<clock, b, probed, opening, opened>>

Entry(w) == IF wk[w].call = "allow" THEN "allow" ELSE "roll"

breaker_get(w) ==
    /\ At(w, "get")
    /\ IF b.tag = Tag[w] THEN Goto(w, Entry(w)) ELSE Read(w, "tag", b.tag)
    /\ UNCHANGED b
    /\ Kept

breaker_get_tag(w) ==
    /\ At(w, "tag")
    /\ IF b.tag = wk[w].old
       THEN /\ b' = [b EXCEPT !.tag = Tag[w]]
            /\ wk' = [wk EXCEPT ![w].pc = Entry(w),
                                ![w].todo = << <<"state", "CLOSED">>, <<"probe_at", 0>>,
                                    <<"epoch", 0>>, <<"attempts", 0>>, <<"failures", 0>> >>]
       ELSE Goto(w, Entry(w)) /\ UNCHANGED b
    /\ Kept

-----------------------------------------------------------------------------
(* breaker_allow: may the inspector be asked?  A closed breaker lets        *)
(* everyone through; else one worker at a time wins the right to probe.     *)

Allow(w) == flight[w] < MaxFlight /\ Begin(w, "allow") /\ UNCHANGED flight

LetThrough(w) == flight' = [flight EXCEPT ![w] = @ + 1]

(* Mutant: a half-open breaker waits for the result of its probe. *)
breaker_allow_half_waits(w) ==
    /\ At(w, "allow")
    /\ IF b.state = "CLOSED" THEN Return(w) /\ LetThrough(w)
       ELSE (IF b.state = "HALF" THEN Return(w) ELSE Goto(w, "probe")) /\ UNCHANGED flight
    /\ UNCHANGED <<clock, b, probed, opening, opened>>

breaker_allow(w) ==
    /\ At(w, "allow")
    /\ IF b.state = "CLOSED" THEN Return(w) /\ LetThrough(w)
       ELSE Goto(w, "probe") /\ UNCHANGED flight
    /\ UNCHANGED <<clock, b, probed, opening, opened>>

breaker_allow_due(w) ==
    /\ At(w, "probe")
    /\ IF wk[w].now >= b.probe_at THEN Read(w, "probe_at", b.probe_at) ELSE Return(w)
    /\ UNCHANGED b
    /\ Kept

breaker_allow_probe(w) ==
    /\ At(w, "probe_at")
    /\ \/ /\ b.probe_at = wk[w].old
          /\ b' = [b EXCEPT !.probe_at = wk[w].now + Probe]
          /\ Write(w, << <<"state", "HALF">> >>)
          /\ LetThrough(w)
          /\ probed' = wk[w].now
       \/ /\ b.probe_at # wk[w].old
          /\ Return(w)
          /\ UNCHANGED <<b, flight, probed>>
    /\ UNCHANGED <<clock, opening, opened>>

-----------------------------------------------------------------------------
(* breaker_result: a question was answered, or timed out. *)

Result(w, call) ==
    /\ flight[w] > 0
    /\ b.attempts < MaxAttempts
    /\ Begin(w, call)
    /\ flight' = [flight EXCEPT ![w] = @ - 1]

(* The request of the question ends first: nothing is accounted. *)
Lost(w) ==
    /\ At(w, "idle")
    /\ flight[w] > 0
    /\ flight' = [flight EXCEPT ![w] = @ - 1]
    /\ UNCHANGED <<clock, b, wk, probed, opening, opened>>

breaker_result_epoch(w) ==
    /\ At(w, "roll")
    /\ IF wk[w].now - b.epoch >= Window THEN Read(w, "epoch", b.epoch)
       ELSE Goto(w, "attempt")
    /\ UNCHANGED b
    /\ Kept

breaker_result_roll(w) ==
    /\ At(w, "epoch")
    /\ IF b.epoch = wk[w].old
       THEN /\ b' = [b EXCEPT !.epoch = wk[w].now]
            /\ wk' = [wk EXCEPT ![w].pc = "attempt",
                                ![w].todo = << <<"attempts", 0>>, <<"failures", 0>> >>]
       ELSE Goto(w, "attempt") /\ UNCHANGED b
    /\ Kept

breaker_result_attempt(w) ==
    /\ At(w, "attempt")
    /\ b' = [b EXCEPT !.attempts = @ + 1]
    /\ Goto(w, IF wk[w].call = "timeout" THEN "failure" ELSE "judge")
    /\ Kept

breaker_result_failure(w) ==
    /\ At(w, "failure")
    /\ b' = [b EXCEPT !.failures = @ + 1]
    /\ Goto(w, "judge")
    /\ Kept

(* Mutant: the state is stored before the time of the next probe. *)
breaker_open_state_first(w) ==
    /\ Write(w, << <<"state", "OPEN">>, <<"probe_at", wk[w].now + Probe>>,
                   <<"epoch", wk[w].now>>, <<"attempts", 0>>, <<"failures", 0>> >>)
    /\ opening' = Latest(opening, wk[w].now)
    /\ UNCHANGED <<clock, b, flight, probed, opened>>

breaker_open(w) ==
    /\ Write(w, << <<"probe_at", wk[w].now + Probe>>, <<"epoch", wk[w].now>>,
                   <<"attempts", 0>>, <<"failures", 0>>, <<"state", "OPEN">> >>)
    /\ opening' = Latest(opening, wk[w].now)
    /\ UNCHANGED <<clock, b, flight, probed, opened>>

breaker_close(w) ==
    /\ Write(w, << <<"epoch", wk[w].now>>, <<"attempts", 0>>, <<"failures", 0>>,
                   <<"state", "CLOSED">> >>)
    /\ UNCHANGED b
    /\ Kept

breaker_result_state(w) ==
    /\ At(w, "judge")
    /\ \/ b.state = "HALF" /\ wk[w].call = "timeout" /\ breaker_open(w)
       \/ b.state = "HALF" /\ wk[w].call = "answer" /\ breaker_close(w)
       \/ b.state = "OPEN" /\ Return(w) /\ UNCHANGED b /\ Kept
       \/ b.state = "CLOSED" /\ Goto(w, "samples") /\ UNCHANGED b /\ Kept

breaker_result_samples(w) ==
    /\ At(w, "samples")
    /\ IF b.attempts < MinSamples THEN Return(w) ELSE Read(w, "ratio", b.attempts)
    /\ UNCHANGED b
    /\ Kept

breaker_result_ratio(w) ==
    /\ At(w, "ratio")
    /\ IF b.failures > 0 /\ (b.failures * 10000) \div wk[w].old >= Threshold
       THEN breaker_open(w)
       ELSE Return(w) /\ UNCHANGED b /\ Kept

-----------------------------------------------------------------------------
Tick ==
    /\ clock < MaxTime
    /\ \A w \in Workers : wk[w] # Idle => clock - wk[w].now < Lag
    /\ clock' = clock + 1
    /\ UNCHANGED <<b, wk, flight, probed, opening, opened>>

Step(w) ==
    \/ Store(w) \/ breaker_get(w) \/ breaker_get_tag(w)
    \/ breaker_allow(w) \/ breaker_allow_due(w) \/ breaker_allow_probe(w)
    \/ breaker_result_epoch(w) \/ breaker_result_roll(w) \/ breaker_result_attempt(w)
    \/ breaker_result_failure(w) \/ breaker_result_state(w)
    \/ breaker_result_samples(w) \/ breaker_result_ratio(w)

Next ==
    \/ \E w \in Workers : Step(w) \/ Allow(w) \/ Lost(w)
    \/ \E w \in Workers, call \in {"answer", "timeout"} : Result(w, call)
    \/ Tick

Spec == Init /\ [][Next]_vars

-----------------------------------------------------------------------------

(* One probe per breaker_probe, over all the workers: a probe is let       *)
(* through only when breaker_probe has passed since the one before it and  *)
(* since the breaker was last opened, but for the time a worker stood      *)
(* still.  breaker_open stores probe_at before it stores the state, and    *)
(* the compare-and-set of breaker_allow gives the probe to one worker.     *)
(* The worker that claims the record for its inspector clears probe_at,    *)
(* and what was before that does not count.                                *)
ProbesSpaced ==
    [][(\E w \in Workers : At(w, "probe_at") /\ flight'[w] > flight[w])
         => /\ probed' - probed >= Probe - Lag
            /\ probed' - opened >= Probe - Lag]_vars

(* The breaker cannot shut an inspector out for good: a question is        *)
(* refused only within breaker_probe of the latest probe or of the latest  *)
(* decision to open.  A probe whose result never comes leaves the breaker  *)
(* half open, and the next request after breaker_probe probes again.  Only *)
(* a call during which the record is claimed for another inspector may be  *)
(* refused besides, when its compare-and-set meets the cleared probe_at.   *)
Refused(w) ==
    /\ wk[w].call = "allow" /\ wk'[w] = Idle
    /\ flight'[w] = flight[w]

RefusalsEnd ==
    [][\A w \in Workers : Refused(w) =>
          \/ wk[w].now - probed < Probe
          \/ wk[w].now - opening < Probe
          \/ ~wk[w].clean]_vars

=============================================================================
