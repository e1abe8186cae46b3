------------------------------ MODULE Response ------------------------------
(***************************************************************************)
(* The response of one request between the upstream and the client         *)
(* (runtime/ngx_http_waf_response.c): the header and body filters hold it  *)
(* (gate), let it pass while a window is copied (monitor) or only copy it  *)
(* for the record (journal), while the waves of the response phase run.    *)
(*                                                                         *)
(* The upstream's body is the bytes 1..Bytes, cut into buffers anywhere,   *)
(* the last of which is marked; a byte is its position.  What the client   *)
(* has got is the sequence sent: Hdr, then bytes, or New for an object     *)
(* that replaces them all, or Page for an answer of the module's own.      *)
(* WavePhase is the wave engine; here a wave ends with any of its          *)
(* outcomes.  Freeing the request and its reference count are nginx's.     *)
(***************************************************************************)
EXTENDS Integers, Sequences

CONSTANTS
    Routes,     \* configurations of the location, see below
    Bytes       \* length of the upstream's body

VARIABLES
    route,      \* the location, fixed
    c,          \* the context
    r           \* the request, as nginx sees it

vars == <<route, c, r>>

(* gate; monitor; journal: the phase is not inspected, only recorded;      *)
(* bypass: there is no body, or the answer is the module's own.            *)
Mode == Routes[route].mode
(* For each wave, whether it needs the body.                               *)
Waves == Routes[route].waves
(* Bytes a capture needs; Whole stands for CAPTURE_LIMIT_WHOLE.            *)
Need == Routes[route].need
(* waf_body_limit, its policy (block, trim, pass), waf_exception (block,   *)
(* pass), and what a rewrite needs: waf_send response body=store, and an   *)
(* upstream that does not encode its body.                                 *)
Limit == Routes[route].limit
LimitPolicy == Routes[route].policy
Exception == Routes[route].exception
Store == Routes[route].store
Encoded == Routes[route].encoded

Whole == Bytes + 1
Hdr == 0
New == -1
Page == -2

(* state and at: the state of the phase and what it waits for; rc: the     *)
(* outcome of the phase, once it has one; waived: the limit policy let the *)
(* response pass.  from: bytes the upstream has handed over; ended: all of *)
(* them; written: the client has them and the upstream its reference given *)
(* back; inside: a body filter is running; under: it lost the request.     *)
Init ==
    /\ route \in DOMAIN Routes
    /\ c = [entered |-> FALSE, settled |-> FALSE, last |-> FALSE, denied |-> FALSE,
            monitor |-> FALSE, wait_body |-> FALSE, streaming |-> FALSE, capped |-> FALSE,
            monitor_held |-> FALSE, journal |-> FALSE, fetch_done |-> FALSE, rewriter |-> FALSE,
            hold |-> <<>>, size |-> 0, state |-> "INIT", at |-> "none", wave |-> 1,
            body_ready |-> FALSE, records |-> 0, rc |-> "none", waived |-> FALSE]
    /\ r = [headed |-> FALSE, buffered |-> FALSE, sent |-> <<>>, from |-> 0, ended |-> FALSE, written |-> FALSE,
            count |-> 1, aborted |-> FALSE, inside |-> FALSE, under |-> FALSE]

X == [c |-> c, r |-> r]
Alive == r.count > 0
Becomes(S) == \E x \in S : c' = x.c /\ r' = [x.r EXCEPT !.inside = FALSE] /\ UNCHANGED route

Wait(x, what) == [x EXCEPT !.c.at = what]

(* The next filters, towards the client. *)
Send(x, what) == [x EXCEPT !.r.sent = @ \o what]

(* log_verdict: one record per phase. *)
log_verdict(x) == [x EXCEPT !.c.records = 1]

(* ngx_http_finalize_request with an error, and with the response sent:    *)
(* unless bytes wait for the client, the request is freed at once.  From a *)
(* filter this pulls it away from the upstream that called the filter.     *)
Terminate(x) == [x EXCEPT !.r.count = 0]
Finalize(x) ==
    IF x.r.inside THEN {x, [x EXCEPT !.r.count = @ - 1, !.r.under = (x.r.count = 1)]} ELSE {x}

-----------------------------------------------------------------------------
(* Settling the response. *)

response_hold(x) == IF x.c.settled THEN x ELSE [x EXCEPT !.r.buffered = TRUE]

response_stream(x) ==
    IF x.c.settled THEN x
    ELSE Send([x EXCEPT !.c.streaming = TRUE, !.r.buffered = FALSE], <<Hdr>>)

response_release(x) ==
    IF x.c.settled THEN x
    ELSE Send([x EXCEPT !.c.settled = TRUE, !.c.streaming = FALSE, !.c.hold = <<>>,
                        !.r.buffered = FALSE], <<Hdr>> \o x.c.hold)

(* filter_finalize_request sends the page and answers with an error. *)
response_deny(x) ==
    IF x.c.settled THEN [x |-> x, rc |-> "ok"]
    ELSE [x |-> Send([x EXCEPT !.c.settled = TRUE, !.c.streaming = FALSE, !.c.denied = TRUE,
                               !.c.hold = <<>>, !.c.size = 0, !.r.buffered = FALSE], <<Page>>),
          rc |-> "error"]

\* Mutant: a response that waits goes out under gate too.
response_outcome_open(x, rc) ==
    IF rc = "done" THEN [x |-> response_stream([x EXCEPT !.c.monitor = TRUE]), rc |-> "ok"]
    ELSE IF rc = "ok" THEN [x |-> response_release(x), rc |-> "ok"] ELSE response_deny(x)

response_outcome(x, rc) ==
    IF rc = "done"
    THEN [x |-> IF Mode = "monitor" THEN response_stream([x EXCEPT !.c.monitor = TRUE])
                ELSE response_hold(x), rc |-> "ok"]
    ELSE IF rc = "ok" THEN [x |-> response_release(x), rc |-> "ok"]
    ELSE response_deny(x)

-----------------------------------------------------------------------------
(* A response replaced by an inspector's object, which the store serves    *)
(* now or later. *)

rewrite_fail(x) ==
    [x EXCEPT !.c.fetch_done = TRUE, !.c.state = IF Exception = "block" THEN "DENY" ELSE @]

rewrite_swap(x) == [x EXCEPT !.c.hold = <<New>>, !.c.size = 1, !.c.fetch_done = TRUE]

response_rewrite(x) ==
    IF x.c.state # "ALLOW" \/ ~x.c.rewriter \/ ~Store \/ x.c.settled \/ x.c.streaming
    THEN {[x EXCEPT !.c.fetch_done = TRUE]}
    ELSE IF ~x.c.last \/ Need # Whole \/ Encoded THEN {rewrite_fail(x)}
    ELSE {Wait(x, "fetch"), rewrite_fail(x), rewrite_swap(x)}

-----------------------------------------------------------------------------
(* The phase, as the filters see it: sets of [x, rc]. *)

body_ready(x) == x.c.last \/ x.c.capped \/ (Need # Whole /\ x.c.size >= Need)

(* apply and finish_done: the outcome, with its record. *)
finish_done(x, rc) == [x |-> log_verdict([x EXCEPT !.c.state = "DONE", !.c.rc = rc]), rc |-> rc]

(* phase_apply: waf_exception decides about a failure; the page of a deny  *)
(* may have to be fetched first. *)
phase_apply(x) ==
    IF x.c.state = "ALLOW" \/ (x.c.state = "FAILED" /\ Exception = "pass")
    THEN {finish_done(x, "ok")}
    ELSE {finish_done(x, "status")} \cup
         (IF x.c.state = "DENY"
          THEN {[x |-> Wait([x EXCEPT !.c.state = "FETCHING_FORM"], "form"), rc |-> "done"]} ELSE {})

RECURSIVE wave_start(_), response_resume(_), response_body_place(_)

(* A wave that needs the body waits for it or places it.  Any other is     *)
(* published, or cannot be, or is closed at once because nobody is asked.  *)
wave_start(x) ==
    IF Waves[x.c.wave] /\ ~x.c.body_ready
    THEN IF body_ready(x)
         THEN {[x |-> y, rc |-> "done"] : y \in response_body_place([x EXCEPT !.c.state = "NEED_BODY"])}
         ELSE {[x |-> Wait([x EXCEPT !.c.state = "NEED_BODY", !.c.wait_body = TRUE], "body"), rc |-> "done"]}
    ELSE {[x |-> Wait([x EXCEPT !.c.state = "WAITING"], "wave"), rc |-> "done"]}
         \cup phase_apply([x EXCEPT !.c.state = "FAILED"])
         \cup (IF x.c.wave < Len(Waves) THEN wave_start([x EXCEPT !.c.wave = @ + 1])
               ELSE phase_apply([x EXCEPT !.c.state = "ALLOW"]))

phase_resume(x) ==
    IF x.c.state = "NEXT_WAVE" THEN wave_start(x)
    ELSE IF x.c.state = "FINISH" THEN {finish_done(x, "status")} ELSE phase_apply(x)

(* body_resumed: back to the wave that wanted the body, or to its failure. *)
body_resumed(x, ok) ==
    response_resume(Wait([x EXCEPT !.c.state = IF ok THEN "NEXT_WAVE" ELSE "FAILED"], "none"))

(* The store takes the body later, or has taken or refused it. *)
response_body_place(x) ==
    LET y == [x EXCEPT !.c.wait_body = FALSE, !.c.body_ready = TRUE]
    IN {Wait(y, "store")} \cup UNION {body_resumed(y, ok) : ok \in BOOLEAN}

\* Mutant: the reference is not given back.
Unhold_not(x) == [x EXCEPT !.c.monitor_held = FALSE]

(* The reference that kept a monitored request alive is given back. *)
Unhold(x) == [x EXCEPT !.c.monitor_held = FALSE, !.r.count = @ - 1]

(* What resume does with the outcome of the phase. *)
Settle(x, rc) ==
    IF rc = "done" THEN {x}
    ELSE IF x.c.monitor
    THEN {IF rc # "ok" THEN Terminate([x EXCEPT !.c.monitor_held = FALSE])
          ELSE IF x.c.monitor_held THEN Unhold(x) ELSE x}
    ELSE LET o == response_outcome(x, rc)
         IN IF o.rc = "error" THEN {Terminate(o.x)}
            ELSE IF o.x.c.last THEN Finalize(o.x) ELSE {o.x}

response_resume(x) ==
    UNION { IF y.c.at = "fetch" THEN {y} ELSE UNION {Settle(z.x, z.rc) : z \in phase_resume(y)} :
            y \in IF x.c.state # "NEXT_WAVE" /\ ~x.c.fetch_done THEN response_rewrite(x) ELSE {x} }

-----------------------------------------------------------------------------
(* The filters.  header_filter: what a location bypasses goes on as it is. *)

header_filter(y) ==
    LET x == [y EXCEPT !.r.headed = TRUE] IN
    IF Mode = "bypass" THEN {Send(x, <<Hdr>>)}
    ELSE IF Mode = "journal"
    THEN {Send([x EXCEPT !.c.entered = TRUE, !.c.journal = TRUE], <<Hdr>>)}
    ELSE { LET o == response_outcome(z.x, z.rc) IN IF o.rc = "error" THEN Terminate(o.x) ELSE o.x :
           z \in wave_start([x EXCEPT !.c.entered = TRUE]) }

(* At most Limit bytes are copied aside; all of them go on. *)
stream_capture(x, in, last) ==
    LET size == IF x.c.size + Len(in) < Limit THEN x.c.size + Len(in) ELSE Limit
    IN [x EXCEPT !.c.last = last, !.c.size = size, !.c.capped = @ \/ size = Limit,
                 !.c.hold = @ \o SubSeq(in, 1, size - x.c.size)]

response_overlimit(x) ==
    LET policy == IF Need = Whole THEN Exception ELSE LimitPolicy
        trimmed == [x EXCEPT !.c.capped = TRUE]
    IN IF policy = "trim" THEN IF x.c.wait_body THEN response_body_place(trimmed) ELSE {trimmed}
       ELSE IF policy = "pass" THEN {response_release([x EXCEPT !.c.waived = TRUE])}
       ELSE {Terminate(response_deny(log_verdict(x)).x)}

\* Mutant: a buffer past the limit is not kept.
hold_chain_drops(x, in, last) ==
    LET y == [x EXCEPT !.c.last = last, !.c.size = @ + Len(in),
                       !.c.hold = IF x.c.size + Len(in) > Limit THEN @ ELSE @ \o in]
    IN IF ~y.c.capped /\ y.c.size > Limit THEN response_overlimit(y) ELSE {y}

hold_chain(x, in, last) ==
    LET y == [x EXCEPT !.c.last = last, !.c.hold = @ \o in, !.c.size = @ + Len(in)]
    IN IF ~y.c.capped /\ y.c.size > Limit THEN response_overlimit(y) ELSE {y}

journal_finish(x) == log_verdict([x EXCEPT !.c.last = TRUE, !.c.state = "DONE", !.c.rc = "ok"])

(* The prefix the record wants is copied, all of it passes. *)
journal_body(x, in, last) ==
    LET y == Send(stream_capture(x, in, FALSE), in) IN IF last THEN journal_finish(y) ELSE y

\* Mutant: the request is not held for the wave that wants the body.
Held_not(x) == x

(* A monitored wave that starts behind the response holds the request. *)
Held(x) == IF x.c.monitor_held THEN x ELSE [x EXCEPT !.c.monitor_held = TRUE, !.r.count = @ + 1]

body_filter(x, in, last) ==
    IF x.c.journal THEN {journal_body(x, in, last)}
    ELSE IF x.c.streaming /\ ~x.c.settled
    THEN LET y == Send(stream_capture(x, in, last), in)
         IN IF y.c.wait_body /\ body_ready(y) THEN response_body_place(Held(y)) ELSE {y}
    ELSE IF ~x.c.entered \/ x.c.settled THEN {Send(x, in)}
    ELSE UNION { IF y.c.wait_body /\ ~y.c.settled /\ body_ready(y) THEN response_body_place(y) ELSE {y} :
                 y \in hold_chain(x, in, last) }

-----------------------------------------------------------------------------
(* Events. *)

Header == Alive /\ ~r.headed /\ Becomes(header_filter(X))

(* The upstream hands over a buffer; the last one may be empty. *)
Chunk(n) ==
    LET last == r.from + n = Bytes IN
    /\ Alive /\ r.headed /\ ~r.ended /\ ~c.denied /\ r.from + n <= Bytes /\ (n > 0 \/ last)
    /\ Becomes(body_filter([X EXCEPT !.r.from = @ + n, !.r.ended = last, !.r.inside = TRUE],
                           [i \in 1..n |-> r.from + i], last))

(* The upstream has finalized the request and the client has got it all. *)
Written ==
    /\ Alive /\ r.ended /\ ~r.buffered /\ ~r.written
    /\ Becomes({[X EXCEPT !.r.written = TRUE, !.r.count = @ - 1]})

(* The open wave ends: by answers, absences or the deadline.  rewriter: an *)
(* answer changed the body. *)
WaveEnds(state, rewriter) ==
    /\ Alive /\ c.at = "wave"
    /\ rewriter => c.body_ready /\ state \in {"NEXT_WAVE", "ALLOW"}
    /\ state = "NEXT_WAVE" => c.wave < Len(Waves)
    /\ state = "ALLOW" => c.wave = Len(Waves)
    /\ Becomes(response_resume(
           [X EXCEPT !.c.state = state, !.c.at = "none", !.c.rewriter = @ \/ rewriter,
                     !.c.wave = IF state = "NEXT_WAVE" THEN @ + 1 ELSE @]))

(* body_on_put. *)
StoreAnswers(ok) == Alive /\ c.at = "store" /\ Becomes(body_resumed(X, ok))

(* form_resumed. *)
FormFetched == Alive /\ c.at = "form" /\ Becomes(response_resume([X EXCEPT !.c.state = "FINISH", !.c.at = "none"]))

rewrite_fetched(ok) ==
    /\ Alive /\ c.at = "fetch"
    /\ Becomes(response_resume(LET x == Wait(X, "none") IN IF ok THEN rewrite_swap(x) ELSE rewrite_fail(x)))

(* The client goes away or the upstream fails, and everything is freed;    *)
(* the cleanup of a journal still writes its record. *)
Abort ==
    /\ Alive /\ r.headed
    /\ Becomes({Terminate([(IF c.journal THEN log_verdict(X) ELSE X) EXCEPT !.r.aborted = TRUE])})

Next ==
    \/ Header \/ Written \/ FormFetched \/ Abort
    \/ \E n \in 0..2 : Chunk(n)
    \/ \E s \in {"NEXT_WAVE", "ALLOW", "DENY", "FAILED"}, w \in BOOLEAN : WaveEnds(s, w)
    \/ \E ok \in BOOLEAN : StoreAnswers(ok) \/ rewrite_fetched(ok)

Spec == Init /\ [][Next]_vars

(* Upstreams answer or time out, waves have deadlines and the store's      *)
(* operations timeouts; clients take what they are sent or are given up.   *)
FairSpec ==
    /\ Spec /\ WF_vars(Header) /\ WF_vars(\E n \in 0..2 : Chunk(n)) /\ WF_vars(Written)
    /\ WF_vars(\E s \in {"NEXT_WAVE", "ALLOW", "DENY", "FAILED"}, w \in BOOLEAN : WaveEnds(s, w))
    /\ WF_vars(\E ok \in BOOLEAN : StoreAnswers(ok)) /\ WF_vars(FormFetched)
    /\ WF_vars(\E ok \in BOOLEAN : rewrite_fetched(ok))

-----------------------------------------------------------------------------
(* Properties. *)

(* Under gate nothing of the upstream's response reaches the client until  *)
(* the phase has let it pass or a limit policy has, and after a deny       *)
(* nothing of it ever does: the client gets the page alone. *)
GateHolds ==
    Mode = "gate" =>
        /\ r.sent # <<>> /\ ~c.denied => c.rc = "ok" \/ c.waived
        /\ c.denied => r.sent = <<Page>>

(* However the response was cut, held, released and streamed on, what the  *)
(* client has is a prefix of the upstream's response in order, each byte   *)
(* once, or the object that replaces all of it, never a mixture; and a     *)
(* request that ended without an error has delivered one of them whole. *)
DeliveredWhole ==
    LET original == <<Hdr>> \o [i \in 1..Bytes |-> i]
        k == Len(r.sent)
    IN ~c.denied =>
       /\ r.sent = <<Hdr, New>> \/ (k <= Len(original) /\ r.sent = SubSeq(original, 1, k))
       /\ ~Alive /\ ~r.aborted /\ ~(c.monitor /\ c.rc = "status") =>
            r.sent \in {original, <<Hdr, New>>}

(* A journal has its record however the request ends; a gated response     *)
(* that the phase or the limit settled has it, and so has a monitored one  *)
(* whose first wave wants the body, since the filter then holds the        *)
(* request until the wave has run. *)
Recorded ==
    /\ Mode = "journal" /\ ~Alive => c.records = 1
    /\ Mode = "gate" /\ c.settled /\ ~c.waived => c.records = 1
    /\ Mode = "monitor" /\ ~Alive /\ ~r.aborted /\ Waves[1] => c.records = 1

(* Every request whose response was entered is freed in the end: no wave,  *)
(* store or fetch leaves a held response behind, and a reference taken for *)
(* a monitored wave is given back. *)
RequestEnds == <>(~Alive)

(* The waves of a monitored response run behind it to their end: a request *)
(* that was not cut has the record of its phase. *)
WavesRunBehind == Mode = "monitor" /\ ~Alive /\ ~r.aborted => c.records = 1

=============================================================================
