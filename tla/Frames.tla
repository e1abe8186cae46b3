------------------------------- MODULE Frames -------------------------------
(***************************************************************************)
(* WebSocket frames between a client and an upstream                       *)
(* (stream/ngx_http_waf_frame.c).  Each direction has a buffer whose front *)
(* is cleared to go on; complete frames, or messages put together from     *)
(* fragments, are held behind it until their phase ends.  One phase runs   *)
(* at a time for both directions.                                          *)
(*                                                                         *)
(* A frame on the wire is a header of one cell, or two for a long payload, *)
(* and its payload cells.  Masking is left out.  Sockets are edge          *)
(* triggered: an event comes with new cells or with new room, and what a   *)
(* handler leaves unread stays without another event.                      *)
(***************************************************************************)
EXTENDS Integers, Sequences, FiniteSets, SequencesExt

CONSTANTS
    Scripts,    \* what the peers send, with the location's configuration
    Room,       \* cells a socket takes at a time
    BufMin      \* NGX_HTTP_WAF_FRAME_BUF_MIN

VARIABLES
    script,     \* the connection, fixed
    x           \* the frame context of the connection

vars == <<script, x>>

Dirs == {"c2s", "s2c"}
(* mode: inspect, journal or pass; limit and policy: waf_body_limit;       *)
(* assemble: waf_frame_reassemble; exception: waf_exception body.          *)
Conf(d) == Scripts[script][d]

Short == 1          \* the longest payload with a header of one cell
HeaderMax == 2
Slack == 1
HLen(len) == IF len <= Short THEN 1 ELSE 2

(* A cell: of a header (k <= 0) or of a payload; f is its frame, New + f   *)
(* that of an object that replaces frame f. *)
Header(f, op, fin, len, rsv) ==
    [k \in 1..HLen(len) |-> [k |-> k - HLen(len), f |-> f, op |-> op, fin |-> fin, len |-> len, rsv |-> rsv]]
Payload(f, len) ==
    [k \in 1..len |-> [k |-> k, f |-> f, op |-> "", fin |-> FALSE, len |-> 0, rsv |-> FALSE]]
Cells(f, fr) == Header(f, fr.op, fr.fin, fr.len, fr.rsv) \o Payload(f, fr.len)
Wire(frames) == FlattenSeq([f \in 1..Len(frames) |-> Cells(f, frames[f])])
New == 100

(* dir_init: the buffer of a direction. *)
BufferSize(d) ==
    LET size == IF Conf(d).mode = "pass" THEN HeaderMax + Slack
                ELSE Conf(d).limit + 2 * HeaderMax + Slack
    IN IF size < BufMin THEN BufMin ELSE size

(* in: cells from pos to last; base: pos - start; cleared: cells of in     *)
(* that may go.  net, rd: cells the peer will send, and has sent; wr: room *)
(* of the other socket; sent: cells it took; fin: the peer has closed.     *)
(* seed: cells that arrived with the handshake. *)
DirInit(frames, seed) ==
    [in |-> SubSeq(Wire(frames), 1, seed), base |-> 0, cleared |-> 0, skip |-> 0, drop |-> 0, held |-> 0, out |-> <<>>,
     msg |-> FALSE, msg_len |-> 0, msg_hlen |-> 0, msg_skip |-> FALSE, msg_first |-> 0,
     net |-> SubSeq(Wire(frames), seed + 1, Len(Wire(frames))), rd |-> <<>>, fin |-> FALSE, wr |-> Room, sent |-> <<>>]

Init ==
    /\ script \in DOMAIN Scripts
    /\ x = [c2s |-> DirInit(Conf("c2s").frames, Conf("c2s").seed),
            s2c |-> DirInit(Conf("s2c").frames, Conf("s2c").seed), kick |-> TRUE,
            cur |-> "none", fetching |-> FALSE, closing |-> FALSE, code |-> FALSE,
            gone |-> FALSE, allowed |-> [d \in Dirs |-> {}]]

(* set_close and failures without a close code. *)
set_close(y) == [y EXCEPT !.closing = TRUE, !.code = TRUE]

-----------------------------------------------------------------------------
(* Fragments. *)

Skip(y, d, n) == [y EXCEPT ![d].skip = n]
Clear(y, d, n) == [y EXCEPT ![d].cleared = @ + n]
Without(s, from, n) == SubSeq(s, 1, from - 1) \o SubSeq(s, from + n, Len(s))

\* Mutant: a control frame is cleared where it stands, behind the held fragments.
hoist_not(y, d, p, n) == y

(* hoist: n cells at p go in front of the fragments held so far. *)
hoist(y, d, p, n) ==
    [y EXCEPT ![d].in = LET c == y[d].cleared IN
        SubSeq(@, 1, c) \o SubSeq(@, p, p + n - 1) \o SubSeq(@, c + 1, p - 1) \o SubSeq(@, p + n, Len(@))]

(* cut: a control frame above the rate disappears. *)
cut(y, d, p, n) == [y EXCEPT ![d].in = Without(@, p, n)]

msg_start(y, d, h, hlen) ==
    [y EXCEPT ![d].msg = TRUE, ![d].msg_len = h.len, ![d].msg_hlen = hlen, ![d].msg_first = h.f]

(* msg_append: the header of a fragment at p disappears. *)
msg_append(y, d, p, hlen, len) ==
    [y EXCEPT ![d].in = Without(@, p, hlen), ![d].msg_len = @ + len]

(* msg_seal: the held fragments become one frame, with a header of its own *)
(* length. *)
msg_seal(y, d, fin) ==
    LET z == y[d]
        old == z.in[z.cleared + 1]
    IN [y EXCEPT ![d].msg = FALSE,
                 ![d].in = SubSeq(@, 1, z.cleared) \o Header(old.f, old.op, fin, z.msg_len, FALSE)
                           \o SubSeq(@, z.cleared + z.msg_hlen + 1, Len(@))]

-----------------------------------------------------------------------------
(* The end of a phase. *)

(* frame_end. *)
frame_end(y) == [y EXCEPT !.cur = "none", !.fetching = FALSE]

(* finish: a deny and a phase without a verdict close the connection. *)
frame_finish(y, ok) == IF ok THEN y ELSE set_close(y)

frame_settle(y, ok) ==
    LET d == y.cur
        z == frame_finish(y, ok)
    IN frame_end(IF ok THEN [z EXCEPT ![d].cleared = @ + z[d].held, ![d].held = 0] ELSE z)

(* The frames whose bytes are held. *)
HeldFrames(y, d) ==
    {y[d].in[i].f : i \in (y[d].cleared + 1)..(y[d].cleared + y[d].held)}

(* swap: the object goes out instead, once what is cleared has gone. *)
frame_swap(y) ==
    LET d == y.cur
        old == y[d].in[y[d].cleared + 1]
    IN [y EXCEPT ![d].out = Header(New + old.f, old.op, old.fin, 1, FALSE) \o Payload(New + old.f, 1),
                 ![d].drop = y[d].held, ![d].held = 0]

rewrite_fail(y) == IF Conf(y.cur).exception = "block" THEN set_close(y) ELSE y

(* inspect: the phase waits, or has ended at once by a local rule, the     *)
(* cache or a failure. *)
frame_inspect(y, d, held) ==
    LET z == [y EXCEPT !.cur = d, ![d].held = held]
        passed == [z EXCEPT !.allowed[d] = @ \cup HeldFrames(z, d)]
    IN {z, frame_settle(passed, TRUE), frame_settle(z, FALSE)}

(* journal: the frame goes on, and the record is written. *)
frame_journal(y, d, held) == frame_settle([Clear(y, d, held) EXCEPT !.cur = d], TRUE)

-----------------------------------------------------------------------------
RECURSIVE parse(_, _, _)

(* The loop of parse goes on with y. *)
reparse(y, d, ctl) == UNION {parse(z, d, ctl) : z \in {y}}

(* A frame over the limit or with extension bits passes as it is, with     *)
(* what was held of its message and what is to come of it. *)
Exempt(y, d, h, hlen) ==
    LET z == IF y[d].msg THEN LET s == msg_seal(y, d, FALSE)
                              IN [Clear(s, d, HLen(y[d].msg_len) + y[d].msg_len) EXCEPT ![d].msg_skip = ~h.fin]
             ELSE [y EXCEPT ![d].msg_skip = @ \/ (Conf(d).assemble /\ ~h.fin /\ h.op # "cont")]
    IN Skip([z EXCEPT !.allowed[d] = @ \cup {h.f} \cup
                 {y[d].in[i].f : i \in IF y[d].msg THEN (y[d].cleared + 1)..(y[d].cleared + y[d].msg_len + y[d].msg_hlen) ELSE {}}],
            d, hlen + h.len)

(* A whole data frame of hlen + h.len cells at p, within the limit. *)
parse_data(y, d, p, h, hlen, ctl) ==
    IF Conf(d).mode = "journal" THEN {[x |-> frame_journal(y, d, hlen + h.len), rc |-> "ok"]}
    ELSE IF Conf(d).assemble /\ ~h.fin /\ h.op # "cont" THEN reparse(msg_start(y, d, h, hlen), d, ctl)
    ELSE IF y[d].msg
    THEN LET z == msg_append(y, d, p, hlen, h.len)
         IN IF ~h.fin THEN reparse(z, d, ctl)
            ELSE {[x |-> w, rc |-> "ok"] :
                  w \in frame_inspect(msg_seal(z, d, TRUE), d, HLen(z[d].msg_len) + z[d].msg_len)}
    ELSE {[x |-> w, rc |-> "ok"] : w \in frame_inspect(y, d, hlen + h.len)}

(* What the code of a data frame requires of the frames before it. *)
Unexpected(y, d, h) ==
    Conf(d).assemble /\ IF h.op = "cont" THEN ~y[d].msg /\ ~y[d].msg_skip ELSE y[d].msg \/ y[d].msg_skip

(* ctl: whether control frames are within their rate. *)
parse(y, d, ctl) ==
    LET hold == IF y[d].msg THEN y[d].msg_hlen + y[d].msg_len ELSE 0
        p == y[d].cleared + hold + 1
        avail == Len(y[d].in) - p + 1
        take == IF y[d].skip < avail THEN y[d].skip ELSE avail
        h == y[d].in[p]
        hlen == HLen(h.len)
        again == {[x |-> y, rc |-> "again"]}
        closed == {[x |-> set_close(y), rc |-> "ok"]}
    IN IF y[d].skip > 0
       THEN LET z == [Clear(y, d, take) EXCEPT ![d].skip = @ - take]
            IN IF z[d].skip > 0 THEN {[x |-> z, rc |-> "again"]} ELSE reparse(z, d, ctl)
       ELSE IF avail < 1 \/ avail < hlen THEN again
       ELSE IF h.op \in {"ctl", "bad"}
       THEN IF h.op = "bad" THEN closed
            ELSE IF avail < hlen + h.len THEN again
            ELSE IF ~ctl THEN reparse(cut(y, d, p, hlen + h.len), d, ctl)
            ELSE reparse(Clear(IF hold # 0 THEN hoist(y, d, p, hlen + h.len) ELSE y, d, hlen + h.len), d, ctl)
       ELSE IF Conf(d).mode = "pass" THEN reparse(Skip(y, d, hlen + h.len), d, ctl)
       ELSE IF Conf(d).assemble /\ h.op = "cont" /\ y[d].msg_skip
       THEN reparse(Skip([y EXCEPT ![d].msg_skip = ~h.fin, !.allowed[d] = @ \cup {h.f}], d, hlen + h.len), d, ctl)
       ELSE IF Unexpected(y, d, h) THEN closed
       ELSE IF h.len + (IF y[d].msg THEN y[d].msg_len ELSE 0) > Conf(d).limit
       THEN IF Conf(d).policy = "block" /\ Conf(d).mode = "inspect" THEN closed
            ELSE reparse(Exempt(y, d, h, hlen), d, ctl)
       ELSE IF h.rsv THEN reparse(Exempt(y, d, h, hlen), d, ctl)
       ELSE IF avail < hlen + h.len THEN again
       ELSE parse_data(y, d, p, h, hlen, ctl)

-----------------------------------------------------------------------------
(* The pump of a direction: parse, send what is cleared, drop what was     *)
(* replaced, send the object, move the rest to the front, read. *)

Least(a, b) == IF a < b THEN a ELSE b

send_cleared(y, d) ==
    LET n == Least(y[d].cleared, y[d].wr)
    IN [y EXCEPT ![d].sent = @ \o SubSeq(y[d].in, 1, n), ![d].in = SubSeq(@, n + 1, Len(@)),
                 ![d].base = @ + n, ![d].cleared = @ - n, ![d].wr = @ - n]

\* Mutant: the drop does not wait for what is cleared before it.
drop_replaced_early(y, d) ==
    [y EXCEPT ![d].in = SubSeq(@, y[d].drop + 1, Len(@)), ![d].base = @ + y[d].drop, ![d].drop = 0]

drop_replaced(y, d) ==
    IF y[d].drop = 0 \/ y[d].cleared # 0 THEN y
    ELSE [y EXCEPT ![d].in = SubSeq(@, y[d].drop + 1, Len(@)), ![d].base = @ + y[d].drop, ![d].drop = 0]

send_out(y, d) ==
    LET n == IF y[d].drop = 0 THEN Least(Len(y[d].out), y[d].wr) ELSE 0
    IN [y EXCEPT ![d].sent = @ \o SubSeq(y[d].out, 1, n), ![d].out = SubSeq(@, n + 1, Len(@)), ![d].wr = @ - n]

\* Mutant: what was sent keeps its place in the buffer.
compact_not(y, d) == y

compact(y, d) ==
    IF y[d].cleared = 0 /\ y.cur # d /\ y[d].drop = 0 THEN [y EXCEPT ![d].base = 0] ELSE y

Free(y, d) == BufferSize(d) - y[d].base - Len(y[d].in)

recv(y, d) ==
    LET n == IF Free(y, d) > Slack THEN Least(Len(y[d].rd), Free(y, d) - Slack) ELSE 0
    IN [y EXCEPT ![d].in = @ \o SubSeq(y[d].rd, 1, n), ![d].rd = SubSeq(@, n + 1, Len(@))]

RECURSIVE pump(_, _, _)
pump(y, d, ctl) ==
    UNION { IF q.x.closing THEN {q.x}
            ELSE UNION { IF o.ahead /\ o.x[d].out = <<>> THEN pump(o.x, d, ctl)
                         ELSE UNION { IF z[d].rd # o.x[d].rd \/ (q.rc = "ok" /\ q.x.cur = "none")
                                      THEN pump(z, d, ctl) ELSE {z} :
                                      z \in {recv(compact(o.x, d), d)} } :
                         o \in {[x |-> send_out(drop_replaced(w, d), d),
                                 ahead |-> w[d].out # <<>>] : w \in {send_cleared(q.x, d)}} } :
            q \in IF (y.cur = "none" \/ Conf(d).mode = "pass") /\ y[d].drop = 0 /\ y[d].out = <<>>
                  THEN parse(y, d, ctl) ELSE {[x |-> y, rc |-> "again"]} }

(* The loop starts at an event. *)
pumped(y, d, ctl) == UNION {pump(z, d, ctl) : z \in {y}}

-----------------------------------------------------------------------------
(* finalize: the phase, if any, is given up with the connection. *)
frame_finalize(y) == [frame_end(y) EXCEPT !.gone = TRUE]

Eof(y, d) == y[d].fin /\ y[d].net = <<>> /\ y[d].rd = <<>>

frame_idle(y, d) == y.cur # d /\ y[d].drop = 0 /\ y[d].cleared = 0 /\ y[d].out = <<>>

(* events: the connection ends with the peers. *)
frame_events(y) ==
    IF (\E d \in Dirs : Eof(y, d) /\ frame_idle(y, d)) \/ (\A d \in Dirs : Eof(y, d))
    THEN frame_finalize(y) ELSE y

After(y) == IF y.closing THEN frame_finalize(y) ELSE frame_events(y)

frame_process(y, d, ctl) == {After(z) : z \in pumped(y, d, ctl)}

(* run, after a phase. *)
frame_run(y, ctl) ==
    UNION { IF z.closing THEN {After(z)} ELSE {After(w) : w \in pumped(z, "s2c", ctl)} :
            z \in pumped(y, "c2s", ctl) }

(* rewrite: the object is fetched, is at hand, or cannot be had. *)
frame_rewrite(y) ==
    LET failed == rewrite_fail(y)
    IN {[y EXCEPT !.fetching = TRUE], frame_settle(frame_swap(y), TRUE), frame_settle(failed, ~failed.closing)}

(* apply: a pass with a rewrite takes its object first. *)
frame_apply(y, rc, rewriter) ==
    IF rc # "ok" THEN {frame_settle(y, FALSE)}
    ELSE LET z == [y EXCEPT !.allowed[y.cur] = @ \cup HeldFrames(y, y.cur)]
         IN IF rewriter THEN frame_rewrite(z) ELSE {frame_settle(z, TRUE)}

-----------------------------------------------------------------------------
Becomes(S) == x' \in S /\ UNCHANGED script

(* The posted event of attach. *)
Kick(ctl) == ~x.gone /\ x.kick /\ Becomes(frame_process([x EXCEPT !.kick = FALSE], "c2s", ctl))

(* Cells arrive; the last of them with or without the end of the stream. *)
Arrive(d, n, fin, ctl) ==
    /\ ~x.gone /\ n <= Len(x[d].net) /\ (fin => n = Len(x[d].net)) /\ (n > 0 \/ (fin /\ ~x[d].fin))
    /\ Becomes(frame_process([x EXCEPT ![d].rd = @ \o SubSeq(x[d].net, 1, n), ![d].fin = fin,
                                      ![d].net = SubSeq(@, n + 1, Len(@))], d, ctl))

(* A socket that was full takes cells again. *)
Writable(d, ctl) == ~x.gone /\ x[d].wr = 0 /\ Becomes(frame_process([x EXCEPT ![d].wr = Room], d, ctl))

(* frame_resume. *)
WaveEnds(rc, rewriter, ctl) ==
    /\ ~x.gone /\ x.cur # "none" /\ ~x.fetching
    /\ Becomes(UNION { IF y.fetching THEN {y} ELSE frame_run(y, ctl) : y \in frame_apply(x, rc, rewriter) })

(* frame_fetched. *)
Fetched(ok, ctl) ==
    /\ ~x.gone /\ x.fetching
    /\ LET y == IF ok THEN frame_swap(x) ELSE rewrite_fail(x)
           z == frame_settle(y, ~y.closing)
       IN Becomes(IF z.closing THEN {After(z)} ELSE frame_run(z, ctl))

(* A socket fails or times out. *)
Broken == ~x.gone /\ Becomes({frame_finalize(x)})

(* ctrl_allowed: whether control frames are within their rate; the window  *)
(* lasts longer than an event. *)
ctrl_allowed == Scripts[script].ctl

Next ==
    \/ \E ctl \in ctrl_allowed :
        \/ Kick(ctl)
        \/ \E d \in Dirs, n \in 0..2, fin \in BOOLEAN : Arrive(d, n, fin, ctl)
        \/ \E d \in Dirs : Writable(d, ctl)
        \/ \E rc \in {"ok", "deny"}, w \in BOOLEAN : WaveEnds(rc, w, ctl)
        \/ \E ok \in BOOLEAN : Fetched(ok, ctl)
    \/ Broken

Spec == Init /\ [][Next]_vars

(* Peers send and take what they are sent; a wave has a deadline and a     *)
(* fetch a timeout. *)
FairSpec ==
    /\ Spec /\ WF_vars(\E ctl \in Scripts[script].ctl : Kick(ctl))
    /\ \A d \in Dirs :
        /\ WF_vars(\E ctl \in Scripts[script].ctl, n \in 1..2 : Arrive(d, n, FALSE, ctl))
        /\ WF_vars(\E ctl \in Scripts[script].ctl : Writable(d, ctl))
    /\ WF_vars(\E ctl \in Scripts[script].ctl, rc \in {"ok", "deny"}, w \in BOOLEAN : WaveEnds(rc, w, ctl))
    /\ WF_vars(\E ctl \in Scripts[script].ctl, ok \in BOOLEAN : Fetched(ok, ctl))

-----------------------------------------------------------------------------
(* Properties. *)

IsHeader(c) == c.k <= 0

(* In an inspected direction no cell of a data frame goes on before its    *)
(* phase has let the frame pass, unless it is one that the limit's policy  *)
(* or an extension exempts: not while the phase waits, not after a deny.   *)
OnlyCleared ==
    \A d \in Dirs : Conf(d).mode = "inspect" =>
        \A i \in 1..Len(x[d].sent) :
            LET c == x[d].sent[i]
            IN c.f < New /\ Conf(d).frames[c.f].op # "ctl" => c.f \in x.allowed[d]

(* What a peer gets is frames: a header, then exactly the payload it       *)
(* announces.  Payload comes in the order it was sent, none of it twice,   *)
(* and none is missing but that of frames replaced by an object, which     *)
(* stands in their place, and of control frames above the rate.  The       *)
(* buffer this takes place in never overflows: a message put together from *)
(* fragments gets a longer header only into the slack that reading leaves. *)
WireWhole ==
    \A d \in Dirs :
        LET s == x[d].sent
            heads == {i \in 1..Len(s) : IsHeader(s[i]) /\ s[i].k = 1 - HLen(s[i].len)}
            next(i) == i + HLen(s[i].len) + s[i].len
            data == SelectSeq(s, LAMBDA c : ~IsHeader(c) /\ (c.f >= New \/ Conf(d).frames[c.f].op # "ctl"))
            frame(c) == c.f % New
            lost(f) == f > 0 /\ Conf(d).frames[f].op # "ctl" /\ Conf(d).frames[f].len > 0
        IN /\ x[d].base + Len(x[d].in) <= BufferSize(d)
           /\ \A i \in heads : next(i) > Len(s) \/ next(i) \in heads
           /\ s # <<>> => 1 \in heads
           /\ \A i \in 1..Len(s) : ~IsHeader(s[i]) => \E j \in heads : j < i /\ i < next(j)
           /\ \A i \in 1..(Len(data) - 1) :
                LET a == data[i]
                    b == data[i + 1]
                IN \/ frame(a) = frame(b) /\ b.k = a.k + 1 /\ a.f = b.f
                   \/ /\ frame(a) < frame(b) /\ b.k = 1
                      /\ a.f < New => a.k = Conf(d).frames[a.f].len
                      /\ a.f < New => ~\E f \in (frame(a) + 1)..(frame(b) - 1) : lost(f)

(* Everything that arrives goes on, or the connection ends: no frame stays *)
(* behind because the other direction's phase, a full socket or a full     *)
(* buffer stood in its way and nobody looks again. *)
FramesMove ==
    <>(x.gone \/ \A d \in Dirs : x[d].net \o x[d].rd \o x[d].in \o x[d].out = <<>>)
=============================================================================
