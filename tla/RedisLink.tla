----------------------------- MODULE RedisLink ------------------------------
(* A worker's connections to the exchange: net/ngx_http_waf_link.c and     *)
(* body/drv_redis.c.  Commands and replies are matched by their order      *)
(* alone, so the queue of a connection must stay in step with the wire     *)
(* through time-outs, detached requests, skipped objects and reconnects.   *)
(* A command is its name and its key; an object is there or not.           *)
EXTENDS Naturals, Sequences, FiniteSets, SequencesExt

CONSTANTS
    Conns,      \* connections of the pool, 1..n
    OutMax,     \* commands the output buffer holds
    Hello       \* whether a new connection starts with AUTH

(* q: commands awaiting a reply; out: how many of them, at the tail, are   *)
(* still in the output buffer; rep: replies the server has sent; part: the *)
(* first reply's header has been read and its payload is taken or skipped. *)
Closed == [link |-> "down", q |-> <<>>, out |-> 0, rep |-> <<>>, part |-> "line"]

(* op: whether somebody waits, with a timer, for the reply. *)
Entry(cmd, key, op) == [cmd |-> cmd, key |-> key, op |-> op]

(* pick: the ready connection with the fewest commands in flight. *)
Ready(cs) == {c \in Conns : cs[c].link = "ready"}
redis_pick(cs) ==
    CHOOSE c \in Ready(cs) : \A d \in Ready(cs) :
        Len(cs[c].q) < Len(cs[d].q) \/ (Len(cs[c].q) = Len(cs[d].q) /\ c <= d)

(* reserve: a command goes into the buffer whole or not at all. *)
link_reserve(conn) == conn.out < OutMax

redis_queue(conn, e) == [conn EXCEPT !.q = Append(@, e), !.out = @ + 1]

(* put, get, del: the connections after the command, or the same ones when *)
(* none is ready or the buffer is full. *)
Accepts(cs) == Ready(cs) # {} /\ link_reserve(cs[redis_pick(cs)])
redis_send(cs, cmd, key, op) ==
    IF Accepts(cs) THEN [cs EXCEPT ![redis_pick(cs)] = redis_queue(@, Entry(cmd, key, op))] ELSE cs

(* flush: the posted write event. *)
link_flush(conn) == [conn EXCEPT !.out = 0]

(* entry_done and bulk_ready: the head has its reply.  A reply nobody asked *)
(* for is dropped. *)
entry_done(conn) ==
    [conn EXCEPT !.q = IF @ = <<>> THEN @ ELSE Tail(@), !.rep = Tail(@), !.part = "line"]

(* parse: what the first reply does to the head.  A bulk that nobody waits *)
(* for is skipped; one that is being read may lose its reader half-way.    *)
Status(conn) ==
    IF conn.part # "line" THEN (IF conn.part = "bulk" THEN "ok" ELSE "error")
    ELSE IF Head(conn.rep) = "bulk" THEN "part"
    ELSE IF Head(conn.rep) = "ok" THEN "ok" ELSE "error"

parse_header(conn) == [conn EXCEPT !.part = IF conn.q # <<>> /\ Head(conn.q).op THEN "bulk" ELSE "skip"]

\* Mutant: a command that timed out leaves the queue.
on_timeout_pops(conn, i) ==
    IF i <= Len(conn.q) - conn.out THEN [conn EXCEPT !.q = RemoveAt(@, i)] ELSE [conn EXCEPT !.q[i].op = FALSE]

(* on_timeout: the command stays in the queue, its reply is still to come. *)
on_timeout(conn, i) == [conn EXCEPT !.q[i].op = FALSE]

(* detach: requests whose keys are K are freed. *)
detach(cs, K) ==
    [c \in Conns |-> [cs[c] EXCEPT !.q = [i \in DOMAIN @ |->
        IF @[i].key \in K THEN [@[i] EXCEPT !.op = FALSE] ELSE @[i]]]]

(* drop and close: the link is not ready before the queue is drained.      *)
(* Reconnecting is a matter of a timer. *)
link_close(conn) == Closed

(* connect, on_connected, hello. *)
link_connect(conn) == [conn EXCEPT !.link = "connecting"]
on_connected(conn) ==
    LET up == [conn EXCEPT !.link = "ready"]
    IN IF Hello THEN redis_queue(up, Entry("hello", <<>>, FALSE)) ELSE up

(* The server, external: replies to what has reached it, in order. *)
Reached(conn) == Len(conn.q) - conn.out
Unserved(conn) == Len(conn.rep) < Reached(conn)
ServedNext(conn) == conn.q[Len(conn.rep) + 1]
=============================================================================
