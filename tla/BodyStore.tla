----------------------------- MODULE BodyStore ------------------------------
(* Objects of requests in the exchange: body/ngx_http_waf_body.c over      *)
(* RedisLink, with the parts of the phase engine, of the audit record and  *)
(* of the end of a request that place, keep and delete them.               *)
(* A request has phases (the request, then its response or frames); a      *)
(* phase places its headers ("meta") and then its body, waits for its      *)
(* waves, writes a record for the agent and lets its objects go.           *)
EXTENDS RedisLink

CONSTANTS
    Requests,
    Routes,     \* configurations of the requests' locations
    MaxHolds,   \* waf_body_max_holds
    MaxFrames,  \* bound: frames of a connection
    MaxDrops    \* bound: connections lost

VARIABLES
    route, y    \* y: everything the worker, the store and the agent hold

vars == <<route, y>>

Objs == {"meta", "body"}
Phases == {"request", "response", "frame"}

(* loc: the locator; op: the operation kept for the release; hold: its     *)
(* share of body_holds. *)
NoObj == [loc |-> "none", op |-> "none", hold |-> FALSE]
NoPhase ==
    [obj |-> [o \in Objs |-> NoObj], logged |-> FALSE, deny |-> FALSE,
     settled |-> FALSE, archive |-> {}, attached |-> {}]

Init ==
    /\ route \in Routes
    /\ y = [conns |-> [c \in Conns |-> [Closed EXCEPT !.link = "ready"]],
            req |-> [r \in Requests |->
                [state |-> "new", phase |-> "request", ph |-> [p \in Phases |-> NoPhase],
                 deferred |-> FALSE, frames |-> 0]],
            holds |-> 0, store |-> {}, named |-> {}, deleted |-> {}, drops |-> 0]

Route(r) == route[r]
Ph(z, r) == z.req[r].ph[z.req[r].phase]
KeyOf(z, r, p, o) == <<r, p, o, IF p = "frame" THEN z.req[r].frames ELSE 0>>

-----------------------------------------------------------------------------
(* Letting objects go. *)

store_unhold(z, r, p, o) ==
    IF ~z.req[r].ph[p].obj[o].hold THEN z
    ELSE [z EXCEPT !.holds = @ - 1, !.req[r].ph[p].obj[o].hold = FALSE]

Forget(z, r, p, o) == [z EXCEPT !.req[r].ph[p].obj[o].op = "none"]

del(z, key) == [z EXCEPT !.conns = redis_send(@, "del", key, FALSE), !.deleted = @ \cup {key}]

store_del(z, r, p, o, keep) ==
    LET w == store_unhold(z, r, p, o)
    IN Forget(IF keep THEN w ELSE del(w, KeyOf(z, r, p, o)), r, p, o)

(* route_verdict: a deny of any phase is the verdict of the request. *)
route_verdict(z, r) ==
    IF \E p \in Phases : z.req[r].ph[p].logged /\ z.req[r].ph[p].deny THEN "deny" ELSE "allow"

archive_wants(z, r, o) == o \in Route(r).archive /\ route_verdict(z, r) \in Route(r).when

(* store_serves: the copy in the exchange is what the agent wants. *)
store_serves(z, r, p, o) == z.req[r].ph[p].obj[o].loc = "avail" /\ o \in Route(r).serves

(* archive_mask, settled by the first call after the verdict. *)
archive_settle(z, r, p) ==
    LET h == z.req[r].ph[p]
    IN IF h.settled THEN z
       ELSE [z EXCEPT !.req[r].ph[p].settled = TRUE,
                      !.req[r].ph[p].archive =
                IF h.logged THEN {o \in Objs : archive_wants(z, r, o)} ELSE {}]

(* archive_kept: what the agent reads from the exchange.  Only the current *)
(* phase is still settled here. *)
\* Mutant: what the record of an earlier phase names is not kept.
archive_kept_current(z, r, p) ==
    IF p = z.req[r].phase THEN z.req[r].ph[p].archive \ z.req[r].ph[p].attached ELSE {}

archive_kept(z, r, p) ==
    IF p = z.req[r].phase \/ z.req[r].ph[p].settled
    THEN z.req[r].ph[p].archive \ z.req[r].ph[p].attached ELSE {}

release_phase(z, r, p) ==
    FoldLeft(LAMBDA v, o : IF v.req[r].ph[p].obj[o].op # "placed" THEN v
                           ELSE store_del(v, r, p, o, o \in archive_kept(v, r, p)),
             IF p = z.req[r].phase THEN archive_settle(z, r, p) ELSE z, <<"meta", "body">>)

release_all(z, r) == FoldLeft(LAMBDA v, p : release_phase(v, r, p), z, <<"request", "response", "frame">>)

(* hand_over: the keys stay for the phase that follows. *)
hand_over(z, r) == store_unhold(store_unhold(z, r, "request", "meta"), r, "request", "body")

phase_follows(z, r) ==
    z.req[r].phase = "request" /\ ~Ph(z, r).deny /\ Route(r).follows # "none"

body_release(z, r) ==
    IF phase_follows(z, r) THEN hand_over(z, r)
    ELSE IF z.req[r].phase = "frame" THEN z
    ELSE release_all(z, r)

(* body_abandon, and the same for one frame. *)
Drop(z, r, p, o) == Forget(store_unhold(z, r, p, o), r, p, o)
body_abandon(z, r) ==
    FoldLeft(LAMBDA v, p : Drop(Drop(v, r, p, "meta"), r, p, "body"), z, <<"request", "response", "frame">>)

-----------------------------------------------------------------------------
(* The record: objects the exchange does not serve ride along (attach),    *)
(* the others are named.  A record that cannot be sent names them all the *)
(* same: their time to live ends what the agent never reads. *)
audit_send(z, r, p) ==
    LET keep == z.req[r].ph[p].archive
        want == {o \in keep : ~store_serves(z, r, p, o)}
    IN [z EXCEPT !.req[r].ph[p].attached = want, !.named = @ \cup {KeyOf(z, r, p, o) : o \in keep \ want}]

audit_request(z, r, p) == audit_send(archive_settle(z, r, p), r, p)

flush_deferred(z, r) ==
    IF ~z.req[r].deferred THEN z
    ELSE audit_request([z EXCEPT !.req[r].deferred = FALSE], r, "request")

(* log_verdict: the record, or a later phase's. *)
Recorded(z, r) ==
    IF z.req[r].phase = "frame" THEN z
    ELSE IF phase_follows(z, r) THEN [z EXCEPT !.req[r].deferred = TRUE]
    ELSE audit_request(z, r, z.req[r].phase)

log_verdict(z, r) ==
    body_release(Recorded(flush_deferred([z EXCEPT !.req[r].ph[z.req[r].phase].logged = TRUE], r), r), r)

(* frame_end: the frame's pool and its context go. *)
frame_end(z, r) ==
    LET v == IF z.req[r].ph["frame"].obj["body"].op = "placed" THEN release_phase(z, r, "frame") ELSE z
        u == Drop(v, r, "frame", "body")
    IN [u EXCEPT !.conns = detach(@, {KeyOf(z, r, "frame", o) : o \in Objs \cup {"rewrite"}}),
                 !.req[r].ph["frame"] = NoPhase, !.req[r].frames = @ + 1]

(* finish_done: the phase has ended. *)
NextFrame(z, r, deny) ==
    [z EXCEPT !.req[r].state = IF ~deny /\ z.req[r].frames < MaxFrames THEN "between" ELSE "done"]
Ended(z, r, deny) ==
    IF z.req[r].phase = "frame" THEN NextFrame(frame_end(audit_request(z, r, "frame"), r), r, deny)
    ELSE [z EXCEPT !.req[r].state = IF phase_follows(z, r) THEN "between" ELSE "done"]

finish(z, r, deny) == Ended(log_verdict([z EXCEPT !.req[r].ph[z.req[r].phase].deny = deny], r), r, deny)

-----------------------------------------------------------------------------
(* Placing. *)

Failed(r) == IF Route(r).policy = "block" THEN "error" ELSE "ok"

\* Mutant: an object that could not be placed keeps its hold.
settle_holds(z, r, p, o, status) ==
    IF status = "ok"
    THEN [z EXCEPT !.req[r].ph[p].obj[o].loc = "avail", !.req[r].ph[p].obj[o].op = "placed"]
    ELSE [z EXCEPT !.req[r].ph[p].obj[o] = [NoObj EXCEPT !.loc = "unavail"]]

(* meta_settle and body_settle. *)
settle(z, r, p, o, status) ==
    IF status = "ok"
    THEN [z EXCEPT !.req[r].ph[p].obj[o].loc = "avail", !.req[r].ph[p].obj[o].op = "placed"]
    ELSE [Drop(z, r, p, o) EXCEPT !.req[r].ph[p].obj[o].loc = "unavail"]

(* meta_place_blob and body_decide: a driver that fails inside the call    *)
(* settles there, one that does not is waited for. *)
place(z, r, o) ==
    LET p == z.req[r].phase
        w == [z EXCEPT !.req[r].ph[p].obj[o] = [loc |-> "pending", op |-> "pending", hold |-> TRUE], !.holds = @ + 1]
    IN IF z.holds >= MaxHolds
       THEN [y |-> [z EXCEPT !.req[r].ph[p].obj[o].loc = "unavail"], rc |-> Failed(r)]
       ELSE IF ~Accepts(z.conns) THEN [y |-> settle(w, r, p, o, "error"), rc |-> Failed(r)]
       ELSE [y |-> [w EXCEPT !.conns = redis_send(@, "put", KeyOf(z, r, p, o), TRUE)], rc |-> "again"]

(* The objects a phase still has to place, headers first; a frame has none. *)
Needs(z, r) ==
    SelectSeq(<<"meta", "body">>, LAMBDA o : o \in Route(r).capture /\ Ph(z, r).obj[o].loc = "none"
                                             /\ (o = "meta" => z.req[r].phase # "frame"))

(* wave_start, up to the waves: the first object that is waited for, or    *)
(* that fails where the policy blocks, ends it. *)
Started(go, r) ==
    IF go.rc = "error" THEN finish(go.y, r, TRUE)
    ELSE [go.y EXCEPT !.req[r].state = IF go.rc = "again" THEN "placing" ELSE "waves"]

wave_start(z, r) ==
    Started(FoldLeft(LAMBDA a, o : IF a.rc # "ok" THEN a ELSE place(a.y, r, o),
                     [y |-> z, rc |-> "ok"], Needs(z, r)), r)

(* meta_on_put and body_on_put. *)
PutSettled(z, r, p, status) ==
    IF z.req[r].phase # p \/ z.req[r].state # "placing" THEN z
    ELSE IF status # "ok" /\ Failed(r) = "error" THEN finish(z, r, TRUE)
    ELSE wave_start(z, r)

on_put(z, r, p, o, status) == PutSettled(settle(z, r, p, o, status), r, p, status)

(* The end of a rewrite's fetch: the object takes its place and is deleted, *)
(* or the policy decides. *)
on_get(z, r, p, key, status) ==
    finish(IF status = "ok" THEN del(z, key) ELSE z, r, status # "ok" /\ Failed(r) = "error")

complete(z, e, status) ==
    IF ~e.op THEN z
    ELSE IF e.cmd = "put" THEN on_put(z, e.key[1], e.key[2], e.key[3], status)
    ELSE on_get(z, e.key[1], e.key[2], e.key, status)

-----------------------------------------------------------------------------
Becomes(z) == y' = z /\ UNCHANGED route

Arrive(r) == y.req[r].state = "new" /\ Becomes(wave_start(y, r))

Follow(r) ==
    /\ y.req[r].state = "between"
    /\ Becomes(wave_start([y EXCEPT !.req[r].phase = Route(r).follows], r))

(* The waves end with a verdict; a rewrite's object, which an inspector    *)
(* stored, is fetched first. *)
Verdict(r, deny) == y.req[r].state = "waves" /\ Becomes(finish(y, r, deny))

Rewrite(r) ==
    /\ y.req[r].state = "waves" /\ Route(r).rewrites
    /\ LET key == KeyOf(y, r, y.req[r].phase, "rewrite")
           z == [y EXCEPT !.store = @ \cup {key}]
       IN Becomes(IF Accepts(y.conns)
                  THEN [z EXCEPT !.conns = redis_send(@, "get", key, TRUE), !.req[r].state = "fetching"]
                  ELSE on_get(z, r, y.req[r].phase, key, "error"))

(* The request is freed, at its end or because the client has gone: an     *)
(* open frame ends, the store's operations are detached, body_cleanup.     *)
Free(r) ==
    /\ y.req[r].state \notin {"new", "freed"}
    /\ LET open == y.req[r].phase = "frame" /\ y.req[r].state \in {"placing", "waves", "fetching"}
           z == IF open THEN frame_end(y, r) ELSE y
           w == [flush_deferred(z, r) EXCEPT
                    !.conns = detach(@, {e.key : e \in {e \in UNION {Range(z.conns[c].q) : c \in Conns} :
                                                      e.key # <<>> /\ e.key[1] = r}})]
       IN Becomes([body_abandon(release_all(w, r), r) EXCEPT !.req[r].state = "freed"])

Flush(c) == y.conns[c].out > 0 /\ Becomes([y EXCEPT !.conns[c] = link_flush(@)])

Serve(c, good) ==
    /\ Unserved(y.conns[c]) /\ (good \/ ServedNext(y.conns[c]).cmd = "put")
    /\ LET e == ServedNext(y.conns[c])
           stored == IF e.cmd = "put" /\ good THEN {e.key} ELSE {}
           answer == IF e.cmd = "get" THEN (IF e.key \in y.store THEN "bulk" ELSE "nil")
                     ELSE IF good THEN "ok" ELSE "err"
       IN Becomes([y EXCEPT !.conns[c].rep = Append(@, answer),
                            !.store = IF e.cmd = "del" THEN @ \ {e.key} ELSE @ \cup stored])

Read(c) ==
    /\ y.conns[c].rep # <<>>
    /\ LET conn == y.conns[c]
       IN Becomes(IF Status(conn) = "part" THEN [y EXCEPT !.conns[c] = parse_header(@)]
                  ELSE IF conn.q = <<>> THEN [y EXCEPT !.conns[c] = entry_done(@)]
                  ELSE complete([y EXCEPT !.conns[c] = entry_done(@)], Head(conn.q), Status(conn)))

OpTimeout(c, i) ==
    /\ i \in DOMAIN y.conns[c].q /\ y.conns[c].q[i].op
    /\ Becomes(complete([y EXCEPT !.conns[c] = on_timeout(@, i)], y.conns[c].q[i], "error"))

(* The connection breaks: drain. *)
LinkDrop(c) ==
    /\ y.conns[c].link # "down" /\ y.drops < MaxDrops
    /\ Becomes(FoldLeft(LAMBDA z, e : complete(z, e, "error"),
                        [y EXCEPT !.conns[c] = link_close(@), !.drops = @ + 1], y.conns[c].q))

Reconnect(c) == y.conns[c].link = "down" /\ Becomes([y EXCEPT !.conns[c] = link_connect(@)])
Connected(c) == y.conns[c].link = "connecting" /\ Becomes([y EXCEPT !.conns[c] = on_connected(@)])

Next ==
    \/ \E r \in Requests :
        \/ Arrive(r)
        \/ Follow(r)
        \/ \E deny \in BOOLEAN : Verdict(r, deny)
        \/ Rewrite(r)
        \/ Free(r)
    \/ \E c \in Conns :
        \/ Flush(c)
        \/ \E good \in BOOLEAN : Serve(c, good)
        \/ Read(c) \/ LinkDrop(c) \/ \E i \in 1..Len(y.conns[c].q) : OpTimeout(c, i)
        \/ Reconnect(c)
        \/ Connected(c)

Spec == Init /\ [][Next]_vars

-----------------------------------------------------------------------------
(* Properties. *)

AllObjs == Requests \X Phases \X Objs
ObjOf(t) == y.req[t[1]].ph[t[2]].obj[t[3]]

(* body_holds counts the operations that hold, never passes                *)
(* waf_body_max_holds, and none of them belongs to a request that is gone: *)
(* whatever the order of answers, time-outs, verdicts and aborts, the      *)
(* counter neither leaks, which would end all placing, nor drops too far.  *)
HoldsExact ==
    /\ y.holds = Cardinality({t \in AllObjs : ObjOf(t).hold}) /\ y.holds <= MaxHolds
    /\ \A t \in AllObjs : ObjOf(t).hold => y.req[t[1]].state # "freed"

(* A reply settles the command it answers: an object that counts as placed *)
(* has been stored, whatever was timed out, skipped, detached or cut       *)
(* before it.  And nobody waits without a timer: a phase that is placing   *)
(* or fetching has just the one command it waits for in the queue of a     *)
(* ready connection, other phases have none.  So the wait ends by a reply, *)
(* by the timer or with the connection.                                    *)
RepliesMatched ==
    /\ \A t \in AllObjs : ObjOf(t).op = "placed" => KeyOf(y, t[1], t[2], t[3]) \in y.store \cup y.deleted
    /\ \A r \in Requests :
        LET awaited == {<<c, i>> \in Conns \X (1..Max({0} \cup {Len(y.conns[c].q) : c \in Conns})) :
                            /\ y.conns[c].link = "ready" /\ i <= Len(y.conns[c].q)
                            /\ y.conns[c].q[i].op /\ y.conns[c].q[i].key[1] = r}
        IN Cardinality(awaited) = IF y.req[r].state \in {"placing", "fetching"} THEN 1 ELSE 0

(* A key a record names stays for the agent, the node never deletes it.    *)
(* Until a request is gone its earlier phases' objects stay for the        *)
(* inspectors of the later ones.  And a placed object is not forgotten:    *)
(* when its request is gone it is deleted or left to the agent. *)
KeysSettled ==
    /\ y.named \cap y.deleted = {}
    /\ \A t \in AllObjs :
        LET key == KeyOf(y, t[1], t[2], t[3])
            state == y.req[t[1]].state
        IN /\ ObjOf(t).loc = "avail" /\ state \in {"placing", "waves", "between"} => key \notin y.deleted
           /\ ObjOf(t).loc = "avail" /\ state = "freed" => key \in y.deleted \cup y.named

=============================================================================
