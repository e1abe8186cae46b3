---------------------------- MODULE DatasetSync ----------------------------
(***************************************************************************)
(* The mirror of one keeper's dataset (local/ngx_http_waf_dataset.c,       *)
(* _ds_live.c, _ds_stream.c): one slot in shared memory with the overlay   *)
(* of networks, filled by all workers, and one stream per worker that      *)
(* follows the keeper's notices and reads packages and snapshots from the  *)
(* store.  A package or a snapshot is applied in batches between which the *)
(* slot's lock is free, so that a load is several steps of its worker.     *)
(*                                                                         *)
(* A network is <<bits, net>> in an address space of Width bits, one       *)
(* family.  A siphash under the key of an epoch is the pair of epoch and   *)
(* network, and the xor of hashes the symmetric difference of sets of      *)
(* them: equal hashes mean equal sets.  An expiry is 0 (never) or a rank.  *)
(* The generation of a node is only compared with the current one, so it   *)
(* is a flag.  Times are left out: a claim of the snapshot lapses and      *)
(* timers fire at any later moment.                                        *)
(***************************************************************************)
EXTENDS Integers, Sequences, FiniteSets

CONSTANTS
    Workers, Keys, Width,
    Order,          \* the keys in the order of the overlay's tree
    Contents,       \* what the keeper publishes, in turn: maps from networks to expiries
    Banned, Ttl,    \* networks the rate limiter may ban; their expiry
    LiveMax,        \* live_max of the slot
    KilledLoading,  \* may a worker die in the middle of a load
    MaxEpoch, MaxUpsets     \* bounds

ASSUME SyncAssumption ==
    /\ Width \in Nat /\ LiveMax \in Nat /\ MaxEpoch \in Nat \ {0}
    /\ Order \in Seq(Keys)
    /\ \A k \in Keys : \E i \in DOMAIN Order : Order[i] = k
    /\ \A i, j \in DOMAIN Order : Order[i] = Order[j] => i = j
    /\ \A k \in Keys : k[1] \in 0..Width /\ k[2] \in 0..(2^Width - 1)
                       /\ k[2] % (2^(Width - k[1])) = 0
    /\ Len(Contents) \in Nat \ {0} /\ DOMAIN Contents = 1 .. Len(Contents)
    /\ \A i \in DOMAIN Contents : DOMAIN Contents[i] \subseteq Keys
    /\ Banned \subseteq {k \in Keys : k[1] = Width}

VARIABLES
    slot,       \* the shared slot
    st,         \* of a worker: its stream
    job,        \* of a worker: the load it is in the middle of
    link,       \* of a worker: its bus is down, up, or has a request on its way
    hist,       \* the versions of the keeper: <<epoch, seq>> -> networks with expiry
    now,        \* the keeper's current version
    upsets      \* workers killed, links lost and bans placed so far

vars == <<slot, st, job, link, hist, now, upsets>>

NoJob == [kind |-> "none"]
NoOp == <<"none", <<0, 0>>>>
NewStream == [state |-> "idle", timer |-> FALSE, op |-> NoOp, want |-> <<0, 0>>]

Xor(a, b) == (a \ b) \cup (b \ a)
HashOf(v) == {<<v[1], k>> : k \in DOMAIN hist[v]}

Init ==
    /\ slot = [epoch |-> 0, seq |-> 0, live |-> <<>>, hash |-> {},
               lens |-> [b \in 0..Width |-> 0],
               syncing |-> FALSE, snap_bad |-> FALSE, claimed |-> FALSE]
    /\ st = [w \in Workers |-> NewStream] /\ job = [w \in Workers |-> NoJob]
    /\ link = [w \in Workers |-> "down"]
    /\ hist = [v \in {<<1, 0>>} |-> Contents[1]]
    /\ now = <<1, 0>> /\ upsets = 0

-----------------------------------------------------------------------------
(* The overlay.                                                             *)

live_delete(s, k) ==
    [s EXCEPT !.live = [x \in DOMAIN s.live \ {k} |-> s.live[x]],
              !.hash = Xor(s.hash, s.live[k].h),
              !.lens[k[1]] = @ - 1]

\* Mutant: a removal is not looked up by the key the put used.
live_drop_miss(s, k) == s

live_drop(s, k) == IF k \in DOMAIN s.live THEN live_delete(s, k) ELSE s

live_mark(s, k) == IF k \in DOMAIN s.live THEN [s EXCEPT !.live[k].fresh = TRUE] ELSE s

\* Mutant: a ban is not counted in its prefix length.
live_put_uncounted(s, k, exp, h) ==
    IF k \in DOMAIN s.live \/ Cardinality(DOMAIN s.live) >= LiveMax THEN s
    ELSE [s EXCEPT !.live = [x \in DOMAIN @ \cup {k} |->
                                IF x = k THEN [h |-> h, fresh |-> TRUE, exp |-> exp] ELSE @[x]],
                   !.hash = Xor(@, h), !.lens[k[1]] = IF h = {} THEN @ ELSE @ + 1]

\* h is {} for a ban of this node.  A full overlay takes nothing.
live_put(s, k, exp, h) ==
    IF k \in DOMAIN s.live
    THEN LET old == s.live[k]
             longer == h # {} \/ exp = 0 \/ old.exp = 0 \/ exp > old.exp
         IN [s EXCEPT !.live[k] = [h |-> IF h # {} THEN h ELSE old.h, fresh |-> TRUE,
                                   exp |-> IF longer THEN exp ELSE old.exp],
                      !.hash = IF h # {} THEN Xor(@, Xor(old.h, h)) ELSE @]
    ELSE IF Cardinality(DOMAIN s.live) >= LiveMax THEN s
    ELSE [s EXCEPT !.live = [x \in DOMAIN @ \cup {k} |->
                                IF x = k THEN [h |-> h, fresh |-> TRUE, exp |-> exp] ELSE @[x]],
                   !.hash = Xor(@, h), !.lens[k[1]] = @ + 1]

\* A new generation: no node of the overlay belongs to it.
live_begin(s) == [s EXCEPT !.live = [k \in DOMAIN @ |-> [@[k] EXCEPT !.fresh = FALSE]]]

\* The network of the given length an address lies in.
MaskTo(a, bits) == <<bits, a - (a % (2^(Width - bits)))>>

live_probe(s, a) ==
    \E bits \in 0..Width : s.lens[bits] # 0 /\ MaskTo(a, bits) \in DOMAIN s.live

-----------------------------------------------------------------------------
(* A package is the difference to the version before, a snapshot all of it: *)
(* a record for a network, in whichever order the keeper writes them.       *)

Add(c, ks) == {[op |-> "add", key |-> k, exp |-> c[k]] : k \in ks}

PackageOf(v) ==
    LET new == hist[v]  old == hist[<<v[1], v[2] - 1>>]
    IN {[op |-> "remove", key |-> k, exp |-> 0] : k \in DOMAIN old \ DOMAIN new}
       \cup Add(new, {k \in DOMAIN new : k \notin DOMAIN old \/ old[k] # new[k]})

SnapshotOf(v) == Add(hist[v], DOMAIN hist[v])

\* The store keeps a package under its sequence number alone.
StoredAt(n) ==
    LET of == {v \in DOMAIN hist : v[2] = n}
    IN CHOOSE v \in of : \A u \in of : u[1] <= v[1]

PackageVerdict(s, v) ==
    IF s.epoch = 0 \/ v[1] # s.epoch THEN "foreign"
    ELSE IF s.syncing THEN "busy"
    ELSE IF v[2] <= s.seq THEN "stale" ELSE IF v[2] # s.seq + 1 THEN "gap" ELSE "start"

SnapshotVerdict(s, v) ==
    IF Cardinality(DOMAIN hist[v]) > LiveMax THEN "malformed"
    ELSE IF s.syncing THEN "busy"
    ELSE IF s.epoch # 0 /\ v[1] = s.epoch /\ v[2] < s.seq THEN "stale" ELSE "start"

verify(s, v) ==
    IF s.epoch = 0 \/ v[1] # s.epoch THEN "foreign"
    ELSE IF s.syncing THEN "busy"
    ELSE IF v[2] > s.seq THEN "gap" ELSE IF v[2] < s.seq THEN "stale"
    ELSE IF s.hash # HashOf(v) THEN "diverged" ELSE "applied"

\* verify clears the mark of a bad snapshot when the hashes agree.
Verified(s, v) == IF verify(s, v) = "applied" THEN [s EXCEPT !.snap_bad = FALSE] ELSE s

-----------------------------------------------------------------------------
(* The stream.  c holds the slot, the worker's stream, link and job; c.store *)
(* says whether the store takes a read.                                     *)

reset(c) == [c EXCEPT !.st.state = "idle", !.st.op = NoOp]
watch(c) == [c EXCEPT !.st.timer = TRUE]
settle(c) == watch([c EXCEPT !.st.state = "ready"])

\* Mutant: no timer guards the request.
request_unguarded(c) == [c EXCEPT !.st.state = "snapshot", !.link = "asked", !.ok = TRUE]

request(c) == [c EXCEPT !.st.state = "snapshot", !.st.timer = TRUE, !.link = "asked", !.ok = TRUE]

\* c.ok says whether a snapshot was asked for.
snapshot(c, claim) ==
    IF claim /\ c.slot.claimed THEN [c EXCEPT !.ok = FALSE]
    ELSE LET d == reset([c EXCEPT !.slot.claimed = @ \/ claim, !.ok = FALSE])
         IN IF c.link # "down" THEN request(d) ELSE d

kick(c) ==
    IF c.slot.epoch # 0 THEN settle(c)
    ELSE LET d == snapshot(c, TRUE)
         IN IF d.ok THEN d ELSE watch([d EXCEPT !.st.state = "idle"])

\* c.ok says whether the read is under way.
fetch(c, op) ==
    LET d == [reset(c) EXCEPT !.st.timer = FALSE]
    IN IF c.store THEN [d EXCEPT !.st.state = "fetch", !.st.op = op, !.ok = TRUE]
       ELSE [d EXCEPT !.ok = FALSE]

catch_up(c) ==
    LET have == <<c.slot.epoch, c.slot.seq>>
        behind == c.st.want[1] = have[1] /\ have[2] < c.st.want[2]
        d == fetch(c, <<"package", <<have[1], have[2] + 1>>>>)
    IN IF have[1] = 0 THEN snapshot(c, TRUE)
       ELSE IF behind THEN IF d.ok THEN d ELSE settle(d)
       ELSE settle(IF c.st.want = have THEN [c EXCEPT !.slot = Verified(@, have)] ELSE c)

\* What inline and fetched do with the result of apply_package.
package_done(c, rc) ==
    IF rc \in {"applied", "stale", "gap"} \/ (rc = "diverged" /\ c.slot.snap_bad)
    THEN catch_up(c)
    ELSE IF rc = "busy" THEN settle(c)
    ELSE LET d == snapshot(c, TRUE) IN IF d.ok THEN d ELSE settle(d)

\* And fetched with the result of apply_snapshot.
snapshot_done(c, rc) ==
    IF rc = "malformed" THEN [c EXCEPT !.st.timer = TRUE]
    ELSE IF c.st.want[2] # 0 THEN catch_up(settle(c)) ELSE settle(c)

Load(kind, v, recs, inline) ==
    [kind |-> kind, v |-> v, left |-> recs, pass |-> "mark", inline |-> inline, cursor |-> 0]

\* apply_package up to its first batch; the stream goes on when it is refused.
apply_package(c, v, inline) ==
    LET rc == PackageVerdict(c.slot, v)
        done == package_done(IF inline THEN c ELSE reset(c), rc)
    IN IF rc = "start"
       THEN [c EXCEPT !.slot.syncing = TRUE, !.job = Load("package", v, PackageOf(v), inline)]
       ELSE done

apply_snapshot(c, v) ==
    LET rc == SnapshotVerdict(c.slot, v)
    IN IF rc = "start"
       THEN [c EXCEPT !.slot = [live_begin(@) EXCEPT !.syncing = TRUE],
                      !.job = Load("snapshot", v, SnapshotOf(v), FALSE)]
       ELSE snapshot_done(reset(c), rc)

\* A notice [op, v, body]: a diff, perhaps with its package inside, or a tick.
notice(c0, n) ==
    LET want == c0.st.want
        c == IF n.v[1] # want[1] \/ n.v[2] > want[2] THEN [c0 EXCEPT !.st.want = n.v] ELSE c0
        epoch == c.slot.epoch  seq == c.slot.seq
        asked == snapshot(c, TRUE)
        d == IF c.st.state = "idle" THEN settle(c) ELSE c
        rc == verify(d.slot, n.v)
        e == [d EXCEPT !.slot = Verified(@, n.v)]
    IN IF c.st.state \in {"snapshot", "fetch"} THEN c
       ELSE IF epoch = 0 \/ n.v[1] # epoch
       THEN IF asked.ok THEN asked
            ELSE watch([asked EXCEPT !.st.state = IF epoch = 0 THEN "idle" ELSE "ready"])
       ELSE IF n.v[2] > seq
       THEN IF n.op = "diff" /\ n.body /\ n.v[2] = seq + 1 THEN apply_package(d, n.v, TRUE)
            ELSE catch_up(d)
       ELSE IF n.op = "tick" /\ n.v[2] = seq
       THEN IF rc = "foreign" \/ (rc = "diverged" /\ ~d.slot.snap_bad) THEN snapshot(e, TRUE) ELSE e
       ELSE d

-----------------------------------------------------------------------------
(* Events of a worker.  It handles one at a time, a load included.          *)

Ctx(w, store) == [slot |-> slot, st |-> st[w], link |-> link[w], job |-> job[w],
                  store |-> store, ok |-> FALSE]

Becomes(w, c) ==
    /\ UNCHANGED <<hist, now, upsets>>
    /\ slot' = c.slot
    /\ st' = [st EXCEPT ![w] = c.st] /\ link' = [link EXCEPT ![w] = c.link]
    /\ job' = [job EXCEPT ![w] = c.job]

Free(w) == job[w] = NoJob

Ready(w) ==
    /\ Free(w) /\ link[w] = "down"
    /\ Becomes(w, kick(reset([Ctx(w, TRUE) EXCEPT !.link = "up"])))

Lost(w) ==
    /\ Free(w) /\ link[w] # "down" /\ upsets < MaxUpsets
    /\ st' = [st EXCEPT ![w] = [NewStream EXCEPT !.want = st[w].want]]
    /\ link' = [link EXCEPT ![w] = "down"]
    /\ upsets' = upsets + 1
    /\ UNCHANGED <<slot, job, hist, now>>

Timer(w) ==
    /\ Free(w) /\ st[w].timer
    /\ LET c == [Ctx(w, TRUE) EXCEPT !.st.timer = FALSE]
       IN Becomes(w, CASE c.st.state = "ready" -> watch(c)
                       [] c.st.state = "snapshot" -> kick(reset(c))
                       [] c.st.state = "fetch" -> c
                       [] OTHER -> kick(c))

\* A notice of the keeper's arrives.  The bus keeps their order, and may lose or
\* delay them: it is of any version not before the last one heard of.
Notice(w, n, store) ==
    /\ Free(w) /\ link[w] # "down"
    /\ n.v[1] > st[w].want[1] \/ (n.v[1] = st[w].want[1] /\ n.v[2] >= st[w].want[2])
    /\ Becomes(w, notice(Ctx(w, store), n))

\* The keeper's answer to a request: the name of a snapshot it has put in the store,
\* or a refusal, which leaves the stream idle with the timer of the request.
Reply(w, given, store) ==
    /\ Free(w) /\ link[w] = "asked"
    /\ LET c == [Ctx(w, store) EXCEPT !.link = "up"]
           d == fetch(c, <<"snapshot", now>>)
       IN Becomes(w, IF c.st.state # "snapshot" THEN c ELSE IF ~given THEN reset(c)
                     ELSE IF d.ok THEN d ELSE reset(d))

\* The read of the store ends: with the object, without one, or in failure.
Fetched(w, store, status) ==
    /\ Free(w) /\ st[w].state = "fetch"
    /\ LET c == [Ctx(w, store) EXCEPT !.st.state = "ready", !.st.op = NoOp]
           kind == st[w].op[1]  v == st[w].op[2]
           again == snapshot(reset(c), kind = "package")
       IN /\ status = "ok" /\ kind = "package" => \E u \in DOMAIN hist : u[2] = v[2]
          /\ Becomes(w, CASE status = "gone" -> IF again.ok THEN again ELSE kick(again)
                          [] status = "error" -> [reset(c) EXCEPT !.st.timer = TRUE]
                          [] status = "garbled" ->
                               IF kind = "package" THEN package_done(reset(c), "malformed")
                               ELSE snapshot_done(reset(c), "malformed")
                          [] OTHER ->
                               IF kind = "package" THEN apply_package(c, StoredAt(v[2]), FALSE)
                               ELSE apply_snapshot(c, v))

\* One batch of a package, the last one included.
PackageBatch(w, store) ==
    /\ job[w].kind = "package"
    /\ LET j == job[w]  c == Ctx(w, store)
           d == [c EXCEPT !.slot.seq = j.v[2], !.slot.syncing = FALSE, !.job = NoJob]
           rc == IF slot.hash = HashOf(j.v) THEN "applied" ELSE "diverged"
       IN \/ \E r \in j.left :
                Becomes(w, [c EXCEPT !.job.left = @ \ {r},
                                     !.slot = IF r.op = "remove" THEN live_drop(@, r.key)
                                              ELSE live_put(@, r.key, r.exp, {<<@.epoch, r.key>>})])
          \/ j.left = {} /\ Becomes(w, package_done(IF j.inline THEN d ELSE reset(d), rc))

\* Mutant: what the snapshot keeps is not marked.
MarkBatch_none(w) ==
    /\ job[w].kind = "snapshot" /\ job[w].pass = "mark"
    /\ Becomes(w, [Ctx(w, TRUE) EXCEPT !.job.pass = "sweep"])

MarkBatch(w) ==
    /\ job[w].kind = "snapshot" /\ job[w].pass = "mark"
    /\ \/ \E r \in job[w].left :
             Becomes(w, [Ctx(w, TRUE) EXCEPT !.job.left = @ \ {r}, !.slot = live_mark(@, r.key)])
       \/ job[w].left = {} /\ Becomes(w, [Ctx(w, TRUE) EXCEPT !.job.pass = "sweep"])

First(s) == IF s = {} THEN 0 ELSE CHOOSE i \in s : \A x \in s : i <= x

Nodes == {i \in 1..Len(Order) : Order[i] \in DOMAIN slot.live}

\* The sweep's cursor is the position of a node in the tree, 0 before the first.
SweepNode(j) == IF j.cursor = 0 THEN First(Nodes) ELSE j.cursor

SweepBatch(w) ==
    /\ job[w].kind = "snapshot" /\ job[w].pass = "sweep"
    /\ LET c == Ctx(w, TRUE)
           node == SweepNode(job[w])
           next == First({i \in Nodes : i > node})
           swept == node # 0 /\ ~slot.live[Order[node]].fresh
       IN Becomes(w, [c EXCEPT !.slot = IF swept THEN live_delete(@, Order[node]) ELSE @,
                               !.job.cursor = next, !.job.left = SnapshotOf(job[w].v),
                               !.job.pass = IF next = 0 THEN "put" ELSE @])

\* One record of the snapshot; after the last one the slot gets its version.
PutBatch(w, store) ==
    /\ job[w].kind = "snapshot" /\ job[w].pass = "put"
    /\ LET j == job[w]  c == Ctx(w, store)
           d == [c EXCEPT !.slot.epoch = j.v[1], !.slot.seq = j.v[2], !.slot.syncing = FALSE,
                          !.slot.snap_bad = slot.hash # HashOf(j.v), !.job = NoJob]
       IN \/ \E r \in j.left :
                Becomes(w, [c EXCEPT !.job.left = @ \ {r},
                                     !.slot = live_put(@, r.key, r.exp, {<<j.v[1], r.key>>})])
          \/ j.left = {} /\ Becomes(w, snapshot_done(reset(d), "applied"))

\* dataset_put: the rate limiter bans an address in the current generation.
Ban(w, k) ==
    /\ Free(w) /\ upsets < MaxUpsets
    /\ slot' = live_put(slot, k, Ttl, {})
    /\ upsets' = upsets + 1
    /\ UNCHANGED <<st, job, link, hist, now>>

\* The worker dies, in the middle of a load or not, and another takes its place.
Crash(w) ==
    /\ upsets < MaxUpsets /\ (Free(w) \/ KilledLoading)
    /\ st' = [st EXCEPT ![w] = NewStream] /\ job' = [job EXCEPT ![w] = NoJob]
    /\ link' = [link EXCEPT ![w] = "down"]
    /\ upsets' = upsets + 1
    /\ UNCHANGED <<slot, hist, now>>

\* Ten seconds have passed since the last claim.
ClaimLapses == slot.claimed /\ slot' = [slot EXCEPT !.claimed = FALSE]
               /\ UNCHANGED <<st, job, link, hist, now, upsets>>

-----------------------------------------------------------------------------
(* The keeper and the bus, external.                                        *)

\* The keeper publishes the next content as version v.
Version(v) ==
    LET n == Cardinality(DOMAIN hist) + 1
    IN /\ n <= Len(Contents) /\ now' = v
       /\ hist' = [u \in DOMAIN hist \cup {v} |-> IF u = v THEN Contents[n] ELSE hist[u]]
       /\ UNCHANGED <<slot, st, job, link, upsets>>

Publish == Version(<<now[1], now[2] + 1>>)

Restart == now[1] < MaxEpoch /\ Version(<<now[1] + 1, 0>>)

\* The request or its answer is lost.
LoseReply(w) ==
    /\ link[w] = "asked" /\ link' = [link EXCEPT ![w] = "up"]
    /\ UNCHANGED <<slot, st, job, hist, now, upsets>>

\* A diff with or without its package inside, or a tick.
Notices ==
    {[op |-> "tick", v |-> v, body |-> FALSE] : v \in DOMAIN hist}
    \cup {[op |-> "diff", v |-> v, body |-> b] : v \in {u \in DOMAIN hist : u[2] > 0}, b \in BOOLEAN}

Statuses == {"ok", "gone", "error", "garbled"}

Next ==
    \/ \E w \in Workers :
          \/ Ready(w) \/ Lost(w) \/ Timer(w) \/ MarkBatch(w) \/ SweepBatch(w) \/ Crash(w)
          \/ LoseReply(w)
          \/ \E k \in Banned : Ban(w, k)
          \/ \E store \in BOOLEAN :
                \/ PackageBatch(w, store) \/ PutBatch(w, store)
                \/ \E n \in Notices : Notice(w, n, store)
                \/ \E given \in BOOLEAN : Reply(w, given, store)
                \/ \E status \in Statuses : Fetched(w, store, status)
    \/ ClaimLapses \/ Publish \/ Restart

Spec == Init /\ [][Next]_vars

(* The event loop of a worker runs what is due; the store, the keeper and   *)
(* the bus do not fail for ever, nor are the keeper's answers late for      *)
(* ever, and ticks of the current version keep coming.                      *)
Fairness ==
    /\ \A w \in Workers :
          /\ WF_vars(Ready(w)) /\ WF_vars(Timer(w))
          /\ WF_vars(\/ MarkBatch(w) \/ SweepBatch(w)
                     \/ \E store \in BOOLEAN : PackageBatch(w, store) \/ PutBatch(w, store))
          /\ SF_vars(Notice(w, [op |-> "tick", v |-> now, body |-> FALSE], TRUE))
          /\ SF_vars(st[w].state = "snapshot" /\ Reply(w, TRUE, TRUE))
          /\ SF_vars(Fetched(w, TRUE, "ok"))
    /\ WF_vars(ClaimLapses)

FairSpec == Spec /\ Fairness

-----------------------------------------------------------------------------
(* Properties.                                                              *)

Mirrored(s) == {k \in DOMAIN s.live : s.live[k].h # {}}

(* The mirror of all workers together implements DatasetMirror: outside a   *)
(* load, and unless it is marked snap_bad, the networks under the keeper's  *)
(* hash are those of the version the slot names, whatever packages,         *)
(* snapshots, epochs and bans two workers have applied in whichever order;  *)
(* and within an epoch it never goes back.                                  *)
Mirror == INSTANCE DatasetMirror WITH
    Versions <- (1..MaxEpoch) \X (0..(Len(Contents) - 1)),
    published <- [v \in DOMAIN hist |-> DOMAIN hist[v]],
    at <- <<slot.epoch, slot.seq>>,
    shown <- IF ~slot.syncing /\ ~slot.snap_bad THEN Mirrored(slot)
             ELSE IF slot.epoch = 0 THEN {} ELSE DOMAIN hist[<<slot.epoch, slot.seq>>]

MirrorsOneVersion == Mirror!Spec

(* A lookup finds an address exactly when some network of the overlay has   *)
(* it: the counts per prefix length that live_probe skips by stay right     *)
(* through puts, drops and sweeps.                                          *)
ProbeExact ==
    \A a \in 0..(2^Width - 1) :
        live_probe(slot, a) <=> \E k \in DOMAIN slot.live : MaskTo(a, k[1]) = k

(* No request finds a hole while a snapshot loads: a network leaves the     *)
(* overlay only by the package that removes it, or by the sweep of a        *)
(* snapshot without it that began after it was put there.  So what the      *)
(* snapshot keeps, and a ban placed during the load, is served throughout.  *)
NoHoles ==
    [][\A k \in DOMAIN slot.live \ DOMAIN slot'.live : \E w \in Workers :
          \/ /\ job[w].kind = "package"
             /\ [op |-> "remove", key |-> k, exp |-> 0] \in job[w].left
          \/ /\ job[w].kind = "snapshot" /\ k \notin DOMAIN hist[job[w].v]
             /\ ~slot.live[k].fresh]_vars

(* Once the keeper is quiet and workers neither die nor lose the bus, the   *)
(* mirror comes to the keeper's version and stays there, through refused    *)
(* and lost requests, failed reads and objects that are gone: no stream is  *)
(* left waiting for nothing.                                                *)
Converges == <>[](<<slot.epoch, slot.seq>> = now /\ ~slot.syncing)

(* "entries the snapshot keeps are marked, the rest leave before it loads"  *)
(* (dataset.c:1838): when the sweep is over, what is left under the         *)
(* keeper's hash is in the snapshot.  The code breaks it: a ban of a        *)
(* network that the previous version had, placed between the start of the   *)
(* load and the sweep, moves the node to the new generation with its old    *)
(* hash.                                                                    *)
RestLeaves ==
    \A w \in Workers : job[w].kind = "snapshot" /\ job[w].pass = "put"
                          => Mirrored(slot) \subseteq DOMAIN hist[job[w].v]

=============================================================================
