------------------------------- MODULE Retain -------------------------------
(***************************************************************************)
(* The agent's archive: the reader of the verdict socket, the switch that  *)
(* replaces the archive pool when the agent's configuration changes, the   *)
(* pool's workers, baskets, timers and cleaner (agent/internal/retain),    *)
(* the sink of audit records (agent/internal/audit/sink.go) and the order  *)
(* in which main shuts them down.                                          *)
(*                                                                         *)
(* A record is a model value; what matters of it is which sections it asks *)
(* to archive, which of these have a locator, and which of those lie in    *)
(* the object store (the others rode with the record).  A goroutine waits  *)
(* for its own flush, so a flush carries the name of who runs it.          *)
(***************************************************************************)
EXTENDS Integers, Sequences, FiniteSets, SequencesExt

CONSTANTS
    Records, Kinds,     \* Kinds: audit.Kinds, a sequence
    Terms, Located, Stored,     \* of a record: sets of kinds
    Workers,
    Pools,              \* bound: configurations of the archive, the first included
    Enabled,            \* of a pool: has it an S3 endpoint
    Queue, Size, Timed, \* capacity of the channels; batch policy of a kind
    MaxItems, MaxPending

KindSet == ToSet(Kinds)

ASSUME RetainAssumption ==
    /\ \A d \in Records : Stored[d] \subseteq Located[d]
                          /\ Located[d] \subseteq Terms[d] /\ Terms[d] \subseteq KindSet
    /\ Pools \in Nat \ {0} /\ Queue \in Nat \ {0}
    /\ MaxItems \in Nat \ {0} /\ MaxPending \in Nat \ {0}

VARIABLES
    todo,       \* records the module has still to hand over
    hand,       \* the socket's goroutine: [pc, d, p]
    cur,        \* Switch.cur; the pools made so far are 1..cur
    pool,       \* of a pool: its channels and how far its Close has come
    worker,     \* of a pool and a worker: the record and the kinds still to push
    basket,     \* of a pool and a kind
    park,       \* of a record: its parking
    sink,       \* the pending records of the audit sink and its state
    settled,    \* of a record: what the sink did with it
    redis, s3,  \* the objects in the store and in the archive
    main,       \* run, then the deferred calls one by one
    panic       \* did the process die of a panic

vars == <<todo, hand, cur, pool, worker, basket, park, sink, settled, redis, s3,
          main, panic>>

Objects == {<<d, k>> : d \in Records, k \in KindSet}
Idle == [pc |-> "read", d |-> CHOOSE d \in Records : TRUE, p |-> 1]
NewBasket == [items |-> <<>>, timer |-> FALSE, firing |-> FALSE, closed |-> FALSE,
              flushes |-> <<>>]
WorkersOf(p) == IF Enabled[p] THEN Workers ELSE {}

Init ==
    /\ todo = Records /\ hand = Idle /\ cur = 1
    /\ pool = [p \in 1..Pools |-> [jobs |-> <<>>, sweep |-> <<>>, pc |-> "open", k |-> 0]]
    /\ worker = [p \in 1..Pools |-> [w \in Workers |-> [d |-> Idle.d, rest |-> <<>>,
                                                       done |-> ~Enabled[p]]]]
    /\ basket = [p \in 1..Pools |-> [k \in KindSet |-> NewBasket]]
    /\ park = [d \in Records |-> [pending |-> 0, loc |-> [k \in Located[d] |-> "held"],
                                  trash |-> {}]]
    /\ sink = [pending |-> <<>>, stop |-> FALSE, done |-> FALSE]
    /\ settled = [d \in Records |-> <<>>]
    /\ redis = UNION {{d} \X Stored[d] : d \in Records} /\ s3 = {}
    /\ main = "run" /\ panic = FALSE

Alive == ~panic /\ main # "exit"

-----------------------------------------------------------------------------
(* The sink.                                                                *)

\* What publish(d) leaves: the record appended, the oldest ones dropped over the
\* limit.
Overflow(q) == IF Len(q) > MaxPending THEN Len(q) - MaxPending ELSE 0

Emit(d) ==
    LET q == Append(sink.pending, d)
        cut == Overflow(q)
    IN  /\ sink' = [sink EXCEPT !.pending = SubSeq(q, cut + 1, Len(q))]
        /\ settled' = [r \in Records |->
               settled[r] \o (IF r = d THEN <<"emitted">> ELSE <<>>)
                          \o (IF r \in ToSet(SubSeq(q, 1, cut)) THEN <<"dropped">>
                              ELSE <<>>)]

\* One turn of the loop in flush: a batch leaves; nc.Publish's error is only logged.
flush ==
    LET n == IF Len(sink.pending) > MaxItems THEN MaxItems ELSE Len(sink.pending)
    IN  /\ Alive /\ ~sink.done /\ n > 0
        /\ sink' = [sink EXCEPT !.pending = SubSeq(@, n + 1, Len(@))]
        /\ settled' = [r \in Records |->
               IF r \in ToSet(SubSeq(sink.pending, 1, n))
               THEN Append(settled[r], "sent") ELSE settled[r]]
        /\ UNCHANGED <<todo, hand, cur, pool, worker, basket, park, redis, s3, main,
                       panic>>

\* The last flush of loop found nothing more.
SinkDone ==
    /\ Alive /\ sink.stop /\ ~sink.done /\ sink.pending = <<>>
    /\ sink' = [sink EXCEPT !.done = TRUE]
    /\ UNCHANGED <<todo, hand, cur, pool, worker, basket, park, settled, redis, s3,
                   main, panic>>

-----------------------------------------------------------------------------
(* The socket's goroutine: Switch.Handle and Pool.Handle.                   *)

\* ReadMsgUnix returned a record and cur.Load() has been evaluated.
Load ==
    /\ Alive /\ main = "run" /\ hand.pc = "read"
    /\ \E d \in todo :
           /\ todo' = todo \ {d}
           /\ hand' = [pc |-> "handle", d |-> d, p |-> cur]
    /\ UNCHANGED <<cur, pool, worker, basket, park, sink, settled, redis, s3, main,
                   panic>>

\* A send on a closed channel.
Panics ==
    /\ panic' = TRUE
    /\ UNCHANGED <<todo, hand, cur, pool, worker, basket, park, sink, settled, redis,
                   s3, main>>

degrade(d) ==
    /\ Emit(d)
    /\ park' = [park EXCEPT ![d].loc = [k \in Located[d] |-> "skipped"]]
    /\ hand' = IF Stored[d] = {} THEN Idle ELSE [hand EXCEPT !.pc = "sweep"]
    /\ UNCHANGED <<todo, cur, pool, worker, basket, redis, s3, main, panic>>

JobsOpen(p) == pool[p].pc = "open"

Handle ==
    LET d == hand.d
        p == hand.p
    IN  /\ Alive /\ hand.pc = "handle"
        /\ \/ /\ Terms[d] = {}
              /\ Emit(d)
              /\ hand' = Idle
              /\ UNCHANGED <<todo, cur, pool, worker, basket, park, redis, s3, main,
                             panic>>
           \/ /\ Terms[d] # {} /\ ~Enabled[p]
              /\ degrade(d)
           \/ /\ Terms[d] # {} /\ Enabled[p] /\ ~JobsOpen(p)
              /\ Panics
           \/ /\ Terms[d] # {} /\ Enabled[p] /\ JobsOpen(p) /\ Len(pool[p].jobs) < Queue
              /\ pool' = [pool EXCEPT ![p].jobs = Append(@, d)]
              /\ hand' = Idle
              /\ UNCHANGED <<todo, cur, worker, basket, park, sink, settled, redis, s3,
                             main, panic>>
           \/ /\ Terms[d] # {} /\ Enabled[p] /\ JobsOpen(p) /\ Len(pool[p].jobs) = Queue
              /\ degrade(d)

\* The end of degrade: the objects of a record that is not archived.
Sweep ==
    LET p == hand.p
    IN  /\ Alive /\ hand.pc = "sweep"
        /\ IF pool[p].pc \in {"sweep", "closed"} THEN Panics
           ELSE /\ pool' = IF Len(pool[p].sweep) < Queue
                           THEN [pool EXCEPT ![p].sweep = Append(@, hand.d)] ELSE pool
                /\ hand' = Idle
                /\ UNCHANGED <<todo, cur, worker, basket, park, sink, settled, redis, s3,
                               main, panic>>

\* What the DELs of a batch may leave: any of them may fail.
Deleted(objects) == {redis \ gone : gone \in SUBSET objects}

\* One batch of the cleaner.
clean(p) ==
    /\ Alive /\ pool[p].sweep # <<>>
    /\ pool' = [pool EXCEPT ![p].sweep = Tail(@)]
    /\ redis' \in Deleted({Head(pool[p].sweep)} \X Stored[Head(pool[p].sweep)])
    /\ UNCHANGED <<todo, hand, cur, worker, basket, park, sink, settled, s3, main, panic>>

-----------------------------------------------------------------------------
(* Workers: enqueue and push.                                               *)

Flushing(p, who) == \E k \in KindSet : \E i \in 1..Len(basket[p][k].flushes) :
                        basket[p][k].flushes[i].who = who

\* doFlush(items) by who: nothing for no items, else it queues for flushMu; the
\* first of flushes holds it.
doFlush(b, who, items) ==
    IF items = <<>> THEN b
    ELSE [b EXCEPT !.flushes = Append(@, [who |-> who, items |-> items, pc |-> "move",
                                          fate |-> "held"])]

takeLocked(b) == [b EXCEPT !.items = <<>>, !.timer = FALSE]

full(k, n) == n # 0 /\ \/ Size[k] <= 1 /\ ~Timed[k]
                       \/ Size[k] > 0 /\ n >= Size[k]

\* Mutant: the timer is not armed for the item that opens a batch.
push_unarmed(b, k, who, d) ==
    LET items == Append(b.items, d)
    IN  IF b.closed THEN doFlush(b, who, <<d>>)
        ELSE IF full(k, Len(items)) THEN doFlush(takeLocked(b), who, items)
        ELSE [b EXCEPT !.items = items, !.timer = @ \/ (Timed[k] /\ Len(items) > 1)]

push(b, k, who, d) ==
    LET items == Append(b.items, d)
    IN  IF b.closed THEN doFlush(b, who, <<d>>)
        ELSE IF full(k, Len(items)) THEN doFlush(takeLocked(b), who, items)
        ELSE [b EXCEPT !.items = items, !.timer = @ \/ Timed[k]]

\* A worker takes a record: without sections to upload it is published at once.
enqueue(p, w) ==
    LET d == Head(pool[p].jobs)
    IN  /\ Alive /\ worker[p][w].rest = <<>> /\ ~Flushing(p, w) /\ pool[p].jobs # <<>>
        /\ pool' = [pool EXCEPT ![p].jobs = Tail(@)]
        /\ \/ /\ Located[d] = {}
              /\ Emit(d)
              /\ UNCHANGED <<worker, park>>
           \/ /\ Located[d] # {}
              /\ park' = [park EXCEPT ![d].pending = Cardinality(Located[d])]
              /\ worker' = [worker EXCEPT ![p][w] =
                     [@ EXCEPT !.d = d, !.rest = SelectSeq(Kinds, LAMBDA k : k \in Located[d])]]
              /\ UNCHANGED <<sink, settled>>
        /\ UNCHANGED <<todo, hand, cur, basket, redis, s3, main, panic>>

Push(p, w) ==
    LET k == Head(worker[p][w].rest)
    IN  /\ Alive /\ worker[p][w].rest # <<>> /\ ~Flushing(p, w)
        /\ basket' = [basket EXCEPT ![p][k] = push(@, k, w, worker[p][w].d)]
        /\ worker' = [worker EXCEPT ![p][w].rest = Tail(@)]
        /\ UNCHANGED <<todo, hand, cur, pool, park, sink, settled, redis, s3, main, panic>>

\* The channel is closed and empty: the worker leaves.
WorkerDone(p, w) ==
    /\ Alive /\ ~worker[p][w].done /\ ~JobsOpen(p) /\ pool[p].jobs = <<>>
    /\ worker[p][w].rest = <<>> /\ ~Flushing(p, w)
    /\ worker' = [worker EXCEPT ![p][w].done = TRUE]
    /\ UNCHANGED <<todo, hand, cur, pool, basket, park, sink, settled, redis, s3, main,
                   panic>>

-----------------------------------------------------------------------------
(* Timers and flushes.                                                      *)

\* The runtime starts onTimer's goroutine: from here on Stop comes too late.
TimerFires(p, k) ==
    /\ Alive /\ basket[p][k].timer /\ ~basket[p][k].firing
    /\ basket' = [basket EXCEPT ![p][k].firing = TRUE]
    /\ UNCHANGED <<todo, hand, cur, pool, worker, park, sink, settled, redis, s3, main,
                   panic>>

onTimer(p, k) ==
    LET b == [basket[p][k] EXCEPT !.firing = FALSE]
    IN  /\ Alive /\ basket[p][k].firing
        /\ basket' = [basket EXCEPT ![p][k] = doFlush(takeLocked(b), "timer", b.items)]
        /\ UNCHANGED <<todo, hand, cur, pool, worker, park, sink, settled, redis, s3,
                       main, panic>>

Holder(p, k) == Head(basket[p][k].flushes)
At(p, k, pc) == Alive /\ basket[p][k].flushes # <<>> /\ Holder(p, k).pc = pc

\* move reads the parking's map of locators without its mutex; this is a data race
\* with the complete of the same record in another basket, which ends the process
\* or goes unnoticed.
Racing(p, k) ==
    \E j \in KindSet \ {k} : /\ At(p, j, "complete")
                             /\ Head(Holder(p, j).items) = Head(Holder(p, k).items)

move(p, k) ==
    LET d == Head(Holder(p, k).items)
    IN  /\ At(p, k, "move")
        /\ \/ Racing(p, k) /\ Panics
           \/ \E fate \in {"s3", "failed"} :
                  /\ fate = "s3" /\ k \in Stored[d] => <<d, k>> \in redis
                  /\ s3' = IF fate = "s3" THEN s3 \cup {<<d, k>>} ELSE s3
                  /\ basket' = [basket EXCEPT ![p][k].flushes[1] =
                                    [@ EXCEPT !.pc = "complete", !.fate = fate]]
                  /\ UNCHANGED <<todo, hand, cur, pool, worker, park, sink, settled,
                                 redis, main, panic>>

\* The flush goes on with its next item; after the last one whoever gets flushMu next.
NextItem(fs) ==
    IF Len(fs[1].items) > 1
    THEN {[fs EXCEPT ![1] = [@ EXCEPT !.items = Tail(@), !.pc = "move", !.fate = "held"]]}
    ELSE IF Len(fs) = 1 THEN {<<>>}
    ELSE {<<fs[i]>> \o Tail(RemoveAt(fs, i)) : i \in 2..Len(fs)}

\* Mutant: the record goes out with the first section that is done.
complete_first(p, k) ==
    LET d == Head(Holder(p, k).items)
        fate == Holder(p, k).fate
    IN  /\ At(p, k, "complete")
        /\ park' = [park EXCEPT ![d] =
               [@ EXCEPT !.loc[k] = fate, !.pending = 0,
                         !.trash = IF fate = "s3" THEN @ \cup {k} ELSE @]]
        /\ \E fs \in IF park[d].pending = 0 THEN NextItem(basket[p][k].flushes)
                     ELSE {[basket[p][k].flushes EXCEPT ![1].pc = "emit"]} :
               basket' = [basket EXCEPT ![p][k].flushes = fs]
        /\ UNCHANGED <<todo, hand, cur, pool, worker, sink, settled, redis, s3, main,
                       panic>>

\* Mutant: the object of a failed upload joins the trash.
complete_trashes_all(p, k) ==
    LET d == Head(Holder(p, k).items)
        fate == Holder(p, k).fate
    IN  /\ At(p, k, "complete")
        /\ park' = [park EXCEPT ![d] =
               [@ EXCEPT !.loc[k] = fate, !.pending = @ - 1, !.trash = @ \cup {k}]]
        /\ \E fs \in IF park[d].pending > 1 THEN NextItem(basket[p][k].flushes)
                     ELSE {[basket[p][k].flushes EXCEPT ![1].pc = "emit"]} :
               basket' = [basket EXCEPT ![p][k].flushes = fs]
        /\ UNCHANGED <<todo, hand, cur, pool, worker, sink, settled, redis, s3, main,
                       panic>>

\* complete up to the unlock of the parking.
complete(p, k) ==
    LET d == Head(Holder(p, k).items)
        fate == Holder(p, k).fate
    IN  /\ At(p, k, "complete")
        /\ park' = [park EXCEPT ![d] =
               [@ EXCEPT !.loc[k] = fate, !.pending = @ - 1,
                         !.trash = IF fate = "s3" THEN @ \cup {k} ELSE @]]
        /\ \E fs \in IF park[d].pending > 1 THEN NextItem(basket[p][k].flushes)
                     ELSE {[basket[p][k].flushes EXCEPT ![1].pc = "emit"]} :
               basket' = [basket EXCEPT ![p][k].flushes = fs]
        /\ UNCHANGED <<todo, hand, cur, pool, worker, sink, settled, redis, s3, main,
                       panic>>

\* The last section of the record: it is published with what the sections became.
Publish(p, k) ==
    /\ At(p, k, "emit")
    /\ Emit(Head(Holder(p, k).items))
    /\ basket' = [basket EXCEPT ![p][k].flushes[1].pc = "delete"]
    /\ UNCHANGED <<todo, hand, cur, pool, worker, park, redis, s3, main, panic>>

\* Then the objects that were moved leave the store.
Delete(p, k) ==
    LET d == Head(Holder(p, k).items)
    IN  /\ At(p, k, "delete")
        /\ redis' \in Deleted({d} \X (park[d].trash \cap Stored[d]))
        /\ \E fs \in NextItem(basket[p][k].flushes) :
               basket' = [basket EXCEPT ![p][k].flushes = fs]
        /\ UNCHANGED <<todo, hand, cur, pool, worker, park, sink, settled, s3, main, panic>>

-----------------------------------------------------------------------------
(* Pool.Close, Switch.Apply and the end of main.                            *)

\* After close(p.jobs) and wg.Wait: the baskets one by one, in the order of Kinds,
\* each waited for only as far as closeAndFlush's own flush goes.
closeAndFlush(p) ==
    LET k == Kinds[pool[p].k + 1]
        b == [basket[p][k] EXCEPT !.closed = TRUE]
    IN  /\ Alive /\ pool[p].pc = "workers" /\ pool[p].k < Len(Kinds)
        /\ \A w \in WorkersOf(p) : worker[p][w].done
        /\ ~Flushing(p, "closer")
        /\ basket' = IF Enabled[p]
                     THEN [basket EXCEPT ![p][k] = doFlush(takeLocked(b), "closer", b.items)]
                     ELSE basket
        /\ pool' = [pool EXCEPT ![p].k = @ + 1]
        /\ UNCHANGED <<todo, hand, cur, worker, park, sink, settled, redis, s3, main, panic>>

CloseSweep(p) ==
    /\ Alive /\ pool[p].pc = "workers" /\ pool[p].k = Len(Kinds) /\ ~Flushing(p, "closer")
    /\ pool' = [pool EXCEPT ![p].pc = "sweep"]
    /\ UNCHANGED <<todo, hand, cur, worker, basket, park, sink, settled, redis, s3, main,
                   panic>>

\* The cleaner has drained its channel.
Closed(p) ==
    /\ Alive /\ pool[p].pc = "sweep" /\ pool[p].sweep = <<>>
    /\ pool' = [pool EXCEPT ![p].pc = "closed"]
    /\ UNCHANGED <<todo, hand, cur, worker, basket, park, sink, settled, redis, s3, main,
                   panic>>

\* A new configuration: the new pool first, then the old one closes in a goroutine
\* of its own.  After Switch.Close nothing is applied.
Apply ==
    /\ Alive /\ cur < Pools /\ main \in {"run", "handoff"}
    /\ cur' = cur + 1
    /\ pool' = [pool EXCEPT ![cur].pc = "workers"]
    /\ UNCHANGED <<todo, hand, worker, basket, park, sink, settled, redis, s3, main, panic>>

\* The deferred calls of main: stopHandoff waits for the socket's goroutine ...
StopHandoff ==
    /\ Alive /\ main = "run"
    /\ main' = "handoff"
    /\ UNCHANGED <<todo, hand, cur, pool, worker, basket, park, sink, settled, redis, s3,
                   panic>>

\* ... Switch.Close closes the pool in use and waits for the ones before it ...
CloseArchive ==
    /\ Alive /\ main = "handoff" /\ hand.pc = "read"
    /\ main' = "archive"
    /\ pool' = [pool EXCEPT ![cur].pc = "workers"]
    /\ UNCHANGED <<todo, hand, cur, worker, basket, park, sink, settled, redis, s3, panic>>

\* ... the sink flushes what it has ...
CloseSink ==
    /\ Alive /\ main = "archive" /\ \A p \in 1..cur : pool[p].pc = "closed"
    /\ main' = "sink"
    /\ sink' = [sink EXCEPT !.stop = TRUE]
    /\ UNCHANGED <<todo, hand, cur, pool, worker, basket, park, settled, redis, s3, panic>>

\* ... and the process ends, with every goroutine that still runs.
Exit ==
    /\ Alive /\ main = "sink" /\ sink.done
    /\ main' = "exit"
    /\ UNCHANGED <<todo, hand, cur, pool, worker, basket, park, sink, settled, redis, s3,
                   panic>>

WorkerNext(p, w) == enqueue(p, w) \/ Push(p, w) \/ WorkerDone(p, w)
FlushNext(p, k) == move(p, k) \/ complete(p, k) \/ Publish(p, k) \/ Delete(p, k)
CloserNext(p) == closeAndFlush(p) \/ CloseSweep(p) \/ Closed(p)

Next ==
    \/ Load \/ Handle \/ Sweep \/ flush \/ SinkDone
    \/ Apply \/ StopHandoff \/ CloseArchive \/ CloseSink \/ Exit
    \/ \E p \in 1..Pools : clean(p) \/ CloserNext(p)
    \/ \E p \in 1..Pools : \E w \in WorkersOf(p) : WorkerNext(p, w)
    \/ \E p \in 1..Pools : \E k \in KindSet :
           FlushNext(p, k) \/ TimerFires(p, k) \/ onTimer(p, k)

Spec == Init /\ [][Next]_vars

\* Every goroutine is scheduled and every timer fires; nobody has to send a
\* configuration or stop the process.
FairSpec ==
    /\ Spec
    /\ WF_vars(Handle) /\ WF_vars(Sweep) /\ WF_vars(flush)
    /\ \A p \in 1..Pools : /\ WF_vars(CloserNext(p))
                           /\ \A w \in WorkersOf(p) : WF_vars(WorkerNext(p, w))
                           /\ \A k \in KindSet :
                                  /\ WF_vars(FlushNext(p, k))
                                  /\ WF_vars(TimerFires(p, k)) /\ WF_vars(onTimer(p, k))


-----------------------------------------------------------------------------
(* Properties.                                                              *)

Flush == [who : Workers \cup {"timer", "closer"}, items : Seq(Records),
          pc : {"move", "complete", "emit", "delete"}, fate : {"held", "s3", "failed"}]

Emitted(d) == "emitted" \in ToSet(settled[d])

\* However the sections of a record are spread over baskets, timers, workers and
\* pools, at most one of their goroutines publishes the record: complete counts the
\* sections down under the parking's mutex.  And agent.conf: "An audit record goes
\* out when all its sections are uploaded."  A published record has no section
\* still to be moved, and a section it says is in the archive is there.
EmittedOnce ==
    \A d \in Records :
        /\ Len(SelectSeq(settled[d], LAMBDA e : e = "emitted")) <= 1
        /\ Emitted(d) => \A k \in Located[d] :
               /\ park[d].loc[k] # "held"
               /\ park[d].loc[k] = "s3" => <<d, k>> \in s3

\* An object leaves the store only after its record was published, and only if the
\* archive has it or the record was not to be archived; a failed upload leaves the
\* object where it is.
StoreFreedLast ==
    \A d \in Records : \A k \in Stored[d] : <<d, k>> \notin redis =>
        /\ Emitted(d)
        /\ park[d].loc[k] = "skipped" \/ <<d, k>> \in s3

\* The stop of the agent loses no record it has received: README.md, "the agent
\* publishes the audit record and archives the held objects to S3".
NothingLostAtExit == main = "exit" => \A d \in Records \ todo : Len(settled[d]) > 1

\* While the agent runs, a record it has received is published (or counted as
\* dropped, or refused by the bus): no basket keeps a section for ever and no
\* goroutine waits for one that waits for it.
EveryRecordSettles ==
    \A d \in Records : d \notin todo ~> Len(settled[d]) > 1 \/ panic \/ main # "run"

=============================================================================
