----------------------------- MODULE RateLimit -----------------------------
(***************************************************************************)
(* The rate counters of waf_local_rate (local/ngx_http_waf_rate.c).        *)
(*                                                                         *)
(* A counter is a leaky bucket per rule and key: a node in the shared      *)
(* zone, in a queue ordered by last use.  The zone's mutex makes a call    *)
(* atomic; only the insertion of a node is split in steps here, with the   *)
(* mutex held (job).  Workers see the time late by up to Lag.              *)
(*                                                                         *)
(* Keys stands for the pairs of a rule and a key, so each has its rate and *)
(* burst.  Times are in milliseconds and amounts in 1/1000 of a request    *)
(* (Second and Cost, so that TLC can take them small).                     *)
(***************************************************************************)
EXTENDS Integers, Sequences

CONSTANTS
    Keys,
    Waves,          \* the keys of rules with count=waves
    Rate, Burst,    \* per key: rule->rate and rule->burst
    Charge,         \* per key: rate_charge, the size of its node
    RateMax,        \* rate_max: the room for the counters
    Evict,          \* NGX_HTTP_WAF_RATE_EVICT
    Cost, Second,   \* 1000
    SkewMax,        \* 60000
    Lag,            \* how late a worker's cached time is
    MaxTime,        \* bound: the clock
    MaxCount        \* bound: requests counted for a key

None == [last |-> -1, excess |-> -1]

ASSUME RateAssumption ==
    /\ Waves \subseteq Keys
    /\ Rate \in [Keys -> Nat] /\ Burst \in [Keys -> Nat]
    /\ Charge \in [Keys -> Nat \ {0}]
    /\ RateMax \in Nat /\ Evict \in Nat
    /\ Cost \in Nat \ {0} /\ Second \in Nat \ {0}
    /\ SkewMax \in Nat /\ Lag \in 0..SkewMax
    /\ MaxTime \in Nat /\ MaxCount \in Nat

VARIABLES
    clock,      \* the time
    node,       \* per key: its node, or None
    lru,        \* rate_lru, the key used last first
    bytes,      \* rate_bytes
    job,        \* the insertion in progress
    hist        \* history, per key: counted since the node was inserted (adm,
                \* born), and since it was last evicted for room (all, first)

vars == <<clock, node, lru, bytes, job, hist>>

NoJob == [pc |-> "idle", key |-> 0, excess |-> 0, now |-> 0, n |-> 0]

Unseen == [adm |-> 0, born |-> 0, all |-> 0, first |-> 0]

Init ==
    /\ clock = Lag
    /\ node = [k \in Keys |-> None]
    /\ lru = <<>>
    /\ bytes = 0
    /\ job = NoJob
    /\ hist = [k \in Keys |-> Unseen]

-----------------------------------------------------------------------------
(* Another worker may have stored a fresher time. *)
rate_elapsed(now, last) ==
    IF now - last < -SkewMax THEN 1
    ELSE IF now < last THEN 0 ELSE now - last

(* What has leaked out of a node that was last used at this time. *)
Leaked(k, now) == (Rate[k] * rate_elapsed(now, node[k].last)) \div Second

(* rate_account for a key that has a node. *)
Refilled(k, now, add) ==
    LET v == node[k].excess - Leaked(k, now) + add IN IF v < 0 THEN 0 ELSE v

(* The node goes to the head of the queue. *)
Used(k) ==
    \E i \in DOMAIN lru :
        /\ lru[i] = k
        /\ lru' = <<k>> \o SubSeq(lru, 1, i - 1) \o SubSeq(lru, i + 1, Len(lru))

(* Mutant: the time of the node may go back. *)
Counted_always_now(k, now, value) ==
    node' = [node EXCEPT ![k] = [last |-> now, excess |-> value]]

(* A worker whose time is not later than the node's leaves it alone. *)
Counted(k, now, value) ==
    node' = [node EXCEPT ![k] =
               [last |-> IF rate_elapsed(now, @.last) # 0 THEN now ELSE @.last,
                excess |-> value]]

rate_peek(k, now) ==
    /\ Used(k)
    /\ UNCHANGED <<node, hist>>

rate_gate(k, now) ==
    LET value == Refilled(k, now, Cost)
    IN  /\ Used(k)
        /\ \/ /\ value <= Burst[k]
              /\ Counted(k, now, value)
              /\ hist' = [hist EXCEPT ![k].adm = @ + 1, ![k].all = @ + 1]
           \/ /\ value > Burst[k]
              /\ UNCHANGED <<node, hist>>

(* Mutant: a debt without limit. *)
rate_debt_uncapped(k, now) ==
    /\ Used(k)
    /\ Counted(k, now, Refilled(k, now, Cost))
    /\ UNCHANGED hist

rate_debt(k, now) ==
    LET value == Refilled(k, now, Cost)
        limit == Burst[k] + Rate[k]
    IN  /\ Used(k)
        /\ Counted(k, now, IF value <= Burst[k] \/ value <= limit THEN value ELSE limit)
        /\ UNCHANGED hist

-----------------------------------------------------------------------------
(* rate_expire: at most two nodes from the end of the queue.  The first    *)
(* one goes in any case when room is needed; otherwise a node goes when    *)
(* nothing is left in it.                                                  *)

Oldest(n) == lru[Len(lru) + 1 - n]

Spent(k, now) == node[k].excess - Leaked(k, now) <= 0

expire_count(force, now) ==
    IF lru = <<>> \/ (~force /\ ~Spent(Oldest(1), now)) THEN 0
    ELSE IF Len(lru) = 1 \/ ~Spent(Oldest(2), now) THEN 1
    ELSE 2

rate_free_bytes(b, k) == IF b > Charge[k] THEN b - Charge[k] ELSE 0

(* Mutant: the room of the nodes is not given back. *)
rate_expire_keeps_bytes(force, now) ==
    LET n == expire_count(force, now)
        gone == {Oldest(m) : m \in 1..n}
    IN  /\ node' = [k \in Keys |-> IF k \in gone THEN None ELSE node[k]]
        /\ lru' = SubSeq(lru, 1, Len(lru) - n)
        /\ UNCHANGED <<bytes, hist>>

rate_expire(force, now) ==
    LET n == expire_count(force, now)
        gone == {Oldest(m) : m \in 1..n}
    IN  /\ node' = [k \in Keys |-> IF k \in gone THEN None ELSE node[k]]
        /\ lru' = SubSeq(lru, 1, Len(lru) - n)
        /\ bytes' = IF n = 0 THEN bytes
                    ELSE IF n = 1 THEN rate_free_bytes(bytes, Oldest(1))
                    ELSE rate_free_bytes(rate_free_bytes(bytes, Oldest(1)), Oldest(2))
        /\ hist' = [k \in Keys |->
                      IF force /\ n > 0 /\ k = Oldest(1) THEN Unseen
                      ELSE IF k \in gone THEN [hist[k] EXCEPT !.adm = 0, !.born = 0]
                      ELSE hist[k]]

(* rate_insert. *)

Fits(k) == bytes + Charge[k] <= RateMax

Step(pc) == job' = [job EXCEPT !.pc = pc]

rate_insert(k, excess, now) ==
    /\ job' = [pc |-> "expire", key |-> k, excess |-> excess, now |-> now, n |-> 0]
    /\ UNCHANGED <<node, lru, bytes, hist>>

InsertExpire ==
    /\ job.pc = "expire"
    /\ rate_expire(FALSE, job.now)
    /\ Step("evict")
    /\ UNCHANGED clock

InsertEvict ==
    /\ job.pc = "evict"
    /\ IF ~Fits(job.key) /\ job.n < Evict /\ lru # <<>>
       THEN rate_expire(TRUE, job.now) /\ job' = [job EXCEPT !.n = @ + 1]
       ELSE Step("alloc") /\ UNCHANGED <<node, lru, bytes, hist>>
    /\ UNCHANGED clock

Inserted ==
    LET k == job.key
    IN  /\ node' = [node EXCEPT ![k] = [last |-> job.now, excess |-> job.excess]]
        /\ lru' = <<k>> \o lru
        /\ bytes' = bytes + Charge[k]
        /\ hist' = [hist EXCEPT ![k] =
                      [adm |-> 1, born |-> job.now, all |-> @.all + 1,
                       first |-> IF @.all = 0 THEN job.now ELSE @.first]]
        /\ job' = NoJob

NotInserted == job' = NoJob /\ UNCHANGED <<node, lru, bytes, hist>>

(* The slab is shared with the datasets: it may have no page left. *)
InsertAlloc ==
    /\ job.pc = "alloc"
    /\ \/ Fits(job.key) /\ Inserted
       \/ Fits(job.key) /\ rate_expire(TRUE, job.now) /\ Step("retry")
       \/ ~Fits(job.key) /\ NotInserted
    /\ UNCHANGED clock

InsertRetry ==
    /\ job.pc = "retry"
    /\ Inserted \/ NotInserted
    /\ UNCHANGED clock

-----------------------------------------------------------------------------
Nows == (clock - Lag)..clock

(* rate_check: a request, or a frame, of this key. *)
rate_check(k, now) ==
    /\ job = NoJob
    /\ IF k \in Waves
       THEN node[k] # None /\ rate_peek(k, now) /\ UNCHANGED <<bytes, job>>
       ELSE /\ hist[k].all < MaxCount
            /\ IF node[k] = None THEN rate_insert(k, 0, now)
               ELSE rate_gate(k, now) /\ UNCHANGED <<bytes, job>>
    /\ UNCHANGED clock

(* rate_charge_wave: a wave of inspectors was asked. *)
rate_charge_wave(k, now) ==
    /\ job = NoJob
    /\ k \in Waves
    /\ IF node[k] = None THEN rate_insert(k, Cost, now)
       ELSE rate_debt(k, now) /\ UNCHANGED <<bytes, job>>
    /\ UNCHANGED clock

Tick ==
    /\ job = NoJob
    /\ clock < MaxTime
    /\ clock' = clock + 1
    /\ UNCHANGED <<node, lru, bytes, job, hist>>

Next ==
    \/ \E k \in Keys, now \in Nows : rate_check(k, now) \/ rate_charge_wave(k, now)
    \/ InsertExpire \/ InsertEvict \/ InsertAlloc \/ InsertRetry
    \/ Tick

Spec == Init /\ [][Next]_vars

-----------------------------------------------------------------------------
Node == [last : Nat, excess : Nat]

(* No bucket goes below zero, and the room taken is never negative. *)
TypeOK ==
    /\ clock \in Nat
    /\ node \in [Keys -> Node \cup {None}]
    /\ lru \in Seq(Keys)
    /\ bytes \in Nat
    /\ job = NoJob \/ job \in [pc : {"expire", "evict", "alloc", "retry"}, key : Keys,
                               excess : {0, Cost}, now : Nat, n : Nat]
    /\ hist \in [Keys -> [adm : Nat, born : Nat, all : Nat, first : Nat]]

(* While a counter lives, it lets through one request, the burst, and what *)
(* the rate allows for the time since the counter began, whatever workers  *)
(* account it in whatever order and however late their clocks are.         *)
RateBound ==
    \A k \in Keys \ Waves : node[k] # None =>
        Second * (Cost * (hist[k].adm - 1))
          <= Second * Burst[k] + Rate[k] * (clock - hist[k].born)

DebtLimit(k) == IF Cost > Burst[k] + Rate[k] THEN Cost ELSE Burst[k] + Rate[k]

(* A counter of waves, which are charged after they were let through,      *)
(* never owes more than the burst and one second, so that a key is refused *)
(* for a bounded time; one wave may owe more than that alone.              *)
DebtBound ==
    \A k \in Waves : node[k] # None =>
        node[k].excess <= DebtLimit(k)

(* The room that the nodes of a queue take together. *)
Room(queue) ==
    LET sum[i \in 0 .. Len(queue)] ==
            IF i = 0 THEN 0 ELSE sum[i - 1] + Charge[queue[i]]
    IN  sum[Len(queue)]

(* The counters keep to their room in the zone: the queue holds every node *)
(* once and rate_bytes is what they take, through expiry, eviction and     *)
(* failed allocations.                                                     *)
RoomExact ==
    /\ {lru[i] : i \in DOMAIN lru} = {k \in Keys : node[k] # None}
    /\ \A i, j \in DOMAIN lru : lru[i] = lru[j] => i = j
    /\ bytes = Room(lru)
    /\ bytes <= RateMax

(* A rule limits the rate of a key: as long as the key is not evicted for  *)
(* want of room, it is let through once, for the burst, and as often as    *)
(* the rate allows.                                                        *)
RateLimited ==
    \A k \in Keys \ Waves : hist[k].all > 0 =>
        Second * (Cost * (hist[k].all - 1))
          <= Second * Burst[k] + Rate[k] * (clock - hist[k].first)
=============================================================================
