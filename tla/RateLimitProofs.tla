-------------------------- MODULE RateLimitProofs --------------------------
(***************************************************************************)
(* The bounds of the rate counters, for every rate, burst and number of    *)
(* keys, every order of the workers' calls and every lateness of their     *)
(* clocks up to Lag.                                                       *)
(*                                                                         *)
(* RateBound is not inductive: a step needs to know how much of what was   *)
(* let through is still in the bucket.  Bucket says that what was let      *)
(* through is at most what is in the bucket and what could have leaked     *)
(* since the counter began; it is kept because the leak is rounded down    *)
(* and a late clock neither leaks nor moves last.                          *)
(***************************************************************************)
EXTENDS RateLimit, WellFoundedInduction, NaturalsInduction, TLAPS

(* The balance of a counter, see above. *)
Bucket(k) ==
    /\ node[k].excess <= Burst[k]
    /\ hist[k].born <= node[k].last
    /\ Second * (Cost * (hist[k].adm - 1))
         <= Second * node[k].excess + Rate[k] * (node[k].last - hist[k].born)

(* What every step keeps. *)
IInv ==
    /\ TypeOK
    /\ clock >= Lag
    /\ \A k \in Keys : node[k] # None => node[k].last <= clock
    /\ job # NoJob => job.now <= clock /\ (job.key \notin Waves => job.excess = 0)
    /\ \A k \in Keys \ Waves : node[k] # None => Bucket(k)
    /\ DebtBound

-----------------------------------------------------------------------------
(* Division rounds down: what leaks is at most what the rate allows. *)
LEMMA RoundedDown ==
    ASSUME NEW x \in Nat, NEW d \in Nat \ {0}
    PROVE  /\ x \div d \in Nat
           /\ d * (x \div d) <= x
OBVIOUS

(* Amounts and times multiply to natural numbers. *)
LEMMA Products ==
    ASSUME NEW x \in Nat, NEW y \in Nat
    PROVE  x * y \in Nat
OBVIOUS

(* What leaks in two stretches of time is what leaks in both together. *)
LEMMA Distributes ==
    ASSUME NEW x \in Int, NEW y \in Int, NEW z \in Int
    PROVE  x * (y + z) = x * y + x * z
OBVIOUS

(* A later time has let no less leak. *)
LEMMA Monotone ==
    ASSUME NEW x \in Nat, NEW y \in Int, NEW z \in Int, y <= z
    PROVE  x * y <= x * z
OBVIOUS

(* One request more, with C of it added to a bucket that leaked for ms:    *)
(* the balance of what was let through is kept.                            *)
LEMMA Balance ==
    ASSUME NEW S \in Nat \ {0}, NEW C \in Nat \ {0}, NEW R \in Nat, NEW e \in Nat,
           NEW ms \in Nat, NEW span \in Nat, NEW m \in Int, NEW v \in Int,
           S * (C * m) <= S * e + R * span,
           v >= e - ((R * ms) \div S) + C
    PROVE  S * (C * (m + 1)) <= S * v + R * (span + ms)
<1> DEFINE D == (R * ms) \div S
<1>1. R * ms \in Nat
  BY Products
<1>2. D \in Nat /\ S * D <= R * ms
  BY <1>1, RoundedDown
<1>3. C * (m + 1) = C * m + C
  BY Distributes
<1>4. C * m \in Int
  OBVIOUS
<1>5. S * (C * m + C) = S * (C * m) + S * C
  BY <1>4, Distributes
<1>6. R * (span + ms) = R * span + R * ms
  BY Distributes
<1>7. S * v >= S * (e - D + C)
  BY <1>2, Monotone
<1>8. S * ((e - D) + C) = S * (e - D) + S * C
  BY <1>2, Distributes
<1>9. S * (e + (-D)) = S * e + S * (-D)
  BY <1>2, Distributes
<1>10. S * (-D) = -(S * D) /\ e - D = e + (-D)
  BY <1>2
<1>11. /\ S * e \in Int /\ S * C \in Int /\ S * D \in Int /\ S * v \in Int
       /\ R * span \in Int /\ R * ms \in Int /\ S * (C * m) \in Int
  BY <1>2, <1>4
<1> HIDE DEF D
<1> QED
  BY <1>2, <1>3, <1>5, <1>6, <1>7, <1>8, <1>9, <1>10, <1>11

(* The time a worker sees to have passed: none when it is late, and else   *)
(* what takes last to now.                                                 *)
LEMMA Elapsed ==
    ASSUME clock \in Nat, clock >= Lag, NEW now \in Nows,
           NEW last \in Nat, last <= clock
    PROVE  /\ now \in Nat /\ now <= clock
           /\ rate_elapsed(now, last) \in Nat
           /\ rate_elapsed(now, last) # 0 => now = last + rate_elapsed(now, last)
BY RateAssumption DEF Nows, rate_elapsed

(* A worker's clock is a natural number, however far it lags. *)
LEMMA NowsNat ==
    ASSUME clock \in Nat, clock >= Lag, NEW now \in Nows
    PROVE  now \in Nat
BY RateAssumption DEF Nows

-----------------------------------------------------------------------------
(* The empty zone satisfies the inductive invariant. *)
LEMMA InitIInv == Init => IInv
BY RateAssumption DEF Init, IInv, TypeOK, NoJob, None, Unseen, DebtBound, Node

(* Using a node moves it in the queue. *)
LEMMA UsedType ==
    ASSUME lru \in Seq(Keys), NEW k \in Keys, Used(k)
    PROVE  lru' \in Seq(Keys)
<1>1. PICK i \in DOMAIN lru :
        lru' = <<k>> \o SubSeq(lru, 1, i - 1) \o SubSeq(lru, i + 1, Len(lru))
  BY Zenon DEF Used
<1>2. i \in 1..Len(lru) /\ Len(lru) \in Nat
  OBVIOUS
<1>3. SubSeq(lru, 1, i - 1) \in Seq(Keys) /\ SubSeq(lru, i + 1, Len(lru)) \in Seq(Keys)
  BY <1>2
<1>4. <<k>> \in Seq(Keys)
  OBVIOUS
<1> QED
  BY <1>1, <1>3, <1>4

(* Expiry takes at most two nodes, and there are as many. *)
LEMMA ExpireCount ==
    ASSUME lru \in Seq(Keys), NEW force, NEW now
    PROVE  /\ expire_count(force, now) \in {0, 1, 2}
           /\ expire_count(force, now) <= Len(lru) /\ Len(lru) \in Nat
<1>1. PICK n : n = expire_count(force, now)
  BY Zenon
<1>2. Len(lru) \in Nat /\ (lru # <<>> => Len(lru) >= 1)
  OBVIOUS
<1>3. \/ n = 0
      \/ n = 1 /\ lru # <<>>
      \/ n = 2 /\ lru # <<>> /\ Len(lru) # 1
  BY <1>1 DEF expire_count
<1> SUFFICES n \in {0, 1, 2} /\ n <= Len(lru)
  BY <1>1, <1>2, Zenon
<1>4. CASE n = 0
  BY <1>2, <1>4
<1>5. CASE n = 1 /\ lru # <<>>
  BY <1>2, <1>5
<1>6. CASE n = 2 /\ lru # <<>> /\ Len(lru) # 1
  <2>1. \A l \in Nat : l >= 1 /\ l # 1 => 2 <= l
    OBVIOUS
  <2>2. 2 <= Len(lru)
    BY <1>2, <1>6, <2>1, Zenon
  <2> QED
    BY <1>2, <1>6, <2>2, Zenon
<1> QED
  BY <1>3, <1>4, <1>5, <1>6

(* Expiry drops nodes and touches no other. *)
LEMMA ExpireKeeps ==
    ASSUME TypeOK, NEW force \in BOOLEAN, NEW now, rate_expire(force, now)
    PROVE  /\ node' \in [Keys -> Node \cup {None}]
           /\ lru' \in Seq(Keys)
           /\ bytes' \in Nat /\ bytes' <= bytes
           /\ hist' \in [Keys -> [adm : Nat, born : Nat, all : Nat, first : Nat]]
           /\ \A k \in Keys : node'[k] # None => node'[k] = node[k] /\ hist'[k] = hist[k]
<1> DEFINE n == expire_count(force, now)
           gone == {Oldest(m) : m \in 1..n}
<1>1. n \in {0, 1, 2} /\ n <= Len(lru) /\ Len(lru) \in Nat
  BY ExpireCount, Zenon DEF TypeOK
<1>2. \A m \in 1..n : Oldest(m) \in Keys
  BY <1>1 DEF Oldest, TypeOK
<1>3. /\ node' = [k \in Keys |-> IF k \in gone THEN None ELSE node[k]]
      /\ lru' = SubSeq(lru, 1, Len(lru) - n)
      /\ bytes' = IF n = 0 THEN bytes
                  ELSE IF n = 1 THEN rate_free_bytes(bytes, Oldest(1))
                  ELSE rate_free_bytes(rate_free_bytes(bytes, Oldest(1)), Oldest(2))
      /\ hist' = [k \in Keys |->
                    IF force /\ n > 0 /\ k = Oldest(1) THEN Unseen
                    ELSE IF k \in gone THEN [hist[k] EXCEPT !.adm = 0, !.born = 0]
                    ELSE hist[k]]
  BY Zenon DEF rate_expire
<1> HIDE DEF n
<1>4. node' \in [Keys -> Node \cup {None}]
  BY <1>3, Zenon DEF TypeOK
<1>5. lru' \in Seq(Keys)
  <2>1. lru \in Seq(Keys)
    BY DEF TypeOK
  <2>2. Len(lru) - n \in 0..Len(lru)
    BY <1>1
  <2>3. SubSeq(lru, 1, Len(lru) - n) \in Seq(Keys)
    BY <2>1, <2>2
  <2> QED
    BY <1>3, <2>3, Zenon
<1>6. bytes' \in Nat /\ bytes' <= bytes
  <2>1. \A x \in Nat, m \in 1..n : /\ rate_free_bytes(x, Oldest(m)) \in Nat
                                   /\ rate_free_bytes(x, Oldest(m)) <= x
    BY <1>2, RateAssumption DEF rate_free_bytes
  <2>2. bytes \in Nat
    BY DEF TypeOK
  <2>3. CASE n = 0
    BY <1>3, <2>2, <2>3
  <2>4. CASE n = 1
    <3>1. 1 \in 1..n
      BY <2>4
    <3>0. n # 0
      BY <2>4
    <3>2. bytes' = rate_free_bytes(bytes, Oldest(1))
      BY <1>3, <2>4, <3>0, Zenon
    <3> QED
      BY <2>1, <2>2, <3>1, <3>2
  <2>5. CASE n = 2
    <3>1. 1 \in 1..n /\ 2 \in 1..n
      BY <2>5
    <3>2. n # 0 /\ n # 1
      BY <2>5
    <3>3. bytes' = rate_free_bytes(rate_free_bytes(bytes, Oldest(1)), Oldest(2))
      BY <1>3, <3>2, Zenon
    <3>4. rate_free_bytes(bytes, Oldest(1)) \in Nat /\ rate_free_bytes(bytes, Oldest(1)) <= bytes
      BY <2>1, <2>2, <3>1
    <3> QED
      BY <2>1, <2>2, <3>1, <3>3, <3>4
  <2> QED
    BY <1>1, <2>3, <2>4, <2>5
<1>7. hist' \in [Keys -> [adm : Nat, born : Nat, all : Nat, first : Nat]]
  BY <1>3 DEF TypeOK, Unseen
<1>8. \A k \in Keys : node'[k] # None => node'[k] = node[k] /\ hist'[k] = hist[k]
  <2>1. n > 0 => Oldest(1) \in gone
    BY <1>1
  <2> QED
    BY <1>3, <2>1, Zenon
<1> QED
  BY <1>4, <1>5, <1>6, <1>7, <1>8


(* Accounting a key that has a node: last moves by what has passed, and    *)
(* what is in the bucket drops by at most what leaks in that time.         *)
LEMMA Accounted ==
    ASSUME IInv, NEW k \in Keys, node[k] # None, NEW now \in Nows,
           NEW ms, ms = rate_elapsed(now, node[k].last),
           NEW value, value = Refilled(k, now, Cost)
    PROVE  /\ node[k] \in Node
           /\ ms \in Nat /\ node[k].last + ms <= clock
           /\ value \in Nat
           /\ value >= node[k].excess - ((Rate[k] * ms) \div Second) + Cost
           /\ \A v : Counted(k, now, v) =>
                node' = [node EXCEPT ![k] = [last |-> node[k].last + ms, excess |-> v]]
<1>1. node[k] \in Node
  BY DEF IInv, TypeOK
<1>2. /\ node[k].last \in Nat /\ node[k].excess \in Nat
      /\ node[k].last <= clock /\ clock \in Nat /\ clock >= Lag
  BY <1>1 DEF IInv, TypeOK, Node
<1>3. /\ ms \in Nat /\ now \in Nat /\ now <= clock
      /\ ms # 0 => now = node[k].last + ms
  BY <1>2, Elapsed
<1>4. Rate[k] \in Nat /\ Cost \in Nat /\ Second \in Nat \ {0}
  BY RateAssumption
<1>5. (Rate[k] * ms) \div Second \in Nat
  BY <1>3, <1>4, Products, RoundedDown
<1>6. value = LET v == node[k].excess - ((Rate[k] * ms) \div Second) + Cost
              IN  IF v < 0 THEN 0 ELSE v
  BY DEF Refilled, Leaked
<1>7. /\ value \in Nat
      /\ value >= node[k].excess - ((Rate[k] * ms) \div Second) + Cost
  BY <1>2, <1>4, <1>5, <1>6
<1>8. ASSUME NEW v, Counted(k, now, v)
      PROVE  node' = [node EXCEPT ![k] = [last |-> node[k].last + ms, excess |-> v]]
  <2>1. node' = [node EXCEPT ![k] = [last |-> IF ms # 0 THEN now ELSE node[k].last,
                                     excess |-> v]]
    BY <1>8 DEF Counted
  <2>2. (IF ms # 0 THEN now ELSE node[k].last) = node[k].last + ms
    BY <1>2, <1>3
  <2> QED
    BY <2>1, <2>2, Zenon
<1> QED
  BY <1>1, <1>2, <1>3, <1>7, <1>8

(* A request that is let through keeps the balance. *)
LEMMA GateStep ==
    ASSUME IInv, NEW k \in Keys \ Waves, node[k] # None, NEW now \in Nows,
           rate_gate(k, now), UNCHANGED <<clock, bytes, job>>
    PROVE  IInv'
<1> DEFINE value == Refilled(k, now, Cost)
           ms == rate_elapsed(now, node[k].last)
<1>1. /\ node[k] \in Node /\ ms \in Nat /\ node[k].last + ms <= clock /\ value \in Nat
      /\ value >= node[k].excess - ((Rate[k] * ms) \div Second) + Cost
      /\ \A v : Counted(k, now, v) =>
           node' = [node EXCEPT ![k] = [last |-> node[k].last + ms, excess |-> v]]
  BY Accounted
<1>2. lru' \in Seq(Keys)
  BY UsedType DEF rate_gate, IInv, TypeOK
<1>3. CASE value > Burst[k] /\ UNCHANGED <<node, hist>>
  BY <1>2, <1>3, Zenon DEF IInv, TypeOK, Bucket, DebtBound, DebtLimit
<1>4. CASE /\ value <= Burst[k]
           /\ Counted(k, now, value)
           /\ hist' = [hist EXCEPT ![k].adm = @ + 1, ![k].all = @ + 1]
  <2>1. /\ node' = [node EXCEPT ![k] = [last |-> node[k].last + ms, excess |-> value]]
        /\ node \in [Keys -> Node \cup {None}]
        /\ hist \in [Keys -> [adm : Nat, born : Nat, all : Nat, first : Nat]]
    BY <1>1, <1>4 DEF IInv, TypeOK
  <2> HIDE DEF value, ms
  <2>2. /\ node'[k] = [last |-> node[k].last + ms, excess |-> value]
        /\ \A j \in Keys \ {k} : node'[j] = node[j]
        /\ hist'[k].adm = hist[k].adm + 1
        /\ hist'[k].born = hist[k].born
        /\ \A j \in Keys \ {k} : hist'[j] = hist[j]
        /\ hist' \in [Keys -> [adm : Nat, born : Nat, all : Nat, first : Nat]]
    BY <1>4, <2>1
  <2>3. node[k].last \in Nat /\ node[k].excess \in Nat
    BY <1>1 DEF Node
  <2>4. [last |-> node[k].last + ms, excess |-> value] \in Node
    BY <1>1, <2>3 DEF Node
  <2>5. node' \in [Keys -> Node \cup {None}]
    BY <2>1, <2>4
  <2>6. TypeOK'
    BY <1>2, <2>2, <2>5, Zenon DEF IInv, TypeOK
  <2>7. Bucket(k)'
    <3>1. Bucket(k)
      BY DEF IInv
    <3>2. /\ hist[k].born \in Nat /\ hist[k].adm \in Nat
          /\ node[k].last - hist[k].born \in Nat
      BY <2>1, <2>3, <3>1 DEF Bucket
    <3>3. Cost \in Nat \ {0} /\ Second \in Nat \ {0} /\ Rate[k] \in Nat
      BY RateAssumption
    <3>4. hist[k].adm - 1 \in Int
      BY <3>2
    <3>5. Second * (Cost * ((hist[k].adm - 1) + 1))
            <= Second * value + Rate[k] * ((node[k].last - hist[k].born) + ms)
      <4> DEFINE m == hist[k].adm - 1
                 e == node[k].excess
                 span == node[k].last - hist[k].born
      <4>1. Second * (Cost * m) <= Second * e + Rate[k] * span
        BY <3>1 DEF Bucket
      <4>2. m \in Int /\ e \in Nat /\ span \in Nat /\ value \in Int /\ ms \in Nat
        BY <1>1, <2>3, <3>2, <3>4
      <4>3. value >= e - ((Rate[k] * ms) \div Second) + Cost
        BY <1>1
      <4> HIDE DEF m, e, span
      <4>4. Second * (Cost * (m + 1)) <= Second * value + Rate[k] * (span + ms)
        BY <3>3, <4>1, <4>2, <4>3, Balance, Zenon
      <4> QED
        BY <4>4 DEF m, span
    <3>6. /\ (hist[k].adm - 1) + 1 = hist'[k].adm - 1
          /\ (node[k].last - hist[k].born) + ms = node'[k].last - hist'[k].born
          /\ hist'[k].born <= node'[k].last
          /\ node'[k].excess = value
      BY <1>1, <2>2, <2>3, <3>1, <3>2 DEF Bucket
    <3> QED
      BY <1>4, <3>5, <3>6 DEF Bucket
  <2>8. \A j \in Keys \ Waves : node'[j] # None => Bucket(j)'
    BY <2>2, <2>7 DEF IInv, Bucket
  <2>9. \A j \in Keys : node'[j] # None => node'[j].last <= clock'
    BY <1>1, <2>2 DEF IInv
  <2>10. DebtBound'
    BY <2>2, RateAssumption, Zenon DEF IInv, DebtBound, DebtLimit
  <2> QED
    BY <2>6, <2>8, <2>9, <2>10 DEF IInv
<1> QED
  BY <1>3, <1>4 DEF rate_gate


(* A wave that is charged owes no more than the limit. *)
LEMMA DebtStep ==
    ASSUME IInv, NEW k \in Waves, node[k] # None, NEW now \in Nows,
           rate_debt(k, now), UNCHANGED <<clock, bytes, job>>
    PROVE  IInv'
<1> DEFINE value == Refilled(k, now, Cost)
           ms == rate_elapsed(now, node[k].last)
           limit == Burst[k] + Rate[k]
           debt == IF value <= Burst[k] \/ value <= limit THEN value ELSE limit
<1>0. k \in Keys
  BY RateAssumption
<1>1. /\ node[k] \in Node /\ ms \in Nat /\ node[k].last + ms <= clock /\ value \in Nat
      /\ \A v : Counted(k, now, v) =>
           node' = [node EXCEPT ![k] = [last |-> node[k].last + ms, excess |-> v]]
  BY <1>0, Accounted
<1>2. lru' \in Seq(Keys)
  BY <1>0, UsedType DEF rate_debt, IInv, TypeOK
<1>3. /\ node' = [node EXCEPT ![k] = [last |-> node[k].last + ms, excess |-> debt]]
      /\ hist' = hist
      /\ node \in [Keys -> Node \cup {None}]
  BY <1>1, Zenon DEF rate_debt, IInv, TypeOK
<1> HIDE DEF value, ms
<1>4. debt \in Nat /\ debt <= DebtLimit(k) /\ node[k].last \in Nat
  BY <1>0, <1>1, RateAssumption DEF DebtLimit, Node
<1> HIDE DEF debt
<1>5. [last |-> node[k].last + ms, excess |-> debt] \in Node
  BY <1>1, <1>4 DEF Node
<1>6. /\ node' \in [Keys -> Node \cup {None}]
      /\ node'[k] = [last |-> node[k].last + ms, excess |-> debt]
      /\ \A j \in Keys \ {k} : node'[j] = node[j]
  BY <1>0, <1>3, <1>5
<1>7. TypeOK'
  BY <1>2, <1>3, <1>6 DEF IInv, TypeOK
<1>8. \A j \in Keys \ Waves : node'[j] # None => Bucket(j)'
  BY <1>3, <1>6 DEF IInv, Bucket
<1>9. \A j \in Keys : node'[j] # None => node'[j].last <= clock'
  BY <1>1, <1>6 DEF IInv
<1>10. DebtBound'
  BY <1>4, <1>6, RateAssumption DEF IInv, DebtBound, DebtLimit
<1> QED
  BY <1>7, <1>8, <1>9, <1>10 DEF IInv

(* Expiry and eviction leave the nodes that stay as they are. *)
LEMMA ExpireStep ==
    ASSUME IInv, NEW force \in BOOLEAN, NEW now, rate_expire(force, now),
           clock' = clock, job' # NoJob,
           job' \in [pc : {"expire", "evict", "alloc", "retry"}, key : Keys,
                     excess : {0, Cost}, now : Nat, n : Nat],
           job'.now <= clock, job'.key \notin Waves => job'.excess = 0
    PROVE  IInv'
<1>1. /\ node' \in [Keys -> Node \cup {None}] /\ lru' \in Seq(Keys) /\ bytes' \in Nat
      /\ hist' \in [Keys -> [adm : Nat, born : Nat, all : Nat, first : Nat]]
      /\ \A k \in Keys : node'[k] # None => node'[k] = node[k] /\ hist'[k] = hist[k]
  BY ExpireKeeps DEF IInv
<1>2. TypeOK'
  BY <1>1, Zenon DEF IInv, TypeOK
<1>3. \A k \in Keys \ Waves : node'[k] # None => Bucket(k)'
  BY <1>1, Zenon DEF IInv, Bucket
<1>4. \A k \in Keys : node'[k] # None => node'[k].last <= clock'
  BY <1>1, Zenon DEF IInv
<1>5. DebtBound'
  BY <1>1, RateAssumption, Zenon DEF IInv, DebtBound, DebtLimit
<1> QED
  BY <1>2, <1>3, <1>4, <1>5 DEF IInv

(* A new counter begins with its first request let through. *)
LEMMA InsertStep ==
    ASSUME IInv, job # NoJob, Inserted, clock' = clock
    PROVE  IInv'
<1>0. PICK k \in Keys : k = job.key
  BY DEF IInv, TypeOK
<1>1. /\ k \in Keys /\ job.now \in Nat /\ job.now <= clock
      /\ job.excess \in {0, Cost} /\ (k \notin Waves => job.excess = 0)
  BY <1>0 DEF IInv, TypeOK
<1>2. /\ node' = [node EXCEPT ![k] = [last |-> job.now, excess |-> job.excess]]
      /\ lru' = <<k>> \o lru
      /\ bytes' = bytes + Charge[k]
      /\ hist' = [hist EXCEPT ![k] =
                    [adm |-> 1, born |-> job.now, all |-> @.all + 1,
                     first |-> IF @.all = 0 THEN job.now ELSE @.first]]
      /\ job' = NoJob
  BY <1>0 DEF Inserted
<1>3. /\ node \in [Keys -> Node \cup {None}]
      /\ hist \in [Keys -> [adm : Nat, born : Nat, all : Nat, first : Nat]]
      /\ lru \in Seq(Keys) /\ bytes \in Nat /\ clock \in Nat
  BY Zenon DEF IInv, TypeOK
<1>4. [last |-> job.now, excess |-> job.excess] \in Node
  BY <1>1, RateAssumption DEF Node
<1>5. /\ node' \in [Keys -> Node \cup {None}]
      /\ node'[k] = [last |-> job.now, excess |-> job.excess]
      /\ \A j \in Keys \ {k} : node'[j] = node[j]
  BY <1>1, <1>2, <1>3, <1>4
<1>6. /\ hist'[k].adm = 1 /\ hist'[k].born = job.now
      /\ \A j \in Keys \ {k} : hist'[j] = hist[j]
      /\ hist' \in [Keys -> [adm : Nat, born : Nat, all : Nat, first : Nat]]
  BY <1>1, <1>2, <1>3
<1>7. lru' \in Seq(Keys)
  BY <1>1, <1>2, <1>3
<1>8. bytes' \in Nat
  BY <1>1, <1>2, <1>3, RateAssumption
<1>9. TypeOK'
  BY <1>2, <1>3, <1>5, <1>6, <1>7, <1>8, Zenon DEF TypeOK
<1>10. k \notin Waves => Bucket(k)'
  <2>1. Cost \in Nat /\ Second \in Nat /\ Rate[k] \in Nat /\ Burst[k] \in Nat
    BY <1>1, RateAssumption
  <2>2. Second * (Cost * (1 - 1)) = 0 /\ Second * 0 = 0 /\ Rate[k] * (job.now - job.now) = 0
    BY <1>1, <2>1
  <2> QED
    BY <1>1, <1>5, <1>6, <2>1, <2>2 DEF Bucket
<1>11. \A j \in Keys \ Waves : node'[j] # None => Bucket(j)'
  BY <1>5, <1>6, <1>10 DEF IInv, Bucket
<1>12. \A j \in Keys : node'[j] # None => node'[j].last <= clock'
  BY <1>1, <1>5 DEF IInv
<1>13. DebtBound'
  BY <1>1, <1>5, RateAssumption DEF IInv, DebtBound, DebtLimit
<1> QED
  BY <1>2, <1>9, <1>11, <1>12, <1>13, Zenon DEF IInv


-----------------------------------------------------------------------------
(* Every call of rate_check and rate_charge_wave, every step of an         *)
(* insertion and the clock keep the inductive invariant.                   *)
LEMMA NextIInv == IInv /\ [Next]_vars => IInv'
<1> SUFFICES ASSUME IInv, [Next]_vars PROVE IInv'
  OBVIOUS
<1>0. \A now \in Nows : now \in Nat /\ now <= clock
  <2>1. clock \in Nat /\ clock >= Lag /\ Lag \in Nat
    BY RateAssumption DEF IInv, TypeOK
  <2> QED
    BY <2>1 DEF Nows
<1>1. ASSUME NEW k \in Keys, NEW now \in Nows, rate_check(k, now)
      PROVE  IInv'
  <2>1. CASE k \in Waves
    <3>1. lru' \in Seq(Keys)
      BY <1>1, <2>1, UsedType DEF rate_check, rate_peek, IInv, TypeOK
    <3> QED
      BY <1>1, <2>1, <3>1, Zenon DEF rate_check, rate_peek, IInv, TypeOK, Bucket, DebtBound,
         DebtLimit
  <2>2. CASE k \notin Waves /\ node[k] = None
    <3>1. now \in Nat /\ now <= clock
      BY <1>0
    <3>2. /\ job' = [pc |-> "expire", key |-> k, excess |-> 0, now |-> now, n |-> 0]
          /\ UNCHANGED <<clock, node, lru, bytes, hist>>
      BY <1>1, <2>2, Zenon DEF rate_check, rate_insert
    <3>3. TypeOK'
      BY <3>1, <3>2 DEF IInv, TypeOK
    <3> QED
      BY <3>1, <3>2, <3>3, Zenon DEF IInv, Bucket, DebtBound, DebtLimit
  <2>3. CASE k \notin Waves /\ node[k] # None
    BY <1>1, <2>3, GateStep DEF rate_check
  <2> QED
    BY <2>1, <2>2, <2>3
<1>2. ASSUME NEW k \in Keys, NEW now \in Nows, rate_charge_wave(k, now)
      PROVE  IInv'
  <2>1. CASE node[k] = None
    <3>1. now \in Nat /\ now <= clock
      BY <1>0
    <3>2. /\ job' = [pc |-> "expire", key |-> k, excess |-> Cost, now |-> now, n |-> 0]
          /\ UNCHANGED <<clock, node, lru, bytes, hist>> /\ k \in Waves
      BY <1>2, <2>1 DEF rate_charge_wave, rate_insert
    <3>3. TypeOK'
      BY <3>1, <3>2 DEF IInv, TypeOK
    <3> QED
      BY <3>1, <3>2, <3>3, Zenon DEF IInv, Bucket, DebtBound, DebtLimit
  <2>2. CASE node[k] # None
    BY <1>2, <2>2, DebtStep DEF rate_charge_wave
  <2> QED
    BY <2>1, <2>2
<1>3. CASE InsertExpire
  <2>1. job # NoJob /\ job' = [job EXCEPT !.pc = "evict"]
    BY <1>3 DEF InsertExpire, Step, NoJob
  <2> QED
    BY <1>3, <2>1, ExpireStep, Zenon DEF InsertExpire, IInv, TypeOK, NoJob
<1>4. CASE InsertEvict
  <2>1. job # NoJob
    BY <1>4 DEF InsertEvict, NoJob
  <2>2. CASE rate_expire(TRUE, job.now) /\ job' = [job EXCEPT !.n = @ + 1]
    <3>1. /\ job \in [pc : {"expire", "evict", "alloc", "retry"}, key : Keys,
                      excess : {0, Cost}, now : Nat, n : Nat]
          /\ job.now <= clock /\ (job.key \notin Waves => job.excess = 0)
          /\ job.pc = "evict" /\ clock' = clock
      BY <1>4, <2>1 DEF InsertEvict, IInv, TypeOK
    <3>2. /\ job' \in [pc : {"expire", "evict", "alloc", "retry"}, key : Keys,
                       excess : {0, Cost}, now : Nat, n : Nat]
          /\ job'.now = job.now /\ job'.key = job.key /\ job'.excess = job.excess
          /\ job'.pc = "evict"
      BY <2>2, <3>1
    <3>3. job' # NoJob
      BY <3>2 DEF NoJob
    <3> QED
      BY <2>2, <3>1, <3>2, <3>3, ExpireStep, Zenon
  <2>3. CASE job' = [job EXCEPT !.pc = "alloc"] /\ UNCHANGED <<node, lru, bytes, hist>>
    BY <1>4, <2>1, <2>3, Zenon DEF InsertEvict, IInv, TypeOK, NoJob, Bucket, DebtBound,
       DebtLimit
  <2> QED
    BY <1>4, <2>2, <2>3, Zenon DEF InsertEvict, Step
<1>5. ASSUME job' = NoJob, UNCHANGED <<clock, node, lru, bytes, hist>>
      PROVE  IInv'
  BY <1>5, Zenon DEF IInv, TypeOK, Bucket, DebtBound, DebtLimit
<1>6. CASE InsertAlloc
  <2>1. job # NoJob
    BY <1>6 DEF InsertAlloc, NoJob
  <2>2. CASE Inserted
    BY <1>6, <2>1, <2>2, InsertStep DEF InsertAlloc
  <2>3. CASE rate_expire(TRUE, job.now) /\ job' = [job EXCEPT !.pc = "retry"]
    BY <1>6, <2>1, <2>3, ExpireStep, Zenon DEF InsertAlloc, IInv, TypeOK, NoJob
  <2>4. CASE NotInserted
    BY <1>5, <1>6, <2>4 DEF InsertAlloc, NotInserted
  <2> QED
    BY <1>6, <2>2, <2>3, <2>4, Zenon DEF InsertAlloc, Step
<1>7. CASE InsertRetry
  <2>1. job # NoJob
    BY <1>7 DEF InsertRetry, NoJob
  <2>2. CASE Inserted
    BY <1>7, <2>1, <2>2, InsertStep DEF InsertRetry
  <2>3. CASE NotInserted
    BY <1>5, <1>7, <2>3 DEF InsertRetry, NotInserted
  <2> QED
    BY <1>7, <2>2, <2>3 DEF InsertRetry
<1>8. CASE Tick
  <2>1. clock \in Nat /\ clock' = clock + 1 /\ Lag \in Nat
    BY <1>8, RateAssumption DEF Tick, IInv, TypeOK
  <2>2. UNCHANGED <<node, lru, bytes, job, hist>> /\ job = NoJob
    BY <1>8 DEF Tick
  <2>3. TypeOK'
    BY <2>1, <2>2 DEF IInv, TypeOK
  <2>4. clock' >= Lag
    BY <2>1 DEF IInv
  <2>5. \A k \in Keys : node'[k] # None => node'[k].last <= clock'
    <3> SUFFICES ASSUME NEW k \in Keys, node[k] # None PROVE node[k].last <= clock'
      BY <2>2
    <3>1. node[k].last \in Nat /\ node[k].last <= clock
      BY DEF IInv, TypeOK, Node
    <3> QED
      BY <2>1, <3>1
  <2>6. \A k \in Keys \ Waves : node'[k] # None => Bucket(k)'
    BY <2>2 DEF IInv, Bucket
  <2>7. DebtBound'
    BY <2>2 DEF IInv, DebtBound, DebtLimit
  <2> QED
    BY <2>2, <2>3, <2>4, <2>5, <2>6, <2>7 DEF IInv
<1>9. CASE UNCHANGED vars
  BY <1>9 DEF vars, IInv, TypeOK, Bucket, DebtBound, DebtLimit
<1> QED
  BY <1>1, <1>2, <1>3, <1>4, <1>6, <1>7, <1>8, <1>9 DEF Next

(* What is let through is what the invariant balances, and last is past. *)
LEMMA IInvRateBound == IInv => RateBound
<1> SUFFICES ASSUME IInv, NEW k \in Keys \ Waves, node[k] # None
             PROVE  Second * (Cost * (hist[k].adm - 1))
                      <= Second * Burst[k] + Rate[k] * (clock - hist[k].born)
  BY DEF RateBound
<1>1. Bucket(k) /\ node[k] \in Node /\ node[k].last <= clock /\ clock \in Nat
  BY DEF IInv, TypeOK
<1>2. /\ node[k].last \in Nat /\ node[k].excess \in Nat
      /\ hist[k].adm \in Nat /\ hist[k].born \in Nat
  BY <1>1 DEF IInv, TypeOK, Node
<1>3. Second \in Nat /\ Cost \in Nat /\ Rate[k] \in Nat /\ Burst[k] \in Nat
  BY RateAssumption
<1>4. Second * node[k].excess <= Second * Burst[k]
  BY <1>1, <1>2, <1>3, Monotone DEF Bucket
<1>5. Rate[k] * (node[k].last - hist[k].born) <= Rate[k] * (clock - hist[k].born)
  BY <1>1, <1>2, <1>3, Monotone
<1> DEFINE p == Second * (Cost * (hist[k].adm - 1))
           q == Second * node[k].excess
           r == Second * Burst[k]
           s == Rate[k] * (node[k].last - hist[k].born)
           t == Rate[k] * (clock - hist[k].born)
<1>6. p \in Int /\ q \in Int /\ r \in Int /\ s \in Int /\ t \in Int
  BY <1>1, <1>2, <1>3
<1>7. p <= q + s
  BY <1>1 DEF Bucket
<1> HIDE DEF p, q, r, s, t
<1>8. q <= r /\ s <= t
  BY <1>4, <1>5 DEF q, r, s, t
<1>9. p <= r + t
  BY <1>6, <1>7, <1>8
<1> QED
  BY <1>9 DEF p, r, t

(* Every reachable state of the counters satisfies the inductive invariant. *)
THEOREM Inductive == Spec => []IInv
BY InitIInv, NextIInv, PTL DEF Spec

(* The types of the counters: no bucket goes below zero, the room taken is *)
(* never negative.                                                         *)
THEOREM RateTypes == Spec => []TypeOK
<1>1. IInv => TypeOK
  BY DEF IInv
<1> QED
  BY <1>1, Inductive, PTL

(* A counter lets through what its burst and rate allow: any number of     *)
(* workers, any lateness of their clocks up to Lag, any rate and burst.    *)
THEOREM RateIsBounded == Spec => []RateBound
BY Inductive, IInvRateBound, PTL

(* The debt of a counter of waves is bounded, however many waves are       *)
(* charged at once.                                                        *)
THEOREM DebtIsBounded == Spec => []DebtBound
<1>1. IInv => DebtBound
  BY DEF IInv
<1> QED
  BY <1>1, Inductive, PTL

-----------------------------------------------------------------------------
(* The room of the counters.                                               *)

(* t has the sums of the room that the first nodes of the queue take. *)
Sums(queue, t) ==
    /\ t \in [0 .. Len(queue) -> Nat] /\ t[0] = 0
    /\ \A i \in 1 .. Len(queue) : t[i] = t[i - 1] + Charge[queue[i]]

(* The queue has the key of every node once. *)
Queued ==
    /\ \A k \in Keys : node[k] # None <=> \E i \in 1 .. Len(lru) : lru[i] = k
    /\ \A i, j \in 1 .. Len(lru) : lru[i] = lru[j] => i = j

(* rate_bytes is the sum, within the limit. *)
Summed == \E t : Sums(lru, t) /\ bytes = t[Len(lru)]

(* What every step keeps: an insertion is of a key without a node, and one *)
(* that tries the slab again has made no room it did not have.             *)
RoomInv ==
    /\ Queued /\ Summed /\ bytes <= RateMax
    /\ job # NoJob => node[job.key] = None
    /\ job # NoJob /\ job.pc = "retry" => Fits(job.key)

(* Two queues in one. *)
LEMMA Joined ==
    ASSUME NEW a \in Seq(Keys), NEW b \in Seq(Keys)
    PROVE  /\ a \o b \in Seq(Keys) /\ Len(a \o b) = Len(a) + Len(b)
           /\ \A m \in 1 .. Len(a) + Len(b) :
                (a \o b)[m] = IF m <= Len(a) THEN a[m] ELSE b[m - Len(a)]
<1>1. a \o b \in Seq(Keys)
  OBVIOUS
<1>2. Len(a \o b) = Len(a) + Len(b)
  OBVIOUS
<1>3. \A m \in 1 .. Len(a) + Len(b) :
        (a \o b)[m] = IF m <= Len(a) THEN a[m] ELSE b[m - Len(a)]
  OBVIOUS
<1> QED BY <1>1, <1>2, <1>3

(* Elements of a queue whose node i was moved to its head. *)
LEMMA UsedQueue ==
    ASSUME lru \in Seq(Keys), NEW k \in Keys, Used(k)
    PROVE  \E i \in 1 .. Len(lru) :
             /\ lru[i] = k
             /\ lru' \in Seq(Keys) /\ Len(lru') = Len(lru) /\ lru'[1] = k
             /\ \A m \in 2 .. i : lru'[m] = lru[m - 1]
             /\ \A m \in i + 1 .. Len(lru) : lru'[m] = lru[m]
<1>0. DOMAIN lru = 1 .. Len(lru) /\ Len(lru) \in Nat
  OBVIOUS
<1>1. PICK i \in 1 .. Len(lru) :
        /\ lru[i] = k
        /\ lru' = <<k>> \o SubSeq(lru, 1, i - 1) \o SubSeq(lru, i + 1, Len(lru))
  BY <1>0, Zenon DEF Used
<1>2. PICK u : u = SubSeq(lru, 1, i - 1)
  BY Zenon
<1>3. PICK v : v = SubSeq(lru, i + 1, Len(lru))
  BY Zenon
<1>4. /\ u \in Seq(Keys) /\ Len(u) = i - 1 /\ \A m \in 1 .. i - 1 : u[m] = lru[m]
  BY <1>1, <1>2
<1>5. /\ v \in Seq(Keys) /\ Len(v) = Len(lru) - i
      /\ \A m \in 1 .. Len(lru) - i : v[m] = lru[m + i]
  BY <1>1, <1>3
<1>6. PICK h : h = <<k>> \o u
  BY Zenon
<1>7. h \in Seq(Keys) /\ Len(h) = i /\ h[1] = k /\ \A m \in 2 .. i : h[m] = u[m - 1]
  BY <1>1, <1>4, <1>6
<1>8. lru' = h \o v
  BY <1>1, <1>2, <1>3, <1>6
<1>9. /\ lru' \in Seq(Keys) /\ Len(lru') = Len(lru)
      /\ \A m \in 1 .. i : lru'[m] = h[m]
      /\ \A m \in i + 1 .. Len(lru) : lru'[m] = v[m - i]
  <2>1. lru' \in Seq(Keys) /\ Len(lru') = Len(h) + Len(v)
    BY <1>5, <1>7, <1>8, Joined, Zenon
  <2>2. Len(lru') = Len(lru)
    BY <1>0, <1>5, <1>7, <2>1
  <2>3. \A m \in 1 .. Len(h) + Len(v) :
          lru'[m] = IF m <= Len(h) THEN h[m] ELSE v[m - Len(h)]
    BY <1>5, <1>7, <1>8, Joined, Zenon
  <2>4. Len(h) = i /\ Len(h) + Len(v) = Len(lru) /\ i \in 1 .. Len(lru)
    BY <1>0, <1>5, <1>7
  <2>5. \A m \in 1 .. i : m \in 1 .. Len(lru) /\ m <= i
    BY <1>0, <2>4
  <2>6. \A m \in i + 1 .. Len(lru) : m \in 1 .. Len(lru) /\ ~(m <= i)
    BY <1>0, <2>4
  <2>7. /\ \A m \in 1 .. i : lru'[m] = h[m]
        /\ \A m \in i + 1 .. Len(lru) : lru'[m] = v[m - i]
    BY <2>3, <2>4, <2>5, <2>6, Zenon
  <2> QED BY <2>1, <2>2, <2>7
<1>10. \A m \in 2 .. i : lru'[m] = lru[m - 1]
  <2>1. \A m \in 2 .. i : m \in 1 .. i /\ m - 1 \in 1 .. i - 1
    BY <1>0
  <2> QED BY <1>4, <1>7, <1>9, <2>1, Zenon
<1>11. \A m \in i + 1 .. Len(lru) : lru'[m] = lru[m]
  <2>1. \A m \in i + 1 .. Len(lru) : m - i \in 1 .. Len(lru) - i /\ (m - i) + i = m
    BY <1>0
  <2> QED BY <1>5, <1>9, <2>1, Zenon
<1>12. lru'[1] = k
  <2>1. 1 \in 1 .. i
    BY <1>0
  <2> QED BY <1>7, <1>9, <2>1, Zenon
<1> QED BY <1>1, <1>9, <1>10, <1>11, <1>12, Zenon

(* A node that is used moves in the queue and takes the room it took. *)
LEMMA UsedRoom ==
    ASSUME lru \in Seq(Keys), NEW k \in Keys, Used(k), bytes' = bytes,
           Queued, Summed, \A x \in Keys : node'[x] # None <=> node[x] # None
    PROVE  Queued' /\ Summed'
<1>1. PICK i \in 1 .. Len(lru) :
        /\ lru[i] = k
        /\ lru' \in Seq(Keys) /\ Len(lru') = Len(lru) /\ lru'[1] = k
        /\ \A m \in 2 .. i : lru'[m] = lru[m - 1]
        /\ \A m \in i + 1 .. Len(lru) : lru'[m] = lru[m]
  BY UsedQueue, Zenon
<1>2. Len(lru) \in Nat
  OBVIOUS
<1>3. PICK at : at = [m \in 1 .. Len(lru) |->
                        IF m = 1 THEN i ELSE IF m <= i THEN m - 1 ELSE m]
  BY Zenon
<1>4. \A m \in 1 .. Len(lru) : at[m] \in 1 .. Len(lru) /\ lru'[m] = lru[at[m]]
  BY <1>1, <1>2, <1>3
<1>5. \A m, n \in 1 .. Len(lru) : at[m] = at[n] => m = n
  BY <1>1, <1>2, <1>3
<1>6. \A j \in 1 .. Len(lru) : \E m \in 1 .. Len(lru) : at[m] = j
  <2>1. TAKE j \in 1 .. Len(lru)
  <2>2. CASE j = i
    BY <1>1, <1>2, <1>3, <2>2
  <2>3. CASE j < i
    <3>1. j + 1 \in 1 .. Len(lru) /\ at[j + 1] = j
      BY <1>1, <1>2, <1>3, <2>3
    <3> QED BY <3>1
  <2>4. CASE j > i
    BY <1>1, <1>2, <1>3, <2>4
  <2> QED BY <1>1, <2>2, <2>3, <2>4
<1>7. Queued'
  <2>1. \A x \in Keys : (\E m \in 1 .. Len(lru) : lru'[m] = x)
                        <=> (\E m \in 1 .. Len(lru) : lru[m] = x)
    <3>1. TAKE x \in Keys
    <3>2. ASSUME NEW m \in 1 .. Len(lru), lru'[m] = x
          PROVE  \E j \in 1 .. Len(lru) : lru[j] = x
      <4>1. at[m] \in 1 .. Len(lru) /\ lru[at[m]] = x
        BY <1>4, <3>2, Zenon
      <4> QED BY <4>1, Zenon
    <3>3. ASSUME NEW j \in 1 .. Len(lru), lru[j] = x
          PROVE  \E m \in 1 .. Len(lru) : lru'[m] = x
      <4>1. PICK m \in 1 .. Len(lru) : at[m] = j
        BY <1>6, Zenon
      <4>2. lru'[m] = x
        BY <1>4, <3>3, <4>1, Zenon
      <4> QED BY <4>2, Zenon
    <3> QED BY <3>2, <3>3, Zenon
  <2>2. ASSUME NEW m \in 1 .. Len(lru), NEW n \in 1 .. Len(lru), lru'[m] = lru'[n]
        PROVE  m = n
    <3>1. lru[at[m]] = lru[at[n]] /\ at[m] \in 1 .. Len(lru) /\ at[n] \in 1 .. Len(lru)
      BY <1>4, <2>2, Zenon
    <3>2. at[m] = at[n]
      BY <3>1, Zenon DEF Queued
    <3> QED BY <1>5, <3>2, Zenon
  <2> QED BY <1>1, <2>1, <2>2, Zenon DEF Queued
<1>8. PICK t : Sums(lru, t) /\ bytes = t[Len(lru)]
  BY DEF Summed
<1>9. Charge[k] \in Nat /\ \A x \in 1 .. Len(lru) : Charge[lru[x]] \in Nat
  <2>1. \A x \in 1 .. Len(lru) : lru[x] \in Keys
    OBVIOUS
  <2> QED BY <2>1, RateAssumption
<1>10. PICK u : u = [m \in 0 .. Len(lru) |->
                       IF m = 0 THEN 0 ELSE IF m <= i THEN t[m - 1] + Charge[k] ELSE t[m]]
  BY Zenon
<1>12. t[i] = t[i - 1] + Charge[k] /\ t[0] = 0 /\ t \in [0 .. Len(lru) -> Nat]
  BY <1>1, <1>8 DEF Sums
<1>11. u \in [0 .. Len(lru) -> Nat] /\ u[0] = 0
  <2>1. ASSUME NEW m \in 0 .. Len(lru)
        PROVE  (IF m = 0 THEN 0 ELSE IF m <= i THEN t[m - 1] + Charge[k] ELSE t[m]) \in Nat
    <3>1. t[m] \in Nat /\ (m # 0 => m - 1 \in 0 .. Len(lru))
      BY <1>2, <1>12
    <3>2. m # 0 => t[m - 1] \in Nat
      BY <1>12, <3>1, Zenon
    <3>3. m # 0 => t[m - 1] + Charge[k] \in Nat
      BY <1>9, <3>2
    <3> QED BY <3>1, <3>3
  <2> QED BY <1>2, <1>10, <2>1
<1>13. ASSUME NEW m \in 1 .. Len(lru)
       PROVE  u[m] = u[m - 1] + Charge[lru'[m]]
  <2>1. CASE m = 1
    <3>1. u[1] = t[0] + Charge[k] /\ u[0] = 0 /\ 1 - 1 = 0
      BY <1>1, <1>2, <1>10
    <3> QED BY <1>1, <1>9, <1>12, <2>1, <3>1
  <2>2. CASE m > 1 /\ m <= i
    <3>1. u[m] = t[m - 1] + Charge[k] /\ u[m - 1] = t[(m - 1) - 1] + Charge[k]
      BY <1>1, <1>2, <1>10, <2>2
    <3>2. m - 1 \in 1 .. Len(lru) /\ lru'[m] = lru[m - 1]
      BY <1>1, <1>2, <2>2
    <3>3. t[m - 1] = t[(m - 1) - 1] + Charge[lru[m - 1]]
      <4>1. \A x \in 1 .. Len(lru) : t[x] = t[x - 1] + Charge[lru[x]]
        BY <1>8, Zenon DEF Sums
      <4> QED BY <3>2, <4>1, Zenon
    <3>4. t[(m - 1) - 1] \in Nat
      <4>1. (m - 1) - 1 \in 0 .. Len(lru)
        BY <1>2, <3>2
      <4> QED BY <1>12, <4>1, Zenon
    <3>5. Charge[lru[m - 1]] \in Nat
      BY <1>9, <3>2, Zenon
    <3> QED BY <1>9, <3>1, <3>2, <3>3, <3>4, <3>5
  <2>3. CASE m > i
    <3>1. /\ u[m] = t[m] /\ lru'[m] = lru[m] /\ t[m] = t[m - 1] + Charge[lru[m]]
      BY <1>1, <1>2, <1>8, <1>10, <2>3 DEF Sums
    <3>2. CASE m - 1 = i
      <4>1. u[m - 1] = t[i - 1] + Charge[k]
        BY <1>1, <1>2, <1>10, <3>2
      <4> QED BY <1>12, <3>1, <3>2, <4>1
    <3>3. CASE m - 1 # i
      <4>1. u[m - 1] = t[m - 1]
        BY <1>1, <1>2, <1>10, <2>3, <3>3
      <4> QED BY <3>1, <4>1
    <3> QED BY <3>2, <3>3
  <2> QED BY <1>1, <2>1, <2>2, <2>3
<1>14. u[Len(lru)] = t[Len(lru)]
  BY <1>1, <1>2, <1>10, <1>12
<1>15. Sums(lru', u)
  BY <1>1, <1>11, <1>13 DEF Sums
<1>16. Summed'
  BY <1>1, <1>8, <1>14, <1>15 DEF Summed
<1> QED BY <1>7, <1>16

(* A new node comes first in the queue. *)
LEMMA InsertRoom ==
    ASSUME IInv, RoomInv, job # NoJob, Inserted, Fits(job.key)
    PROVE  Queued' /\ Summed' /\ bytes' <= RateMax
<1>1. PICK k \in Keys : k = job.key /\ node[k] = None
  BY DEF IInv, TypeOK, RoomInv
<1>2. /\ \E x \in Node : node' = [node EXCEPT ![k] = x]
      /\ lru' = <<k>> \o lru /\ bytes' = bytes + Charge[k]
  <2>1. [last |-> job.now, excess |-> job.excess] \in Node
    <3>1. job.now \in Nat /\ job.excess \in {0, Cost}
      BY Zenon DEF IInv, TypeOK
    <3> QED BY <3>1, RateAssumption DEF Node
  <2> QED BY <1>1, <2>1, Zenon DEF Inserted
<1>3. lru \in Seq(Keys) /\ Len(lru) \in Nat /\ bytes \in Nat /\ Charge[k] \in Nat
  BY RateAssumption DEF IInv, TypeOK
<1>4. PICK one : one = <<k>>
  BY Zenon
<1>5. one \in Seq(Keys) /\ Len(one) = 1 /\ one[1] = k
  BY <1>4
<1>6. /\ Len(lru') = 1 + Len(lru)
      /\ \A m \in 1 .. 1 + Len(lru) : lru'[m] = IF m <= 1 THEN one[m] ELSE lru[m - 1]
  BY <1>2, <1>3, <1>4, <1>5, Joined, ZenonT(40)
<1>7. /\ lru'[1] = k
      /\ \A m \in 1 .. Len(lru) : m + 1 \in 1 .. 1 + Len(lru) /\ lru'[m + 1] = lru[m]
      /\ \A m \in 1 .. 1 + Len(lru) : m # 1 => m - 1 \in 1 .. Len(lru) /\ lru'[m] = lru[m - 1]
  BY <1>3, <1>5, <1>6
<1>8. \A x \in Keys : node'[x] # None <=> x = k \/ node[x] # None
  <2>1. \A x \in Node : x # None
    BY DEF Node, None
  <2> QED BY <1>1, <1>2, <2>1, Zenon DEF IInv, TypeOK
<1>9. \A m \in 1 .. Len(lru) : lru[m] # k
  BY <1>1, Zenon DEF RoomInv, Queued
<1>10. Queued'
  <2>1. ASSUME NEW x \in Keys
        PROVE  node'[x] # None <=> \E m \in 1 .. Len(lru') : lru'[m] = x
    <3>1. CASE x = k
      BY <1>3, <1>6, <1>7, <1>8, <3>1
    <3>2. CASE x # k
      <4>1. node'[x] # None <=> \E m \in 1 .. Len(lru) : lru[m] = x
        BY <1>8, <3>2, Zenon DEF RoomInv, Queued
      <4>2. ASSUME NEW m \in 1 .. Len(lru), lru[m] = x
            PROVE  \E j \in 1 .. Len(lru') : lru'[j] = x
        BY <1>6, <1>7, <4>2, Zenon
      <4>3. ASSUME NEW m \in 1 .. Len(lru'), lru'[m] = x
            PROVE  \E j \in 1 .. Len(lru) : lru[j] = x
        BY <1>6, <1>7, <3>2, <4>3, Zenon
      <4> QED BY <4>1, <4>2, <4>3, Zenon
    <3> QED BY <3>1, <3>2
  <2>2. ASSUME NEW i \in 1 .. Len(lru'), NEW j \in 1 .. Len(lru'), lru'[i] = lru'[j]
        PROVE  i = j
    <3>0. ASSUME NEW m \in 1 .. Len(lru'), m # 1 PROVE lru'[m] # k
      <4>1. m \in 1 .. 1 + Len(lru)
        BY <1>6
      <4>2. m - 1 \in 1 .. Len(lru) /\ lru'[m] = lru[m - 1]
        BY <1>7, <3>0, <4>1, Zenon
      <4> QED BY <1>9, <4>2, Zenon
    <3>1. CASE i = 1 \/ j = 1
      BY <1>7, <2>2, <3>0, <3>1
    <3>2. CASE i # 1 /\ j # 1
      <4>1. i - 1 = j - 1
        <5>1. /\ i - 1 \in 1 .. Len(lru) /\ lru'[i] = lru[i - 1]
              /\ j - 1 \in 1 .. Len(lru) /\ lru'[j] = lru[j - 1]
          BY <1>6, <1>7, <3>2, Zenon
        <5>2. \A x, y \in 1 .. Len(lru) : lru[x] = lru[y] => x = y
          BY Zenon DEF RoomInv, Queued
        <5> QED BY <2>2, <5>1, <5>2, Zenon
      <4> QED BY <1>3, <1>6, <4>1
    <3> QED BY <3>1, <3>2
  <2> QED BY <2>1, <2>2, Zenon DEF Queued
<1>11. PICK t : Sums(lru, t) /\ bytes = t[Len(lru)]
  BY DEF RoomInv, Summed
<1>12. t \in [0 .. Len(lru) -> Nat] /\ t[0] = 0
       /\ \A i \in 1 .. Len(lru) : t[i] = t[i - 1] + Charge[lru[i]]
  BY <1>11 DEF Sums
<1>13. PICK u : u = [m \in 0 .. 1 + Len(lru) |-> IF m = 0 THEN 0 ELSE t[m - 1] + Charge[k]]
  BY Zenon
<1>14. u \in [0 .. 1 + Len(lru) -> Nat] /\ u[0] = 0
  <2>1. ASSUME NEW m \in 0 .. 1 + Len(lru)
        PROVE  (IF m = 0 THEN 0 ELSE t[m - 1] + Charge[k]) \in Nat
    <3>1. m # 0 => m - 1 \in 0 .. Len(lru)
      BY <1>3
    <3>2. m # 0 => t[m - 1] \in Nat
      BY <1>12, <3>1, Zenon
    <3> QED BY <1>3, <3>2
  <2> QED BY <1>3, <1>13, <2>1
<1>15. ASSUME NEW m \in 1 .. 1 + Len(lru)
       PROVE  u[m] = u[m - 1] + Charge[lru'[m]]
  <2>1. CASE m = 1
    BY <1>3, <1>7, <1>12, <1>13, <2>1
  <2>2. CASE m # 1
    <3>1. m - 1 \in 1 .. Len(lru) /\ lru'[m] = lru[m - 1] /\ m - 1 # 0 /\ m # 0
      BY <1>3, <1>7, <2>2
    <3>2. u[m] = t[m - 1] + Charge[k] /\ u[m - 1] = t[(m - 1) - 1] + Charge[k]
      BY <1>3, <1>13, <3>1
    <3>3. t[m - 1] = t[(m - 1) - 1] + Charge[lru[m - 1]]
      BY <1>12, <3>1, Zenon
    <3>4. t[(m - 1) - 1] \in Nat /\ Charge[lru[m - 1]] \in Nat
      <4>1. (m - 1) - 1 \in 0 .. Len(lru) /\ lru[m - 1] \in Keys
        BY <1>3, <3>1
      <4> QED BY <1>12, <4>1, RateAssumption, Zenon
    <3> QED BY <1>3, <3>1, <3>2, <3>3, <3>4
  <2> QED BY <2>1, <2>2
<1>16. u[Len(lru')] = bytes'
  BY <1>2, <1>3, <1>6, <1>11, <1>13
<1>17. Sums(lru', u)
  BY <1>6, <1>14, <1>15, Zenon DEF Sums
<1>18. Summed'
  BY <1>16, <1>17 DEF Summed
<1>19. bytes' <= RateMax
  BY <1>1, <1>2 DEF Fits
<1> QED BY <1>10, <1>18, <1>19

(* Expiry and eviction take nodes from the end of the queue. *)
LEMMA ExpireRoom ==
    ASSUME TypeOK, Queued, Summed, NEW force \in BOOLEAN, NEW now, rate_expire(force, now)
    PROVE  Queued' /\ Summed' /\ \A k \in Keys : node[k] = None => node'[k] = None
<1>1. PICK n : n = expire_count(force, now)
  BY Zenon
<1>2. PICK L : L = Len(lru)
  BY Zenon
<1>3. n \in {0, 1, 2} /\ n <= L /\ L \in Nat /\ lru \in Seq(Keys) /\ L - n \in Nat
  <2>1. n \in {0, 1, 2} /\ n <= L /\ L \in Nat /\ lru \in Seq(Keys)
    BY <1>1, <1>2, ExpireCount, Zenon DEF TypeOK
  <2> QED BY <2>1
<1>4. /\ node' = [k \in Keys |-> IF k \in {Oldest(m) : m \in 1..n} THEN None ELSE node[k]]
      /\ lru' = SubSeq(lru, 1, L - n)
      /\ bytes' = IF n = 0 THEN bytes
                  ELSE IF n = 1 THEN rate_free_bytes(bytes, Oldest(1))
                  ELSE rate_free_bytes(rate_free_bytes(bytes, Oldest(1)), Oldest(2))
  BY <1>1, <1>2, Zenon DEF rate_expire
<1>5. Len(lru') = L - n /\ \A i \in 1 .. L - n : i \in 1 .. L /\ lru'[i] = lru[i]
  BY <1>2, <1>3, <1>4
<1>6. /\ \A m \in 1 .. n : (L + 1) - m \in 1 .. L /\ (L + 1) - m \notin 1 .. L - n
      /\ \A i \in 1 .. L : i \notin 1 .. L - n => \E m \in 1 .. n : i = (L + 1) - m
  <2>1. \A m \in 1 .. n : (L + 1) - m \in 1 .. L /\ (L + 1) - m \notin 1 .. L - n
    BY <1>3
  <2>2. ASSUME NEW i \in 1 .. L, i \notin 1 .. L - n
        PROVE  \E m \in 1 .. n : i = (L + 1) - m
    <3>1. (L + 1) - i \in 1 .. n /\ i = (L + 1) - ((L + 1) - i)
      BY <1>3, <2>2
    <3> QED BY <3>1
  <2> QED BY <2>1, <2>2
<1>7. \A k \in Keys : k \in {Oldest(m) : m \in 1..n}
                      <=> \E i \in 1 .. L : i \notin 1 .. L - n /\ lru[i] = k
  <2>1. {Oldest(m) : m \in 1..n} = {lru[(L + 1) - m] : m \in 1..n}
    BY <1>2 DEF Oldest
  <2> QED BY <1>6, <2>1, Zenon
<1>8. \A k \in Keys : node'[k] # None <=> node[k] # None /\ k \notin {Oldest(m) : m \in 1..n}
  BY <1>4, Zenon
<1>9. /\ \A k \in Keys : node[k] # None <=> \E i \in 1 .. L : lru[i] = k
      /\ \A i, j \in 1 .. L : lru[i] = lru[j] => i = j
  BY <1>2, Zenon DEF Queued
<1>10. ASSUME NEW k \in Keys
       PROVE  node'[k] # None <=> \E i \in 1 .. L - n : lru'[i] = k
  <2>1. ASSUME node'[k] # None PROVE \E i \in 1 .. L - n : lru'[i] = k
    <3>1. node[k] # None /\ k \notin {Oldest(m) : m \in 1..n}
      BY <1>8, <2>1, Zenon
    <3>2. PICK i \in 1 .. L : lru[i] = k
      BY <1>9, <3>1, Zenon
    <3>3. i \in 1 .. L - n
      BY <1>7, <3>1, <3>2, Zenon
    <3> QED BY <1>5, <3>2, <3>3, Zenon
  <2>2. ASSUME NEW i \in 1 .. L - n, lru'[i] = k PROVE node'[k] # None
    <3>1. i \in 1 .. L /\ lru[i] = k
      BY <1>5, <2>2, Zenon
    <3>2. \A j \in 1 .. L : lru[j] = k => j = i
      BY <1>9, <3>1, Zenon
    <3>3. k \notin {Oldest(m) : m \in 1..n}
      BY <1>7, <3>2, <2>2, Zenon
    <3> QED BY <1>8, <1>9, <3>1, <3>3, Zenon
  <2> QED BY <2>1, <2>2, Zenon
<1>11. Queued'
  <2>1. ASSUME NEW i \in 1 .. L - n, NEW j \in 1 .. L - n, lru'[i] = lru'[j]
        PROVE  i = j
    BY <1>5, <1>9, <2>1, Zenon
  <2> QED BY <1>5, <1>10, <2>1, Zenon DEF Queued
<1>12. PICK t : Sums(lru, t) /\ bytes = t[L]
  BY <1>2, Zenon DEF Summed
<1>13. /\ t \in [0 .. L -> Nat] /\ t[0] = 0
       /\ \A i \in 1 .. L : t[i] = t[i - 1] + Charge[lru[i]]
  BY <1>2, <1>12, Zenon DEF Sums
<1>14. PICK u : u = [i \in 0 .. L - n |-> t[i]]
  BY Zenon
<1>15. \A i \in 0 .. L - n : i \in 0 .. L /\ u[i] = t[i]
  BY <1>3, <1>14
<1>16. Sums(lru', u)
  <2>1. u \in [0 .. L - n -> Nat] /\ u[0] = 0
    BY <1>3, <1>13, <1>14, <1>15
  <2>2. ASSUME NEW i \in 1 .. L - n PROVE u[i] = u[i - 1] + Charge[lru'[i]]
    <3>1. i \in 1 .. L /\ i \in 0 .. L - n /\ i - 1 \in 0 .. L - n
      BY <1>3
    <3> QED BY <1>5, <1>13, <1>15, <3>1, Zenon
  <2> QED BY <1>5, <2>1, <2>2, Zenon DEF Sums
<1>17. ASSUME NEW i \in 1 .. L
       PROVE  rate_free_bytes(t[i], lru[i]) = t[i - 1]
  <2>1. t[i - 1] \in Nat /\ Charge[lru[i]] \in Nat /\ t[i] = t[i - 1] + Charge[lru[i]]
    <3>1. i - 1 \in 0 .. L /\ lru[i] \in Keys
      BY <1>2, <1>3
    <3> QED BY <1>13, <3>1, RateAssumption, Zenon
  <2> QED BY <2>1 DEF rate_free_bytes
<1>18. bytes' = t[L - n]
  <2>1. CASE n = 0
    BY <1>3, <1>4, <1>12, <2>1
  <2>2. CASE n = 1
    <3>1. L \in 1 .. L /\ Oldest(1) = lru[L] /\ L - n = L - 1 /\ n # 0
      BY <1>2, <1>3, <2>2 DEF Oldest
    <3> QED BY <1>4, <1>12, <1>17, <2>2, <3>1, Zenon
  <2>3. CASE n = 2
    <3>1. /\ L \in 1 .. L /\ L - 1 \in 1 .. L /\ Oldest(1) = lru[L] /\ Oldest(2) = lru[L - 1]
          /\ L - n = (L - 1) - 1 /\ n # 0 /\ n # 1
      BY <1>2, <1>3, <2>3 DEF Oldest
    <3> QED BY <1>4, <1>12, <1>17, <3>1, Zenon
  <2> QED BY <1>3, <2>1, <2>2, <2>3
<1>19. Summed'
  <2>1. u[Len(lru')] = bytes'
    BY <1>3, <1>5, <1>15, <1>18
  <2> QED BY <1>16, <2>1 DEF Summed
<1> QED BY <1>8, <1>11, <1>19, Zenon

(* The calls that insert nothing keep the room. *)
LEMMA CallRoom ==
    ASSUME IInv, RoomInv, job = NoJob, NEW k \in Keys, node[k] # None, NEW now \in Nows,
           rate_peek(k, now) \/ rate_gate(k, now) \/ rate_debt(k, now),
           UNCHANGED <<bytes, job>>
    PROVE  RoomInv'
<1>1. lru \in Seq(Keys) /\ Used(k)
  BY DEF IInv, TypeOK, rate_peek, rate_gate, rate_debt
<1>2. \/ node' = node
      \/ \E v : Counted(k, now, v)
  BY Zenon DEF rate_peek, rate_gate, rate_debt
<1>3. ASSUME NEW x \in Keys PROVE node'[x] # None <=> node[x] # None
  <2>1. CASE node' = node
    BY <2>1
  <2>2. ASSUME NEW v, Counted(k, now, v) PROVE node'[x] # None <=> node[x] # None
    <3>1. CASE x # k
      BY <2>2, <3>1, Zenon DEF Counted, IInv, TypeOK
    <3>2. CASE x = k
      <4>1. PICK l : node'[k] = [last |-> l, excess |-> v]
                     /\ l = IF rate_elapsed(now, node[k].last) # 0 THEN now ELSE node[k].last
        BY <2>2, Zenon DEF Counted, IInv, TypeOK
      <4>2. node[k].last \in Nat /\ now \in Int /\ (rate_elapsed(now, node[k].last) # 0 => now # -1)
        <5>1. node[k].last \in Nat /\ clock \in Nat /\ clock >= Lag /\ Lag \in Nat
          BY RateAssumption DEF IInv, TypeOK, Node
        <5>2. now \in Nat
          BY <5>1, NowsNat, Zenon
        <5> QED BY <5>1, <5>2
      <4>3. l # -1
        BY <4>1, <4>2
      <4> QED BY <3>2, <4>1, <4>3 DEF None
    <3> QED BY <3>1, <3>2
  <2> QED BY <1>2, <2>1, <2>2
<1>4. Queued' /\ Summed'
  BY <1>1, <1>3, UsedRoom, Zenon DEF RoomInv
<1> QED BY <1>4, Zenon DEF RoomInv, NoJob

(* Expiry within an insertion keeps the room and the key without a node. *)
LEMMA ExpireJob ==
    ASSUME IInv, RoomInv, job # NoJob, NEW force \in BOOLEAN, rate_expire(force, job.now),
           job'.key = job.key, job'.pc = "retry" => Fits(job.key)
    PROVE  RoomInv'
<1>1. Queued' /\ Summed' /\ \A k \in Keys : node[k] = None => node'[k] = None
  BY ExpireRoom, Zenon DEF IInv, RoomInv
<1>2. bytes' \in Nat /\ bytes' <= bytes /\ bytes \in Nat
  BY ExpireKeeps, Zenon DEF IInv, TypeOK
<1>3. job.key \in Keys
  BY DEF IInv, TypeOK
<1>4. node'[job'.key] = None
  BY <1>1, <1>3 DEF RoomInv
<1>5. bytes' <= RateMax
  BY <1>2, RateAssumption DEF RoomInv
<1>6. Fits(job.key) => Fits(job.key)'
  BY <1>2, <1>3, RateAssumption DEF Fits
<1> QED BY <1>1, <1>4, <1>5, <1>6, Zenon DEF RoomInv

(* A step of an insertion that touches no node. *)
LEMMA JobRoom ==
    ASSUME RoomInv, UNCHANGED <<node, lru, bytes>>,
           \/ job' = NoJob
           \/ node[job'.key] = None /\ job'.pc # "retry"
    PROVE  RoomInv'
<1>1. Queued'
  BY DEF RoomInv, Queued
<1>2. Summed'
  BY DEF RoomInv, Summed
<1> QED BY <1>1, <1>2 DEF RoomInv

(* Every step keeps the room of the counters. *)
LEMMA StepRoom == IInv /\ RoomInv /\ [Next]_vars => RoomInv'
<1> SUFFICES ASSUME IInv, RoomInv, [Next]_vars PROVE RoomInv'
  OBVIOUS
<1>1. ASSUME NEW k \in Keys, NEW now \in Nows, rate_check(k, now) PROVE RoomInv'
  <2>1. CASE node[k] = None
    <3>1. job' = [pc |-> "expire", key |-> k, excess |-> 0, now |-> now, n |-> 0]
          /\ UNCHANGED <<node, lru, bytes>>
      BY <1>1, <2>1, Zenon DEF rate_check, rate_insert
    <3> QED BY <2>1, <3>1, JobRoom
  <2>2. CASE node[k] # None
    BY <1>1, <2>2, CallRoom, Zenon DEF rate_check
  <2> QED BY <2>1, <2>2
<1>2. ASSUME NEW k \in Keys, NEW now \in Nows, rate_charge_wave(k, now) PROVE RoomInv'
  <2>1. CASE node[k] = None
    <3>1. job' = [pc |-> "expire", key |-> k, excess |-> Cost, now |-> now, n |-> 0]
          /\ UNCHANGED <<node, lru, bytes>>
      BY <1>2, <2>1 DEF rate_charge_wave, rate_insert
    <3> QED BY <2>1, <3>1, JobRoom
  <2>2. CASE node[k] # None
    BY <1>2, <2>2, CallRoom DEF rate_charge_wave
  <2> QED BY <2>1, <2>2
<1>3. ASSUME job.pc # "idle" PROVE job # NoJob /\ node[job.key] = None
  BY <1>3 DEF NoJob, RoomInv
<1>4. ASSUME NEW pc, job.pc # "idle", Step(pc)
      PROVE  job'.key = job.key /\ job'.pc = pc
  <2>1. job \in [pc : {"expire", "evict", "alloc", "retry"}, key : Keys,
                 excess : {0, Cost}, now : Nat, n : Nat]
    BY <1>3, <1>4 DEF IInv, TypeOK
  <2> QED BY <1>4, <2>1 DEF Step
<1>5. CASE InsertExpire
  <2>1. job.pc = "expire" /\ rate_expire(FALSE, job.now) /\ Step("evict")
    BY <1>5, Zenon DEF InsertExpire
  <2>2. job # NoJob /\ job'.key = job.key /\ job'.pc = "evict"
    BY <1>3, <1>4, <2>1
  <2> QED BY <2>1, <2>2, ExpireJob, Zenon
<1>6. CASE InsertEvict
  <2>1. job.pc = "evict" /\ job # NoJob /\ node[job.key] = None
    BY <1>3, <1>6 DEF InsertEvict
  <2>2. CASE rate_expire(TRUE, job.now) /\ job' = [job EXCEPT !.n = @ + 1]
    <3>1. job'.key = job.key /\ job'.pc = "evict"
      BY <2>1, <2>2 DEF IInv, TypeOK
    <3> QED BY <2>1, <2>2, <3>1, ExpireJob, Zenon
  <2>3. CASE Step("alloc") /\ UNCHANGED <<node, lru, bytes, hist>>
    BY <1>4, <2>1, <2>3, JobRoom
  <2> QED BY <1>6, <2>2, <2>3, Zenon DEF InsertEvict
<1>7. CASE InsertAlloc \/ InsertRetry
  <2>1. job.pc # "idle" /\ job # NoJob
    BY <1>3, <1>7, Zenon DEF InsertAlloc, InsertRetry
  <2>2. CASE NotInserted
    BY <2>2, JobRoom, Zenon DEF NotInserted
  <2>3. CASE Fits(job.key) /\ Inserted
    <3>1. Queued' /\ Summed' /\ bytes' <= RateMax
      BY <2>1, <2>3, InsertRoom
    <3>2. job' = NoJob
      BY <2>3, Zenon DEF Inserted
    <3> QED BY <3>1, <3>2 DEF RoomInv
  <2>4. CASE Fits(job.key) /\ rate_expire(TRUE, job.now) /\ Step("retry")
    BY <1>4, <2>1, <2>4, ExpireJob, Zenon
  <2>5. InsertRetry => Fits(job.key)
    BY <2>1 DEF InsertRetry, RoomInv
  <2> QED BY <1>7, <2>2, <2>3, <2>4, <2>5, Zenon DEF InsertAlloc, InsertRetry
<1>8. CASE Tick \/ UNCHANGED vars
  <2>1. UNCHANGED <<node, lru, bytes, job>>
    BY <1>8 DEF Tick, vars
  <2>2. Queued' /\ Summed'
    BY <2>1, Zenon DEF RoomInv, Queued, Summed
  <2>3. Fits(job.key)' <=> Fits(job.key)
    BY <2>1 DEF Fits
  <2> QED BY <2>1, <2>2, <2>3, Zenon DEF RoomInv
<1> QED BY <1>1, <1>2, <1>5, <1>6, <1>7, <1>8 DEF Next

(* A set of naturals that is not empty has a least element. *)
LEMMA LeastNat ==
    ASSUME NEW T \in SUBSET Nat, T # {}
    PROVE  \E x \in T : \A y \in T : x <= y
<1>1. IsWellFoundedOn(OpToRel(<, Nat), Nat)
  BY NatLessThanWellFounded
<1>2. PICK R : R = {ss \in Nat \X Nat : ss[1] < ss[2]}
  BY Zenon
<1>3. IsWellFoundedOn(R, Nat)
  BY <1>1, <1>2 DEF OpToRel
<1>4. PICK x \in T : \A y \in T : ~(<<y, x>> \in R)
  BY <1>3, WFMin, Zenon
<1>5. \A y \in T : <<y, x>> \in Nat \X Nat /\ <<y, x>>[1] = y /\ <<y, x>>[2] = x
  OBVIOUS
<1>6. \A y \in T : ~(y < x)
  BY <1>2, <1>4, <1>5, Zenon
<1> QED BY <1>6

(* Room is the last of the sums. *)
LEMMA RoomIsSum ==
    ASSUME NEW queue \in Seq(Keys), NEW t, Sums(queue, t)
    PROVE  Room(queue) = t[Len(queue)]
<1>1. /\ Len(queue) \in Nat /\ t \in [0 .. Len(queue) -> Nat] /\ t[0] = 0
      /\ \A i \in 1 .. Len(queue) : t[i] = t[i - 1] + Charge[queue[i]]
  BY DEF Sums
<1>2. \A i \in 0 .. Len(queue) : i # 0 => i \in 1 .. Len(queue)
  BY <1>1
<1>3. t = [i \in 0 .. Len(queue) |-> IF i = 0 THEN 0 ELSE t[i - 1] + Charge[queue[i]]]
  BY <1>1, <1>2
<1>4. PICK f : f = CHOOSE g : g = [i \in 0 .. Len(queue) |->
                                     IF i = 0 THEN 0 ELSE g[i - 1] + Charge[queue[i]]]
  BY Zenon
<1>5. Room(queue) = f[Len(queue)]
  BY <1>4, Zenon DEF Room
<1>6. f = [i \in 0 .. Len(queue) |-> IF i = 0 THEN 0 ELSE f[i - 1] + Charge[queue[i]]]
  BY <1>3, <1>4, Zenon
<1>7. \A i \in 0 .. Len(queue) : f[i] = IF i = 0 THEN 0 ELSE f[i - 1] + Charge[queue[i]]
  BY <1>6, Zenon
<1>8. PICK T : T = {i \in 0 .. Len(queue) : f[i] # t[i]}
  BY Zenon
<1>9. ASSUME T # {} PROVE FALSE
  <2>0. T \in SUBSET Nat
    BY <1>1, <1>8
  <2>1. PICK x \in T : \A y \in T : x <= y
    BY <1>9, <2>0, LeastNat, Zenon
  <2>2. x \in 0 .. Len(queue) /\ f[x] # t[x]
    BY <1>8, <2>1
  <2>3. f[0] = 0
    BY <1>1, <1>7
  <2>4. x # 0
    BY <1>1, <2>2, <2>3, Zenon
  <2>5. x - 1 \in 0 .. Len(queue) /\ x - 1 \notin T
    BY <1>1, <2>1, <2>2, <2>4
  <2>6. f[x - 1] = t[x - 1]
    BY <1>8, <2>5
  <2> QED BY <1>1, <1>2, <1>7, <2>2, <2>4, <2>6, Zenon
<1>10. Len(queue) \in 0 .. Len(queue)
  BY <1>1
<1>11. f[Len(queue)] = t[Len(queue)]
  BY <1>8, <1>9, <1>10
<1> QED BY <1>5, <1>11

(* The queue holds every node once and rate_bytes is the room they take,   *)
(* within the limit, for any sizes of the nodes, any number of evictions   *)
(* and any failures of the slab.                                           *)
THEOREM RoomIsExact == Spec => []RoomExact
<1>1. Init => RoomInv
  <2>1. SUFFICES ASSUME Init PROVE RoomInv
    OBVIOUS
  <2>2. lru = <<>> /\ Len(lru) = 0 /\ bytes = 0 /\ \A k \in Keys : node[k] = None
    BY <2>1 DEF Init
  <2>3. PICK t : t = [i \in 0 .. 0 |-> 0]
    BY Zenon
  <2>4. Sums(lru, t) /\ t[Len(lru)] = 0
    BY <2>2, <2>3 DEF Sums
  <2>5. Queued /\ Summed
    BY <2>2, <2>4 DEF Queued, Summed
  <2> QED BY <2>1, <2>2, <2>5, RateAssumption DEF Init, RoomInv
<1>2. IInv /\ RoomInv => RoomExact
  <2>1. SUFFICES ASSUME IInv, RoomInv PROVE RoomExact
    OBVIOUS
  <2>2. lru \in Seq(Keys) /\ DOMAIN lru = 1 .. Len(lru) /\ \A i \in 1 .. Len(lru) : lru[i] \in Keys
    BY <2>1 DEF IInv, TypeOK
  <2>3. {lru[i] : i \in DOMAIN lru} = {k \in Keys : node[k] # None}
    BY <2>1, <2>2 DEF RoomInv, Queued
  <2>4. \A i, j \in DOMAIN lru : lru[i] = lru[j] => i = j
    BY <2>1, <2>2, Zenon DEF RoomInv, Queued
  <2>5. bytes = Room(lru)
    BY <2>1, <2>2, RoomIsSum DEF RoomInv, Summed
  <2> QED BY <2>1, <2>3, <2>4, <2>5 DEF RoomExact, RoomInv
<1>3. IInv /\ RoomInv /\ [Next]_vars => RoomInv'
  BY StepRoom
<1> QED BY <1>1, <1>2, <1>3, Inductive, PTL DEF Spec
=============================================================================
