------------------------- MODULE DatasetSyncProofs -------------------------
(***************************************************************************)
(* What DatasetSync guarantees for any workers, networks, contents, limits *)
(* and tree order: lookups are exact, loads leave no holes, and as long as *)
(* the overlay has room for every network the mirror implements            *)
(* DatasetMirror.                                                          *)
(*                                                                         *)
(* The inductive invariant IInv says what the hash and the counts of the   *)
(* overlay stand for, which versions the keeper has, that at most one      *)
(* worker loads, and how far its load has come.                            *)
(***************************************************************************)
EXTENDS DatasetSync, TLAPS

SlotFields == {"epoch", "seq", "live", "hash", "lens", "syncing", "snap_bad", "claimed"}
StreamFields == {"state", "timer", "op", "want"}
CtxFields == {"slot", "st", "link", "job", "store", "ok"}
JobFields == {"kind", "v", "left", "pass", "inline", "cursor"}

(* No network finds the overlay full. *)
Roomy == Cardinality(Keys) <= LiveMax

Counts(D) == [b \in 0..Width |-> Cardinality({k \in D : k[1] = b})]

(* What the steps need to know of numbers and finite sets.  It holds whatever *)
(* the constants are (Counted): the lemmas before that one assume it.         *)
Counting ==
    /\ \A T \in SUBSET Nat : T # {} => \E x \in T : \A y \in T : x <= y
    /\ \A S, x : IsFiniteSet(S) /\ x \notin S =>
         /\ Cardinality(S) \in Nat /\ IsFiniteSet(S \cup {x})
         /\ Cardinality(S \cup {x}) = Cardinality(S) + 1
    /\ \A S \in SUBSET Keys :
         Cardinality(S) \in Nat /\ (Roomy /\ S # Keys => Cardinality(S) < LiveMax)
    /\ \A D \in SUBSET Keys : \A k \in Keys :
         /\ k \in D => Counts(D \ {k}) = [Counts(D) EXCEPT ![k[1]] = @ - 1]
         /\ k \notin D => Counts(D \cup {k}) = [Counts(D) EXCEPT ![k[1]] = @ + 1]

(* The hash is made of the nodes' hashes, a count of the nodes' lengths. *)
Overlay(s) ==
    /\ DOMAIN s = SlotFields /\ DOMAIN s.live \subseteq Keys
    /\ \A k \in DOMAIN s.live :
         DOMAIN s.live[k] = {"h", "fresh", "exp"} /\ \A p \in s.live[k].h : p[2] = k
    /\ s.hash = UNION {s.live[k].h : k \in DOMAIN s.live}
    /\ s.lens = Counts(DOMAIN s.live)

(* The versions of the keeper, up to the current one. *)
History ==
    /\ IsFiniteSet(DOMAIN hist) /\ Cardinality(DOMAIN hist) <= Len(Contents)
    /\ now \in DOMAIN hist /\ now[2] < Cardinality(DOMAIN hist)
    /\ \A v \in DOMAIN hist :
         /\ v \in (1..MaxEpoch) \X Nat
         /\ v[1] < now[1] \/ (v[1] = now[1] /\ v[2] <= now[2])
         /\ DOMAIN hist[v] \subseteq Keys

(* What the slot's version has. *)
Held(s) == IF s.epoch = 0 THEN {} ELSE DOMAIN hist[<<s.epoch, s.seq>>]

(* The slot between two loads. *)
Settled(s) ==
    /\ (s.epoch = 0 /\ s.seq = 0) \/ <<s.epoch, s.seq>> \in DOMAIN hist
    /\ Roomy /\ ~s.syncing /\ ~s.snap_bad => Mirrored(s) = Held(s)

(* A package is applied: a network with a record left is as in the version *)
(* before, every other one as in the version of the package.               *)
InPackage(s, j) ==
    /\ j.v = <<s.epoch, s.seq + 1>> /\ <<s.epoch, s.seq>> \in DOMAIN hist
    /\ j.left \subseteq PackageOf(j.v)
    /\ Roomy /\ ~s.snap_bad =>
         \A k \in Keys : k \in Mirrored(s) <=>
            k \in DOMAIN hist[IF \E r \in j.left : r.key = k THEN <<s.epoch, s.seq>> ELSE j.v]

(* A snapshot is applied: what it keeps is marked before the sweep. *)
InSnapshot(s, j) ==
    /\ j.v[1] = s.epoch => j.v[2] >= s.seq
    /\ j.left \subseteq SnapshotOf(j.v)
    /\ j.pass = "mark" =>
         \A k \in DOMAIN s.live \cap DOMAIN hist[j.v] :
            s.live[k].fresh \/ \E r \in j.left : r.key = k
    /\ j.pass = "sweep" =>
         /\ \A k \in DOMAIN s.live \cap DOMAIN hist[j.v] : s.live[k].fresh
         /\ j.cursor # 0 => j.cursor \in DOMAIN Order /\ Order[j.cursor] \in DOMAIN s.live
    /\ j.pass = "mark" => j.cursor = 0

Loading(s, j) ==
    /\ DOMAIN j = JobFields /\ j.v \in DOMAIN hist /\ s.syncing
    /\ \/ j.kind = "package" /\ InPackage(s, j)
       \/ j.kind = "snapshot" /\ InSnapshot(s, j)

(* A read of the store has a purpose. *)
Purposeful(t) ==
    /\ DOMAIN t = StreamFields
    /\ t.state = "fetch" =>
         t.op[1] = "package" \/ (t.op[1] = "snapshot" /\ t.op[2] \in DOMAIN hist)

Workings(s, ts, js) ==
    /\ Overlay(s) /\ Settled(s)
    /\ DOMAIN ts = Workers /\ DOMAIN js = Workers
    /\ \A w \in Workers :
         /\ Purposeful(ts[w])
         /\ js[w] = NoJob \/ Loading(s, js[w])
    /\ \A w, u \in Workers : w # u => js[w] = NoJob \/ js[u] = NoJob

IInv == History /\ Workings(slot, st, job)

-----------------------------------------------------------------------------
(* The overlay.                                                             *)

(* What an operation on the overlay leaves alone. *)
Beside(s, t) ==
    /\ DOMAIN t = SlotFields
    /\ t.epoch = s.epoch /\ t.seq = s.seq /\ t.syncing = s.syncing
    /\ t.snap_bad = s.snap_bad /\ t.claimed = s.claimed

(* What the configuration says of the first version and of the order of   *)
(* the tree.                                                               *)
LEMMA Configured ==
    /\ MaxEpoch \in Nat \ {0} /\ 1 \in 1..MaxEpoch
    /\ Len(Order) \in Nat /\ DOMAIN Order = 1 .. Len(Order)
    /\ Len(Contents) \in Nat /\ 1 <= Len(Contents) /\ DOMAIN Contents[1] \subseteq Keys
<1>1. MaxEpoch \in Nat \ {0} /\ 1 \in 1..MaxEpoch
  BY SyncAssumption
<1>2. Len(Order) \in Nat /\ DOMAIN Order = 1 .. Len(Order)
  BY SyncAssumption
<1>3. Len(Contents) \in Nat /\ 1 <= Len(Contents) /\ 1 \in DOMAIN Contents
  BY SyncAssumption
<1> QED BY <1>1, <1>2, <1>3, SyncAssumption, Zenon

(* live_delete takes out one node and what it adds to the hash. *)
LEMMA DeleteStep ==
    ASSUME Counting, NEW s, Overlay(s), NEW k \in DOMAIN s.live, NEW t, t = live_delete(s, k)
    PROVE  /\ Overlay(t) /\ Beside(s, t)
           /\ t.live = [x \in DOMAIN s.live \ {k} |-> s.live[x]]
<1>1. DOMAIN s = SlotFields /\ k \in Keys /\ DOMAIN s.live \subseteq Keys
  BY DEF Overlay
<1>2. t = [s EXCEPT !.live = [x \in DOMAIN s.live \ {k} |-> s.live[x]],
                    !.hash = Xor(s.hash, s.live[k].h), !.lens[k[1]] = @ - 1]
  BY DEF live_delete
<1>3. {"live", "hash", "lens"} \subseteq DOMAIN s
  BY <1>1 DEF SlotFields
<1>4. /\ t.live = [x \in DOMAIN s.live \ {k} |-> s.live[x]]
      /\ t.hash = Xor(s.hash, s.live[k].h)
      /\ t.lens = [s.lens EXCEPT ![k[1]] = @ - 1]
  BY <1>2, <1>3, Zenon
<1>5. Beside(s, t)
  BY <1>1, <1>2, Zenon DEF Beside, SlotFields
<1>6. t.lens = Counts(DOMAIN t.live)
  <2>1. Counts(DOMAIN s.live \ {k}) = [Counts(DOMAIN s.live) EXCEPT ![k[1]] = @ - 1]
    <3>1. DOMAIN s.live \in SUBSET Keys /\ k \in Keys /\ k \in DOMAIN s.live
      BY <1>1, Zenon
    <3> QED BY <3>1, Zenon DEF Counting
  <2>2. DOMAIN t.live = DOMAIN s.live \ {k} /\ s.lens = Counts(DOMAIN s.live)
    BY <1>4 DEF Overlay
  <2> QED BY <1>4, <2>1, <2>2, Zenon
<1>7. t.hash = UNION {t.live[x].h : x \in DOMAIN t.live}
  BY <1>4 DEF Overlay, Xor
<1>8. DOMAIN t.live \subseteq Keys /\ DOMAIN t = SlotFields
  BY <1>1, <1>4, <1>5 DEF Beside
<1>9. \A x \in DOMAIN t.live : t.live[x] = s.live[x] /\ x \in DOMAIN s.live
  BY <1>4
<1>10. \A x \in DOMAIN t.live :
         DOMAIN t.live[x] = {"h", "fresh", "exp"} /\ \A p \in t.live[x].h : p[2] = x
  BY <1>9, Zenon DEF Overlay
<1>11. Overlay(t)
  BY <1>6, <1>7, <1>8, <1>10, Zenon DEF Overlay
<1> QED BY <1>4, <1>5, <1>11

(* live_put enters or renews the node of k, unless the overlay is full; without a *)
(* hash it leaves the one of the node.                                            *)
Entered(s, t, k, h) ==
    /\ DOMAIN t.live = DOMAIN s.live \cup {k}
    /\ \A x \in DOMAIN s.live \ {k} : t.live[x] = s.live[x]
    /\ t.live[k].fresh
    /\ t.live[k].h = IF h # {} THEN h ELSE IF k \in DOMAIN s.live THEN s.live[k].h ELSE {}

LEMMA PutStep ==
    ASSUME Counting, NEW s, Overlay(s), NEW k \in Keys, NEW e, NEW h, \A p \in h : p[2] = k,
           NEW t, t = live_put(s, k, e, h)
    PROVE  /\ Overlay(t) /\ Beside(s, t)
           /\ Entered(s, t, k, h) \/ (t = s /\ k \notin DOMAIN s.live /\ ~Roomy)
<1>1. DOMAIN s = SlotFields /\ DOMAIN s.live \subseteq Keys
  BY DEF Overlay
<1>2. {"live", "hash", "lens"} \subseteq DOMAIN s
  BY <1>1 DEF SlotFields
<1>3. CASE k \in DOMAIN s.live
  <2>1. PICK x : /\ t = [s EXCEPT !.live[k] = [h |-> IF h # {} THEN h ELSE s.live[k].h,
                                        fresh |-> TRUE, exp |-> x],
                           !.hash = IF h # {} THEN Xor(@, Xor(s.live[k].h, h)) ELSE @]
    BY <1>3, Zenon DEF live_put
  <2>2. PICK n : n = [h |-> IF h # {} THEN h ELSE s.live[k].h, fresh |-> TRUE, exp |-> x]
    BY Zenon
  <2>3. /\ t.live = [s.live EXCEPT ![k] = n]
        /\ t.hash = IF h # {} THEN Xor(s.hash, Xor(s.live[k].h, h)) ELSE s.hash
        /\ t.lens = s.lens
    BY <1>1, <1>2, <2>1, <2>2, Zenon DEF SlotFields
  <2>4. Beside(s, t)
    BY <1>1, <2>1, Zenon DEF Beside, SlotFields
  <2>5. DOMAIN n = {"h", "fresh", "exp"} /\ n.fresh
        /\ n.h = IF h # {} THEN h ELSE s.live[k].h
    BY <2>2
  <2>6. DOMAIN t.live = DOMAIN s.live /\ t.live[k] = n
        /\ \A y \in DOMAIN s.live \ {k} : t.live[y] = s.live[y]
    BY <1>3, <2>3
  <2>7. t.hash = UNION {t.live[y].h : y \in DOMAIN t.live}
    BY <1>3, <2>3, <2>5, <2>6 DEF Overlay, Xor
  <2>9. \A y \in DOMAIN t.live :
           DOMAIN t.live[y] = {"h", "fresh", "exp"} /\ \A p \in t.live[y].h : p[2] = y
    BY <1>3, <2>5, <2>6 DEF Overlay
  <2>10. t.lens = Counts(DOMAIN t.live) /\ DOMAIN t.live \subseteq Keys /\ DOMAIN t = SlotFields
    BY <1>1, <2>3, <2>4, <2>6 DEF Overlay, Beside
  <2>8. Overlay(t)
    BY <2>7, <2>9, <2>10, Zenon DEF Overlay
  <2> QED BY <1>3, <2>4, <2>5, <2>6, <2>8 DEF Entered
<1>4. CASE k \notin DOMAIN s.live /\ Cardinality(DOMAIN s.live) >= LiveMax
  <2>1. t = s
    BY <1>4 DEF live_put
  <2>2. ~Roomy
    <3>1. DOMAIN s.live # Keys
      BY <1>4
    <3>2. Cardinality(DOMAIN s.live) \in Nat /\ (Roomy => Cardinality(DOMAIN s.live) < LiveMax)
      BY <1>1, <3>1, Zenon DEF Counting
    <3> QED BY <1>4, <3>2, SyncAssumption
  <2> QED BY <1>1, <1>4, <2>1, <2>2 DEF Beside
<1>5. CASE k \notin DOMAIN s.live /\ ~(Cardinality(DOMAIN s.live) >= LiveMax)
  <2>1. t = [s EXCEPT !.live = [x \in DOMAIN @ \cup {k} |->
                                  IF x = k THEN [h |-> h, fresh |-> TRUE, exp |-> e] ELSE @[x]],
                      !.hash = Xor(@, h), !.lens[k[1]] = @ + 1]
    BY <1>5, Zenon DEF live_put
  <2>2. PICK n : n = [h |-> h, fresh |-> TRUE, exp |-> e]
    BY Zenon
  <2>3. /\ t.live = [x \in DOMAIN s.live \cup {k} |-> IF x = k THEN n ELSE s.live[x]]
        /\ t.hash = Xor(s.hash, h) /\ t.lens = [s.lens EXCEPT ![k[1]] = @ + 1]
    BY <1>2, <2>1, <2>2
  <2>4. Beside(s, t)
    BY <1>1, <2>1, Zenon DEF Beside, SlotFields
  <2>5. DOMAIN n = {"h", "fresh", "exp"} /\ n.fresh /\ n.h = h
    BY <2>2
  <2>6. DOMAIN t.live = DOMAIN s.live \cup {k} /\ t.live[k] = n
        /\ \A y \in DOMAIN s.live \ {k} : t.live[y] = s.live[y]
    BY <1>5, <2>3
  <2>7. t.hash = UNION {t.live[y].h : y \in DOMAIN t.live}
    BY <1>5, <2>3, <2>5, <2>6 DEF Overlay, Xor
  <2>9. t.lens = Counts(DOMAIN t.live)
    <3>1. Counts(DOMAIN s.live \cup {k}) = [Counts(DOMAIN s.live) EXCEPT ![k[1]] = @ + 1]
      <4>1. DOMAIN s.live \in SUBSET Keys /\ k \in Keys /\ k \notin DOMAIN s.live
        BY <1>1, <1>5, Zenon
      <4> QED BY <4>1, Zenon DEF Counting
    <3>2. s.lens = Counts(DOMAIN s.live)
      BY DEF Overlay
    <3> QED BY <2>3, <2>6, <3>1, <3>2, ZenonT(40)
  <2>10. \A y \in DOMAIN t.live :
           DOMAIN t.live[y] = {"h", "fresh", "exp"} /\ \A p \in t.live[y].h : p[2] = y
    BY <1>5, <2>5, <2>6 DEF Overlay
  <2>11. DOMAIN t.live \subseteq Keys /\ DOMAIN t = SlotFields
    BY <1>1, <2>4, <2>6 DEF Beside
  <2>8. Overlay(t)
    BY <2>7, <2>9, <2>10, <2>11, Zenon DEF Overlay
  <2> QED BY <1>5, <2>4, <2>5, <2>6, <2>8 DEF Entered
<1> QED BY <1>3, <1>4, <1>5

(* live_mark and live_begin change only which nodes are fresh. *)
Refreshed(s, t) ==
    /\ DOMAIN t.live = DOMAIN s.live
    /\ \A x \in DOMAIN s.live : t.live[x].h = s.live[x].h

LEMMA FreshOverlay ==
    ASSUME NEW s, Overlay(s), NEW t, Beside(s, t), Refreshed(s, t),
           t.hash = s.hash, t.lens = s.lens,
           \A x \in DOMAIN s.live : DOMAIN t.live[x] = DOMAIN s.live[x]
    PROVE  Overlay(t)
<1>1. t.hash = UNION {t.live[x].h : x \in DOMAIN t.live}
  BY DEF Overlay, Refreshed
<1>2. \A x \in DOMAIN t.live :
        DOMAIN t.live[x] = {"h", "fresh", "exp"} /\ \A p \in t.live[x].h : p[2] = x
  BY Zenon DEF Overlay, Refreshed
<1>3. t.lens = Counts(DOMAIN t.live) /\ DOMAIN t.live \subseteq Keys /\ DOMAIN t = SlotFields
  BY Zenon DEF Overlay, Refreshed, Beside
<1> QED BY <1>1, <1>2, <1>3, Zenon DEF Overlay

LEMMA MarkStep ==
    ASSUME NEW s, Overlay(s), NEW k, NEW t, t = live_mark(s, k)
    PROVE  /\ Overlay(t) /\ Beside(s, t) /\ Refreshed(s, t)
           /\ \A x \in DOMAIN s.live : x = k \/ s.live[x].fresh => t.live[x].fresh
<1>1. DOMAIN s = SlotFields /\ {"live", "hash", "lens"} \subseteq DOMAIN s
  BY DEF Overlay, SlotFields
<1>2. CASE k \in DOMAIN s.live
  <2>1. t = [s EXCEPT !.live[k].fresh = TRUE]
    BY <1>2 DEF live_mark
  <2>2. PICK n : n = [s.live[k] EXCEPT !.fresh = TRUE]
    BY Zenon
  <2>3. t.live = [s.live EXCEPT ![k] = n] /\ t.hash = s.hash /\ t.lens = s.lens
    BY <1>1, <2>1, <2>2, Zenon
  <2>4. Beside(s, t)
    BY <1>1, <2>1, Zenon DEF Beside, SlotFields
  <2>5. DOMAIN s.live[k] = {"h", "fresh", "exp"}
    BY <1>2 DEF Overlay
  <2>6. DOMAIN n = DOMAIN s.live[k] /\ n.h = s.live[k].h /\ n.fresh = TRUE
    BY <2>2, <2>5
  <2>7. DOMAIN t.live = DOMAIN s.live /\ t.live[k] = n
        /\ \A x \in DOMAIN s.live \ {k} : t.live[x] = s.live[x]
    BY <1>2, <2>3
  <2>8. Refreshed(s, t) /\ \A x \in DOMAIN s.live : DOMAIN t.live[x] = DOMAIN s.live[x]
    BY <2>6, <2>7, Zenon DEF Refreshed
  <2>9. Overlay(t)
    BY <2>3, <2>4, <2>8, FreshOverlay
  <2> QED BY <2>4, <2>6, <2>7, <2>8, <2>9, Zenon
<1>3. CASE k \notin DOMAIN s.live
  BY <1>1, <1>3, Zenon DEF live_mark, Beside, Refreshed
<1> QED BY <1>2, <1>3

LEMMA BeginStep ==
    ASSUME NEW s, Overlay(s), NEW t, t = live_begin(s)
    PROVE  Overlay(t) /\ Beside(s, t) /\ Refreshed(s, t)
<1>1. DOMAIN s = SlotFields /\ {"live", "hash", "lens"} \subseteq DOMAIN s
  BY DEF Overlay, SlotFields
<1>2. t = [s EXCEPT !.live = [k \in DOMAIN @ |-> [@[k] EXCEPT !.fresh = FALSE]]]
  BY DEF live_begin
<1>3. t.live = [k \in DOMAIN s.live |-> [s.live[k] EXCEPT !.fresh = FALSE]]
      /\ t.hash = s.hash /\ t.lens = s.lens
  BY <1>1, <1>2
<1>4. Beside(s, t)
  BY <1>1, <1>2 DEF Beside, SlotFields
<1>5. \A x \in DOMAIN s.live : t.live[x] = [s.live[x] EXCEPT !.fresh = FALSE]
      /\ DOMAIN s.live[x] = {"h", "fresh", "exp"}
  BY <1>3 DEF Overlay
<1>6. \A x \in DOMAIN s.live : t.live[x].h = s.live[x].h /\ DOMAIN t.live[x] = DOMAIN s.live[x]
  BY <1>5, Zenon
<1>7. Refreshed(s, t)
  BY <1>3, <1>6, Zenon DEF Refreshed
<1> QED BY <1>3, <1>4, <1>6, <1>7, FreshOverlay

(* Equal hashes mean that the overlay has the networks of the version. *)
LEMMA HashMirrored ==
    ASSUME NEW s, Overlay(s), NEW v, s.hash = HashOf(v)
    PROVE  Mirrored(s) = DOMAIN hist[v]
<1>1. ASSUME NEW k \in Mirrored(s) PROVE k \in DOMAIN hist[v]
  <2>1. PICK p : p \in s.live[k].h /\ k \in DOMAIN s.live
    BY <1>1 DEF Mirrored
  <2>2. p \in s.hash /\ p[2] = k
    BY <2>1 DEF Overlay
  <2> QED BY <2>2 DEF HashOf
<1>2. ASSUME NEW k \in DOMAIN hist[v] PROVE k \in Mirrored(s)
  <2>1. PICK p : p = <<v[1], k>>
    BY Zenon
  <2>2. p[2] = k /\ p \in s.hash
    BY <2>1 DEF HashOf
  <2>3. PICK x \in DOMAIN s.live : p \in s.live[x].h
    BY <2>2 DEF Overlay
  <2>4. x = k
    BY <2>2, <2>3 DEF Overlay
  <2> QED BY <2>3, <2>4 DEF Mirrored
<1> QED BY <1>1, <1>2

-----------------------------------------------------------------------------
(* The stream.  Its handlers leave the overlay, the version and the load     *)
(* alone; snap_bad is cleared only when the hash is that of the version.     *)

Context(c) == DOMAIN c = CtxFields /\ DOMAIN c.slot = SlotFields /\ Purposeful(c.st)

Touched(s, t) ==
    /\ DOMAIN t = SlotFields
    /\ t.epoch = s.epoch /\ t.seq = s.seq /\ t.syncing = s.syncing
    /\ t.live = s.live /\ t.hash = s.hash /\ t.lens = s.lens
    /\ \/ t.snap_bad = s.snap_bad
       \/ ~s.syncing /\ s.epoch # 0 /\ s.hash = HashOf(<<s.epoch, s.seq>>)

Kept(c, d) == Context(d) /\ d.job = c.job /\ Touched(c.slot, d.slot)

LEMMA KeptTwice ==
    ASSUME NEW c, NEW d, NEW e, Kept(c, d), Kept(d, e)
    PROVE  Kept(c, e)
BY Zenon DEF Kept, Touched

LEMMA TouchedSame ==
    ASSUME NEW s, DOMAIN s = SlotFields
    PROVE  Touched(s, s)
BY Zenon DEF Touched

(* Another stream of which the state is not fetch. *)
LEMMA KeptStream ==
    ASSUME NEW c, Context(c), NEW d, DOMAIN d = CtxFields,
           d.slot = c.slot, d.job = c.job, Purposeful(d.st)
    PROVE  Kept(c, d)
BY TouchedSame, Zenon DEF Kept, Context

LEMMA ResetKept ==
    ASSUME NEW c, Context(c)
    PROVE  Kept(c, reset(c)) /\ reset(c).link = c.link /\ reset(c).slot = c.slot
<1>1. PICK d : d = [c EXCEPT !.st.state = "idle", !.st.op = NoOp]
  OBVIOUS
<1>2. d = reset(c)
  BY <1>1 DEF reset
<1>3. DOMAIN c = CtxFields /\ DOMAIN c.st = StreamFields
  BY DEF Context, Purposeful
<1>4. /\ DOMAIN d = CtxFields /\ d.slot = c.slot /\ d.job = c.job /\ d.link = c.link
      /\ d.st = [c.st EXCEPT !.state = "idle", !.op = NoOp]
  BY <1>1, <1>3 DEF CtxFields
<1>5. Purposeful(d.st)
  BY <1>3, <1>4 DEF Purposeful, StreamFields
<1> QED BY <1>2, <1>4, <1>5, KeptStream

LEMMA WatchKept ==
    ASSUME NEW c, Context(c)
    PROVE  Kept(c, watch(c))
<1>1. PICK d : d = [c EXCEPT !.st.timer = TRUE]
  BY Zenon
<1>2. d = watch(c)
  BY <1>1 DEF watch
<1>3. DOMAIN c = CtxFields /\ DOMAIN c.st = StreamFields
  BY DEF Context, Purposeful
<1>4. /\ DOMAIN d = CtxFields /\ d.slot = c.slot /\ d.job = c.job /\ d.link = c.link
      /\ d.st = [c.st EXCEPT !.timer = TRUE]
  BY <1>1, <1>3 DEF CtxFields
<1>5. Purposeful(d.st)
  BY <1>3, <1>4 DEF Purposeful, StreamFields, Context
<1> QED BY <1>2, <1>4, <1>5, KeptStream

Turn(c, x) == [c EXCEPT !.st.state = x]

LEMMA TurnKept ==
    ASSUME NEW c, Context(c), NEW x, x # "fetch"
    PROVE  Kept(c, Turn(c, x)) /\ Turn(c, x).slot = c.slot
<1>1. PICK d : d = [c EXCEPT !.st.state = x]
  BY Zenon
<1>2. d = Turn(c, x)
  BY <1>1 DEF Turn
<1>3. DOMAIN c = CtxFields /\ DOMAIN c.st = StreamFields
  BY DEF Context, Purposeful
<1>4. /\ DOMAIN d = CtxFields /\ d.slot = c.slot /\ d.job = c.job
      /\ d.st = [c.st EXCEPT !.state = x]
  BY <1>1, <1>3 DEF CtxFields
<1>5. Purposeful(d.st)
  BY <1>3, <1>4 DEF Purposeful, StreamFields
<1> QED BY <1>2, <1>4, <1>5, KeptStream

LEMMA SettleKept ==
    ASSUME NEW c, Context(c)
    PROVE  Kept(c, settle(c))
<1>1. settle(c) = watch(Turn(c, "ready"))
  BY DEF settle, Turn
<1>2. Kept(c, Turn(c, "ready"))
  BY TurnKept
<1>3. Kept(Turn(c, "ready"), settle(c))
  BY <1>1, <1>2, WatchKept DEF Kept
<1> QED BY <1>2, <1>3, KeptTwice

LEMMA RequestKept ==
    ASSUME NEW c, Context(c)
    PROVE  Kept(c, request(c))
<1>1. PICK d : d = [c EXCEPT !.st.state = "snapshot", !.st.timer = TRUE, !.link = "asked", !.ok = TRUE]
  OBVIOUS
<1>2. d = request(c)
  BY <1>1 DEF request
<1>3. DOMAIN c = CtxFields /\ DOMAIN c.st = StreamFields
  BY DEF Context, Purposeful
<1>4. /\ DOMAIN d = CtxFields /\ d.slot = c.slot /\ d.job = c.job
      /\ d.st = [c.st EXCEPT !.state = "snapshot", !.timer = TRUE]
  BY <1>1, <1>3 DEF CtxFields
<1>5. Purposeful(d.st)
  BY <1>3, <1>4 DEF Purposeful, StreamFields
<1> QED BY <1>2, <1>4, <1>5, KeptStream

LEMMA SnapshotKept ==
    ASSUME NEW c, Context(c), NEW claim
    PROVE  Kept(c, snapshot(c, claim))
<1>1. DOMAIN c = CtxFields /\ DOMAIN c.slot = SlotFields /\ Purposeful(c.st)
  BY DEF Context
<1>2. CASE claim /\ c.slot.claimed
  <2>1. snapshot(c, claim) = [c EXCEPT !.ok = FALSE]
    BY <1>2 DEF snapshot
  <2>2. PICK d : d = [c EXCEPT !.ok = FALSE]
    BY Zenon
  <2>3. DOMAIN d = CtxFields /\ d.slot = c.slot /\ d.job = c.job /\ d.st = c.st
    BY <1>1, <2>2 DEF CtxFields
  <2> QED BY <1>1, <2>1, <2>2, <2>3, KeptStream, Zenon
<1>3. CASE ~(claim /\ c.slot.claimed)
  <2>1. PICK d : d = [c EXCEPT !.slot.claimed = @ \/ claim, !.ok = FALSE]
    OBVIOUS
  <2>2. /\ DOMAIN d = CtxFields /\ d.job = c.job /\ d.st = c.st
        /\ d.slot = [c.slot EXCEPT !.claimed = @ \/ claim]
    BY <1>1, <2>1 DEF CtxFields
  <2>3. Touched(c.slot, d.slot)
    BY <1>1, <2>2 DEF Touched, SlotFields
  <2>4. Kept(c, d)
    BY <1>1, <2>2, <2>3, Zenon DEF Kept, Context, Touched
  <2>5. Kept(d, reset(d))
    BY <2>4, ResetKept DEF Kept
  <2>6. Kept(reset(d), request(reset(d)))
    BY <2>5, RequestKept DEF Kept
  <2>7. snapshot(c, claim) = IF c.link # "down" THEN request(reset(d)) ELSE reset(d)
    BY <1>3, <2>1 DEF snapshot
  <2>8. Kept(c, reset(d)) /\ Kept(c, request(reset(d)))
    BY <2>4, <2>5, <2>6, KeptTwice
  <2> QED BY <2>7, <2>8
<1> QED BY <1>2, <1>3

LEMMA KickKept ==
    ASSUME NEW c, Context(c)
    PROVE  Kept(c, kick(c))
<1>1. PICK d : d = snapshot(c, TRUE)
  BY Zenon
<1>2. Kept(c, d)
  BY <1>1, SnapshotKept, Zenon
<1>3. Kept(d, Turn(d, "idle"))
  BY <1>2, TurnKept DEF Kept
<1>4. Kept(Turn(d, "idle"), watch(Turn(d, "idle")))
  BY <1>3, WatchKept DEF Kept
<1>5. Kept(c, watch(Turn(d, "idle")))
  BY <1>2, <1>3, <1>4, KeptTwice
<1>6. \/ kick(c) = settle(c) \/ kick(c) = d \/ kick(c) = watch(Turn(d, "idle"))
  BY <1>1, Zenon DEF kick, Turn
<1> QED BY <1>2, <1>5, <1>6, SettleKept

(* A read of the store is for a package, or for a snapshot of the keeper's. *)
Wanted(op) == op[1] = "package" \/ (op[1] = "snapshot" /\ op[2] \in DOMAIN hist)

LEMMA FetchKept ==
    ASSUME NEW c, Context(c), NEW op, Wanted(op)
    PROVE  Kept(c, fetch(c, op))
<1>1. PICK b : b = reset(c)
  OBVIOUS
<1>2. Kept(c, b) /\ Context(b)
  BY <1>1, ResetKept DEF Kept
<1>3. DOMAIN b = CtxFields /\ DOMAIN b.st = StreamFields
  BY <1>2 DEF Context, Purposeful
<1>4. PICK d : d = [b EXCEPT !.st.timer = FALSE]
  BY Zenon
<1>5. /\ DOMAIN d = CtxFields /\ d.slot = b.slot /\ d.job = b.job
      /\ d.st = [b.st EXCEPT !.timer = FALSE]
  BY <1>3, <1>4 DEF CtxFields
<1>6. DOMAIN d.st = StreamFields /\ Purposeful(d.st)
  BY <1>2, <1>3, <1>5 DEF Purposeful, StreamFields, Context
<1>7. PICK e : e = [d EXCEPT !.st.state = "fetch", !.st.op = op, !.ok = TRUE]
  OBVIOUS
<1>8. /\ DOMAIN e = CtxFields /\ e.slot = b.slot /\ e.job = b.job
      /\ e.st = [d.st EXCEPT !.state = "fetch", !.op = op]
  BY <1>5, <1>6, <1>7 DEF CtxFields
<1>9. Purposeful(e.st)
  BY <1>6, <1>8 DEF Purposeful, StreamFields, Wanted
<1>10. PICK f : f = [d EXCEPT !.ok = FALSE]
  BY Zenon
<1>11. DOMAIN f = CtxFields /\ f.slot = b.slot /\ f.job = b.job /\ f.st = d.st
  BY <1>5, <1>10 DEF CtxFields
<1>12. fetch(c, op) = e \/ fetch(c, op) = f
  BY <1>1, <1>4, <1>7, <1>10 DEF fetch
<1>13. Kept(b, e) /\ Kept(b, f)
  BY <1>2, <1>6, <1>8, <1>9, <1>11, KeptStream
<1> QED BY <1>2, <1>12, <1>13, KeptTwice

(* verify clears snap_bad when the hash is that of the slot's version. *)
LEMMA VerifiedTouched ==
    ASSUME NEW s, DOMAIN s = SlotFields, NEW v, v = <<v[1], v[2]>>,
           s.seq \in Nat, v[2] \in Nat
    PROVE  Touched(s, Verified(s, v))
<1>1. CASE verify(s, v) = "applied"
  <2>1. ~s.syncing /\ s.epoch # 0 /\ v[1] = s.epoch /\ v[2] = s.seq /\ s.hash = HashOf(v)
    BY <1>1 DEF verify
  <2>2. PICK t : t = [s EXCEPT !.snap_bad = FALSE]
    BY Zenon
  <2>3. t = Verified(s, v)
    BY <1>1, <2>2 DEF Verified
  <2>4. s.hash = HashOf(<<s.epoch, s.seq>>)
    BY <2>1
  <2> QED BY <2>1, <2>2, <2>3, <2>4 DEF Touched, SlotFields
<1>2. CASE verify(s, v) # "applied"
  BY <1>2, TouchedSame DEF Verified
<1> QED BY <1>1, <1>2

LEMMA KeptSlot ==
    ASSUME NEW c, Context(c), NEW s, Touched(c.slot, s)
    PROVE  Kept(c, [c EXCEPT !.slot = s])
<1>1. PICK d : d = [c EXCEPT !.slot = s]
  BY Zenon
<1>2. DOMAIN d = CtxFields /\ d.slot = s /\ d.job = c.job /\ d.st = c.st
  BY <1>1 DEF CtxFields, Context
<1>3. Kept(c, d)
  BY <1>2, Zenon DEF Kept, Context, Touched
<1> QED BY <1>1, <1>3

LEMMA CatchUpKept ==
    ASSUME NEW c, Context(c), c.slot.seq \in Nat
    PROVE  Kept(c, catch_up(c))
<1>1. PICK have : have = <<c.slot.epoch, c.slot.seq>>
  BY Zenon
<1>2. have = <<have[1], have[2]>> /\ have[2] = c.slot.seq
  BY <1>1
<1>3. PICK op : op = <<"package", <<have[1], have[2] + 1>>>>
  BY Zenon
<1>4. Wanted(op)
  BY <1>3 DEF Wanted
<1>5. PICK d : d = fetch(c, op)
  OBVIOUS
<1>6. Kept(c, d)
  BY <1>4, <1>5, FetchKept
<1>7. Kept(c, settle(d))
  BY <1>6, SettleKept, KeptTwice DEF Kept
<1>8. PICK e : e = [c EXCEPT !.slot = Verified(c.slot, have)]
  BY Zenon
<1>9. Kept(c, e)
  <2>1. Touched(c.slot, Verified(c.slot, have))
    BY <1>2, VerifiedTouched DEF Context
  <2> QED BY <1>8, <2>1, KeptSlot
<1>10. Kept(c, settle(e)) /\ Kept(c, settle(c))
  BY <1>9, SettleKept, KeptTwice DEF Kept
<1>11. \/ catch_up(c) = snapshot(c, TRUE) \/ catch_up(c) = d \/ catch_up(c) = settle(d)
       \/ catch_up(c) = settle(e) \/ catch_up(c) = settle(c)
  BY <1>1, <1>3, <1>5, <1>8, Zenon DEF catch_up
<1> QED BY <1>6, <1>7, <1>10, <1>11, SnapshotKept, Zenon

LEMMA PackageDoneKept ==
    ASSUME NEW c, Context(c), c.slot.seq \in Nat, NEW rc
    PROVE  Kept(c, package_done(c, rc))
<1>1. PICK d : d = snapshot(c, TRUE)
  BY Zenon
<1>2. Kept(c, d)
  BY <1>1, SnapshotKept, Zenon
<1>3. Kept(c, settle(d)) /\ Kept(c, settle(c)) /\ Kept(c, catch_up(c))
  BY <1>2, SettleKept, KeptTwice, CatchUpKept DEF Kept
<1>4. \/ package_done(c, rc) = catch_up(c) \/ package_done(c, rc) = settle(c)
      \/ package_done(c, rc) = d \/ package_done(c, rc) = settle(d)
  BY <1>1, Zenon DEF package_done
<1> QED BY <1>2, <1>3, <1>4

LEMMA SnapshotDoneKept ==
    ASSUME NEW c, Context(c), c.slot.seq \in Nat, NEW rc
    PROVE  Kept(c, snapshot_done(c, rc))
<1>1. Kept(c, settle(c)) /\ Kept(c, watch(c))
  BY SettleKept, WatchKept
<1>2. Context(settle(c)) /\ settle(c).slot.seq \in Nat
  BY <1>1 DEF Kept, Touched
<1>3. Kept(settle(c), catch_up(settle(c)))
  BY <1>2, CatchUpKept
<1>4. Kept(c, catch_up(settle(c)))
  BY <1>1, <1>3, KeptTwice
<1>5. \/ snapshot_done(c, rc) = watch(c) \/ snapshot_done(c, rc) = catch_up(settle(c))
      \/ snapshot_done(c, rc) = settle(c)
  BY Zenon DEF snapshot_done, watch
<1> QED BY <1>1, <1>4, <1>5

-----------------------------------------------------------------------------
(* A handler leaves the load alone, or begins one when no worker has one.    *)

PackageBegun(c, r) ==
    \E v \in DOMAIN hist : \E i :
        /\ PackageVerdict(c.slot, v) = "start"
        /\ Context(r) /\ r.job = Load("package", v, PackageOf(v), i)
        /\ r.slot = [c.slot EXCEPT !.syncing = TRUE]

SnapshotBegun(c, r) ==
    \E v \in DOMAIN hist :
        /\ SnapshotVerdict(c.slot, v) = "start"
        /\ Context(r) /\ r.job = Load("snapshot", v, SnapshotOf(v), FALSE)
        /\ r.slot = [live_begin(c.slot) EXCEPT !.syncing = TRUE]

Handled(c, r) ==
    \E d : Kept(c, d) /\ (r = d \/ PackageBegun(d, r) \/ SnapshotBegun(d, r))

LEMMA HandledKept ==
    ASSUME NEW c, NEW r, Kept(c, r)
    PROVE  Handled(c, r)
BY DEF Handled

LEMMA HandledAfter ==
    ASSUME NEW c, NEW d, NEW r, Kept(c, d), Handled(d, r)
    PROVE  Handled(c, r)
<1>1. PICK e : Kept(d, e) /\ (r = e \/ PackageBegun(e, r) \/ SnapshotBegun(e, r))
  BY DEF Handled
<1>2. Kept(c, e)
  BY <1>1, KeptTwice
<1> QED BY <1>1, <1>2, ZenonT(40) DEF Handled

LEMMA KeptSame ==
    ASSUME NEW c, Context(c)
    PROVE  Kept(c, c)
BY TouchedSame DEF Kept, Context

LEMMA ApplyPackageHandled ==
    ASSUME NEW c, Context(c), c.slot.seq \in Nat, NEW v \in DOMAIN hist, NEW i
    PROVE  Handled(c, apply_package(c, v, i))
<1>1. PICK b : b = IF i THEN c ELSE reset(c)
  OBVIOUS
<1>2. Kept(c, b)
  BY <1>1, ResetKept, KeptSame
<1>3. Context(b) /\ b.slot.seq \in Nat
  BY <1>2 DEF Kept, Touched
<1>4. PICK rc : rc = PackageVerdict(c.slot, v)
  OBVIOUS
<1>5. Kept(c, package_done(b, rc))
  BY <1>2, <1>3, PackageDoneKept, KeptTwice
<1>6. CASE rc = "start"
  <2>1. PICK r : r = [c EXCEPT !.slot.syncing = TRUE,
                               !.job = Load("package", v, PackageOf(v), i)]
    OBVIOUS
  <2>2. r = apply_package(c, v, i)
    BY <1>4, <1>6, <2>1 DEF apply_package
  <2>3. /\ DOMAIN r = CtxFields /\ r.st = c.st /\ r.slot = [c.slot EXCEPT !.syncing = TRUE]
        /\ r.job = Load("package", v, PackageOf(v), i)
    BY <2>1 DEF Context, CtxFields
  <2>4. Context(r)
    BY <2>3 DEF Context
  <2>5. PackageBegun(c, r)
    BY <1>4, <1>6, <2>3, <2>4, ZenonT(40) DEF PackageBegun
  <2> QED BY <2>2, <2>5, KeptSame, ZenonT(40) DEF Handled
<1>7. CASE rc # "start"
  <2>1. apply_package(c, v, i) = package_done(b, rc)
    BY <1>1, <1>4, <1>7, ZenonT(40) DEF apply_package
  <2> QED BY <1>5, <2>1, HandledKept
<1> QED BY <1>6, <1>7

LEMMA ApplySnapshotHandled ==
    ASSUME NEW c, Context(c), c.slot.seq \in Nat, NEW v \in DOMAIN hist
    PROVE  Handled(c, apply_snapshot(c, v))
<1>1. PICK rc : rc = SnapshotVerdict(c.slot, v)
  OBVIOUS
<1>2. Kept(c, reset(c))
  BY ResetKept
<1>3. Context(reset(c)) /\ reset(c).slot.seq \in Nat
  BY <1>2 DEF Kept, Touched
<1>4. Kept(c, snapshot_done(reset(c), rc))
  BY <1>2, <1>3, SnapshotDoneKept, KeptTwice
<1>5. CASE rc = "start"
  <2>1. PICK r : r = [c EXCEPT !.slot = [live_begin(c.slot) EXCEPT !.syncing = TRUE],
                               !.job = Load("snapshot", v, SnapshotOf(v), FALSE)]
    OBVIOUS
  <2>2. r = apply_snapshot(c, v)
    BY <1>1, <1>5, <2>1 DEF apply_snapshot
  <2>3. /\ DOMAIN r = CtxFields /\ r.st = c.st
        /\ r.slot = [live_begin(c.slot) EXCEPT !.syncing = TRUE]
        /\ r.job = Load("snapshot", v, SnapshotOf(v), FALSE)
    BY <2>1 DEF Context, CtxFields
  <2>4. DOMAIN r.slot = SlotFields
    BY <2>3 DEF live_begin, Context
  <2>5. Context(r)
    BY <2>3, <2>4 DEF Context
  <2>6. SnapshotBegun(c, r)
    BY <1>1, <1>5, <2>3, <2>5, ZenonT(40) DEF SnapshotBegun
  <2> QED BY <2>2, <2>6, KeptSame DEF Handled
<1>6. CASE rc # "start"
  <2>1. apply_snapshot(c, v) = snapshot_done(reset(c), rc)
    BY <1>1, <1>6, Zenon DEF apply_snapshot
  <2> QED BY <1>4, <2>1, HandledKept
<1> QED BY <1>5, <1>6

(* A version kept under a sequence number is one of the keeper's. *)
LEMMA StoredKnown ==
    ASSUME Counting, History, NEW n, \E u \in DOMAIN hist : u[2] = n
    PROVE  StoredAt(n) \in DOMAIN hist
<1>1. PICK of : of = {v \in DOMAIN hist : v[2] = n}
  BY Zenon
<1>2. \A v \in of : v[1] \in 1..MaxEpoch
  BY <1>1 DEF History
<1>3. MaxEpoch \in Nat
  BY Configured, Zenon
<1>4. PICK T : T = {MaxEpoch - v[1] : v \in of}
  BY Zenon
<1>5. T \in SUBSET Nat /\ T # {}
  BY <1>1, <1>2, <1>3, <1>4
<1>6. PICK x \in T : \A y \in T : x <= y
  BY <1>5, Zenon DEF Counting
<1>7. PICK v \in of : x = MaxEpoch - v[1]
  BY <1>4, <1>6
<1>8. \A u \in of : u[1] <= v[1]
  BY <1>2, <1>3, <1>4, <1>6, <1>7
<1>9. StoredAt(n) = CHOOSE y \in of : \A u \in of : u[1] <= y[1]
  BY <1>1 DEF StoredAt
<1>10. StoredAt(n) \in of
  BY <1>7, <1>8, <1>9
<1> QED BY <1>1, <1>10

LEMMA NoticeHandled ==
    ASSUME History, NEW c0, Context(c0), c0.slot.seq \in Nat, NEW n, n.v \in DOMAIN hist
    PROVE  Handled(c0, notice(c0, n))
<1>1. PICK c : c = IF n.v[1] # c0.st.want[1] \/ n.v[2] > c0.st.want[2]
                   THEN [c0 EXCEPT !.st.want = n.v] ELSE c0
  BY Zenon
<1>2. Kept(c0, c)
  <2>1. PICK x : x = [c0 EXCEPT !.st.want = n.v]
    BY Zenon
  <2>2. DOMAIN c0 = CtxFields /\ DOMAIN c0.st = StreamFields
    BY DEF Context, Purposeful
  <2>3. /\ DOMAIN x = CtxFields /\ x.slot = c0.slot /\ x.job = c0.job
        /\ x.st = [c0.st EXCEPT !.want = n.v]
    BY <2>1, <2>2 DEF CtxFields
  <2>4. Purposeful(x.st)
    BY <2>2, <2>3 DEF Purposeful, StreamFields, Context
  <2>5. Kept(c0, x)
    BY <2>3, <2>4, KeptStream
  <2> QED BY <1>1, <2>1, <2>5, KeptSame
<1>3. Context(c) /\ c.slot.seq \in Nat
  BY <1>2, Zenon DEF Kept, Touched
<1>4. PICK asked : asked = snapshot(c, TRUE)
  BY Zenon
<1>5. Kept(c, asked)
  BY <1>3, <1>4, SnapshotKept, ZenonT(40)
<1>6. ASSUME NEW x \in {"idle", "ready"} PROVE Kept(c, watch(Turn(asked, x)))
  <2>1. Kept(asked, Turn(asked, x))
    BY <1>5, TurnKept, Zenon DEF Kept
  <2>2. Kept(Turn(asked, x), watch(Turn(asked, x)))
    BY <2>1, WatchKept DEF Kept
  <2> QED BY <1>5, <2>1, <2>2, KeptTwice
<1>7. PICK d : d = IF c.st.state = "idle" THEN settle(c) ELSE c
  BY Zenon
<1>8. Kept(c, d)
  BY <1>3, <1>7, SettleKept, KeptSame
<1>9. Context(d) /\ d.slot.seq \in Nat
  BY <1>3, <1>8 DEF Kept, Touched
<1>10. PICK e : e = [d EXCEPT !.slot = Verified(d.slot, n.v)]
  BY ZenonT(40)
<1>11. Kept(d, e)
  <2>1. n.v = <<n.v[1], n.v[2]>> /\ n.v[2] \in Nat
    BY DEF History
  <2>2. Touched(d.slot, Verified(d.slot, n.v))
    BY <1>9, <2>1, VerifiedTouched DEF Context
  <2> QED BY <1>9, <1>10, <2>2, KeptSlot
<1>12. Kept(d, snapshot(e, TRUE))
  BY <1>11, SnapshotKept, KeptTwice, Zenon DEF Kept
<1>13. Kept(d, catch_up(d)) /\ Kept(d, d)
  BY <1>9, CatchUpKept, KeptSame
<1>14. Handled(d, apply_package(d, n.v, TRUE))
  BY <1>9, ApplyPackageHandled, Zenon
<1>15. \/ notice(c0, n) \in {c, asked, watch(Turn(asked, "idle")), watch(Turn(asked, "ready"))}
       \/ notice(c0, n) \in {apply_package(d, n.v, TRUE), catch_up(d), snapshot(e, TRUE), e, d}
  BY <1>1, <1>4, <1>7, <1>10, ZenonT(40) DEF notice, Turn
<1>16. Handled(c, notice(c0, n))
  <2>1. Kept(c, c)
    BY <1>3, KeptSame
  <2>2. CASE notice(c0, n) \in {c, asked, watch(Turn(asked, "idle")), watch(Turn(asked, "ready"))}
    BY <1>5, <1>6, <2>1, <2>2, HandledKept
  <2>3. CASE notice(c0, n) \in {catch_up(d), snapshot(e, TRUE), e, d}
    BY <1>8, <1>11, <1>12, <1>13, <2>3, HandledKept, KeptTwice, Zenon
  <2>4. CASE notice(c0, n) = apply_package(d, n.v, TRUE)
    BY <1>8, <1>14, <2>4, HandledAfter, Zenon
  <2> QED BY <1>15, <2>2, <2>3, <2>4, ZenonT(40)
<1> QED BY <1>2, <1>16, HandledAfter

-----------------------------------------------------------------------------
(* What a handler does to the invariant.                                     *)

LEMMA SeqNat ==
    ASSUME NEW s, History, Settled(s)
    PROVE  s.seq \in Nat
BY DEF History, Settled

(* snap_bad is cleared only when there is nothing to mark. *)
LEMMA TouchedWorkings ==
    ASSUME NEW s, NEW t, Overlay(s), Settled(s), Touched(s, t)
    PROVE  /\ Overlay(t) /\ Settled(t)
           /\ \A j : Loading(s, j) => Loading(t, j)
<1>1. /\ DOMAIN t = SlotFields /\ t.epoch = s.epoch /\ t.seq = s.seq /\ t.syncing = s.syncing
      /\ t.live = s.live /\ t.hash = s.hash /\ t.lens = s.lens
  BY DEF Touched
<1>2. Overlay(t)
  BY <1>1 DEF Overlay
<1>3. Mirrored(t) = Mirrored(s) /\ Held(t) = Held(s)
  BY <1>1, Zenon DEF Mirrored, Held
<1>4. Settled(t)
  <2>1. CASE t.snap_bad = s.snap_bad
    BY <1>1, <1>3, <2>1, ZenonT(40) DEF Settled
  <2>2. CASE s.epoch # 0 /\ s.hash = HashOf(<<s.epoch, s.seq>>)
    <3>1. Mirrored(s) = DOMAIN hist[<<s.epoch, s.seq>>]
      BY <2>2, HashMirrored
    <3> QED BY <1>1, <1>3, <2>2, <3>1 DEF Settled, Held
  <2> QED BY <2>1, <2>2 DEF Touched
<1>5. ASSUME NEW j, Loading(s, j) PROVE Loading(t, j)
  <2>1. s.syncing /\ t.snap_bad = s.snap_bad
    BY <1>5 DEF Loading, Touched
  <2>2. InPackage(s, j) => InPackage(t, j)
    BY <1>1, <1>3, <2>1, Zenon DEF InPackage
  <2>3. InSnapshot(s, j) => InSnapshot(t, j)
    BY <1>1, ZenonT(40) DEF InSnapshot
  <2> QED BY <1>1, <1>5, <2>1, <2>2, <2>3, ZenonT(40) DEF Loading
<1> QED BY <1>2, <1>4, <1>5

(* A record adds or removes its network, and no other record of the object has it. *)
LEMMA AddRecords ==
    ASSUME NEW f, NEW ks
    PROVE  /\ \A k \in ks : \E r \in Add(f, ks) : r.key = k /\ r.op = "add"
           /\ \A r \in Add(f, ks) : /\ r.op = "add" /\ r.key \in ks
                                    /\ r = [op |-> "add", key |-> r.key, exp |-> f[r.key]]
<1>1. ASSUME NEW k \in ks PROVE \E r \in Add(f, ks) : r.key = k /\ r.op = "add"
  <2>1. PICK r : r = [op |-> "add", key |-> k, exp |-> f[k]]
    BY ZenonT(40)
  <2>2. r \in Add(f, ks) /\ r.key = k /\ r.op = "add"
    BY <2>1 DEF Add
  <2> QED BY <2>2, Zenon
<1>2. ASSUME NEW r \in Add(f, ks)
      PROVE  r.op = "add" /\ r.key \in ks /\ r = [op |-> "add", key |-> r.key, exp |-> f[r.key]]
  <2>1. PICK k \in ks : r = [op |-> "add", key |-> k, exp |-> f[k]]
    BY DEF Add
  <2> QED BY <2>1
<1> QED BY <1>1, <1>2, Zenon

LEMMA PackageRecords ==
    ASSUME NEW v, NEW old, old = hist[<<v[1], v[2] - 1>>], NEW new, new = hist[v]
    PROVE  /\ \A k : (k \in DOMAIN old) # (k \in DOMAIN new) => \E r \in PackageOf(v) : r.key = k
           /\ \A r \in PackageOf(v) :
                \/ r = [op |-> "remove", key |-> r.key, exp |-> 0] /\ r.op = "remove"
                     /\ r.key \in DOMAIN old /\ r.key \notin DOMAIN new
                \/ r = [op |-> "add", key |-> r.key, exp |-> new[r.key]] /\ r.op = "add"
                     /\ r.key \in DOMAIN new
<1>1. PICK ks : ks = {k \in DOMAIN new : k \notin DOMAIN old \/ old[k] # new[k]}
  BY Zenon
<1>2. PICK gone : gone = {[op |-> "remove", key |-> k, exp |-> 0] : k \in DOMAIN old \ DOMAIN new}
  BY ZenonT(40)
<1>3. PackageOf(v) = gone \cup Add(new, ks)
  BY <1>1, <1>2, Zenon DEF PackageOf
<1>4. ASSUME NEW r \in gone
      PROVE  /\ r = [op |-> "remove", key |-> r.key, exp |-> 0] /\ r.op = "remove"
             /\ r.key \in DOMAIN old /\ r.key \notin DOMAIN new
  <2>1. PICK k \in DOMAIN old \ DOMAIN new : r = [op |-> "remove", key |-> k, exp |-> 0]
    BY <1>2
  <2> QED BY <2>1, Zenon
<1>5. ASSUME NEW k \in DOMAIN old \ DOMAIN new PROVE \E r \in gone : r.key = k
  <2>1. PICK r : r = [op |-> "remove", key |-> k, exp |-> 0]
    BY Zenon
  <2>2. r \in gone /\ r.key = k
    BY <1>2, <2>1
  <2> QED BY <2>2
<1>6. \A k \in DOMAIN new \ DOMAIN old : \E r \in Add(new, ks) : r.key = k
  BY <1>1, AddRecords, SMTT(30)
<1>7. \A r \in Add(new, ks) : /\ r.op = "add" /\ r.key \in DOMAIN new
                              /\ r = [op |-> "add", key |-> r.key, exp |-> new[r.key]]
  <2>1. ks \subseteq DOMAIN new
    BY <1>1, ZenonT(40)
  <2> QED BY <2>1, AddRecords
<1>8. ASSUME NEW k, (k \in DOMAIN old) # (k \in DOMAIN new)
      PROVE  \E r \in PackageOf(v) : r.key = k
  BY <1>3, <1>5, <1>6, <1>8
<1>9. ASSUME NEW r \in PackageOf(v)
      PROVE  \/ r = [op |-> "remove", key |-> r.key, exp |-> 0] /\ r.op = "remove"
                  /\ r.key \in DOMAIN old /\ r.key \notin DOMAIN new
             \/ r = [op |-> "add", key |-> r.key, exp |-> new[r.key]] /\ r.op = "add"
                  /\ r.key \in DOMAIN new
  <2>1. CASE r \in gone
    BY <1>4, <2>1, ZenonT(40)
  <2>2. CASE r \in Add(new, ks)
    BY <1>7, <2>2, ZenonT(40)
  <2> QED BY <1>3, <2>1, <2>2, Zenon
<1> QED BY <1>8, <1>9

LEMMA PackageBegunWorks ==
    ASSUME NEW c, NEW r, History, Overlay(c.slot), Settled(c.slot), PackageBegun(c, r)
    PROVE  /\ ~c.slot.syncing /\ Loading(r.slot, r.job) /\ Overlay(r.slot) /\ Settled(r.slot)
           /\ r.slot.live = c.slot.live
           /\ r.slot.epoch = c.slot.epoch /\ r.slot.seq = c.slot.seq
<1>1. PICK s, t, j : s = c.slot /\ t = r.slot /\ j = r.job
  OBVIOUS
<1>2. PICK v : /\ v \in DOMAIN hist /\ PackageVerdict(s, v) = "start"
               /\ t = [s EXCEPT !.syncing = TRUE]
               /\ \E i : j = Load("package", v, PackageOf(v), i)
  BY <1>1, Zenon DEF PackageBegun
<1>3. /\ DOMAIN j = JobFields /\ j.kind = "package" /\ j.v = v /\ j.left = PackageOf(v)
  BY <1>2 DEF Load, JobFields
<1>4. ~s.syncing /\ s.epoch # 0 /\ v[1] = s.epoch /\ v[2] = s.seq + 1
  BY <1>2 DEF PackageVerdict
<1>5. v = <<s.epoch, s.seq + 1>>
  BY <1>2, <1>4 DEF History
<1>6. <<s.epoch, s.seq>> \in DOMAIN hist /\ s.seq \in Nat
  BY <1>1, <1>4, SeqNat DEF Settled
<1>7. /\ DOMAIN t = SlotFields /\ t.epoch = s.epoch /\ t.seq = s.seq /\ t.syncing = TRUE
      /\ t.live = s.live /\ t.hash = s.hash /\ t.lens = s.lens /\ t.snap_bad = s.snap_bad
  BY <1>1, <1>2 DEF Overlay, SlotFields
<1>8. Overlay(t)
  BY <1>1, <1>7 DEF Overlay
<1>9. Settled(t)
  BY <1>6, <1>7, Zenon DEF Settled
<1>10. Mirrored(t) = Mirrored(s)
  BY <1>7, ZenonT(40) DEF Mirrored
<1>11. Roomy /\ ~s.snap_bad => Mirrored(s) = DOMAIN hist[<<s.epoch, s.seq>>]
  BY <1>1, <1>4 DEF Settled, Held
<1>12. PICK old, new : old = hist[<<s.epoch, s.seq>>] /\ new = hist[v]
  OBVIOUS
<1>13. <<v[1], v[2] - 1>> = <<s.epoch, s.seq>>
  BY <1>4, <1>6
<1>14. \A k \in Keys : ~(\E x \in j.left : x.key = k) => (k \in DOMAIN old <=> k \in DOMAIN new)
  <2>1. old = hist[<<v[1], v[2] - 1>>]
    BY <1>12, <1>13
  <2> QED BY <1>3, <1>12, <2>1, PackageRecords
<1>15. InPackage(t, j)
  <2>1. j.v = <<t.epoch, t.seq + 1>> /\ <<t.epoch, t.seq>> \in DOMAIN hist
    BY <1>3, <1>5, <1>6, <1>7
  <2>2. j.left \subseteq PackageOf(j.v)
    BY <1>3
  <2>3. ASSUME Roomy, ~t.snap_bad, NEW k \in Keys
        PROVE  k \in Mirrored(t) <=>
            k \in DOMAIN hist[IF \E x \in j.left : x.key = k THEN <<t.epoch, t.seq>> ELSE j.v]
    BY <1>3, <1>7, <1>10, <1>11, <1>12, <1>14, <2>3, ZenonT(40)
  <2> QED BY <2>1, <2>2, <2>3, ZenonT(40) DEF InPackage
<1>16. Loading(t, j)
  BY <1>2, <1>3, <1>7, <1>15, ZenonT(40) DEF Loading
<1> QED BY <1>1, <1>4, <1>7, <1>8, <1>9, <1>16, ZenonT(40)

LEMMA SnapshotBegunWorks ==
    ASSUME NEW c, NEW r, History, Overlay(c.slot), Settled(c.slot), SnapshotBegun(c, r)
    PROVE  /\ ~c.slot.syncing /\ Loading(r.slot, r.job) /\ Overlay(r.slot) /\ Settled(r.slot)
           /\ DOMAIN r.slot.live = DOMAIN c.slot.live
           /\ r.slot.epoch = c.slot.epoch /\ r.slot.seq = c.slot.seq
<1>1. PICK s, t, j : s = c.slot /\ t = r.slot /\ j = r.job
  OBVIOUS
<1>2. PICK v : /\ v \in DOMAIN hist /\ SnapshotVerdict(s, v) = "start"
               /\ t = [live_begin(s) EXCEPT !.syncing = TRUE]
               /\ j = Load("snapshot", v, SnapshotOf(v), FALSE)
  BY <1>1, ZenonT(40) DEF SnapshotBegun
<1>3. /\ DOMAIN j = JobFields /\ j.kind = "snapshot" /\ j.v = v /\ j.left = SnapshotOf(v)
      /\ j.pass = "mark" /\ j.cursor = 0
  BY <1>2, ZenonT(40) DEF Load, JobFields
<1>4. ~s.syncing /\ ~(s.epoch # 0 /\ v[1] = s.epoch /\ v[2] < s.seq)
  BY <1>2 DEF SnapshotVerdict
<1>5. PICK b : b = live_begin(s)
  OBVIOUS
<1>6. Overlay(b) /\ Beside(s, b) /\ Refreshed(s, b)
  BY <1>1, <1>5, BeginStep
<1>7. /\ DOMAIN t = SlotFields /\ t.epoch = s.epoch /\ t.seq = s.seq /\ t.syncing = TRUE
      /\ t.live = b.live /\ t.hash = b.hash /\ t.lens = b.lens
  BY <1>2, <1>5, <1>6 DEF Beside, SlotFields
<1>8. Overlay(t)
  BY <1>6, <1>7 DEF Overlay
<1>9. Settled(t)
  BY <1>1, <1>7, ZenonT(40) DEF Settled
<1>10. InSnapshot(t, j)
  <2>1. v[1] \in 1..MaxEpoch /\ v[2] \in Nat /\ s.seq \in Nat
    BY <1>1, <1>2, SeqNat DEF History
  <2>2. v[1] = t.epoch => v[2] >= t.seq
    BY <1>4, <1>7, <2>1, SyncAssumption
  <2>3. \A k \in DOMAIN hist[v] : \E x \in j.left : x.key = k
    BY <1>3, AddRecords DEF SnapshotOf
  <2> QED BY <1>3, <2>2, <2>3 DEF InSnapshot
<1>11. Loading(t, j)
  BY <1>2, <1>3, <1>7, <1>10, ZenonT(40) DEF Loading
<1> QED BY <1>1, <1>4, <1>6, <1>7, <1>8, <1>9, <1>11, ZenonT(40) DEF Refreshed

-----------------------------------------------------------------------------
(* Steps.                                                                    *)

(* The slot's version stays, or becomes one of the keeper's that is not older. *)
Moves ==
    \/ slot'.epoch = slot.epoch /\ slot'.seq = slot.seq
    \/ \E v \in DOMAIN hist :
          /\ slot'.epoch = v[1] /\ slot'.seq = v[2]
          /\ v[1] = slot.epoch => v[2] >= slot.seq

(* What a step takes out of the overlay. *)
HoleFree ==
    \A k \in DOMAIN slot.live \ DOMAIN slot'.live : \E w \in Workers :
        \/ /\ job[w].kind = "package"
           /\ [op |-> "remove", key |-> k, exp |-> 0] \in job[w].left
        \/ /\ job[w].kind = "snapshot" /\ k \notin DOMAIN hist[job[w].v]
           /\ ~slot.live[k].fresh

Good == IInv' /\ Moves /\ HoleFree

(* The invariant of the next state when the keeper's versions stay. *)
LEMMA SameHistory ==
    ASSUME History, UNCHANGED <<hist, now>>, Workings(slot', st', job')
    PROVE  IInv'
<1>1. hist' = hist /\ now' = now
  BY ZenonT(40)
<1>2. History'
  BY <1>1 DEF History
<1>3. Overlay(slot)'
  BY DEF Workings, Overlay, Counts
<1>4. Settled(slot)'
  BY <1>1, ZenonT(40) DEF Workings, Settled, Mirrored, Held, Roomy
<1>5. \A w \in Workers : Purposeful(st[w])' /\ (job[w] = NoJob \/ Loading(slot, job[w]))'
  <2> TAKE w \in Workers
  <2>1. Purposeful(st'[w]) /\ (job'[w] = NoJob \/ Loading(slot', job'[w]))
    BY ZenonT(40) DEF Workings
  <2>2. Purposeful(st[w])'
    BY <1>1, <2>1 DEF Purposeful
  <2>3. PICK j, s : j = job'[w] /\ s = slot'
    BY Zenon
  <2>4. InPackage(s, j) => InPackage(slot, job[w])'
    BY <1>1, <2>3 DEF InPackage, PackageOf, Add, Mirrored, Roomy
  <2>5. InSnapshot(s, j) => InSnapshot(slot, job[w])'
    BY <1>1, <2>3 DEF InSnapshot, SnapshotOf, Add
  <2>6. Loading(s, j) => Loading(slot, job[w])'
    BY <1>1, <2>3, <2>4, <2>5, Zenon DEF Loading
  <2> QED BY <2>1, <2>2, <2>3, <2>6
<1>6. /\ DOMAIN st' = Workers /\ DOMAIN job' = Workers
      /\ \A w, u \in Workers : w # u => job'[w] = NoJob \/ job'[u] = NoJob
  BY ZenonT(40) DEF Workings
<1> QED BY <1>2, <1>3, <1>4, <1>5, <1>6 DEF IInv, Workings

(* A step of one worker's. *)
LEMMA OneWorker ==
    ASSUME IInv, NEW w \in Workers, NEW r, Becomes(w, r),
           Overlay(r.slot), Settled(r.slot), Purposeful(r.st),
           \A u \in Workers \ {w} : job[u] = NoJob \/ Loading(r.slot, job[u]),
           \/ r.job = NoJob
           \/ Loading(r.slot, r.job) /\ \A u \in Workers \ {w} : job[u] = NoJob
    PROVE  IInv'
<1>1. /\ UNCHANGED <<hist, now>> /\ slot' = r.slot
      /\ st' = [st EXCEPT ![w] = r.st] /\ job' = [job EXCEPT ![w] = r.job]
  BY Zenon DEF Becomes
<1>2. History /\ DOMAIN st = Workers /\ DOMAIN job = Workers
      /\ (\A u \in Workers : Purposeful(st[u]))
      /\ \A x, u \in Workers : x # u => job[x] = NoJob \/ job[u] = NoJob
  BY ZenonT(40) DEF IInv, Workings
<1>3. /\ DOMAIN st' = Workers /\ DOMAIN job' = Workers /\ st'[w] = r.st /\ job'[w] = r.job
      /\ \A u \in Workers \ {w} : st'[u] = st[u] /\ job'[u] = job[u]
  BY <1>1, <1>2
<1>4. \A u \in Workers : Purposeful(st'[u]) /\ (job'[u] = NoJob \/ Loading(slot', job'[u]))
  BY <1>1, <1>2, <1>3, ZenonT(40)
<1>5. \A x, u \in Workers : x # u => job'[x] = NoJob \/ job'[u] = NoJob
  BY <1>2, <1>3
<1>6. Workings(slot', st', job')
  BY <1>1, <1>3, <1>4, <1>5, ZenonT(40) DEF Workings
<1> QED BY <1>1, <1>2, <1>6, SameHistory

LEMMA HandledGood ==
    ASSUME IInv, NEW w \in Workers, job[w] = NoJob, NEW c, Context(c),
           c.slot = slot, c.job = NoJob, NEW r, Handled(c, r), Becomes(w, r)
    PROVE  Good
<1>1. History /\ Overlay(slot) /\ Settled(slot)
      /\ \A u \in Workers : job[u] = NoJob \/ Loading(slot, job[u])
  BY Zenon DEF IInv, Workings
<1>2. PICK d : Kept(c, d) /\ (r = d \/ PackageBegun(d, r) \/ SnapshotBegun(d, r))
  BY Zenon DEF Handled
<1>3. /\ Context(d) /\ d.job = NoJob /\ Touched(slot, d.slot)
  BY <1>2, Zenon DEF Kept
<1>4. /\ Overlay(d.slot) /\ Settled(d.slot)
      /\ \A u \in Workers : job[u] = NoJob \/ Loading(d.slot, job[u])
  BY <1>1, <1>3, TouchedWorkings
<1>5. slot' = r.slot
  BY Zenon DEF Becomes
<1>6. d.slot.live = slot.live /\ d.slot.epoch = slot.epoch /\ d.slot.seq = slot.seq
      /\ d.slot.syncing = slot.syncing
  BY <1>3, ZenonT(40) DEF Touched
<1>7. CASE r = d
  <2>1. IInv'
    BY <1>3, <1>4, <1>7, OneWorker, Zenon DEF Context
  <2> QED BY <1>5, <1>6, <1>7, <2>1 DEF Good, Moves, HoleFree
<1>8. CASE PackageBegun(d, r) \/ SnapshotBegun(d, r)
  <2>1. /\ ~d.slot.syncing /\ Loading(r.slot, r.job) /\ Overlay(r.slot) /\ Settled(r.slot)
        /\ DOMAIN r.slot.live = DOMAIN d.slot.live
        /\ r.slot.epoch = d.slot.epoch /\ r.slot.seq = d.slot.seq
    BY <1>1, <1>4, <1>8, PackageBegunWorks, SnapshotBegunWorks, ZenonT(40)
  <2>2. \A u \in Workers : job[u] = NoJob
    BY <1>4, <2>1, Zenon DEF Loading
  <2>3. Purposeful(r.st)
    BY <1>8, ZenonT(40) DEF PackageBegun, SnapshotBegun, Context
  <2>4. IInv'
    BY <2>1, <2>2, <2>3, OneWorker, Zenon
  <2> QED BY <1>5, <1>6, <2>1, <2>4, Zenon DEF Good, Moves, HoleFree
<1> QED BY <1>2, <1>7, <1>8

LEMMA CtxContext ==
    ASSUME IInv, NEW w \in Workers, NEW store
    PROVE  /\ Context(Ctx(w, store)) /\ Ctx(w, store).slot = slot
           /\ Ctx(w, store).job = job[w] /\ Ctx(w, store).st = st[w]
           /\ slot.seq \in Nat /\ DOMAIN st[w] = StreamFields
<1>1. PICK c : c = Ctx(w, store)
  BY Zenon
<1>2. DOMAIN c = CtxFields /\ c.slot = slot /\ c.job = job[w] /\ c.st = st[w]
  BY <1>1, ZenonT(40) DEF Ctx, CtxFields
<1>3. DOMAIN slot = SlotFields /\ Purposeful(st[w])
  BY Zenon DEF IInv, Workings, Overlay
<1>4. slot.seq \in Nat
  BY SeqNat, Zenon DEF IInv, Workings
<1>5. DOMAIN st[w] = StreamFields
  BY <1>3, Zenon DEF Purposeful
<1> QED BY <1>1, <1>2, <1>3, <1>4, <1>5 DEF Context

LEMMA ReadyGood ==
    ASSUME IInv, NEW w \in Workers, Ready(w)
    PROVE  Good
<1>1. PICK b : b = Ctx(w, TRUE)
  BY Zenon
<1>2. Context(b) /\ b.slot = slot /\ b.job = NoJob /\ job[w] = NoJob
  BY <1>1, CtxContext, Zenon DEF Ready, Free
<1>3. PICK c : c = [b EXCEPT !.link = "up"]
  BY ZenonT(40)
<1>4. DOMAIN c = CtxFields /\ c.slot = slot /\ c.job = NoJob /\ c.st = b.st
  BY <1>2, <1>3 DEF Context, CtxFields
<1>5. Context(c)
  BY <1>2, <1>4 DEF Context
<1>6. Kept(c, reset(c)) /\ Context(reset(c))
  BY <1>5, ResetKept DEF Kept
<1>7. Kept(c, kick(reset(c)))
  BY <1>6, KickKept, KeptTwice
<1>8. Becomes(w, kick(reset(c)))
  BY <1>1, <1>3 DEF Ready
<1> QED BY <1>2, <1>4, <1>5, <1>7, <1>8, HandledKept, HandledGood

LEMMA TimerGood ==
    ASSUME IInv, NEW w \in Workers, Timer(w)
    PROVE  Good
<1>1. PICK b : b = Ctx(w, TRUE)
  BY Zenon
<1>2. Context(b) /\ b.slot = slot /\ b.job = NoJob /\ job[w] = NoJob /\ DOMAIN b.st = StreamFields
  BY <1>1, CtxContext, ZenonT(40) DEF Timer, Free
<1>3. PICK c : c = [b EXCEPT !.st.timer = FALSE]
  BY Zenon
<1>4. DOMAIN c = CtxFields /\ c.slot = slot /\ c.job = NoJob /\ c.st = [b.st EXCEPT !.timer = FALSE]
  BY <1>2, <1>3 DEF Context, CtxFields
<1>5. Purposeful(c.st)
  BY <1>2, <1>4 DEF Context, Purposeful, StreamFields
<1>6. Context(c)
  BY <1>2, <1>4, <1>5 DEF Context
<1>7. Kept(c, reset(c)) /\ Context(reset(c))
  BY <1>6, ResetKept DEF Kept
<1>8. Kept(c, kick(reset(c))) /\ Kept(c, kick(c)) /\ Kept(c, watch(c)) /\ Kept(c, c)
  BY <1>6, <1>7, KickKept, WatchKept, KeptSame, KeptTwice
<1>9. PICK r \in {kick(reset(c)), kick(c), watch(c), c} : Becomes(w, r)
  BY <1>1, <1>3, ZenonT(40) DEF Timer
<1>10. Kept(c, r)
  BY <1>8, <1>9
<1> QED BY <1>2, <1>4, <1>6, <1>9, <1>10, HandledKept, HandledGood

LEMMA NoticeGood ==
    ASSUME IInv, NEW w \in Workers, NEW n \in Notices, NEW store, Notice(w, n, store)
    PROVE  Good
<1>1. PICK c : c = Ctx(w, store)
  BY Zenon
<1>2. Context(c) /\ c.slot = slot /\ c.job = NoJob /\ job[w] = NoJob /\ slot.seq \in Nat
  BY <1>1, CtxContext DEF Notice, Free
<1>3. n.v \in DOMAIN hist
  BY DEF Notices
<1>4. Handled(c, notice(c, n))
  BY <1>2, <1>3, NoticeHandled DEF IInv
<1>5. Becomes(w, notice(c, n))
  BY <1>1 DEF Notice
<1> QED BY <1>2, <1>4, <1>5, HandledGood

LEMMA ReplyGood ==
    ASSUME IInv, NEW w \in Workers, NEW given, NEW store, Reply(w, given, store)
    PROVE  Good
<1>1. PICK b : b = Ctx(w, store)
  BY Zenon
<1>2. Context(b) /\ b.slot = slot /\ b.job = NoJob /\ job[w] = NoJob
  BY <1>1, CtxContext DEF Reply, Free
<1>3. PICK c : c = [b EXCEPT !.link = "up"]
  BY Zenon
<1>4. DOMAIN c = CtxFields /\ c.slot = slot /\ c.job = NoJob /\ c.st = b.st
  BY <1>2, <1>3 DEF Context, CtxFields
<1>5. Context(c)
  BY <1>2, <1>4 DEF Context
<1>6. PICK op : op = <<"snapshot", now>>
  BY ZenonT(40)
<1>7. Wanted(op)
  BY <1>6 DEF Wanted, IInv, History
<1>8. PICK d : d = fetch(c, op)
  OBVIOUS
<1>9. Kept(c, d) /\ Context(d)
  BY <1>5, <1>7, <1>8, FetchKept DEF Kept
<1>10. Kept(c, reset(d)) /\ Kept(c, reset(c)) /\ Kept(c, c)
  BY <1>5, <1>9, ResetKept, KeptSame, KeptTwice
<1>11. PICK r \in {c, reset(c), d, reset(d)} : Becomes(w, r)
  BY <1>1, <1>3, <1>6, <1>8 DEF Reply
<1>12. Kept(c, r)
  BY <1>9, <1>10, <1>11
<1> QED BY <1>2, <1>4, <1>5, <1>11, <1>12, HandledKept, HandledGood

LEMMA FetchedGood ==
    ASSUME Counting, IInv, NEW w \in Workers, NEW store, NEW status \in Statuses,
           Fetched(w, store, status)
    PROVE  Good
<1>1. PICK b : b = Ctx(w, store)
  OBVIOUS
<1>2. /\ Context(b) /\ b.slot = slot /\ b.job = NoJob /\ job[w] = NoJob
      /\ b.st = st[w] /\ DOMAIN b.st = StreamFields /\ slot.seq \in Nat
  BY <1>1, CtxContext DEF Fetched, Free
<1>3. PICK c : c = [b EXCEPT !.st.state = "ready", !.st.op = NoOp]
  OBVIOUS
<1>4. /\ DOMAIN c = CtxFields /\ c.slot = slot /\ c.job = NoJob
      /\ c.st = [b.st EXCEPT !.state = "ready", !.op = NoOp]
  BY <1>2, <1>3 DEF Context, CtxFields
<1>5. Purposeful(c.st)
  BY <1>2, <1>4 DEF Purposeful, StreamFields
<1>6. Context(c) /\ c.slot.seq \in Nat
  BY <1>2, <1>4, <1>5 DEF Context
<1>7. Kept(c, reset(c)) /\ Context(reset(c)) /\ reset(c).slot.seq \in Nat
  BY <1>6, ResetKept DEF Kept
<1>8. PICK kind, v, again : /\ kind = st[w].op[1] /\ v = st[w].op[2]
                            /\ again = snapshot(reset(c), kind = "package")
  BY ZenonT(40)
<1>9. Kept(c, again) /\ Context(again)
  BY <1>7, <1>8, SnapshotKept, KeptTwice, Zenon DEF Kept
<1>10. Kept(c, kick(again))
  BY <1>9, KickKept, KeptTwice
<1>11. Kept(c, watch(reset(c)))
  BY <1>7, WatchKept, KeptTwice
<1>12. /\ Kept(c, package_done(reset(c), "malformed"))
       /\ Kept(c, snapshot_done(reset(c), "malformed"))
  BY <1>7, PackageDoneKept, SnapshotDoneKept, KeptTwice
<1>13. st[w].state = "fetch" /\ (kind = "package" \/ (kind = "snapshot" /\ v \in DOMAIN hist))
  BY <1>8 DEF Fetched, IInv, Workings, Purposeful
<1>14. \/ \E r \in {again, kick(again), watch(reset(c)), package_done(reset(c), "malformed"),
                     snapshot_done(reset(c), "malformed")} : Becomes(w, r)
       \/ kind = "package" /\ status = "ok" /\ Becomes(w, apply_package(c, StoredAt(v[2]), FALSE))
       \/ kind # "package" /\ Becomes(w, apply_snapshot(c, v))
  BY <1>1, <1>3, <1>8, ZenonT(40) DEF Fetched, watch, Statuses
<1>15. CASE \E r \in {again, kick(again), watch(reset(c)), package_done(reset(c), "malformed"),
                       snapshot_done(reset(c), "malformed")} : Becomes(w, r)
  <2>1. PICK r : Kept(c, r) /\ Becomes(w, r)
    BY <1>9, <1>10, <1>11, <1>12, <1>15
  <2> QED BY <1>2, <1>4, <1>6, <2>1, HandledKept, HandledGood
<1>16. CASE kind = "package" /\ status = "ok"
            /\ Becomes(w, apply_package(c, StoredAt(v[2]), FALSE))
  <2>1. \E u \in DOMAIN hist : u[2] = v[2]
    BY <1>8, <1>16 DEF Fetched
  <2>2. StoredAt(v[2]) \in DOMAIN hist
    BY <2>1, StoredKnown DEF IInv
  <2>3. Handled(c, apply_package(c, StoredAt(v[2]), FALSE))
    BY <1>6, <2>2, ApplyPackageHandled, ZenonT(40)
  <2> QED BY <1>2, <1>4, <1>6, <1>16, <2>3, HandledGood, ZenonT(40)
<1>17. CASE kind # "package" /\ Becomes(w, apply_snapshot(c, v))
  <2>1. Handled(c, apply_snapshot(c, v))
    BY <1>6, <1>13, <1>17, ApplySnapshotHandled, Zenon
  <2> QED BY <1>2, <1>4, <1>6, <1>17, <2>1, HandledGood
<1> QED BY <1>14, <1>15, <1>16, <1>17, Zenon

(* A ban changes neither what is mirrored nor what a load has done. *)
LEMMA BanWorks ==
    ASSUME Counting, NEW s, Overlay(s), Settled(s), NEW k \in Keys, NEW e,
           NEW t, t = live_put(s, k, e, {})
    PROVE  /\ Overlay(t) /\ Settled(t) /\ DOMAIN s.live \subseteq DOMAIN t.live
           /\ t.epoch = s.epoch /\ t.seq = s.seq
           /\ \A j : Loading(s, j) => Loading(t, j)
<1>1. /\ Overlay(t) /\ Beside(s, t)
      /\ Entered(s, t, k, {}) \/ t = s
  <2>1. \A p \in {} : p[2] = k
    OBVIOUS
  <2> QED BY <2>1, PutStep, ZenonT(40)
<1>2. CASE t = s
  BY <1>1, <1>2
<1>3. CASE Entered(s, t, k, {})
  <2>1. /\ DOMAIN t.live = DOMAIN s.live \cup {k} /\ t.live[k].fresh
        /\ \A x \in DOMAIN s.live \ {k} : t.live[x] = s.live[x]
        /\ t.live[k].h = IF k \in DOMAIN s.live THEN s.live[k].h ELSE {}
    BY <1>3, Zenon DEF Entered
  <2>2. Mirrored(t) = Mirrored(s)
    BY <2>1 DEF Mirrored
  <2>3. /\ t.epoch = s.epoch /\ t.seq = s.seq /\ t.syncing = s.syncing
        /\ t.snap_bad = s.snap_bad
    BY <1>1 DEF Beside
  <2>4. Settled(t)
    BY <2>2, <2>3, Zenon DEF Settled, Held
  <2>5. ASSUME NEW j, Loading(s, j) PROVE Loading(t, j)
    <3>1. InPackage(s, j) => InPackage(t, j)
      BY <2>2, <2>3, ZenonT(40) DEF InPackage
    <3>2. InSnapshot(s, j) => InSnapshot(t, j)
      BY <2>1, <2>3 DEF InSnapshot
    <3> QED BY <2>3, <2>5, <3>1, <3>2, ZenonT(40) DEF Loading
  <2> QED BY <1>1, <2>1, <2>3, <2>4, <2>5, Zenon
<1> QED BY <1>1, <1>2, <1>3

LEMMA BanGood ==
    ASSUME Counting, IInv, NEW w, NEW k \in Banned, Ban(w, k)
    PROVE  Good
<1>1. k \in Keys
  BY SyncAssumption, ZenonT(40)
<1>2. slot' = live_put(slot, k, Ttl, {}) /\ UNCHANGED <<st, job, hist, now>>
  BY ZenonT(40) DEF Ban
<1>3. /\ History /\ Overlay(slot) /\ Settled(slot)
      /\ DOMAIN st = Workers /\ DOMAIN job = Workers
      /\ \A u \in Workers : Purposeful(st[u]) /\ (job[u] = NoJob \/ Loading(slot, job[u]))
      /\ \A x, u \in Workers : x # u => job[x] = NoJob \/ job[u] = NoJob
  BY Zenon DEF IInv, Workings
<1>4. /\ Overlay(slot') /\ Settled(slot') /\ DOMAIN slot.live \subseteq DOMAIN slot'.live
      /\ slot'.epoch = slot.epoch /\ slot'.seq = slot.seq
      /\ \A j : Loading(slot, j) => Loading(slot', j)
  BY <1>1, <1>2, <1>3, BanWorks
<1>5. Workings(slot', st', job')
  BY <1>2, <1>3, <1>4, Zenon DEF Workings
<1>6. IInv'
  BY <1>2, <1>3, <1>5, SameHistory, Zenon
<1> QED BY <1>4, <1>6, Zenon DEF Good, Moves, HoleFree

(* A worker's stream, link or load is dropped. *)
LEMMA DroppedGood ==
    ASSUME IInv, NEW w \in Workers, UNCHANGED <<slot, hist, now>>,
           NEW x, Purposeful(x), st' = [st EXCEPT ![w] = x],
           job' = job \/ job' = [job EXCEPT ![w] = NoJob]
    PROVE  Good
<1>1. /\ History /\ Overlay(slot) /\ Settled(slot)
      /\ DOMAIN st = Workers /\ DOMAIN job = Workers
      /\ \A u \in Workers : Purposeful(st[u]) /\ (job[u] = NoJob \/ Loading(slot, job[u]))
      /\ \A y, u \in Workers : y # u => job[y] = NoJob \/ job[u] = NoJob
  BY DEF IInv, Workings
<1>2. DOMAIN st' = Workers /\ \A u \in Workers : Purposeful(st'[u])
  BY <1>1
<1>3. DOMAIN job' = Workers /\ \A u \in Workers : job'[u] = job[u] \/ job'[u] = NoJob
  BY <1>1
<1>4. /\ \A u \in Workers : job'[u] = NoJob \/ Loading(slot, job'[u])
      /\ \A y, u \in Workers : y # u => job'[y] = NoJob \/ job'[u] = NoJob
  BY <1>1, <1>3, ZenonT(40)
<1>5. Workings(slot', st', job')
  BY <1>1, <1>2, <1>3, <1>4 DEF Workings
<1>6. IInv'
  BY <1>1, <1>5, SameHistory
<1> QED BY <1>6 DEF Good, Moves, HoleFree

LEMMA NewStreamPurposeful ==
    ASSUME NEW x
    PROVE  Purposeful(NewStream) /\ Purposeful([NewStream EXCEPT !.want = x])
BY DEF NewStream, Purposeful, StreamFields

LEMMA LostGood ==
    ASSUME IInv, NEW w \in Workers, Lost(w)
    PROVE  Good
<1>1. PICK x : x = [NewStream EXCEPT !.want = st[w].want]
  BY Zenon
<1>2. Purposeful(x)
  BY <1>1, NewStreamPurposeful
<1>3. st' = [st EXCEPT ![w] = x] /\ UNCHANGED <<slot, hist, now>> /\ job' = job
  BY <1>1, ZenonT(40) DEF Lost
<1> QED BY <1>2, <1>3, DroppedGood, Zenon

LEMMA CrashGood ==
    ASSUME IInv, NEW w \in Workers, Crash(w)
    PROVE  Good
<1>1. PICK x : x = NewStream
  OBVIOUS
<1>2. Purposeful(x)
  BY <1>1, NewStreamPurposeful, Zenon
<1>3. /\ st' = [st EXCEPT ![w] = x] /\ UNCHANGED <<slot, hist, now>>
      /\ job' = [job EXCEPT ![w] = NoJob]
  BY <1>1 DEF Crash
<1> QED BY <1>2, <1>3, DroppedGood, Zenon

LEMMA LoseReplyGood ==
    ASSUME IInv, NEW w \in Workers, LoseReply(w)
    PROVE  Good
<1>1. UNCHANGED <<slot, st, job, hist, now>>
  BY DEF LoseReply
<1>2. History /\ Workings(slot', st', job')
  BY <1>1 DEF IInv
<1>3. IInv'
  BY <1>1, <1>2, SameHistory
<1> QED BY <1>1, <1>3, Zenon DEF Good, Moves, HoleFree

LEMMA ClaimLapsesGood ==
    ASSUME IInv, ClaimLapses
    PROVE  Good
<1>1. slot' = [slot EXCEPT !.claimed = FALSE] /\ UNCHANGED <<st, job, hist, now>>
  BY DEF ClaimLapses
<1>2. History /\ Overlay(slot) /\ Settled(slot) /\ DOMAIN slot = SlotFields
  BY DEF IInv, Workings, Overlay
<1>3. Touched(slot, slot')
  BY <1>1, <1>2, ZenonT(40) DEF Touched, SlotFields
<1>4. Overlay(slot') /\ Settled(slot') /\ \A j : Loading(slot, j) => Loading(slot', j)
  BY <1>2, <1>3, TouchedWorkings
<1>5. Workings(slot', st', job')
  BY <1>1, <1>4, ZenonT(40) DEF IInv, Workings
<1>6. IInv'
  BY <1>1, <1>2, <1>5, SameHistory
<1> QED BY <1>3, <1>6 DEF Good, Moves, HoleFree, Touched

(* A new version leaves those before it, and all that refers to them. *)
LEMMA VersionGood ==
    ASSUME Counting, IInv, NEW v \in (1..MaxEpoch) \X Nat, Version(v),
           \/ v[1] = now[1] /\ v[2] = now[2] + 1
           \/ v[1] > now[1] /\ v[2] = 0
    PROVE  /\ Good /\ v \notin DOMAIN hist /\ v[2] < Len(Contents)
           /\ DOMAIN hist' = DOMAIN hist \cup {v} /\ DOMAIN hist'[v] \subseteq Keys
           /\ \A u \in DOMAIN hist : hist'[u] = hist[u]
<1>1. PICK n : n = Cardinality(DOMAIN hist) + 1
  OBVIOUS
<1>2. /\ n <= Len(Contents) /\ now' = v /\ UNCHANGED <<slot, st, job>>
      /\ hist' = [u \in DOMAIN hist \cup {v} |-> IF u = v THEN Contents[n] ELSE hist[u]]
  BY <1>1 DEF Version
<1>3. History /\ Workings(slot, st, job)
  BY ZenonT(40) DEF IInv
<1>4. /\ IsFiniteSet(DOMAIN hist) /\ now \in DOMAIN hist /\ now[2] < Cardinality(DOMAIN hist)
      /\ now[1] \in 1..MaxEpoch /\ now[2] \in Nat
  BY <1>3 DEF History
<1>0. \A u \in DOMAIN hist :
         /\ u \in (1..MaxEpoch) \X Nat /\ u[1] \in Nat /\ u[2] \in Nat
         /\ u[1] < now[1] \/ (u[1] = now[1] /\ u[2] <= now[2])
         /\ DOMAIN hist[u] \subseteq Keys
  BY <1>3 DEF History
<1>19. v[1] \in Nat /\ v[2] \in Nat /\ now[1] \in Nat /\ now[2] \in Nat
  BY <1>4
<1>5. v \notin DOMAIN hist
  BY <1>0, <1>19
<1>6. /\ IsFiniteSet(DOMAIN hist \cup {v}) /\ Cardinality(DOMAIN hist \cup {v}) = n
      /\ Cardinality(DOMAIN hist) \in Nat
  BY <1>1, <1>4, <1>5, Zenon DEF Counting
<1>7. n \in 1 .. Len(Contents) /\ Len(Contents) \in Nat
  BY <1>1, <1>2, <1>6, SyncAssumption
<1>8. DOMAIN Contents[n] \subseteq Keys
  BY <1>7, SyncAssumption, ZenonT(40)
<1>9. /\ DOMAIN hist' = DOMAIN hist \cup {v} /\ hist'[v] = Contents[n]
      /\ \A u \in DOMAIN hist : hist'[u] = hist[u]
  BY <1>2, <1>5
<1>10. v[2] < n
  BY <1>1, <1>4, <1>6
<1>11. History'
  <2>1. /\ IsFiniteSet(DOMAIN hist') /\ Cardinality(DOMAIN hist') <= Len(Contents)
        /\ now' \in DOMAIN hist' /\ now'[2] < Cardinality(DOMAIN hist')
    BY <1>2, <1>6, <1>9, <1>10, Zenon
  <2>2. ASSUME NEW u \in DOMAIN hist'
        PROVE  /\ u \in (1..MaxEpoch) \X Nat
               /\ u[1] < now'[1] \/ (u[1] = now'[1] /\ u[2] <= now'[2])
               /\ DOMAIN hist'[u] \subseteq Keys
    <3>1. CASE u = v
      BY <1>2, <1>8, <1>9, <3>1
    <3>2. CASE u \in DOMAIN hist
      BY <1>0, <1>2, <1>9, <1>19, <3>2
    <3> QED BY <1>9, <3>1, <3>2, Zenon
  <2> QED BY <2>1, <2>2 DEF History
<1>12. Overlay(slot)' /\ DOMAIN st' = Workers /\ DOMAIN job' = Workers
       /\ \A w, u \in Workers : w # u => job'[w] = NoJob \/ job'[u] = NoJob
  <2>1. slot' = slot /\ st' = st /\ job' = job
    BY <1>2
  <2>2. Overlay(slot)
    BY <1>3, Zenon DEF Workings
  <2>3. Overlay(slot)'
    BY <2>1, <2>2 DEF Overlay, Counts
  <2> QED BY <1>3, <2>1, <2>3, Zenon DEF Workings
<1>13. Settled(slot)'
  BY <1>2, <1>3, <1>9, Zenon DEF Workings, Settled, Mirrored, Held, Roomy
<1>14. \A w \in Workers : Purposeful(st[w])'
  BY <1>2, <1>3, <1>9, Zenon DEF Workings, Purposeful
<1>15. ASSUME NEW w \in Workers PROVE (job[w] = NoJob \/ Loading(slot, job[w]))'
  <2>1. PICK j : j = job[w]
    BY ZenonT(40)
  <2>2. job'[w] = j /\ (j = NoJob \/ Loading(slot, j))
    BY <1>2, <1>3, <2>1, Zenon DEF Workings
  <2>3. ASSUME Loading(slot, j) PROVE Loading(slot, job[w])'
    <3>1. j.v \in DOMAIN hist
      BY <2>3 DEF Loading
    <3>2. ASSUME InPackage(slot, j) PROVE InPackage(slot, job[w])'
      <4>1. <<j.v[1], j.v[2] - 1>> = <<slot.epoch, slot.seq>> /\ <<slot.epoch, slot.seq>> \in DOMAIN hist
        <5>1. j.v = <<slot.epoch, slot.seq + 1>> /\ <<slot.epoch, slot.seq>> \in DOMAIN hist
          BY <3>2, Zenon DEF InPackage
        <5>2. slot.seq \in Nat
          BY <1>3, SeqNat, Zenon DEF Workings
        <5> QED BY <5>1, <5>2
      <4>2. hist'[j.v] = hist[j.v]
            /\ hist'[<<j.v[1], j.v[2] - 1>>] = hist[<<j.v[1], j.v[2] - 1>>]
        BY <1>9, <3>1, <4>1, Zenon
      <4>3. (PackageOf(j.v))' = PackageOf(j.v)
        BY <4>2, Zenon DEF PackageOf, Add
      <4>4. slot' = slot /\ job'[w] = j /\ DOMAIN hist \subseteq DOMAIN hist'
        BY <1>2, <1>9, <2>2, Zenon
      <4>5. PICK e : e = <<slot.epoch, slot.seq>>
        BY Zenon
      <4>6. /\ j.v = <<slot.epoch, slot.seq + 1>> /\ e \in DOMAIN hist'
            /\ j.left \subseteq PackageOf(j.v)
        BY <3>2, <4>4, <4>5, Zenon DEF InPackage
      <4>7. hist'[e] = hist[e] /\ hist'[j.v] = hist[j.v]
        BY <4>1, <4>2, <4>5, Zenon
      <4>8. Mirrored(slot)' = Mirrored(slot)
        BY <4>4, Zenon DEF Mirrored
      <4>9. ASSUME Roomy, ~slot.snap_bad, NEW k \in Keys
            PROVE  k \in Mirrored(slot) <=>
                     k \in DOMAIN hist'[IF \E r \in j.left : r.key = k THEN e ELSE j.v]
        <5>1. k \in Mirrored(slot) <=>
                k \in DOMAIN hist[IF \E r \in j.left : r.key = k THEN e ELSE j.v]
          BY <3>2, <4>5, <4>9, Zenon DEF InPackage
        <5> QED BY <4>7, <5>1, Zenon
      <4> QED BY <4>3, <4>4, <4>5, <4>6, <4>8, <4>9, Zenon DEF InPackage
    <3>3. ASSUME InSnapshot(slot, j) PROVE InSnapshot(slot, job[w])'
      <4>1. slot' = slot /\ job'[w] = j /\ hist'[j.v] = hist[j.v]
        BY <1>2, <1>9, <2>2, <3>1, Zenon
      <4>2. SnapshotOf(j.v)' = SnapshotOf(j.v)
        BY <4>1, Zenon DEF SnapshotOf, Add
      <4> QED BY <3>3, <4>1, <4>2, Zenon DEF InSnapshot
    <3> QED BY <1>2, <1>9, <2>2, <2>3, <3>1, <3>2, <3>3, Zenon DEF Loading
  <2> QED BY <2>2, <2>3
<1>16. IInv'
  BY <1>11, <1>12, <1>13, <1>14, <1>15, Zenon DEF IInv, Workings
<1>17. Moves /\ HoleFree
  BY <1>2, Zenon DEF Moves, HoleFree
<1>18. v[2] < Len(Contents)
  BY <1>2, <1>7, <1>10
<1> QED BY <1>5, <1>8, <1>9, <1>16, <1>17, <1>18 DEF Good

(* A worker with a load is the only one. *)
LEMMA OneLoads ==
    ASSUME IInv, NEW w \in Workers, job[w].kind \in {"package", "snapshot"}
    PROVE  /\ Loading(slot, job[w]) /\ slot.syncing
           /\ \A u \in Workers \ {w} : job[u] = NoJob
<1>1. job[w] # NoJob
  BY DEF NoJob
<1> QED BY <1>1, ZenonT(40) DEF IInv, Workings, Loading

(* A record of a package. *)
Without(j, r) == [j EXCEPT !.left = @ \ {r}]

Recorded(s, r) ==
    IF r.op = "remove" THEN live_drop(s, r.key)
    ELSE live_put(s, r.key, r.exp, {<<s.epoch, r.key>>})

LEMMA PackageRecordStep ==
    ASSUME Counting, History, NEW s, Overlay(s), Settled(s),
           NEW j, Loading(s, j), j.kind = "package",
           NEW r \in j.left, NEW i, i = Without(j, r), NEW t, t = Recorded(s, r)
    PROVE  /\ Overlay(t) /\ Settled(t) /\ Loading(t, i)
           /\ t.epoch = s.epoch /\ t.seq = s.seq
           /\ \A k \in DOMAIN s.live \ DOMAIN t.live : [op |-> "remove", key |-> k, exp |-> 0] \in j.left
<1>1. /\ DOMAIN j = JobFields /\ j.v \in DOMAIN hist /\ s.syncing /\ InPackage(s, j)
  BY Zenon DEF Loading
<1>2. /\ j.v = <<s.epoch, s.seq + 1>> /\ <<s.epoch, s.seq>> \in DOMAIN hist
      /\ j.left \subseteq PackageOf(j.v) /\ s.seq \in Nat
  BY <1>1, SeqNat, Zenon DEF InPackage
<1>3. PICK old, new : old = hist[<<s.epoch, s.seq>>] /\ new = hist[j.v]
  BY Zenon
<1>4. <<j.v[1], j.v[2] - 1>> = <<s.epoch, s.seq>>
  BY <1>2
<1>5. \A x \in j.left :
        \/ x = [op |-> "remove", key |-> x.key, exp |-> 0] /\ x.op = "remove"
             /\ x.key \in DOMAIN old /\ x.key \notin DOMAIN new
        \/ x = [op |-> "add", key |-> x.key, exp |-> new[x.key]] /\ x.op = "add"
             /\ x.key \in DOMAIN new
  <2>1. old = hist[<<j.v[1], j.v[2] - 1>>]
    BY <1>3, <1>4
  <2> QED BY <1>2, <1>3, <2>1, PackageRecords
<1>6. DOMAIN old \subseteq Keys /\ DOMAIN new \subseteq Keys
  BY <1>1, <1>2, <1>3, Zenon DEF History
<1>7. PICK k : k = r.key
  BY Zenon
<1>8. k \in Keys
  BY <1>5, <1>6, <1>7
<1>9. \A x \in j.left : x.key = k => x = r
  BY <1>5, <1>7
<1>10. DOMAIN i = JobFields /\ i.v = j.v /\ i.kind = "package" /\ i.left = j.left \ {r}
  BY <1>1 DEF JobFields, Without
<1>11. /\ \A y : y # k => ((\E x \in i.left : x.key = y) <=> (\E x \in j.left : x.key = y))
       /\ ~(\E x \in i.left : x.key = k) /\ \E x \in j.left : x.key = k
  BY <1>7, <1>9, <1>10
<1>12. /\ Overlay(t) /\ Beside(s, t)
       /\ \A y \in Keys \ {k} : y \in Mirrored(t) <=> y \in Mirrored(s)
       /\ Roomy => (k \in Mirrored(t) <=> k \in DOMAIN new)
       /\ r.op = "remove" \/ DOMAIN s.live \subseteq DOMAIN t.live
       /\ DOMAIN s.live \ DOMAIN t.live \subseteq {k}
  <2>1. CASE r.op = "remove" /\ k \in DOMAIN s.live
    <3>1. t = live_delete(s, k)
      BY <1>7, <2>1, Zenon DEF live_drop, Recorded
    <3>2. Overlay(t) /\ Beside(s, t) /\ t.live = [x \in DOMAIN s.live \ {k} |-> s.live[x]]
      BY <2>1, <3>1, DeleteStep
    <3> QED BY <1>5, <1>7, <2>1, <3>2 DEF Mirrored
  <2>2. CASE r.op = "remove" /\ k \notin DOMAIN s.live
    <3>1. t = s
      BY <1>7, <2>2, ZenonT(40) DEF live_drop, Recorded
    <3> QED BY <1>5, <1>7, <2>2, <3>1 DEF Mirrored, Overlay, Beside
  <2>3. CASE r.op # "remove"
    <3>1. PICK h : h = {<<s.epoch, k>>}
      BY ZenonT(40)
    <3>2. h # {} /\ \A p \in h : p[2] = k
      BY <3>1
    <3>3. t = live_put(s, k, r.exp, h)
      BY <1>7, <2>3, <3>1, Zenon DEF Recorded
    <3>4. /\ Overlay(t) /\ Beside(s, t)
          /\ Entered(s, t, k, h) \/ (t = s /\ k \notin DOMAIN s.live /\ ~Roomy)
      BY <1>8, <3>2, <3>3, PutStep, Zenon
    <3>5. k \in DOMAIN new
      BY <1>5, <1>7, <2>3
    <3>6. CASE Entered(s, t, k, h)
      BY <3>2, <3>4, <3>5, <3>6, ZenonT(40) DEF Entered, Mirrored
    <3> QED BY <3>4, <3>6, ZenonT(40)
  <2> QED BY <2>1, <2>2, <2>3, ZenonT(40)
<1>13. /\ t.epoch = s.epoch /\ t.seq = s.seq /\ t.syncing = s.syncing /\ t.snap_bad = s.snap_bad
  BY <1>12, Zenon DEF Beside
<1>14. Settled(t)
  BY <1>1, <1>2, <1>13, ZenonT(40) DEF Settled
<1>15. InPackage(t, i)
  <2>1. ASSUME Roomy, ~t.snap_bad, NEW y \in Keys
        PROVE  y \in Mirrored(t) <=>
            y \in DOMAIN hist[IF \E x \in i.left : x.key = y THEN <<t.epoch, t.seq>> ELSE i.v]
    <3>1. y \in Mirrored(s) <=>
            y \in DOMAIN hist[IF \E x \in j.left : x.key = y THEN <<s.epoch, s.seq>> ELSE j.v]
      BY <1>1, <1>13, <2>1, Zenon DEF InPackage
    <3>2. CASE y = k
      BY <1>3, <1>10, <1>11, <1>12, <2>1, <3>2, ZenonT(40)
    <3>3. CASE y # k
      BY <1>10, <1>11, <1>12, <1>13, <2>1, <3>1, <3>3, ZenonT(40)
    <3> QED BY <3>2, <3>3, Zenon
  <2>2. i.left \subseteq PackageOf(i.v) /\ i.v = <<t.epoch, t.seq + 1>>
        /\ <<t.epoch, t.seq>> \in DOMAIN hist
    BY <1>2, <1>10, <1>13, Zenon
  <2> QED BY <2>1, <2>2, ZenonT(40) DEF InPackage
<1>16. Loading(t, i)
  BY <1>1, <1>10, <1>13, <1>15, ZenonT(40) DEF Loading
<1>17. r.op = "remove" => [op |-> "remove", key |-> k, exp |-> 0] \in j.left
  BY <1>5, <1>7
<1> QED BY <1>12, <1>13, <1>14, <1>16, <1>17, ZenonT(40)

LEMMA PackageBatchGood ==
    ASSUME Counting, IInv, NEW w \in Workers, NEW store, PackageBatch(w, store)
    PROVE  Good
<1>1. PICK c, j : c = Ctx(w, store) /\ j = job[w]
  BY Zenon
<1>2. /\ Context(c) /\ c.slot = slot /\ c.job = j /\ slot.seq \in Nat
      /\ DOMAIN c = CtxFields /\ Purposeful(c.st)
  BY <1>1, CtxContext, Zenon DEF Context
<1>3. /\ History /\ Overlay(slot) /\ Settled(slot) /\ j.kind = "package"
      /\ Loading(slot, j) /\ \A u \in Workers \ {w} : job[u] = NoJob
  BY <1>1, OneLoads, ZenonT(40) DEF IInv, Workings, PackageBatch
<1>4. DOMAIN slot = SlotFields /\ DOMAIN j = JobFields /\ InPackage(slot, j) /\ j.v \in DOMAIN hist
  BY <1>3, Zenon DEF Overlay, Loading
<1>5. ASSUME NEW r \in j.left, NEW b,
             b = [c EXCEPT !.job.left = @ \ {r},
                           !.slot = IF r.op = "remove" THEN live_drop(@, r.key)
                                    ELSE live_put(@, r.key, r.exp, {<<@.epoch, r.key>>})],
             Becomes(w, b)
      PROVE  Good
  <2>1. PICK i, t : i = Without(j, r) /\ t = Recorded(slot, r)
    OBVIOUS
  <2>2. b.job = i /\ b.slot = t /\ b.st = c.st
    BY <1>2, <1>5, <2>1 DEF CtxFields, Without, Recorded
  <2>3. /\ Overlay(t) /\ Settled(t) /\ Loading(t, i) /\ t.epoch = slot.epoch /\ t.seq = slot.seq
        /\ \A k \in DOMAIN slot.live \ DOMAIN t.live :
              [op |-> "remove", key |-> k, exp |-> 0] \in j.left
    BY <1>3, <1>5, <2>1, PackageRecordStep
  <2>4. IInv'
    BY <1>2, <1>3, <1>5, <2>2, <2>3, OneWorker, Zenon
  <2>5. slot' = t
    BY <1>5, <2>2 DEF Becomes
  <2> QED BY <1>1, <1>3, <2>3, <2>4, <2>5, ZenonT(40) DEF Good, Moves, HoleFree
<1>6. ASSUME j.left = {}, NEW d, NEW rc,
             d = [c EXCEPT !.slot.seq = j.v[2], !.slot.syncing = FALSE, !.job = NoJob],
             Becomes(w, package_done(IF j.inline THEN d ELSE reset(d), rc))
      PROVE  Good
  <2>1. PICK t : t = [slot EXCEPT !.seq = j.v[2], !.syncing = FALSE]
    OBVIOUS
  <2>2. DOMAIN d = CtxFields /\ d.slot = t /\ d.job = NoJob /\ d.st = c.st
    BY <1>2, <1>6, <2>1 DEF CtxFields
  <2>3. /\ DOMAIN t = SlotFields /\ t.epoch = slot.epoch /\ t.seq = j.v[2] /\ ~t.syncing
        /\ t.live = slot.live /\ t.hash = slot.hash /\ t.lens = slot.lens
        /\ t.snap_bad = slot.snap_bad
    BY <1>4, <2>1 DEF SlotFields
  <2>4. Overlay(t)
    BY <1>3, <2>3 DEF Overlay
  <2>5. j.v = <<t.epoch, t.seq>> /\ j.v[1] = slot.epoch /\ j.v[2] = slot.seq + 1
    BY <1>4, <2>3 DEF InPackage
  <2>6. t.epoch # 0 /\ t.seq \in Nat /\ DOMAIN hist[j.v] \subseteq Keys
    <3>1. j.v \in (1..MaxEpoch) \X Nat /\ DOMAIN hist[j.v] \subseteq Keys
      BY <1>3, <1>4, Zenon DEF History
    <3>2. j.v[1] # 0 /\ j.v[2] \in Nat
      BY <3>1
    <3> QED BY <2>3, <2>5, <3>1, <3>2, Zenon
  <2>7. Roomy /\ ~t.snap_bad => Mirrored(t) = DOMAIN hist[j.v]
    <3>1. ASSUME Roomy, ~t.snap_bad
          PROVE  \A k \in Keys : k \in Mirrored(slot) <=> k \in DOMAIN hist[j.v]
      BY <1>4, <1>6, <2>3, <3>1 DEF InPackage
    <3>2. Mirrored(t) = Mirrored(slot) /\ Mirrored(slot) \subseteq Keys
      BY <1>3, <2>3, Zenon DEF Mirrored, Overlay
    <3> QED BY <2>6, <3>1, <3>2, Zenon
  <2>8. Settled(t)
    BY <1>4, <2>3, <2>5, <2>6, <2>7, Zenon DEF Settled, Held
  <2>9. Context(d)
    BY <1>2, <2>2, <2>3, Zenon DEF Context
  <2>10. PICK e : e = IF j.inline THEN d ELSE reset(d)
    OBVIOUS
  <2>11. Kept(d, e)
    BY <2>9, <2>10, ResetKept, KeptSame
  <2>12. Context(e) /\ e.slot.seq \in Nat
    BY <2>2, <2>6, <2>11, Zenon DEF Kept, Touched
  <2>13. PICK r : r = package_done(e, rc)
    BY ZenonT(40)
  <2>14. Kept(d, r)
    BY <2>11, <2>12, <2>13, PackageDoneKept, KeptTwice
  <2>15. Touched(t, r.slot) /\ r.job = NoJob /\ Purposeful(r.st)
    BY <2>2, <2>14 DEF Kept, Context
  <2>16. Overlay(r.slot) /\ Settled(r.slot)
    BY <2>4, <2>8, <2>15, TouchedWorkings
  <2>17. Becomes(w, r)
    BY <1>6, <2>10, <2>13
  <2>18. IInv'
    BY <1>3, <2>15, <2>16, <2>17, OneWorker, ZenonT(40)
  <2>19. slot'.live = slot.live /\ slot'.epoch = j.v[1] /\ slot'.seq = j.v[2]
    BY <2>3, <2>5, <2>15, <2>17, Zenon DEF Becomes, Touched
  <2>20. j.v[2] >= slot.seq
    BY <1>2, <2>5
  <2>21. Moves /\ HoleFree
    BY <1>4, <2>19, <2>20, Zenon DEF Moves, HoleFree
  <2> QED BY <2>18, <2>21 DEF Good
<1> QED BY <1>1, <1>5, <1>6, ZenonT(40) DEF PackageBatch

(* A record of a snapshot that is marked, and the end of the marks. *)
LEMMA MarkBatchGood ==
    ASSUME IInv, NEW w \in Workers, MarkBatch(w)
    PROVE  Good
<1>1. PICK c, j : c = Ctx(w, TRUE) /\ j = job[w]
  BY Zenon
<1>2. /\ c.slot = slot /\ c.job = j /\ DOMAIN c = CtxFields /\ Purposeful(c.st)
  BY <1>1, CtxContext, ZenonT(40) DEF Context
<1>3. /\ History /\ Overlay(slot) /\ Settled(slot) /\ j.kind = "snapshot" /\ j.pass = "mark"
      /\ Loading(slot, j) /\ slot.syncing /\ \A u \in Workers \ {w} : job[u] = NoJob
  BY <1>1, OneLoads, Zenon DEF IInv, Workings, MarkBatch
<1>4. DOMAIN j = JobFields /\ InSnapshot(slot, j) /\ j.v \in DOMAIN hist
  BY <1>3, ZenonT(40) DEF Loading
<1>5. ASSUME NEW r \in j.left, NEW b,
             b = [c EXCEPT !.job.left = @ \ {r}, !.slot = live_mark(@, r.key)], Becomes(w, b)
      PROVE  Good
  <2>1. PICK i, t : i = [j EXCEPT !.left = @ \ {r}] /\ t = live_mark(slot, r.key)
    BY ZenonT(40)
  <2>2. b.job = i /\ b.slot = t /\ b.st = c.st
    BY <1>2, <1>5, <2>1 DEF CtxFields
  <2>3. /\ Overlay(t) /\ Beside(slot, t) /\ DOMAIN t.live = DOMAIN slot.live
        /\ \A x \in DOMAIN slot.live : x = r.key \/ slot.live[x].fresh => t.live[x].fresh
    <3>1. PICK k : k = r.key
      OBVIOUS
    <3>2. t = live_mark(slot, k)
      BY <2>1, <3>1
    <3>3. /\ Overlay(t) /\ Beside(slot, t) /\ Refreshed(slot, t)
          /\ \A x \in DOMAIN slot.live : x = k \/ slot.live[x].fresh => t.live[x].fresh
      BY <1>3, <3>2, MarkStep, Zenon
    <3> QED BY <3>1, <3>3, Zenon DEF Refreshed
  <2>4. t.epoch = slot.epoch /\ t.seq = slot.seq /\ t.syncing = slot.syncing
    BY <2>3, Zenon DEF Beside
  <2>5. Settled(t)
    BY <1>3, <2>4, ZenonT(40) DEF Settled
  <2>6. /\ DOMAIN i = JobFields /\ i.kind = "snapshot" /\ i.pass = "mark" /\ i.v = j.v
        /\ i.left = j.left \ {r} /\ i.cursor = j.cursor
    BY <1>3, <1>4, <2>1 DEF JobFields
  <2>7. InSnapshot(t, i)
    <3>1. /\ i.v[1] = t.epoch => i.v[2] >= t.seq
          /\ i.left \subseteq SnapshotOf(i.v) /\ i.cursor = 0
      BY <1>3, <1>4, <2>4, <2>6, Zenon DEF InSnapshot
    <3>2. ASSUME NEW k \in DOMAIN t.live \cap DOMAIN hist[i.v]
          PROVE  t.live[k].fresh \/ \E x \in i.left : x.key = k
      <4>1. slot.live[k].fresh \/ \E x \in j.left : x.key = k
        BY <1>3, <1>4, <2>3, <2>6, ZenonT(40) DEF InSnapshot
      <4> QED BY <2>3, <2>6, <4>1, Zenon
    <3> QED BY <2>6, <3>1, <3>2, Zenon DEF InSnapshot
  <2>8. Loading(t, i)
    BY <1>3, <1>4, <2>4, <2>6, <2>7, Zenon DEF Loading
  <2>9. IInv'
    BY <1>2, <1>3, <1>5, <2>2, <2>3, <2>5, <2>8, OneWorker, ZenonT(40)
  <2>10. slot' = t
    BY <1>5, <2>2 DEF Becomes
  <2> QED BY <2>3, <2>4, <2>9, <2>10, ZenonT(40) DEF Good, Moves, HoleFree
<1>6. ASSUME j.left = {}, NEW b, b = [c EXCEPT !.job.pass = "sweep"], Becomes(w, b)
      PROVE  Good
  <2>1. PICK i : i = [j EXCEPT !.pass = "sweep"]
    BY ZenonT(40)
  <2>2. b.job = i /\ b.slot = slot /\ b.st = c.st
    BY <1>2, <1>6, <2>1 DEF CtxFields
  <2>3. /\ DOMAIN i = JobFields /\ i.kind = "snapshot" /\ i.pass = "sweep" /\ i.v = j.v
        /\ i.left = j.left /\ i.cursor = j.cursor
    BY <1>3, <1>4, <2>1 DEF JobFields
  <2>4. InSnapshot(slot, i)
    BY <1>3, <1>4, <1>6, <2>3 DEF InSnapshot
  <2>5. Loading(slot, i)
    BY <1>3, <1>4, <2>3, <2>4, Zenon DEF Loading
  <2>6. IInv'
    BY <1>2, <1>3, <1>6, <2>2, <2>5, OneWorker, ZenonT(40)
  <2>7. slot' = slot
    BY <1>6, <2>2 DEF Becomes
  <2> QED BY <2>6, <2>7, Zenon DEF Good, Moves, HoleFree
<1> QED BY <1>1, <1>5, <1>6, ZenonT(40) DEF MarkBatch

(* The sweep takes out a node of no record of the snapshot, and goes on at a node. *)
LEMMA SweepBatchGood ==
    ASSUME Counting, IInv, NEW w \in Workers, SweepBatch(w)
    PROVE  Good
<1>1. PICK c, j : c = Ctx(w, TRUE) /\ j = job[w]
  BY Zenon
<1>2. /\ c.slot = slot /\ c.job = j /\ DOMAIN c = CtxFields /\ Purposeful(c.st)
  <2>1. \A store : Context(Ctx(w, store)) /\ Ctx(w, store).slot = slot /\ Ctx(w, store).job = job[w]
    BY CtxContext, Zenon
  <2>2. Context(c) /\ c.slot = slot /\ c.job = j
    BY <1>1, <2>1, Zenon
  <2> QED BY <2>2, Zenon DEF Context
<1>3. /\ History /\ Overlay(slot) /\ Settled(slot) /\ j.kind = "snapshot" /\ j.pass = "sweep"
      /\ Loading(slot, j) /\ slot.syncing /\ \A u \in Workers \ {w} : job[u] = NoJob
  BY <1>1, OneLoads DEF IInv, Workings, SweepBatch
<1>4. DOMAIN j = JobFields /\ InSnapshot(slot, j) /\ j.v \in DOMAIN hist
  BY <1>3, ZenonT(40) DEF Loading
<1>5. /\ j.v[1] = slot.epoch => j.v[2] >= slot.seq
      /\ \A k \in DOMAIN slot.live \cap DOMAIN hist[j.v] : slot.live[k].fresh
      /\ j.cursor # 0 => j.cursor \in DOMAIN Order /\ Order[j.cursor] \in DOMAIN slot.live
  BY <1>3, <1>4, Zenon DEF InSnapshot
<1>6. /\ Len(Order) \in Nat /\ DOMAIN Order = 1 .. Len(Order)
      /\ \A x, y \in DOMAIN Order : Order[x] = Order[y] => x = y
  BY Configured, SyncAssumption, Zenon
<1>7. \A s : s \subseteq DOMAIN Order => First(s) = 0 \/ First(s) \in s
  <2> SUFFICES ASSUME NEW s, s \subseteq DOMAIN Order, s # {} PROVE First(s) \in s
    BY DEF First
  <2>1. s \in SUBSET Nat
    BY <1>6
  <2>2. \E i \in s : \A x \in s : i <= x
    BY <2>1, Zenon DEF Counting
  <2> QED BY <2>2, Zenon DEF First
<1>9. /\ Nodes \subseteq DOMAIN Order /\ \A i \in Nodes : Order[i] \in DOMAIN slot.live
      /\ \A i \in DOMAIN Order : Order[i] \in DOMAIN slot.live => i \in Nodes
  BY <1>6, Zenon DEF Nodes
<1> DEFINE node == SweepNode(job[w])
           next == First({x \in Nodes : x > node})
           swept == node # 0 /\ ~slot.live[Order[node]].fresh
           b == [Ctx(w, TRUE) EXCEPT
                    !.slot = IF swept THEN live_delete(@, Order[node]) ELSE @,
                    !.job.cursor = next, !.job.left = SnapshotOf(job[w].v),
                    !.job.pass = IF next = 0 THEN "put" ELSE @]
<1>10. Becomes(w, b)
  BY ZenonT(40) DEF SweepBatch
<1>11. node # 0 => node \in Nodes
  BY <1>1, <1>5, <1>7, <1>9, Zenon DEF SweepNode
<1> HIDE DEF node
<1>12. next # 0 => next \in Nodes /\ next > node
  <2>1. PICK later : later = {x \in Nodes : x > node}
    BY Zenon
  <2>2. later \subseteq DOMAIN Order /\ next = First(later)
    BY <1>9, <2>1
  <2> HIDE DEF next
  <2> QED BY <1>7, <2>1, <2>2
<1> HIDE DEF next
<1>13. swept => node # 0 /\ ~slot.live[Order[node]].fresh
  BY Zenon
<1> HIDE DEF swept
<1>14. PICK t : t = IF swept THEN live_delete(slot, Order[node]) ELSE slot
  OBVIOUS
<1>15. b = [c EXCEPT !.slot = t, !.job.cursor = next, !.job.left = SnapshotOf(j.v),
                     !.job.pass = IF next = 0 THEN "put" ELSE @]
  BY <1>1, <1>2, <1>14, Zenon
<1> HIDE DEF b
<1>19. PICK i : i = [j EXCEPT !.cursor = next, !.left = SnapshotOf(j.v),
                              !.pass = IF next = 0 THEN "put" ELSE @]
  OBVIOUS
<1>20. b.job = i /\ b.slot = t /\ b.st = c.st
  BY <1>2, <1>15, <1>19, ZenonT(40) DEF CtxFields
<1>21. /\ DOMAIN i = JobFields /\ i.kind = "snapshot" /\ i.v = j.v /\ i.left = SnapshotOf(j.v)
       /\ i.cursor = next /\ i.pass = IF next = 0 THEN "put" ELSE "sweep"
  BY <1>3, <1>4, <1>19 DEF JobFields
<1>22. /\ Overlay(t) /\ Beside(slot, t)
       /\ DOMAIN t.live = DOMAIN slot.live \ (IF swept THEN {Order[node]} ELSE {})
       /\ \A k \in DOMAIN t.live : t.live[k] = slot.live[k]
  <2>1. CASE swept
    <3>1. PICK k : k = Order[node] /\ k \in DOMAIN slot.live
      BY <1>9, <1>11, <1>13, <2>1, Zenon
    <3>2. t = live_delete(slot, k)
      BY <1>14, <2>1, <3>1
    <3>3. Overlay(t) /\ Beside(slot, t) /\ t.live = [x \in DOMAIN slot.live \ {k} |-> slot.live[x]]
      <4>1. Overlay(slot) /\ k \in DOMAIN slot.live
        BY <1>3, <3>1, Zenon
      <4> QED BY <3>2, <4>1, DeleteStep
    <3> QED BY <2>1, <3>1, <3>3, Zenon
  <2>2. CASE ~swept
    <3>1. t = slot
      BY <1>14, <2>2
    <3>2. Overlay(t) /\ Beside(slot, t)
      <4>1. Overlay(slot) /\ DOMAIN slot = SlotFields
        BY <1>3, Zenon DEF Overlay
      <4> QED BY <3>1, <4>1 DEF Beside
    <3> QED BY <2>2, <3>1, <3>2, Zenon
  <2> QED BY <2>1, <2>2, ZenonT(40)
<1>23. t.epoch = slot.epoch /\ t.seq = slot.seq /\ t.syncing = slot.syncing
  BY <1>22, Zenon DEF Beside
<1>24. Settled(t)
  BY <1>3, <1>23, ZenonT(40) DEF Settled
<1>25. next # 0 => next \in DOMAIN Order /\ Order[next] \in DOMAIN t.live
  <2> SUFFICES ASSUME next # 0 PROVE next \in DOMAIN Order /\ Order[next] \in DOMAIN t.live
    OBVIOUS
  <2>1. next \in DOMAIN Order /\ Order[next] \in DOMAIN slot.live /\ next > node
    BY <1>9, <1>12
  <2>2. swept => Order[next] # Order[node]
    BY <1>6, <1>9, <1>11, <1>13, <2>1
  <2> QED BY <1>22, <2>1, <2>2, Zenon
<1>26. InSnapshot(t, i)
  <2>1. \A k \in DOMAIN t.live \cap DOMAIN hist[i.v] : t.live[k].fresh
    BY <1>5, <1>21, <1>22, Zenon
  <2> QED BY <1>5, <1>21, <1>23, <1>25, <2>1, Zenon DEF InSnapshot
<1>27. Loading(t, i)
  BY <1>3, <1>4, <1>21, <1>23, <1>26, Zenon DEF Loading
<1>28. IInv'
  BY <1>2, <1>3, <1>10, <1>20, <1>22, <1>24, <1>27, OneWorker, ZenonT(40)
<1>29. slot' = t
  BY <1>10, <1>20 DEF Becomes
<1>30. \A k \in DOMAIN slot.live \ DOMAIN t.live : ~slot.live[k].fresh /\ k \notin DOMAIN hist[j.v]
  BY <1>5, <1>13, <1>22, ZenonT(40)
<1>31. HoleFree
  BY <1>1, <1>3, <1>29, <1>30, Zenon DEF HoleFree
<1> QED BY <1>23, <1>28, <1>29, <1>31 DEF Good, Moves

(* The snapshot is put: a record, or its end, where the slot gets the version and the *)
(* mark of a bad snapshot.                                                            *)
LEMMA PutBatchGood ==
    ASSUME Counting, IInv, NEW w \in Workers, NEW store, PutBatch(w, store)
    PROVE  Good
<1>1. PICK c, j : c = Ctx(w, store) /\ j = job[w]
  OBVIOUS
<1>2. /\ Context(c) /\ c.slot = slot /\ c.job = j /\ slot.seq \in Nat
      /\ DOMAIN c = CtxFields /\ Purposeful(c.st)
  <2>1. Context(c) /\ c.slot = slot /\ c.job = j /\ slot.seq \in Nat
    BY <1>1, CtxContext, Zenon
  <2> QED BY <2>1, Zenon DEF Context
<1>3. /\ History /\ Overlay(slot) /\ Settled(slot) /\ j.kind = "snapshot" /\ j.pass = "put"
      /\ Loading(slot, j) /\ slot.syncing /\ \A u \in Workers \ {w} : job[u] = NoJob
  BY <1>1, OneLoads, ZenonT(40) DEF IInv, Workings, PutBatch
<1>4. /\ DOMAIN slot = SlotFields /\ DOMAIN j = JobFields /\ InSnapshot(slot, j)
      /\ j.v \in DOMAIN hist
  BY <1>3, ZenonT(40) DEF Overlay, Loading
<1>5. /\ j.v[1] = slot.epoch => j.v[2] >= slot.seq
      /\ j.left \subseteq SnapshotOf(j.v)
  BY <1>4, ZenonT(40) DEF InSnapshot
<1>6. /\ j.v = <<j.v[1], j.v[2]>> /\ j.v[1] # 0 /\ j.v[2] \in Nat /\ DOMAIN hist[j.v] \subseteq Keys
  <2>1. j.v \in (1..MaxEpoch) \X Nat /\ DOMAIN hist[j.v] \subseteq Keys
    BY <1>3, <1>4, Zenon DEF History
  <2> QED BY <2>1
<1>7. ASSUME NEW r \in j.left, NEW b,
             b = [c EXCEPT !.job.left = @ \ {r},
                           !.slot = live_put(@, r.key, r.exp, {<<j.v[1], r.key>>})],
             Becomes(w, b)
      PROVE  Good
  <2>1. PICK i, k, h : i = [j EXCEPT !.left = @ \ {r}] /\ k = r.key /\ h = {<<j.v[1], r.key>>}
    BY Zenon
  <2>2. PICK t : t = live_put(slot, k, r.exp, h)
    OBVIOUS
  <2>3. b.job = i /\ b.slot = t /\ b.st = c.st
    BY <1>2, <1>7, <2>1, <2>2 DEF CtxFields
  <2>4. k \in Keys /\ \A p \in h : p[2] = k
    <3>1. r \in Add(hist[j.v], DOMAIN hist[j.v])
      BY <1>5, <1>7 DEF SnapshotOf
    <3>2. r.key \in DOMAIN hist[j.v]
      BY <3>1, AddRecords
    <3> QED BY <1>6, <2>1, <3>2
  <2>5. /\ Overlay(t) /\ Beside(slot, t) /\ (Entered(slot, t, k, h) \/ t = slot)
    <3>1. Overlay(slot)
      BY <1>3, Zenon
    <3> QED BY <2>2, <2>4, <3>1, PutStep
  <2>6. DOMAIN slot.live \subseteq DOMAIN t.live
    BY <2>5, Zenon DEF Entered
  <2>7. t.epoch = slot.epoch /\ t.seq = slot.seq /\ t.syncing = slot.syncing
    BY <2>5, Zenon DEF Beside
  <2>8. Settled(t)
    BY <1>3, <2>7, ZenonT(40) DEF Settled
  <2>9. /\ DOMAIN i = JobFields /\ i.kind = "snapshot" /\ i.pass = "put" /\ i.v = j.v
        /\ i.left = j.left \ {r}
    BY <1>3, <1>4, <2>1, Zenon DEF JobFields
  <2>10. InSnapshot(t, i)
    BY <1>5, <2>7, <2>9, Zenon DEF InSnapshot
  <2>11. Loading(t, i)
    BY <1>3, <1>4, <2>7, <2>9, <2>10, Zenon DEF Loading
  <2>12. IInv'
    BY <1>2, <1>3, <1>7, <2>3, <2>5, <2>8, <2>11, OneWorker, ZenonT(40)
  <2>13. slot' = t
    BY <1>7, <2>3 DEF Becomes
  <2> QED BY <2>6, <2>7, <2>12, <2>13, ZenonT(40) DEF Good, Moves, HoleFree
<1>8. ASSUME NEW d,
             d = [c EXCEPT !.slot.epoch = j.v[1], !.slot.seq = j.v[2], !.slot.syncing = FALSE,
                           !.slot.snap_bad = slot.hash # HashOf(j.v), !.job = NoJob],
             Becomes(w, snapshot_done(reset(d), "applied"))
      PROVE  Good
  <2>1. PICK t : t = [slot EXCEPT !.epoch = j.v[1], !.seq = j.v[2], !.syncing = FALSE,
                                  !.snap_bad = slot.hash # HashOf(j.v)]
    OBVIOUS
  <2>2. DOMAIN d = CtxFields /\ d.slot = t /\ d.job = NoJob /\ d.st = c.st
    BY <1>2, <1>8, <2>1 DEF CtxFields
  <2>3. /\ DOMAIN t = SlotFields /\ t.epoch = j.v[1] /\ t.seq = j.v[2]
        /\ t.live = slot.live /\ t.hash = slot.hash /\ t.lens = slot.lens
        /\ t.snap_bad = (slot.hash # HashOf(j.v))
    BY <1>4, <2>1 DEF SlotFields
  <2>4. Overlay(t)
    BY <1>3, <2>3 DEF Overlay
  <2>5. ~t.snap_bad => Mirrored(t) = DOMAIN hist[j.v]
    BY <2>3, <2>4, HashMirrored, ZenonT(40)
  <2>6. j.v = <<t.epoch, t.seq>> /\ t.epoch # 0
    BY <1>6, <2>3, Zenon
  <2>7. Settled(t)
    BY <1>4, <2>5, <2>6, Zenon DEF Settled, Held
  <2>8. Context(d) /\ d.slot.seq \in Nat
    BY <1>2, <1>6, <2>2, <2>3, Zenon DEF Context
  <2>9. Kept(d, reset(d)) /\ Context(reset(d)) /\ reset(d).slot.seq \in Nat
    BY <2>8, ResetKept, Zenon DEF Kept
  <2>10. PICK r : r = snapshot_done(reset(d), "applied")
    OBVIOUS
  <2>11. Kept(d, r)
    BY <2>9, <2>10, SnapshotDoneKept, KeptTwice, Zenon
  <2>12. Touched(t, r.slot) /\ r.job = NoJob /\ Purposeful(r.st)
    <3>1. Context(r) /\ r.job = d.job /\ Touched(d.slot, r.slot)
      BY <2>11, Zenon DEF Kept
    <3>2. Purposeful(r.st)
      BY <3>1, Zenon DEF Context
    <3> QED BY <2>2, <3>1, <3>2, Zenon
  <2>13. Overlay(r.slot) /\ Settled(r.slot)
    <3>1. PICK u : u = r.slot
      BY Zenon
    <3>2. Touched(t, u)
      BY <2>12, <3>1, Zenon
    <3>3. Overlay(u) /\ Settled(u)
      BY <2>4, <2>7, <3>2, TouchedWorkings
    <3> QED BY <3>1, <3>3, Zenon
  <2>14. Becomes(w, r)
    BY <1>8, <2>10
  <2>15. IInv'
    BY <1>3, <2>12, <2>13, <2>14, OneWorker, ZenonT(40)
  <2>16. slot'.live = slot.live /\ slot'.epoch = j.v[1] /\ slot'.seq = j.v[2]
    BY <2>3, <2>12, <2>14, Zenon DEF Becomes, Touched
  <2>17. Moves /\ HoleFree
    BY <1>4, <1>5, <2>16, Zenon DEF Moves, HoleFree
  <2> QED BY <2>15, <2>17 DEF Good
<1> QED BY <1>1, <1>7, <1>8, ZenonT(40) DEF PutBatch

-----------------------------------------------------------------------------
(* Every step.                                                               *)

(* What Publish and Restart publish. *)
LEMMA PublishVersion ==
    ASSUME IInv, Publish \/ Restart
    PROVE  \E v \in (1..MaxEpoch) \X Nat :
              Version(v) /\ \/ v[1] = now[1] /\ v[2] = now[2] + 1
                            \/ v[1] > now[1] /\ v[2] = 0
<1>1. now[1] \in 1..MaxEpoch /\ now[2] \in Nat /\ MaxEpoch \in Nat
  <2>1. now \in (1..MaxEpoch) \X Nat
    BY Zenon DEF IInv, History
  <2> QED BY <2>1, SyncAssumption
<1>2. CASE Publish
  <2>1. PICK v : v = <<now[1], now[2] + 1>>
    BY Zenon
  <2>2. v \in (1..MaxEpoch) \X Nat /\ v[1] = now[1] /\ v[2] = now[2] + 1
    BY <1>1, <2>1
  <2>3. Version(v)
    BY <1>2, <2>1 DEF Publish
  <2> QED BY <2>2, <2>3
<1>3. CASE Restart
  <2>1. PICK v : v = <<now[1] + 1, 0>>
    BY ZenonT(40)
  <2>2. v \in (1..MaxEpoch) \X Nat /\ v[1] > now[1] /\ v[2] = 0
    BY <1>1, <1>3, <2>1 DEF Restart
  <2>3. Version(v)
    BY <1>3, <2>1 DEF Restart
  <2> QED BY <2>2, <2>3
<1> QED BY <1>2, <1>3

LEMMA StutterGood ==
    ASSUME IInv, UNCHANGED vars
    PROVE  Good
<1>1. UNCHANGED <<slot, st, job, hist, now>>
  BY DEF vars
<1>2. History /\ Workings(slot', st', job')
  BY <1>1 DEF IInv
<1>3. IInv'
  BY <1>1, <1>2, SameHistory
<1> QED BY <1>1, <1>3, Zenon DEF Good, Moves, HoleFree

LEMMA StepGood ==
    ASSUME Counting, IInv, [Next]_vars
    PROVE  Good
<1>1. CASE \E w \in Workers :
              \/ Ready(w) \/ Lost(w) \/ Timer(w) \/ MarkBatch(w) \/ SweepBatch(w) \/ Crash(w)
              \/ LoseReply(w)
  BY <1>1, ReadyGood, LostGood, TimerGood, MarkBatchGood, SweepBatchGood, CrashGood,
     LoseReplyGood
<1>2. CASE \E w \in Workers : \E k \in Banned : Ban(w, k)
  BY <1>2, BanGood
<1>3. CASE \E w \in Workers : \E store \in BOOLEAN :
              \/ PackageBatch(w, store) \/ PutBatch(w, store)
              \/ \E n \in Notices : Notice(w, n, store)
  BY <1>3, PackageBatchGood, PutBatchGood, NoticeGood
<1>4. CASE \E w \in Workers : \E store \in BOOLEAN :
              \/ \E given \in BOOLEAN : Reply(w, given, store)
              \/ \E status \in Statuses : Fetched(w, store, status)
  BY <1>4, ReplyGood, FetchedGood
<1>5. CASE ClaimLapses
  BY <1>5, ClaimLapsesGood
<1>6. CASE Publish \/ Restart
  BY <1>6, PublishVersion, VersionGood, Zenon
<1>7. CASE UNCHANGED vars
  BY <1>7, StutterGood
<1> QED BY <1>1, <1>2, <1>3, <1>4, <1>5, <1>6, <1>7 DEF Next

-----------------------------------------------------------------------------
(* The refinement.                                                           *)

(* With room for all networks the mirror shows the version of the slot. *)
Published == [v \in DOMAIN hist |-> DOMAIN hist[v]]
At == <<slot.epoch, slot.seq>>
Shown ==
    IF ~slot.syncing /\ ~slot.snap_bad THEN Mirrored(slot)
    ELSE IF slot.epoch = 0 THEN {} ELSE DOMAIN hist[<<slot.epoch, slot.seq>>]

LEMMA ShownHeld ==
    Roomy /\ IInv => /\ Shown = Held(slot)
                     /\ \A v \in DOMAIN hist : v = <<v[1], v[2]>> /\ v[1] # 0
<1> SUFFICES ASSUME Roomy, IInv
             PROVE  Shown = Held(slot) /\ \A v \in DOMAIN hist : v = <<v[1], v[2]>> /\ v[1] # 0
  OBVIOUS
<1>1. Settled(slot) /\ \A v \in DOMAIN hist : v \in (1..MaxEpoch) \X Nat
  BY Zenon DEF IInv, Workings, History
<1>2. \A v \in DOMAIN hist : v = <<v[1], v[2]>> /\ v[1] # 0
  BY <1>1
<1>3. Shown = Held(slot)
  BY <1>1, ZenonT(40) DEF Settled, Shown, Held
<1> QED BY <1>2, <1>3

LEMMA ShownHeldNext ==
    Roomy /\ IInv' => Shown' = Held(slot)'
<1>1. (Roomy /\ IInv => Shown = Held(slot))'
  BY ShownHeld, PTL
<1> QED BY <1>1 DEF Roomy

(* A load that ends takes over its version; every other step of a worker stutters. *)
LEMMA AdoptStep ==
    ASSUME IInv, Moves, hist' = hist, Shown = Held(slot), Shown' = Held(slot)',
           \A v \in DOMAIN hist : v = <<v[1], v[2]>> /\ v[1] # 0
    PROVE  \/ UNCHANGED <<Published, At, Shown>>
           \/ \E v \in DOMAIN Published :
                 /\ v[1] = At[1] => v[2] >= At[2]
                 /\ At' = v /\ Shown' = Published[v] /\ UNCHANGED Published
<1>1. Published' = Published /\ DOMAIN Published = DOMAIN hist
      /\ (\A v \in DOMAIN hist : Published[v] = DOMAIN hist[v])
      /\ At[1] = slot.epoch /\ At[2] = slot.seq
  BY Zenon DEF Published, At
<1>2. CASE slot'.epoch = slot.epoch /\ slot'.seq = slot.seq
  BY <1>1, <1>2, Zenon DEF At, Held
<1>3. ASSUME NEW v \in DOMAIN hist, slot'.epoch = v[1], slot'.seq = v[2],
             v[1] = slot.epoch => v[2] >= slot.seq
      PROVE  /\ v \in DOMAIN Published /\ (v[1] = At[1] => v[2] >= At[2])
             /\ At' = v /\ Shown' = Published[v] /\ UNCHANGED Published
  <2>1. At' = v
    BY <1>3, ZenonT(40) DEF At
  <2>2. Shown' = DOMAIN hist[v]
    BY <1>3 DEF Held
  <2> QED BY <1>1, <1>3, <2>1, <2>2, Zenon
<1> QED BY <1>2, <1>3, Zenon DEF Moves

(* The keeper's new version leaves what the mirror shows. *)
LEMMA PublishStep ==
    ASSUME IInv, Shown = Held(slot), Shown' = Held(slot)', slot' = slot,
           NEW v, v \notin DOMAIN hist, DOMAIN hist' = DOMAIN hist \cup {v},
           DOMAIN hist'[v] \subseteq Keys, \A u \in DOMAIN hist : hist'[u] = hist[u]
    PROVE  /\ v \notin DOMAIN Published /\ DOMAIN Published' = DOMAIN Published \cup {v}
           /\ \A u \in DOMAIN Published : Published'[u] = Published[u]
           /\ Published'[v] \subseteq Keys /\ UNCHANGED <<At, Shown>>
<1>1. DOMAIN Published = DOMAIN hist /\ \A u \in DOMAIN hist : Published[u] = DOMAIN hist[u]
  BY Zenon DEF Published
<1>2. DOMAIN Published' = DOMAIN hist'
      /\ \A u \in DOMAIN hist' : Published'[u] = DOMAIN hist'[u]
  BY Zenon DEF Published
<1>3. At' = At
  BY DEF At
<1>4. Shown' = Shown
  BY Zenon DEF Held, IInv, Workings, Settled
<1> QED BY <1>1, <1>2, <1>3, <1>4, Zenon

-----------------------------------------------------------------------------
(* Numbers and finite sets.                                                 *)

INSTANCE FiniteSetTheorems

(* A set of naturals that is not empty has a least element. *)
LEMMA LeastNat ==
    ASSUME NEW T \in SUBSET Nat, T # {}
    PROVE  \E x \in T : \A y \in T : x <= y
<1>1. IsWellFoundedOn(OpToRel(<, Nat), Nat)
  BY NatLessThanWellFounded, Zenon
<1>2. PICK R : R = {ss \in Nat \X Nat : ss[1] < ss[2]}
  BY Zenon
<1>3. IsWellFoundedOn(R, Nat)
  BY <1>1, <1>2 DEF OpToRel
<1>4. PICK x \in T : \A y \in T : ~(<<y, x>> \in R)
  BY <1>3, WFMin, Zenon
<1>5. \A y \in T : <<y, x>> \in Nat \X Nat /\ <<y, x>>[1] = y /\ <<y, x>>[2] = x
  OBVIOUS
<1>6. \A y \in T : ~(y < x)
  BY <1>2, <1>4, <1>5, Zenon
<1> QED BY <1>6

(* There are finitely many networks: all are in the order of the tree. *)
LEMMA KeysFinite ==
    IsFiniteSet(Keys) /\ Cardinality(Keys) \in Nat
<1>1. Len(Order) \in Nat /\ DOMAIN Order = 1 .. Len(Order)
  BY Configured, Zenon
<1>2. Order \in [1 .. Len(Order) -> Keys]
  BY SyncAssumption
<1>3. \A k \in Keys : \E i \in 1 .. Len(Order) : Order[i] = k
  BY <1>1, SyncAssumption, Zenon
<1>4. Order \in Surjection(1 .. Len(Order), Keys)
  BY <1>2, <1>3 DEF Surjection
<1>5. IsFiniteSet(1 .. Len(Order))
  BY <1>1, FS_Interval
<1>6. IsFiniteSet(Keys)
  BY <1>4, <1>5, FS_Surjection
<1> QED BY <1>6, FS_CardinalityType

(* So has every overlay. *)
LEMMA NodesFinite ==
    ASSUME NEW S, S \subseteq Keys
    PROVE  /\ IsFiniteSet(S) /\ Cardinality(S) \in Nat
           /\ Roomy /\ S # Keys => Cardinality(S) < LiveMax
<1>1. IsFiniteSet(S) /\ Cardinality(S) <= Cardinality(Keys)
      /\ (Cardinality(Keys) = Cardinality(S) => Keys = S)
  BY KeysFinite, FS_Subset, Zenon
<1>2. Cardinality(S) \in Nat
  BY <1>1, FS_CardinalityType
<1>3. LiveMax \in Nat /\ Cardinality(Keys) \in Nat
  BY SyncAssumption, KeysFinite, Zenon
<1> QED BY <1>1, <1>2, <1>3 DEF Roomy

(* The counts after a node of k has come or gone. *)
LEMMA CountsStep ==
    ASSUME NEW D, D \subseteq Keys, NEW k \in Keys
    PROVE  /\ k \in D => Counts(D \ {k}) = [Counts(D) EXCEPT ![k[1]] = @ - 1]
           /\ k \notin D => Counts(D \cup {k}) = [Counts(D) EXCEPT ![k[1]] = @ + 1]
           /\ Counts(D) \in [0..Width -> Nat]
<1>0. k[1] \in 0..Width
  BY SyncAssumption, Zenon
<1> DEFINE Of(E, b) == {x \in E : x[1] = b}
<1>1. \A b : Of(D, b) \subseteq Keys /\ IsFiniteSet(Of(D, b)) /\ Cardinality(Of(D, b)) \in Nat
  BY NodesFinite
<1>2. \A b : b # k[1] => Of(D \ {k}, b) = Of(D, b) /\ Of(D \cup {k}, b) = Of(D, b)
  OBVIOUS
<1>3. /\ Of(D \ {k}, k[1]) = Of(D, k[1]) \ {k} /\ Of(D \cup {k}, k[1]) = Of(D, k[1]) \cup {k}
      /\ k \in D <=> k \in Of(D, k[1])
  OBVIOUS
<1>5. \A E : Counts(E) = [b \in 0..Width |-> Cardinality(Of(E, b))]
  BY DEF Counts
<1> HIDE DEF Of
<1>4. /\ k \in D => Cardinality(Of(D \ {k}, k[1])) = Cardinality(Of(D, k[1])) - 1
      /\ k \notin D => Cardinality(Of(D \cup {k}, k[1])) = Cardinality(Of(D, k[1])) + 1
  <2>1. PICK S : S = Of(D, k[1])
    OBVIOUS
  <2>2. IsFiniteSet(S)
    BY <1>1, <2>1
  <2>3. Cardinality(S \ {k}) = IF k \in S THEN Cardinality(S) - 1 ELSE Cardinality(S)
    BY <2>2, FS_RemoveElement
  <2>4. Cardinality(S \cup {k}) = IF k \in S THEN Cardinality(S) ELSE Cardinality(S) + 1
    BY <2>2, FS_AddElement
  <2> QED BY <1>3, <2>1, <2>3, <2>4, Zenon
<1>6. k \in D => Counts(D \ {k}) = [Counts(D) EXCEPT ![k[1]] = @ - 1]
  BY <1>0, <1>2, <1>4, <1>5, Zenon
<1>7. k \notin D => Counts(D \cup {k}) = [Counts(D) EXCEPT ![k[1]] = @ + 1]
  BY <1>0, <1>2, <1>4, <1>5, Zenon
<1>8. Counts(D) \in [0..Width -> Nat]
  BY <1>1, <1>5
<1> QED BY <1>6, <1>7, <1>8, Zenon

LEMMA Counted ==
    Counting
<1>1. \A T \in SUBSET Nat : T # {} => \E x \in T : \A y \in T : x <= y
  BY LeastNat, Zenon
<1>2. \A S, x : IsFiniteSet(S) /\ x \notin S =>
         /\ Cardinality(S) \in Nat /\ IsFiniteSet(S \cup {x})
         /\ Cardinality(S \cup {x}) = Cardinality(S) + 1
  <2> SUFFICES ASSUME NEW S, NEW x, IsFiniteSet(S), x \notin S
               PROVE  /\ Cardinality(S) \in Nat /\ IsFiniteSet(S \cup {x})
                      /\ Cardinality(S \cup {x}) = Cardinality(S) + 1
    BY Zenon
  <2>1. Cardinality(S) \in Nat
    BY FS_CardinalityType, Zenon
  <2>2. IsFiniteSet(S \cup {x})
        /\ Cardinality(S \cup {x}) = IF x \in S THEN Cardinality(S) ELSE Cardinality(S) + 1
    BY FS_AddElement, Zenon
  <2> QED BY <2>1, <2>2, Zenon
<1>3. \A S \in SUBSET Keys :
         Cardinality(S) \in Nat /\ (Roomy /\ S # Keys => Cardinality(S) < LiveMax)
  BY NodesFinite, Zenon
<1>4. \A D \in SUBSET Keys : \A k \in Keys :
         /\ k \in D => Counts(D \ {k}) = [Counts(D) EXCEPT ![k[1]] = @ - 1]
         /\ k \notin D => Counts(D \cup {k}) = [Counts(D) EXCEPT ![k[1]] = @ + 1]
  BY CountsStep, Zenon
<1> QED BY <1>1, <1>2, <1>3, <1>4, Zenon DEF Counting

(* The counts never make live_probe skip a network. *)
LEMMA OverlayExact ==
    Overlay(slot) => ProbeExact
<1> SUFFICES ASSUME Overlay(slot), NEW a \in 0..(2^Width - 1)
             PROVE  live_probe(slot, a) <=> \E k \in DOMAIN slot.live : MaskTo(a, k[1]) = k
  BY Zenon DEF ProbeExact
<1>1. PICK D : D = DOMAIN slot.live
  OBVIOUS
<1>2. D \subseteq Keys /\ slot.lens = Counts(D)
  BY <1>1, Zenon DEF Overlay
<1>3. ASSUME live_probe(slot, a)
      PROVE  \E k \in DOMAIN slot.live : MaskTo(a, k[1]) = k
  <2>1. PICK bits \in 0..Width : MaskTo(a, bits) \in DOMAIN slot.live
    BY <1>3, Zenon DEF live_probe
  <2>2. MaskTo(a, bits)[1] = bits
    BY DEF MaskTo
  <2> QED BY <2>1, <2>2, Zenon
<1>4. ASSUME NEW k \in DOMAIN slot.live, MaskTo(a, k[1]) = k
      PROVE  live_probe(slot, a)
  <2>1. k[1] \in 0..Width
    BY <1>1, <1>2, SyncAssumption, Zenon
  <2>2. PICK E : E = {x \in D : x[1] = k[1]}
    BY Zenon
  <2>3. E \subseteq Keys /\ E # {}
    BY <1>1, <1>2, <2>2, Zenon
  <2>4. IsFiniteSet(E)
    BY <2>3, NodesFinite, Zenon
  <2>5. Cardinality(E) # 0
    BY <2>3, <2>4, FS_EmptySet, Zenon
  <2>6. slot.lens[k[1]] = Cardinality(E)
    BY <1>2, <2>1, <2>2, Zenon DEF Counts
  <2> QED BY <1>4, <2>1, <2>5, <2>6, Zenon DEF live_probe
<1> QED BY <1>3, <1>4, Zenon

-----------------------------------------------------------------------------
(* The theorems.                                                             *)

LEMMA InitInv ==
    Init => IInv
<1> SUFFICES ASSUME Init PROVE IInv
  OBVIOUS
<1>1. PICK v : v = <<1, 0>>
  BY ZenonT(40)
<1>2. /\ hist = [u \in {v} |-> Contents[1]] /\ now = v /\ v[1] = 1 /\ v[2] = 0
      /\ v \in (1..MaxEpoch) \X Nat
  <2>1. hist = [u \in {v} |-> Contents[1]] /\ now = v
    BY <1>1, Zenon DEF Init
  <2>2. v[1] = 1 /\ v[2] = 0
    BY <1>1
  <2>3. v \in (1..MaxEpoch) \X Nat
    BY <1>1, Configured
  <2> QED BY <2>1, <2>2, <2>3, Zenon
<1>3. DOMAIN hist = {v} /\ hist[v] = Contents[1]
  BY <1>2, ZenonT(40)
<1>4. IsFiniteSet({v}) /\ Cardinality({v}) = 1
  BY FS_Singleton, ZenonT(40)
<1>5. DOMAIN Contents[1] \subseteq Keys /\ 1 <= Len(Contents) /\ Len(Contents) \in Nat
  BY Configured, Zenon
<1>6. History
  BY <1>2, <1>3, <1>4, <1>5 DEF History
<1>7. /\ DOMAIN slot = SlotFields /\ slot.epoch = 0 /\ slot.seq = 0 /\ slot.live = <<>>
      /\ slot.hash = {} /\ slot.lens = [b \in 0..Width |-> 0]
  BY ZenonT(40) DEF Init, SlotFields
<1>8. DOMAIN slot.live = {}
  <2>1. DOMAIN <<>> = {}
    OBVIOUS
  <2> QED BY <1>7, <2>1, Zenon
<1>9. slot.lens = Counts({})
  <2>1. \A b : {k \in {} : k[1] = b} = {}
    OBVIOUS
  <2> QED BY <1>7, <2>1, FS_EmptySet DEF Counts
<1>10. Overlay(slot)
  BY <1>7, <1>8, <1>9, Zenon DEF Overlay
<1>11. Settled(slot)
  BY <1>7, <1>8, Zenon DEF Settled, Mirrored, Held
<1>12. /\ DOMAIN st = Workers /\ DOMAIN job = Workers
       /\ \A w \in Workers : st[w] = NewStream /\ job[w] = NoJob
  BY Zenon DEF Init
<1>13. \A w \in Workers : Purposeful(st[w])
  BY <1>12, NewStreamPurposeful, ZenonT(40)
<1>14. Workings(slot, st, job)
  BY <1>10, <1>11, <1>12, <1>13, Zenon DEF Workings
<1> QED BY <1>6, <1>14 DEF IInv

(* The inductive invariant: the hash and the counts are those of the overlay, one worker *)
(* at most is in the middle of a load, and its load is as far as its records say.        *)
THEOREM Invariance == Spec => []IInv
<1>1. IInv /\ [Next]_vars => IInv'
  BY Counted, StepGood DEF Good
<1> QED BY InitInv, <1>1, PTL DEF Spec

(* live_probe finds an address exactly when a network of the overlay has it, through all *)
(* puts, drops, sweeps and bans of all workers.                                          *)
THEOREM Lookups == Spec => []ProbeExact
<1>1. IInv => ProbeExact
  BY OverlayExact, Zenon DEF IInv, Workings
<1> QED BY <1>1, Invariance, PTL

(* No step of any worker takes a network out of the overlay but a package's record for   *)
(* it or the sweep of a snapshot without it: the mark and the sweep of live_sweep leave  *)
(* no hole, whatever comes between their batches.                                        *)
THEOREM NoHolesLeft == Spec => NoHoles
<1>1. IInv /\ [Next]_vars => [HoleFree]_vars
  BY Counted, StepGood DEF Good
<1>2. Spec => [][HoleFree]_vars
  BY <1>1, Invariance, PTL DEF Spec
<1> QED BY <1>2 DEF HoleFree, NoHoles

(* The workers' slot implements DatasetMirror when the overlay has room for every network: *)
(* outside a load and unless it is marked snap_bad it has exactly the networks of one      *)
(* version of the keeper's, and it never goes back within an epoch.                        *)
THEOREM MirrorRefined ==
    ASSUME Roomy
    PROVE  Spec => MirrorsOneVersion
<1>1. Init => Mirror!Init
  <2> SUFFICES ASSUME Init PROVE Mirror!Init
    OBVIOUS
  <2>1. PICK v : v = <<1, 0>>
    BY Zenon
  <2>2. hist = [u \in {v} |-> Contents[1]]
    BY <2>1, Zenon DEF Init
  <2>3. DOMAIN Contents[1] \in SUBSET Keys
    <3>1. DOMAIN Contents[1] \subseteq Keys
      BY Configured, Zenon
    <3> QED BY <3>1
  <2>4. Published = [u \in {v} |-> DOMAIN Contents[1]]
    BY <2>2 DEF Published
  <2>5. slot.epoch = 0 /\ slot.seq = 0
    BY Zenon DEF Init
  <2>6. At = <<0, 0>> /\ Shown = {}
    BY <2>5, InitInv, ShownHeld DEF At, Held
  <2> QED BY <2>1, <2>3, <2>4, <2>6, Zenon DEF Mirror!Init, Mirror!Absent, Published, At,
             Shown
<1>2. IInv /\ IInv' /\ [Next]_vars => [Mirror!Next]_<<Published, At, Shown>>
  <2> SUFFICES ASSUME IInv, IInv', [Next]_vars
               PROVE  [Mirror!Next]_<<Published, At, Shown>>
    OBVIOUS
  <2>1. Moves
    BY Counted, StepGood DEF Good
  <2>2. Shown = Held(slot) /\ \A v \in DOMAIN hist : v = <<v[1], v[2]>> /\ v[1] # 0
    BY ShownHeld
  <2>3. Shown' = Held(slot)'
    BY ShownHeldNext
  <2>4. CASE hist' = hist
    <3>1. \/ UNCHANGED <<Published, At, Shown>>
          \/ \E v \in DOMAIN Published :
                /\ v[1] = At[1] => v[2] >= At[2]
                /\ At' = v /\ Shown' = Published[v] /\ UNCHANGED Published
      BY <2>1, <2>2, <2>3, <2>4, AdoptStep, Zenon
    <3> QED BY <3>1, ZenonT(40) DEF Mirror!Next, Mirror!Adopt, Published, At, Shown
  <2>5. CASE Publish \/ Restart
    <3>1. PICK v \in (1..MaxEpoch) \X Nat :
             Version(v) /\ \/ v[1] = now[1] /\ v[2] = now[2] + 1
                           \/ v[1] > now[1] /\ v[2] = 0
      BY <2>5, PublishVersion
    <3>2. /\ v \notin DOMAIN hist /\ v[2] < Len(Contents)
          /\ DOMAIN hist' = DOMAIN hist \cup {v} /\ DOMAIN hist'[v] \subseteq Keys
          /\ \A u \in DOMAIN hist : hist'[u] = hist[u]
      BY <3>1, Counted, VersionGood, ZenonT(40)
    <3>3. slot' = slot
      BY <3>1, Zenon DEF Version
    <3>4. /\ v \notin DOMAIN Published /\ DOMAIN Published' = DOMAIN Published \cup {v}
          /\ \A u \in DOMAIN Published : Published'[u] = Published[u]
          /\ Published'[v] \subseteq Keys /\ UNCHANGED <<At, Shown>>
      BY <2>2, <2>3, <3>2, <3>3, PublishStep, Zenon
    <3>5. v \in (1..MaxEpoch) \X (0..(Len(Contents) - 1))
      BY <3>1, <3>2, SyncAssumption
    <3> QED BY <3>4, <3>5, ZenonT(40) DEF Mirror!Next, Mirror!Publish, Published, At, Shown
  <2>6. hist' = hist \/ Publish \/ Restart
    <3>0. \A w, c : Becomes(w, c) => hist' = hist
      BY DEF Becomes
    <3>1. \A w \in Workers :
             Ready(w) \/ Lost(w) \/ Timer(w) \/ MarkBatch(w) \/ SweepBatch(w) \/ Crash(w)
             \/ LoseReply(w) => hist' = hist
      BY <3>0, ZenonT(40) DEF Ready, Lost, Timer, MarkBatch, SweepBatch, Crash, LoseReply
    <3>2. \A w \in Workers : \A k \in Banned : Ban(w, k) => hist' = hist
      BY DEF Ban
    <3>3. \A w \in Workers : \A store \in BOOLEAN :
             PackageBatch(w, store) \/ PutBatch(w, store) => hist' = hist
      <4> TAKE w \in Workers
      <4> TAKE store \in BOOLEAN
      <4>1. PackageBatch(w, store) => \E x : Becomes(w, x)
        BY Zenon DEF PackageBatch
      <4>2. PutBatch(w, store) => \E x : Becomes(w, x)
        BY Zenon DEF PutBatch
      <4> QED BY <3>0, <4>1, <4>2
    <3>4. \A w \in Workers : \A store \in BOOLEAN :
             /\ \A n \in Notices : Notice(w, n, store) => hist' = hist
             /\ \A given \in BOOLEAN : Reply(w, given, store) => hist' = hist
      BY <3>0, ZenonT(40) DEF Notice, Reply
    <3>5. \A w \in Workers : \A store \in BOOLEAN : \A status \in Statuses :
             Fetched(w, store, status) => hist' = hist
      <4> TAKE w \in Workers
      <4> TAKE store \in BOOLEAN
      <4> TAKE status \in Statuses
      <4>1. Fetched(w, store, status) => \E x : Becomes(w, x)
        BY Zenon DEF Fetched
      <4> QED BY <3>0, <4>1
    <3>6. ClaimLapses \/ UNCHANGED vars => hist' = hist
      BY DEF ClaimLapses, vars
    <3> QED BY <3>1, <3>2, <3>3, <3>4, <3>5, <3>6, Zenon DEF Next
  <2> QED BY <2>4, <2>5, <2>6
<1>3. IInv /\ IInv' /\ [Next]_vars => [Mirror!Next]_<<[v \in DOMAIN hist |-> DOMAIN hist[v]],
          <<slot.epoch, slot.seq>>,
          IF ~slot.syncing /\ ~slot.snap_bad THEN Mirrored(slot)
          ELSE IF slot.epoch = 0 THEN {} ELSE DOMAIN hist[<<slot.epoch, slot.seq>>]>>
  BY <1>2, Zenon DEF Published, At, Shown
<1> QED BY <1>1, <1>3, Invariance, PTL DEF Spec, MirrorsOneVersion, Mirror!Spec
=============================================================================
