---------------------------- MODULE DatasetZone ----------------------------
(***************************************************************************)
(* The dataset slots of the shared zone across reloads                     *)
(* (local/ngx_http_waf_dataset.c, _shm.c).  The master matches the new     *)
(* configuration's datasets with slots by name, releases slots, builds and *)
(* publishes sets, while workers of this and of earlier configurations     *)
(* keep looking up; a lookup takes no lock, it only counts itself.         *)
(*                                                                         *)
(* A set is named by <<generation, position>> of the declaration it was    *)
(* built from; heap holds the ones whose memory is allocated.  Of an       *)
(* active dataset's overlay (see DatasetSync) only its owner is kept: the  *)
(* name whose entries it holds.  One worker per configuration stands for   *)
(* all of them.                                                            *)
(***************************************************************************)
EXTENDS DatasetSets

CONSTANTS
    Slots,          \* 1..n: the table, shorter than NGX_HTTP_WAF_MAX_DATASETS
    Confs,          \* configurations an operator may load: sequences of lines
    Retired,        \* NGX_HTTP_WAF_DS_RETIRED
    Queries,        \* type -> what may be looked up
    Linger,         \* may a worker outlive the second reload after its own
    MaxGen, MaxDeaths       \* bounds

ASSUME ZoneAssumption ==
    /\ Slots = 1..Cardinality(Slots) /\ Cardinality(Slots) <= MaxDatasets
    /\ Retired \in Nat \ {0} /\ Linger \in BOOLEAN

VARIABLES
    sl,             \* the slots
    ds_gen, ds_committed,
    confs,          \* generation -> the configuration it was made from
    heap, leaked,   \* allocated sets; those an alert gave up
    m,              \* the master: where it is in init_zone
    wk,             \* generation -> its worker
    deaths

vars == <<sl, ds_gen, ds_committed, confs, heap, leaked, m, wk, deaths>>

Idle == [pc |-> "idle"]
NoSet == <<0, 0>>
NoRead == [pc |-> "none"]
NoWorker == [on |-> FALSE, ds |-> <<>>, read |-> NoRead, load |-> 0]

Init ==
    /\ sl = [j \in Slots |-> [bound |-> FALSE, name |-> None, type |-> "cidr", mode |-> "unset",
                              gen |-> 0, released |-> 0, set |-> NoSet, retired |-> {},
                              readers |-> 0, live |-> None, syncing |-> FALSE]]
    /\ ds_gen = 0 /\ ds_committed = 0 /\ confs = <<>>
    /\ heap = {} /\ leaked = {} /\ m = Idle /\ deaths = 0
    /\ wk = [g \in 1..MaxGen |-> NoWorker]

Datasets(g) == Declared(confs[g])
Running == {g \in 1..MaxGen : wk[g].on}
Least(S) == CHOOSE x \in S : \A y \in S : x <= y

-----------------------------------------------------------------------------
(* init_zone.                                                               *)

\* Mutant: a slot the running configuration declared last is released too.
Stale_current(z, taken) ==
    {j \in Slots : z[j].bound /\ j \notin taken /\ z[j].gen <= ds_committed}

\* The slots released: bound, not declared, and older than what is committed.
Stale(z, taken) ==
    {j \in Slots : z[j].bound /\ j \notin taken /\ z[j].gen < ds_committed}

\* The first section under the mutex: which slot each dataset gets.
Match(ds, gen) ==
    LET named(i) == {j \in Slots : sl[j].bound /\ sl[j].name = ds[i].name}
        taken == UNION {named(i) : i \in DOMAIN ds}
        freed == Stale(sl, taken)
        changed == {j \in taken : \E i \in DOMAIN ds :
                       /\ j \in named(i)
                       /\ \/ sl[j].type # ds[i].type
                          \/ sl[j].mode = "active" /\ ds[i].mode = "internal"}
        free == {j \in Slots : ~sl[j].bound} \cup freed
        age(j) == IF j \in freed THEN gen ELSE sl[j].released
        give(acc, i) ==     \* acc: the slots given so far, 0 where none is left
            LET left == free \ Range(acc) IN
            Append(acc, IF named(i) # {} THEN Least(named(i))
                        ELSE IF left = {} THEN 0
                        ELSE Least({j \in left : \A k \in left : age(j) <= age(k)}))
        slots == FoldLeft(give, <<>>, [i \in DOMAIN ds |-> i])
        upto == IF 0 \in Range(slots) THEN Least({i \in DOMAIN slots : slots[i] = 0}) - 1
                ELSE Len(slots)
    IN [slots |-> slots, freed |-> freed, ok |-> 0 \notin Range(slots),
        reset |-> freed \cup changed
                  \cup {slots[i] : i \in {i \in 1..upto : named(i) = {}}}]

Reload(lines) ==
    /\ m.pc = "idle" /\ ds_gen < MaxGen
    /\ Linger \/ \A g \in Running : g >= ds_committed
    /\ LET ds == Declared(lines)
           gen == ds_gen + 1
           r == Match(ds, gen)
       IN /\ ~Refused(ds) /\ shm_fit(ds)      \* otherwise nothing has happened yet
          /\ ds_gen' = gen /\ confs' = Append(confs, lines)
          /\ sl' = [j \in Slots |-> IF j \in r.freed
                                    THEN [sl[j] EXCEPT !.bound = FALSE, !.released = gen] ELSE sl[j]]
          /\ m' = [pc |-> "reset", slots |-> r.slots, ok |-> r.ok,
                   todo |-> SetToSortSeq(r.reset, <), old |-> NoSet]
    /\ UNCHANGED <<ds_committed, heap, leaked, wk, deaths>>

\* slot_reset: the wait for a load (which lasts less than SYNC_WAIT unless its
\* worker died), then the overlay, then the other fields.
ResetLive ==
    /\ m.pc = "reset" /\ m.todo # <<>>
    /\ LET j == Head(m.todo) IN
       /\ sl[j].syncing => \A g \in Running : wk[g].load # j
       /\ sl' = [sl EXCEPT ![j].live = None]
    /\ m' = [m EXCEPT !.pc = "fields"]
    /\ UNCHANGED <<ds_gen, ds_committed, confs, heap, leaked, wk, deaths>>

\* publish up to the barrier: the old set is retired, or kept in hand when all
\* the places are taken.
swap(s, set) ==
    LET full == s.set = NoSet \/ Cardinality(s.retired) >= Retired IN
    IF s.set = set THEN [slot |-> s, old |-> NoSet]
    ELSE [slot |-> [s EXCEPT !.set = set, !.retired = IF full THEN @ ELSE @ \cup {s.set}],
          old |-> IF full THEN s.set ELSE NoSet]

Publish(j, s, set, ret) ==
    LET p == swap(s, set) IN
    /\ sl' = [sl EXCEPT ![j] = p.slot]
    /\ m' = [m EXCEPT !.pc = IF s.set = set THEN ret ELSE ret \o "_spin", !.old = p.old,
                      !.todo = IF s.set = set THEN Tail(@) ELSE @]

ResetFields ==
    /\ m.pc = "fields"
    /\ LET j == Head(m.todo) IN Publish(j, [sl[j] EXCEPT !.syncing = FALSE], NoSet, "reset")
    /\ UNCHANGED <<ds_gen, ds_committed, confs, heap, leaked, wk, deaths>>

Current == IF m.pc \in {"reset_spin", "reset_free"} THEN Head(m.todo) ELSE m.slots[Head(m.todo)]

\* Mutant: the count of readers is not waited for.
Spin_none ==
    /\ m.pc \in {"reset_spin", "bind_spin"}
    /\ m' = [m EXCEPT !.pc = IF m.pc = "reset_spin" THEN "reset_free" ELSE "bind_free"]
    /\ UNCHANGED <<sl, ds_gen, ds_committed, confs, heap, leaked, wk, deaths>>

\* The wait for readers ends when none is seen, or after a number of turns.
Spin ==
    /\ m.pc \in {"reset_spin", "bind_spin"}
    /\ LET back == IF m.pc = "reset_spin" THEN "reset" ELSE "bind" IN
       IF sl[Current].readers = 0
       THEN m' = [m EXCEPT !.pc = back \o "_free"] /\ UNCHANGED leaked
       ELSE /\ m' = [m EXCEPT !.pc = back, !.todo = Tail(@), !.old = NoSet]
            /\ leaked' = IF m.old = NoSet THEN leaked ELSE leaked \cup {m.old}
    /\ UNCHANGED <<sl, ds_gen, ds_committed, confs, heap, wk, deaths>>

FreeSets ==
    /\ m.pc \in {"reset_free", "bind_free"}
    /\ heap' = (heap \ sl[Current].retired) \ {m.old}
    /\ sl' = [sl EXCEPT ![Current].retired = {}]
    /\ m' = [m EXCEPT !.pc = IF m.pc = "reset_free" THEN "reset" ELSE "bind",
                      !.todo = Tail(@), !.old = NoSet]
    /\ UNCHANGED <<ds_gen, ds_committed, confs, leaked, wk, deaths>>

SetOf(i) == IF Datasets(ds_gen)[i].mode = "internal" /\ Datasets(ds_gen)[i].entries # <<>>
            THEN <<ds_gen, i>> ELSE NoSet

\* The sets of internal datasets are built; one that finds no room fails the
\* reload and frees the others.
Build ==
    /\ m.pc = "reset" /\ m.todo = <<>>
    /\ LET n == Len(m.slots)
           sets == {SetOf(i) : i \in 1..n} \ {NoSet}
       IN \/ m.ok /\ heap' = heap \cup sets
             /\ m' = [m EXCEPT !.pc = "bind", !.todo = [i \in 1..n |-> i]]
          \/ ~m.ok /\ m' = Idle /\ UNCHANGED heap
          \/ m.ok /\ sets # {} /\ m' = Idle /\ UNCHANGED heap
    /\ UNCHANGED <<sl, ds_gen, ds_committed, confs, leaked, wk, deaths>>

\* The second section, one dataset at a time.
Bind ==
    /\ m.pc = "bind" /\ m.todo # <<>>
    /\ LET i == Head(m.todo)
           ds == Datasets(ds_gen)[i]
           j == m.slots[i]
           s == [sl[j] EXCEPT !.bound = TRUE, !.name = ds.name, !.type = ds.type,
                              !.mode = ds.mode, !.gen = ds_gen]
       IN Publish(j, s, SetOf(i), "bind")
    /\ UNCHANGED <<ds_gen, ds_committed, confs, heap, leaked, wk, deaths>>

-----------------------------------------------------------------------------
(* The end of a reload: the rest of the configuration fails (external), or  *)
(* a worker starts with it.                                                 *)

Abandon ==
    /\ m.pc = "bind" /\ m.todo = <<>> /\ m' = Idle
    /\ UNCHANGED <<sl, ds_gen, ds_committed, confs, heap, leaked, wk, deaths>>

dataset_bind == IF ds_gen > ds_committed THEN ds_gen ELSE ds_committed

Fork ==
    /\ m.pc = "bind" /\ m.todo = <<>>
    /\ ds_committed' = dataset_bind
    /\ wk' = [wk EXCEPT ![ds_gen] = [NoWorker EXCEPT !.on = TRUE, !.ds = m.slots]]
    /\ m' = Idle
    /\ UNCHANGED <<sl, ds_gen, confs, heap, leaked, deaths>>

\* A worker that was told to quit has served its last request.
Exit(g) ==
    /\ wk[g].on /\ g < ds_committed /\ wk[g].read = NoRead /\ wk[g].load = 0
    /\ wk' = [wk EXCEPT ![g] = NoWorker]
    /\ UNCHANGED <<sl, ds_gen, ds_committed, confs, heap, leaked, m, deaths>>

\* A worker is killed where it is: it uncounts nothing.  The last one is
\* started again by the master.
Die(g) ==
    /\ wk[g].on /\ deaths < MaxDeaths /\ deaths' = deaths + 1
    /\ wk' = [wk EXCEPT ![g].on = (g = ds_committed), ![g].read = NoRead, ![g].load = 0]
    /\ UNCHANGED <<sl, ds_gen, ds_committed, confs, heap, leaked, m>>

-----------------------------------------------------------------------------
(* A worker: lookups in internal sets, loads of active ones.                *)

\* ds_acquire, its first half.
Count(g, i) ==
    /\ wk[g].on /\ wk[g].read = NoRead /\ Datasets(g)[i].mode = "internal"
    /\ sl' = [sl EXCEPT ![wk[g].ds[i]].readers = @ + 1]
    /\ wk' = [wk EXCEPT ![g].read = [pc |-> "counted", i |-> i, set |-> NoSet]]
    /\ UNCHANGED <<ds_gen, ds_committed, confs, heap, leaked, m, deaths>>

Acquire(g) ==
    /\ wk[g].on /\ wk[g].read.pc = "counted"
    /\ LET j == wk[g].ds[wk[g].read.i] IN
       IF sl[j].set = NoSet
       THEN /\ sl' = [sl EXCEPT ![j].readers = @ - 1]
            /\ wk' = [wk EXCEPT ![g].read = NoRead]
       ELSE /\ wk' = [wk EXCEPT ![g].read.pc = "got", ![g].read.set = sl[j].set]
            /\ UNCHANGED sl
    /\ UNCHANGED <<ds_gen, ds_committed, confs, heap, leaked, m, deaths>>

Release(g) ==
    /\ wk[g].on /\ wk[g].read.pc = "got"
    /\ sl' = [sl EXCEPT ![wk[g].ds[wk[g].read.i]].readers = @ - 1]
    /\ wk' = [wk EXCEPT ![g].read = NoRead]
    /\ UNCHANGED <<ds_gen, ds_committed, confs, heap, leaked, m, deaths>>

\* A snapshot of an active dataset, from the claim of the slot to its end.
LoadBegin(g, i) ==
    /\ wk[g].on /\ wk[g].load = 0 /\ Datasets(g)[i].mode = "active"
    /\ ~sl[wk[g].ds[i]].syncing
    /\ sl' = [sl EXCEPT ![wk[g].ds[i]].syncing = TRUE, ![wk[g].ds[i]].live = Datasets(g)[i].name]
    /\ wk' = [wk EXCEPT ![g].load = wk[g].ds[i]]
    /\ UNCHANGED <<ds_gen, ds_committed, confs, heap, leaked, m, deaths>>

LoadEnd(g) ==
    /\ wk[g].on /\ wk[g].load # 0
    /\ sl' = [sl EXCEPT ![wk[g].load].syncing = FALSE]
    /\ wk' = [wk EXCEPT ![g].load = 0]
    /\ UNCHANGED <<ds_gen, ds_committed, confs, heap, leaked, m, deaths>>

Next ==
    \/ \E lines \in Confs : Reload(lines)
    \/ ResetLive \/ ResetFields \/ Spin \/ FreeSets \/ Build \/ Bind \/ Abandon \/ Fork
    \/ \E g \in 1..MaxGen : Exit(g) \/ Die(g) \/ Acquire(g) \/ Release(g) \/ LoadEnd(g)
    \/ \E g \in Running : \E i \in DOMAIN wk[g].ds : Count(g, i) \/ LoadBegin(g, i)

Spec == Init /\ [][Next]_vars

-----------------------------------------------------------------------------
(* Properties.                                                              *)

\* A lookup answers exactly what lines of its own dataset list, for the
\* declaration whose set the worker acquired: never entries of a dataset that
\* took over the slot, and with the binary search over covers and the probing
\* of the table agreeing with plain membership.  A set of another type
\* answers nothing.
HitExact ==
    \A g \in Running : wk[g].read.pc = "got" =>
        LET own == Datasets(g)[wk[g].read.i]
            src == Datasets(wk[g].read.set[1])[wk[g].read.set[2]]
        IN /\ src.name = own.name
           /\ \A q \in Queries[own.type] :
                dataset_hit(own.type, ds_build(src), q)
                    <=> (src.type = own.type
                         /\ Listed(confs[wk[g].read.set[1]], own.name, own.type, q))

\* A worker that holds a set in the middle of a lookup holds memory that has
\* not been freed: publish frees what it retired only after it has seen the
\* count of readers at zero behind the swap.  And no set is lost: allocated memory is published by exactly one slot, waits
\* in its retired places, is in the master's hands, or was given up with the
\* alert "leaked a retired set".
HeapSound ==
    LET inhand == IF m.pc \in {"bind", "bind_spin", "bind_free"}
                  THEN {SetOf(m.todo[k]) : k \in DOMAIN m.todo} \cup {m.old}
                  ELSE IF m.pc = "idle" THEN {} ELSE {m.old}
        published == {sl[j].set : j \in Slots} \cup UNION {sl[j].retired : j \in Slots}
    IN /\ \A g \in Running : wk[g].read.pc = "got" => wk[g].read.set \in heap
       /\ heap \subseteq published \cup inhand \cup leaked
       /\ published \subseteq heap \cup {NoSet}

\* "a slot is released only when the running workers do not name it": the slot
\* a running worker looks its dataset up in belongs to that name, and its
\* overlay holds no entries of another one.
NamesHeld ==
    \A g \in Running : \A i \in DOMAIN wk[g].ds :
        LET s == sl[wk[g].ds[i]] IN
        s.bound /\ s.name = Datasets(g)[i].name /\ s.live \in {None, s.name}
=============================================================================
