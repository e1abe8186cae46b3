-------------------------- MODULE SlotTableProofs --------------------------
(* Theorems about SlotTable, for every number of slots, requests and       *)
(* generations.                                                            *)
EXTENDS SlotTable, FiniteSetTheorems, TLAPS

(* How many acquisitions ago generation g was current, on the cycle of the *)
(* GenMask non-zero generations, when the last one handed out is s.        *)
Distance(g, s) == IF s >= g THEN s - g ELSE s - g + GenMask

(* The free list without walking it: its links stay among free slots, and  *)
(* no two links, nor a link and free_head, lead to the same slot.          *)
FreeLinks ==
    /\ free_head # NIL => slots[free_head].gen = 0
    /\ \A i \in Index : slots[i].gen = 0 /\ slots[i].next_free # NIL =>
         /\ slots[slots[i].next_free].gen = 0
         /\ slots[i].next_free # free_head
    /\ \A i, j \in Index :
         /\ slots[i].gen = 0 /\ slots[j].gen = 0
         /\ slots[i].next_free = slots[j].next_free
         /\ slots[i].next_free # NIL
         => i = j

(* The generation of an acquisition less than GenMask acquisitions old is  *)
(* determined by its number.                                               *)
GenDated(g, n) == acquired - n < GenMask => acquired - n = Distance(g, seq)

(* Busy slots and open questions carry the generation of their acquisition. *)
Dates ==
    /\ acquired > 0 => seq # 0
    /\ \A i \in Index : born[i] <= acquired
    /\ \A i \in Index : slots[i].gen # 0 =>
         born[i] > 0 /\ GenDated(slots[i].gen, born[i])
    /\ \A q \in asked :
         /\ q.rid[1] # 0
         /\ 0 < q.born /\ q.born <= born[q.rid[2]]
         /\ GenDated(q.rid[1], q.born)
         /\ slots[q.rid[2]].gen # 0 /\ born[q.rid[2]] = q.born
              => slots[q.rid[2]].ctx = q.ctx

(* What every step keeps: OwnersAgree needs FreeLinks, so that what is     *)
(* acquired was free, and ReplyToAsker follows from Dates.                 *)
IInv == TypeOK /\ OwnersAgree /\ FreeLinks /\ Dates

(* next_gen steps through the non-zero generations cyclically. *)
LEMMA NextGenCycle ==
    ASSUME NEW s \in Gen
    PROVE  next_gen(s) = IF s = GenMask THEN 1 ELSE s + 1
<1>1. CASE s = GenMask
  <2>1. (s + 1) % (GenMask + 1) = 0
    BY <1>1, SlotAssumption DEF Gen
  <2>2. 1 % (GenMask + 1) = 1
    BY SlotAssumption
  <2> QED BY <1>1, <2>1, <2>2 DEF next_gen
<1>2. CASE s # GenMask
  <2>1. s + 1 \in Nat /\ s + 1 < GenMask + 1
    BY <1>2, SlotAssumption DEF Gen
  <2>2. (s + 1) % (GenMask + 1) = s + 1
    BY <2>1, SlotAssumption DEF Gen
  <2> QED BY <1>2, <2>1, <2>2 DEF next_gen, Gen
<1> QED BY <1>1, <1>2

(* Handing out one more generation ages every other by one. *)
LEMMA Aging ==
    ASSUME NEW g \in 1 .. GenMask, NEW s \in 1 .. GenMask,
           Distance(g, s) + 1 < GenMask
    PROVE  Distance(g, next_gen(s)) = Distance(g, s) + 1
<1>1. next_gen(s) = IF s = GenMask THEN 1 ELSE s + 1
  BY NextGenCycle DEF Gen
<1> QED BY <1>1, SlotAssumption DEF Distance

(* The new generation is not 0 and is 0 acquisitions old. *)
LEMMA Fresh ==
    ASSUME NEW s \in Gen
    PROVE  next_gen(s) \in 1 .. GenMask /\ Distance(next_gen(s), next_gen(s)) = 0
<1>1. next_gen(s) = IF s = GenMask THEN 1 ELSE s + 1
  BY NextGenCycle
<1> QED BY <1>1, SlotAssumption DEF Distance, Gen

(* slot_table_init leaves a table that satisfies the inductive invariant. *)
LEMMA InitInv == Init => IInv
<1> SUFFICES ASSUME Init PROVE IInv
  OBVIOUS
<1> USE SlotAssumption DEF Init, slot_table_init
<1>1. TypeOK
  BY DEF TypeOK, Slot, Rid, Gen, Index, NIL
<1>2. OwnersAgree
  BY DEF OwnersAgree
<1>3. FreeLinks
  BY DEF FreeLinks, Index, NIL
<1>4. Dates
  BY DEF Dates
<1> QED BY <1>1, <1>2, <1>3, <1>4 DEF IInv

(* Taking the head of the free list, whatever becomes of it, keeps the     *)
(* dates of everything older right.                                        *)
LEMMA DatesAge ==
    ASSUME IInv, NEW g \in 1 .. GenMask, NEW n \in Nat, 0 < n, n <= acquired,
           GenDated(g, n),
           acquired' = acquired + 1, seq' = next_gen(seq)
    PROVE  GenDated(g, n)'
<1>1. seq \in 1 .. GenMask /\ acquired \in Nat
  BY SlotAssumption DEF IInv, TypeOK, Dates, Gen
<1>2. SUFFICES ASSUME acquired + 1 - n < GenMask
      PROVE  acquired + 1 - n = Distance(g, next_gen(seq))
  BY <1>1 DEF GenDated, Distance
<1>3. acquired - n = Distance(g, seq)
  BY <1>1, <1>2, SlotAssumption DEF GenDated
<1> QED BY <1>1, <1>2, <1>3, Aging

(* A slot pushed on the free list by slot_release or slot_detach. *)
LEMMA ReleaseLinks ==
    ASSUME TypeOK, FreeLinks, NEW i \in Index, slots[i].gen # 0,
           slots' = Released(i), free_head' = i
    PROVE  FreeLinks'
BY DEF TypeOK, Slot, FreeLinks, Released, Index, NIL

(* Every acquisition, release, drop, detach and question keeps the         *)
(* inductive invariant.                                                    *)
LEMMA StepInv == IInv /\ [Next]_vars => IInv'
<1> SUFFICES ASSUME IInv, [Next]_vars PROVE IInv'
  OBVIOUS
<1> USE SlotAssumption
<1>0. TypeOK /\ OwnersAgree /\ FreeLinks /\ Dates
  BY DEF IInv
<1>1. ASSUME NEW c \in Ctxs, Arrive(c) PROVE IInv'
  <2> USE <1>0, <1>1 DEF Arrive
  <2>1. TypeOK'
    BY DEF TypeOK, Rid, Gen, Index, NIL
  <2>2. OwnersAgree'
    BY DEF OwnersAgree, TypeOK, Slot
  <2>3. FreeLinks'
    BY DEF FreeLinks
  <2>4. Dates'
    BY DEF Dates, GenDated, Distance
  <2> QED BY <2>1, <2>2, <2>3, <2>4 DEF IInv
<1>2. ASSUME NEW c \in Ctxs, slot_acquire(c) PROVE IInv'
  <2> DEFINE g == next_gen(seq)
             i == free_head
  <2> HIDE DEF g
  <2>0. /\ g \in 1 .. GenMask /\ g = next_gen(seq) /\ Distance(g, g) = 0
        /\ i \in Index /\ slots[i].gen = 0
    BY <1>0, <1>2, Fresh DEF slot_acquire, TypeOK, FreeLinks, g
  <2>a. /\ slots' = [slots EXCEPT ![i] = [gen |-> g, ctx |-> c, next_free |-> NIL]]
        /\ free_head' = slots[i].next_free
        /\ seq' = g
        /\ ctx_slot' = [ctx_slot EXCEPT ![c] = i]
        /\ ctx_rid' = [ctx_rid EXCEPT ![c] = <<g, i>>]
        /\ acquired' = acquired + 1
        /\ born' = [born EXCEPT ![i] = acquired + 1]
        /\ UNCHANGED <<alive, asked>>
        /\ c \in alive /\ ctx_slot[c] = NIL
    BY <1>2 DEF slot_acquire, g
  <2>1. TypeOK'
    BY <1>0, <2>0, <2>a DEF TypeOK, Slot, Rid, Gen, NIL
  <2>2. OwnersAgree'
    BY <1>0, <2>0, <2>a DEF OwnersAgree, TypeOK, Slot, NIL, Index
  <2>3. FreeLinks'
    BY <1>0, <2>0, <2>a, SMTT(30) DEF FreeLinks, TypeOK, Slot, NIL, Index
  <2>4. Dates'
    <3>1. (acquired > 0 => seq # 0)' /\ (\A j \in Index : born[j] <= acquired)'
      BY <1>0, <2>0, <2>a DEF Dates, TypeOK
    <3>2. ASSUME NEW j \in Index, (slots[j].gen # 0)'
          PROVE  (born[j] > 0 /\ GenDated(slots[j].gen, born[j]))'
      <4>1. CASE j = i
        BY <1>0, <2>0, <2>a, <4>1 DEF TypeOK, Slot, GenDated, Distance
      <4>2. CASE j # i
        <5>1. slots'[j] = slots[j] /\ born'[j] = born[j] /\ slots[j].gen # 0
          BY <3>2, <2>a, <4>2, <1>0 DEF TypeOK
        <5>2. slots[j].gen \in 1 .. GenMask /\ born[j] \in Nat /\ born[j] > 0
              /\ born[j] <= acquired /\ GenDated(slots[j].gen, born[j])
          BY <5>1, <1>0 DEF TypeOK, Slot, Gen, Dates
        <5>3. GenDated(slots[j].gen, born[j])'
          BY <5>1, <5>2, <2>a, <2>0, DatesAge DEF GenDated
        <5> QED BY <5>1, <5>2, <5>3
      <4> QED BY <4>1, <4>2
    <3>3. ASSUME NEW q \in asked
          PROVE  (/\ q.rid[1] # 0
                  /\ 0 < q.born /\ q.born <= born[q.rid[2]]
                  /\ GenDated(q.rid[1], q.born)
                  /\ slots[q.rid[2]].gen # 0 /\ born[q.rid[2]] = q.born
                       => slots[q.rid[2]].ctx = q.ctx)'
      <4>1. /\ q.rid[1] \in 1 .. GenMask /\ q.rid[2] \in Index /\ q.born \in Nat
            /\ 0 < q.born /\ q.born <= born[q.rid[2]] /\ q.born <= acquired
            /\ GenDated(q.rid[1], q.born)
        BY <1>0 DEF TypeOK, Question, Rid, Gen, Dates
      <4>2. GenDated(q.rid[1], q.born)'
        BY <4>1, <2>a, <2>0, DatesAge
      <4>3. q.born <= born'[q.rid[2]]
        BY <4>1, <2>a, <1>0 DEF TypeOK
      <4>4. slots'[q.rid[2]].gen # 0 /\ born'[q.rid[2]] = q.born
               => slots'[q.rid[2]].ctx = q.ctx
        BY <4>1, <2>a, <1>0 DEF TypeOK, Dates
      <4> QED BY <4>1, <4>2, <4>3, <4>4
    <3> QED BY <3>1, <3>2, <3>3, <2>a DEF Dates
  <2> QED BY <2>1, <2>2, <2>3, <2>4 DEF IInv

<1>3. ASSUME NEW c \in Ctxs, AcquireNoCleanup(c) PROVE IInv'
  <2> DEFINE g == next_gen(seq)
             i == free_head
  <2> HIDE DEF g
  <2>0. /\ g \in 1 .. GenMask /\ g = next_gen(seq) /\ i \in Index /\ slots[i].gen = 0
    BY <1>0, <1>3, Fresh DEF AcquireNoCleanup, TypeOK, FreeLinks, g
  <2>a. /\ seq' = g
        /\ ctx_rid' = [ctx_rid EXCEPT ![c] = <<g, i>>]
        /\ acquired' = acquired + 1
        /\ born' = [born EXCEPT ![i] = acquired + 1]
        /\ UNCHANGED <<slots, free_head, ctx_slot, alive, asked>>
        /\ c \in alive /\ ctx_slot[c] = NIL
    BY <1>3 DEF AcquireNoCleanup, g
  <2>1. TypeOK'
    BY <1>0, <2>0, <2>a DEF TypeOK, Rid, Gen
  <2>2. OwnersAgree'
    BY <1>0, <2>0, <2>a DEF OwnersAgree, TypeOK, Slot, NIL, Index
  <2>3. FreeLinks'
    BY <1>0, <2>a DEF FreeLinks
  <2>4. Dates'
    <3>1. (acquired > 0 => seq # 0)' /\ (\A j \in Index : born[j] <= acquired)'
      BY <1>0, <2>0, <2>a DEF Dates, TypeOK
    <3>2. ASSUME NEW j \in Index, slots[j].gen # 0
          PROVE  (born[j] > 0 /\ GenDated(slots[j].gen, born[j]))'
      <4>1. slots'[j] = slots[j] /\ born'[j] = born[j]
        BY <3>2, <2>a, <2>0, <1>0 DEF TypeOK
      <4>2. slots[j].gen \in 1 .. GenMask /\ born[j] \in Nat /\ born[j] > 0
            /\ born[j] <= acquired /\ GenDated(slots[j].gen, born[j])
        BY <3>2, <1>0 DEF TypeOK, Slot, Gen, Dates
      <4>3. GenDated(slots[j].gen, born[j])'
        BY <4>1, <4>2, <2>a, <2>0, DatesAge DEF GenDated
      <4> QED BY <4>1, <4>2, <4>3
    <3>3. ASSUME NEW q \in asked
          PROVE  (/\ q.rid[1] # 0
                  /\ 0 < q.born /\ q.born <= born[q.rid[2]]
                  /\ GenDated(q.rid[1], q.born)
                  /\ slots[q.rid[2]].gen # 0 /\ born[q.rid[2]] = q.born
                       => slots[q.rid[2]].ctx = q.ctx)'
      <4>1. /\ q.rid[1] \in 1 .. GenMask /\ q.rid[2] \in Index /\ q.born \in Nat
            /\ 0 < q.born /\ q.born <= born[q.rid[2]] /\ q.born <= acquired
            /\ GenDated(q.rid[1], q.born)
        BY <1>0 DEF TypeOK, Question, Rid, Gen, Dates
      <4>2. GenDated(q.rid[1], q.born)'
        BY <4>1, <2>a, <2>0, DatesAge
      <4>3. q.born <= born'[q.rid[2]]
        BY <4>1, <2>a, <1>0 DEF TypeOK
      <4>4. slots'[q.rid[2]].gen # 0 /\ born'[q.rid[2]] = q.born
               => slots'[q.rid[2]].ctx = q.ctx
        BY <4>1, <2>a, <2>0, <1>0 DEF TypeOK, Dates
      <4> QED BY <4>1, <4>2, <4>3, <4>4
    <3> QED BY <3>1, <3>2, <3>3, <2>a DEF Dates
  <2> QED BY <2>1, <2>2, <2>3, <2>4 DEF IInv
<1>4. ASSUME NEW c \in Ctxs, Publish(c) PROVE IInv'
  <2> DEFINE i == ctx_slot[c]
             q == [rid |-> ctx_rid[c], ctx |-> c, born |-> born[i]]
  <2>0. /\ i \in Index /\ slots[i].ctx = c /\ slots[i].gen # 0
        /\ ctx_rid[c] = <<slots[i].gen, i>>
    BY <1>0, <1>4 DEF Publish, TypeOK, OwnersAgree
  <2>a. /\ asked' = asked \cup {q}
        /\ UNCHANGED <<slots, free_head, seq, ctx_slot, ctx_rid, alive, acquired, born>>
    BY <1>4 DEF Publish
  <2>b. q \in Question
    BY <1>0, <2>0 DEF TypeOK, Question
  <2>1. TypeOK'
    BY <1>0, <2>a, <2>b DEF TypeOK
  <2>2. OwnersAgree'
    BY <1>0, <2>a DEF OwnersAgree
  <2>3. FreeLinks'
    BY <1>0, <2>a DEF FreeLinks
  <2>4. Dates'
    <3>1. /\ q.rid[1] = slots[i].gen /\ q.rid[2] = i /\ q.born = born[i]
          /\ q.ctx = slots[i].ctx
      BY <2>0
    <3>2. /\ q.rid[1] # 0 /\ 0 < q.born /\ q.born <= born[q.rid[2]]
          /\ GenDated(q.rid[1], q.born)
          /\ slots[q.rid[2]].ctx = q.ctx
      BY <3>1, <2>0, <1>0 DEF Dates, TypeOK
    <3> HIDE DEF q
    <3> QED BY <3>2, <2>a, <1>0, Zenon DEF Dates, GenDated, Distance
  <2> QED BY <2>1, <2>2, <2>3, <2>4 DEF IInv
<1>5. ASSUME NEW c \in Ctxs, slot_drop(c) PROVE IInv'
  <2> DEFINE i == ctx_slot[c]
  <2>0. i \in Index /\ slots[i].ctx = c /\ slots[i].gen # 0
    BY <1>0, <1>5 DEF slot_drop, TypeOK, OwnersAgree
  <2>a. /\ slots' = Released(i) /\ free_head' = i
        /\ ctx_slot' = [d \in Ctxs |->
             IF d = slots[i].ctx /\ ctx_slot[d] = i THEN NIL ELSE ctx_slot[d]]
        /\ UNCHANGED <<seq, ctx_rid, alive, asked, acquired, born>>
    BY <1>5, <2>0 DEF slot_drop, slot_release
  <2>b. ctx_slot' = [ctx_slot EXCEPT ![c] = NIL]
    BY <2>a, <2>0, <1>0, Zenon DEF TypeOK
  <2>1. TypeOK'
    BY <1>0, <2>0, <2>a, <2>b DEF TypeOK, Released, Slot, Gen, NIL
  <2>2. OwnersAgree'
    BY <1>0, <2>0, <2>a, <2>b DEF OwnersAgree, Released, TypeOK, Slot, NIL, Index
  <2>3. FreeLinks'
    BY <1>0, <2>0, <2>a, ReleaseLinks
  <2>4. Dates'
    BY <1>0, <2>0, <2>a, Zenon DEF Dates, GenDated, Distance, Released, TypeOK, Question,
       Rid
  <2> QED BY <2>1, <2>2, <2>3, <2>4 DEF IInv
<1>6. ASSUME NEW c \in Ctxs, slot_detach(c) PROVE IInv'
  <2> DEFINE i == ctx_slot[c]
  <2>a. /\ alive' = alive \ {c}
        /\ ctx_slot' = [ctx_slot EXCEPT ![c] = NIL]
        /\ UNCHANGED <<seq, ctx_rid, asked, acquired, born>>
    BY <1>6 DEF slot_detach
  <2>b. CASE i = NIL
    <3>1. UNCHANGED <<slots, free_head>>
      BY <1>6, <2>b DEF slot_detach
    <3>2. TypeOK'
      BY <1>0, <2>a, <3>1 DEF TypeOK
    <3>3. OwnersAgree'
      BY <1>0, <2>a, <2>b, <3>1 DEF OwnersAgree, TypeOK, Slot, NIL, Index
    <3>4. FreeLinks' /\ Dates'
      BY <1>0, <2>a, <3>1, Zenon DEF FreeLinks, Dates, GenDated, Distance
    <3> QED BY <3>2, <3>3, <3>4 DEF IInv
  <2>c. CASE i # NIL
    <3>0. i \in Index /\ slots[i].ctx = c /\ slots[i].gen # 0 /\ slots[i].gen = ctx_rid[c][1]
      BY <1>0, <2>c DEF TypeOK, OwnersAgree
    <3>1. slots' = Released(i) /\ free_head' = i
      BY <1>6, <2>c, <3>0 DEF slot_detach
    <3>2. TypeOK'
      BY <1>0, <3>0, <3>1, <2>a DEF TypeOK, Released, Slot, Gen, NIL
    <3>3. OwnersAgree'
      BY <1>0, <3>0, <3>1, <2>a DEF OwnersAgree, Released, TypeOK, Slot, NIL, Index
    <3>4. FreeLinks'
      BY <1>0, <3>0, <3>1, ReleaseLinks
    <3>5. Dates'
      BY <1>0, <3>0, <3>1, <2>a, Zenon DEF Dates, GenDated, Distance, Released, TypeOK,
         Question, Rid
    <3> QED BY <3>2, <3>3, <3>4, <3>5 DEF IInv
  <2> QED BY <2>b, <2>c
<1>7. CASE UNCHANGED vars
  BY <1>0, <1>7, Zenon DEF vars, IInv, TypeOK, OwnersAgree, FreeLinks, Dates, GenDated,
     Distance
<1> QED BY <1>1, <1>2, <1>3, <1>4, <1>5, <1>6, <1>7 DEF Next

(* Every reachable table satisfies the inductive invariant. *)
THEOREM Inductive == Spec => []IInv
<1> QED BY InitInv, StepInv, PTL DEF Spec

(* Type correctness of the slot table. *)
THEOREM SlotTypes == Spec => []TypeOK
<1>1. IInv => TypeOK
  BY DEF IInv
<1> QED BY Inductive, <1>1, PTL

(* A busy slot and its live context point at each other, for every number  *)
(* of slots and requests.                                                  *)
THEOREM SlotOwners == Spec => []OwnersAgree
<1>1. IInv => OwnersAgree
  BY DEF IInv
<1> QED BY Inductive, <1>1, PTL

(* An answer less than GenMask acquisitions late reaches the acquisition   *)
(* that asked, or nobody.                                                  *)
THEOREM SlotReplies == Spec => []ReplyToAsker
<1>1. IInv => ReplyToAsker
  <2> SUFFICES ASSUME IInv, NEW q \in asked,
                      acquired - q.born < GenMask, slot_lookup(q.rid) # NIL
               PROVE  /\ slots[slot_lookup(q.rid)].ctx = q.ctx
                      /\ born[slot_lookup(q.rid)] = q.born
    BY DEF ReplyToAsker
  <2> DEFINE i == q.rid[2]
  <2>1. i \in Index /\ slot_lookup(q.rid) = i /\ slots[i].gen = q.rid[1]
    BY DEF slot_lookup
  <2>2. /\ q.born \in Nat /\ born[i] \in Nat /\ acquired \in Nat
        /\ q.born <= born[i] /\ born[i] <= acquired /\ slots[i].gen # 0
        /\ GenDated(q.rid[1], q.born) /\ GenDated(q.rid[1], born[i])
    BY <2>1 DEF IInv, TypeOK, Question, Dates
  <2>3. born[i] = q.born
    BY <2>2, SlotAssumption DEF GenDated
  <2> QED BY <2>1, <2>2, <2>3 DEF IInv, Dates
<1> QED BY Inductive, <1>1, PTL

-----------------------------------------------------------------------------
(* The free list as a path.                                                *)

(* The n slots of the free list in their order, and NIL after them. *)
Path(n, p) ==
    /\ p \in [0 .. n -> Index \cup {NIL}]
    /\ p[0] = free_head /\ p[n] = NIL
    /\ \A k \in 0 .. n - 1 :
         /\ p[k] \in Index /\ slots[p[k]].gen = 0
         /\ p[k + 1] = slots[p[k]].next_free
    /\ \A j, k \in 0 .. n - 1 : p[j] = p[k] => j = k
    /\ \A i \in Index : slots[i].gen = 0 => \E k \in 0 .. n - 1 : p[k] = i

(* The free slots are the slots of one path that starts at free_head. *)
Listed == \E n \in Nat : \E p : Path(n, p)

(* slot_table_init links all slots. *)
LEMMA InitListed == Init => Listed
<1> SUFFICES ASSUME Init PROVE Listed
  OBVIOUS
<1>1. PICK p : p = [k \in 0 .. NSlots |-> IF k = NSlots THEN NIL ELSE k]
  BY Zenon
<1>2. /\ p \in [0 .. NSlots -> Index \cup {NIL}]
      /\ p[0] = free_head /\ p[NSlots] = NIL
      /\ \A k \in 0 .. NSlots - 1 : p[k] = k /\ p[k + 1] = IF k = NSlots - 1 THEN NIL ELSE k + 1
  BY <1>1, SlotAssumption DEF Init, slot_table_init, Index, NIL
<1>3. \A i \in Index :
        slots[i].gen = 0 /\ slots[i].next_free = IF i = NSlots - 1 THEN NIL ELSE i + 1
  BY DEF Init, slot_table_init
<1>4. Path(NSlots, p)
  BY <1>2, <1>3, SlotAssumption DEF Path, Index
<1> QED BY <1>4, SlotAssumption DEF Listed

(* The acquirer takes the first slot of the path. *)
LEMMA AcquireListed ==
    ASSUME TypeOK, FreeLinks, Listed, NEW c \in Ctxs, slot_acquire(c)
    PROVE  Listed'
<1>1. PICK n \in Nat : \E q : Path(n, q)
  BY DEF Listed
<1>2. PICK p : Path(n, p)
  BY <1>1
<1>3. PICK i \in Index : i = free_head /\ slots[i].gen = 0
  BY DEF slot_acquire, TypeOK, FreeLinks
<1>4. /\ free_head' = slots[i].next_free
      /\ \E g : slots' = [slots EXCEPT ![i] = [gen |-> g, ctx |-> c, next_free |-> NIL]]
      /\ slots'[i].gen # 0
  <2>1. next_gen(seq) # 0
    BY Fresh DEF TypeOK
  <2> QED BY <1>3, <2>1, Zenon DEF slot_acquire, TypeOK
<1>5. n # 0 /\ p[0] = i
  BY <1>2, <1>3 DEF Path, Index, NIL
<1>6. /\ \A k \in 0 .. n - 1 : p[k] = i => k = 0
      /\ \A k \in 0 .. n - 2 : k + 1 \in 0 .. n - 1 /\ p[k + 1] # i
  BY <1>2, <1>5 DEF Path
<1>7. \A j \in Index : j # i => slots'[j] = slots[j]
  BY <1>4 DEF TypeOK
<1>8. PICK m \in Nat : m = n - 1
  BY <1>5
<1>9. PICK q : q = [k \in 0 .. m |-> p[k + 1]]
  BY Zenon
<1>10. /\ q \in [0 .. m -> Index \cup {NIL}]
       /\ q[0] = free_head' /\ q[m] = NIL
  <2>1. p[1] = slots[i].next_free
    BY <1>2, <1>5 DEF Path
  <2> QED BY <1>2, <1>4, <1>8, <1>9, <2>1 DEF Path
<1>11. \A k \in 0 .. m - 1 :
         /\ q[k] = p[k + 1] /\ q[k + 1] = p[(k + 1) + 1] /\ k + 1 \in 0 .. n - 1 /\ q[k] # i
  BY <1>6, <1>8, <1>9
<1>12. \A k \in 0 .. m - 1 :
         /\ q[k] \in Index /\ slots'[q[k]].gen = 0
         /\ q[k + 1] = slots'[q[k]].next_free
  <2>1. \A l \in 0 .. n - 1 :
          p[l] \in Index /\ slots[p[l]].gen = 0 /\ p[l + 1] = slots[p[l]].next_free
    BY <1>2, Zenon DEF Path
  <2>2. SUFFICES ASSUME NEW k \in 0 .. m - 1
                 PROVE  /\ q[k] \in Index /\ slots'[q[k]].gen = 0
                        /\ q[k + 1] = slots'[q[k]].next_free
    BY Zenon
  <2>3. PICK l \in 0 .. n - 1 : q[k] = p[l] /\ q[k + 1] = p[l + 1] /\ q[k] # i
    BY <1>11, Zenon
  <2> QED BY <1>7, <2>1, <2>3, Zenon
<1>13. ASSUME NEW j \in 0 .. m - 1, NEW k \in 0 .. m - 1, q[j] = q[k]
       PROVE  j = k
  <2>1. p[j + 1] = p[k + 1] /\ j + 1 \in 0 .. n - 1 /\ k + 1 \in 0 .. n - 1
    BY <1>11, <1>13
  <2>2. j + 1 = k + 1
    BY <1>2, <2>1 DEF Path
  <2> QED BY <2>2
<1>14. ASSUME NEW j \in Index, slots'[j].gen = 0
       PROVE  \E k \in 0 .. m - 1 : q[k] = j
  <2>1. j # i /\ slots[j].gen = 0
    BY <1>4, <1>7, <1>14
  <2>2. PICK k \in 0 .. n - 1 : p[k] = j
    BY <1>2, <2>1 DEF Path
  <2>3. k - 1 \in 0 .. m - 1 /\ (k - 1) + 1 = k
    BY <1>5, <1>8, <2>1, <2>2
  <2> QED BY <1>11, <2>2, <2>3
<1>15. Path(m, q)'
  BY <1>10, <1>12, <1>13, <1>14 DEF Path
<1> QED BY <1>15 DEF Listed

(* A released slot becomes the first of the path. *)
LEMMA ReleaseListed ==
    ASSUME TypeOK, Listed, NEW i \in Index, slots[i].gen # 0,
           slots' = Released(i), free_head' = i
    PROVE  Listed'
<1>1. PICK n \in Nat : \E q : Path(n, q)
  BY DEF Listed
<1>2. PICK p : Path(n, p)
  BY <1>1
<1>3. /\ slots'[i].gen = 0 /\ slots'[i].next_free = free_head
      /\ \A j \in Index : j # i => slots'[j] = slots[j]
  BY DEF TypeOK, Released
<1>4. PICK q : q = [k \in 0 .. n + 1 |-> IF k = 0 THEN i ELSE p[k - 1]]
  BY Zenon
<1>5. /\ q \in [0 .. n + 1 -> Index \cup {NIL}] /\ q[0] = i /\ q[n + 1] = NIL
  BY <1>2, <1>4 DEF Path
<1>6. \A k \in 0 .. n : q[k + 1] = p[k]
  BY <1>4
<1>7. \A k \in 0 .. n - 1 : p[k] \in Index /\ p[k] # i
  BY <1>2 DEF Path
<1>8. ASSUME NEW k \in 0 .. n
      PROVE  q[k] \in Index /\ slots'[q[k]].gen = 0 /\ q[k + 1] = slots'[q[k]].next_free
  <2>1. CASE k = 0
    BY <1>2, <1>3, <1>5, <1>6, <2>1 DEF Path
  <2>2. CASE k # 0
    <3>1. k - 1 \in 0 .. n - 1 /\ q[k] = p[k - 1] /\ q[k + 1] = p[k] /\ (k - 1) + 1 = k
      BY <1>4, <1>6, <2>2
    <3> QED BY <1>2, <1>3, <1>7, <3>1 DEF Path
  <2> QED BY <2>1, <2>2
<1>9. ASSUME NEW j \in 0 .. n, NEW k \in 0 .. n, q[j] = q[k]
      PROVE  j = k
  <2>1. \A l \in 0 .. n : l # 0 => l - 1 \in 0 .. n - 1 /\ q[l] = p[l - 1]
    BY <1>4
  <2> QED BY <1>2, <1>5, <1>7, <1>9, <2>1 DEF Path
<1>10. ASSUME NEW j \in Index, slots'[j].gen = 0
       PROVE  \E k \in 0 .. n : q[k] = j
  <2>1. CASE j = i
    BY <1>5, <2>1
  <2>2. CASE j # i
    <3>1. PICK k \in 0 .. n - 1 : p[k] = j
      BY <1>2, <1>3, <1>10, <2>2 DEF Path
    <3> QED BY <1>6, <3>1
  <2> QED BY <2>1, <2>2
<1>11. (n + 1) - 1 = n /\ n + 1 \in Nat
  OBVIOUS
<1>12. Path(n + 1, q)'
  BY <1>5, <1>8, <1>9, <1>10, <1>11, Zenon DEF Path
<1> QED BY <1>11, <1>12 DEF Listed

(* Every step keeps the free slots on one path. *)
LEMMA StepListed == IInv /\ Listed /\ [Next]_vars => Listed'
<1> SUFFICES ASSUME IInv, Listed, [Next]_vars PROVE Listed'
  OBVIOUS
<1>0. TypeOK /\ FreeLinks
  BY DEF IInv
<1>1. ASSUME slots' = slots, free_head' = free_head PROVE Listed'
  <2>1. PICK n \in Nat : \E q : Path(n, q)
    BY DEF Listed
  <2>2. PICK p : Path(n, p)
    BY <2>1
  <2>3. Path(n, p)'
    BY <1>1, <2>2, Zenon DEF Path
  <2> QED BY <2>3 DEF Listed
<1>2. ASSUME NEW c \in Ctxs, Arrive(c) \/ AcquireNoCleanup(c) \/ Publish(c) PROVE Listed'
  BY <1>1, <1>2 DEF Arrive, AcquireNoCleanup, Publish
<1>3. ASSUME NEW c \in Ctxs, slot_acquire(c) PROVE Listed'
  BY <1>0, <1>3, AcquireListed
<1>4. ASSUME NEW c \in Ctxs, slot_drop(c) PROVE Listed'
  <2>1. ctx_slot[c] \in Index
    BY <1>0, <1>4 DEF slot_drop, TypeOK
  <2>2. CASE slots[ctx_slot[c]].gen = 0
    BY <1>1, <1>4, <2>2 DEF slot_drop, slot_release
  <2>3. CASE slots[ctx_slot[c]].gen # 0
    BY <1>0, <1>4, <2>1, <2>3, ReleaseListed DEF slot_drop, slot_release
  <2> QED BY <2>2, <2>3
<1>5. ASSUME NEW c \in Ctxs, slot_detach(c) PROVE Listed'
  <2>1. CASE slots' = slots /\ free_head' = free_head
    BY <1>1, <2>1
  <2>2. CASE /\ ctx_slot[c] # NIL
             /\ slots' = Released(ctx_slot[c]) /\ free_head' = ctx_slot[c]
    <3>1. ctx_slot[c] \in Index
      BY <1>0, <2>2 DEF TypeOK
    <3>2. slots[ctx_slot[c]].ctx = c
      BY <2>2 DEF IInv, OwnersAgree
    <3>3. slots[ctx_slot[c]].gen # 0
      BY <3>1, <3>2, SlotAssumption DEF IInv, OwnersAgree
    <3> QED BY <1>0, <2>2, <3>1, <3>3, ReleaseListed
  <2> QED BY <1>5, <2>1, <2>2 DEF slot_detach
<1>6. CASE UNCHANGED vars
  BY <1>1, <1>6 DEF vars
<1> QED BY <1>2, <1>3, <1>4, <1>5, <1>6 DEF Next

(* A set of naturals that is not empty has a least element. *)
LEMMA LeastNat ==
    ASSUME NEW T \in SUBSET Nat, T # {}
    PROVE  \E x \in T : \A y \in T : x <= y
<1>1. IsWellFoundedOn(OpToRel(<, Nat), Nat)
  BY NatLessThanWellFounded
<1>2. PICK R : R = {ss \in Nat \X Nat : ss[1] < ss[2]}
  BY Zenon
<1>3. IsWellFoundedOn(R, Nat)
  BY <1>1, <1>2 DEF OpToRel
<1>4. PICK x \in T : \A y \in T : ~(<<y, x>> \in R)
  BY <1>3, WFMin, Zenon
<1>5. \A y \in T : <<y, x>> \in Nat \X Nat /\ <<y, x>>[1] = y /\ <<y, x>>[2] = x
  OBVIOUS
<1>6. \A y \in T : ~(y < x)
  BY <1>2, <1>4, <1>5, Zenon
<1> QED BY <1>6

(* Distinct slots are at most NSlots. *)
LEMMA PathBound ==
    ASSUME NEW n \in Nat, NEW p, Path(n, p)
    PROVE  n <= NSlots
<1>1. PICK q : q = [k \in 0 .. n - 1 |-> p[k]]
  BY Zenon
<1>2. q \in Injection(0 .. n - 1, Index)
  BY <1>1 DEF Path, Injection, IsInjective
<1>3. IsFiniteSet(Index) /\ Cardinality(Index) = NSlots
  BY FS_Interval, SlotAssumption DEF Index
<1>4. Cardinality(0 .. n - 1) = n
  BY FS_Interval
<1>5. Cardinality(0 .. n - 1) <= Cardinality(Index)
  BY <1>2, <1>3, FS_Injection
<1> QED BY <1>3, <1>4, <1>5

(* FreeWalk goes along the path and then stays at its end. *)
LEMMA WalkIsPath ==
    ASSUME NEW n \in Nat, NEW p, Path(n, p), n <= NSlots
    PROVE  \A k \in 0 .. NSlots : FreeWalk[k] = IF k < n THEN p[k] ELSE NIL
<1>1. PICK w : w = [k \in 0 .. NSlots |-> IF k < n THEN p[k] ELSE NIL]
  BY Zenon
<1>2. ASSUME NEW k \in 0 .. NSlots
      PROVE  w[k] = IF k = 0 THEN free_head
                    ELSE IF w[k - 1] = NIL THEN NIL ELSE slots[w[k - 1]].next_free
  <2>0. /\ k \in Nat /\ (k # 0 => k - 1 \in 0 .. NSlots /\ k - 1 \in Nat)
        /\ w[k] = (IF k < n THEN p[k] ELSE NIL)
        /\ k # 0 => w[k - 1] = IF k - 1 < n THEN p[k - 1] ELSE NIL
    BY <1>1, SlotAssumption
  <2>1. CASE k = 0
    BY <1>1, <1>2, <2>1 DEF Path
  <2>2. CASE k # 0 /\ k <= n
    <3>1. k - 1 \in 0 .. n - 1 /\ (k - 1) + 1 = k /\ w[k - 1] = p[k - 1]
      BY <2>0, <2>2
    <3>2. w[k] = p[k]
      BY <1>1, <1>2, <2>2 DEF Path
    <3>3. p[k - 1] # NIL /\ p[k] = slots[p[k - 1]].next_free
      BY <3>1 DEF Path, Index, NIL
    <3> QED BY <2>2, <3>1, <3>2, <3>3
  <2>3. CASE k > n
    <3>1. w[k] = NIL /\ w[k - 1] = NIL /\ k # 0
      BY <2>0, <2>3
    <3> QED BY <3>1
  <2> QED BY <1>2, <2>1, <2>2, <2>3
<1>3. PICK f : f = CHOOSE g : g = [k \in 0 .. NSlots |->
                  IF k = 0 THEN free_head
                  ELSE IF g[k - 1] = NIL THEN NIL ELSE slots[g[k - 1]].next_free]
  BY Zenon
<1>4. FreeWalk = f
  BY <1>3, Zenon DEF FreeWalk
<1>5. w = [k \in 0 .. NSlots |->
             IF k = 0 THEN free_head
             ELSE IF w[k - 1] = NIL THEN NIL ELSE slots[w[k - 1]].next_free]
  BY <1>1, <1>2
<1>6. f = [k \in 0 .. NSlots |->
             IF k = 0 THEN free_head
             ELSE IF f[k - 1] = NIL THEN NIL ELSE slots[f[k - 1]].next_free]
  BY <1>3, <1>5, Zenon
<1>7. SUFFICES ASSUME NEW T, T = {k \in 0 .. NSlots : f[k] # w[k]}, T # {}
               PROVE  FALSE
  <2>1. PICK T : T = {k \in 0 .. NSlots : f[k] # w[k]}
    BY Zenon
  <2>2. T = {}
    BY <1>7, <2>1
  <2>3. \A k \in 0 .. NSlots : f[k] = w[k]
    BY <2>1, <2>2
  <2> QED BY <1>1, <1>4, <2>3
<1>8. PICK x \in T : \A y \in T : x <= y
  BY <1>7, LeastNat, SlotAssumption
<1>9. x \in 0 .. NSlots /\ f[x] # w[x]
  BY <1>7, <1>8
<1>10. x # 0
  BY <1>2, <1>6, <1>9
<1>11. x - 1 \in 0 .. NSlots /\ x - 1 \notin T
  BY <1>8, <1>9, <1>10, SlotAssumption
<1>12. f[x - 1] = w[x - 1]
  BY <1>7, <1>11
<1> QED BY <1>2, <1>6, <1>9, <1>10, <1>12, Zenon

(* The free list holds every free slot once and nothing else, and ends: no *)
(* acquisition, release, failed acquisition or detach of any request loses *)
(* a slot or lists a busy one.                                             *)
THEOREM SlotsListed == Spec => []FreeListExact
<1>1. Listed => FreeListExact
  <2>1. SUFFICES ASSUME Listed PROVE FreeListExact
    OBVIOUS
  <2>2. PICK n \in Nat : \E q : Path(n, q)
    BY <2>1 DEF Listed
  <2>3. PICK p : Path(n, p)
    BY <2>2
  <2>4. n <= NSlots
    BY <2>3, PathBound
  <2>5. \A k \in 0 .. NSlots : FreeWalk[k] = IF k < n THEN p[k] ELSE NIL
    BY <2>3, <2>4, WalkIsPath
  <2>6. FreeWalk[NSlots] = NIL
    BY <2>4, <2>5, SlotAssumption
  <2>7. ASSUME NEW i \in {FreeWalk[k] : k \in 0 .. NSlots} \ {NIL}
        PROVE  i \in Index /\ slots[i].gen = 0
    BY <2>3, <2>5, <2>7 DEF Path
  <2>8. ASSUME NEW i \in Index, slots[i].gen = 0
        PROVE  i # NIL /\ \E k \in 0 .. NSlots : i = FreeWalk[k]
    <3>1. PICK k \in 0 .. n - 1 : p[k] = i
      BY <2>3, <2>8, Zenon DEF Path
    <3>2. k \in 0 .. NSlots /\ k < n
      BY <2>4, <3>1, SlotAssumption
    <3> QED BY <2>5, <2>8, <3>1, <3>2 DEF Index, NIL
  <2> QED BY <2>6, <2>7, <2>8 DEF FreeListExact
<1>2. IInv /\ Listed /\ [Next]_vars => Listed'
  BY StepListed
<1> QED BY <1>1, <1>2, InitListed, Inductive, PTL DEF Spec
=============================================================================
