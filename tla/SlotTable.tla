----------------------------- MODULE SlotTable -----------------------------
(***************************************************************************)
(* The wait slots of one nginx worker (runtime/ngx_http_waf_slot.c).       *)
(*                                                                         *)
(* A request that waits for inspectors owns a slot.  The bus message it    *)
(* publishes carries rid = (generation, index); the answer is matched by   *)
(* slot_lookup alone.  Nothing else ties an answer to a request: the       *)
(* request may have moved to another wave, ended, or been destroyed with   *)
(* its pool, and its slot may serve someone else, when an answer arrives.  *)
(***************************************************************************)
EXTENDS Integers

CONSTANTS
    Ctxs,       \* request contexts (ngx_http_waf_ctx_t)
    NoCtx,      \* the NULL context
    NSlots,     \* waf_max_inflight
    GenMask,    \* NGX_HTTP_WAF_SLOT_GEN_MASK, 2^40 - 1 in the build
    MaxAcquired \* bound of the model on the number of acquisitions

ASSUME SlotAssumption ==
    /\ NoCtx \notin Ctxs
    /\ NSlots \in Nat \ {0}
    /\ GenMask \in Nat \ {0}
    /\ MaxAcquired \in Nat

NIL == -1       \* NGX_HTTP_WAF_SLOT_NIL

Index == 0 .. NSlots - 1

Gen == 0 .. GenMask

VARIABLES
    slots,      \* the table: generation (0 when free), owner, free-list link
    free_head,  \* first free slot
    seq,        \* last generation handed out
    ctx_slot,   \* ctx->slot
    ctx_rid,    \* ctx->rid, <<generation, index>>
    alive,      \* contexts whose request pool exists
    asked,      \* every question ever published: its rid and who asked
    acquired,   \* history: how many acquisitions there have been
    born        \* history: number of the last acquisition of each slot

vars == <<slots, free_head, seq, ctx_slot, ctx_rid, alive, asked, acquired, born>>

Slot == [gen : Gen, ctx : Ctxs \cup {NoCtx}, next_free : Index \cup {NIL}]

Rid == Gen \X Index

Question == [rid : Rid, ctx : Ctxs, born : Nat]

(* The table, the generation counter and the contexts' links to slots. *)
TypeOK ==
    /\ slots \in [Index -> Slot]
    /\ free_head \in Index \cup {NIL}
    /\ seq \in Gen
    /\ ctx_slot \in [Ctxs -> Index \cup {NIL}]
    /\ ctx_rid \in [Ctxs -> Rid]
    /\ alive \subseteq Ctxs
    /\ asked \subseteq Question
    /\ acquired \in Nat
    /\ born \in [Index -> Nat]

-----------------------------------------------------------------------------
(* slot_table_init: every slot free, linked in index order, the generation *)
(* counter seeded at random.                                               *)

slot_table_init ==
    /\ slots = [i \in Index |->
                  [gen |-> 0, ctx |-> NoCtx,
                   next_free |-> IF i = NSlots - 1 THEN NIL ELSE i + 1]]
    /\ free_head = 0
    /\ seq \in Gen

Init ==
    /\ slot_table_init
    /\ ctx_slot = [c \in Ctxs |-> NIL]
    /\ ctx_rid = [c \in Ctxs |-> <<0, 0>>]
    /\ alive = {}
    /\ asked = {}
    /\ acquired = 0
    /\ born = [i \in Index |-> 0]

(* Mutant: the counter does not move. *)
next_gen_stuck(s) == IF s = 0 THEN 1 ELSE s

(* Mutant: the generation of a free slot is handed out. *)
next_gen_zero(s) == IF s = GenMask THEN 0 ELSE s + 1

(* The counter is incremented under the mask until it is not 0. *)
next_gen(s) ==
    LET masked(n) == n % (GenMask + 1)
    IN  IF masked(s + 1) = 0 THEN masked(1) ELSE masked(s + 1)

(* The slot an answer with this rid reaches, or NIL. *)
slot_lookup(rid) ==
    LET i == rid[2]
    IN  IF i \in Index /\ slots[i].gen = rid[1] /\ slots[i].ctx # NoCtx
        THEN i ELSE NIL

(* slot_release as a value: the table with slot i pushed on the free list. *)
Released(i) ==
    [slots EXCEPT ![i] = [gen |-> 0, ctx |-> NoCtx, next_free |-> free_head]]

slot_release(i) ==
    IF slots[i].gen = 0
    THEN UNCHANGED <<slots, free_head, ctx_slot>>
    ELSE /\ slots' = Released(i)
         /\ free_head' = i
         /\ ctx_slot' = [c \in Ctxs |->
              IF c = slots[i].ctx /\ ctx_slot[c] = i THEN NIL ELSE ctx_slot[c]]

-----------------------------------------------------------------------------
(* A request reaches the access handler: its context is created. *)
Arrive(c) ==
    /\ c \notin alive
    /\ alive' = alive \cup {c}
    /\ ctx_slot' = [ctx_slot EXCEPT ![c] = NIL]
    /\ ctx_rid' = [ctx_rid EXCEPT ![c] = <<0, 0>>]
    /\ UNCHANGED <<slots, free_head, seq, asked, acquired, born>>

(* ensure_slot of a context without a slot pops the head of the free list. *)
slot_acquire(c) ==
    /\ c \in alive
    /\ ctx_slot[c] = NIL
    /\ free_head # NIL
    /\ acquired < MaxAcquired
    /\ LET i == free_head
           g == next_gen(seq)
       IN  /\ slots' = [slots EXCEPT ![i] =
                          [gen |-> g, ctx |-> c, next_free |-> NIL]]
           /\ free_head' = slots[i].next_free
           /\ seq' = g
           /\ ctx_slot' = [ctx_slot EXCEPT ![c] = i]
           /\ ctx_rid' = [ctx_rid EXCEPT ![c] = <<g, i>>]
           /\ acquired' = acquired + 1
           /\ born' = [born EXCEPT ![i] = acquired + 1]
    /\ UNCHANGED <<alive, asked>>

(* The pool cannot hold the cleanup: the slot just popped is released at   *)
(* once and the caller gets NULL; the generation is spent.                 *)
AcquireNoCleanup(c) ==
    /\ c \in alive
    /\ ctx_slot[c] = NIL
    /\ free_head # NIL
    /\ acquired < MaxAcquired
    /\ LET i == free_head
           g == next_gen(seq)
       IN  /\ seq' = g
           /\ ctx_rid' = [ctx_rid EXCEPT ![c] = <<g, i>>]
           /\ acquired' = acquired + 1
           /\ born' = [born EXCEPT ![i] = acquired + 1]
    /\ UNCHANGED <<slots, free_head, ctx_slot, alive, asked>>

(* publish_wave puts the context's rid on a message. *)
Publish(c) ==
    /\ c \in alive
    /\ slot_lookup(ctx_rid[c]) # NIL
    /\ ctx_slot[c] # NIL
    /\ asked' = asked \cup
         {[rid |-> ctx_rid[c], ctx |-> c, born |-> born[ctx_slot[c]]]}
    /\ UNCHANGED <<slots, free_head, seq, ctx_slot, ctx_rid, alive, acquired, born>>

(* The wave closes, the phase ends or fails: the slot goes back. *)
slot_drop(c) ==
    /\ c \in alive
    /\ ctx_slot[c] # NIL
    /\ slot_release(ctx_slot[c])
    /\ UNCHANGED <<seq, ctx_rid, alive, asked, acquired, born>>

(* The request pool is destroyed (the end, or the client went away): every *)
(* acquisition's cleanup runs slot_detach; the first one does the work.    *)
slot_detach(c) ==
    /\ c \in alive
    /\ alive' = alive \ {c}
    /\ ctx_slot' = [ctx_slot EXCEPT ![c] = NIL]
    /\ IF ctx_slot[c] # NIL /\ slots[ctx_slot[c]].gen = ctx_rid[c][1]
       THEN /\ slots' = Released(ctx_slot[c])
            /\ free_head' = ctx_slot[c]
       ELSE UNCHANGED <<slots, free_head>>
    /\ UNCHANGED <<seq, ctx_rid, asked, acquired, born>>

Next ==
    \E c \in Ctxs :
        \/ Arrive(c)
        \/ slot_acquire(c)
        \/ AcquireNoCleanup(c)
        \/ Publish(c)
        \/ slot_drop(c)
        \/ slot_detach(c)

Spec == Init /\ [][Next]_vars

-----------------------------------------------------------------------------
(* The free list as the acquirer walks it: f[k] is the slot after k links. *)
FreeWalk ==
    LET f[k \in 0 .. NSlots] ==
          IF k = 0 THEN free_head
          ELSE IF f[k - 1] = NIL THEN NIL ELSE slots[f[k - 1]].next_free
    IN  f

(* The walk from free_head meets every slot of generation 0 and no other,  *)
(* and ends: no acquisition, release, failed acquisition or detach loses a *)
(* slot, links one twice or hands out a busy one.                          *)
FreeListExact ==
    /\ FreeWalk[NSlots] = NIL
    /\ {FreeWalk[k] : k \in 0 .. NSlots} \ {NIL} = {i \in Index : slots[i].gen = 0}

(* A busy slot and its context point at each other, under the context's    *)
(* rid, and the context is alive: the owner that slot_lookup gives an      *)
(* answer to is never a request whose pool is gone.                        *)
OwnersAgree ==
    /\ \A i \in Index : slots[i].gen = 0 <=> slots[i].ctx = NoCtx
    /\ \A i \in Index : slots[i].gen # 0 =>
         /\ slots[i].ctx \in alive
         /\ ctx_slot[slots[i].ctx] = i
         /\ ctx_rid[slots[i].ctx] = <<slots[i].gen, i>>
    /\ \A c \in Ctxs : ctx_slot[c] # NIL =>
         slots[ctx_slot[c]].ctx = c

(* An answer reaches the acquisition that asked for it or nobody: whenever *)
(* it arrives, if fewer than GenMask acquisitions have happened since the  *)
(* question, slot_lookup of its rid finds no slot, or the slot still held  *)
(* by the same context since the same acquisition.                         *)
ReplyToAsker ==
    \A q \in asked :
        /\ acquired - q.born < GenMask
        /\ slot_lookup(q.rid) # NIL
        => /\ slots[slot_lookup(q.rid)].ctx = q.ctx
           /\ born[slot_lookup(q.rid)] = q.born

=============================================================================
