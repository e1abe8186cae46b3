--------------------------- MODULE BreakerProofs ---------------------------
(***************************************************************************)
(* ProbesSpaced and RefusalsEnd of Breaker, for any number of workers, any *)
(* inspectors that claim the record one after the other, and all times and *)
(* thresholds that BreakerAssumption admits.                               *)
(*                                                                         *)
(* The argument: whatever is stored into probe_at, but for a reset, is     *)
(* breaker_probe later than a time that some worker took at most Lag ago,  *)
(* and that time is the one of the latest probe or at most that of the     *)
(* latest decision to open.                                                *)
(***************************************************************************)
EXTENDS Breaker, TLAPS

Locals == {"pc", "call", "todo", "now", "old", "clean"}
Fields == {"state", "probe_at", "epoch", "attempts", "failures"}
States == {"OPEN", "CLOSED", "HALF"}
Pairs == Fields \X (Int \cup States)

(* The stores a call r has still to make, p being the probe_at in the zone. *)
(* An opening has OPEN after the time of the probe; once only OPEN is left, *)
(* that time, or a later one of another worker, is in the zone.             *)
IsOpen(s) == s[1] = "state" /\ s[2] = "OPEN"
IsTime(s) == s[1] = "probe_at"
Timed(r) == \E j \in 1..Len(r.todo) : IsTime(r.todo[j])

Stores(r, p) ==
    \A i \in 1..Len(r.todo) :
        /\ IsTime(r.todo[i]) => r.todo[i][2] = 0 \/ r.todo[i][2] = r.now + Probe
        /\ IsOpen(r.todo[i]) => \A j \in 1..Len(r.todo) :
             IsTime(r.todo[j]) => j < i /\ r.todo[j][2] # 0
        /\ IsOpen(r.todo[i]) /\ r.clean /\ ~Timed(r) => p >= r.now + Probe - Lag

(* A call that has begun took the time at most Lag before t. *)
Late(r, t) ==
    r.pc # "idle" \/ r.todo # <<>> => r.now \in Nat /\ r.now <= t /\ t - r.now <= Lag

Shape(r) == DOMAIN r = Locals /\ r.todo \in Seq(Pairs)

Due(r) == r.pc = "probe_at" => r.old \in Int /\ r.now >= r.old

Call(r, p, t) == Shape(r) /\ Late(r, t) /\ Due(r) /\ Stores(r, p)

(* What a call r knows of the latest probe pr and the latest decision o to  *)
(* open: its own decision counts; breaker_result is not breaker_allow; and  *)
(* when probe_at has moved since its load, one of the two is recent.        *)
Results == {"idle", "roll", "epoch", "attempt", "failure", "judge", "samples", "ratio"}

Recent(r, pr, o) == r.now - pr < Probe \/ r.now - o < Probe

Held(r, p, pr, o) ==
    /\ \A i \in 1..Len(r.todo) : IsTime(r.todo[i]) /\ r.todo[i][2] # 0 => r.now <= o
    /\ r.pc \in Results => r.call # "allow"
    /\ r.pc = "probe_at" => r.todo = <<>>
    /\ r.pc = "probe_at" /\ r.clean => p = r.old \/ Recent(r, pr, o)

Types ==
    /\ clock \in Nat
    /\ "probe_at" \in DOMAIN b /\ b.probe_at \in Int
    /\ probed \in Int /\ probed <= clock
    /\ opened \in Int /\ opened <= clock
    /\ opening \in Int
    /\ DOMAIN wk = Workers

Calls ==
    \A w \in Workers :
        Call(wk[w], b.probe_at, clock) /\ Held(wk[w], b.probe_at, probed, opening)

(* The next probe is not due before its time, nor long after it. *)
Spaced ==
    /\ b.probe_at >= probed + Probe - Lag
    /\ b.probe_at >= opened + Probe - Lag
    /\ b.probe_at <= probed + Probe \/ b.probe_at <= opening + Probe

IInv == Types /\ Calls /\ Spaced

-----------------------------------------------------------------------------
(* The times are naturals, and breaker_probe is longer than a worker stands still. *)
LEMMA Times == Probe \in Nat /\ Lag \in Nat /\ Window \in Nat /\ Lag < Probe
BY BreakerAssumption DEF BreakerAssumption

(* A store of a field of the record. *)
LEMMA PairIn ==
    ASSUME NEW f \in Fields, NEW v, v \in Int \/ v \in States
    PROVE  <<f, v>> \in Pairs
BY DEF Pairs

(* A worker outside a call owes nothing. *)
LEMMA IdleCall ==
    ASSUME NEW p, NEW t, NEW pr, NEW o PROVE Call(Idle, p, t) /\ Held(Idle, p, pr, o)
<1>1. Shape(Idle)
  BY DEF Shape, Idle, Locals
<1>2. Idle.todo = <<>> /\ Idle.pc = "idle" /\ Idle.call = "none"
  BY DEF Idle
<1>. QED
  BY <1>1, <1>2 DEF Call, Late, Due, Stores, Held

(* The zeroed zone, with no call begun. *)
LEMMA InitInv == Init => IInv
<1>. SUFFICES ASSUME Init PROVE IInv
  OBVIOUS
<1>1. Types
  BY Times DEF Init, Types
<1>2. Calls
  BY IdleCall DEF Init, Calls
<1>3. Spaced
  BY Times DEF Init, Spaced
<1>. QED
  BY <1>1, <1>2, <1>3 DEF IInv

(* A worker in a call took the time at most Lag ago. *)
LEMMA BusyNow ==
    ASSUME IInv, NEW w \in Workers, wk[w].pc # "idle" \/ wk[w].todo # <<>>
    PROVE  wk[w].now \in Nat /\ wk[w].now <= clock /\ clock - wk[w].now <= Lag
BY DEF IInv, Calls, Call, Late

(* A later decision to open takes nothing away. *)
LEMMA HeldLater ==
    ASSUME IInv, NEW x \in Workers, NEW o \in Int, o >= opening
    PROVE  Held(wk[x], b.probe_at, probed, o)
<1>1. Held(wk[x], b.probe_at, probed, opening)
  BY DEF IInv, Calls
<1>2. opening \in Int /\ b.probe_at \in Int /\ probed \in Int
  BY DEF IInv, Types
<1>3. ASSUME NEW i \in 1..Len(wk[x].todo), IsTime(wk[x].todo[i]), wk[x].todo[i][2] # 0
      PROVE  wk[x].now <= o
  <2>1. wk[x].now \in Nat
    BY <1>3, BusyNow
  <2>2. wk[x].now <= opening
    BY <1>1, <1>3 DEF Held
  <2>. QED
    BY <1>2, <2>1, <2>2
<1>4. ASSUME wk[x].pc = "probe_at", wk[x].clean
      PROVE  b.probe_at = wk[x].old \/ Recent(wk[x], probed, o)
  <2>1. wk[x].now \in Nat
    BY <1>4, BusyNow
  <2>2. b.probe_at = wk[x].old \/ Recent(wk[x], probed, opening)
    BY <1>1, <1>4 DEF Held
  <2>. QED
    BY <1>2, <2>1, <2>2, Times DEF Recent
<1>. QED
  BY <1>1, <1>3, <1>4 DEF Held

(* A step that changes the locals of one worker, and perhaps decides to open. *)
LEMMA OneMoves ==
    ASSUME IInv, NEW w \in Workers, NEW r,
           Call(r, b.probe_at, clock), Held(r, b.probe_at, probed, opening'),
           wk' = [wk EXCEPT ![w] = r],
           b'.probe_at = b.probe_at, DOMAIN b' = DOMAIN b,
           clock' = clock, probed' = probed, opened' = opened,
           opening' \in Int, opening' >= opening
    PROVE  IInv'
<1>1. Types'
  BY DEF IInv, Types
<1>2. ASSUME NEW x \in Workers PROVE Held(wk[x], b.probe_at, probed, opening')
  BY HeldLater
<1>3. Calls'
  BY <1>2 DEF IInv, Types, Calls
<1>4. Spaced'
  BY Times DEF IInv, Types, Spaced
<1>. QED
  BY <1>1, <1>3, <1>4 DEF IInv

(* The same when nothing else changes: a load, a return, a list of stores.  *)
Quiet ==
    /\ b'.probe_at = b.probe_at /\ DOMAIN b' = DOMAIN b
    /\ UNCHANGED <<clock, probed, opened, opening>>

(* One worker moves and nothing else changes. *)
LEMMA QuietInv ==
    ASSUME IInv, NEW w \in Workers, NEW r, wk' = [wk EXCEPT ![w] = r], Quiet,
           Call(r, b.probe_at, clock), Held(r, b.probe_at, probed, opening)
    PROVE  IInv'
<1>1. opening' \in Int /\ opening' >= opening /\ opening' = opening
  BY DEF IInv, Types, Quiet
<1>. QED
  BY <1>1, OneMoves, Zenon DEF Quiet

(* A load of the call that keeps nothing. *)
LEMMA GotoInv ==
    ASSUME IInv, NEW w \in Workers, NEW pc, pc # "probe_at",
           pc \in Results => wk[w].call # "allow",
           wk[w].pc # "idle", wk[w].todo = <<>>, Goto(w, pc), Quiet
    PROVE  IInv'
<1>1. PICK r : r = [wk[w] EXCEPT !.pc = pc]
  BY Zenon
<1>2. wk' = [wk EXCEPT ![w] = r]
  BY <1>1 DEF Goto
<1>3. Call(wk[w], b.probe_at, clock)
  BY DEF IInv, Calls
<1>4. /\ DOMAIN r = Locals /\ r.pc = pc /\ r.todo = <<>> /\ r.now = wk[w].now
      /\ r.call = wk[w].call
  BY <1>1, <1>3 DEF Call, Shape, Locals
<1>5. Call(r, b.probe_at, clock)
  BY <1>3, <1>4 DEF Call, Shape, Late, Due, Stores
<1>6. Held(r, b.probe_at, probed, opening)
  BY <1>4 DEF Held
<1>. QED
  BY <1>2, <1>5, <1>6, QuietInv, Zenon

(* A load whose value the call keeps for its compare-and-set. *)
LEMMA ReadInv ==
    ASSUME IInv, NEW w \in Workers, NEW pc, NEW v,
           pc = "probe_at" => v = b.probe_at /\ wk[w].now >= v,
           pc \in Results => wk[w].call # "allow",
           wk[w].pc # "idle", wk[w].todo = <<>>, Read(w, pc, v), Quiet
    PROVE  IInv'
<1>1. PICK r : r = [wk[w] EXCEPT !.pc = pc, !.old = v]
  OBVIOUS
<1>2. wk' = [wk EXCEPT ![w] = r]
  BY <1>1, Zenon DEF Read
<1>3. Call(wk[w], b.probe_at, clock) /\ b.probe_at \in Int
  BY DEF IInv, Calls, Types
<1>4. /\ DOMAIN r = Locals /\ r.pc = pc /\ r.old = v /\ r.todo = <<>> /\ r.now = wk[w].now
      /\ r.call = wk[w].call
  BY <1>1, <1>3 DEF Call, Shape, Locals
<1>5. Call(r, b.probe_at, clock)
  BY <1>3, <1>4 DEF Call, Shape, Late, Due, Stores
<1>6. Held(r, b.probe_at, probed, opening)
  BY <1>4 DEF Held
<1>. QED
  BY <1>2, <1>5, <1>6, QuietInv, Zenon

(* The end of a call. *)
LEMMA ReturnInv == ASSUME IInv, NEW w \in Workers, Return(w), Quiet PROVE IInv'
BY QuietInv, IdleCall, Zenon DEF Return

-----------------------------------------------------------------------------
(* Lists of plain stores: none opens the breaker without setting the time  *)
(* of the probe first.                                                     *)
Opening(st, t) ==
    \A i \in 1..Len(st) :
        /\ IsTime(st[i]) => st[i][2] = 0 \/ st[i][2] = t + Probe
        /\ IsOpen(st[i]) => /\ \E j \in 1..Len(st) : IsTime(st[j])
                            /\ \A j \in 1..Len(st) : IsTime(st[j]) => j < i /\ st[j][2] # 0

(* The locals of a worker that begins such a list. *)
LEMMA TodoCall ==
    ASSUME IInv, NEW w \in Workers, NEW r, NEW st \in Seq(Pairs), NEW p, NEW pr, NEW o,
           wk[w].pc # "idle", DOMAIN r = Locals, r.pc # "probe_at", r.todo = st,
           r.now = wk[w].now, r.pc \in Results => r.call # "allow",
           Opening(st, wk[w].now),
           \A i \in 1..Len(st) : IsTime(st[i]) /\ st[i][2] # 0 => wk[w].now <= o
    PROVE  Call(r, p, clock) /\ Held(r, p, pr, o)
<1>1. Late(r, clock)
  BY BusyNow DEF Late
<1>2. Stores(r, p)
  BY DEF Stores, Timed, Opening
<1>3. Held(r, p, pr, o)
  BY DEF Held
<1>. QED
  BY <1>1, <1>2, <1>3 DEF Call, Shape, Due

(* A list with neither a time nor OPEN. *)
LEMMA PlainTodo ==
    ASSUME NEW st, NEW t, NEW o, \A i \in 1..Len(st) : ~IsTime(st[i]) /\ ~IsOpen(st[i])
    PROVE  /\ Opening(st, t)
           /\ \A i \in 1..Len(st) : IsTime(st[i]) /\ st[i][2] # 0 => t <= o
BY DEF Opening

(* The locals of a worker that has only a list of stores left to do. *)
LEMMA WriteCall ==
    ASSUME IInv, NEW w \in Workers, NEW st \in Seq(Pairs), NEW p, NEW pr, NEW o,
           wk[w].pc # "idle", Opening(st, wk[w].now), Write(w, st),
           \A i \in 1..Len(st) : IsTime(st[i]) /\ st[i][2] # 0 => wk[w].now <= o
    PROVE  \E r : wk' = [wk EXCEPT ![w] = r] /\ Call(r, p, clock) /\ Held(r, p, pr, o)
<1>1. PICK r : r = [Idle EXCEPT !.todo = st, !.now = wk[w].now, !.clean = wk[w].clean]
  OBVIOUS
<1>2. wk' = [wk EXCEPT ![w] = r]
  BY <1>1 DEF Write
<1>3. /\ DOMAIN r = Locals /\ r.pc = "idle" /\ r.todo = st /\ r.now = wk[w].now
      /\ r.call = "none"
  BY <1>1 DEF Idle, Locals
<1>4. Call(r, p, clock) /\ Held(r, p, pr, o)
  BY <1>3, TodoCall
<1>. QED
  BY <1>2, <1>4, Zenon

(* The stores of the code. *)
LEMMA ConstantPairs ==
    /\ \A t \in Int : /\ <<"attempts", t>> \in Pairs /\ <<"failures", t>> \in Pairs
                      /\ <<"epoch", t>> \in Pairs /\ <<"probe_at", t>> \in Pairs
    /\ \A v \in States : <<"state", v>> \in Pairs
<1>1. Fields = {"state", "probe_at", "epoch", "attempts", "failures"}
  BY DEF Fields
<1>. QED
  BY <1>1, PairIn

(* breaker_open: the list ends with OPEN and begins with the time of the probe. *)
LEMMA OpenInv ==
    ASSUME IInv, NEW w \in Workers, wk[w].pc # "idle", breaker_open(w) PROVE IInv'
<1>1. wk[w].now \in Nat /\ wk[w].now + Probe \in Int /\ wk[w].now + Probe # 0
  <2>1. wk[w].now \in Nat
    BY BusyNow
  <2>. QED
    BY <2>1, Times
<1>2. PICK st : st = << <<"probe_at", wk[w].now + Probe>>, <<"epoch", wk[w].now>>,
                   <<"attempts", 0>>, <<"failures", 0>>, <<"state", "OPEN">> >>
  BY Zenon
<1>3. st \in Seq(Pairs)
  <2>1. wk[w].now \in Int /\ 0 \in Int /\ "OPEN" \in States
    BY <1>1 DEF States
  <2>2. /\ <<"probe_at", wk[w].now + Probe>> \in Pairs /\ <<"epoch", wk[w].now>> \in Pairs
        /\ <<"attempts", 0>> \in Pairs /\ <<"failures", 0>> \in Pairs
    BY <1>1, <2>1, ConstantPairs, Zenon
  <2>3. <<"state", "OPEN">> \in Pairs
    BY <2>1, ConstantPairs
  <2>. QED
    BY <1>2, <2>2, <2>3
<1>4. /\ Len(st) = 5
      /\ IsTime(st[1]) /\ ~IsOpen(st[1]) /\ st[1][2] = wk[w].now + Probe
      /\ \A i \in 2..5 : ~IsTime(st[i])
  BY <1>2 DEF IsTime, IsOpen
<1>5. Opening(st, wk[w].now)
  BY <1>1, <1>4 DEF Opening
<1>6. /\ Write(w, st) /\ UNCHANGED <<clock, b, probed, opened>>
      /\ opening' = Latest(opening, wk[w].now)
  BY <1>2 DEF breaker_open
<1>7. opening' \in Int /\ opening' >= opening /\ wk[w].now <= opening'
  BY <1>1, <1>6 DEF Latest, IInv, Types
<1>8. PICK r : /\ wk' = [wk EXCEPT ![w] = r] /\ Call(r, b.probe_at, clock)
               /\ Held(r, b.probe_at, probed, opening')
  BY <1>3, <1>5, <1>6, <1>7, WriteCall, Zenon
<1>. QED
  BY <1>6, <1>7, <1>8, OneMoves, Zenon

(* breaker_close stores no time. *)
LEMMA CloseInv ==
    ASSUME IInv, NEW w \in Workers, wk[w].pc # "idle", breaker_close(w) PROVE IInv'
<1>1. PICK st : st = << <<"epoch", wk[w].now>>, <<"attempts", 0>>, <<"failures", 0>>,
                   <<"state", "CLOSED">> >>
  BY Zenon
<1>2. st \in Seq(Pairs)
  <2>1. wk[w].now \in Int /\ 0 \in Int /\ "CLOSED" \in States
    BY BusyNow DEF States
  <2>2. /\ <<"epoch", wk[w].now>> \in Pairs
        /\ <<"attempts", 0>> \in Pairs /\ <<"failures", 0>> \in Pairs
    BY <2>1, ConstantPairs, Zenon
  <2>3. <<"state", "CLOSED">> \in Pairs
    BY <2>1, ConstantPairs
  <2>. QED
    BY <1>1, <2>2, <2>3
<1>3. \A i \in 1..Len(st) : ~IsTime(st[i]) /\ ~IsOpen(st[i])
  BY <1>1 DEF IsTime, IsOpen
<1>4. Write(w, st) /\ Quiet
  BY <1>1 DEF breaker_close, Kept, Quiet
<1>5. PICK r : /\ wk' = [wk EXCEPT ![w] = r] /\ Call(r, b.probe_at, clock)
               /\ Held(r, b.probe_at, probed, opening)
  BY <1>2, <1>3, <1>4, PlainTodo, WriteCall, Zenon
<1>. QED
  BY <1>4, <1>5, QuietInv, Zenon

(* breaker_get: the compare-and-set of the tag, and the reset it begins. *)
LEMMA TagInv ==
    ASSUME IInv, NEW w \in Workers, breaker_get_tag(w) PROVE IInv'
<1>1. wk[w].pc = "tag" /\ wk[w].todo = <<>> /\ UNCHANGED <<clock, probed, opened, opening>>
  BY DEF breaker_get_tag, At, Kept
<1>2. Entry(w) # "probe_at" /\ (Entry(w) \in Results => wk[w].call # "allow")
  BY DEF Entry, Results
<1>3. CASE b.tag = wk[w].old
  <2>1. PICK st : st = << <<"state", "CLOSED">>, <<"probe_at", 0>>,
                          <<"epoch", 0>>, <<"attempts", 0>>, <<"failures", 0>> >>
    BY Zenon
  <2>2. st \in Seq(Pairs)
    <3>1. 0 \in Int /\ "CLOSED" \in States
      BY DEF States
    <3>2. /\ <<"probe_at", 0>> \in Pairs /\ <<"epoch", 0>> \in Pairs
          /\ <<"attempts", 0>> \in Pairs /\ <<"failures", 0>> \in Pairs
      BY <3>1, ConstantPairs
    <3>3. <<"state", "CLOSED">> \in Pairs
      BY <3>1, ConstantPairs
    <3>. QED
      BY <2>1, <3>2, <3>3
  <2>3. \A i \in 1..Len(st) : ~IsOpen(st[i]) /\ (IsTime(st[i]) => st[i][2] = 0)
    BY <2>1 DEF IsTime, IsOpen
  <2>4. Opening(st, wk[w].now)
    BY <2>3 DEF Opening
  <2>5. PICK r : r = [wk[w] EXCEPT !.pc = Entry(w), !.todo = st]
    OBVIOUS
  <2>6. wk' = [wk EXCEPT ![w] = r] /\ b' = [b EXCEPT !.tag = Tag[w]]
    BY <1>3, <2>1, <2>5, Zenon DEF breaker_get_tag
  <2>7. /\ DOMAIN r = Locals /\ r.pc = Entry(w) /\ r.todo = st /\ r.now = wk[w].now
        /\ r.call = wk[w].call
    BY <2>5 DEF IInv, Calls, Call, Shape, Locals
  <2>8. Call(r, b.probe_at, clock) /\ Held(r, b.probe_at, probed, opening)
    BY <1>1, <1>2, <2>2, <2>3, <2>4, <2>7, TodoCall, Zenon
  <2>9. Quiet
    BY <1>1, <2>6 DEF Quiet, IInv, Types
  <2>. QED
    BY <2>6, <2>8, <2>9, QuietInv, Zenon
<1>4. CASE b.tag # wk[w].old
  BY <1>1, <1>2, <1>4, GotoInv DEF breaker_get_tag, Quiet
<1>. QED
  BY <1>3, <1>4

(* breaker_result: a new window. *)
LEMMA RollInv ==
    ASSUME IInv, NEW w \in Workers, breaker_result_roll(w) PROVE IInv'
<1>1. wk[w].pc = "epoch" /\ wk[w].todo = <<>> /\ UNCHANGED <<clock, probed, opened, opening>>
  BY DEF breaker_result_roll, At, Kept
<1>2. wk[w].call # "allow"
  BY <1>1 DEF IInv, Calls, Held, Results
<1>3. CASE b.epoch = wk[w].old
  <2>1. PICK st : st = << <<"attempts", 0>>, <<"failures", 0>> >>
    BY Zenon
  <2>2. st \in Seq(Pairs)
    <3>1. 0 \in Int
      OBVIOUS
    <3>2. <<"attempts", 0>> \in Pairs /\ <<"failures", 0>> \in Pairs
      BY <3>1, ConstantPairs, Zenon
    <3>. QED
      BY <2>1, <3>2
  <2>3. \A i \in 1..Len(st) : ~IsTime(st[i]) /\ ~IsOpen(st[i])
    BY <2>1 DEF IsTime, IsOpen
  <2>4. PICK r : r = [wk[w] EXCEPT !.pc = "attempt", !.todo = st]
    OBVIOUS
  <2>5. wk' = [wk EXCEPT ![w] = r] /\ b' = [b EXCEPT !.epoch = wk[w].now]
    BY <1>3, <2>1, <2>4, Zenon DEF breaker_result_roll
  <2>6. /\ DOMAIN r = Locals /\ r.pc = "attempt" /\ r.todo = st /\ r.now = wk[w].now
        /\ r.call = wk[w].call
    BY <2>4 DEF IInv, Calls, Call, Shape, Locals
  <2>7. Call(r, b.probe_at, clock) /\ Held(r, b.probe_at, probed, opening)
    BY <1>1, <1>2, <2>2, <2>3, <2>6, PlainTodo, TodoCall, Zenon
  <2>8. Quiet
    BY <1>1, <2>5 DEF Quiet, IInv, Types
  <2>. QED
    BY <2>5, <2>7, <2>8, QuietInv, Zenon
<1>4. CASE b.epoch # wk[w].old
  BY <1>1, <1>2, <1>4, GotoInv DEF breaker_result_roll, Quiet
<1>. QED
  BY <1>3, <1>4

-----------------------------------------------------------------------------
(* The other calls after a store into probe_at or a probe: the time is      *)
(* breaker_probe after one at most Lag old, which pr or o has.              *)
LEMMA FreshTime ==
    ASSUME IInv, NEW x \in Workers, NEW p \in Int, p >= clock + Probe - Lag,
           NEW pr \in Int, pr >= clock - Lag \/ opening >= clock - Lag
    PROVE  Call(wk[x], p, clock) /\ Held(wk[x], p, pr, opening)
<1>1. Call(wk[x], b.probe_at, clock) /\ Held(wk[x], b.probe_at, probed, opening)
  BY DEF IInv, Calls
<1>2. opening \in Int /\ clock \in Nat
  BY DEF IInv, Types
<1>3. ASSUME wk[x].pc # "idle" \/ wk[x].todo # <<>>
      PROVE  p >= wk[x].now + Probe - Lag /\ Recent(wk[x], pr, opening)
  <2>1. wk[x].now \in Nat /\ wk[x].now <= clock
    BY <1>3, BusyNow
  <2>. QED
    BY <1>2, <2>1, Times DEF Recent
<1>4. Stores(wk[x], p)
  <2>1. ASSUME NEW i \in 1..Len(wk[x].todo) PROVE p >= wk[x].now + Probe - Lag
    BY <1>3, <2>1
  <2>. QED
    BY <1>1, <2>1 DEF Call, Stores
<1>5. Held(wk[x], p, pr, opening)
  BY <1>1, <1>3 DEF Held
<1>. QED
  BY <1>1, <1>4, <1>5 DEF Call

(* breaker_allow: the compare-and-set that lets a probe through. *)
LEMMA ProbeInv ==
    ASSUME IInv, NEW w \in Workers, breaker_allow_probe(w), b.probe_at = wk[w].old
    PROVE  IInv'
<1>1. Call(wk[w], b.probe_at, clock)
  BY DEF IInv, Calls
<1>2. wk[w].pc = "probe_at"
  BY DEF breaker_allow_probe, At
<1>3. /\ wk[w].now \in Nat /\ wk[w].now <= clock /\ clock - wk[w].now <= Lag
      /\ wk[w].now >= b.probe_at
  BY <1>1, <1>2 DEF Call, Late, Due
<1>4. /\ b' = [b EXCEPT !.probe_at = wk[w].now + Probe]
      /\ Write(w, << <<"state", "HALF">> >>)
      /\ probed' = wk[w].now /\ clock' = clock /\ opened' = opened /\ opening' = opening
  BY DEF breaker_allow_probe
<1>5. b'.probe_at = wk[w].now + Probe /\ DOMAIN b' = DOMAIN b
  BY <1>4 DEF IInv, Types
<1>6. DOMAIN wk' = Workers
  BY <1>4 DEF Write, IInv, Types
<1>7. Types'
  BY <1>3, <1>4, <1>5, <1>6, Times DEF IInv, Types
<1>8. Spaced'
  BY <1>3, <1>4, <1>5, Times DEF IInv, Types, Spaced
<1>9. PICK st : st = << <<"state", "HALF">> >>
  BY Zenon
<1>10. st \in Seq(Pairs)
  <2>1. "HALF" \in States
    BY DEF States
  <2>2. <<"state", "HALF">> \in Pairs
    BY <2>1, ConstantPairs
  <2>. QED
    BY <1>9, <2>2
<1>11. \A i \in 1..Len(st) : ~IsTime(st[i]) /\ ~IsOpen(st[i])
  BY <1>9 DEF IsTime, IsOpen
<1>12. Write(w, st)
  BY <1>4, <1>9
<1>13. PICK r : /\ wk' = [wk EXCEPT ![w] = r] /\ Call(r, b'.probe_at, clock)
                /\ Held(r, b'.probe_at, probed', opening)
  BY <1>2, <1>10, <1>11, <1>12, PlainTodo, WriteCall, Zenon
<1>14. ASSUME NEW x \in Workers
       PROVE  Call(wk[x], b'.probe_at, clock) /\ Held(wk[x], b'.probe_at, probed', opening)
  <2>1. /\ b'.probe_at \in Int /\ b'.probe_at >= clock + Probe - Lag
        /\ probed' \in Int /\ probed' >= clock - Lag
    BY <1>3, <1>4, <1>5, Times DEF IInv, Types
  <2>2. \A p, pr \in Int : p >= clock + Probe - Lag /\ pr >= clock - Lag =>
           Call(wk[x], p, clock) /\ Held(wk[x], p, pr, opening)
    BY FreshTime
  <2>. QED
    BY <2>1, <2>2
<1>15. Calls'
  BY <1>4, <1>13, <1>14 DEF Calls, IInv, Types
<1>. QED
  BY <1>7, <1>8, <1>15 DEF IInv

(* The stores that are left when the first is made. *)
LEMMA RestStores ==
    ASSUME NEW r, NEW q, NEW p, NEW n,
           r.todo \in Seq(Pairs), r.todo # <<>>, Stores(r, p),
           q.todo = Tail(r.todo), q.now = r.now, q.clean = r.clean,
           IsTime(r.todo[1]) /\ r.todo[1][2] # 0 => n >= r.now + Probe - Lag,
           ~IsTime(r.todo[1]) => n = p
    PROVE  Stores(q, n)
<1>1. /\ q.todo \in Seq(Pairs) /\ Len(r.todo) \in Nat /\ Len(q.todo) = Len(r.todo) - 1
      /\ 1 \in 1..Len(r.todo)
      /\ \A i \in 1..Len(q.todo) : i + 1 \in 1..Len(r.todo) /\ q.todo[i] = r.todo[i + 1]
  OBVIOUS
<1>. SUFFICES ASSUME NEW i \in 1..Len(q.todo)
     PROVE /\ IsTime(q.todo[i]) => q.todo[i][2] = 0 \/ q.todo[i][2] = q.now + Probe
           /\ IsOpen(q.todo[i]) => \A j \in 1..Len(q.todo) :
                IsTime(q.todo[j]) => j < i /\ q.todo[j][2] # 0
           /\ IsOpen(q.todo[i]) /\ q.clean /\ ~Timed(q) => n >= q.now + Probe - Lag
  BY Zenon DEF Stores
<1>2. i + 1 \in 1..Len(r.todo) /\ q.todo[i] = r.todo[i + 1]
  BY <1>1
<1>3. IsTime(q.todo[i]) => q.todo[i][2] = 0 \/ q.todo[i][2] = q.now + Probe
  BY <1>2 DEF Stores
<1>4. ASSUME IsOpen(q.todo[i]), NEW j \in 1..Len(q.todo), IsTime(q.todo[j])
      PROVE  j < i /\ q.todo[j][2] # 0
  <2>1. j + 1 \in 1..Len(r.todo) /\ q.todo[j] = r.todo[j + 1]
    BY <1>1
  <2>2. j + 1 < i + 1 /\ r.todo[j + 1][2] # 0
    BY <1>2, <1>4, <2>1 DEF Stores
  <2>. QED
    BY <2>1, <2>2, <1>1
<1>5. ASSUME IsOpen(q.todo[i]), q.clean, ~Timed(q)
      PROVE  n >= q.now + Probe - Lag
  <2>1. CASE IsTime(r.todo[1])
    BY <1>1, <1>2, <1>5, <2>1 DEF Stores
  <2>2. CASE ~IsTime(r.todo[1])
    <3>1. ASSUME NEW j \in 1..Len(r.todo), IsTime(r.todo[j]) PROVE FALSE
      <4>1. j # 1
        BY <2>2, <3>1
      <4>2. j - 1 \in 1..Len(q.todo)
        BY <1>1, <4>1
      <4>3. q.todo[j - 1] = r.todo[j]
        BY <1>1, <4>2
      <4>. QED
        BY <1>5, <3>1, <4>2, <4>3, Zenon DEF Timed
    <3>2. ~Timed(r)
      BY <3>1 DEF Timed
    <3>. QED
      BY <1>2, <1>5, <2>2, <3>2 DEF Stores
  <2>. QED
    BY <2>1, <2>2
<1>. QED
  BY <1>3, <1>4, <1>5

(* A plain store: a reset of probe_at, a new probe_at, or another field. *)
LEMMA StoreInv ==
    ASSUME IInv, NEW w \in Workers, Store(w) PROVE IInv'
<1>1. /\ Call(wk[w], b.probe_at, clock) /\ wk[w].todo # <<>>
      /\ Held(wk[w], b.probe_at, probed, opening)
  BY DEF IInv, Calls, Store
<1>2. wk[w].now \in Nat /\ wk[w].now <= clock /\ clock - wk[w].now <= Lag
  BY <1>1 DEF Call, Late
<1>3. PICK s : s = wk[w].todo[1]
  OBVIOUS
<1>4. Head(wk[w].todo) = s /\ 1 \in 1..Len(wk[w].todo)
  BY <1>1, <1>3 DEF Call, Shape
<1>5. PICK q : q = [wk[w] EXCEPT !.todo = Tail(wk[w].todo)]
  BY Zenon
<1>6. /\ DOMAIN q = Locals /\ q.todo = Tail(wk[w].todo) /\ q.pc = wk[w].pc
      /\ q.now = wk[w].now /\ q.old = wk[w].old /\ q.clean = wk[w].clean
      /\ q.call = wk[w].call
  BY <1>1, <1>5 DEF Call, Shape, Locals
<1>7. /\ q.todo \in Seq(Pairs)
      /\ \A i \in 1..Len(q.todo) : i + 1 \in 1..Len(wk[w].todo) /\ q.todo[i] = wk[w].todo[i + 1]
  BY <1>1, <1>6 DEF Call, Shape
<1>8. PICK wiped \in BOOLEAN : wiped <=> s[1] = "probe_at" /\ s[2] = 0
  BY Zenon
<1>9. /\ b' = [b EXCEPT ![s[1]] = s[2]]
      /\ opened' = IF wiped THEN -Probe
                   ELSE IF s[1] = "state" /\ s[2] = "OPEN" /\ wk[w].clean
                   THEN Latest(opened, wk[w].now) ELSE opened
      /\ probed' = IF wiped THEN -Probe ELSE probed
      /\ clock' = clock /\ opening' = opening
  BY <1>4, <1>8, Zenon DEF Store
<1>10. /\ DOMAIN wk' = Workers
       /\ wk'[w] = Idle \/ wk'[w] = q
       /\ \A x \in Workers \ {w} :
            wk'[x] = IF wiped /\ wk[x] # Idle THEN [wk[x] EXCEPT !.clean = FALSE] ELSE wk[x]
  BY <1>4, <1>5, <1>8 DEF Store
<1>11. /\ DOMAIN b' = DOMAIN b
       /\ b'.probe_at = IF s[1] = "probe_at" THEN s[2] ELSE b.probe_at
  BY <1>9 DEF IInv, Types
<1>12. s[1] = "probe_at" => s[2] = 0 \/ s[2] = wk[w].now + Probe
  BY <1>1, <1>3, <1>4, Zenon DEF Call, Stores, IsTime
<1>13. Held(q, b'.probe_at, probed', opening)
  <2>1. wk[w].pc # "probe_at"
    BY <1>1 DEF Held
  <2>. QED
    BY <1>1, <1>6, <1>7, <2>1, Zenon DEF Held
<1>14. ASSUME /\ IsTime(s) /\ s[2] # 0 => b'.probe_at >= wk[w].now + Probe - Lag
              /\ ~IsTime(s) => b'.probe_at = b.probe_at
       PROVE  Call(wk'[w], b'.probe_at, clock) /\ Held(wk'[w], b'.probe_at, probed', opening)
  <2>1. wk[w].todo \in Seq(Pairs) /\ Stores(wk[w], b.probe_at)
    BY <1>1 DEF Call, Shape
  <2>2. Stores(q, b'.probe_at)
    BY <1>1, <1>3, <1>6, <1>14, <2>1, RestStores, Zenon
  <2>3. Call(q, b'.probe_at, clock)
    BY <1>1, <1>2, <1>6, <1>7, <2>2, Zenon DEF Call, Shape, Late, Due
  <2>. QED
    BY <1>10, <1>13, <2>3, IdleCall
<1>15. CASE wiped
  <2>1. b'.probe_at = 0 /\ probed' = -Probe /\ opened' = -Probe /\ IsTime(s) /\ s[2] = 0
    BY <1>8, <1>9, <1>11, <1>15 DEF IsTime
  <2>2. Types'
    BY <1>9, <1>10, <1>11, <2>1, Times DEF IInv, Types
  <2>3. Spaced'
    BY <2>1, Times DEF Spaced
  <2>4. ASSUME NEW x \in Workers, x # w
        PROVE  Call(wk'[x], b'.probe_at, clock) /\ Held(wk'[x], b'.probe_at, probed', opening)
    <3>1. Call(wk[x], b.probe_at, clock) /\ Held(wk[x], b.probe_at, probed, opening)
      BY DEF IInv, Calls
    <3>2. CASE wk[x] = Idle
      BY <1>10, <2>4, <3>2, IdleCall
    <3>3. CASE wk[x] # Idle
      <4>1. PICK r : r = [wk[x] EXCEPT !.clean = FALSE]
        BY Zenon
      <4>2. /\ DOMAIN r = Locals /\ r.pc = wk[x].pc /\ r.todo = wk[x].todo
            /\ r.now = wk[x].now /\ r.old = wk[x].old /\ ~r.clean /\ r.call = wk[x].call
        BY <3>1, <4>1 DEF Call, Shape, Locals
      <4>3. wk'[x] = r
        BY <1>10, <1>15, <2>4, <3>3, <4>1
      <4>4. Call(r, b'.probe_at, clock)
        BY <3>1, <4>2, Zenon DEF Call, Shape, Late, Due, Stores
      <4>5. Held(r, b'.probe_at, probed', opening)
        BY <3>1, <4>2, Zenon DEF Held
      <4>. QED
        BY <4>3, <4>4, <4>5
    <3>. QED
      BY <3>2, <3>3
  <2>. QED
    BY <1>9, <1>14, <2>1, <2>2, <2>3, <2>4, Zenon DEF IInv, Calls
<1>16. CASE ~wiped /\ s[1] = "probe_at"
  <2>1. /\ b'.probe_at = wk[w].now + Probe /\ probed' = probed /\ opened' = opened
        /\ IsTime(s) /\ s[2] # 0
    BY <1>8, <1>9, <1>11, <1>12, <1>16 DEF IsTime
  <2>2. wk[w].now <= opening
    BY <1>1, <1>3, <1>4, <2>1, Zenon DEF Held
  <2>3. /\ b'.probe_at \in Int /\ b'.probe_at >= clock + Probe - Lag
        /\ opening \in Int /\ opening >= clock - Lag /\ probed' \in Int
    BY <1>2, <2>1, <2>2, Times DEF IInv, Types
  <2>4. Types'
    BY <1>9, <1>10, <1>11, <2>1, <2>3 DEF IInv, Types
  <2>5. Spaced'
    BY <1>2, <1>9, <2>1, <2>2, <2>3, Times DEF IInv, Types, Spaced
  <2>6. ASSUME NEW x \in Workers, x # w
        PROVE  Call(wk'[x], b'.probe_at, clock) /\ Held(wk'[x], b'.probe_at, probed', opening)
    <3>1. wk'[x] = wk[x]
      BY <1>10, <1>16, <2>6
    <3>2. \A p, pr \in Int : p >= clock + Probe - Lag =>
             Call(wk[x], p, clock) /\ Held(wk[x], p, pr, opening)
      BY <2>3, FreshTime
    <3>. QED
      BY <2>3, <3>1, <3>2
  <2>7. b'.probe_at >= wk[w].now + Probe - Lag
    BY <1>2, <2>1, Times
  <2>. QED
    BY <1>9, <1>14, <2>1, <2>4, <2>5, <2>6, <2>7 DEF IInv, Calls
<1>17. CASE s[1] # "probe_at"
  <2>1. b'.probe_at = b.probe_at /\ probed' = probed /\ ~wiped /\ ~IsTime(s)
    BY <1>8, <1>9, <1>11, <1>17 DEF IsTime
  <2>2. opened' \in Int /\ opened' <= clock /\ b.probe_at >= opened' + Probe - Lag
    <3>1. CASE IsOpen(s) /\ wk[w].clean
      <4>1. \A j \in 1..Len(wk[w].todo) : ~IsTime(wk[w].todo[j])
        BY <1>1, <1>3, <1>4, <3>1 DEF Call, Shape, Stores, IsTime, IsOpen
      <4>2. b.probe_at >= wk[w].now + Probe - Lag
        BY <1>1, <1>3, <1>4, <3>1, <4>1, Zenon DEF Call, Stores, Timed
      <4>3. opened' = opened \/ opened' = wk[w].now
        BY <1>9, <2>1 DEF Latest
      <4>. QED
        BY <1>2, <4>2, <4>3 DEF IInv, Types, Spaced
    <3>2. CASE ~(IsOpen(s) /\ wk[w].clean)
      <4>1. opened' = opened
        BY <1>9, <2>1, <3>2 DEF IsOpen
      <4>. QED
        BY <4>1 DEF IInv, Types, Spaced
    <3>. QED
      BY <3>1, <3>2
  <2>3. Types'
    BY <1>9, <1>10, <1>11, <2>1, <2>2 DEF IInv, Types
  <2>4. Spaced'
    BY <1>9, <2>1, <2>2 DEF IInv, Spaced
  <2>5. ASSUME NEW x \in Workers, x # w
        PROVE  Call(wk'[x], b'.probe_at, clock) /\ Held(wk'[x], b'.probe_at, probed', opening)
    BY <1>10, <2>1, <2>5 DEF IInv, Calls
  <2>. QED
    BY <1>9, <1>14, <2>1, <2>3, <2>4, <2>5, Zenon DEF IInv, Calls
<1>. QED
  BY <1>8, <1>15, <1>16, <1>17

-----------------------------------------------------------------------------
(* Allow, Result: a call begins. *)
LEMMA BeginInv ==
    ASSUME IInv, NEW w \in Workers, NEW call, Begin(w, call) PROVE IInv'
<1>1. PICK r : r = [Idle EXCEPT !.pc = "get", !.call = call, !.now = clock]
  OBVIOUS
<1>2. DOMAIN r = Locals /\ r.pc = "get" /\ r.todo = <<>> /\ r.now = clock
  BY <1>1 DEF Idle, Locals
<1>3. wk' = [wk EXCEPT ![w] = r] /\ Quiet
  BY <1>1 DEF Begin, Quiet
<1>4. clock \in Nat /\ Lag \in Nat
  BY Times DEF IInv, Types
<1>5. Late(r, clock)
  BY <1>2, <1>4 DEF Late
<1>6. Call(r, b.probe_at, clock)
  BY <1>2, <1>5 DEF Call, Shape, Due, Stores
<1>7. Held(r, b.probe_at, probed, opening)
  BY <1>2 DEF Held, Results
<1>. QED
  BY <1>3, <1>6, <1>7, QuietInv, Zenon

(* The clock waits for a worker that has stood still for Lag. *)
LEMMA TickInv == ASSUME IInv, Tick PROVE IInv'
<1>1. clock \in Nat /\ clock' = clock + 1 /\ UNCHANGED <<b, wk, probed, opened, opening>>
  BY DEF Tick, IInv, Types
<1>2. Types' /\ Spaced'
  BY <1>1 DEF IInv, Types, Spaced
<1>3. ASSUME NEW w \in Workers PROVE Call(wk[w], b.probe_at, clock')
  <2>1. Call(wk[w], b.probe_at, clock)
    BY DEF IInv, Calls
  <2>2. ASSUME wk[w].pc # "idle" \/ wk[w].todo # <<>> PROVE clock - wk[w].now < Lag
    <3>1. wk[w] # Idle
      BY <2>2 DEF Idle
    <3>. QED
      BY <3>1 DEF Tick
  <2>3. Late(wk[w], clock')
    BY <1>1, <2>1, <2>2, Times DEF Call, Late
  <2>. QED
    BY <2>1, <2>3 DEF Call
<1>. QED
  BY <1>1, <1>2, <1>3 DEF IInv, Calls

(* Every step keeps the invariant. *)
LEMMA StepInv == IInv /\ [Next]_vars => IInv'
<1>. SUFFICES ASSUME IInv, [Next]_vars PROVE IInv'
  OBVIOUS
<1>1. CASE UNCHANGED vars
  BY <1>1 DEF vars, IInv, Types, Calls, Spaced
<1>2. ASSUME NEW w \in Workers, wk[w].pc \in Results PROVE wk[w].call # "allow"
  BY <1>2 DEF IInv, Calls, Held
<1>3. ASSUME NEW w \in Workers, Store(w) PROVE IInv'
  BY <1>3, StoreInv
<1>4. ASSUME NEW w \in Workers, breaker_get(w) PROVE IInv'
  <2>1. wk[w].pc = "get" /\ wk[w].todo = <<>> /\ Quiet
    BY <1>4 DEF breaker_get, At, Kept, Quiet
  <2>2. Goto(w, Entry(w)) \/ Read(w, "tag", b.tag)
    BY <1>4 DEF breaker_get
  <2>3. Entry(w) # "probe_at" /\ (Entry(w) \in Results => wk[w].call # "allow")
    BY DEF Entry, Results
  <2>4. "tag" \notin Results
    BY DEF Results
  <2>. QED
    BY <2>1, <2>2, <2>3, <2>4, GotoInv, ReadInv
<1>5. ASSUME NEW w \in Workers, breaker_get_tag(w) PROVE IInv'
  BY <1>5, TagInv
<1>6. ASSUME NEW w \in Workers, breaker_allow(w) PROVE IInv'
  <2>1. wk[w].pc = "allow" /\ wk[w].todo = <<>> /\ Quiet
    BY <1>6 DEF breaker_allow, At, Quiet
  <2>2. Return(w) \/ Goto(w, "probe")
    BY <1>6 DEF breaker_allow
  <2>3. "probe" \notin Results
    BY DEF Results
  <2>. QED
    BY <2>1, <2>2, <2>3, GotoInv, ReturnInv
<1>7. ASSUME NEW w \in Workers, breaker_allow_due(w) PROVE IInv'
  <2>1. wk[w].pc = "probe" /\ wk[w].todo = <<>> /\ Quiet
    BY <1>7 DEF breaker_allow_due, At, Kept, Quiet
  <2>2. (wk[w].now >= b.probe_at /\ Read(w, "probe_at", b.probe_at)) \/ Return(w)
    BY <1>7 DEF breaker_allow_due
  <2>3. "probe_at" \notin Results
    BY DEF Results
  <2>. QED
    BY <2>1, <2>2, <2>3, ReadInv, ReturnInv
<1>8. ASSUME NEW w \in Workers, breaker_allow_probe(w) PROVE IInv'
  <2>1. CASE b.probe_at = wk[w].old
    BY <1>8, <2>1, ProbeInv
  <2>2. CASE b.probe_at # wk[w].old
    BY <1>8, <2>2, ReturnInv DEF breaker_allow_probe, Quiet
  <2>. QED
    BY <2>1, <2>2
<1>9. ASSUME NEW w \in Workers, \/ breaker_result_epoch(w) \/ breaker_result_attempt(w)
                                \/ breaker_result_failure(w) \/ breaker_result_samples(w)
      PROVE  IInv'
  <2>1. /\ wk[w].pc \in {"roll", "attempt", "failure", "samples"}
        /\ wk[w].todo = <<>> /\ UNCHANGED <<clock, probed, opened, opening>>
    BY <1>9 DEF breaker_result_epoch, breaker_result_attempt, breaker_result_failure,
                breaker_result_samples, At, Kept
  <2>2. wk[w].call # "allow"
    BY <1>2, <2>1 DEF Results
  <2>3. Quiet
    BY <1>9, <2>1 DEF breaker_result_epoch, breaker_result_attempt, breaker_result_failure,
                breaker_result_samples, IInv, Types, Quiet
  <2>4. \/ Goto(w, "attempt") \/ Goto(w, "failure") \/ Goto(w, "judge") \/ Return(w)
        \/ Read(w, "epoch", b.epoch) \/ Read(w, "ratio", b.attempts)
    BY <1>9 DEF breaker_result_epoch, breaker_result_attempt, breaker_result_failure,
                breaker_result_samples
  <2>. QED
    BY <2>1, <2>2, <2>3, <2>4, GotoInv, ReadInv, ReturnInv
<1>10. ASSUME NEW w \in Workers, breaker_result_roll(w) PROVE IInv'
  BY <1>10, RollInv
<1>11. ASSUME NEW w \in Workers, breaker_result_state(w) \/ breaker_result_ratio(w)
       PROVE  IInv'
  <2>1. wk[w].pc \in {"judge", "ratio"} /\ wk[w].todo = <<>>
    BY <1>11 DEF breaker_result_state, breaker_result_ratio, At
  <2>2. wk[w].call # "allow" /\ wk[w].pc # "idle"
    BY <1>2, <2>1 DEF Results
  <2>3. CASE breaker_open(w)
    BY <2>2, <2>3, OpenInv
  <2>4. CASE breaker_close(w)
    BY <2>2, <2>4, CloseInv
  <2>5. CASE (Return(w) \/ Goto(w, "samples")) /\ UNCHANGED b /\ Kept
    BY <2>1, <2>2, <2>5, ReturnInv, GotoInv DEF Kept, Quiet
  <2>. QED
    BY <1>11, <2>3, <2>4, <2>5 DEF breaker_result_state, breaker_result_ratio
<1>12. ASSUME NEW w \in Workers, Allow(w) \/ \E call \in {"answer", "timeout"} : Result(w, call)
       PROVE  IInv'
  BY <1>12, BeginInv DEF Allow, Result
<1>13. CASE Tick \/ \E w \in Workers : Lost(w)
  BY <1>13, TickInv DEF Lost, IInv, Types, Calls, Spaced
<1>. QED
  BY <1>1, <1>3, <1>4, <1>5, <1>6, <1>7, <1>8, <1>9, <1>10, <1>11, <1>12, <1>13
     DEF Next, Step

-----------------------------------------------------------------------------
Flights == flight \in [Workers -> Nat]

(* What a step does to the questions in flight. *)
LEMMA FlightStep ==
    ASSUME Next
    PROVE  \/ flight' = flight
           \/ \E x \in Workers : breaker_allow(x) \/ breaker_allow_probe(x)
           \/ \E x \in Workers : flight[x] > 0 /\ flight' = [flight EXCEPT ![x] = @ - 1]
<1>1. ASSUME NEW w \in Workers, Step(w), ~breaker_allow(w), ~breaker_allow_probe(w)
      PROVE  flight' = flight
  <2>1. CASE Store(w)
    BY <2>1 DEF Store
  <2>2. CASE breaker_get(w) \/ breaker_get_tag(w) \/ breaker_allow_due(w)
    BY <2>2 DEF breaker_get, breaker_get_tag, breaker_allow_due, Kept
  <2>3. CASE \/ breaker_result_epoch(w) \/ breaker_result_roll(w)
             \/ breaker_result_attempt(w) \/ breaker_result_failure(w)
    BY <2>3 DEF breaker_result_epoch, breaker_result_roll, breaker_result_attempt,
                breaker_result_failure, Kept
  <2>4. CASE breaker_result_state(w)
    BY <2>4, Zenon DEF breaker_result_state, breaker_open, breaker_close, Kept
  <2>5. CASE breaker_result_samples(w) \/ breaker_result_ratio(w)
    BY <2>5 DEF breaker_result_samples, breaker_result_ratio, breaker_open, Kept
  <2>. QED
    BY <1>1, <2>1, <2>2, <2>3, <2>4, <2>5 DEF Step
<1>2. ASSUME NEW w \in Workers, Lost(w) \/ \E call \in {"answer", "timeout"} : Result(w, call)
      PROVE  flight[w] > 0 /\ flight' = [flight EXCEPT ![w] = @ - 1]
  BY <1>2 DEF Lost, Result
<1>3. ASSUME NEW w \in Workers, Allow(w) PROVE flight' = flight
  BY <1>3 DEF Allow
<1>4. CASE Tick
  BY <1>4 DEF Tick
<1>. QED
  BY <1>1, <1>2, <1>3, <1>4 DEF Next

(* The questions in flight are counted in naturals. *)
LEMMA FlightsInv == Flights /\ [Next]_vars => Flights'
<1>. SUFFICES ASSUME Flights, [Next]_vars PROVE Flights'
  OBVIOUS
<1>1. CASE UNCHANGED flight
  BY <1>1 DEF Flights
<1>2. ASSUME NEW w \in Workers, LetThrough(w) PROVE Flights'
  BY <1>2 DEF LetThrough, Flights
<1>3. ASSUME NEW w \in Workers, flight[w] > 0, flight' = [flight EXCEPT ![w] = @ - 1]
      PROVE  Flights'
  BY <1>3 DEF Flights
<1>4. ASSUME NEW w \in Workers, breaker_allow(w) \/ breaker_allow_probe(w)
      PROVE  LetThrough(w) \/ flight' = flight
  BY <1>4 DEF breaker_allow, breaker_allow_probe
<1>. QED
  BY <1>1, <1>2, <1>3, <1>4, FlightStep DEF vars

(* A question let through by a worker that is at the compare-and-set. *)
LEMMA ProbeStep ==
    ASSUME Flights, Next, NEW w \in Workers, At(w, "probe_at"), flight'[w] > flight[w]
    PROVE  breaker_allow_probe(w) /\ b.probe_at = wk[w].old
<1>1. flight' # flight
  BY DEF Flights
<1>2. ASSUME NEW x \in Workers, flight[x] > 0, flight' = [flight EXCEPT ![x] = @ - 1]
      PROVE  FALSE
  BY <1>2 DEF Flights
<1>3. ASSUME NEW x \in Workers, breaker_allow(x) PROVE FALSE
  <2>1. x # w
    BY <1>3 DEF breaker_allow, At
  <2>. QED
    BY <1>1, <1>3, <2>1 DEF breaker_allow, LetThrough, Flights
<1>4. ASSUME NEW x \in Workers, breaker_allow_probe(x)
      PROVE  breaker_allow_probe(w) /\ b.probe_at = wk[w].old
  <2>1. b.probe_at = wk[x].old /\ LetThrough(x)
    BY <1>1, <1>4 DEF breaker_allow_probe
  <2>2. x = w
    BY <2>1 DEF LetThrough, Flights
  <2>. QED
    BY <1>4, <2>1, <2>2
<1>. QED
  BY <1>1, <1>2, <1>3, <1>4, FlightStep

(* ProbesSpaced: the compare-and-set of breaker_allow lets a probe through *)
(* only breaker_probe after the last one and after the last opening, but   *)
(* for the time a worker stood still, whatever the number of workers and   *)
(* however their loads and stores interleave.                              *)
THEOREM ProbesAreSpaced == Spec => ProbesSpaced
<1>1. Init => Flights
  BY DEF Init, Flights
<1>2. IInv /\ Flights /\ [Next]_vars =>
        [(\E w \in Workers : At(w, "probe_at") /\ flight'[w] > flight[w])
           => /\ probed' - probed >= Probe - Lag
              /\ probed' - opened >= Probe - Lag]_vars
  <2>. SUFFICES ASSUME IInv, Flights, Next, NEW w \in Workers, At(w, "probe_at"),
                       flight'[w] > flight[w]
       PROVE  probed' - probed >= Probe - Lag /\ probed' - opened >= Probe - Lag
    OBVIOUS
  <2>1. breaker_allow_probe(w) /\ b.probe_at = wk[w].old
    BY ProbeStep
  <2>2. probed' = wk[w].now
    BY <2>1 DEF breaker_allow_probe
  <2>3. Call(wk[w], b.probe_at, clock) /\ wk[w].pc = "probe_at"
    BY DEF IInv, Calls, At
  <2>4. wk[w].now \in Nat /\ wk[w].now >= b.probe_at
    BY <2>1, <2>3 DEF Call, Late, Due
  <2>. QED
    BY <2>2, <2>4, Times DEF IInv, Types, Spaced
<1>. QED
  BY <1>1, <1>2, InitInv, StepInv, FlightsInv, PTL DEF Spec, ProbesSpaced

(* A call of breaker_allow ends at one of its own three steps. *)
LEMMA AllowGoesOn ==
    ASSUME IInv, Next, NEW w \in Workers, wk[w].call = "allow",
           ~breaker_allow(w), ~breaker_allow_due(w), ~breaker_allow_probe(w)
    PROVE  wk'[w].call = "allow"
<1>1. wk[w].pc \notin Results
  BY Zenon DEF IInv, Calls, Held
<1>2. DOMAIN wk = Workers /\ DOMAIN wk[w] = Locals
  BY DEF IInv, Types, Calls, Call, Shape
<1>3. ASSUME NEW x \in Workers, NEW r, wk' = [wk EXCEPT ![x] = r], x # w
      PROVE  wk'[w].call = "allow"
  BY <1>2, <1>3
<1>4. ASSUME NEW x \in Workers, Store(x) PROVE wk'[w].call = "allow"
  <2>1. CASE x = w
    <3>1. wk'[w] = [wk[w] EXCEPT !.todo = Tail(wk[w].todo)]
      BY <1>1, <1>4, <2>1 DEF Store, Results
    <3>. QED
      BY <1>2, <3>1 DEF Locals
  <2>2. CASE x # w
    <3>1. wk'[w] = wk[w] \/ wk'[w] = [wk[w] EXCEPT !.clean = FALSE]
      BY <1>4, <2>2 DEF Store
    <3>. QED
      BY <1>2, <3>1 DEF Locals
  <2>. QED
    BY <2>1, <2>2
<1>5. ASSUME NEW x \in Workers, NEW pc, Goto(x, pc) PROVE wk'[w].call = "allow"
  BY <1>2, <1>5 DEF Goto, Locals
<1>6. ASSUME NEW x \in Workers, NEW pc, NEW v, Read(x, pc, v) PROVE wk'[w].call = "allow"
  BY <1>2, <1>6 DEF Read, Locals
<1>7. ASSUME NEW x \in Workers, breaker_get(x) PROVE wk'[w].call = "allow"
  BY <1>5, <1>6, <1>7 DEF breaker_get
<1>8. ASSUME NEW x \in Workers, breaker_get_tag(x) PROVE wk'[w].call = "allow"
  <2>1. PICK st : st = << <<"state", "CLOSED">>, <<"probe_at", 0>>,
                          <<"epoch", 0>>, <<"attempts", 0>>, <<"failures", 0>> >>
    BY Zenon
  <2>2. \/ Goto(x, Entry(x))
        \/ wk' = [wk EXCEPT ![x].pc = Entry(x), ![x].todo = st]
    BY <1>8, <2>1 DEF breaker_get_tag
  <2>. QED
    BY <1>2, <1>5, <2>2 DEF Locals
<1>9. ASSUME NEW x \in Workers, x # w, Return(x) PROVE wk'[w].call = "allow"
  BY <1>3, <1>9 DEF Return
<1>10. ASSUME NEW x \in Workers, x # w, NEW st, Write(x, st) PROVE wk'[w].call = "allow"
  BY <1>3, <1>10 DEF Write
<1>11. ASSUME NEW x \in Workers, x # w,
              breaker_allow(x) \/ breaker_allow_due(x) \/ breaker_allow_probe(x)
       PROVE  wk'[w].call = "allow"
  BY <1>5, <1>6, <1>9, <1>10, <1>11
     DEF breaker_allow, breaker_allow_due, breaker_allow_probe
<1>12. ASSUME NEW x \in Workers, \/ breaker_result_epoch(x) \/ breaker_result_attempt(x)
                                 \/ breaker_result_failure(x)
       PROVE  wk'[w].call = "allow"
  BY <1>5, <1>6, <1>12
     DEF breaker_result_epoch, breaker_result_attempt, breaker_result_failure
<1>13. ASSUME NEW x \in Workers, breaker_result_roll(x) PROVE wk'[w].call = "allow"
  <2>1. PICK st : st = << <<"attempts", 0>>, <<"failures", 0>> >>
    BY Zenon
  <2>2. \/ Goto(x, "attempt")
        \/ wk' = [wk EXCEPT ![x].pc = "attempt", ![x].todo = st]
    BY <1>13, <2>1 DEF breaker_result_roll
  <2>. QED
    BY <1>2, <1>5, <2>2 DEF Locals
<1>14. ASSUME NEW x \in Workers, \/ breaker_result_state(x) \/ breaker_result_samples(x)
                                 \/ breaker_result_ratio(x)
       PROVE  wk'[w].call = "allow"
  <2>1. x # w
    BY <1>1, <1>14 DEF breaker_result_state, breaker_result_samples, breaker_result_ratio,
                       At, Results
  <2>2. ASSUME breaker_open(x) \/ breaker_close(x) PROVE wk'[w].call = "allow"
    BY <1>10, <2>1, <2>2, Zenon DEF breaker_open, breaker_close
  <2>. QED
    BY <1>5, <1>6, <1>9, <1>14, <2>1, <2>2
       DEF breaker_result_state, breaker_result_samples, breaker_result_ratio
<1>15. ASSUME NEW x \in Workers, NEW call, Begin(x, call) PROVE wk'[w].call = "allow"
  <2>1. x # w
    BY <1>1, <1>15 DEF Begin, At, Results
  <2>. QED
    BY <1>3, <1>15, <2>1 DEF Begin
<1>16. ASSUME NEW x \in Workers, \/ Allow(x) \/ Lost(x)
                                 \/ \E call \in {"answer", "timeout"} : Result(x, call)
       PROVE  wk'[w].call = "allow"
  BY <1>15, <1>16 DEF Allow, Lost, Result
<1>17. CASE Tick
  BY <1>17 DEF Tick
<1>. QED
  BY <1>4, <1>7, <1>8, <1>11, <1>12, <1>13, <1>14, <1>16, <1>17, Zenon DEF Next, Step

(* RefusalsEnd: a question that breaker_allow refuses comes within         *)
(* breaker_probe of a probe or of a decision to open, whatever the workers *)
(* do at the same time, unless the record was claimed anew meanwhile: no   *)
(* interleaving leaves the breaker open with nobody allowed to probe.      *)
THEOREM RefusalsAreShort == Spec => RefusalsEnd
<1>1. Init => Flights
  BY DEF Init, Flights
<1>2. IInv /\ Flights /\ [Next]_vars =>
        [\A w \in Workers : Refused(w) =>
            \/ wk[w].now - probed < Probe
            \/ wk[w].now - opening < Probe
            \/ ~wk[w].clean]_vars
  <2>. SUFFICES ASSUME IInv, Flights, Next, NEW w \in Workers, Refused(w), wk[w].clean
       PROVE  wk[w].now - probed < Probe \/ wk[w].now - opening < Probe
    OBVIOUS
  <2>1. wk[w].call = "allow" /\ wk'[w] = Idle /\ flight'[w] = flight[w]
    BY DEF Refused
  <2>2. wk'[w].call # "allow" /\ wk'[w].todo = <<>>
    BY <2>1 DEF Idle
  <2>3. Held(wk[w], b.probe_at, probed, opening) /\ Call(wk[w], b.probe_at, clock)
    BY DEF IInv, Calls
  <2>4. DOMAIN wk = Workers /\ DOMAIN wk[w] = Locals
    BY <2>3 DEF IInv, Types, Call, Shape
  <2>5. CASE breaker_allow(w)
    <3>1. ~LetThrough(w)
      BY <2>1 DEF LetThrough, Flights
    <3>2. Goto(w, "probe")
      BY <2>5, <3>1 DEF breaker_allow
    <3>3. wk'[w].call = "allow"
      BY <2>1, <2>4, <3>2 DEF Goto, Locals
    <3>. QED
      BY <2>2, <3>3
  <2>6. CASE breaker_allow_due(w)
    <3>1. wk[w].pc = "probe"
      BY <2>6 DEF breaker_allow_due, At
    <3>2. wk[w].now \in Nat
      BY <2>3, <3>1 DEF Call, Late
    <3>3. ASSUME Read(w, "probe_at", b.probe_at) PROVE FALSE
      <4>1. wk'[w].call = "allow"
        BY <2>1, <2>4, <3>3, Zenon DEF Read, Locals
      <4>. QED
        BY <2>2, <4>1
    <3>4. ~(wk[w].now >= b.probe_at)
      BY <2>6, <3>3 DEF breaker_allow_due
    <3>. QED
      BY <3>2, <3>4, Times DEF IInv, Types, Spaced
  <2>7. CASE breaker_allow_probe(w)
    <3>1. wk[w].pc = "probe_at"
      BY <2>7 DEF breaker_allow_probe, At
    <3>2. ~LetThrough(w)
      BY <2>1 DEF LetThrough, Flights
    <3>3. b.probe_at # wk[w].old
      BY <2>7, <3>2 DEF breaker_allow_probe
    <3>. QED
      BY <2>3, <3>1, <3>3 DEF Held, Recent
  <2>. QED
    BY <2>1, <2>2, <2>5, <2>6, <2>7, AllowGoesOn
<1>. QED
  BY <1>1, <1>2, InitInv, StepInv, FlightsInv, PTL DEF Spec, RefusalsEnd
=============================================================================
