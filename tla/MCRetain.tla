------------------------------ MODULE MCRetain ------------------------------
(* Instances of Retain.                                                     *)
EXTENDS Retain

CONSTANTS r1, r2, r3, w1

TwoKinds == <<"headers", "body">>
ByKind(h, b) == [k \in {"headers", "body"} |-> IF k = "headers" THEN h ELSE b]

\* r1 has an object of each kind in the store; r2's body rode with the record and
\* it has no header object; r3 asks for nothing.
TermsDef == [d \in Records |-> IF d = r3 THEN {} ELSE {"headers", "body"}]
LocatedDef == [d \in Records |-> IF d = r1 THEN {"headers", "body"}
                                 ELSE IF d = r2 THEN {"body"} ELSE {}]
StoredDef == [d \in Records |-> IF d = r1 THEN {"headers", "body"} ELSE {}]
\* Headers wait for two or the timer, bodies for the timer alone.
SizeDef == ByKind(2, 0)
TimedDef == ByKind(TRUE, TRUE)
SecondOff == <<TRUE, FALSE>>
=============================================================================
