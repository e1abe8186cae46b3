---------------------------- MODULE MCRateLimit ----------------------------
(* Two keys of a rule by requests and one of a rule by waves, in a zone    *)
(* with room for some of them.                                             *)
EXTENDS RateLimit

CONSTANTS a, b, c

Rates == [k \in Keys |-> IF k = c THEN 1 ELSE 2]
Bursts == [k \in Keys |-> IF k = a THEN 2 ELSE 0]
Charges == [k \in Keys |-> IF k = b THEN 2 ELSE 1]
=============================================================================
