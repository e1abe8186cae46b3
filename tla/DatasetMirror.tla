--------------------------- MODULE DatasetMirror ---------------------------
(***************************************************************************)
(* What the mirror of a keeper's dataset promises to the requests that are *)
(* looked up in it: outside a load it holds the networks of one version    *)
(* that the keeper published, and within one epoch it only moves to later  *)
(* ones.  How the workers get there (packages, snapshots, batches, the     *)
(* syncing flag) is DatasetSync, which implements this specification.      *)
(***************************************************************************)
EXTENDS Integers

CONSTANTS
    Keys,           \* networks
    Versions        \* pairs <<epoch, seq>>

VARIABLES
    published,      \* the networks of each version published so far
    at,             \* the version the mirror has, Absent for none
    shown           \* the networks it shows

Absent == <<0, 0>>

Init ==
    /\ \E s \in SUBSET Keys : published = [v \in {<<1, 0>>} |-> s]
    /\ at = Absent /\ shown = {}

(* The keeper publishes the next version of an epoch or opens a new epoch. *)
Publish(v) ==
    /\ DOMAIN published' = DOMAIN published \cup {v}
    /\ \A u \in DOMAIN published : published'[u] = published[u]
    /\ published'[v] \subseteq Keys
    /\ UNCHANGED <<at, shown>>

(* The mirror takes over a version, never an older one of the same epoch. *)
Adopt(v) ==
    /\ v[1] = at[1] => v[2] >= at[2]
    /\ at' = v /\ shown' = published[v]
    /\ UNCHANGED published

Next ==
    \/ \E v \in Versions \ DOMAIN published : Publish(v)
    \/ \E v \in DOMAIN published : Adopt(v)

Spec == Init /\ [][Next]_<<published, at, shown>>

=============================================================================
