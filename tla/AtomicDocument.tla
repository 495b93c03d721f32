--------------------------- MODULE AtomicDocument ---------------------------
(***************************************************************************)
(* What a store document promises its callers: an update is applied whole, *)
(* and an update whose call returned Ok stays applied.  An update whose    *)
(* call never returned may be applied, and may still be taken back by a    *)
(* crash of the machine.                                                   *)
(***************************************************************************)
CONSTANT Updates        \* the updates that may be requested

VARIABLES
    doc,    \* the updates the document reflects
    acked   \* the updates whose call returned Ok

TypeOK == doc \subseteq Updates /\ acked \subseteq Updates

Init == doc = {} /\ acked = {}

Apply(u) == doc' = doc \cup {u} /\ UNCHANGED acked

Acknowledge(u) ==
    /\ u \in doc
    /\ acked' = acked \cup {u}
    /\ UNCHANGED doc

(* The machine comes back with an older document.                          *)
TakeBack ==
    /\ doc' \in SUBSET doc
    /\ acked \subseteq doc'
    /\ UNCHANGED acked

Next == TakeBack \/ \E u \in Updates : Apply(u) \/ Acknowledge(u)

Spec == Init /\ [][Next]_<<doc, acked>>

(* An acknowledged update is in the document.                              *)
NothingAcknowledgedIsLost == acked \subseteq doc
=============================================================================
