----------------------------- MODULE BlockStore -----------------------------
(***************************************************************************)
(* What a virtio-blk device promises about its sectors, without queues,    *)
(* caches or files: a store that changes only by whole acknowledged writes *)
(* while it is online, and that an interruption may change only where a    *)
(* write was attempted and never acknowledged.                             *)
(***************************************************************************)
CONSTANTS Sectors, Contents, Initial

VARIABLES
    online,
    store,     \* the contents the guest relies on
    unsure     \* sectors with an attempted, unacknowledged write

storeVars == <<online, store, unsure>>

Init == online = TRUE /\ store = Initial /\ unsure = {}

\* An acknowledged write of some sectors.
Write(written, source) ==
    /\ online
    /\ store' = [s \in Sectors |-> IF s \in written THEN source[s] ELSE store[s]]
    /\ unsure' = unsure \ written
    /\ UNCHANGED online

\* A write that is not (yet) acknowledged.
Attempt(touched) ==
    /\ online
    /\ unsure' = unsure \cup touched
    /\ UNCHANGED <<online, store>>

Stop ==
    /\ online' = FALSE
    /\ UNCHANGED <<store, unsure>>

\* Coming back: every sector that is not unsure is as it was left.
Recover(found) ==
    /\ ~online
    /\ online' = TRUE
    /\ \A s \in Sectors \ unsure : found[s] = store[s]
    /\ store' = found
    /\ unsure' \subseteq unsure

Format ==
    /\ ~online
    /\ online' = TRUE
    /\ store' = Initial
    /\ unsure' = {}

FormatFails ==
    /\ ~online
    /\ unsure' = Sectors
    /\ UNCHANGED <<online, store>>

Next ==
    \/ \E written \in SUBSET Sectors, source \in [Sectors -> Contents] : Write(written, source)
    \/ \E touched \in SUBSET Sectors : Attempt(touched)
    \/ Stop
    \/ \E found \in [Sectors -> Contents] : Recover(found)
    \/ Format
    \/ FormatFails

Spec == Init /\ [][Next]_storeVars
=============================================================================
