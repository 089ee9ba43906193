------------------------ MODULE HostRegistrationPair ------------------------
(***************************************************************************)
(* The two ioeventfd/irqfd registrations that accelerate a pair of         *)
(* virtio-blk devices: kvm/host_registration.rs (one device) and           *)
(* kvm/host_registration_pair.rs (the pair, in canonical order).           *)
(*                                                                         *)
(* Nothing else runs on the host thread during a call of this API, so each *)
(* call is one step.  Which of its ioctls the kernel refuses is an input:  *)
(* `refused` holds the assignments that fail, `stuck` the deassignments.   *)
(***************************************************************************)
EXTENDS Integers

VARIABLES
    registered,    \* assignments the kernel holds: pairs <<kind, device>>
    stranded,      \* assignments the kernel refused to give up
    doorbell       \* count in the eventfd behind each device's ioeventfd

registrationVars == <<registered, stranded, doorbell>>

\* The devices, in the order HostRegistrationSpecPair::new sorts them.
Devices == {0, 1}

\* The ioctls of one ReconstructedHostRegistrations.
Registration(d) == {"ioeventfd", "irqfd"} \X {d}

AllRegistrations == UNION {Registration(d) : d \in Devices}

(***************************************************************************)
(* ReconstructedHostRegistrations::deassign tries both ioctls whatever the *)
(* first one returns.                                                      *)
(***************************************************************************)
DeassignOne(held, d, stuck) == held \ (Registration(d) \ stuck)

(***************************************************************************)
(* ReconstructedHostRegistrations::reconstruct assigns the irqfd, then the *)
(* ioeventfd, and gives the irqfd back when the second assignment fails.   *)
(* The eventfds and their duplicates are made before the irqfd is          *)
(* assigned: a failure there is a refused irqfd.                           *)
(***************************************************************************)
ReconstructOne(held, d, refused, stuck) ==
    IF <<"irqfd", d>> \in refused
    THEN [registered |-> held, ok |-> FALSE]
    ELSE IF <<"ioeventfd", d>> \in refused
    THEN [registered |-> held \cup ({<<"irqfd", d>>} \cap stuck), ok |-> FALSE]
    ELSE [registered |-> held \cup Registration(d), ok |-> TRUE]

\* Wrong on purpose: the first registration is kept when the second fails.
ReconstructPairNoRollback(refused, stuck) ==
    LET first  == ReconstructOne({}, 0, refused, stuck)
        second == ReconstructOne(first.registered, 1, refused, stuck)
    IN  IF first.ok THEN second ELSE first

(***************************************************************************)
(* ReconstructedHostRegistrationPair::reconstruct: the second failure      *)
(* rolls the first registration back.                                      *)
(***************************************************************************)
ReconstructPair(refused, stuck) ==
    LET first  == ReconstructOne({}, 0, refused, stuck)
        second == ReconstructOne(first.registered, 1, refused, stuck)
    IN  IF ~first.ok THEN first
        ELSE IF second.ok THEN second
        ELSE [registered |-> DeassignOne(second.registered, 0, stuck), ok |-> FALSE]

(***************************************************************************)
(* HostRegistrationPairCheckpoint::reconstruct.  The eventfds are new, so  *)
(* their counts are zero.                                                  *)
(***************************************************************************)
Reconstructs ==
    /\ registered' = ReconstructPair({}, {}).registered
    /\ doorbell' = [d \in Devices |-> 0]
    /\ UNCHANGED stranded

ReconstructFails ==
    \E refused, stuck \in SUBSET AllRegistrations :
        LET pair == ReconstructPair(refused, stuck)
        IN  /\ ~pair.ok
            /\ registered' = pair.registered
            /\ stranded' = stranded \cup (stuck \cap pair.registered)
            /\ UNCHANGED doorbell

(***************************************************************************)
(* ReconstructedHostRegistrationPair::deassign: second, then first, each   *)
(* attempted whatever the other returns.  An eventfd that is closed takes  *)
(* its count with it.                                                      *)
(***************************************************************************)
Deassigns(stuck) ==
    /\ registered' = DeassignOne(DeassignOne(registered, 1, stuck), 0, stuck)
    /\ stranded' = stranded \cup (stuck \cap registered)
    /\ doorbell' = [d \in Devices |-> 0]

\* require_checkpoint_quiescent
RequireCheckpointQuiescent == \A d \in Devices : doorbell[d] = 0

=============================================================================
