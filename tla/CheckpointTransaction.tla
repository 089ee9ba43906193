----------------------- MODULE CheckpointTransaction -----------------------
(***************************************************************************)
(* The checkpoint transaction over two vCPUs, the interrupt controllers,   *)
(* two virtio-blk devices and their host registrations:                    *)
(*                                                                         *)
(*   state_snapshot/page_set/two_vcpu_two_device_transaction.rs            *)
(*   state_snapshot/two_vcpu_checkpoint.rs                                 *)
(*   mmio/multi_device/virtio_blk_atomic_bus.rs                            *)
(*   pci/virtio_blk_checkpoint.rs, pci/virtio_blk_write_readback.rs        *)
(*                                                                         *)
(* and the replay guests that drive it.  A guest publishes one request at  *)
(* a time on each device and rings the doorbell; the host drains the       *)
(* doorbell into the device, services the queue and signals the irqfd; the *)
(* guest's handler reads the ISR and EOIs.  A capture may fall between any *)
(* two of those steps.  It is refused unless everything is quiescent, but  *)
(* for one device whose pending notification or completion a token then    *)
(* owns.  After a capture the registrations are released and the machine   *)
(* is wiped; the restore puts back guest, MP state, controllers, devices   *)
(* and registrations, in that order, and may fail at each of them.  What   *)
(* the host calls while it drives the guest may fail as well; some of      *)
(* those errors return without a deassign.                                 *)
(*                                                                         *)
(* `issued` and `handled` stand for the guest's memory and registers.      *)
(***************************************************************************)
EXTENDS HostRegistrationPair

CONSTANTS
    IndexModulus,   \* 2^16 for the u16 queue indices
    MaxCaptures,    \* bound on the transactions of a behaviour
    Wiped           \* guest memory that no longer holds the guest's state

ASSUME TransactionAssumption ==
    /\ IndexModulus \in Nat \ {0, 1}
    /\ MaxCaptures \in Nat
    /\ Wiped \notin 0 .. IndexModulus - 1

VARIABLES
    \* the guest: memory and vCPU state
    issued,        \* avail.idx of each device's queue: requests published
    handled,       \* completions the guest's handler has accepted
    mp,            \* multiprocessing state of the vCPUs
    irq,           \* devices whose vector is pending in PIC, IOAPIC or LAPIC
    \* the host
    device,        \* queue index, notify_pending and ISR of each device
    owed,          \* completions whose irqfd the host has yet to signal
    transaction,   \* the captured transaction, or NoTransaction
    phase,         \* where the host is
    captures       \* transactions captured so far

guestVars == <<issued, handled, mp, irq>>
hostVars == <<device, owed, transaction, phase, captures>>
transactionVars == <<registrationVars, guestVars, hostVars>>

Indices == 0 .. IndexModulus - 1

Following(i) == (i + 1) % IndexModulus

\* last_avail_idx and last_used_idx move together: one index stands for both.
DeviceState == [index : Indices, notify : BOOLEAN, isr : BOOLEAN]

Fresh == [index |-> 0, notify |-> FALSE, isr |-> FALSE]

Kinds == {"none", "completion", "notification"}
NoTransaction == [kind |-> "none"]

Held == {"running", "captured", "verify", "cleanup"}
Restoring == {"guest", "mp", "controllers", "devices", "registrations"}
Phases == {"start", "released", "wiped", "failed", "abandoned", "done"} \cup Held \cup Restoring

-----------------------------------------------------------------------------
\* checkpoint_quiescent, which says nothing of an unread completion.  Wrong on
\* purpose where checkpoint_fully_quiescent belongs.
CheckpointQuiescent(state) == ~state.notify

\* checkpoint_fully_quiescent
CheckpointFullyQuiescent(state) == ~state.notify /\ ~state.isr

\* checkpoint_completion_pending
CheckpointCompletionPending(state) == ~state.notify /\ state.isr /\ state.index # 0

\* checkpoint_notification_pending
CheckpointNotificationPending(state) == state.notify /\ ~state.isr

(***************************************************************************)
(* Whether a token of that kind owns the device's state: capture and       *)
(* validate_device of the two token types.                                 *)
(***************************************************************************)
TokenOwns(kind, state) ==
    \/ kind = "completion" /\ CheckpointCompletionPending(state)
    \/ kind = "notification" /\ CheckpointNotificationPending(state)

(***************************************************************************)
(* What a snapshot of the two devices must satisfy: the token's device is  *)
(* in the token's state, every other one is fully quiescent.               *)
(***************************************************************************)
DevicesCapturable(kind, bar, states) ==
    \A d \in Devices : IF kind # "none" /\ d = bar
                       THEN TokenOwns(kind, states[d])
                       ELSE CheckpointFullyQuiescent(states[d])

(***************************************************************************)
(* The versioned transport: VirtioBlkCheckpointState has no notify_pending *)
(* field, and materialize sets it only for the device of a notification    *)
(* token.                                                                  *)
(***************************************************************************)
Materialize(captured) ==
    [captured EXCEPT !.device = [d \in Devices |->
        [captured.device[d] EXCEPT !.notify =
            captured.kind = "notification" /\ d = captured.bar]]]

-----------------------------------------------------------------------------
TransactionInit ==
    /\ registered = {} /\ stranded = {} /\ doorbell = [d \in Devices |-> 0]
    /\ issued = [d \in Devices |-> 0] /\ handled = [d \in Devices |-> 0]
    /\ mp = "runnable" /\ irq = {}
    /\ device = [d \in Devices |-> Fresh]
    /\ owed = {} /\ transaction = NoTransaction /\ phase = "start" /\ captures = 0

Goto(p) == phase' = p

(***************************************************************************)
(* The first reconstruction, before the guest reaches its capture barrier. *)
(***************************************************************************)
FirstReconstruction ==
    /\ phase = "start"
    /\ \/ Reconstructs /\ Goto("running")
       \/ ReconstructFails /\ Goto("failed")
    /\ UNCHANGED <<guestVars, device, owed, transaction, captures>>

\* The host runs a vCPU only once it has finished what it took from it.
VcpuRuns ==
    /\ phase = "running"
    /\ owed = {}
    /\ \A d \in Devices : ~device[d].notify

(***************************************************************************)
(* The guest publishes a request on an idle device and writes the notify   *)
(* register, which the kernel turns into a count in the eventfd.           *)
(***************************************************************************)
Issue(d) ==
    /\ VcpuRuns
    /\ handled[d] = issued[d]
    /\ issued' = [issued EXCEPT ![d] = Following(@)]
    /\ doorbell' = [doorbell EXCEPT ![d] = @ + 1]
    /\ UNCHANGED <<registered, stranded, handled, mp, irq, hostVars>>

(***************************************************************************)
(* The guest's handler reads the ISR, which clears it, and EOIs.  It stops *)
(* on UD2 when the ISR does not report a completion.                       *)
(***************************************************************************)
Handle(d) ==
    /\ VcpuRuns
    /\ d \in irq
    /\ device[d].isr
    /\ irq' = irq \ {d}
    /\ device' = [device EXCEPT ![d].isr = FALSE]
    /\ handled' = [handled EXCEPT ![d] = device[d].index]
    /\ UNCHANGED <<registrationVars, issued, mp, owed, transaction, phase, captures>>

(***************************************************************************)
(* wait_doorbell, whose count must be one, and                             *)
(* apply_virtio_blk_host_notification.                                     *)
(***************************************************************************)
Drain(d) ==
    /\ phase = "running"
    /\ doorbell[d] = 1
    /\ doorbell' = [doorbell EXCEPT ![d] = 0]
    /\ device' = [device EXCEPT ![d].notify = TRUE]
    /\ UNCHANGED <<registered, stranded, guestVars, owed, transaction, phase, captures>>

(***************************************************************************)
(* process_virtio_blk_notification_atomic finds exactly one new request.   *)
(***************************************************************************)
Service(d) ==
    /\ phase = "running"
    /\ device[d].notify
    /\ issued[d] = Following(device[d].index)
    /\ device' = [device EXCEPT ![d] = [index |-> issued[d], notify |-> FALSE, isr |-> TRUE]]
    /\ owed' = owed \cup {d}
    /\ UNCHANGED <<registrationVars, guestVars, transaction, phase, captures>>

\* ReconstructedHostRegistrationPair::signal_irq
SignalIrq(d) ==
    /\ phase = "running"
    /\ d \in owed
    /\ owed' = owed \ {d}
    /\ irq' = irq \cup {d}
    /\ UNCHANGED <<registrationVars, issued, handled, mp, device, transaction, phase, captures>>

-----------------------------------------------------------------------------
\* Wrong on purpose: pending doorbells do not stop a capture.
CaptureWithDoorbells(kind, bar) ==
    /\ phase = "running" /\ captures < MaxCaptures
    /\ DevicesCapturable(kind, bar, device)
    /\ transaction' = [kind |-> kind, bar |-> bar, issued |-> issued, handled |-> handled,
                       mp |-> mp, irq |-> irq, device |-> device]
    /\ captures' = captures + 1
    /\ Goto("captured")
    /\ UNCHANGED <<registrationVars, guestVars, device, owed>>

(***************************************************************************)
(* TwoVcpuTwoDeviceCheckpointTransaction::capture and its two variants     *)
(* with a token for the device at `bar`: registrations quiescent, devices  *)
(* capturable, then the vCPUs and controllers.  A refused capture changes  *)
(* nothing.                                                                *)
(***************************************************************************)
Capture(kind, bar) ==
    /\ phase = "running" /\ captures < MaxCaptures
    /\ RequireCheckpointQuiescent
    /\ DevicesCapturable(kind, bar, device)
    /\ transaction' = [kind |-> kind, bar |-> bar, issued |-> issued, handled |-> handled,
                       mp |-> mp, irq |-> irq, device |-> device]
    /\ captures' = captures + 1
    /\ Goto("captured")
    /\ UNCHANGED <<registrationVars, guestVars, device, owed>>

(***************************************************************************)
(* deassign: after a capture, at the end of the run, and on the way out of *)
(* a failed reconstruction.                                                *)
(***************************************************************************)
Release ==
    \E stuck \in SUBSET AllRegistrations :
        /\ \/ phase = "captured" /\ Goto(IF stuck = {} THEN "released" ELSE "failed")
           \/ /\ VcpuRuns /\ handled = issued
              /\ Goto(IF stuck = {} THEN "done" ELSE "failed")
           \/ phase = "cleanup" /\ Goto("failed")
        /\ Deassigns(stuck)
        /\ UNCHANGED <<guestVars, device, owed, transaction, captures>>

(***************************************************************************)
(* A call fails while the host drives the guest.  A check that fails and a *)
(* refused capture deassign before they return; a barrier and a read of    *)
(* the doorbells return at once: the pair is dropped, and what it assigned *)
(* goes only with the VM.                                                  *)
(***************************************************************************)
ReplayFails ==
    /\ phase = "running"
    /\ \/ Goto("failed") /\ \E stuck \in SUBSET AllRegistrations : Deassigns(stuck)
       \/ Goto("abandoned") /\ UNCHANGED registrationVars
    /\ UNCHANGED <<guestVars, device, owed, transaction, captures>>

\* A device that has served one more request since the capture.
RanOn(state) == [index |-> Following(state.index), notify |-> FALSE, isr |-> TRUE]

(***************************************************************************)
(* The transaction may go through its byte encoding, and the host that     *)
(* captured it forgets everything: guest pages, vCPUs, MP states and       *)
(* controllers are overwritten, each device is new, as it was, or ahead.   *)
(***************************************************************************)
Wipe ==
    /\ phase = "released"
    /\ Goto("wiped")
    /\ transaction' \in {transaction, Materialize(transaction)}
    /\ issued' = [d \in Devices |-> Wiped]
    /\ handled' = [d \in Devices |-> Wiped]
    /\ mp' = "halted"
    /\ irq' \in SUBSET Devices
    /\ device' \in {live \in [Devices -> DeviceState] :
                      \A d \in Devices : live[d] \in {device[d], Fresh, RanOn(device[d])}}
    /\ owed' = {}
    /\ UNCHANGED <<registrationVars, captures>>

-----------------------------------------------------------------------------
(***************************************************************************)
(* restore_and_verify without a token first makes sure that the live       *)
(* devices could be captured; the variants with a token do not.            *)
(***************************************************************************)
BeginRestore ==
    /\ phase = "wiped"
    /\ Goto(IF transaction.kind = "none" /\ \E d \in Devices : ~CheckpointFullyQuiescent(device[d])
            THEN "failed" ELSE "guest")
    /\ UNCHANGED <<registrationVars, guestVars, device, owed, transaction, captures>>

\* BoundedTwoVcpuCheckpoint::restore_and_verify: pages, then the vCPUs.
RestoreGuest ==
    /\ phase = "guest"
    /\ issued' = transaction.issued /\ handled' = transaction.handled
    /\ Goto("mp")
    /\ UNCHANGED <<registrationVars, mp, irq, device, owed, transaction, captures>>

\* The MP states, read back and compared.
RestoreMp ==
    /\ phase = "mp"
    /\ mp' = transaction.mp
    /\ Goto("controllers")
    /\ UNCHANGED <<registrationVars, issued, handled, irq, device, owed, transaction, captures>>

\* Master PIC, slave PIC, IOAPIC, LAPICs; then everything is verified.
RestoreControllers ==
    /\ phase = "controllers"
    /\ irq' = transaction.irq
    /\ Goto("devices")
    /\ UNCHANGED <<registrationVars, issued, handled, mp, device, owed, transaction, captures>>

\* Wrong on purpose: the first device is replaced before the second is checked.
RestoreDevicesOneByOne ==
    /\ phase = "devices"
    /\ IF CheckpointFullyQuiescent(device[1])
       THEN device' = transaction.device /\ Goto("registrations")
       ELSE device' = [device EXCEPT ![0] = transaction.device[0]] /\ Goto("failed")
    /\ UNCHANGED <<registrationVars, guestVars, owed, transaction, captures>>

(***************************************************************************)
(* restore_two_virtio_blk_checkpoints_atomic and its variants with a       *)
(* token: both snapshots and both live devices are checked before either   *)
(* device is replaced.                                                     *)
(***************************************************************************)
RestoreDevices ==
    /\ phase = "devices"
    /\ IF /\ DevicesCapturable(transaction.kind, transaction.bar, transaction.device)
          /\ \A d \in Devices : CheckpointFullyQuiescent(device[d])
       THEN device' = transaction.device /\ Goto("registrations")
       ELSE UNCHANGED device /\ Goto("failed")
    /\ UNCHANGED <<registrationVars, guestVars, owed, transaction, captures>>

(***************************************************************************)
(* An ioctl of a restore step fails, or what is read back differs.         *)
(***************************************************************************)
RestoreFails ==
    /\ phase \in Restoring
    /\ Goto("failed")
    /\ UNCHANGED <<registrationVars, guestVars, device, owed, transaction, captures>>

\* HostRegistrationPairCheckpoint::reconstruct inside the transaction.
RestoreRegistrations ==
    /\ phase = "registrations"
    /\ \/ Reconstructs /\ Goto("verify")
       \/ ReconstructFails /\ Goto("failed")
    /\ UNCHANGED <<guestVars, device, owed, transaction, captures>>

\* Wrong on purpose: the completion token is dropped instead of delivered.
FinishRestoreUndelivered ==
    /\ phase = "verify"
    /\ \/ /\ RequireCheckpointQuiescent
          /\ Goto("running")
          /\ owed' = {}
          /\ transaction' = NoTransaction
       \/ Goto("cleanup") /\ UNCHANGED <<owed, transaction>>
    /\ UNCHANGED <<registrationVars, guestVars, device, captures>>

(***************************************************************************)
(* The registrations are quiescent and everything still compares equal.    *)
(* The host that holds a completion token owes its irqfd signal.  When a   *)
(* check fails the registrations are released.                             *)
(***************************************************************************)
FinishRestore ==
    /\ phase = "verify"
    /\ \/ /\ RequireCheckpointQuiescent
          /\ Goto("running")
          /\ owed' = IF transaction.kind = "completion" THEN {transaction.bar} ELSE {}
          /\ transaction' = NoTransaction
       \/ Goto("cleanup") /\ UNCHANGED <<owed, transaction>>
    /\ UNCHANGED <<registrationVars, guestVars, device, captures>>

Stopped == phase \in {"failed", "abandoned", "done"} /\ UNCHANGED transactionVars

Host ==
    \/ \E d \in Devices : Drain(d) \/ Service(d) \/ SignalIrq(d)
    \/ Capture("none", 0)
    \/ \E kind \in Kinds \ {"none"}, bar \in Devices : Capture(kind, bar)
    \/ FirstReconstruction \/ Release \/ Wipe
    \/ BeginRestore \/ RestoreGuest \/ RestoreMp \/ RestoreControllers
    \/ RestoreDevices \/ RestoreFails \/ RestoreRegistrations \/ FinishRestore

Guest == \E d \in Devices : Issue(d) \/ Handle(d)

TransactionNext == Host \/ Guest \/ ReplayFails \/ Stopped

TransactionSpec == TransactionInit /\ [][TransactionNext]_transactionVars

(***************************************************************************)
(* The host thread does not stop half way through a run, and enters a vCPU *)
(* that has an interrupt to take again and again.  No call has to fail.    *)
(***************************************************************************)
Fairness ==
    /\ WF_transactionVars(Host)
    /\ \A d \in Devices : /\ WF_transactionVars(Drain(d)) /\ WF_transactionVars(Service(d)) /\ WF_transactionVars(SignalIrq(d))
                          /\ SF_transactionVars(Handle(d))

FairSpec == TransactionSpec /\ Fairness

-----------------------------------------------------------------------------
(***************************************************************************)
(* No request is lost or repeated by a capture and a restore: whenever the *)
(* machine runs, a device is behind the guest's queue by exactly the       *)
(* requests still in its doorbell or its notify flag, and ahead of the     *)
(* guest's handler by exactly the completion its ISR announces.  This is   *)
(* what the quiescence checks, the tokens and the order of                 *)
(* restore_and_reconstruct are for.                                        *)
(***************************************************************************)
RequestsSurvive ==
    phase = "running" =>
        \A d \in Devices :
            LET inFlight == doorbell[d] + (IF device[d].notify THEN 1 ELSE 0)
            IN  /\ issued[d] = (device[d].index + inFlight) % IndexModulus
                /\ inFlight \in {0, 1}
                /\ device[d].index = (IF device[d].isr THEN Following(handled[d]) ELSE handled[d])

(***************************************************************************)
(* A running machine has a vector pending, or a host about to signal it,   *)
(* for exactly the devices whose ISR announces a completion: a restored    *)
(* completion still interrupts, and the guest's handler never finds an     *)
(* empty ISR.                                                              *)
(***************************************************************************)
CompletionsInterrupt ==
    phase = "running" => \A d \in Devices : device[d].isr <=> d \in irq \cup owed

(***************************************************************************)
(* The kernel holds both registrations while the host owns the pair, and   *)
(* otherwise nothing but what it refused to give up: reconstruct rolls     *)
(* back, and capture, restore and every check of theirs that fails         *)
(* deassign.  The exception is an error while the host drives the guest,   *)
(* which may drop the pair: then nothing was deassigned, never a part.     *)
(***************************************************************************)
RegistrationsAccounted ==
    IF phase \in Held \cup {"abandoned"} THEN registered = AllRegistrations
    ELSE registered \subseteq stranded

(***************************************************************************)
(* A restore touches the devices only once guest, MP state and controllers *)
(* are exactly as captured, and then replaces both: no failure leaves a    *)
(* new device under an old controller, or one device of the pair.          *)
(***************************************************************************)
DevicesRestoredLast ==
    [][(phase \in Restoring /\ device' # device)
          => (/\ device' = transaction.device
              /\ issued = transaction.issued /\ handled = transaction.handled
              /\ mp = transaction.mp /\ irq = transaction.irq)]_transactionVars

(***************************************************************************)
(* A request the guest has published is completed and handled, however     *)
(* many captures and restores come in between, unless a step fails.        *)
(***************************************************************************)
RequestsComplete ==
    \A d \in Devices :
        phase = "running" /\ issued[d] # handled[d]
            ~> \/ phase = "running" /\ issued[d] = handled[d]
               \/ phase \in {"failed", "abandoned", "done"}

=============================================================================
