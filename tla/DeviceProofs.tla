---------------------------- MODULE DeviceProofs ----------------------------
(***************************************************************************)
(* The safety of a device as its driver and the host see it: the virtio    *)
(* register file, the descriptor chain of a request, and the threads that  *)
(* hand the interrupt of a completion to the guest.                        *)
(***************************************************************************)
EXTENDS VirtioRegisters, VirtioChain, InterruptHandoff, TLAPS

-----------------------------------------------------------------------------
(***************************************************************************)
(* The invariants of the virtio register file, for every feature set,      *)
(* queue-size limit, index width and set of values a driver may write.     *)
(***************************************************************************)

\* A granted FEATURES_OK stands for a valid, complete negotiation.
GrantedFeaturesValid ==
    "FEATURES_OK" \in status =>
        NegotiatedFeaturesValid /\ {"ACKNOWLEDGE", "DRIVER"} \subseteq status

\* The inductive invariant: WorkNeedsNegotiation alone does not survive RefuseFeatures or
\* WriteDriverFeature, which GrantedFeaturesValid excludes while work is outstanding.
RegInv ==
    /\ RegistersTypeOK
    /\ GrantedFeaturesValid
    /\ WorkNeedsNegotiation
    /\ RingPositionsAgree
    /\ EnabledQueueHasAddresses

\* The power-on register file satisfies the inductive invariant.
LEMMA RegInit == RegistersInit => RegInv
<1>. SUFFICES ASSUME RegistersInit PROVE RegInv
  OBVIOUS
<1>. USE DEF RegistersInit
<1>1. RegistersTypeOK
  <2>1. queue_addr \in [QueueAddresses -> Address]
    BY RegistersAssumption DEF Address, ZeroAddress
  <2>2. queue_size \in PowersOfTwo /\ queue_size <= QueueMaxSize
    BY RegistersAssumption DEF PowersOfTwo
  <2>3. 0 \in 0 .. IndexModulus - 1
    BY RegistersAssumption
  <2>. QED BY <2>1, <2>2, <2>3, RegistersAssumption DEF RegistersTypeOK
<1>2. GrantedFeaturesValid
  BY DEF GrantedFeaturesValid
<1>3. WorkNeedsNegotiation
  BY DEF WorkNeedsNegotiation
<1>4. RingPositionsAgree
  BY DEF RingPositionsAgree
<1>5. EnabledQueueHasAddresses
  BY DEF EnabledQueueHasAddresses
<1>. QED BY <1>1, <1>2, <1>3, <1>4, <1>5 DEF RegInv

\* Every register access and every queue completion preserves the inductive invariant.
LEMMA RegNext == RegInv /\ [RegistersNext]_registerVars => RegInv'
<1>. SUFFICES ASSUME RegInv, [RegistersNext]_registerVars PROVE RegInv'
  OBVIOUS
<1>. USE DEF RegInv, NegotiatedFeaturesValid, AddressesNonZero
<1>1. ASSUME NEW v \in FeatureSelects,
             WriteDeviceFeatureSelect(v) \/ WriteDriverFeatureSelect(v)
      PROVE  RegInv'
  BY <1>1 DEF WriteDeviceFeatureSelect, WriteDriverFeatureSelect, RegistersTypeOK, GrantedFeaturesValid,
              WorkNeedsNegotiation, RingPositionsAgree, EnabledQueueHasAddresses, work
<1>2. ASSUME NEW word \in LowWords \cup HighWords, WriteDriverFeature(word)
      PROVE  RegInv'
  <2>1. driver_features' \subseteq LowFeatures \cup HighFeatures
    BY <1>2 DEF WriteDriverFeature, RegistersTypeOK, LowFeatures, HighFeatures
  <2>. QED
    BY <1>2, <2>1 DEF WriteDriverFeature, RegistersTypeOK, GrantedFeaturesValid,
              WorkNeedsNegotiation, RingPositionsAgree, EnabledQueueHasAddresses, work
<1>3. CASE Reset
  <2>1. RegistersInit'
    BY <1>3 DEF Reset, RegistersInit
  <2>2. (RegistersInit => RegInv)'
    BY RegInit, PTL
  <2>. QED BY <2>1, <2>2
<1>4. ASSUME NEW requested \in StatusBytes, RefuseFeatures(requested) \/ SetStatus(requested)
      PROVE  RegInv'
  <2>1. RegistersTypeOK'
    BY <1>4 DEF RefuseFeatures, SetStatus, StatusWellFormed, RegistersTypeOK, work
  <2>2. GrantedFeaturesValid'
    BY <1>4 DEF RefuseFeatures, SetStatus, StatusWellFormed, GrantedFeaturesValid
  <2>3. WorkNeedsNegotiation'
    BY <1>4 DEF RefuseFeatures, SetStatus, StatusWellFormed, GrantedFeaturesValid,
                WorkNeedsNegotiation, work
  <2>4. RingPositionsAgree' /\ EnabledQueueHasAddresses'
    BY <1>4 DEF RefuseFeatures, SetStatus, RingPositionsAgree, EnabledQueueHasAddresses, work
  <2>. QED BY <2>1, <2>2, <2>3, <2>4
<1>5. ASSUME NEW v \in QueueSelects, WriteQueueSelect(v)
      PROVE  RegInv'
  BY <1>5 DEF WriteQueueSelect, RegistersTypeOK, GrantedFeaturesValid,
              WorkNeedsNegotiation, RingPositionsAgree, EnabledQueueHasAddresses, work
<1>6. ASSUME NEW size \in QueueSizes, WriteQueueSize(size)
      PROVE  RegInv'
  BY <1>6 DEF WriteQueueSize, RegistersTypeOK, GrantedFeaturesValid,
              WorkNeedsNegotiation, RingPositionsAgree, EnabledQueueHasAddresses, work
<1>7. CASE EnableQueue \/ DisableQueue
  <2>1. /\ queue_enabled' \in BOOLEAN
        /\ queue_enabled' => AddressesNonZero
        /\ UNCHANGED <<device_feature_select, driver_feature_select, driver_features, status,
                       queue_select, queue_size, queue_addr, work>>
    BY <1>7 DEF EnableQueue, DisableQueue
  <2>2. RegistersTypeOK'
    BY <2>1 DEF RegistersTypeOK, work
  <2>3. GrantedFeaturesValid' /\ WorkNeedsNegotiation' /\ RingPositionsAgree'
    BY <2>1 DEF GrantedFeaturesValid, WorkNeedsNegotiation, RingPositionsAgree, work
  <2>4. EnabledQueueHasAddresses'
    BY <2>1 DEF EnabledQueueHasAddresses
  <2>. QED BY <2>2, <2>3, <2>4
<1>8. ASSUME NEW a \in QueueAddresses, NEW half \in {"lo", "hi"}, NEW v \in HalfWords,
             WriteQueueAddress(a, half, v)
      PROVE  RegInv'
  <2>1. queue_addr' \in [QueueAddresses -> Address]
    BY <1>8 DEF WriteQueueAddress, RegistersTypeOK, Address
  <2>. QED
    BY <1>8, <2>1 DEF WriteQueueAddress, QueueUnlocked, RegistersTypeOK, GrantedFeaturesValid,
              WorkNeedsNegotiation, RingPositionsAgree, EnabledQueueHasAddresses, work
<1>9. CASE Notify
  BY <1>9 DEF Notify, QueueReady, RegistersTypeOK, GrantedFeaturesValid,
              WorkNeedsNegotiation, RingPositionsAgree, EnabledQueueHasAddresses, config
<1>10. CASE ReadIsr
  BY <1>10 DEF ReadIsr, RegistersTypeOK, GrantedFeaturesValid,
               WorkNeedsNegotiation, RingPositionsAgree, EnabledQueueHasAddresses, config
<1>11. CASE CompleteQueue
  <2>1. last_avail_idx' \in 0 .. IndexModulus - 1 /\ last_used_idx' \in 0 .. IndexModulus - 1
    BY <1>11, RegistersAssumption DEF CompleteQueue, RegistersTypeOK
  <2>. QED
    BY <1>11, <2>1 DEF CompleteQueue, QueueReady, RegistersTypeOK, GrantedFeaturesValid,
               WorkNeedsNegotiation, RingPositionsAgree, EnabledQueueHasAddresses, config
<1>12. CASE UNCHANGED registerVars
  BY <1>12 DEF registerVars, config, work, RegistersTypeOK, GrantedFeaturesValid,
               WorkNeedsNegotiation, RingPositionsAgree, EnabledQueueHasAddresses
<1>. QED
  BY <1>1, <1>2, <1>3, <1>4, <1>5, <1>6, <1>7, <1>8, <1>9, <1>10, <1>11, <1>12 DEF RegistersNext

\* The register file of both virtio devices keeps its type, and outstanding work exists
\* only under a complete negotiation, in lock-step ring positions and, once enabled, with
\* ring addresses.
THEOREM RegistersSafe == RegistersSpec => []RegInv
<1>. QED BY RegInit, RegNext, PTL DEF RegistersSpec

\* Outstanding notifications, interrupts and ring progress imply a complete negotiation.
THEOREM WorkNeedsNegotiationHolds == RegistersSpec => []WorkNeedsNegotiation
<1>1. RegInv => WorkNeedsNegotiation
  BY DEF RegInv
<1>. QED BY <1>1, RegistersSafe, PTL

\* A ready device is capturable by exactly the entry point that fits its pending state.
THEOREM ReadyDeviceCaptureHolds == RegistersSpec => []ReadyDeviceCapture
<1>1. RegInv => ReadyDeviceCapture
  BY DEF RegInv, ReadyDeviceCapture, RegistersTypeOK, GrantedFeaturesValid, RingPositionsAgree,
         QueueReady, NegotiatedFeaturesValid, CheckpointValid, CheckpointFullyQuiescent,
         CheckpointCompletionPending, CheckpointNotificationPending, VIRTIO_STATUS_KNOWN
<1>. QED BY <1>1, RegistersSafe, PTL

\* Granted features are frozen, and status bits leave only through a reset.
THEOREM NegotiationIsStableHolds == RegistersSpec => NegotiationIsStable
<1>1. RegInv /\ [RegistersNext]_registerVars =>
        [ /\ status \subseteq status' \/ status' = {}
          /\ "FEATURES_OK" \in status /\ status' # {} => driver_features' = driver_features ]_registerVars
  BY DEF RegInv, GrantedFeaturesValid, NegotiatedFeaturesValid, RegistersNext, registerVars, config, work,
         WriteDeviceFeatureSelect, WriteDriverFeatureSelect, WriteDriverFeature, Reset,
         RefuseFeatures, SetStatus, StatusWellFormed, WriteQueueSelect, WriteQueueSize,
         EnableQueue, DisableQueue, WriteQueueAddress, Notify, ReadIsr, CompleteQueue
<1>. QED BY <1>1, RegistersSafe, PTL DEF RegistersSpec, NegotiationIsStable

\* Ring addresses and size do not change under a queue that stays enabled.
THEOREM EnabledGeometryIsStableHolds == RegistersSpec => EnabledGeometryIsStable
<1>1. [RegistersNext]_registerVars =>
        [ queue_enabled /\ queue_enabled' => UNCHANGED <<queue_addr, queue_size>> ]_registerVars
  BY DEF RegistersNext, registerVars, config, work, QueueUnlocked,
         WriteDeviceFeatureSelect, WriteDriverFeatureSelect, WriteDriverFeature, Reset,
         RefuseFeatures, SetStatus, WriteQueueSelect, WriteQueueSize,
         EnableQueue, DisableQueue, WriteQueueAddress, Notify, ReadIsr, CompleteQueue
<1>. QED BY <1>1, PTL DEF RegistersSpec, EnabledGeometryIsStable

-----------------------------------------------------------------------------
(***************************************************************************)
(* A successful interrupt hand-off proves its own delivery, and cleanup    *)
(* leaves no registration behind, for every choice of transports and of    *)
(* failing host calls, with the guest's handler counted without a bound.   *)
(*                                                                         *)
(* The argument counts edges.  While the watchdog has not raised the line, *)
(* the worker's one delivery is in exactly one place: still in the irqfd,  *)
(* in the PIC's request bit, or taken by the guest's handler.  The verdict *)
(* asks for a cancelled watchdog, a finished worker and a handled byte     *)
(* sequence, so the delivery has been taken once and nothing is left.      *)
(***************************************************************************)

Instructions ==
  {"doorbell", "A", "sti", "hlt", "W", "T", "eoi", "iret", "D", "end", "none"}

HandoffTypeOK ==
  /\ delivery \in {"direct", "irqfd", "bridge"}
  /\ main \in {"assign", "assign_doorbell", "run", "await", "cancel", "join_worker",
               "join_watchdog", "deassign", "verdict", "returned"}
  /\ expect \in {"A", "T", "W", "D", "none"}
  /\ execution \in {"none", "ok", "err"} /\ result \in {"none", "ok", "err"}
  /\ worker \in {"unspawned", "waiting", "woken", "raised", "done", "failed"}
  /\ watchdog \in {"unspawned", "waiting", "expired", "raised", "fired", "failed", "cancelled"}
  /\ registered \subseteq Registrations /\ refused \subseteq Registrations
  /\ doorbell \in Nat /\ level \subseteq {"userspace"}
  /\ pc \in Instructions /\ saved \in Instructions
  /\ raised \subseteq {"worker", "watchdog"} /\ handled \in Nat

FlagsOK ==
  /\ signalled \in BOOLEAN /\ irr \in BOOLEAN /\ isr \in BOOLEAN
  /\ if \in BOOLEAN /\ shadow \in BOOLEAN /\ halted \in BOOLEAN

\* A thread is in the history of raisers only after the state in which it
\* raised the line, and the worker from then on.
RaisersInv ==
  /\ main \in {"assign", "assign_doorbell"} => worker = "unspawned" /\ watchdog = "unspawned"
  /\ "watchdog" \in raised => watchdog \in {"raised", "fired", "failed"}
  /\ "worker" \in raised => worker \in {"raised", "done", "failed"}
  /\ worker \in {"raised", "done"} => "worker" \in raised

Count(b) == IF b THEN 1 ELSE 0

\* While the watchdog has not raised the line, only the direct worker holds
\* it, and the worker's delivery is pending in the irqfd, requested in the
\* PIC, or handled: in one of the three, and in none before it was made.
EdgeInv ==
  "watchdog" \notin raised =>
    /\ level # {} => delivery = "direct" /\ "worker" \in raised
    /\ signalled => delivery # "direct"
    /\ Count(irr) + Count(signalled) + handled = Count("worker" \in raised)

\* The handler's byte T, and every byte the main thread expects after it, come
\* after an entry of the handler.
HandledInv ==
  \/ handled >= 1
  \/ pc # "T" /\ saved # "T" /\ expect \in {"A", "T"} /\ execution # "ok"

\* Registrations are refused only by the cleanup, which leaves exactly those.
CleanupInv ==
  /\ main = "assign" => registered = {}
  /\ main \notin {"verdict", "returned"} => refused = {}
  /\ main \in {"verdict", "returned"} => registered = refused

\* A run that returned Ok had each of the verdict's four conditions.
VerdictInv ==
  result = "ok" => /\ main = "returned" /\ execution = "ok" /\ refused = {}
                   /\ worker = "done" /\ watchdog = "cancelled"

\* The doorbell store is executed once, with interrupts disabled.
DoorbellInv ==
  /\ pc = "doorbell" => doorbell = 0 /\ ~if
  /\ saved # "doorbell"
  /\ doorbell <= 1

IInv ==
  /\ HandoffTypeOK /\ FlagsOK /\ RaisersInv /\ EdgeInv
  /\ HandledInv /\ CleanupInv /\ VerdictInv /\ DoorbellInv

-----------------------------------------------------------------------------
\* Every step of the five parties preserves the inductive invariant.
LEMMA Inductive == IInv /\ [HandoffNext]_handoffVars => IInv'
  <1> SUFFICES ASSUME IInv, [HandoffNext]_handoffVars
               PROVE  IInv'
    OBVIOUS
  <1> USE DEF IInv, HandoffTypeOK, FlagsOK, RaisersInv, EdgeInv, HandledInv, CleanupInv, VerdictInv,
              DoorbellInv, Count, Instructions, Registrations,
              handoffVars, host, thread, kernel, lines, guest, past
  <1>1. CASE AssignIrqfd
    <2> USE <1>1 DEF AssignIrqfd, Spawn
    <2>1. HandoffTypeOK'
      <3>1. registered' \subseteq Registrations
        OBVIOUS
      <3>2. QED
        BY <3>1
    <2>2. FlagsOK'
      BY Zenon
    <2>3. EdgeInv'
      OBVIOUS
    <2>4. RaisersInv' /\ HandledInv' /\ CleanupInv' /\ VerdictInv' /\ DoorbellInv'
      OBVIOUS
    <2>5. QED
      BY <2>1, <2>2, <2>3, <2>4 DEF IInv
  <1>2. CASE AssignIrqfdFails
    <2> USE <1>2 DEF AssignIrqfdFails, Fails, Return
    <2>1. HandoffTypeOK'
      OBVIOUS
    <2>2. FlagsOK'
      BY Zenon
    <2>3. EdgeInv'
      OBVIOUS
    <2>4. RaisersInv' /\ HandledInv' /\ CleanupInv' /\ VerdictInv' /\ DoorbellInv'
      OBVIOUS
    <2>5. QED
      BY <2>1, <2>2, <2>3, <2>4 DEF IInv
  <1>3. CASE AssignIoeventfd
    BY <1>3 DEF AssignIoeventfd, Spawn
  <1>4. CASE AssignIoeventfdFails
    BY <1>4 DEF AssignIoeventfdFails, Return
  <1>5. CASE WaitForBridgeIrqfdSignal
    BY <1>5 DEF WaitForBridgeIrqfdSignal
  <1>6. CASE CancelWatchdog
    BY <1>6 DEF CancelWatchdog
  <1>7. CASE JoinWorker
    BY <1>7 DEF JoinWorker
  <1>8. CASE JoinWatchdog
    BY <1>8 DEF JoinWatchdog
  <1>9. CASE Deassign
    BY <1>9 DEF Deassign
  <1>10. CASE Verdict
    BY <1>10 DEF Verdict, Return
  <1>11. CASE WorkerWakes
    BY <1>11 DEF WorkerWakes
  <1>12. CASE WorkerRaises
    <2> USE <1>12 DEF WorkerRaises, SetGsiLevel
    <2>1. HandoffTypeOK'
      <3>1. raised' \subseteq {"worker", "watchdog"} /\ level' \subseteq {"userspace"}
        OBVIOUS
      <3>2. QED
        BY <3>1
    <2>2. FlagsOK'
      BY Zenon
    <2>3. EdgeInv'
      <3>1. "worker" \notin raised /\ "worker" \in raised'
        OBVIOUS
      <3>2. SUFFICES ASSUME "watchdog" \notin raised
                     PROVE  EdgeInv'
        OBVIOUS
      <3>3. level = {} /\ ~irr /\ ~signalled /\ handled = 0
        BY <3>1, <3>2
      <3>4. CASE delivery = "direct"
        <4>1. irr' /\ ~signalled' /\ handled' = 0
          BY <3>3, <3>4
        <4>2. QED
          BY <3>1, <3>4, <4>1
      <3>5. CASE delivery # "direct"
        <4>1. ~irr' /\ signalled' /\ handled' = 0 /\ level' = {}
          BY <3>3, <3>5
        <4>2. QED
          BY <3>1, <3>5, <4>1
      <3>6. QED
        BY <3>4, <3>5
    <2>4. RaisersInv' /\ HandledInv' /\ CleanupInv' /\ VerdictInv' /\ DoorbellInv'
      OBVIOUS
    <2>5. QED
      BY <2>1, <2>2, <2>3, <2>4 DEF IInv
  <1>13. CASE WorkerFinishes
    <2> USE <1>13 DEF WorkerFinishes, SetGsiLevel
    <2>1. HandoffTypeOK'
      <3>1. level' \subseteq {"userspace"}
        OBVIOUS
      <3>2. QED
        BY <3>1
    <2>2. FlagsOK'
      BY Zenon
    <2>3. EdgeInv'
      OBVIOUS
    <2>4. RaisersInv' /\ HandledInv' /\ CleanupInv' /\ VerdictInv' /\ DoorbellInv'
      OBVIOUS
    <2>5. QED
      BY <2>1, <2>2, <2>3, <2>4 DEF IInv
  <1>14. CASE WorkerFails
    BY <1>14 DEF WorkerFails, Fails
  <1>15. CASE WatchdogCancelled
    BY <1>15 DEF WatchdogCancelled
  <1>16. CASE WatchdogExpires
    BY <1>16 DEF WatchdogExpires
  <1>17. CASE WatchdogRaises
    BY <1>17 DEF WatchdogRaises, SetGsiLevel
  <1>18. CASE WatchdogFinishes
    BY <1>18 DEF WatchdogFinishes, SetGsiLevel
  <1>19. CASE WatchdogFails
    BY <1>19 DEF WatchdogFails, Fails
  <1>20. CASE InjectIrqfd
    <2> USE <1>20 DEF InjectIrqfd
    <2>1. HandoffTypeOK'
      OBVIOUS
    <2>2. FlagsOK'
      BY Zenon
    <2>3. EdgeInv'
      <3>1. SUFFICES ASSUME "watchdog" \notin raised
                     PROVE  EdgeInv'
        OBVIOUS
      <3>2. level = {} /\ ~irr /\ handled = 0 /\ "worker" \in raised
        BY <3>1
      <3>3. irr' /\ ~signalled' /\ handled' = 0
        BY <3>2
      <3>4. QED
        BY <3>1, <3>2, <3>3
    <2>4. RaisersInv' /\ HandledInv' /\ CleanupInv' /\ VerdictInv' /\ DoorbellInv'
      OBVIOUS
    <2>5. QED
      BY <2>1, <2>2, <2>3, <2>4 DEF IInv
  <1>21. CASE GuestDoorbell
    BY <1>21 DEF GuestDoorbell, Executes
  <1>22. CASE GuestSti
    BY <1>22 DEF GuestSti, Executes
  <1>23. CASE GuestHlt
    <2> USE <1>23 DEF GuestHlt, Executes
    <2>1. HandoffTypeOK'
      OBVIOUS
    <2>2. FlagsOK'
      BY Zenon
    <2>3. EdgeInv'
      OBVIOUS
    <2>4. RaisersInv' /\ HandledInv' /\ CleanupInv' /\ VerdictInv' /\ DoorbellInv'
      OBVIOUS
    <2>5. QED
      BY <2>1, <2>2, <2>3, <2>4 DEF IInv
  <1>24. CASE GuestEoi
    <2> USE <1>24 DEF GuestEoi, Executes
    <2>1. HandoffTypeOK'
      OBVIOUS
    <2>2. FlagsOK'
      BY Zenon
    <2>3. EdgeInv'
      OBVIOUS
    <2>4. RaisersInv' /\ HandledInv' /\ CleanupInv' /\ VerdictInv' /\ DoorbellInv'
      OBVIOUS
    <2>5. QED
      BY <2>1, <2>2, <2>3, <2>4 DEF IInv
  <1>25. CASE GuestIret
    BY <1>25 DEF GuestIret, Executes
  <1>26. ASSUME NEW byte \in {"A", "T", "W", "D"}, RunExpectedDebugOutput(byte)
        PROVE  IInv'
    BY <1>26 DEF RunExpectedDebugOutput, Executes, AfterOut, Following
  <1>27. CASE GuestTakesInterrupt
    <2> USE <1>27 DEF GuestTakesInterrupt
    <2>1. HandoffTypeOK'
      OBVIOUS
    <2>2. FlagsOK'
      BY Zenon
    <2>3. EdgeInv'
      OBVIOUS
    <2>4. RaisersInv' /\ HandledInv' /\ CleanupInv' /\ VerdictInv' /\ DoorbellInv'
      OBVIOUS
    <2>5. QED
      BY <2>1, <2>2, <2>3, <2>4 DEF IInv
  <1>28. CASE Returned
    BY <1>28 DEF Returned
  <1>29. CASE UNCHANGED handoffVars
    BY <1>29
  <1>30. QED
    BY <1>1, <1>2, <1>3, <1>4, <1>5, <1>6, <1>7, <1>8, <1>9, <1>10, <1>11,
       <1>12, <1>13, <1>14, <1>15, <1>16, <1>17, <1>18, <1>19, <1>20, <1>21,
       <1>22, <1>23, <1>24, <1>25, <1>26, <1>27, <1>28, <1>29 DEF HandoffNext, Main,
       Worker, Watchdog, GuestRuns

\* Every reachable state satisfies the inductive invariant.
THEOREM HandoffInvariant == HandoffSpec => []IInv
  <1>1. HandoffInit => IInv
    <2> SUFFICES ASSUME HandoffInit
                 PROVE  IInv
      OBVIOUS
    <2> USE HandoffAssumption DEF HandoffInit
    <2>1. HandoffTypeOK
      BY DEF HandoffTypeOK, Instructions, Registrations
    <2>2. FlagsOK
      BY Zenon DEF FlagsOK
    <2>3. EdgeInv
      BY DEF EdgeInv, Count
    <2>4. RaisersInv /\ HandledInv /\ CleanupInv /\ VerdictInv /\ DoorbellInv
      BY DEF RaisersInv, HandledInv, CleanupInv, VerdictInv, DoorbellInv
    <2>5. QED
      BY <2>1, <2>2, <2>3, <2>4 DEF IInv
  <1>2. QED
    BY <1>1, Inductive, PTL DEF HandoffSpec

\* Whatever the transport and the faults: when the function returns Ok, the
\* worker and not the watchdog raised the line, the handler ran exactly once
\* and no request and no registration is left.
THEOREM SuccessProvesDelivery == HandoffSpec => []SuccessIsIndependent
  <1>1. IInv => SuccessIsIndependent
    <2> SUFFICES ASSUME IInv, result = "ok"
                 PROVE  raised = {"worker"} /\ handled = 1 /\ ~irr /\ registered = {}
      BY DEF SuccessIsIndependent
    <2>1. "watchdog" \notin raised /\ "worker" \in raised
      BY DEF IInv, RaisersInv, VerdictInv
    <2>2. handled >= 1 /\ registered = {}
      BY DEF IInv, HandledInv, CleanupInv, VerdictInv
    <2>3. handled = 1 /\ ~irr
      BY <2>1, <2>2 DEF IInv, HandoffTypeOK, EdgeInv, Count
    <2>4. QED
      BY <2>1, <2>2, <2>3 DEF IInv, HandoffTypeOK
  <1>2. QED
    BY <1>1, HandoffInvariant, PTL

\* Whatever failed before: a registration that survives the function's return
\* is one whose own deassign ioctl failed.
THEOREM CleanupReleases == HandoffSpec => []RegistrationsReleased
  <1>1. IInv => RegistrationsReleased
    BY DEF IInv, CleanupInv, RegistrationsReleased
  <1>2. QED
    BY <1>1, HandoffInvariant, PTL

\* The bridge reads a doorbell count of one or none: the guest stores once, so
\* the worker's refusal of any other count is never taken.
THEOREM DoorbellRungOnce == HandoffSpec => [](doorbell \in {0, 1})
  <1>1. IInv => doorbell \in {0, 1}
    BY DEF IInv, HandoffTypeOK, DoorbellInv
  <1>2. QED
    BY <1>1, HandoffInvariant, PTL

\* Without the watchdog's pulse the handler is entered at most once, in every
\* state and on every error path: no delivery is counted twice.
THEOREM HandlerEnteredOnce == HandoffSpec => []("watchdog" \notin raised => handled <= 1)
  <1>1. IInv => ("watchdog" \notin raised => handled <= 1)
    BY DEF IInv, HandoffTypeOK, EdgeInv, Count
  <1>2. QED
    BY <1>1, HandoffInvariant, PTL

-----------------------------------------------------------------------------
(***************************************************************************)
(* Proofs about VirtioChain for every queue size, every content of guest   *)
(* memory, every head and request header, and every descriptor and sector  *)
(* size, table limit and capacity.                                         *)
(***************************************************************************)

\* The only walk the next fields allow from the start of a layout.
Walk(layout) ==
    LET At(index) == memory[layout.base + index]
        data == At(layout.start).next
    IN  <<layout.start, data, At(data).next>>

\* What a driver can have put in memory, and what the service call made of it.
ChainInv ==
    /\ memory \in [Memory -> Descriptor]
    /\ driver \in Drivers
    /\ ResolvesExactlyRequests

\* Multiplying by a descriptor or sector size keeps the order.
LEMMA TimesKeepsOrder ==
    ASSUME NEW a \in Nat, NEW b \in Nat, NEW d \in Nat \ {0}
    PROVE  a * d <= b * d <=> a <= b
<1>1. ASSUME a <= b PROVE a * d <= b * d
  BY <1>1
<1>2. ASSUME b < a PROVE b * d < a * d
  <2>1. (b + 1) * d <= a * d
    BY <1>2
  <2>2. (b + 1) * d = b * d + d
    OBVIOUS
  <2>. QED  BY <2>1, <2>2
<1>. QED  BY <1>1, <1>2

\* The remainder and the quotient the resolvers compute say whether a length is a whole
\* number of parts, and of how many.
LEMMA WholeParts ==
    ASSUME NEW length \in Nat, NEW d \in Nat \ {0}
    PROVE  /\ length \div d \in Nat
           /\ length % d = 0 => length = (length \div d) * d
           /\ \A n \in Nat : length = n * d => length % d = 0 /\ length \div d = n
<1> DEFINE q == length \div d
           r == length % d
<1>1. q \in Nat /\ r \in Nat /\ r < d /\ length = d * q + r
  OBVIOUS
<1> HIDE DEF q, r
<1>2. r = 0 => length = q * d
  BY <1>1
<1>3. ASSUME NEW n \in Nat, length = n * d
      PROVE  r = 0 /\ q = n
  <2>1. n * d < (q + 1) * d
    <3>1. (q + 1) * d = d * q + d
      BY <1>1
    <3>. QED  BY <1>1, <1>3, <3>1
  <2>2. q * d <= n * d
    BY <1>1, <1>3
  <2>3. q <= n
    BY <1>1, <2>2, TimesKeepsOrder
  <2>4. ~(q + 1 <= n)
    <3>1. q + 1 \in Nat
      BY <1>1
    <3>2. (q + 1) * d <= n * d <=> q + 1 <= n
      BY <3>1, TimesKeepsOrder
    <3>3. n * d \in Nat /\ (q + 1) * d \in Nat
      BY <3>1
    <3>. QED  BY <2>1, <3>2, <3>3
  <2>5. q = n
    BY <1>1, <2>3, <2>4
  <2>6. d * q = n * d
    BY <1>1, <2>5
  <2>. QED  BY <1>1, <1>3, <2>5, <2>6
<1>. QED  BY <1>1, <1>2, <1>3 DEF q, r

\* The table lengths resolve_indirect_request_chain accepts, by minimum, remainder and
\* maximum, are those of three to MaxIndirect whole descriptors.
LEMMA WholeDescriptors ==
    ASSUME NEW length \in Nat
    PROVE  (\E n \in 3 .. MaxIndirect : length = n * DescriptorSize)
             <=> /\ length >= MIN_REQUEST_DESCRIPTORS * DescriptorSize
                 /\ length % DescriptorSize = 0
                 /\ length \div DescriptorSize <= MaxIndirect
<1>1. DescriptorSize \in Nat \ {0} /\ MaxIndirect \in Nat
  BY ChainAssumption
<1> DEFINE q == length \div DescriptorSize
<1>2. /\ q \in Nat
      /\ length % DescriptorSize = 0 => length = q * DescriptorSize
      /\ \A n \in Nat : length = n * DescriptorSize => length % DescriptorSize = 0 /\ q = n
  BY <1>1, WholeParts
<1>3. \A n \in Nat : 3 * DescriptorSize <= n * DescriptorSize <=> 3 <= n
  BY <1>1, TimesKeepsOrder
<1> HIDE DEF q
<1>4. ASSUME NEW n \in 3 .. MaxIndirect, length = n * DescriptorSize
      PROVE  length >= 3 * DescriptorSize /\ length % DescriptorSize = 0 /\ q <= MaxIndirect
  <2>1. n \in Nat /\ 3 <= n /\ n <= MaxIndirect
    BY <1>1
  <2>2. 3 * DescriptorSize <= n * DescriptorSize
    BY <1>3, <2>1
  <2>3. length % DescriptorSize = 0 /\ q = n
    BY <1>2, <1>4, <2>1
  <2>. QED  BY <1>1, <1>4, <2>1, <2>2, <2>3
<1>5. ASSUME length >= 3 * DescriptorSize, length % DescriptorSize = 0, q <= MaxIndirect
      PROVE  \E n \in 3 .. MaxIndirect : length = n * DescriptorSize
  <2>1. length = q * DescriptorSize
    BY <1>2, <1>5
  <2>2. 3 * DescriptorSize <= q * DescriptorSize
    BY <1>1, <1>5, <2>1
  <2>3. 3 <= q
    BY <1>2, <1>3, <2>2
  <2>4. q \in 3 .. MaxIndirect
    BY <1>1, <1>2, <1>5, <2>3
  <2>. QED  BY <2>1, <2>4
<1>. QED  BY <1>4, <1>5 DEF q, MIN_REQUEST_DESCRIPTORS

\* request_backing_range accepts the lengths of whole sectors that all exist on the disk.
LEMMA SectorsOnDisk ==
    ASSUME NEW length \in Nat, NEW sector \in Nat
    PROVE  (\E n \in 1 .. Capacity : length = n * SectorSize /\ sector + n <= Capacity)
             <=> /\ length > 0 /\ length % SectorSize = 0
                 /\ sector < Capacity
                 /\ sector * SectorSize + length <= Capacity * SectorSize
<1>1. SectorSize \in Nat \ {0} /\ Capacity \in Nat
  BY ChainAssumption
<1> DEFINE q == length \div SectorSize
<1>2. /\ q \in Nat
      /\ length % SectorSize = 0 => length = q * SectorSize
      /\ \A n \in Nat : length = n * SectorSize => length % SectorSize = 0 /\ q = n
  BY <1>1, WholeParts
<1> HIDE DEF q
<1>3. ASSUME NEW n \in Nat
      PROVE  (sector + n) * SectorSize <= Capacity * SectorSize <=> sector + n <= Capacity
  <2>1. sector + n \in Nat
    OBVIOUS
  <2>. QED  BY <1>1, <2>1, TimesKeepsOrder
<1>4. \A n \in Nat : (sector + n) * SectorSize = sector * SectorSize + n * SectorSize
  BY <1>1
<1>5. ASSUME NEW n \in 1 .. Capacity, length = n * SectorSize, sector + n <= Capacity
      PROVE  /\ length > 0 /\ length % SectorSize = 0
             /\ sector < Capacity
             /\ sector * SectorSize + length <= Capacity * SectorSize
  <2>1. n \in Nat /\ n >= 1
    BY <1>1
  <2>2. sector * SectorSize + length <= Capacity * SectorSize
    BY <1>3, <1>4, <1>5, <2>1
  <2>3. length # 0
    BY <1>1, <1>5, <2>1
  <2>. QED  BY <1>1, <1>2, <1>5, <2>1, <2>2, <2>3
<1>6. ASSUME length > 0, length % SectorSize = 0, sector < Capacity,
             sector * SectorSize + length <= Capacity * SectorSize
      PROVE  \E n \in 1 .. Capacity : length = n * SectorSize /\ sector + n <= Capacity
  <2>1. length = q * SectorSize
    BY <1>2, <1>6
  <2>2. q # 0
    BY <1>1, <1>6, <2>1
  <2>3. (sector + q) * SectorSize <= Capacity * SectorSize
    BY <1>2, <1>4, <1>6, <2>1
  <2>4. sector + q <= Capacity
    BY <1>2, <1>3, <2>3
  <2>5. q \in 1 .. Capacity
    BY <1>1, <1>2, <2>2, <2>4
  <2>. QED  BY <2>1, <2>4, <2>5
<1>. QED  BY <1>5, <1>6

\* The checks of the caller are those of a well-formed request.
LEMMA ValidRequests ==
    ASSUME driver \in Drivers, NEW data \in Descriptor
    PROVE  RequestValid(data) <=>
             /\ driver.request.readable /\ driver.request.type # "other"
             /\ driver.request.reserved = 0
             /\ data.flags = {"NEXT"} \cup IF driver.request.type = "IN" THEN {"WRITE"} ELSE {}
             /\ \E n \in 1 .. Capacity :
                   data.length = n * SectorSize /\ driver.request.sector + n <= Capacity
<1> DEFINE Fits == \E n \in 1 .. Capacity :
                      data.length = n * SectorSize /\ driver.request.sector + n <= Capacity
           Small == driver.request.sector * SectorSize + data.length <= Capacity * SectorSize
<1>1. driver.request \in Header /\ data.length \in Nat
  BY ChainAssumption DEF Descriptor
<1>2. /\ driver.request.sector \in Nat
      /\ driver.request.type # "other" <=> driver.request.type \in {"IN", "OUT"}
  BY <1>1 DEF Header
<1>3. Fits <=> /\ data.length > 0 /\ data.length % SectorSize = 0
               /\ driver.request.sector < Capacity /\ Small
  BY <1>1, <1>2, SectorsOnDisk
<1>4. {"NEXT"} \cup (IF driver.request.type = "IN" THEN {"WRITE"} ELSE {})
        = IF driver.request.type = "IN" THEN {"NEXT", "WRITE"} ELSE {"NEXT"}
  OBVIOUS
<1>5. RequestValid(data) <=>
        /\ driver.request.readable
        /\ driver.request.type \in {"IN", "OUT"} /\ driver.request.reserved = 0
        /\ data.length > 0 /\ data.length % SectorSize = 0
        /\ driver.request.sector < Capacity /\ Small
        /\ data.flags = IF driver.request.type = "IN" THEN {"NEXT", "WRITE"} ELSE {"NEXT"}
  BY DEF RequestValid
<1> HIDE DEF Fits, Small
<1>6. RequestValid(data) <=>
        /\ driver.request.readable /\ driver.request.type # "other"
        /\ driver.request.reserved = 0
        /\ data.flags = {"NEXT"} \cup IF driver.request.type = "IN" THEN {"WRITE"} ELSE {}
        /\ Fits
  BY <1>2, <1>3, <1>4, <1>5
<1>. QED  BY <1>6 DEF Fits

\* The next fields leave one candidate: a request in a layout is its walk.
LEMMA RequestIsWalk ==
    ASSUME NEW layout
    PROVE  Requests(layout) = IF IsRequest(layout, Walk(layout)) THEN {Walk(layout)} ELSE {}
<1> DEFINE Below == 0 .. layout.size - 1
<1>1. ASSUME NEW w \in {layout.start} \X Below \X Below, IsRequest(layout, w)
      PROVE  w = Walk(layout)
  <2>1. w = <<w[1], w[2], w[3]>> /\ w[1] = layout.start
    OBVIOUS
  <2>2. memory[layout.base + w[1]].next = w[2] /\ memory[layout.base + w[2]].next = w[3]
    BY <1>1 DEF IsRequest
  <2>. QED  BY <2>1, <2>2 DEF Walk
<1>2. ASSUME IsRequest(layout, Walk(layout))
      PROVE  Walk(layout) \in {layout.start} \X Below \X Below
  <2>1. \A i \in 1 .. 3 : Walk(layout)[i] \in Below
    BY <1>2 DEF IsRequest
  <2>2. Walk(layout) = <<layout.start, Walk(layout)[2], Walk(layout)[3]>>
    BY DEF Walk
  <2>. QED  BY <2>1, <2>2
<1>. QED  BY <1>1, <1>2 DEF Requests

\* The descriptors the walk of a layout comes to.
HeaderOf(layout) == memory[layout.base + layout.start]
DataOf(layout) == memory[layout.base + HeaderOf(layout).next]
StatusOf(layout) == memory[layout.base + DataOf(layout).next]

\* The walk goes through them.
LEMMA WalkOf ==
    ASSUME NEW layout
    PROVE  Walk(layout) = <<layout.start, HeaderOf(layout).next, DataOf(layout).next>>
BY DEF Walk, HeaderOf, DataOf

\* The checks of a walk, descriptor by descriptor.
WalkOk(layout) ==
    /\ layout.start < layout.size /\ layout.base + layout.start \in Memory
    /\ HeaderOf(layout).flags = {"NEXT"} /\ HeaderOf(layout).length >= HeaderLength
    /\ HeaderOf(layout).next # layout.start
    /\ HeaderOf(layout).next < layout.size /\ layout.base + HeaderOf(layout).next \in Memory
    /\ DataOf(layout).next # layout.start /\ DataOf(layout).next # HeaderOf(layout).next
    /\ DataOf(layout).next < layout.size /\ layout.base + DataOf(layout).next \in Memory
    /\ StatusOf(layout).flags = {"WRITE"} /\ StatusOf(layout).length >= StatusLength
    /\ RequestValid(DataOf(layout))

\* They are what makes it a request.
LEMMA WalkIsRequest ==
    ASSUME memory \in [Memory -> Descriptor], driver \in Drivers,
           NEW layout, layout.base \in Nat, layout.start \in Nat, layout.size \in Nat
    PROVE  IsRequest(layout, Walk(layout)) <=> WalkOk(layout)
<1> DEFINE header == HeaderOf(layout)
           data == DataOf(layout)
           answer == StatusOf(layout)
           w == Walk(layout)
<1>0. /\ header = memory[layout.base + layout.start]
      /\ data = memory[layout.base + header.next]
      /\ answer = memory[layout.base + data.next]
  BY DEF HeaderOf, DataOf, StatusOf
<1>1. w[1] = layout.start /\ w[2] = header.next /\ w[3] = data.next
  BY DEF Walk, HeaderOf, DataOf
<1> HIDE DEF header, data, answer
<1> DEFINE In(k) == k < layout.size /\ layout.base + k \in Memory
<1>2. \A i : i \in 1 .. 3 <=> i = 1 \/ i = 2 \/ i = 3
  OBVIOUS
<1>3. (\A i, j \in 1 .. 3 : w[i] = w[j] => i = j)
        <=> header.next # layout.start /\ data.next # layout.start /\ data.next # header.next
  <2> HIDE DEF w
  <2>. QED  BY <1>1, <1>2
<1>4. /\ layout.base + layout.start \in Memory => header \in Descriptor
      /\ layout.base + header.next \in Memory => data \in Descriptor
  BY <1>0
<1>5. \A d \in Descriptor : d.next \in Nat
  BY DEF Descriptor
<1>6. ASSUME NEW k \in Nat PROVE k \in 0 .. layout.size - 1 <=> k < layout.size
  OBVIOUS
<1> DEFINE Range3 == \A i \in 1 .. 3 :
                        w[i] \in 0 .. layout.size - 1 /\ layout.base + w[i] \in Memory
<1>7. Range3 <=> In(layout.start) /\ In(header.next) /\ In(data.next)
  <2>1. Range3 <=> /\ w[1] \in 0 .. layout.size - 1 /\ layout.base + w[1] \in Memory
                   /\ w[2] \in 0 .. layout.size - 1 /\ layout.base + w[2] \in Memory
                   /\ w[3] \in 0 .. layout.size - 1 /\ layout.base + w[3] \in Memory
    <3> HIDE DEF w
    <3>. QED  BY <1>2
  <2> HIDE DEF w
  <2>. QED  BY <1>1, <1>4, <1>5, <1>6, <2>1
<1> DEFINE Valid == /\ driver.request.readable /\ driver.request.type # "other"
                    /\ driver.request.reserved = 0
                    /\ data.flags = {"NEXT"}
                          \cup IF driver.request.type = "IN" THEN {"WRITE"} ELSE {}
                    /\ \E n \in 1 .. Capacity :
                          data.length = n * SectorSize /\ driver.request.sector + n <= Capacity
<1>8. In(header.next) => (Valid <=> RequestValid(data))
  BY <1>4, ValidRequests
<1>9. IsRequest(layout, w) <=>
        /\ Range3
        /\ \A i, j \in 1 .. 3 : w[i] = w[j] => i = j
        /\ header.flags = {"NEXT"} /\ header.length >= HeaderLength
        /\ answer.flags = {"WRITE"} /\ answer.length >= StatusLength
        /\ Valid
  <2> HIDE DEF w
  <2>. QED  BY <1>0, <1>1 DEF IsRequest
<1> HIDE DEF w, Range3, Valid
<1>10. IsRequest(layout, w) <=>
         /\ In(layout.start)
         /\ header.flags = {"NEXT"} /\ header.length >= HeaderLength
         /\ header.next # layout.start /\ In(header.next)
         /\ data.next # layout.start /\ data.next # header.next /\ In(data.next)
         /\ answer.flags = {"WRITE"} /\ answer.length >= StatusLength
         /\ RequestValid(data)
  BY <1>3, <1>7, <1>8, <1>9
<1>. QED  BY <1>10 DEF w, header, data, answer, WalkOk

\* An accepted chain is told from a refusal, and keeps its table and its data index.
LEMMA AcceptedParts ==
    ASSUME NEW base, NEW a, NEW b, NEW c
    PROVE  /\ Accepted(base, <<a, b, c>>) # Refused
           /\ Accepted(base, <<a, b, c>>).base = base
           /\ Accepted(base, <<a, b, c>>).walk[2] = b
<1>1. /\ Accepted(base, <<a, b, c>>).walk = <<a, b, c>> /\ Refused.walk = <<>>
      /\ Accepted(base, <<a, b, c>>).base = base
  BY DEF Accepted, Refused
<1>2. <<a, b, c>> # <<>> /\ <<a, b, c>>[2] = b
  OBVIOUS
<1>. QED  BY <1>1, <1>2

\* resolve_direct_request_chain finds the walk in the ring, and accepts it if the checks hold
\* that do not look at the request itself.
LEMMA DirectOutcome ==
    ASSUME memory \in [Memory -> Descriptor], driver \in Drivers, RingReadable(driver.head),
           "INDIRECT" \notin memory[driver.head].flags
    PROVE  /\ Layout.base = 0 /\ Layout.start \in Nat /\ Layout.size \in Nat
           /\ WalkOk(Layout) <=> ResolveRequestChain # Refused /\ RequestValid(DataOf(Layout))
           /\ ResolveRequestChain # Refused =>
                ResolveRequestChain = Accepted(0, Walk(Layout))
<1> DEFINE head == driver.head
           header == memory[head]
           data == memory[header.next]
           answer == memory[data.next]
           ok == /\ header.flags = {"NEXT"} /\ header.length >= HeaderLength
                 /\ header.next # head /\ RingReadable(header.next)
                 /\ data.next \notin {head, header.next} /\ RingReadable(data.next)
                 /\ answer.flags = {"WRITE"} /\ answer.length >= StatusLength
<1>1. head \in Nat /\ QueueSize \in Nat /\ Memory \subseteq Nat
  BY ChainAssumption
<1>2. ResolveRequestChain = IF ok THEN Accepted(0, <<head, header.next, data.next>>) ELSE Refused
  BY DEF ResolveRequestChain, ResolveDirect
<1>3. ResolveRequestChain # Refused <=> ok
  <2> HIDE DEF head, header, data, ok
  <2>1. Accepted(0, <<head, header.next, data.next>>) # Refused
    BY AcceptedParts
  <2>. QED  BY <1>2, <2>1
<1>4. Layout = [base |-> 0, start |-> head, size |-> QueueSize]
  BY DEF Layout
<1>5. Layout.base = 0 /\ Layout.start = head /\ Layout.size = QueueSize
  BY <1>4
<1>6. /\ head < QueueSize /\ head \in Memory /\ header \in Descriptor /\ header.next \in Nat
      /\ RingReadable(header.next) => data \in Descriptor /\ data.next \in Nat
  BY DEF RingReadable, DescriptorIndexInRange, Descriptor
<1> HIDE DEF head, header, data, answer
<1>7. HeaderOf(Layout) = header
  <2>1. 0 + head = head
    BY <1>1
  <2>. QED  BY <1>5, <2>1, Zenon DEF HeaderOf, header
<1>8. DataOf(Layout) = data
  <2>1. 0 + header.next = header.next
    BY <1>6
  <2>. QED  BY <1>5, <1>7, <2>1, Zenon DEF DataOf, data
<1>9. RingReadable(header.next) => StatusOf(Layout) = answer
  <2>1. RingReadable(header.next) => 0 + data.next = data.next
    BY <1>6
  <2>. QED  BY <1>5, <1>8, <2>1, Zenon DEF StatusOf, answer
<1>10. Walk(Layout) = <<head, header.next, data.next>>
  BY <1>5, <1>7, <1>8, WalkOf, Zenon
<1>11. WalkOk(Layout) <=>
         /\ head < QueueSize /\ 0 + head \in Memory
         /\ header.flags = {"NEXT"} /\ header.length >= HeaderLength
         /\ header.next # head /\ header.next < QueueSize /\ 0 + header.next \in Memory
         /\ data.next # head /\ data.next # header.next
         /\ data.next < QueueSize /\ 0 + data.next \in Memory
         /\ StatusOf(Layout).flags = {"WRITE"} /\ StatusOf(Layout).length >= StatusLength
         /\ RequestValid(data)
  BY <1>5, <1>7, <1>8, Zenon DEF WalkOk
<1>12. RingReadable(header.next) <=> header.next < QueueSize /\ 0 + header.next \in Memory
  BY <1>6 DEF RingReadable, DescriptorIndexInRange
<1>13. RingReadable(header.next) =>
         (RingReadable(data.next) <=> data.next < QueueSize /\ 0 + data.next \in Memory)
  BY <1>6 DEF RingReadable, DescriptorIndexInRange
<1>14. 0 + head \in Memory
  BY <1>1, <1>6
<1>15. WalkOk(Layout) <=> ok /\ RequestValid(data)
  BY <1>6, <1>9, <1>11, <1>12, <1>13, <1>14
<1> HIDE DEF ok
<1>16. Layout.base = 0 /\ Layout.start \in Nat /\ Layout.size \in Nat
  BY <1>1, <1>5
<1>17. WalkOk(Layout) <=> ResolveRequestChain # Refused /\ RequestValid(DataOf(Layout))
  BY <1>3, <1>8, <1>15, Zenon
<1>18. ResolveRequestChain # Refused => ResolveRequestChain = Accepted(0, Walk(Layout))
  BY <1>2, <1>10, Zenon
<1>. QED  BY <1>16, <1>17, <1>18, Zenon

\* resolve_indirect_request_chain does so in the table.
LEMMA IndirectOutcome ==
    ASSUME memory \in [Memory -> Descriptor], driver \in Drivers, RingReadable(driver.head),
           "INDIRECT" \in memory[driver.head].flags
    PROVE  /\ Layout.base \in Nat /\ Layout.start \in Nat /\ Layout.size \in Nat
           /\ WalkOk(Layout) <=> ResolveRequestChain # Refused /\ RequestValid(DataOf(Layout))
           /\ ResolveRequestChain # Refused =>
                ResolveRequestChain = Accepted(Layout.base, Walk(Layout))
<1> DEFINE outer == memory[driver.head]
           base == outer.address
           header == memory[base + 0]
           data == memory[base + header.next]
           answer == memory[base + data.next]
           whole == /\ outer.length >= MIN_REQUEST_DESCRIPTORS * DescriptorSize
                    /\ outer.length % DescriptorSize = 0
                    /\ Entries(outer) <= MaxIndirect
           usable == driver.negotiated /\ outer.flags = {"INDIRECT"} /\ whole
           size == IF usable THEN Entries(outer) ELSE 0
           ok == /\ usable
                 /\ TableReadable(outer, 0)
                 /\ header.flags = {"NEXT"} /\ header.length >= HeaderLength
                 /\ header.next # 0 /\ TableReadable(outer, header.next)
                 /\ "INDIRECT" \notin data.flags
                 /\ data.next \notin {0, header.next} /\ TableReadable(outer, data.next)
                 /\ answer.flags = {"WRITE"} /\ answer.length >= StatusLength
<1>1. outer \in Descriptor /\ base \in Nat /\ outer.length \in Nat
  BY DEF RingReadable, Descriptor
<1>2. Entries(outer) \in Nat
  BY <1>1, WholeParts, ChainAssumption DEF Entries
<1>3. (\E n \in 3 .. MaxIndirect : outer.length = n * DescriptorSize) <=> whole
  BY <1>1, WholeDescriptors DEF Entries
<1>4. Layout = [base |-> base, start |-> 0,
                size |-> IF /\ driver.negotiated /\ outer.flags = {"INDIRECT"}
                            /\ \E n \in 3 .. MaxIndirect : outer.length = n * DescriptorSize
                         THEN Entries(outer) ELSE 0]
  BY DEF Layout, Entries
<1>5. Layout.base = base /\ Layout.start = 0 /\ Layout.size = size
  BY <1>3, <1>4
<1>6. size \in Nat
  BY <1>2
<1>7. ResolveRequestChain = IF ok THEN Accepted(base, <<0, header.next, data.next>>) ELSE Refused
  BY DEF ResolveRequestChain, ResolveIndirect
<1>8. ResolveRequestChain # Refused <=> ok
  <2> HIDE DEF base, header, data, ok
  <2>1. Accepted(base, <<0, header.next, data.next>>) # Refused
    BY AcceptedParts
  <2>. QED  BY <1>7, <2>1
<1> HIDE DEF size, whole, outer, base, header, data, answer
<1>9. HeaderOf(Layout) = header /\ DataOf(Layout) = data /\ StatusOf(Layout) = answer
  BY <1>5, Zenon DEF HeaderOf, DataOf, StatusOf, header, data, answer
<1>10. Walk(Layout) = <<0, header.next, data.next>>
  BY <1>5, <1>9, WalkOf, Zenon
<1>11. WalkOk(Layout) <=>
         /\ 0 < size /\ base + 0 \in Memory
         /\ header.flags = {"NEXT"} /\ header.length >= HeaderLength
         /\ header.next # 0 /\ header.next < size /\ base + header.next \in Memory
         /\ data.next # 0 /\ data.next # header.next
         /\ data.next < size /\ base + data.next \in Memory
         /\ answer.flags = {"WRITE"} /\ answer.length >= StatusLength
         /\ RequestValid(data)
  BY <1>5, <1>9, Zenon DEF WalkOk
<1>12. RequestValid(data) => "INDIRECT" \notin data.flags
  <2>1. RequestValid(data) => data.flags = {"NEXT", "WRITE"} \/ data.flags = {"NEXT"}
    BY Zenon DEF RequestValid
  <2>2. "INDIRECT" \notin {"NEXT", "WRITE"} /\ "INDIRECT" \notin {"NEXT"}
    OBVIOUS
  <2>. QED  BY <2>1, <2>2
<1>13. ASSUME usable
       PROVE  /\ size = Entries(outer)
              /\ \A k : TableReadable(outer, k) <=> k < size /\ base + k \in Memory
  BY <1>13 DEF TableReadable, size, base
<1>14. ~usable => size = 0
  BY DEF size
<1> HIDE DEF usable
<1>15. usable => (WalkOk(Layout) <=> ok /\ RequestValid(data))
  BY <1>11, <1>12, <1>13
<1>16. ~usable => ~ok
  OBVIOUS
<1>17. ~usable => ~WalkOk(Layout)
  <2>1. size = 0 => ~(0 < size)
    OBVIOUS
  <2>. QED  BY <1>11, <1>14, <2>1, Zenon
<1> HIDE DEF ok
<1>18. Layout.base \in Nat /\ Layout.start \in Nat /\ Layout.size \in Nat
  BY <1>1, <1>5, <1>6
<1>19. WalkOk(Layout) <=> ResolveRequestChain # Refused /\ RequestValid(DataOf(Layout))
  BY <1>8, <1>9, <1>15, <1>16, <1>17, Zenon
<1>20. ResolveRequestChain # Refused => ResolveRequestChain = Accepted(Layout.base, Walk(Layout))
  BY <1>5, <1>7, <1>10, Zenon
<1>. QED  BY <1>18, <1>19, <1>20, Zenon

\* The service accepts the walk of the layout if and only if it is a well-formed request.
LEMMA AcceptsRequests ==
    ASSUME memory \in [Memory -> Descriptor], driver \in Drivers, ProcessNotified
    PROVE  outcome' = IF IsRequest(Layout, Walk(Layout))
                      THEN Accepted(Layout.base, Walk(Layout)) ELSE Refused
<1> DEFINE chain == ResolveRequestChain
<1>1. outcome' = IF /\ RingReadable(driver.head) /\ chain # Refused
                    /\ RequestValid(memory[chain.base + chain.walk[2]])
                 THEN chain ELSE Refused
  BY DEF ProcessNotified
<1> HIDE DEF chain
<1>2. CASE ~RingReadable(driver.head)
  <2>1. Layout = [base |-> 0, start |-> 0, size |-> 0]
    BY <1>2 DEF Layout
  <2>2. Layout.base = 0 /\ Layout.start = 0 /\ Layout.size = 0
    BY <2>1
  <2>3. ~WalkOk(Layout)
    BY <2>2 DEF WalkOk
  <2>4. ~IsRequest(Layout, Walk(Layout))
    BY <2>2, <2>3, WalkIsRequest
  <2>. QED  BY <1>1, <1>2, <2>4
<1>3. CASE RingReadable(driver.head)
  <2>1. /\ Layout.base \in Nat /\ Layout.start \in Nat /\ Layout.size \in Nat
        /\ WalkOk(Layout) <=> chain # Refused /\ RequestValid(DataOf(Layout))
        /\ chain # Refused => chain = Accepted(Layout.base, Walk(Layout))
    <3>1. CASE "INDIRECT" \in memory[driver.head].flags
      BY <1>3, <3>1, IndirectOutcome, Zenon DEF chain
    <3>2. CASE "INDIRECT" \notin memory[driver.head].flags
      <4>1. /\ Layout.base = 0 /\ Layout.start \in Nat /\ Layout.size \in Nat
            /\ WalkOk(Layout) <=> chain # Refused /\ RequestValid(DataOf(Layout))
            /\ chain # Refused => chain = Accepted(0, Walk(Layout))
        BY <1>3, <3>2, DirectOutcome, Zenon DEF chain
      <4>2. Layout.base \in Nat
        BY <4>1
      <4>. QED  BY <4>1, <4>2, Zenon
    <3>. QED  BY <3>1, <3>2
  <2>2. IsRequest(Layout, Walk(Layout)) <=> WalkOk(Layout)
    BY <2>1, WalkIsRequest
  <2>3. ASSUME chain # Refused
        PROVE  memory[chain.base + chain.walk[2]] = DataOf(Layout)
    <3> DEFINE base == Layout.base
               start == Layout.start
               index == HeaderOf(Layout).next
               last == DataOf(Layout).next
               accepted == Accepted(base, <<start, index, last>>)
    <3>1. chain = accepted
      BY <2>1, <2>3, WalkOf, Zenon
    <3> HIDE DEF base, start, index, last
    <3>2. accepted.base = base /\ accepted.walk[2] = index
      BY AcceptedParts
    <3> HIDE DEF accepted
    <3>. QED  BY <3>1, <3>2, Zenon DEF DataOf, base, index
  <2>. QED  BY <1>1, <1>3, <2>1, <2>2, <2>3
<1>. QED  BY <1>2, <1>3

\* For every ring size, content of guest memory, head and request: the service accepts
\* exactly the well-formed requests and takes their descriptors.
THEOREM ResolvesExactlyRequestsHolds == ChainSpec => []ResolvesExactlyRequests
<1>1. ChainInit => ChainInv
  <2> SUFFICES ASSUME ChainInit PROVE ChainInv
    OBVIOUS
  <2>1. driver \in Drivers /\ outcome = Pending
    BY DEF ChainInit
  <2>2. PICK free \in [Free -> Descriptors] :
          memory = [i \in Memory |-> IF i \in Free THEN free[i] ELSE driver.placed[i]]
    BY DEF ChainInit
  <2>3. driver.placed \in [Memory \ Free -> Descriptor]
    BY <2>1, ChainAssumption
  <2>4. memory \in [Memory -> Descriptor]
    BY <2>2, <2>3, ChainAssumption
  <2>. QED  BY <2>1, <2>4 DEF ChainInv, ResolvesExactlyRequests, Pending
<1>2. ChainInv /\ [ChainNext]_chainVars => ChainInv'
  <2> SUFFICES ASSUME ChainInv, [ChainNext]_chainVars PROVE ChainInv'
    OBVIOUS
  <2>1. ASSUME memory' = memory, driver' = driver
        PROVE  Layout' = Layout /\ Requests(Layout)' = Requests(Layout)
    <3>1. Layout' = Layout
      BY <2>1 DEF Layout, RingReadable, DescriptorIndexInRange
    <3>. QED  BY <2>1, <3>1 DEF Requests, IsRequest
  <2>2. CASE UNCHANGED chainVars
    BY <2>1, <2>2 DEF chainVars, ChainInv, ResolvesExactlyRequests
  <2>3. CASE ProcessNotified
    <3>1. memory' = memory /\ driver' = driver
      BY <2>3 DEF ProcessNotified
    <3>2. Requests(Layout) =
            IF IsRequest(Layout, Walk(Layout)) THEN {Walk(Layout)} ELSE {}
      BY RequestIsWalk
    <3>3. outcome' = IF IsRequest(Layout, Walk(Layout))
                     THEN Accepted(Layout.base, Walk(Layout)) ELSE Refused
      BY <2>3, AcceptsRequests DEF ChainInv
    <3>4. IF Requests(Layout) = {} THEN outcome' = Refused
          ELSE outcome'.base = Layout.base /\ {outcome'.walk} = Requests(Layout)
      BY <3>2, <3>3 DEF Accepted
    <3>. QED  BY <2>1, <3>1, <3>4 DEF ChainInv, ResolvesExactlyRequests
  <2>. QED  BY <2>2, <2>3 DEF ChainNext
<1>. QED  BY <1>1, <1>2, PTL DEF ChainSpec, ChainInv
=============================================================================
