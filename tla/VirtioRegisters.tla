-------------------------- MODULE VirtioRegisters --------------------------
(***************************************************************************)
(* The register file of the virtio PCI devices: the common configuration,  *)
(* notification and ISR registers of VirtioBlkDevice (pci/virtio_blk.rs)   *)
(* and of VirtioRngDevice (pci/virtio.rs).  The two devices run the same   *)
(* machine and differ only in the features they support, which is the      *)
(* constant SupportedFeatures.                                             *)
(*                                                                         *)
(* A register access the code refuses returns an error before it assigns   *)
(* any field, so refusals are stuttering steps and each action below is    *)
(* the accepting path of one arm of `write`, `read` or of the queue        *)
(* service.  A status byte is the set of its bits, a 64-bit feature mask   *)
(* the set of its bits (split over two 32-bit words), and a 64-bit queue   *)
(* address the record of its two 32-bit halves.                            *)
(***************************************************************************)
EXTENDS Naturals

CONSTANTS
    SupportedFeatures,  \* features the device offers
    LowWords,           \* values the driver writes to feature word 0
    HighWords,          \* values the driver writes to feature word 1
    FeatureSelects,     \* values written to the two feature-select registers
    QueueSelects,       \* values written to queue_select
    QueueSizes,         \* values written to queue_size
    HalfWords,          \* values written to either half of a queue address
    QueueMaxSize,       \* VIRTIO_QUEUE_MAX_SIZE
    IndexModulus        \* 2^16 for the u16 ring indices

VARIABLES
    device_feature_select, driver_feature_select, driver_features, status,
    queue_select, queue_size, queue_enabled, queue_addr,
    notify_pending, last_avail_idx, last_used_idx, isr_status

config == <<device_feature_select, driver_feature_select, driver_features, status,
            queue_select, queue_size, queue_enabled, queue_addr>>
work == <<notify_pending, last_avail_idx, last_used_idx, isr_status>>
registerVars == <<config, work>>

-----------------------------------------------------------------------------
(* Register contents. *)

LowFeatures == UNION LowWords
HighFeatures == UNION HighWords

VIRTIO_STATUS_KNOWN == {"ACKNOWLEDGE", "DRIVER", "DRIVER_OK", "FEATURES_OK", "FAILED"}
StatusBytes == SUBSET (VIRTIO_STATUS_KNOWN \cup {"UNKNOWN_BIT"})

QueueAddresses == {"desc", "driver", "device"}
Address == [lo : HalfWords, hi : HalfWords]
ZeroAddress == [lo |-> 0, hi |-> 0]

PowersOfTwo == {1, 2, 4, 8}

ASSUME RegistersAssumption ==
    /\ IndexModulus \in Nat \ {0}
    /\ QueueMaxSize \in PowersOfTwo
    /\ 0 \in HalfWords
    /\ 0 \in FeatureSelects /\ FeatureSelects \subseteq Nat
    /\ 0 \in QueueSelects /\ QueueSelects \subseteq Nat
    /\ QueueSizes \subseteq Nat
    /\ LowFeatures \cap HighFeatures = {}
    /\ {} \in LowWords

AddressesNonZero == \A a \in QueueAddresses : queue_addr[a] # ZeroAddress

\* Every supported feature word must carry VERSION_1 and nothing the device does not offer.
NegotiatedFeaturesValid ==
    /\ "VERSION_1" \in driver_features
    /\ driver_features \subseteq SupportedFeatures

QueueReady ==
    /\ {"DRIVER_OK", "FEATURES_OK"} \subseteq status
    /\ NegotiatedFeaturesValid
    /\ queue_enabled
    /\ AddressesNonZero

QueueSelected == queue_select = 0
QueueUnlocked == QueueSelected /\ ~queue_enabled

-----------------------------------------------------------------------------
RegistersInit ==
    /\ device_feature_select = 0
    /\ driver_feature_select = 0
    /\ driver_features = {}
    /\ status = {}
    /\ queue_select = 0
    /\ queue_size = QueueMaxSize
    /\ queue_enabled = FALSE
    /\ queue_addr = [a \in QueueAddresses |-> ZeroAddress]
    /\ notify_pending = FALSE
    /\ last_avail_idx = 0
    /\ last_used_idx = 0
    /\ isr_status = 0

WriteDeviceFeatureSelect(v) ==
    /\ device_feature_select' = v
    /\ UNCHANGED <<driver_feature_select, driver_features, status,
                   queue_select, queue_size, queue_enabled, queue_addr, work>>

WriteDriverFeatureSelect(v) ==
    /\ driver_feature_select' = v
    /\ UNCHANGED <<device_feature_select, driver_features, status,
                   queue_select, queue_size, queue_enabled, queue_addr, work>>

\* Wrong on purpose: feature words stay writable after FEATURES_OK.
WriteDriverFeatureAnytime(word) ==
    /\ \/ /\ driver_feature_select = 0
          /\ word \in LowWords
          /\ driver_features' = (driver_features \ LowFeatures) \cup word
       \/ /\ driver_feature_select = 1
          /\ word \in HighWords
          /\ driver_features' = (driver_features \ HighFeatures) \cup word
    /\ UNCHANGED <<device_feature_select, driver_feature_select, status,
                   queue_select, queue_size, queue_enabled, queue_addr, work>>

\* Selects past word 1 accept only the value zero, which changes nothing.
WriteDriverFeature(word) ==
    /\ "FEATURES_OK" \notin status
    /\ \/ /\ driver_feature_select = 0
          /\ word \in LowWords
          /\ driver_features' = (driver_features \ LowFeatures) \cup word
       \/ /\ driver_feature_select = 1
          /\ word \in HighWords
          /\ driver_features' = (driver_features \ HighFeatures) \cup word
    /\ UNCHANGED <<device_feature_select, driver_feature_select, status,
                   queue_select, queue_size, queue_enabled, queue_addr, work>>

\* Wrong on purpose: a reset that leaves the ISR bit up.
ResetKeepsIsr ==
    /\ device_feature_select' = 0
    /\ driver_feature_select' = 0
    /\ driver_features' = {}
    /\ status' = {}
    /\ queue_select' = 0
    /\ queue_size' = QueueMaxSize
    /\ queue_enabled' = FALSE
    /\ queue_addr' = [a \in QueueAddresses |-> ZeroAddress]
    /\ notify_pending' = FALSE
    /\ last_avail_idx' = 0
    /\ last_used_idx' = 0
    /\ UNCHANGED isr_status

\* Writing zero to the status register resets everything but the backing store.
Reset ==
    /\ device_feature_select' = 0
    /\ driver_feature_select' = 0
    /\ driver_features' = {}
    /\ status' = {}
    /\ queue_select' = 0
    /\ queue_size' = QueueMaxSize
    /\ queue_enabled' = FALSE
    /\ queue_addr' = [a \in QueueAddresses |-> ZeroAddress]
    /\ notify_pending' = FALSE
    /\ last_avail_idx' = 0
    /\ last_used_idx' = 0
    /\ isr_status' = 0

StatusWellFormed(requested) ==
    /\ requested \subseteq VIRTIO_STATUS_KNOWN
    /\ status \subseteq requested
    /\ "DRIVER" \in requested => "ACKNOWLEDGE" \in requested
    /\ "FEATURES_OK" \in requested => {"ACKNOWLEDGE", "DRIVER"} \subseteq requested

\* FEATURES_OK with an unacceptable feature set: the write succeeds with the bit dropped,
\* before the DRIVER_OK condition is looked at.
RefuseFeatures(requested) ==
    /\ requested # {}
    /\ StatusWellFormed(requested)
    /\ "FEATURES_OK" \in requested
    /\ ~NegotiatedFeaturesValid
    /\ status' = requested \ {"FEATURES_OK"}
    /\ UNCHANGED <<device_feature_select, driver_feature_select, driver_features,
                   queue_select, queue_size, queue_enabled, queue_addr, work>>

SetStatus(requested) ==
    /\ requested # {}
    /\ StatusWellFormed(requested)
    /\ "FEATURES_OK" \in requested => NegotiatedFeaturesValid
    /\ "DRIVER_OK" \in requested => "FEATURES_OK" \in requested /\ queue_enabled
    /\ status' = requested
    /\ UNCHANGED <<device_feature_select, driver_feature_select, driver_features,
                   queue_select, queue_size, queue_enabled, queue_addr, work>>

WriteQueueSelect(v) ==
    /\ queue_select' = v
    /\ UNCHANGED <<device_feature_select, driver_feature_select, driver_features, status,
                   queue_size, queue_enabled, queue_addr, work>>

WriteQueueSize(size) ==
    /\ QueueUnlocked
    /\ size \in PowersOfTwo /\ size <= QueueMaxSize
    /\ queue_size' = size
    /\ UNCHANGED <<device_feature_select, driver_feature_select, driver_features, status,
                   queue_select, queue_enabled, queue_addr, work>>

EnableQueue ==
    /\ QueueSelected
    /\ AddressesNonZero
    /\ queue_enabled' = TRUE
    /\ UNCHANGED <<device_feature_select, driver_feature_select, driver_features, status,
                   queue_select, queue_size, queue_addr, work>>

\* Accepted in every device state, DRIVER_OK and a pending notification included.
DisableQueue ==
    /\ QueueSelected
    /\ queue_enabled' = FALSE
    /\ UNCHANGED <<device_feature_select, driver_feature_select, driver_features, status,
                   queue_select, queue_size, queue_addr, work>>

WriteQueueAddress(a, half, v) ==
    /\ QueueUnlocked
    /\ queue_addr' = [queue_addr EXCEPT ![a][half] = v]
    /\ UNCHANGED <<device_feature_select, driver_feature_select, driver_features, status,
                   queue_select, queue_size, queue_enabled, work>>

\* The notification register, written for queue 0.
Notify ==
    /\ QueueReady
    /\ notify_pending' = TRUE
    /\ UNCHANGED <<config, last_avail_idx, last_used_idx, isr_status>>

\* Reading the ISR register returns and clears it.
ReadIsr ==
    /\ isr_status' = 0
    /\ UNCHANGED <<config, notify_pending, last_avail_idx, last_used_idx>>

\* What a successful queue service assigns; the ring and the request are VirtioBlkQueue's.
CompleteQueue ==
    /\ QueueReady
    /\ notify_pending
    /\ last_avail_idx' = (last_avail_idx + 1) % IndexModulus
    /\ last_used_idx' = (last_used_idx + 1) % IndexModulus
    /\ notify_pending' = FALSE
    /\ isr_status' = 1
    /\ UNCHANGED config

RegistersNext ==
    \/ \E v \in FeatureSelects : WriteDeviceFeatureSelect(v)
    \/ \E v \in FeatureSelects : WriteDriverFeatureSelect(v)
    \/ \E word \in LowWords \cup HighWords : WriteDriverFeature(word)
    \/ Reset
    \/ \E requested \in StatusBytes : RefuseFeatures(requested)
    \/ \E requested \in StatusBytes : SetStatus(requested)
    \/ \E v \in QueueSelects : WriteQueueSelect(v)
    \/ \E size \in QueueSizes : WriteQueueSize(size)
    \/ EnableQueue
    \/ DisableQueue
    \/ \E a \in QueueAddresses, half \in {"lo", "hi"}, v \in HalfWords :
          WriteQueueAddress(a, half, v)
    \/ Notify
    \/ ReadIsr
    \/ CompleteQueue

RegistersSpec == RegistersInit /\ [][RegistersNext]_registerVars

-----------------------------------------------------------------------------
(* Checkpoint admission (pci/virtio_blk_checkpoint.rs and the quiescence     *)
(* predicates of pci/virtio_blk_write_readback.rs).                         *)

CheckpointFullyQuiescent == ~notify_pending /\ isr_status = 0

CheckpointCompletionPending ==
    /\ ~notify_pending
    /\ isr_status = 1
    /\ last_avail_idx # 0
    /\ last_avail_idx = last_used_idx

\* Wrong on purpose: the completion predicate's index test copied over.
CheckpointNotificationPendingNonZero ==
    notify_pending /\ isr_status = 0 /\ last_avail_idx # 0 /\ last_avail_idx = last_used_idx

CheckpointNotificationPending ==
    notify_pending /\ isr_status = 0 /\ last_avail_idx = last_used_idx

\* VirtioBlkCheckpointState::validate on the state that a capture copies.
CheckpointValid ==
    /\ driver_features \subseteq SupportedFeatures
    /\ status \subseteq VIRTIO_STATUS_KNOWN
    /\ "DRIVER" \in status => "ACKNOWLEDGE" \in status
    /\ "FEATURES_OK" \in status =>
          {"ACKNOWLEDGE", "DRIVER"} \subseteq status /\ "VERSION_1" \in driver_features
    /\ queue_size \in PowersOfTwo /\ queue_size <= QueueMaxSize
    /\ queue_enabled => AddressesNonZero
    /\ "DRIVER_OK" \in status =>
          "FEATURES_OK" \in status /\ queue_enabled /\ "VERSION_1" \in driver_features
    /\ isr_status \in {0, 1}

-----------------------------------------------------------------------------
(* Properties. *)

RegistersTypeOK ==
    /\ device_feature_select \in FeatureSelects
    /\ driver_feature_select \in FeatureSelects
    /\ driver_features \subseteq LowFeatures \cup HighFeatures
    /\ status \subseteq VIRTIO_STATUS_KNOWN
    /\ queue_select \in QueueSelects
    /\ queue_size \in PowersOfTwo /\ queue_size <= QueueMaxSize
    /\ queue_enabled \in BOOLEAN
    /\ queue_addr \in [QueueAddresses -> Address]
    /\ notify_pending \in BOOLEAN
    /\ last_avail_idx \in 0 .. IndexModulus - 1
    /\ last_used_idx \in 0 .. IndexModulus - 1
    /\ isr_status \in {0, 1}

\* Outstanding work of any kind (an unserved notification, an unread completion
\* interrupt, a non-zero ring position) exists only under a complete negotiation: the
\* notification register is the only way in and only a full reset takes the status bits
\* away again, together with all the work.  Disabling the queue does neither.
WorkNeedsNegotiation ==
    notify_pending \/ isr_status # 0 \/ last_avail_idx # 0 =>
        /\ {"ACKNOWLEDGE", "DRIVER", "FEATURES_OK", "DRIVER_OK"} \subseteq status
        /\ NegotiatedFeaturesValid

\* The device consumes and produces in lock step, so the two ring positions a checkpoint
\* token carries are always equal (VirtioBlkPendingCompletionToken::from_parts refuses
\* any other pair).
RingPositionsAgree == last_avail_idx = last_used_idx

\* An enabled queue has its three addresses: enabling checks them and an enabled queue
\* refuses address writes.
EnabledQueueHasAddresses == queue_enabled => AddressesNonZero

\* Which checkpoint entry points accept a live device whose queue is ready.  Quiet,
\* completion-pending and notification-pending devices are each captured by exactly one
\* of the three, and the captured state always passes validate().  Outside lie the
\* states with a new notification behind an unread interrupt, and the completion whose
\* 16-bit ring position has just wrapped to zero.
ReadyDeviceCapture ==
    QueueReady =>
        /\ CheckpointValid
        /\ \/ CheckpointFullyQuiescent
           \/ CheckpointCompletionPending
           \/ CheckpointNotificationPending
           \/ notify_pending /\ isr_status = 1
           \/ ~notify_pending /\ isr_status = 1 /\ last_avail_idx = 0
        /\ ~(CheckpointCompletionPending /\ CheckpointNotificationPending)

\* Once FEATURES_OK is granted the negotiated set is frozen until a reset, and status
\* bits are only ever taken back all together by that reset.
NegotiationIsStable ==
    [][ /\ status \subseteq status' \/ status' = {}
        /\ "FEATURES_OK" \in status /\ status' # {} => driver_features' = driver_features ]_registerVars

\* The geometry the device walks (ring addresses and size) never changes under an
\* enabled queue: a change needs the queue disabled in between.
EnabledGeometryIsStable ==
    [][ queue_enabled /\ queue_enabled' => UNCHANGED <<queue_addr, queue_size>> ]_registerVars
=============================================================================
