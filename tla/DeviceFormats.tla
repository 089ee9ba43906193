--------------------------- MODULE DeviceFormats ---------------------------
(***************************************************************************)
(* The versioned byte formats of virtio-blk devices, of host registrations *)
(* and of the transactions that carry both: the *_schema_v1.rs files of    *)
(* page_set/ and kvm/, and the states and tokens of                        *)
(* pci/virtio_blk_checkpoint.rs that they encode.                          *)
(*                                                                         *)
(* Words as in VcpuFormats.  A feature word has the two supported features *)
(* as its two lowest bits; a backing store is one word.                    *)
(***************************************************************************)
EXTENDS VcpuFormats

CONSTANTS BarSize,       \* VIRTIO_BLK_BAR_SIZE
          NotifyOffset,  \* 0x100, where the notify register lies in the BAR
          ByteValues     \* the values of one byte of a doorbell write

ASSUME DeviceLimitsAssumption == {NotifyOffset, ByteValues} \subseteq Nat /\ BarSize \in Nat \ {0}

SpecMagic == 201
PairMagic == 202
BlkMagic  == 203
TwoBlkMagic == 204
SmpBlkMagic == 205
TxMagic   == 206
TwoTxMagic == 207
SmpTxMagic == 208

-----------------------------------------------------------------------------
\* VirtioBlkCheckpointState.  A captured device also has a pending notify
\* flag and, for a file-backed device, external = TRUE.

Bit(n, w) == (w \div n) % 2 = 1
FEATURE_INDIRECT  == 1
FEATURE_VERSION_1 == 2
ACKNOWLEDGE == 1
DRIVER      == 2
DRIVER_OK   == 4
FEATURES_OK == 8
FAILED      == 128
QueueMaxSize == 8

ValidStatus(s) ==
  /\ s.status < 256 /\ ~Bit(16, s.status) /\ ~Bit(32, s.status) /\ ~Bit(64, s.status)
  /\ Bit(DRIVER, s.status) => Bit(ACKNOWLEDGE, s.status)
  /\ Bit(FEATURES_OK, s.status) =>
       Bit(ACKNOWLEDGE, s.status) /\ Bit(DRIVER, s.status) /\ Bit(FEATURE_VERSION_1, s.features)
ValidDevice(s) ==
  /\ s.bar0 % BarSize = 0
  /\ s.features < 4
  /\ ValidStatus(s)
  /\ s.qsize \in {1, 2, 4, QueueMaxSize}
  /\ s.enabled = 1 => s.desc # 0 /\ s.driver # 0 /\ s.device # 0
  /\ Bit(DRIVER_OK, s.status) =>
       Bit(FEATURES_OK, s.status) /\ s.enabled = 1 /\ Bit(FEATURE_VERSION_1, s.features)
  /\ s.isr \in {0, 1}

StateFields ==
  {"bar0", "dfsel", "gfsel", "features", "status", "enabled", "isr", "qsel", "qsize", "avail", "used",
   "desc", "driver", "device", "backing"}
CaptureSemantic(d) ==
  LET s == [f \in StateFields |-> d[f]] IN IF ~d.external /\ ValidDevice(s) THEN s ELSE Nothing
Capture(d) == IF ~d.external /\ ~d.notify /\ d.isr = 0 THEN CaptureSemantic(d) ELSE Nothing

\* A materialized device has no pending notification and is memory-backed.
MaterializeDevice(s) ==
  IF ValidDevice(s)
  THEN [f \in StateFields \cup {"notify", "external"} |-> IF f \in StateFields THEN s[f] ELSE FALSE]
  ELSE Nothing

SECTOR_SIZE == 512
CAPACITY    == 4
BACKING     == 2048
StateLen    == 20
EncodeDevice(s) ==
  IF ~ValidDevice(s) THEN <<>>
  ELSE <<s.bar0, s.dfsel, s.gfsel, s.features, s.status, s.enabled, s.isr, 0, s.qsel, s.qsize, s.avail,
         s.used, SECTOR_SIZE, CAPACITY, s.desc, s.driver, s.device, BACKING, 0, s.backing>>
DecodeDevice(w) ==
  LET s == [bar0 |-> w[1], dfsel |-> w[2], gfsel |-> w[3], features |-> w[4], status |-> w[5],
            enabled |-> w[6], isr |-> w[7], qsel |-> w[9], qsize |-> w[10], avail |-> w[11],
            used |-> w[12], desc |-> w[15], driver |-> w[16], device |-> w[17], backing |-> w[20]] IN
  IF /\ w[6] \in {0, 1} /\ w[8] = 0 /\ w[13] = SECTOR_SIZE /\ w[14] = CAPACITY /\ w[18] = BACKING
     /\ w[19] = 0 /\ ValidDevice(s)
  THEN s ELSE Nothing

-----------------------------------------------------------------------------
\* Tokens: what was pending on queue 0 of one device when it was captured,
\* a completion not yet acknowledged or a notification not yet served

TokenOf(s) == [bar0 |-> s.bar0, queue |-> 0, avail |-> s.avail, used |-> s.used]

CompletionParts(t) == t.queue = 0 /\ t.avail # 0 /\ t.avail = t.used
CompletionOnDevice(t, d) == t = TokenOf(d) /\ ~d.notify /\ d.isr = 1 /\ d.avail # 0 /\ d.avail = d.used
CompletionInState(t, s)  == t = TokenOf(s) /\ s.isr = 1
NotificationParts(t) == t.queue = 0 /\ t.avail = t.used
NotificationOnDevice(t, d) == t = TokenOf(d) /\ d.notify /\ d.isr = 0 /\ d.avail = d.used
NotificationInState(t, s)  == t = TokenOf(s) /\ s.isr = 0

CaptureCompletion(d, t) ==
  LET s == CaptureSemantic(d)  own == TokenOf(d) IN
  IF /\ CompletionParts(own) /\ CompletionOnDevice(own, d) /\ s # Nothing
     /\ own = t /\ CompletionInState(own, s)
  THEN s ELSE Nothing
CaptureNotification(d, t) ==
  LET s == CaptureSemantic(d)  own == TokenOf(d) IN
  IF /\ NotificationParts(own) /\ NotificationOnDevice(own, d) /\ s # Nothing
     /\ own = t /\ NotificationInState(own, s)
  THEN s ELSE Nothing

\* Wrong on purpose: the pending notification is not put back.
MaterializeUnnotified(s, t) ==
  LET d == MaterializeDevice(s) IN
  IF NotificationInState(t, s) /\ d # Nothing /\ NotificationOnDevice(t, d) THEN d ELSE Nothing

MaterializeNotified(s, t) ==
  LET d == [MaterializeDevice(s) EXCEPT !.notify = TRUE] IN
  IF NotificationInState(t, s) /\ MaterializeDevice(s) # Nothing /\ NotificationOnDevice(t, d) THEN d ELSE Nothing

EncodeToken(t) == <<t.bar0, t.queue, t.avail, t.used, 0>>
TokenLen == 5
TokenIn(w) == [bar0 |-> w[1], queue |-> w[2], avail |-> w[3], used |-> w[4]]
DecodeCompletion(w)   == IF w[5] = 0 /\ CompletionParts(TokenIn(w)) THEN TokenIn(w) ELSE Nothing
DecodeNotification(w) == IF w[5] = 0 /\ NotificationParts(TokenIn(w)) THEN TokenIn(w) ELSE Nothing

-----------------------------------------------------------------------------
\* Host registrations: MHVREG (one) and MHVREGP (two, by doorbell address)

\* HostRegistrationSpec::new
ValidSpec(r) ==
  /\ r.len \in {1, 2, 4, 8}
  /\ r.len < 8 => r.match < ByteValues ^ r.len
  /\ r.addr + r.len < AddressLimit

\* HostRegistrationSpecPair::new; the specs are already in address order.
ValidPair(p) == p[1].addr <= p[2].addr /\ p[1].addr + p[1].len <= p[2].addr /\ p[1].gsi # p[2].gsi

SpecLen == 10
EncodeSpec(r) == <<SpecMagic, 1, SpecLen, SpecLen, r.addr, r.len, r.gsi, r.match, 0, 0>>
DecodeSpec(w) ==
  LET r == [addr |-> w[5], len |-> w[6], gsi |-> w[7], match |-> w[8]] IN
  IF Len(w) = SpecLen /\ From(w, 1, 4) = <<SpecMagic, 1, SpecLen, SpecLen>> /\ From(w, 9, 2) = <<0, 0>> /\ ValidSpec(r)
  THEN r ELSE Nothing

PairHeader == <<PairMagic, 1, 9, 9 + 2 * SpecLen, 2, 0, 0, SpecLen, SpecLen>>
PairLen    == 9 + 2 * SpecLen
EncodePair(p) == PairHeader \o EncodeSpec(p[1]) \o EncodeSpec(p[2])
NoPair == <<>>
DecodePair(w) ==
  IF ~(Len(w) = PairLen /\ From(w, 1, 9) = PairHeader) THEN NoPair
  ELSE LET p == <<DecodeSpec(From(w, 10, SpecLen)), DecodeSpec(From(w, 10 + SpecLen, SpecLen))>> IN
       IF p[1] = Nothing \/ p[2] = Nothing THEN NoPair
       ELSE IF p[1].addr < p[2].addr /\ ValidPair(p) THEN p ELSE NoPair

-----------------------------------------------------------------------------
\* MHVFBLK: the full controller format and one device

FromBlk(c) ==
  LET f == FromFull(c.ctl)  s == Capture(c.dev) IN
  IF f # Nothing /\ s # Nothing /\ c.bar0 = c.dev.bar0 THEN [ctl |-> f, dev |-> s] ELSE Nothing
EncodeBlk(c) ==
  LET f == EncodeFull(c.ctl)  s == EncodeDevice(c.dev) IN
  IF f = <<>> \/ s = <<>> THEN <<>> ELSE Sealed(BlkMagic, 1, <<Len(f), StateLen, 0, 0>>, f \o s)
DecodeBlk(w) ==
  IF ~(Opens(w, BlkMagic, 1, 9) /\ w[8] = 0 /\ w[9] = 0 /\ w[6] # 0 /\ w[7] = StateLen
       /\ Len(w) = 9 + w[6] + StateLen) THEN Nothing
  ELSE LET f == DecodeFull(From(w, 10, w[6]))  s == DecodeDevice(From(w, 10 + w[6], StateLen)) IN
       IF f = Nothing \/ s = Nothing THEN Nothing ELSE [ctl |-> f, dev |-> s]
MaterializeBlk(c, host) ==
  LET f == MaterializeFull(c.ctl, host)  d == MaterializeDevice(c.dev) IN
  IF f = Nothing \/ d = Nothing THEN Nothing ELSE [ctl |-> f, bar0 |-> d.bar0, dev |-> d]

-----------------------------------------------------------------------------
\* MHV2BLK and MHV2V2B: two devices and the controllers around one vCPU or two

ValidBars(b) == b[1] < b[2] /\ b[1] % BarSize = 0 /\ b[2] % BarSize = 0
Bars(devs)   == <<devs[1].bar0, devs[2].bar0>>
Captured(ctl, devs) ==
  IF ctl = Nothing \/ (\E i \in 1..2 : devs[i] = Nothing) THEN Nothing ELSE [ctl |-> ctl, devs |-> devs]

SealTwo(magic, ctl, devs) ==
  LET s == EncodeDevice(devs[1])  t == EncodeDevice(devs[2]) IN
  IF ~ValidBars(Bars(devs)) \/ <<>> \in {ctl, s, t} THEN <<>>
  ELSE Sealed(magic, 1, <<Len(ctl), StateLen, 2, 0, 0>>, ctl \o s \o t)
OpensTwo(w, magic) ==
  /\ Opens(w, magic, 1, 10) /\ w[7] = StateLen /\ w[8] = 2 /\ w[9] = 0 /\ w[10] = 0 /\ w[6] # 0
  /\ Len(w) = 10 + w[6] + 2 * StateLen
DevicesIn(w) == [i \in 1..2 |-> DecodeDevice(From(w, 11 + w[6] + (i - 1) * StateLen, StateLen))]
OpenedTwo(ctl, devs) ==
  LET c == Captured(ctl, devs) IN
  IF c = Nothing THEN Nothing ELSE IF ValidBars(Bars(devs)) THEN c ELSE Nothing

FromTwoBlk(c) ==
  IF ValidBars(Bars(c.devs)) THEN Captured(FromFull(c.ctl), [i \in 1..2 |-> Capture(c.devs[i])]) ELSE Nothing
EncodeTwoBlk(c) == SealTwo(TwoBlkMagic, EncodeFull(c.ctl), c.devs)
DecodeTwoBlk(w) ==
  IF OpensTwo(w, TwoBlkMagic) THEN OpenedTwo(DecodeFull(From(w, 11, w[6])), DevicesIn(w)) ELSE Nothing
MaterializeTwoBlk(c, host) ==
  IF ValidBars(Bars(c.devs))
  THEN Captured(MaterializeFull(c.ctl, host), [i \in 1..2 |-> MaterializeDevice(c.devs[i])]) ELSE Nothing

FromSmpBlk(c) ==
  IF ValidBars(Bars(c.devs)) THEN Captured(FromSmp(c.ctl), [i \in 1..2 |-> Capture(c.devs[i])]) ELSE Nothing
Names(t, devs) == \E i \in 1..2 : t.bar0 = devs[i].bar0
FromSmpBlkCompletion(c, t) ==
  IF ValidBars(Bars(c.devs)) /\ Names(t, c.devs)
  THEN Captured(FromSmp(c.ctl), [i \in 1..2 |-> IF t.bar0 = c.devs[i].bar0 THEN CaptureCompletion(c.devs[i], t)
                                               ELSE Capture(c.devs[i])])
  ELSE Nothing
FromSmpBlkNotification(c, t) ==
  IF ValidBars(Bars(c.devs)) /\ Names(t, c.devs)
  THEN Captured(FromSmp(c.ctl), [i \in 1..2 |-> IF t.bar0 = c.devs[i].bar0 THEN CaptureNotification(c.devs[i], t)
                                               ELSE Capture(c.devs[i])])
  ELSE Nothing
CompletionValid(c, t)   == \E i \in 1..2 : CompletionInState(t, c.devs[i])
NotificationValid(c, t) == \E i \in 1..2 : NotificationInState(t, c.devs[i])
EncodeSmpBlk(c) == SealTwo(SmpBlkMagic, EncodeSmp(c.ctl), c.devs)
DecodeSmpBlk(w) ==
  IF OpensTwo(w, SmpBlkMagic) THEN OpenedTwo(DecodeSmp(From(w, 11, w[6])), DevicesIn(w)) ELSE Nothing
MaterializeSmpBlk(c, host) ==
  IF ValidBars(Bars(c.devs))
  THEN Captured(MaterializeSmp(c.ctl, host), [i \in 1..2 |-> MaterializeDevice(c.devs[i])]) ELSE Nothing
MaterializeSmpBlkNotified(c, host, t) ==
  IF ValidBars(Bars(c.devs)) /\ NotificationValid(c, t)
  THEN Captured(MaterializeSmp(c.ctl, host),
         [i \in 1..2 |-> IF t.bar0 = c.devs[i].bar0 THEN MaterializeNotified(c.devs[i], t)
                         ELSE MaterializeDevice(c.devs[i])])
  ELSE Nothing

-----------------------------------------------------------------------------
\* Captured devices and registrations, these as HostRegistrationSpec(Pair)::new
\* lets them through

Devices  == [bar0 : Nat, dfsel : Nat, gfsel : Nat, features : Nat, status : Nat, enabled : {0, 1}, isr : Nat,
             qsel : Nat, qsize : Nat, avail : Nat, used : Nat, desc : Nat, driver : Nat, device : Nat,
             backing : Nat, notify : BOOLEAN, external : BOOLEAN]
Specs    == {r \in [addr : Nat, len : Nat, gsi : Nat, match : Nat] : ValidSpec(r)}
Pairs    == {p \in Specs \X Specs : ValidPair(p)}
Tokens   == [bar0 : Nat, queue : Nat, avail : Nat, used : Nat]
Blks     == [ctl : Fulls, bar0 : Nat, dev : Devices]
TwoBlks  == [ctl : Fulls, devs : Devices \X Devices]
SmpBlks  == [ctl : Smps, devs : Devices \X Devices]

\* The semantic state of a captured device.
States == [bar0 : Nat, dfsel : Nat, gfsel : Nat, features : Nat, status : Nat, enabled : {0, 1}, isr : Nat,
           qsel : Nat, qsize : Nat, avail : Nat, used : Nat, desc : Nat, driver : Nat, device : Nat, backing : Nat]

\* Versioned checkpoints with devices, and what from_checkpoint and decode make
\* sure of, and materialize checks again.
BlkStates    == [ctl : Fulls, dev : States]
TwoBlkStates == [ctl : Fulls, devs : [1..2 -> States]]
SmpBlkStates == [ctl : OwnSmps, devs : [1..2 -> States]]

BlkSound(c) == FullSound(c.ctl) /\ ValidDevice(c.dev)
DevicesSound(d) ==
  ValidBars(Bars(d)) /\ d \in [1..2 -> States] /\ \A i \in 1..2 : ValidDevice(d[i])
TwoBlkSound(c) == FullSound(c.ctl) /\ DevicesSound(c.devs)
SmpBlkSound(c) == SmpSound(c.ctl) /\ DevicesSound(c.devs)
=============================================================================
