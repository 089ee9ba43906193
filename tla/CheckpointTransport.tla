------------------------ MODULE CheckpointTransport ------------------------
(***************************************************************************)
(* A checkpoint on its way through its versioned format: captured, stored  *)
(* as words, possibly damaged while it is stored, read back, and           *)
(* materialized on a host that offers some set of MSRs.                    *)
(*                                                                         *)
(* A captured checkpoint is stored with from_checkpoint and encode, read   *)
(* with decode, and rebuilt with materialize; each may refuse it.  The     *)
(* code stores no checksum: what decode itself checks is all that stands   *)
(* between a damaged image and the machine it is restored into.            *)
(***************************************************************************)
EXTENDS TransactionFormats

CONSTANTS Restorable,    \* per format, captured checkpoints that the formats promise to carry
          Unrestorable,  \* per format, captured checkpoints that they must not carry
          MaxFaults,     \* per format, the number of words damaged in an image
          Hosts          \* the sets of MSR indices a host may offer

VARIABLES format, image, words, faults, decoded, host, result, stage

vars == <<format, image, words, faults, decoded, host, result, stage>>

-----------------------------------------------------------------------------
\* The operations of a format

Versioned(f, x) ==
  CASE f = "vcpu"   -> FromVcpu(x)
    [] f = "page"   -> FromPage(x)
    [] f = "full"   -> FromFull(x)
    [] f = "smp"    -> FromSmp(x)
    [] f = "blk"    -> FromBlk(x)
    [] f = "twoBlk" -> FromTwoBlk(x)
    [] f = "smpBlk" -> FromSmpBlk(x)
    [] f = "pair"   -> x
    [] f = "tx"     -> FromTx(x.cp, x.regs[1])
    [] f = "twoTx"  -> FromTwoTx(x.cp, x.regs)
    [] f = "smpTx"  -> FromSmpTx(x.cp, x.regs)
    [] f = "smpTx2" -> FromCompletionTx(x.cp, x.regs, x.token)
    [] f = "smpTx3" -> FromNotificationTx(x.cp, x.regs, x.token)
Encode(f, x) ==
  CASE f = "vcpu"   -> EncodeVcpu(x)
    [] f = "page"   -> EncodePage(x)
    [] f = "full"   -> EncodeFull(x)
    [] f = "smp"    -> EncodeSmp(x)
    [] f = "blk"    -> EncodeBlk(x)
    [] f = "twoBlk" -> EncodeTwoBlk(x)
    [] f = "smpBlk" -> EncodeSmpBlk(x)
    [] f = "pair"   -> EncodePair(x.regs)
    [] f = "tx"     -> EncodeTx(x)
    [] f = "twoTx"  -> EncodeTwoTx(x)
    [] f = "smpTx"  -> EncodeSmpTx(x)
    [] f = "smpTx2" -> EncodeCompletionTx(x)
    [] f = "smpTx3" -> EncodeNotificationTx(x)
Decode(f, w) ==
  CASE f = "vcpu"   -> DecodeVcpu(w)
    [] f = "page"   -> DecodePage(w)
    [] f = "full"   -> DecodeFull(w)
    [] f = "smp"    -> DecodeSmp(w)
    [] f = "blk"    -> DecodeBlk(w)
    [] f = "twoBlk" -> DecodeTwoBlk(w)
    [] f = "smpBlk" -> DecodeSmpBlk(w)
    [] f = "pair"   -> LET p == DecodePair(w) IN IF p = NoPair THEN Nothing ELSE [regs |-> p]
    [] f = "tx"     -> DecodeTx(w)
    [] f = "twoTx"  -> DecodeTwoTx(w)
    [] f = "smpTx"  -> DecodeSmpTx(w)
    [] f = "smpTx2" -> DecodeCompletionTx(w)
    [] f = "smpTx3" -> DecodeNotificationTx(w)
Materialize(f, x, h) ==
  CASE f = "vcpu"   -> MaterializeVcpu(x, h)
    [] f = "page"   -> MaterializePage(x, h)
    [] f = "full"   -> MaterializeFull(x, h)
    [] f = "smp"    -> MaterializeSmp(x, h)
    [] f = "blk"    -> MaterializeBlk(x, h)
    [] f = "twoBlk" -> MaterializeTwoBlk(x, h)
    [] f = "smpBlk" -> MaterializeSmpBlk(x, h)
    [] f = "pair"   -> IF ValidPair(x.regs) THEN x ELSE Nothing
    [] f = "tx"     -> MaterializeTx(x, h)
    [] f = "twoTx"  -> MaterializeTwoTx(x, h)
    [] f = "smpTx"  -> MaterializeSmpTx(x, h)
    [] f = "smpTx2" -> MaterializeCompletionTx(x, h)
    [] f = "smpTx3" -> MaterializeNotificationTx(x, h)

-----------------------------------------------------------------------------
\* Captured checkpoints

Captures(f) ==
  CASE f = "vcpu"   -> Vcpus
    [] f = "page"   -> PageSets
    [] f = "full"   -> Fulls
    [] f = "smp"    -> Smps
    [] f = "blk"    -> Blks
    [] f = "twoBlk" -> TwoBlks
    [] f = "smpBlk" -> SmpBlks
    [] f = "pair"   -> [regs : Pairs]
    [] f = "tx"     -> [cp : Blks, regs : [1..1 -> Specs]]
    [] f = "twoTx"  -> [cp : TwoBlks, regs : Pairs]
    [] f = "smpTx"  -> [cp : SmpBlks, regs : Pairs]
    [] f \in {"smpTx2", "smpTx3"} -> [cp : SmpBlks, regs : Pairs, token : Tokens]

\* What the formats promise to carry: no MSR twice and not too many, pages
\* in place and in order, no padding in use, the LAPICs and run states of
\* the vCPUs themselves, memory-backed devices with nothing pending but
\* what the token says, and doorbells that are the devices' own.

VcpuCarried(v) ==
  Len(v.msrs) <= MsrLimit /\ \A i, j \in DOMAIN v.msrs : v.msrs[i].index = v.msrs[j].index => i = j
PageCarried(c) == ValidPages(c.pages) /\ VcpuCarried(c.vcpu)
FullCarried(c) == PageCarried(c.guest) /\ c.ioapic.pad = 0
SmpCarried(c)  ==
  PageCarried(c.primary) /\ VcpuCarried(c.secondary) /\ ValidSmp(c) /\ c.owners = <<c.ids, c.ids>>

DeviceCarried(d) == ~d.external /\ ValidDevice(d)
Idle(d) == DeviceCarried(d) /\ ~d.notify /\ d.isr = 0
CompletionPending(d, t)   == DeviceCarried(d) /\ CompletionParts(t) /\ CompletionOnDevice(t, d)
NotificationPending(d, t) == DeviceCarried(d) /\ NotificationParts(t) /\ NotificationOnDevice(t, d)

BlkCarried(c)    == FullCarried(c.ctl) /\ c.bar0 = c.dev.bar0 /\ Idle(c.dev)
TwoBlkCarried(c) == FullCarried(c.ctl) /\ ValidBars(Bars(c.devs)) /\ \A i \in 1..2 : Idle(c.devs[i])
SmpBlkCarried(c) == SmpCarried(c.ctl) /\ ValidBars(Bars(c.devs)) /\ \A i \in 1..2 : Idle(c.devs[i])
SmpBlkPending(c, t, Pending(_, _)) ==
  /\ SmpCarried(c.ctl) /\ ValidBars(Bars(c.devs))
  /\ \E i \in 1..2 : Pending(c.devs[i], t) /\ Idle(c.devs[3 - i])

Carried(f, x) ==
  CASE f = "vcpu"   -> VcpuCarried(x)
    [] f = "page"   -> PageCarried(x)
    [] f = "full"   -> FullCarried(x)
    [] f = "smp"    -> SmpCarried(x)
    [] f = "blk"    -> BlkCarried(x)
    [] f = "twoBlk" -> TwoBlkCarried(x)
    [] f = "smpBlk" -> SmpBlkCarried(x)
    [] f = "pair"   -> TRUE
    [] f = "tx"     -> BlkCarried(x.cp)
    [] f = "twoTx"  -> TwoBlkCarried(x.cp)
    [] f = "smpTx"  -> SmpBlkCarried(x.cp) /\ Bound(x.cp.devs, x.regs)
    [] f = "smpTx2" -> SmpBlkPending(x.cp, x.token, CompletionPending) /\ Bound(x.cp.devs, x.regs)
    [] f = "smpTx3" -> SmpBlkPending(x.cp, x.token, NotificationPending) /\ Bound(x.cp.devs, x.regs)

\* Versioned checkpoints, and what from_checkpoint and decode make sure of.

Versions(f) ==
  CASE f = "vcpu"   -> Vcpus
    [] f = "page"   -> PageSets
    [] f = "full"   -> Fulls
    [] f = "smp"    -> OwnSmps
    [] f = "blk"    -> BlkStates
    [] f = "twoBlk" -> TwoBlkStates
    [] f = "smpBlk" -> SmpBlkStates
    [] f = "pair"   -> [regs : Pairs]
    [] f = "tx"     -> [cp : BlkStates, regs : [1..1 -> Specs]]
    [] f = "twoTx"  -> [cp : TwoBlkStates, regs : Pairs]
    [] f = "smpTx"  -> [cp : SmpBlkStates, regs : Pairs]
    [] f \in {"smpTx2", "smpTx3"} -> [cp : SmpBlkStates, regs : Pairs, token : Tokens]

CompletionSound(x)   == CompletionParts(x.token) /\ CompletionValid(x.cp, x.token)
NotificationSound(x) == NotificationParts(x.token) /\ NotificationValid(x.cp, x.token)
Sound(f, x) ==
  CASE f = "vcpu"   -> VcpuSound(x)
    [] f = "page"   -> PageSound(x)
    [] f = "full"   -> FullSound(x)
    [] f = "smp"    -> SmpSound(x)
    [] f = "blk"    -> BlkSound(x)
    [] f = "twoBlk" -> TwoBlkSound(x)
    [] f = "smpBlk" -> SmpBlkSound(x)
    [] f = "pair"   -> ValidPair(x.regs)
    [] f = "tx"     -> BlkSound(x.cp)
    [] f = "twoTx"  -> TwoBlkSound(x.cp) /\ ValidPair(x.regs)
    [] f = "smpTx"  -> SmpBlkSound(x.cp) /\ ValidTx(x)
    [] f = "smpTx2" -> SmpBlkSound(x.cp) /\ ValidTx(x) /\ IsTokenTx(x) /\ CompletionSound(x)
    [] f = "smpTx3" -> SmpBlkSound(x.cp) /\ ValidTx(x) /\ IsTokenTx(x) /\ NotificationSound(x)

Formats == {"vcpu", "page", "full", "smp", "blk", "twoBlk", "smpBlk", "pair", "tx", "twoTx", "smpTx", "smpTx2", "smpTx3"}

ASSUME ImagesAssumption ==
  /\ DOMAIN Restorable \subseteq Formats
  /\ DOMAIN Unrestorable = DOMAIN Restorable /\ DOMAIN MaxFaults = DOMAIN Restorable
  /\ \A f \in DOMAIN Restorable :
       /\ \A x \in Restorable[f] : x \in Captures(f) /\ Carried(f, x)
       /\ \A x \in Unrestorable[f] : x \in Captures(f) /\ ~Carried(f, x)

-----------------------------------------------------------------------------
\* What can happen to a stored image: a word changes, is lost or is repeated.

WithWord(w, i, v) == [w EXCEPT ![i] = v]
WithoutWord(w, i) == SubSeq(w, 1, i - 1) \o SubSeq(w, i + 1, Len(w))
WithTwice(w, i)   == SubSeq(w, 1, i) \o SubSeq(w, i, Len(w))
Damaged(w) ==
  UNION {{WithWord(w, i, v) : v \in ({0, w[i] + 1, w[i] - 1} \cap Nat) \ {w[i]}}
           \cup {WithoutWord(w, i), WithTwice(w, i)} : i \in DOMAIN w}

Init ==
  /\ format \in DOMAIN Restorable
  /\ image \in Restorable[format] \cup Unrestorable[format]
  /\ words = <<>> /\ faults = 0 /\ decoded = Nothing /\ host = {} /\ result = Nothing
  /\ stage = "captured"

Store ==
  /\ stage = "captured"
  /\ LET v == Versioned(format, image)  w == IF v = Nothing THEN <<>> ELSE Encode(format, v) IN
     words' = w /\ stage' = IF w = <<>> THEN "unstored" ELSE "stored"
  /\ UNCHANGED <<format, image, faults, decoded, host, result>>

Damage ==
  /\ stage = "stored" /\ faults < MaxFaults[format]
  /\ words' \in Damaged(words)
  /\ faults' = faults + 1
  /\ UNCHANGED <<format, image, decoded, host, result, stage>>

Load ==
  /\ stage = "stored"
  /\ decoded' = Decode(format, words)
  /\ stage' = IF decoded' = Nothing THEN "rejected" ELSE "loaded"
  /\ UNCHANGED <<format, image, words, faults, host, result>>

Rebuild ==
  /\ stage = "loaded"
  /\ host' \in Hosts
  /\ result' = Materialize(format, decoded, host')
  /\ stage' = IF result' = Nothing THEN "unsupported" ELSE "done"
  /\ UNCHANGED <<format, image, words, faults, decoded>>

Next == Store \/ Damage \/ Load \/ Rebuild
Spec == Init /\ [][Next]_vars

-----------------------------------------------------------------------------
\* Contents, with MSRs as a set of index and value

MsrSet(msrs) == {<<r.index, r.value>> : r \in Range(msrs)}
VcpuContents(v) == [v EXCEPT !.msrs = MsrSet(@)]
PageContents(c) == [c EXCEPT !.vcpu = VcpuContents(@)]
FullContents(c) == [c EXCEPT !.guest = PageContents(@)]
SmpContents(c)  == [c EXCEPT !.primary = PageContents(@), !.secondary = VcpuContents(@)]
Contents(f, x) ==
  CASE f = "vcpu" -> VcpuContents(x)
    [] f = "page" -> PageContents(x)
    [] f = "full" -> FullContents(x)
    [] f = "smp"  -> SmpContents(x)
    [] f \in {"blk", "twoBlk"}  -> [x EXCEPT !.ctl = FullContents(@)]
    [] f = "smpBlk"             -> [x EXCEPT !.ctl = SmpContents(@)]
    [] f \in {"tx", "twoTx"}    -> [x EXCEPT !.cp.ctl = FullContents(@)]
    [] f \in {"smpTx", "smpTx2", "smpTx3"} -> [x EXCEPT !.cp.ctl = SmpContents(@)]
    [] f = "pair" -> x

MsrsNeeded(f, x) ==
  LET vcpus == CASE f = "vcpu" -> {x}
                 [] f = "page" -> {x.vcpu}
                 [] f = "full" -> {x.guest.vcpu}
                 [] f = "smp"  -> {x.primary.vcpu, x.secondary}
                 [] f \in {"blk", "twoBlk"}  -> {x.ctl.guest.vcpu}
                 [] f = "smpBlk"             -> {x.ctl.primary.vcpu, x.ctl.secondary}
                 [] f \in {"tx", "twoTx"}    -> {x.cp.ctl.guest.vcpu}
                 [] f \in {"smpTx", "smpTx2", "smpTx3"} -> {x.cp.ctl.primary.vcpu, x.cp.ctl.secondary}
                 [] f = "pair" -> {}
  IN UNION {Range(Indices(v.msrs)) : v \in vcpus}

-----------------------------------------------------------------------------
\* A checkpoint that the formats promise to carry is stored whatever the
\* order its MSRs were captured in, is read back, and is rebuilt with the
\* contents it was captured with, pending work included; one with state that
\* they cannot carry is never stored (from_checkpoint, encode, decode and
\* materialize of every format).
StoredReturnsWhole ==
  /\ stage = "unstored" => image \in Unrestorable[format]
  /\ stage = "stored" => image \in Restorable[format]
  /\ faults = 0 => stage # "rejected"
  /\ faults = 0 /\ stage = "done" => Contents(format, result) = Contents(format, image)

\* Whatever happened to a stored image, if decode accepts it then encoding it
\* again gives the very same words: no word of an image is ignored, and encode
\* finds nothing wrong with what decode let through (decode of every format;
\* the code's guests compare the two encodings).
AcceptedIsCanonical ==
  stage \in {"loaded", "unsupported", "done"} => Encode(format, decoded) = words

\* An accepted image is refused later only because the host does not offer
\* one of its MSRs: what materialize checks again, bindings and tokens
\* included, decode has already made sure of (materialize of every format).
RefusedOnlyForMsrs ==
  stage = "unsupported" => ~(MsrsNeeded(format, decoded) \subseteq host)

\* What is stored is what encode made of the image, but for the damage; what
\* was read is what decode makes of it; and what was rebuilt is what
\* materialize makes of that: the three above follow from it.
Inv ==
  /\ format \in DOMAIN Restorable /\ image \in Restorable[format] \cup Unrestorable[format] /\ faults \in Nat
  /\ stage = "captured" => faults = 0
  /\ stage = "unstored" => image \in Unrestorable[format]
  /\ stage \in {"stored", "rejected", "loaded", "unsupported", "done"} =>
       /\ image \in Restorable[format] /\ words \in Seq(Nat)
       /\ faults = 0 => words = Encode(format, Versioned(format, image))
  /\ stage \in {"rejected", "loaded", "unsupported", "done"} =>
       decoded = Decode(format, words) /\ (stage = "rejected" <=> decoded = Nothing)
  /\ stage \in {"unsupported", "done"} =>
       result = Materialize(format, decoded, host) /\ (stage = "unsupported" <=> result = Nothing)
=============================================================================
