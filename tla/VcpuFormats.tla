---------------------------- MODULE VcpuFormats ----------------------------
(***************************************************************************)
(* The versioned byte formats of a checkpoint's pages, vCPU state and      *)
(* interrupt controllers: page_set/schema_v1, full_controller_schema_v1.rs *)
(* and two_vcpu_checkpoint_schema_v1.rs.                                   *)
(*                                                                         *)
(* An encoding is a sequence of words, one word per field of the code's    *)
(* layout; lengths count words.  The words of a page, of a PIC, of the     *)
(* IOAPIC's registers and of a LAPIC, which the decoders never look into,  *)
(* are one word each.  An encoder that refuses yields the empty sequence,  *)
(* a decoder that refuses yields Nothing.                                  *)
(***************************************************************************)
EXTENDS Integers, Sequences, FiniteSets, Functions

CONSTANTS PageSize,      \* LONG_MODE_PAGE_SIZE
          AddressLimit,  \* 2^64
          PageLimit,     \* BOUNDED_CHECKPOINT_PAGE_SET_LIMIT
          MsrLimit       \* VERSIONED_PAGE_VCPU_CHECKPOINT_MSR_LIMIT

ASSUME VcpuLimitsAssumption == {AddressLimit, PageLimit, MsrLimit} \subseteq Nat /\ PageSize \in Nat \ {0}

Nothing == [none |-> TRUE]
ArchX86 == 1

\* The magic numbers, as distinct numbers.
PageMagic == 101
VcpuMagic == 102
FullMagic == 103
SmpMagic  == 104

-----------------------------------------------------------------------------
\* Envelopes: every format begins with magic, version, architecture, header
\* length and total length, and goes on with fields of its own.

Sealed(magic, version, fields, body) ==
  LET header == 5 + Len(fields) IN
  <<magic, version, ArchX86, header, header + Len(body)>> \o fields \o body

Opens(w, magic, version, header) ==
  Len(w) >= header /\ w[1] = magic /\ w[2] = version /\ w[3] = ArchX86 /\ w[4] = header /\ w[5] = Len(w)

From(w, first, n) == SubSeq(w, first, first + n - 1)

\* Records of n words each, one after the other.
Rows(n, rows) == [k \in 1..n * Len(rows) |-> rows[((k - 1) \div n) + 1][((k - 1) % n) + 1]]

-----------------------------------------------------------------------------
\* vCPU state: registers, special registers and MSRs

RegisterOrder ==
  <<"rax", "rbx", "rcx", "rdx", "rsi", "rdi", "rsp", "rbp", "r8", "r9", "r10", "r11", "r12", "r13",
    "r14", "r15", "rip", "rflags">>
SegmentOrder == <<"cs", "ds", "es", "fs", "gs", "ss", "tr", "ldt">>
ControlOrder == <<"cr0", "cr2", "cr3", "cr4", "cr8", "efer", "apic_base", "ib0", "ib1", "ib2", "ib3">>

Ascending(s) == \A i \in 1..Len(s) - 1 : s[i] < s[i + 1]
Named(order, w) == [n \in Range(order) |-> w[CHOOSE i \in DOMAIN order : order[i] = n]]
InOrder(order, f) == [i \in DOMAIN order |-> f[order[i]]]

EncodeRegisters(regs) == InOrder(RegisterOrder, regs)
DecodeRegisters(w)    == Named(RegisterOrder, w)

\* Base, limit and selector are free; the seven one-bit fields are one word.
EncodeSegment(s) == <<s.base, s.type, s.dpl, s.bit, 0>>

\* Wrong on purpose: the last byte of the record is skipped.
SegmentOkIgnoringReserved(w) == w[2] <= 15 /\ w[3] <= 3 /\ w[4] <= 1

SegmentOk(w)     == w[2] <= 15 /\ w[3] <= 3 /\ w[4] <= 1 /\ w[5] = 0
DecodeSegment(w) == [base |-> w[1], type |-> w[2], dpl |-> w[3], bit |-> w[4]]

EncodeTable(t) == <<t, 0>>
TableOk(w)     == w[2] = 0

EncodeSpecial(s) ==
  Rows(5, [i \in DOMAIN SegmentOrder |-> EncodeSegment(s.segs[SegmentOrder[i]])])
    \o EncodeTable(s.gdt) \o EncodeTable(s.idt) \o InOrder(ControlOrder, s.ctl)

SegmentWords(w, i) == From(w, 5 * i - 4, 5)
TableAt   == 5 * Len(SegmentOrder) + 1
ControlAt == TableAt + 4
SpecialLen == ControlAt - 1 + Len(ControlOrder)

SpecialOk(w) ==
  /\ \A i \in DOMAIN SegmentOrder : SegmentOk(SegmentWords(w, i))
  /\ TableOk(From(w, TableAt, 2)) /\ TableOk(From(w, TableAt + 2, 2))
DecodeSpecial(w) ==
  [segs |-> Named(SegmentOrder, [i \in DOMAIN SegmentOrder |-> DecodeSegment(SegmentWords(w, i))]),
   gdt |-> w[TableAt], idt |-> w[TableAt + 2], ctl |-> Named(ControlOrder, From(w, ControlAt, Len(ControlOrder)))]

\* A sequence of [index, value], in the order of the guest's policy when it
\* was captured and of the index when it is encoded.
Indices(msrs)  == [i \in DOMAIN msrs |-> msrs[i].index]
\* sort_unstable_by_key leaves the order of equal indices open; they are
\* refused right after, so they keep the captured order here.
SortsBefore(msrs, i) ==
  {j \in DOMAIN msrs : msrs[j].index < msrs[i].index \/ (msrs[j].index = msrs[i].index /\ j < i)}
SortedMsrs(msrs) ==
  [k \in DOMAIN msrs |-> msrs[CHOOSE i \in DOMAIN msrs : Cardinality(SortsBefore(msrs, i)) = k - 1]]
EncodeMsrs(msrs) == Rows(3, [i \in DOMAIN msrs |-> <<msrs[i].index, 0, msrs[i].value>>])
DecodeMsrs(w, n) == [i \in 1..n |-> [index |-> w[3 * i - 2], value |-> w[3 * i]]]
MsrsOk(w, n)     == (\A i \in 1..n : w[3 * i - 1] = 0) /\ Ascending(Indices(DecodeMsrs(w, n)))

VcpuLen(n) == Len(RegisterOrder) + SpecialLen + 3 * n
VcpuWords(v) == EncodeRegisters(v.regs) \o EncodeSpecial(v.sregs) \o EncodeMsrs(v.msrs)
VcpuOk(w, n) ==
  /\ SpecialOk(From(w, Len(RegisterOrder) + 1, SpecialLen))
  /\ MsrsOk(From(w, Len(RegisterOrder) + SpecialLen + 1, 3 * n), n)
VcpuOf(w, n) ==
  [regs |-> DecodeRegisters(w), sregs |-> DecodeSpecial(From(w, Len(RegisterOrder) + 1, SpecialLen)),
   msrs |-> DecodeMsrs(From(w, Len(RegisterOrder) + SpecialLen + 1, 3 * n), n)]

ValidMsrs(msrs) == Len(msrs) <= MsrLimit /\ Ascending(Indices(msrs))

\* GuestMsrAccessPolicy::from_host, GuestMsrValueSet::from_policy and
\* GuestMsrSnapshot::from_capture: every index must be one the host offers.
MsrsOffered(msrs, host) == Range(Indices(msrs)) \subseteq host

-----------------------------------------------------------------------------
\* MHVVCPU: the state of one vCPU

FromVcpu(v) ==
  LET msrs == SortedMsrs(v.msrs) IN
  IF ValidMsrs(msrs) THEN [v EXCEPT !.msrs = msrs] ELSE Nothing

EncodeVcpu(v) ==
  IF ~ValidMsrs(v.msrs) THEN <<>>
  ELSE Sealed(VcpuMagic, 1, <<Len(v.msrs), 0, 0>>, VcpuWords(v))

DecodeVcpu(w) ==
  IF /\ Opens(w, VcpuMagic, 1, 8) /\ w[6] <= MsrLimit /\ w[7] = 0 /\ w[8] = 0
     /\ Len(w) = 8 + VcpuLen(w[6])
     /\ VcpuOk(From(w, 9, VcpuLen(w[6])), w[6])
  THEN VcpuOf(From(w, 9, VcpuLen(w[6])), w[6])
  ELSE Nothing

MaterializeVcpu(v, host) ==
  IF Ascending(Indices(v.msrs)) /\ MsrsOffered(v.msrs, host) THEN v ELSE Nothing

-----------------------------------------------------------------------------
\* MHVCKPT: pages and the state of one vCPU

PageAddressOk(a) == a % PageSize = 0 /\ a + PageSize < AddressLimit
Addresses(pages) == [i \in DOMAIN pages |-> pages[i].addr]
ValidPages(pages) ==
  /\ Len(pages) \in 1..PageLimit
  /\ \A i \in DOMAIN pages : PageAddressOk(pages[i].addr)
  /\ Ascending(Addresses(pages))

\* Wrong on purpose: the captured order of the MSRs is kept.
FromPageUnsorted(c) ==
  LET v == IF ValidMsrs(c.vcpu.msrs) THEN c.vcpu ELSE Nothing IN
  IF ValidPages(c.pages) /\ v # Nothing THEN [c EXCEPT !.vcpu = v] ELSE Nothing

FromPage(c) ==
  LET v == FromVcpu(c.vcpu) IN
  IF ValidPages(c.pages) /\ v # Nothing THEN [c EXCEPT !.vcpu = v] ELSE Nothing

EncodePage(c) ==
  IF ~(ValidPages(c.pages) /\ ValidMsrs(c.vcpu.msrs)) THEN <<>>
  ELSE Sealed(PageMagic, 1, <<PageSize, Len(c.pages), Len(c.vcpu.msrs), 0, 0>>,
         Rows(2, [i \in DOMAIN c.pages |-> <<c.pages[i].addr, c.pages[i].bytes>>]) \o VcpuWords(c.vcpu))

PagesOf(w, n) == [i \in 1..n |-> [addr |-> w[2 * i - 1], bytes |-> w[2 * i]]]
DecodePage(w) ==
  IF /\ Opens(w, PageMagic, 1, 10)
     /\ w[6] = PageSize /\ w[7] \in 1..PageLimit /\ w[8] <= MsrLimit /\ w[9] = 0 /\ w[10] = 0
     /\ Len(w) = 10 + 2 * w[7] + VcpuLen(w[8])
     /\ ValidPages(PagesOf(From(w, 11, 2 * w[7]), w[7]))
     /\ VcpuOk(From(w, 11 + 2 * w[7], VcpuLen(w[8])), w[8])
  THEN [pages |-> PagesOf(From(w, 11, 2 * w[7]), w[7]),
        vcpu  |-> VcpuOf(From(w, 11 + 2 * w[7], VcpuLen(w[8])), w[8])]
  ELSE Nothing

MaterializePage(c, host) ==
  IF ValidPages(c.pages) /\ MaterializeVcpu(c.vcpu, host) # Nothing THEN c ELSE Nothing

-----------------------------------------------------------------------------
\* MHVFCTL: a page and vCPU checkpoint and the controllers around one vCPU.
\* The IOAPIC is its registers and the padding word, which must be zero.

FromFull(c) ==
  LET g == FromPage(c.guest) IN
  IF g # Nothing /\ c.ioapic.pad = 0 THEN [c EXCEPT !.guest = g] ELSE Nothing

EncodeFull(c) ==
  LET g == EncodePage(c.guest) IN
  IF g = <<>> \/ c.ioapic.pad # 0 THEN <<>>
  ELSE Sealed(FullMagic, 1, <<Len(g), 0, 0>>, g \o <<c.master, c.slave, c.ioapic.regs, c.ioapic.pad, c.lapic>>)

DecodeFull(w) ==
  IF ~(Opens(w, FullMagic, 1, 8) /\ w[7] = 0 /\ w[8] = 0 /\ w[6] # 0 /\ Len(w) = 8 + w[6] + 5) THEN Nothing
  ELSE LET g == DecodePage(From(w, 9, w[6]))
           s == From(w, 9 + w[6], 5) IN
       IF g = Nothing \/ s[4] # 0 THEN Nothing
       ELSE [guest |-> g, master |-> s[1], slave |-> s[2], ioapic |-> [regs |-> s[3], pad |-> s[4]],
             lapic |-> s[5]]

MaterializeFull(c, host) ==
  IF MaterializePage(c.guest, host) # Nothing /\ c.ioapic.pad = 0 THEN c ELSE Nothing

-----------------------------------------------------------------------------
\* MHV2FC: two vCPUs, their run states and the controllers around them

X86MpStateMax == 4
ValidVcpuIds(ids)   == ids[1] < ids[2]
ValidMpStates(mps)  == \A i \in 1..2 : mps[i] <= X86MpStateMax
\* owners: the vCPUs that the captured LAPICs and run states belong to.
ValidSmp(c) == ValidVcpuIds(c.ids) /\ ValidMpStates(c.mps) /\ c.ioapic.pad = 0

FromSmp(c) ==
  LET p == FromPage(c.primary)  v == FromVcpu(c.secondary) IN
  IF ValidSmp(c) /\ c.owners = <<c.ids, c.ids>> /\ p # Nothing /\ v # Nothing
  THEN [c EXCEPT !.primary = p, !.secondary = v]
  ELSE Nothing

EncodeSmp(c) ==
  LET p == EncodePage(c.primary)  v == EncodeVcpu(c.secondary) IN
  IF ~ValidSmp(c) \/ p = <<>> \/ v = <<>> THEN <<>>
  ELSE Sealed(SmpMagic, 1, <<Len(p), Len(v), c.ids[1], c.ids[2], c.mps[1], c.mps[2], 0, 0>>,
         p \o v \o <<c.master, c.slave, c.ioapic.regs, c.ioapic.pad, c.lapics[1], c.lapics[2]>>)

DecodeSmp(w) ==
  IF ~(/\ Opens(w, SmpMagic, 1, 13)
       /\ ValidVcpuIds(<<w[8], w[9]>>) /\ ValidMpStates(<<w[10], w[11]>>) /\ w[12] = 0 /\ w[13] = 0
       /\ w[6] # 0 /\ w[7] # 0 /\ Len(w) = 13 + w[6] + w[7] + 6)
  THEN Nothing
  ELSE LET p == DecodePage(From(w, 14, w[6]))
           v == DecodeVcpu(From(w, 14 + w[6], w[7]))
           s == From(w, 14 + w[6] + w[7], 6) IN
       IF p = Nothing \/ v = Nothing \/ s[4] # 0 THEN Nothing
       ELSE [primary |-> p, secondary |-> v, ids |-> <<w[8], w[9]>>,
             owners |-> <<<<w[8], w[9]>>, <<w[8], w[9]>>>>, mps |-> <<w[10], w[11]>>,
             master |-> s[1], slave |-> s[2], ioapic |-> [regs |-> s[3], pad |-> s[4]],
             lapics |-> <<s[5], s[6]>>]

MaterializeSmp(c, host) ==
  IF ValidSmp(c) /\ MaterializePage(c.primary, host) # Nothing /\ MaterializeVcpu(c.secondary, host) # Nothing
  THEN c ELSE Nothing

-----------------------------------------------------------------------------
\* Captured state: the fields KVM can hand over

Segments == [base : Nat, type : 0..15, dpl : 0..3, bit : 0..1]
Specials ==
  [segs : [Range(SegmentOrder) -> Segments], gdt : Nat, idt : Nat, ctl : [Range(ControlOrder) -> Nat]]
Vcpus    == [regs : [Range(RegisterOrder) -> Nat], sregs : Specials, msrs : Seq([index : Nat, value : Nat])]
PageSets == [pages : Seq([addr : Nat, bytes : Nat]), vcpu : Vcpus]
Ioapics  == [regs : Nat, pad : Nat]
Fulls    == [guest : PageSets, master : Nat, slave : Nat, ioapic : Ioapics, lapic : Nat]
TwoNats  == Nat \X Nat
Smps     == [primary : PageSets, secondary : Vcpus, ids : TwoNats, owners : TwoNats \X TwoNats, mps : TwoNats,
             master : Nat, slave : Nat, ioapic : Ioapics, lapics : TwoNats]

\* Versioned checkpoints of two vCPUs, with the LAPICs and run states of the two.
OwnSmps  == {c \in Smps : c.owners = <<c.ids, c.ids>>}

\* What from_checkpoint and decode make sure of, and materialize checks again.
VcpuSound(v) == v # Nothing /\ ValidMsrs(v.msrs)
PageSound(c) == c # Nothing /\ ValidPages(c.pages) /\ VcpuSound(c.vcpu)
FullSound(c) == c # Nothing /\ PageSound(c.guest) /\ c.ioapic.pad = 0
SmpSound(c) == c # Nothing /\ ValidSmp(c) /\ PageSound(c.primary) /\ VcpuSound(c.secondary)
=============================================================================
