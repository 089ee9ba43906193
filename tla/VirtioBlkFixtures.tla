-------------------------- MODULE VirtioBlkFixtures --------------------------
(***************************************************************************)
(* The virtio-blk fixtures of portio/: a read served by polling, a read    *)
(* completed by an interrupt, and writes read back through direct and      *)
(* indirect descriptors, of one sector and of two.                         *)
(***************************************************************************)
EXTENDS VirtioFixtures

BlkElement(len, s) == [id |-> 0, len |-> len, sector |-> s]
Capacity4 == <<MmioRead(1, "cap"), Must(Capacity)>>

-----------------------------------------------------------------------------
\* virtio_blk_fixture.rs

Chain(len, flags) ==
  <<Desc("hdr", 16, {"NEXT"}, 1), Desc("data", len, flags, 2), Desc("status", 1, {"WRITE"}, 0)>>
BlkRingSetup ==
  <<Store("desc", Chain(SectorSize, {"NEXT", "WRITE"})), Store("hdr", Header("in", 0)),
    Store("status", "0xff"), Store("avail", Avail(1)), Store("used", EmptyUsed)>>
BlkChecks ==
  <<LoadIdx("used"), Must(1), LoadUsed("used", 0), Must(Element(513)), Load("status"), Must("OK"),
    Load("data"), Must(<<Sector0>>)>>
BlkGuest ==
  Discover(BlkRegisters) \o <<Out("P")>> \o Capacity4 \o Negotiate(4) \o <<Out("B")>> \o BlkRingSetup
    \o <<Notify, Out("N")>> \o BlkChecks \o ReadIsr(1) \o <<Out("R"), Hlt>>
BlkPorts    == Discovered(BlkRegisters) \o Debugs(<<"P", "B", "N", "R">>)
BlkAccesses == CapacityRead \o Negotiated(4) \o Notified \o IsrRead
BlkEnd ==
  <<Completed(<<BlkElement(513, 0)>>), DeviceIs(1, Ready),
    Memory([used |-> Used(1, <<Element(513)>>), data |-> <<Sector0>>, status |-> "OK"])>>

BlkServe == <<Budget(40), RunTo("N", {})>> \o ServeQueue(FALSE) \o <<RunTo("hlt", {"N"})>>
BlkMain ==
  <<Setup>> \o BlkServe \o <<NoEvent, PortsAre(BlkPorts), Accesses(BlkAccesses)>> \o BlkEnd
    \o <<Proof(BSP, <<"P", "B", "N", "R">>)>>
Blk ==
  WithoutIrqchip(VirtioFixture(<<>>, [bsp |-> BlkGuest, ud2 |-> <<Ud2>>], "blk", NewBlk, <<Zero>>, BlkMain))

-----------------------------------------------------------------------------
\* virtio_blk_completion_interrupt_fixture.rs

BlkIntxGuest ==
  IntxStart \o Discover(BlkRegisters) \o <<Out("P")>> \o Capacity4 \o Negotiate(4) \o <<Out("B")>>
    \o BlkRingSetup \o <<Notify, Out("N")>> \o BlkChecks \o ReadIsr(0) \o <<Out("R"), Out("D"), Hlt>>
BlkIntxPorts    == Discovered(BlkRegisters) \o Debugs(<<"P", "B", "N", "I", "A", "R", "D">>)
BlkIntxAccesses == CapacityRead \o Negotiated(4) \o Notified \o IsrRead \o IsrRead
BlkIntxMain ==
  <<Setup, Budget(43)>> \o IntxLoop(FALSE)
    \o <<NoEvent, Spent, PortsAre(BlkIntxPorts), Accesses(BlkIntxAccesses)>> \o BlkEnd
    \o <<Proof(BSP, <<"P", "B", "N", "I", "A", "R", "D">>), IfIs(BSP, TRUE)>>
BlkIntx ==
  VirtioFixture(FirstGate, [bsp |-> BlkIntxGuest, handler |-> IntxHandler, ud2 |-> <<Ud2>>],
    "blk", NewBlk, <<Zero>>, BlkIntxMain)

-----------------------------------------------------------------------------
\* virtio_blk_write_readback_fixture.rs: a write, then a read of the sector

\* emit_request_descriptors: the chain in the ring, or in a table the ring's
\* only descriptor points at.
RequestDescriptors(flags, indirect) ==
  IF indirect
  THEN <<Store("desc", <<Desc("table", 48, {"INDIRECT"}, 0)>>), Store("table", Chain(SectorSize, flags))>>
  ELSE <<Store("desc", Chain(SectorSize, flags))>>
RequestHeader(type)  == <<Store("hdr", Header(type, 0))>>
StatusSentinel == <<Store("status", "0xff")>>
ZeroUsedRing   == <<Store("used", EmptyUsed)>>
WriteSetup(indirect) ==
  RequestDescriptors({"NEXT"}, indirect) \o RequestHeader("out") \o StatusSentinel
    \o <<Store("avail", Avail(1))>> \o ZeroUsedRing
ReadbackSetup(indirect) ==
  RequestDescriptors({"NEXT", "WRITE"}, indirect) \o RequestHeader("in") \o StatusSentinel
    \o <<Store("data", <<"fill">>), Store("avail", Avail(2))>>
FirstChecks ==
  <<LoadIdx("used"), Must(1), LoadUsed("used", 0), Must(Element(1)), Load("status"), Must("OK")>>
SecondChecks ==
  <<LoadIdx("used"), Must(2), LoadUsed("used", 1), Must(Element(513)), Load("status"), Must("OK"),
    Load("data"), Must(<<"payload">>)>>

\* Topology: with indirect descriptors the low feature word is negotiated too.
WriteProof(indirect) == <<"P">> \o (IF indirect THEN <<"I">> ELSE <<>>) \o <<"B", "W", "O", "N", "R", "D">>
WriteBudget(indirect) == IF indirect THEN 49 ELSE 44
WriteReady(indirect) ==
  [gf |-> [w \in 0..1 |-> IF w = 1 THEN {"v1"} ELSE IF indirect THEN {"indirect"} ELSE {}]]
WriteGuest(indirect) ==
  Discover(BlkRegisters) \o <<Out("P")>> \o Capacity4
    \o <<MmioWrite(1, "status", {"ack"}), MmioWrite(1, "status", {"ack", "driver"})>>
    \o (IF indirect THEN WriteFeatures(0, {"indirect"}) ELSE <<>>) \o WriteFeatures(1, {"v1"})
    \o SetUpQueue(4) \o (IF indirect THEN <<Out("I")>> ELSE <<>>) \o <<Out("B")>>
    \o WriteSetup(indirect) \o <<Notify, Out("W")>> \o FirstChecks \o <<Out("O")>>
    \o ReadbackSetup(indirect) \o <<Notify, Out("N")>> \o SecondChecks \o ReadIsr(1)
    \o <<Out("R"), Out("D"), Hlt>>
WritePorts(indirect) == Discovered(BlkRegisters) \o Debugs(WriteProof(indirect))
WriteAccesses(indirect) ==
  CapacityRead \o Started \o (IF indirect THEN FeaturesWritten(0, {"indirect"}) ELSE <<>>)
    \o FeaturesWritten(1, {"v1"}) \o QueueSetUp(4) \o Notified \o Notified \o IsrRead
WriteServe(indirect) ==
  <<Budget(WriteBudget(indirect)), RunTo("W", {"N"})>> \o ServeQueue(TRUE) \o <<BackingIs(1, 0, <<"payload">>)>>
    \o <<RunTo("N", {"W"})>> \o ServeQueue(TRUE) \o <<RunTo("hlt", {"W", "N"})>>
WriteMain(indirect) ==
  <<Setup>> \o WriteServe(indirect)
    \o <<NoEvent, PortsAre(WritePorts(indirect)), Accesses(WriteAccesses(indirect)),
         DeviceIs(1, WriteReady(indirect)), BackingIs(1, 0, <<"payload">>),
         Memory([used |-> Used(2, <<Element(1), Element(513)>>), data |-> <<"payload">>, status |-> "OK"]),
         Completed(<<BlkElement(1, 0), BlkElement(513, 0)>>), Proof(BSP, WriteProof(indirect))>>
BlkWrite(indirect) ==
  WithoutIrqchip(VirtioFixture(<<>>, [bsp |-> WriteGuest(indirect), ud2 |-> <<Ud2>>],
    "blk", NewBlk, <<"payload">>, WriteMain(indirect)))
BlkDirect   == BlkWrite(FALSE)
BlkIndirect == BlkWrite(TRUE)

-----------------------------------------------------------------------------
\* virtio_blk_multi_sector_fixture.rs: sectors 1 and 2 in one request

MultiPayload == <<"payload1", "payload2">>
MultiDescriptors(flags) == <<Store("desc", Chain(2 * SectorSize, flags))>>
MultiHeader(type) == <<Store("hdr", Header(type, 1))>>
MultiWriteSetup ==
  MultiDescriptors({"NEXT"}) \o MultiHeader("out") \o StatusSentinel \o <<Store("avail", Avail(1))>>
    \o ZeroUsedRing
MultiReadbackSetup ==
  MultiDescriptors({"NEXT", "WRITE"}) \o MultiHeader("in") \o StatusSentinel
    \o <<Store("data", <<"fill", "fill">>), Store("avail", Avail(2))>>
MultiSecondChecks ==
  <<LoadIdx("used"), Must(2), LoadUsed("used", 1), Must(Element(1025)), Load("status"), Must("OK"),
    Load("data"), Must(MultiPayload)>>
MultiGuest ==
  Discover(BlkRegisters) \o <<Out("P")>> \o Capacity4 \o Negotiate(4) \o <<Out("B")>>
    \o MultiWriteSetup \o <<Notify, Out("W")>> \o FirstChecks \o <<Out("O")>>
    \o MultiReadbackSetup \o <<Notify, Out("N")>> \o MultiSecondChecks \o ReadIsr(1)
    \o <<Out("R"), Out("D"), Hlt>>
MultiPorts    == Discovered(BlkRegisters) \o Debugs(WriteProof(FALSE))
MultiAccesses == CapacityRead \o Negotiated(4) \o Notified \o Notified \o IsrRead
MultiServe ==
  <<Budget(44), RunTo("W", {"N"})>> \o ServeQueue(TRUE) \o <<BackingIs(1, 1, MultiPayload)>>
    \o <<RunTo("N", {"W"})>> \o ServeQueue(TRUE) \o <<RunTo("hlt", {"W", "N"})>>
MultiMain ==
  <<Setup>> \o MultiServe
    \o <<NoEvent, PortsAre(MultiPorts), Accesses(MultiAccesses),
         BackingIs(1, 0, <<Backing[1]>>), BackingIs(1, 1, MultiPayload), BackingIs(1, 3, <<Backing[4]>>),
         Memory([used |-> Used(2, <<Element(1), Element(1025)>>), data |-> MultiPayload, status |-> "OK"]),
         Completed(<<BlkElement(1, 1), BlkElement(1025, 1)>>), Proof(BSP, WriteProof(FALSE))>>
BlkMulti ==
  WithoutIrqchip(VirtioFixture(<<>>, [bsp |-> MultiGuest, ud2 |-> <<Ud2>>], "blk", NewBlk,
    MultiPayload, MultiMain))

VirtioSuite ==
  [pci |-> PciFixture, rng |-> Rng, rngIntx |-> RngIntx, rngMsi |-> RngMsi, blk |-> Blk,
   blkIntx |-> BlkIntx, blkWrite |-> BlkDirect, blkIndirect |-> BlkIndirect,
   blkMulti |-> BlkMulti]
=============================================================================
