--------------------------- MODULE VirtioFixtures ---------------------------
(***************************************************************************)
(* The fixtures of portio/ that find a device in PCI configuration space,  *)
(* negotiate with it and exchange a request: pci_fixture.rs and the        *)
(* virtio_rng_* and virtio_blk_* fixtures.                                 *)
(***************************************************************************)
EXTENDS DeviceFixtures, VirtioDevice

-----------------------------------------------------------------------------
\* Discovery

\* emit_pci_read and emit_cmp_eax for each register, and the port exits the
\* host must have seen for it (validate_io_sequence).
Discover(regs) ==
  [i \in 1..3 * Len(regs) |->
     LET r == regs[(i + 2) \div 3] IN <<PortIo(Select(r[1])), PortIo(InData), Must(r[2])>>[1 + ((i - 1) % 3)]]
Discovered(regs) ==
  [i \in 1..2 * Len(regs) |-> IF i % 2 = 1 THEN Select(regs[(i + 1) \div 2][1]) ELSE InData]
Debugs(bytes)    == [i \in 1..Len(bytes) |-> Debug(bytes[i])]

Caps(last) == <<<<"0x34", "0x40">>, <<"0x40", "common>0x50">>, <<"0x50", "notify>0x64">>, <<"0x64", last>>>>
RngRegisters == <<<<"0x00", "rng">>>> \o Caps("isr>end") \o <<<<"0x10", "bar">>>>
MsiRegisters == <<<<"0x00", "rng">>>> \o Caps("isr>0x74") \o <<<<"0x74", "msi">>, <<"0x10", "bar">>>>
BlkRegisters == <<<<"0x00", "blk">>>> \o Caps("isr>0x74") \o <<<<"0x74", "device>end">>, <<"0x10", "bar">>>>

PciGuest ==
  PciRead("0x00") \o <<JumpUnless("synthetic", "fail"), Out("P")>>
    \o PciRead("0x08") \o <<JumpUnless("class", "fail"), Out("C")>>
    \o PciRead("0x10") \o <<JumpUnless("bar", "fail"), Out("B"), MmioWrite(1, 0, "W"), Out("M"), Hlt>>
PciPorts ==
  <<Select("0x00"), InData, Debug("P"), Select("0x08"), InData, Debug("C"),
    Select("0x10"), InData, Debug("B"), Debug("M")>>
PciAccesses == <<<<1, Write(0, "W")>>>>
PciMain ==
  <<Setup, Budget(12), UntilHlt(BSP), PortsAre(PciPorts), Accesses(PciAccesses), Wrote(1, <<"W">>),
    Proof(BSP, <<"P", "C", "B", "M">>)>>
PciFixture ==
  WithPci(WithoutIrqchip(Alone(<<>>, [bsp |-> PciGuest, fail |-> <<Out("F"), Hlt>>],
    <<NewDevice("plain", "R")>>, PciMain)), NewSynthetic)

-----------------------------------------------------------------------------
\* Negotiation: the driver's side, and the accesses the host must have seen

WriteFeatures(w, f) ==
  <<MmioWrite(1, "dfsel", w), MmioRead(1, "df"), Must(f), MmioWrite(1, "gfsel", w), MmioWrite(1, "gf", f)>>
SetUpQueue(size) ==
  <<MmioWrite(1, "status", {"ack", "driver", "features"}), MmioWrite(1, "qsel", 0),
    MmioWrite(1, "qsize", size),
    MmioWrite(1, "descLo", "desc"), MmioWrite(1, "descHi", Unset),
    MmioWrite(1, "availLo", "avail"), MmioWrite(1, "availHi", Unset),
    MmioWrite(1, "usedLo", "used"), MmioWrite(1, "usedHi", Unset),
    MmioWrite(1, "qon", 1), MmioWrite(1, "status", Known), MmioRead(1, "status"), Must(Known)>>
Negotiate(size) ==
  <<MmioWrite(1, "status", {"ack"}), MmioWrite(1, "status", {"ack", "driver"})>>
    \o WriteFeatures(1, {"v1"}) \o SetUpQueue(size)
Notify == MmioWrite(1, "notify", 0)
ReadIsr(v) == <<MmioRead(1, "isr"), Must(v)>>

On1(accesses) == [i \in 1..Len(accesses) |-> <<1, accesses[i]>>]
Started == On1(<<Write("status", {"ack"}), Write("status", {"ack", "driver"})>>)
FeaturesWritten(w, f) == On1(<<Write("dfsel", w), Read("df", ""), Write("gfsel", w), Write("gf", f)>>)
QueueSetUp(size) ==
  On1(<<Write("status", {"ack", "driver", "features"}), Write("qsel", 0), Write("qsize", size),
        Write("descLo", "desc"), Write("descHi", Unset), Write("availLo", "avail"),
        Write("availHi", Unset), Write("usedLo", "used"), Write("usedHi", Unset),
        Write("qon", 1), Write("status", Known), Read("status", "")>>)
Negotiated(size) == Started \o FeaturesWritten(1, {"v1"}) \o QueueSetUp(size)
Notified   == On1(<<Write("notify", 0)>>)
CapacityRead == On1(<<Read("cap", "")>>)
IsrRead    == On1(<<Read("isr", "")>>)

Ready == [status |-> Known, gf |-> [w \in 0..1 |-> IF w = 1 THEN {"v1"} ELSE {}], qon |-> TRUE]

\* A single used element, as the driver finds it.
Used(n, elements) ==
  [idx |-> n, ring |-> [s \in 0..QueueMaxSize - 1 |-> IF s < n THEN elements[s + 1] ELSE NoElement]]
Element(len) == [id |-> 0, len |-> len]

VirtioMemory(data) ==
  [desc |-> <<>>, avail |-> Avail(0), used |-> EmptyUsed, hdr |-> Header("in", 0), data |-> data,
   status |-> Zero, table |-> <<>>]
VirtioFixture(gates, code, mode, pci, data, main) ==
  [WithPci(Alone(gates, code, <<NewVirtio(mode)>>, main), pci) EXCEPT !.mem = VirtioMemory(data)]

\* The pending event is taken and the queue processed.
ServeQueue(atomic) == <<Take(1, "notified"), Process(1, atomic)>>

-----------------------------------------------------------------------------
\* virtio_rng_fixture.rs

RngRingSetup ==
  <<Store("desc", <<Desc("data", 8, {"WRITE"}, 0)>>), Store("avail", Avail(1)), Store("used", EmptyUsed)>>
RngChecks ==
  <<LoadIdx("used"), Must(1), LoadUsed("used", 0), Must(Element(8)), Load("data"), Must(RngPayload)>>
RngGuest ==
  Discover(RngRegisters) \o <<Out("P")>> \o Negotiate(1) \o <<Out("V")>> \o RngRingSetup
    \o <<Notify, Out("N")>> \o RngChecks \o <<Out("R"), Hlt>>
RngPorts    == Discovered(RngRegisters) \o Debugs(<<"P", "V", "N", "R">>)
RngAccesses == Negotiated(1) \o Notified
RngEnd ==
  <<Completed(<<Element(8)>>), DeviceIs(1, Ready), Memory([used |-> Used(1, <<Element(8)>>), data |-> RngPayload])>>
RngServe == <<Budget(36), RunTo("N", {})>> \o ServeQueue(FALSE) \o <<RunTo("hlt", {"N"})>>
RngMain ==
  <<Setup>> \o RngServe \o <<NoEvent, PortsAre(RngPorts), Accesses(RngAccesses)>> \o RngEnd
    \o <<Proof(BSP, <<"P", "V", "N", "R">>)>>
Rng ==
  WithoutIrqchip(VirtioFixture(<<>>, [bsp |-> RngGuest, ud2 |-> <<Ud2>>], "rng", NewRng, <<Zero>>, RngMain))

-----------------------------------------------------------------------------
\* virtio_rng_completion_interrupt_fixture.rs, virtio_blk_completion_interrupt_fixture.rs:
\* the completion raises GSI 0, the acknowledgment lowers it

IntxStart   == <<Cli, InitPic({0}), Sti, Nop>>
IntxHandler == <<Out("I")>> \o ReadIsr(1) \o <<Out("A"), PicEoi, Iretq>>

\* Wrong on purpose: the line is raised before the queue is processed.
IntxLoopEarly(atomic) ==
  <<RunTo("N", {"A", "D"}), SetLine(0, TRUE)>> \o ServeQueue(atomic)
    \o <<RunTo("A", {"N", "D"}), SetLine(0, FALSE), RunTo("D", {"N", "A"})>>

IntxLoop(atomic) ==
  <<RunTo("N", {"A", "D"})>> \o ServeQueue(atomic)
    \o <<SetLine(0, TRUE), RunTo("A", {"N", "D"}), SetLine(0, FALSE), RunTo("D", {"N", "A"})>>

RngIntxGuest ==
  IntxStart \o Discover(RngRegisters) \o <<Out("P")>> \o Negotiate(1) \o <<Out("V")>> \o RngRingSetup
    \o <<Notify, Out("N")>> \o RngChecks \o ReadIsr(0) \o <<Out("R"), Out("D"), Hlt>>
RngIntxPorts    == Discovered(RngRegisters) \o Debugs(<<"P", "V", "N", "I", "A", "R", "D">>)
RngIntxAccesses == Negotiated(1) \o Notified \o IsrRead \o IsrRead
RngIntxMain ==
  <<Setup, Budget(40)>> \o IntxLoop(FALSE)
    \o <<NoEvent, Spent, PortsAre(RngIntxPorts), Accesses(RngIntxAccesses)>> \o RngEnd
    \o <<Proof(BSP, <<"P", "V", "N", "I", "A", "R", "D">>), IfIs(BSP, TRUE)>>
RngIntx ==
  VirtioFixture(FirstGate, [bsp |-> RngIntxGuest, handler |-> IntxHandler, ud2 |-> <<Ud2>>],
    "rng", NewRng, <<Zero>>, RngIntxMain)

-----------------------------------------------------------------------------
\* virtio_rng_msi_completion_fixture.rs

MsiProgram  == PciWrite("0x78", "0xfee00000") \o PciWrite("0x7c", "0x50") \o PciWrite("0x74", "msi+enable")
MsiHandler  == <<Out("M")>> \o ReadIsr(1) \o <<Out("A"), Iretq>>
RngMsiGuest ==
  <<Sti, Nop>> \o Discover(MsiRegisters) \o MsiProgram \o <<Out("P")>> \o Negotiate(1) \o <<Out("V")>>
    \o RngRingSetup \o <<Notify, Out("N")>> \o RngChecks \o ReadIsr(0) \o <<Out("R"), Out("D"), Hlt>>
RngMsiPorts ==
  Discovered(MsiRegisters)
    \o <<Select("0x78"), OutData("0xfee00000"), Select("0x7c"), OutData("0x50"),
         Select("0x74"), OutData("msi+enable")>>
    \o Debugs(<<"P", "V", "N", "M", "A", "R", "D">>)
RngMsiAccesses == Negotiated(1) \o Notified \o IsrRead \o IsrRead
MsiLoop ==
  <<RunTo("N", {"A", "D"})>> \o ServeQueue(FALSE)
    \o <<ConfigMsi(BSP, "0x50"), RunTo("A", {"N", "D"}), RunTo("D", {"N", "A"})>>
RngMsiMain ==
  <<Setup, Budget(48)>> \o MsiLoop
    \o <<NoEvent, Spent, PortsAre(RngMsiPorts), Accesses(RngMsiAccesses)>> \o RngEnd
    \o <<Proof(BSP, <<"P", "V", "N", "M", "A", "R", "D">>), IfIs(BSP, TRUE)>>
RngMsi ==
  VirtioFixture("0x50" :> "handler", [bsp |-> RngMsiGuest, handler |-> MsiHandler, ud2 |-> <<Ud2>>],
    "rng", NewRngMsi, <<Zero>>, RngMsiMain)
=============================================================================
