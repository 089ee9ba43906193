--------------------------- MODULE DeviceFixtures ---------------------------
(***************************************************************************)
(* The single-vCPU fixtures of mmio/, mmio_fixture.rs, interrupt.rs and    *)
(* kvm/irqchip.rs: byte devices, edge and level interrupts through the     *)
(* in-kernel PIC, and direct injection into an open interrupt window.      *)
(***************************************************************************)
EXTENDS FixtureLanguage, ByteDevice, TLC

Alone(gates, code, devices, main) ==
  Fixture({BSP}, {BSP}, [v \in {BSP} |-> "runnable"], gates, code, <<>>, devices, main, <<>>)
Bytes(bytes) == [i \in 1..Len(bytes) |-> Run(BSP, bytes[i])]
Pulse(g)     == <<SetLine(g, TRUE), SetLine(g, FALSE)>>
FirstGate    == "0x40" :> "handler"

-----------------------------------------------------------------------------
\* mmio_fixture.rs, mmio/long_mode.rs, mmio/multi_device.rs: plain devices,
\* served by run_vcpu_until_stopped_with_mmio

MmioGuest == <<MmioWrite(1, 0, "W"), MmioRead(1, 0), OutAl, Out("M"), Out("I"), Out("O"), Hlt>>
MmioMain  == <<Setup, Budget(7), UntilHlt(BSP)>>
MmioFixture ==
  WithoutIrqchip(Alone(<<>>, [bsp |-> MmioGuest], <<NewDevice("plain", "R")>>, MmioMain))

LongModeMmioGuest == <<MmioWrite(1, 0, "W"), MmioRead(1, 0), OutAl, Out("6"), Out("4"), Out("M"), Hlt>>
LongModeMmioMain  == <<Setup, Budget(7), UntilHlt(BSP), AccessCount(2)>>
LongModeMmio ==
  WithoutIrqchip(Alone(<<>>, [bsp |-> LongModeMmioGuest], <<NewDevice("plain", "R")>>, LongModeMmioMain))

MultiDeviceGuest ==
  <<MmioWrite(1, 0, "X"), MmioRead(1, 0), OutAl, MmioWrite(2, 0, "Y"), MmioRead(2, 0), OutAl,
    MmioRead(1, 0), OutAl, Out("M"), Hlt>>
MultiDeviceSequence ==
  <<<<1, Write(0, "X")>>, <<1, Read(0, "")>>, <<2, Write(0, "Y")>>, <<2, Read(0, "")>>, <<1, Read(0, "")>>>>
MultiDeviceMain ==
  <<Setup, Budget(10), UntilHlt(BSP), Accesses(MultiDeviceSequence), Wrote(1, <<"X">>), Wrote(2, <<"Y">>),
    Proof(BSP, <<"A", "B", "A", "M">>)>>
MultiDevice ==
  WithoutIrqchip(Alone(<<>>, [bsp |-> MultiDeviceGuest],
    <<NewDevice("plain", "A"), NewDevice("plain", "B")>>, MultiDeviceMain))

-----------------------------------------------------------------------------
\* interrupt.rs: KVM_INTERRUPT, no irqchip

InjectGuest   == <<Sti, Nop, Out("M"), Hlt>>
InjectHandler == <<Out("I"), Iretq>>

InjectMain ==
  <<Setup, Window(BSP), Inject(BSP, "0x40"), Budget(3), UntilHlt(BSP), OutputCount(BSP, 2)>>
LongModeInterrupt ==
  WithoutIrqchip(Alone(FirstGate, [bsp |-> InjectGuest, handler |-> InjectHandler], <<>>, InjectMain))

-----------------------------------------------------------------------------
\* kvm/irqchip.rs and mmio/interrupt.rs: an edge on GSI 0

IrqchipGuest   == <<Cli, InitPic({0}), Sti, Nop, Out("R"), Out("A"), Out("M"), Out("D"), Hlt>>
IrqchipHandler == <<Out("I"), PicEoi, Iretq>>
IrqchipMain ==
  <<Setup>> \o Bytes(<<"R", "A">>) \o <<IfIs(BSP, TRUE)>> \o Pulse(0)
    \o Bytes(<<"I", "M", "D">>) \o <<IfIs(BSP, TRUE), Proof(BSP, <<"R", "A", "I", "M", "D">>)>>
Irqchip == Alone(FirstGate, [bsp |-> IrqchipGuest, handler |-> IrqchipHandler], <<>>, IrqchipMain)

EdgeGuest   == <<Cli, InitPic({0}), Sti, Nop, MmioWrite(1, 0, "W"), Out("A"), Out("M"), Out("D"), Hlt>>
EdgeHandler == <<Out("I"), PicEoi, Iretq>>

EdgeMain ==
  <<Setup, Serve(BSP, 1, Write(0, "W")), Run(BSP, "A"), IfIs(BSP, TRUE), Take(1, "request"), NoEvent>>
    \o Pulse(0) \o Bytes(<<"I", "M", "D">>)
    \o <<IfIs(BSP, TRUE), Wrote(1, <<"W">>), Proof(BSP, <<"A", "I", "M", "D">>)>>
EdgeInterrupt ==
  Alone(FirstGate, [bsp |-> EdgeGuest, handler |-> EdgeHandler], <<NewDevice("edge", "R")>>, EdgeMain)

-----------------------------------------------------------------------------
\* mmio/level_interrupt.rs: one level source

LevelGuest ==
  <<Cli, InitPic({0}), Sti, Nop, MmioWrite(1, 0, "W"), Out("A"), Out("M"), Out("D"), Hlt>>
LevelHandler ==
  <<Out("I"), MmioRead(1, 1), JumpUnless(Ack, "fail"), Out("S"), MmioWrite(1, 2, Ack), Out("C"),
    PicEoi, Iretq>>
\* Wrong on purpose: the line of a level source is pulsed like an edge.
LevelAssertPulses ==
  <<Serve(BSP, 1, Write(0, "W")), Run(BSP, "A"), IfIs(BSP, TRUE), Take(1, "assert"), NoEvent>>
    \o Pulse(0) \o <<Run(BSP, "I")>>

LevelAssert ==
  <<Serve(BSP, 1, Write(0, "W")), Run(BSP, "A"), IfIs(BSP, TRUE), Take(1, "assert"), NoEvent,
    SetLine(0, TRUE), Run(BSP, "I")>>
LevelStatus == <<Serve(BSP, 1, Read(1, Ack)), Run(BSP, "S")>>

\* Wrong on purpose: the line falls while the acknowledging store is still
\* the pending exit.
LevelDeassertEarly ==
  <<Serve(BSP, 1, Write(2, Ack)), Take(1, "deassert"), NoEvent, SetLine(0, FALSE), Run(BSP, "C")>>

LevelDeassert ==
  <<Serve(BSP, 1, Write(2, Ack)), Run(BSP, "C"), Take(1, "deassert"), NoEvent, SetLine(0, FALSE)>>
LevelEnd ==
  Bytes(<<"M", "D">>) \o
  <<IfIs(BSP, TRUE), Wrote(1, <<"W", Ack>>), Proof(BSP, <<"A", "I", "S", "C", "M", "D">>)>>
LevelInterrupt ==
  Alone(FirstGate, [bsp |-> LevelGuest, handler |-> LevelHandler, fail |-> <<Out("F"), Hlt>>],
    <<NewDevice("level", Idle)>>, <<Setup>> \o LevelAssert \o LevelStatus \o LevelDeassert \o LevelEnd)

-----------------------------------------------------------------------------
\* mmio/dual_source_interrupt.rs: two level sources, one line each

\* route_for_device: the line of a source.
Route(d) == d - 1

DualGuest ==
  <<Cli, InitPic({0, 1}), Sti, Nop, MmioWrite(1, 0, "W"), Out("A"), Out("M"),
    MmioWrite(2, 0, "W"), Out("B"), Out("N"), Out("D"), Hlt>>
FirstHandler ==
  <<Out("0"), MmioRead(1, 1), JumpUnless(Ack, "fail"), Out("S"), MmioWrite(1, 2, Ack), Out("C"),
    PicEoi, Iretq>>
SecondHandler ==
  <<Out("1"), MmioRead(2, 1), JumpUnless(Ack, "fail"), Out("T"), MmioWrite(2, 2, Ack), Out("E"),
    PicEoi, Iretq>>

\* service_source: the whole life of one interrupt of source d.
ServiceSource(d, armed, handler, status, acked, resumed) ==
  <<Serve(BSP, d, Write(0, "W")), Run(BSP, armed), IfIs(BSP, TRUE), Take(d, "assert"), NoEvent,
    SetLine(Route(d), TRUE), Run(BSP, handler), Serve(BSP, d, Read(1, Ack)), Run(BSP, status),
    Serve(BSP, d, Write(2, Ack)), Run(BSP, acked), Take(d, "deassert"), NoEvent,
    SetLine(Route(d), FALSE), Run(BSP, resumed)>>
DualMain ==
  <<Setup>> \o ServiceSource(1, "A", "0", "S", "C", "M") \o ServiceSource(2, "B", "1", "T", "E", "N")
    \o <<Run(BSP, "D"), IfIs(BSP, TRUE), NoEvent, Wrote(1, <<"W", Ack>>), Wrote(2, <<"W", Ack>>),
         Proof(BSP, <<"A", "0", "S", "C", "M", "B", "1", "T", "E", "N", "D">>)>>

DualGates == ("0x40" :> "first") @@ ("0x41" :> "second")
DualSource ==
  Alone(DualGates,
    [bsp |-> DualGuest, first |-> FirstHandler, second |-> SecondHandler, fail |-> <<Out("F"), Hlt>>],
    <<NewDevice("level", Idle), NewDevice("level", Idle)>>, DualMain)

DeviceSuite ==
  [mmio |-> MmioFixture, longMmio |-> LongModeMmio, multi |-> MultiDevice, inject |-> LongModeInterrupt,
   irqchip |-> Irqchip, edge |-> EdgeInterrupt, level |-> LevelInterrupt, dual |-> DualSource]
=============================================================================
