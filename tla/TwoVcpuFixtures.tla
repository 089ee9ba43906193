--------------------------- MODULE TwoVcpuFixtures ---------------------------
(***************************************************************************)
(* The eight two-vCPU fixtures of portio/two_vcpu_*.rs: the guest images   *)
(* of both vCPUs, their interrupt handlers, and the two host threads.      *)
(* Images are read off the byte arrays: addresses are names, and the       *)
(* switch to long mode is one instruction.                                 *)
(***************************************************************************)
EXTENDS FixtureLanguage, TLC

Failure == <<Out("F"), Hlt>>
Both    == {BSP, AP}
BothRun == [v \in Both |-> "runnable"]
ApWaits == [v \in Both |-> IF v = BSP THEN "runnable" ELSE "uninit"]
NoGates == <<>>
NoMemory == [marker |-> Zero]
RunAll(v, bytes) == [i \in 1..Len(bytes) |-> Run(v, bytes[i])]

-----------------------------------------------------------------------------
\* two_vcpu_fixture.rs: one thread runs the vCPUs one after the other

SerialFirst == <<Store("marker", "A"), Out("0"), Hlt>>
SerialSecond == <<Load("marker"), JumpUnless("A", "fail"), Out("1"), Hlt>>
SerialMain == <<Setup, Budget(2), UntilHlt(BSP), Budget(2), UntilHlt(AP)>>

Serial ==
  WithoutIrqchip(Fixture(Both, Both, BothRun, NoGates,
    [bsp |-> SerialFirst, ap |-> SerialSecond, fail |-> Failure], NoMemory, <<>>, SerialMain, <<>>))

-----------------------------------------------------------------------------
\* two_vcpu_work_dispatch_fixture.rs: a mailbox between two running vCPUs

Mailbox == [payload |-> 0, command |-> 0, result |-> 0, ack |-> 0]
MailboxDrained == Memory([payload |-> 33, command |-> 0, result |-> 66, ack |-> 0])

WorkBsp ==
  <<Out("B"), Store("payload", 33), Xchg("command", 1), Out("C"), Poll("ack", 1, "fail"),
    Xchg("ack", 0), JumpUnless(1, "fail"), Load("result"), JumpUnless(66, "fail"),
    Out("V"), Out("D"), Hlt>>
WorkAp ==
  <<Out("R"), Poll("command", 1, "fail"), Xchg("command", 0), JumpUnless(1, "fail"),
    Load("payload"), Double, StoreAl("result"), Xchg("ack", 1), Out("P"), Out("D"), Hlt>>
WorkWorker == <<Run(AP, "R"), Send("ready", "ok"), Budget(3), UntilHlt(AP)>>
WorkMain ==
  <<Setup, Spawn, Receive("ready", "drop"), Budget(5), UntilHlt(BSP), Join,
    Proof(BSP, <<"B", "C", "V", "D">>), Proof(AP, <<"R", "P", "D">>), MailboxDrained>>

WorkDispatch ==
  WithoutIrqchip(Fixture(Both, Both, BothRun, NoGates,
    [bsp |-> WorkBsp, ap |-> WorkAp, fail |-> Failure], Mailbox, <<>>, WorkMain, WorkWorker))

-----------------------------------------------------------------------------
\* two_vcpu_init_sipi_fixture.rs: the BSP starts the AP, in three modes

SipiStart == <<Cli, Out("0"), SendInit, Out("I"), SendDeassert, Out("D"), SendSipi("ap"), Out("S")>>
SipiObserve == <<Load("marker"), JumpUnless("K", "fail"), Out("M"), Out("D"), Hlt>>
SipiBsp == SipiStart \o SipiObserve
SipiIpiBsp == SipiStart \o <<SendIpi(AP, "0x52"), Out("X")>> \o SipiObserve

ApReal == <<Out("A"), Store("marker", "K"), Out("P"), Out("D"), Hlt>>
ApLong == <<Out("A"), EnterLongMode, Out("L"), Store("marker", "K"), Out("P"), Out("D"), Hlt>>
ApIpi ==
  <<Out("A"), EnterLongMode, Out("L"), EnableLapic, LoadIdt, Out("R"), Sti, Hlt,
    Out("M"), Store("marker", "K"), Out("D"), Hlt>>
ApIpiHandler == <<Out("I"), LapicEoi, Iretq>>

\* The host side up to the SIPI: the AP has not been initialized before.
SipiBoot ==
  <<Setup, MpIs(AP, "uninit"), Run(BSP, "0"), IfIs(BSP, FALSE), Run(BSP, "I"), Run(BSP, "D"),
    Run(BSP, "S")>>
SipiWorker(bytes) ==
  <<Startup(AP), StartsAt(AP, "ap")>> \o RunAll(AP, bytes)
    \o <<MpIs(AP, "runnable"), IfIs(AP, FALSE), Proof(AP, bytes)>>
SipiIpiWorker ==
  <<Startup(AP), StartsAt(AP, "ap")>> \o RunAll(AP, <<"A", "L", "R">>)
    \o <<IfIs(AP, FALSE), HasIdt(AP), Send("ready", "ok"), AwaitCommand>>
    \o RunAll(AP, <<"I", "M", "D">>)
    \o <<MpIs(AP, "runnable"), IfIs(AP, TRUE), Proof(AP, <<"A", "L", "R", "I", "M", "D">>),
         InLongMode(AP)>>
SipiEnd(proof) ==
  <<Join, Memory([marker |-> "K"]), Run(BSP, "M"), Run(BSP, "D"), IfIs(BSP, FALSE),
    Proof(BSP, proof)>>

\* The AP waits, interrupts disabled, until the IPI is pending for it.
SipiNotify ==
  <<Receive("ready", "drop"), RunOr(BSP, "X", "abort"), IfIs(BSP, FALSE), Send("command", "go")>>

SipiFixture(bsp, ap, main, worker) ==
  Fixture(Both, {BSP}, ApWaits, [x \in {"0x52"} |-> "handler"],
    [bsp |-> bsp, ap |-> ap, handler |-> ApIpiHandler, fail |-> Failure], NoMemory, <<>>, main, worker)
InitSipi ==
  SipiFixture(SipiBsp, ApReal,
    SipiBoot \o <<Spawn>> \o SipiEnd(<<"0", "I", "D", "S", "M", "D">>),
    SipiWorker(<<"A", "P", "D">>))
ApLongMode ==
  SipiFixture(SipiBsp, ApLong,
    SipiBoot \o <<Spawn>> \o SipiEnd(<<"0", "I", "D", "S", "M", "D">>),
    SipiWorker(<<"A", "L", "P", "D">>) \o <<InLongMode(AP)>>)
ApLongModeIpi ==
  SipiFixture(SipiIpiBsp, ApIpi,
    SipiBoot \o <<Spawn>> \o SipiNotify \o SipiEnd(<<"0", "I", "D", "S", "X", "M", "D">>),
    SipiIpiWorker)

-----------------------------------------------------------------------------
\* two_vcpu_sipi_work_dispatch_fixture.rs: the mailbox, announced by an IPI

ComposedBsp ==
  SipiStart \o
  <<Store("payload", 33), Xchg("command", 1), JumpUnless(0, "fail"), Out("C"),
    SendIpi(AP, "0x52"), Out("X"), Poll("ack", 1, "fail"), Xchg("ack", 0), JumpUnless(1, "fail"),
    Load("result"), JumpUnless(66, "fail"), Out("V"), Out("D"), Hlt>>

ComposedAp ==
  <<Out("A"), EnterLongMode, Out("L"), EnableLapic, LoadIdt, Out("R"), Sti, Hlt,
    Xchg("command", 0), JumpUnless(1, "fail"), Load("payload"), Double, StoreAl("result"),
    Xchg("ack", 1), JumpUnless(0, "fail"), Out("P"), Out("D"), Hlt>>
ComposedHandler == <<Out("I"), LapicEoi, Iretq>>
ComposedBoot ==
  <<Setup, MpIs(AP, "uninit")>> \o RunAll(BSP, <<"0", "I", "D", "S">>) \o <<IfIs(BSP, FALSE), Spawn>>
ComposedWorker ==
  <<Startup(AP), StartsAt(AP, "ap")>> \o RunAll(AP, <<"A", "L", "R">>)
    \o <<IfIs(AP, FALSE), HasIdt(AP), Send("ready", "ok"), AwaitCommand>>
    \o RunAll(AP, <<"I", "P", "D">>)
    \o <<IfIs(AP, TRUE), InLongMode(AP), Proof(AP, <<"A", "L", "R", "I", "P", "D">>)>>
\* The worker is joined before an error of the BSP's tail is returned.
ComposedMain ==
  ComposedBoot \o
  <<Receive("ready", "drop"), RunOr(BSP, "C", "abort"), RunOr(BSP, "X", "abort"),
    Send("command", "go"), RunOr(BSP, "V", "join"), RunOr(BSP, "D", "join"),
    IfIsOr(BSP, FALSE, "join"), Join, Proof(BSP, <<"0", "I", "D", "S", "C", "X", "V", "D">>),
    MailboxDrained>>

SipiWorkDispatch ==
  Fixture(Both, {BSP}, ApWaits, [x \in {"0x52"} |-> "handler"],
    [bsp |-> ComposedBsp, ap |-> ComposedAp, handler |-> ComposedHandler, fail |-> Failure],
    Mailbox, <<>>, ComposedMain, ComposedWorker)

-----------------------------------------------------------------------------
\* two_vcpu_tlb_shootdown_fixture.rs: the BSP remaps a page the AP has cached

TlbBsp ==
  SipiStart \o
  <<WritePte("B"), Out("P"), SendIpi(AP, "0x54"), Out("X"), Poll("ack", 1, "fail"),
    Xchg("ack", 0), JumpUnless(1, "fail"), Out("A"), Out("D"), Hlt>>
TlbAp ==
  <<Out("A"), EnterLongMode, Out("L"), EnableLapic, LoadIdt, LoadVa, JumpUnless("A", "fail"),
    Out("R"), Sti, Hlt, LoadVa, JumpUnless("B", "fail"), Out("B"), Out("D"), Hlt>>

\* Wrong on purpose: the shootdown is acknowledged before it is done.
TlbHandlerAcksFirst == <<Store("ack", 1), Invlpg, Out("I"), LapicEoi, Iretq>>

TlbHandler == <<Invlpg, Store("ack", 1), Out("I"), LapicEoi, Iretq>>
TlbBoot ==
  <<Setup, MpIs(AP, "uninit")>> \o RunAll(BSP, <<"0", "I", "D", "S">>) \o <<Spawn>>
TlbWorker ==
  <<Startup(AP), StartsAt(AP, "ap")>> \o RunAll(AP, <<"A", "L", "R">>)
    \o <<IfIs(AP, FALSE), HasIdt(AP), Send("ready", "ok"), AwaitCommand>>
    \o RunAll(AP, <<"I", "B", "D">>)
    \o <<IfIs(AP, TRUE), Proof(AP, <<"A", "L", "R", "I", "B", "D">>)>>
TlbMain ==
  TlbBoot \o
  <<Receive("ready", "drop"), RunOr(BSP, "P", "abort"), RunOr(BSP, "X", "abort"),
    Send("command", "go"), Run(BSP, "A"), Run(BSP, "D"),
    Proof(BSP, <<"0", "I", "D", "S", "P", "X", "A", "D">>), Join, InLongMode(AP),
    Memory(("pte" :> <<"B", TRUE>>) @@ ("ack" :> 0))>>

TlbShootdown ==
  Fixture(Both, {BSP}, ApWaits, [x \in {"0x54"} |-> "handler"],
    [bsp |-> TlbBsp, ap |-> TlbAp, handler |-> TlbHandler, fail |-> Failure],
    [ack |-> 0], <<>>, TlbMain, TlbWorker)

-----------------------------------------------------------------------------
\* two_vcpu_ap_local_timer_fixture.rs: the AP waits for its own timer

TimerBsp == SipiStart \o SipiObserve
TimerAp ==
  <<Out("A"), EnterLongMode, Out("L"), EnableLapic, LoadIdt, Out("R"), ArmTimer("0x53"),
    Out("A"), Sti, Hlt, Store("marker", "K"), Out("W"), Out("D"), Hlt>>
TimerHandler == <<Out("T"), LapicEoi, Iretq>>
TimerBoot ==
  <<Setup, MpIs(AP, "uninit")>> \o RunAll(BSP, <<"0", "I", "D", "S">>) \o <<IfIs(BSP, FALSE), Spawn>>
TimerWorker ==
  <<Startup(AP), StartsAt(AP, "ap")>> \o RunAll(AP, <<"A", "L", "R">>)
    \o <<IfIs(AP, FALSE), HasIdt(AP), Run(AP, "A"), IfIs(AP, FALSE), Send("ready", "armed")>>
    \o RunAll(AP, <<"T", "W", "D">>)
    \o <<IfIs(AP, TRUE), InLongMode(AP), Proof(AP, <<"A", "L", "R", "A", "T", "W", "D">>),
         Send("done", "ok")>>

\* Wrong on purpose: a run the watchdog had to finish is accepted.
TimerWatchIgnored == <<Receive("ready", "join"), Watch("done", "0x53"), Join>>

TimerWatch == <<Receive("ready", "join"), Watch("done", "0x53"), Join, NotWatched>>
TimerEnd ==
  <<Memory([marker |-> "K"]), Run(BSP, "M"), Run(BSP, "D"), IfIs(BSP, FALSE),
    Proof(BSP, <<"0", "I", "D", "S", "M", "D">>)>>

ApLocalTimer ==
  Fixture(Both, {BSP}, ApWaits, [x \in {"0x53"} |-> "handler"],
    [bsp |-> TimerBsp, ap |-> TimerAp, handler |-> TimerHandler, fail |-> Failure],
    NoMemory, <<>>, TimerBoot \o TimerWatch \o TimerEnd, TimerWorker)

-----------------------------------------------------------------------------
\* two_vcpu_guest_ipi_fixture.rs and two_vcpu_targeted_msi_fixture.rs: the
\* host makes the AP runnable; the IPI or the MSI waits for it to set IF

IpiBsp == <<Sti, Nop, Out("0"), SendIpi(AP, "0x52"), Out("S"), Out("M"), Out("D"), Hlt>>

\* Wrong on purpose: the byte follows STI at once, inside its shadow.
IpiApNoNop == <<Cli, Out("R"), Sti, Out("1"), Out("D"), Hlt>>

IpiAp == <<Cli, Out("R"), Sti, Nop, Out("1"), Out("D"), Hlt>>
IpiHandler == <<Out("I"), LapicEoi, Iretq>>
IpiWorker ==
  <<Run(AP, "R"), IfIs(AP, FALSE), Send("ready", "ok"), AwaitCommand>>
    \o RunAll(AP, <<"I", "1", "D">>) \o <<IfIs(AP, TRUE), Proof(AP, <<"R", "I", "1", "D">>)>>
IpiMain ==
  <<Setup, MakeRunnable(AP), Spawn, Receive("ready", "drop"), Run(BSP, "0"), IfIs(BSP, TRUE),
    RunOr(BSP, "S", "abort"), IfIs(BSP, TRUE), Send("command", "go"), Join,
    Run(BSP, "M"), Run(BSP, "D"), IfIs(BSP, TRUE), Proof(BSP, <<"0", "S", "M", "D">>)>>

GuestIpi ==
  Fixture(Both, Both, ApWaits, [x \in {"0x52"} |-> "handler"],
    [bsp |-> IpiBsp, ap |-> IpiAp, handler |-> IpiHandler], NoMemory, <<>>, IpiMain, IpiWorker)

MsiBsp == <<Sti, Nop, Out("0"), Out("M"), Out("D"), Hlt>>
MsiAp == <<Cli, Out("R"), Sti, Nop, Out("1"), Out("D"), Hlt>>
TargetedMsiHandler == <<Out("I"), Iretq>>
MsiWorker ==
  <<Run(AP, "R"), IfIs(AP, FALSE), Send("ready", "ok"), AwaitCommand>>
    \o RunAll(AP, <<"I", "1", "D">>) \o <<IfIs(AP, TRUE), Proof(AP, <<"R", "I", "1", "D">>)>>
MsiMain ==
  <<Setup, MakeRunnable(AP), Spawn, Receive("ready", "drop"), Run(BSP, "0"), IfIs(BSP, TRUE),
    Msi(AP, "0x51", "abort"), Send("command", "go"), Join,
    Run(BSP, "M"), Run(BSP, "D"), IfIs(BSP, TRUE), Proof(BSP, <<"0", "M", "D">>)>>

TargetedMsi ==
  Fixture(Both, Both, ApWaits, [x \in {"0x51"} |-> "handler"],
    [bsp |-> MsiBsp, ap |-> MsiAp, handler |-> TargetedMsiHandler], NoMemory, <<>>, MsiMain, MsiWorker)

TwoVcpuSuite ==
  [serial |-> Serial, work |-> WorkDispatch, sipi |-> InitSipi, apLong |-> ApLongMode,
   apIpi |-> ApLongModeIpi, sipiWork |-> SipiWorkDispatch, tlb |-> TlbShootdown,
   apTimer |-> ApLocalTimer, ipi |-> GuestIpi, msi |-> TargetedMsi]
=============================================================================
