------------------------- MODULE CheckpointFixtures -------------------------
(***************************************************************************)
(* The fixtures of state_snapshot/ that checkpoint pages, vCPUs and        *)
(* interrupt controllers: capture at a quiescent point, overwrite every    *)
(* owned part, restore, and let the guest finish from the restored state.  *)
(* The versioned variants carry the checkpoint through its encoding.       *)
(***************************************************************************)
EXTENDS DeviceFixtures
Seqs == INSTANCE SequencesExt

Captures(parts)   == Each(Capture, parts)
Restores(parts)   == Each(Restore, parts)
CorruptAll(pairs) == [i \in 1..Len(pairs) |-> Corrupt(pairs[i][1], pairs[i][2])]
Differs(parts)    == <<Differ(Seqs!ToSet(parts))>>
Matches(parts)    == <<Match(Seqs!ToSet(parts))>>
Carried(versioned) == IF versioned THEN <<Transport>> ELSE <<>>

\* The instruction after the one that writes b to the debug port.
After(code, b) == 1 + CHOOSE i \in 1..Len(code) : code[i].op = "out" /\ code[i].x = b
AfterHlt(code) == 1 + CHOOSE i \in 1..Len(code) : code[i].op = "hlt"

\* A debug byte, then one single step that completes its OUT.
Barrier(v, blk, code, b, f) == <<Run(v, b), Retire(v, blk, After(code, b), f)>>

\* Pages with the location or locations each holds.
OnePage(l, junk) == l :> (l :> junk)
Halting(f)       == WithoutIrqchip(f)
Solo(gates, code, pages, memory, main) ==
  [WithPages(Alone(gates, code, <<>>, main), pages) EXCEPT !.mem = memory]

-----------------------------------------------------------------------------
\* checkpoint.rs: one page and the vCPU, stopped at HLT

PageGuest == <<Store("page", "Z"), Hlt, Out("R"), Hlt>>
PageParts == <<"page", "cpu0">>

\* Setup, the run to HLT and what the report must say.
PageToHlt(code) ==
  <<Setup, Budget(1), UntilHlt(BSP), Stopped(BSP, "bsp", AfterHlt(code)), PortsAre(<<>>)>>
PageCapture == Captures(PageParts) \o <<Captured("page", [page |-> "Z"])>>
PageCorrupt == CorruptAll(<<<<"page", 0>>, <<"cpu0", 0>>>>) \o Differs(PageParts)
PageRestore == Restores(PageParts) \o Matches(PageParts) \o <<Memory([page |-> "Z"])>>
PageResume ==
  <<Fresh, Budget(2), UntilHlt(BSP), Stopped(BSP, "bsp", Len(PageGuest) + 1),
    PortsAre(<<Debug("R")>>), Proof(BSP, <<"R">>)>>
PageCheckpoint ==
  Halting(Solo(<<>>, [bsp |-> PageGuest], OnePage("page", "junk"), [page |-> Zero],
    PageToHlt(PageGuest) \o PageCapture \o PageCorrupt \o PageRestore \o PageResume))

-----------------------------------------------------------------------------
\* page_set/guest.rs: three pages with a role each

RolesGuest ==
  <<Store("control", "A"), Store("data", "B"), Store("stack", "C"), Hlt,
    Load("control"), OutAl, Load("data"), OutAl, Load("stack"), OutAl, Out("R"), Hlt>>
RolesPages == OnePage("control", "junk1") @@ OnePage("data", "junk2") @@ OnePage("stack", "junk3")
RolesParts == <<"control", "data", "stack", "cpu0">>
RolesCapture ==
  Captures(RolesParts)
    \o <<Captured("control", [control |-> "A"]), Captured("data", [data |-> "B"]),
         Captured("stack", [stack |-> "C"])>>
RolesCorrupt ==
  CorruptAll(<<<<"control", 0>>, <<"data", 0>>, <<"stack", 0>>, <<"cpu0", 0>>>>)
    \o Differs(RolesParts)

RolesRestore == Restores(RolesParts) \o Matches(RolesParts)
RolesCarried(versioned) == Carried(versioned)
RolesResume ==
  <<Fresh, Budget(5), UntilHlt(BSP), Stopped(BSP, "bsp", Len(RolesGuest) + 1),
    PortsAre(<<Debug("A"), Debug("B"), Debug("C"), Debug("R")>>), Proof(BSP, <<"A", "B", "C", "R">>)>>
RolesCheckpoint(versioned) ==
  Halting(Solo(<<>>, [bsp |-> RolesGuest], RolesPages,
    [control |-> Zero, data |-> Zero, stack |-> Zero],
    PageToHlt(RolesGuest) \o RolesCapture \o RolesCarried(versioned) \o RolesCorrupt \o RolesRestore
      \o RolesResume))
RolesDirect    == RolesCheckpoint(FALSE)
RolesVersioned == RolesCheckpoint(TRUE)

-----------------------------------------------------------------------------
\* page_set/controller.rs: a page, the vCPU, the master PIC and the local APIC

ControllerGuest ==
  <<Cli, InitPic({0}), Store("page", "A"), Out("C"), Nop, Sti, Nop, Load("page"), OutAl,
    Out("M"), Out("D"), Hlt>>
ControllerHandler == <<Out("I"), PicEoi, Iretq>>
ControllerParts   == <<"page", "cpu0", "master", "lapic0">>

\* Wrong on purpose: the checkpoint is taken at the OUT exit itself.
QuiescentAtExit(code, b) == <<Run(BSP, b)>>

\* controller_run_to_quiescent_debug
QuiescentAt(code, b) == Barrier(BSP, "bsp", code, b, {FALSE})

ControllerContract ==
  <<Captured("page", [page |-> "A"]), Captured("master", [unmasked |-> {0}]),
    Captured("lapic0", [on |-> TRUE, lint |-> TRUE])>>
ControllerCorrupt ==
  CorruptAll(<<<<"page", 0>>, <<"cpu0", 0>>, <<"master", 0>>, <<"lapic0", "lint">>>>)
    \o Differs(ControllerParts)

\* The guest part must match exactly before a controller is touched.
ControllerRestore ==
  Restores(<<"page", "cpu0">>) \o Matches(<<"page", "cpu0">>) \o Restores(<<"master", "lapic0">>)
    \o Matches(ControllerParts)
ControllerResume ==
  <<Fresh, Run(BSP, "A"), IfIs(BSP, TRUE)>> \o Pulse(0) \o Bytes(<<"I", "M", "D">>)
    \o <<IfIs(BSP, TRUE), Proof(BSP, <<"A", "I", "M", "D">>)>>
ControllerCheckpoint ==
  Solo(FirstGate, [bsp |-> ControllerGuest, handler |-> ControllerHandler], OnePage("page", "junk"),
    [page |-> Zero],
    <<Setup>> \o QuiescentAt(ControllerGuest, "C") \o Captures(ControllerParts) \o ControllerContract
      \o ControllerCorrupt \o ControllerRestore \o ControllerResume)

-----------------------------------------------------------------------------
\* page_set/full_controller.rs: both PICs, the I/O APIC and the local APIC

FullGuest ==
  <<Cli, InitPic({2, 8}), Store("page", "A"), Out("C"), Nop, Sti, Nop, Load("page"), OutAl,
    Out("B"), Out("M"), Out("D"), Hlt>>
SlaveHandler  == <<Out("S"), SlaveEoi, PicEoi, Iretq>>
IoapicHandler == <<Out("J"), Iretq>>
FullGates     == ("0x48" :> "slave") @@ ("0x50" :> "ioapic")
FullCode      == [bsp |-> FullGuest, slave |-> SlaveHandler, ioapic |-> IoapicHandler]
GuestParts    == <<"page", "cpu0">>
ChipParts     == <<"master", "slave", "ioapic", "lapic0">>
FullParts     == GuestParts \o ChipParts

\* full_controller_configure_ioapic: pin 8 stays masked, pin 16 is fixed.
ConfigureIoapic == <<SetPin(16, "0x50", BSP)>>
FullContract ==
  <<Captured("page", [page |-> "A"]), Captured("master", [unmasked |-> {2}]),
    Captured("slave", [unmasked |-> {8}]), Captured("lapic0", [on |-> TRUE, lint |-> TRUE]),
    Captured("ioapic", (8 :> Masked) @@ (16 :> [masked |-> FALSE, vec |-> "0x50", dest |-> BSP]))>>
ChipsCorrupt == <<<<"master", 0>>, <<"slave", 8>>, <<"ioapic", 16>>, <<"lapic0", "lint">>>>
FullCorrupt  == CorruptAll(<<<<"page", 0>>, <<"cpu0", 0>>>> \o ChipsCorrupt) \o Differs(FullParts)
FullRestore  == Restores(GuestParts) \o Matches(GuestParts) \o Restores(ChipParts) \o Matches(FullParts)

\* Each controller must still deliver: the slave PIC's line, then the pin.
FullResume ==
  <<Fresh, Run(BSP, "A"), IfIs(BSP, TRUE)>> \o Pulse(8) \o Bytes(<<"S", "B">>) \o <<IfIs(BSP, TRUE)>>
    \o Pulse(16) \o Bytes(<<"J", "M", "D">>)
    \o <<IfIs(BSP, TRUE), Proof(BSP, <<"A", "S", "B", "J", "M", "D">>)>>
FullCarried(versioned) == Carried(versioned) \o FullContract
FullController(versioned) ==
  Solo(FullGates, FullCode, OnePage("page", "junk"), [page |-> Zero],
    <<Setup>> \o ConfigureIoapic \o QuiescentAt(FullGuest, "C") \o Captures(FullParts) \o FullContract
      \o FullCarried(versioned) \o FullCorrupt \o FullRestore \o FullResume)
FullControllerDirect    == FullController(FALSE)
FullControllerVersioned == FullController(TRUE)

-----------------------------------------------------------------------------
\* two_vcpu_checkpoint.rs: shared page, a stack page and registers per vCPU

\* What vCPU i left before the stop: the marker on its stack, and for the
\* first the shared marker.  Both check everything after it.
PairStack(i)  == IF i = 0 THEN "stack0" ELSE "stack1"
PairMark(i)   == IF i = 0 THEN "0" ELSE "1"
PairBefore(i) == (IF i = 0 THEN <<Store("shared", "S")>> ELSE <<>>) \o <<Store(PairStack(i), PairMark(i))>>
PairAfter(i)  ==
  <<Load(PairStack(i)), JumpUnless(PairMark(i), "fail"), Load("shared"), JumpUnless("S", "fail")>>
PairFail      == <<Out("F"), Hlt>>
PairPages     == OnePage("shared", "junk") @@ OnePage("stack0", "junk0") @@ OnePage("stack1", "junk1")
PairMemory    == [shared |-> Zero, stack0 |-> Zero, stack1 |-> Zero]
Pair(code, pages, memory, main) ==
  [WithPages(Fixture({BSP, AP}, {BSP, AP}, [v \in {BSP, AP} |-> "runnable"], <<>>, code, memory, <<>>,
     main, <<>>), pages) EXCEPT !.extint = {}]

\* Pages and the first vCPU, then the second vCPU.
PairParts == <<"shared", "stack0", "stack1", "cpu0", "cpu1">>
PairRoles ==
  <<Captured("shared", [shared |-> "S"]), Captured("stack0", [stack0 |-> "0"]),
    Captured("stack1", [stack1 |-> "1"])>>
PairPagesCorrupt == <<<<"shared", 0>>, <<"stack0", 0>>, <<"stack1", 0>>>>
PairVcpusCorrupt == <<<<"cpu0", 0>>, <<"cpu1", 0>>>>
HaltMismatch     == Differs(PairParts)
HaltRestore      == Restores(PairParts) \o Matches(PairParts)

HaltGuest(i) == PairBefore(i) \o <<Hlt>> \o PairAfter(i) \o <<Out(PairMark(i)), Hlt>>
HaltBlock(v) == IF v = BSP THEN "bsp" ELSE "ap"
HaltAt(v)    == <<Budget(1), UntilHlt(v), Stopped(v, HaltBlock(v), AfterHlt(HaltGuest(v))), PortsAre(<<>>)>>
HaltResume(v) ==
  <<Fresh, Budget(2), UntilHlt(v), Stopped(v, HaltBlock(v), Len(HaltGuest(v)) + 1),
    PortsAre(<<Debug(PairMark(v))>>), Proof(v, <<PairMark(v)>>)>>
TwoVcpuCheckpoint ==
  Halting(Pair([bsp |-> HaltGuest(0), ap |-> HaltGuest(1), fail |-> PairFail], PairPages, PairMemory,
    <<Setup>> \o HaltAt(BSP) \o HaltAt(AP) \o Captures(PairParts) \o PairRoles
      \o CorruptAll(PairPagesCorrupt \o PairVcpusCorrupt) \o HaltMismatch \o HaltRestore
      \o HaltResume(BSP) \o HaltResume(AP)))

\* With every interrupt controller and the MP states: barriers on the debug
\* port, since a halted vCPU would stay inside KVM_RUN.
BarrierMark(i)  == IF i = 0 THEN "A" ELSE "B"
BarrierGuest(i) ==
  PairBefore(i) \o <<Out(BarrierMark(i)), Nop>> \o PairAfter(i) \o <<Out(PairMark(i)), Nop, Hlt>>
PairBarrier(v, b) == Barrier(v, HaltBlock(v), BarrierGuest(v), b, BOOLEAN)
PairChips == <<"master", "slave", "ioapic", "lapic0", "lapic1">>
PairAll   == PairParts \o PairChips \o <<"mp0", "mp1">>
PairChipsCorrupt ==
  <<<<"master", 0>>, <<"slave", 9>>, <<"ioapic", 16>>, <<"lapic0", "lint">>, <<"lapic1", "spiv">>>>
PairCorrupt ==
  CorruptAll(PairPagesCorrupt \o PairVcpusCorrupt \o <<<<"mp0", "halted">>, <<"mp1", "uninit">>>>
               \o PairChipsCorrupt)
PairMismatch == Differs(PairAll)
PairRestore ==
  HaltRestore \o Restores(<<"mp0", "mp1">>) \o Matches(<<"mp0", "mp1">>)
    \o Restores(PairChips) \o Matches(PairAll)
TwoVcpuFullController ==
  Pair([bsp |-> BarrierGuest(0), ap |-> BarrierGuest(1), fail |-> PairFail], PairPages, PairMemory,
    <<Setup, MpIs(BSP, "runnable"), MpIs(AP, "runnable")>> \o PairBarrier(BSP, "A") \o PairBarrier(AP, "B")
      \o Captures(PairAll) \o PairRoles \o PairCorrupt \o PairMismatch \o PairRestore
      \o PairBarrier(BSP, "0") \o PairBarrier(AP, "1"))

CheckpointSuite ==
  [page |-> PageCheckpoint, roles |-> RolesDirect, rolesV1 |-> RolesVersioned,
   controller |-> ControllerCheckpoint, full |-> FullControllerDirect, fullV1 |-> FullControllerVersioned,
   pair |-> TwoVcpuCheckpoint, pairFull |-> TwoVcpuFullController]
=============================================================================
