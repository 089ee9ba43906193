------------------------ MODULE CheckpointPairFixtures ------------------------
(***************************************************************************)
(* The single-vCPU fixtures with two block devices, of state_snapshot/     *)
(* page_set/ and kvm/host_registration_pair.rs: both devices in one        *)
(* checkpoint, restored together after the controllers, and served through *)
(* a pair of doorbells and irqfds that is taken down and built again.      *)
(***************************************************************************)
EXTENDS CheckpointBlkFixtures

\* Where each device's rings and buffers lie.
Queues ==
  <<[desc |-> "desc", avail |-> "avail", used |-> "used", hdr |-> "hdr", data |-> "data", status |-> "status"],
    [desc |-> "desc2", avail |-> "avail2", used |-> "used2", hdr |-> "hdr2", data |-> "data2",
     status |-> "status2"]>>
PageOf(d)  == IF d = 1 THEN "queue" ELSE "queue2"
Devices    == <<"dev1", "dev2">>
Quiescent  == [notify |-> FALSE, isr |-> 0]

\* What overwriting a queue page with one byte leaves there.
JunkRing ==
  [desc |-> <<>>, avail |-> [Avail(0) EXCEPT !.idx = 42405], used |-> [EmptyUsed EXCEPT !.idx = 42405],
   hdr |-> Header("junk", 0), data |-> <<"junk">>, status |-> "junk"]
AtQueue(d, content) ==
  [l \in {Queues[d][r] : r \in DOMAIN content} |->
     content[CHOOSE r \in DOMAIN content : Queues[d][r] = l]]
CoupledPages == (PageOf(1) :> AtQueue(1, JunkRing)) @@ (PageOf(2) :> AtQueue(2, JunkRing))

-----------------------------------------------------------------------------
\* full_controller_two_virtio_blk_guest.rs: the full-controller guest with
\* two devices that it does not use

\* prepared_device: status written step by step.
Written(d, writes) == Seqs!FoldLeft(VirtioAccess, d, writes)
PreparedDevice(status) ==
  Written(NewVirtio("blk"),
    <<Write("status", {"ack"})>> \o (IF "driver" \in status THEN <<Write("status", status)>> ELSE <<>>))
FirstStatus  == {"ack"}
SecondStatus == {"ack", "driver"}
TwoBlkParts  == Devices \o FullParts

\* Canonical order, and each device with its own state.
TwoBlkContract ==
  FullContract \o <<Captured("dev1", [status |-> FirstStatus]), Captured("dev2", [status |-> SecondStatus])>>
TwoBlkCorrupt ==
  CorruptAll(<<<<"page", 0>>, <<"cpu0", 0>>>> \o ChipsCorrupt \o <<<<"dev1", 0>>, <<"dev2", 0>>>>)
    \o Differs(TwoBlkParts)

\* restore_and_verify: both live devices quiescent before anything is
\* written, the controller exact, then both devices.
BothQuiescent == <<DeviceIs(1, Quiescent), DeviceIs(2, Quiescent)>>
TwoBlkRestore(guestParts) ==
  BothQuiescent \o Restores(guestParts) \o Matches(guestParts) \o Restores(ChipParts)
    \o Matches(guestParts \o ChipParts) \o Restores(Devices) \o Matches(guestParts \o ChipParts \o Devices)
TwoBlkStatuses == <<DeviceIs(1, [status |-> FirstStatus]), DeviceIs(2, [status |-> SecondStatus])>>
TwoBlkCarried(versioned) == Carried(versioned) \o TwoBlkContract
TwoBlkResume == FullResume
TwoBlkFixture(versioned) ==
  [Solo(FullGates, FullCode, OnePage("page", "junk"), [page |-> Zero],
     <<Setup>> \o ConfigureIoapic \o QuiescentAt(FullGuest, "C") \o Captures(TwoBlkParts) \o FullContract
       \o TwoBlkCarried(versioned) \o TwoBlkCorrupt \o TwoBlkRestore(GuestParts)
       \o TwoBlkStatuses \o TwoBlkResume)
   EXCEPT !.dev = <<PreparedDevice(FirstStatus), PreparedDevice(SecondStatus)>>]
TwoBlkDirect    == TwoBlkFixture(FALSE)
TwoBlkVersioned == TwoBlkFixture(TRUE)

-----------------------------------------------------------------------------
\* transaction_coupled_dual_device_replay.rs

ReadyWrites(d) ==
  <<Write("status", {"ack"}), Write("status", {"ack", "driver"}), Write("gfsel", 1), Write("gf", {"v1"}),
    Write("status", {"ack", "driver", "features"}), Write("qsel", 0), Write("qsize", 4),
    Write("descLo", Queues[d].desc), Write("descHi", Unset), Write("availLo", Queues[d].avail),
    Write("availHi", Unset), Write("usedLo", Queues[d].used), Write("usedHi", Unset), Write("qon", 1),
    Write("status", Known)>>
ReadyDevice(d) == Written(NewVirtio("blk"), ReadyWrites(d))
CoupledChain(d, flags) ==
  <<Desc(Queues[d].hdr, 16, {"NEXT"}, 1), Desc(Queues[d].data, SectorSize, flags, 2),
    Desc(Queues[d].status, 1, {"WRITE"}, 0)>>
QueueInit(d, type, flags, data) ==
  AtQueue(d, [desc |-> CoupledChain(d, flags), avail |-> Avail(0), used |-> EmptyUsed, hdr |-> Header(type, 0),
              data |-> data, status |-> "0xff"])
ReadQueue(d) == QueueInit(d, "in", {"NEXT", "WRITE"}, <<Zero>>)

CoupledStart == <<Cli, InitPic({0, 1}), Sti, Nop, Out("C"), Nop>>
CoupledChecks(d) ==
  LET q == Queues[d] IN
  <<LoadIdx(q.used), Must(1), LoadUsed(q.used, 0), Must(Element(513)), Load(q.status), Must("OK"),
    Load(q.data), Must(<<Sector0>>)>>
CoupledNotify(d, n, marker) ==
  <<Store(Queues[d].avail, Avail(n)), MmioWrite(d, "notify", 0), Out(marker)>>
EmitRequest(d, notify, resumed) ==
  <<Cli>> \o CoupledNotify(d, 1, notify) \o <<Sti, Hlt>> \o CoupledChecks(d) \o <<Out(resumed)>>
CoupledGuest ==
  CoupledStart \o EmitRequest(1, "A", "M") \o EmitRequest(2, "B", "N") \o <<Out("D"), Nop, Hlt>>
CoupledHandler(d, marker, ack) ==
  <<Out(marker), MmioRead(d, "isr"), Must(1), Out(ack), PicEoi, Iretq>>
CoupledGates == ("0x40" :> "first") @@ ("0x41" :> "second")
CoupledCode(main) ==
  [bsp |-> main, first |-> CoupledHandler(1, "0", "a"), second |-> CoupledHandler(2, "1", "b"), ud2 |-> <<Ud2>>]
CoupledFixture(main, memory, procedure) ==
  [Solo(CoupledGates, CoupledCode(main), CoupledPages, memory, procedure)
   EXCEPT !.dev = <<ReadyDevice(1), ReadyDevice(2)>>]

CoupledGuestParts == <<"queue", "queue2", "cpu0">>
CoupledParts      == Devices \o CoupledGuestParts \o ChipParts
Quiesced(code, b) == Barrier(BSP, "bsp", code, b, {TRUE})
CoupledToCapture(code) == <<Fresh>> \o Quiesced(code, "C") \o <<Proof(BSP, <<"C">>)>>
ReadyDevices == <<DeviceIs(1, Ready), DeviceIs(2, Ready)>>
CoupledCapture  == Captures(CoupledParts) \o <<CapturedIndices("dev1", 0), CapturedIndices("dev2", 0)>>
CoupledCorrupt ==
  CorruptAll(<<<<"queue", 0>>, <<"queue2", 0>>, <<"cpu0", 0>>, <<"master", 0>>, <<"slave", 8>>,
               <<"dev1", 0>>, <<"dev2", 0>>>>)
CoupledMismatch == Differs(CoupledGuestParts \o <<"master", "slave">> \o Devices)

\* queue_indices: of a device that owes nothing.
QueueIndices(d, n) == DeviceIs(d, Quiescent @@ [avail |-> n, used |-> n])
CoupledRestore  == TwoBlkRestore(CoupledGuestParts)
CoupledRestored == <<QueueIndices(1, 0), QueueIndices(2, 0)>>

\* service_accelerated_notification
Accelerated(d, atomic) == <<NoEvent, Bell(d), HostNotify(d), Process(d, atomic), Irq(d)>>
CoupledReplay ==
  <<Fresh, Budget(24), RunTo("A", {"B", "D"})>> \o Accelerated(1, FALSE) \o <<RunTo("B", {"A", "D"})>>
    \o Accelerated(2, FALSE)
    \o <<RunTo("D", {"A", "B"}), Proof(BSP, <<"A", "0", "a", "M", "B", "1", "b", "N", "D">>),
         Completed(<<BlkElement(513, 0), BlkElement(513, 0)>>), NoEvent,
         Retire(BSP, "bsp", After(CoupledGuest, "D"), {TRUE})>>

\* The registrations exist for the replay only, whatever it returns.
Registered(gsis, s) == <<Register(gsis)>> \o OrDeassign(s) \o <<Deassign>>
CoupledEnd(n, first, second) ==
  <<QueueIndices(1, n), QueueIndices(2, n), Memory([data |-> first, data2 |-> second]),
    BackingIs(1, 0, first), BackingIs(2, 0, second)>>
CoupledReplayFixture ==
  CoupledFixture(CoupledGuest, ReadQueue(1) @@ ReadQueue(2),
    <<Setup>> \o CoupledToCapture(CoupledGuest) \o ReadyDevices \o CoupledCapture \o <<Transport>> \o CoupledCorrupt
      \o CoupledMismatch \o CoupledRestore \o CoupledRestored \o Registered(<<0, 1>>, CoupledReplay)
      \o CoupledEnd(1, <<Sector0>>, <<Sector0>>))

-----------------------------------------------------------------------------
\* write_readback: each device writes its own payload and reads it back

Payload(d) == IF d = 1 THEN <<"payload">> ELSE <<"payload2">>
WriteQueue(d) == QueueInit(d, "out", {"NEXT"}, Payload(d))
WriteDone(d) ==
  LET q == Queues[d] IN
  <<LoadIdx(q.used), Must(1), LoadUsed(q.used, 0), Must(Element(1)), Load(q.status), Must("OK")>>
ReadDone(d) ==
  LET q == Queues[d] IN
  <<LoadIdx(q.used), Must(2), LoadUsed(q.used, 1), Must(Element(513)), Load(q.status), Must("OK"),
    Load(q.data), Must(Payload(d))>>
TurnToRead(d) ==
  <<Store(Queues[d].desc, CoupledChain(d, {"NEXT", "WRITE"})), Store(Queues[d].hdr, Header("in", 0)),
    Store(Queues[d].status, "0xff"), Store(Queues[d].data, <<"fill">>)>>
EmitWriteThenRead(d, m) ==
  <<Cli>> \o CoupledNotify(d, 1, m[1]) \o <<Sti, Hlt>> \o WriteDone(d) \o <<Out(m[2]), Cli>> \o TurnToRead(d)
    \o CoupledNotify(d, 2, m[3]) \o <<Sti, Hlt>> \o ReadDone(d) \o <<Out(m[4])>>
WriteReadGuest ==
  CoupledStart \o EmitWriteThenRead(1, <<"W", "M", "R", "X">>) \o EmitWriteThenRead(2, <<"Y", "N", "Z", "Q">>)
    \o <<Out("D"), Nop, Hlt>>
WriteReadProof ==
  <<"W", "0", "a", "M", "R", "0", "a", "X", "Y", "1", "b", "N", "Z", "1", "b", "Q", "D">>

\* service_write_readback_notification: after a write the backing store
\* must hold the payload before the interrupt is signalled.
Marks == {"W", "R", "Y", "Z", "D"}
ServeWrite(d, b) ==
  <<RunTo(b, Marks \ {b}), NoEvent, Bell(d), HostNotify(d), Process(d, TRUE), BackingIs(d, 0, Payload(d)), Irq(d)>>
ServeRead(d, b) == <<RunTo(b, Marks \ {b})>> \o Accelerated(d, TRUE)
WriteReadDone == <<BlkElement(1, 0), BlkElement(513, 0), BlkElement(1, 0), BlkElement(513, 0)>>
WriteReadReplay ==
  <<Fresh, Budget(40)>> \o ServeWrite(1, "W") \o ServeRead(1, "R") \o ServeWrite(2, "Y") \o ServeRead(2, "Z")
    \o <<RunTo("D", Marks \ {"D"}), Proof(BSP, WriteReadProof), Completed(WriteReadDone), NoEvent,
         Retire(BSP, "bsp", After(WriteReadGuest, "D"), {TRUE})>>
WriteReadEnd ==
  CoupledCorrupt \o CoupledMismatch \o CoupledRestore \o CoupledRestored \o Registered(<<0, 1>>, WriteReadReplay)
    \o CoupledEnd(2, Payload(1), Payload(2))
WriteReadFixture ==
  CoupledFixture(WriteReadGuest, WriteQueue(1) @@ WriteQueue(2),
    <<Setup>> \o CoupledToCapture(WriteReadGuest) \o ReadyDevices \o CoupledCapture \o <<Transport>> \o WriteReadEnd)

-----------------------------------------------------------------------------
\* acceleration_checkpoint_quiescence: a rung doorbell refuses the capture

PendingGuest ==
  CoupledStart \o <<Cli>> \o CoupledNotify(1, 1, "P") \o <<Nop, Cli, Sti, Hlt>> \o CoupledChecks(1)
    \o <<Out("S"), Out("D"), Nop, Hlt>>
PendingQuiesced == Barrier(BSP, "bsp", PendingGuest, "P", {FALSE})
PendingRefused ==
  <<Fresh>> \o PendingQuiesced
    \o <<NoEvent, BellsAre({1}), CaptureRefused(1), BellsAre({1}), Bell(1), BellsAre({})>>
PendingServed ==
  <<HostNotify(1), Process(1, TRUE), Completed(<<BlkElement(513, 0)>>), Irq(1)>>
PendingFinished ==
  <<Budget(16), RunTo("D", {}), Proof(BSP, <<"P", "0", "a", "S", "D">>),
    Retire(BSP, "bsp", After(PendingGuest, "D"), {TRUE}), QueueIndices(1, 1), QueueIndices(2, 0)>>
PendingCaptured ==
  <<BellsAre({})>> \o Captures(CoupledParts) \o <<CapturedIndices("dev1", 1), CapturedIndices("dev2", 0)>>
PendingFixture ==
  CoupledFixture(PendingGuest, ReadQueue(1) @@ ReadQueue(2),
    <<Setup>> \o CoupledToCapture(PendingGuest) \o ReadyDevices
      \o Registered(<<0, 1>>, PendingRefused \o PendingServed \o PendingFinished \o PendingCaptured))

-----------------------------------------------------------------------------
\* kvm/host_registration_pair.rs: two generations of the same registrations

Ring1 == MmioWrite(1, "notify", 0)
Ring2 == MmioWrite(2, "notify", 0)
Armed(ring, armed, resumed) == <<ring, Out(armed), Sti, Hlt, Out(resumed)>>
GenerationsGuest ==
  <<Cli, InitPic({0, 1}), Out("R")>> \o Armed(Ring1, "A", "M") \o <<Cli>> \o Armed(Ring2, "B", "N")
    \o <<Cli, Out("C")>> \o Armed(Ring1, "E", "P") \o <<Cli>> \o Armed(Ring2, "F", "Q") \o <<Out("D"), Hlt>>
FirstIrqHandler  == <<Out("0"), PicEoi, Iretq>>
SecondIrqHandler == <<Out("1"), PicEoi, Iretq>>

\* run_two_host_registration_irq_handoff: a second thread pulses the GSI
\* when the handler's byte does not come; that is no proof of the irqfd.
Handoff(g, byte) ==
  <<SetLine(g, FALSE), Spawn, RunOr(BSP, byte, "cancel"), SendAnyway("command", "cancel"), Join, NotGuarded>>
Generation(d, armed, g, byte, resumed) ==
  <<Run(BSP, armed), IfIs(BSP, FALSE), Bell(d), Irq(d)>> \o Handoff(g, byte) \o <<Run(BSP, resumed)>>
GenerationsMain ==
  <<Setup, Run(BSP, "R"), IfIs(BSP, FALSE), Register(<<0, 1>>)>> \o Generation(1, "A", 0, "0", "M")
    \o Generation(2, "B", 1, "1", "N") \o <<Run(BSP, "C"), IfIs(BSP, FALSE), Deassign, Register(<<0, 1>>)>>
    \o Generation(1, "E", 0, "0", "P") \o Generation(2, "F", 1, "1", "Q")
    \o <<Run(BSP, "D"), IfIs(BSP, TRUE), Deassign,
         Proof(BSP, <<"R", "A", "0", "M", "B", "1", "N", "C", "E", "0", "P", "F", "1", "Q", "D">>)>>
GenerationsFixture ==
  [Alone(CoupledGates, [bsp |-> GenerationsGuest, first |-> FirstIrqHandler, second |-> SecondIrqHandler], <<>>,
     GenerationsMain)
   EXCEPT !.worker = <<Guard(0), Guard(1), Guard(0), Guard(1)>>]

CheckpointPairSuite ==
  [twoBlk |-> TwoBlkDirect, twoBlkV1 |-> TwoBlkVersioned, dualReplay |-> CoupledReplayFixture,
   writeRead |-> WriteReadFixture, pending |-> PendingFixture, generations |-> GenerationsFixture]
=============================================================================
