------------------------ MODULE CheckpointBlkFixtures ------------------------
(***************************************************************************)
(* The fixtures of state_snapshot/page_set/ that checkpoint one virtio     *)
(* block device with the guest: between two requests, or with every        *)
(* interrupt controller and with the device behind eventfds.  The request  *)
(* served after the capture is served again after the restore.             *)
(***************************************************************************)
EXTENDS CheckpointFixtures, VirtioBlkFixtures

\* The page that holds the rings and buffers of the device.
QueueMemory == VirtioMemory(<<Zero>>)
QueuePage == "queue" :> [l \in {"desc", "avail", "used", "hdr", "data", "status"} |-> QueueMemory[l]]
Indices(d, n) == DeviceIs(d, [avail |-> n, used |-> n])
CapturedIndices(p, n) == Captured(p, [avail |-> n, used |-> n, notify |-> FALSE, isr |-> 0])

-----------------------------------------------------------------------------
\* virtio_blk_guest.rs: captured after a write, the readback is replayed

WriteThenHalt ==
  Capacity4 \o Negotiate(4) \o <<Out("B")>> \o WriteSetup(FALSE) \o <<Notify, Out("W")>> \o FirstChecks
    \o ReadIsr(1) \o <<Out("O"), Hlt>>
ReadBackAndHalt ==
  ReadbackSetup(FALSE) \o <<Notify, Out("N")>> \o SecondChecks \o ReadIsr(1) \o <<Out("R"), Out("D"), Hlt>>
HaltedBlkGuest == WriteThenHalt \o ReadBackAndHalt
HaltedBlkGuestPart == <<"queue", "cpu0">>
HaltedBlkParts == HaltedBlkGuestPart \o <<"dev1">>

\* process_checkpoint_notification, and the accesses the host must have seen.
HaltedServe         == ServeQueue(TRUE)
HaltedWriteAccesses == CapacityRead \o Negotiated(4) \o Notified \o IsrRead
HaltedReadAccesses  == Notified \o IsrRead
HaltedWrite ==
  <<Budget(25), RunTo("W", {})>> \o HaltedServe
    \o <<RunTo("hlt", {"W"}), Stopped(BSP, "bsp", Len(WriteThenHalt) + 1), Proof(BSP, <<"B", "W", "O">>),
         Accesses(HaltedWriteAccesses), Completed(<<BlkElement(1, 0)>>),
         NoEvent, BackingIs(1, 0, <<"payload">>)>>
HaltedBlkCapture == Captures(HaltedBlkParts) \o <<CapturedIndices("dev1", 1)>>
HaltedReadback ==
  <<Fresh, Budget(6), RunTo("N", {})>> \o HaltedServe
    \o <<RunTo("hlt", {"N"}), Stopped(BSP, "bsp", Len(HaltedBlkGuest) + 1), Proof(BSP, <<"N", "R", "D">>),
         Accesses(HaltedReadAccesses), Completed(<<BlkElement(513, 0)>>), NoEvent>>
HaltedMismatch == Differs(HaltedBlkParts) \o <<Indices(1, 2)>>
HaltedBlkRestore ==
  Restores(HaltedBlkGuestPart) \o Matches(HaltedBlkGuestPart) \o Restores(<<"dev1">>) \o Matches(HaltedBlkParts)
    \o <<NoEvent, Indices(1, 1), BackingIs(1, 0, <<"payload">>)>>
HaltedBlkEnd == <<Indices(1, 2), BackingIs(1, 0, <<"payload">>), Memory([data |-> <<"payload">>])>>
HaltedBlk ==
  WithPages(WithoutIrqchip(VirtioFixture(<<>>, [bsp |-> HaltedBlkGuest, ud2 |-> <<Ud2>>], "blk", NewBlk,
    <<"payload">>,
    <<Setup>> \o HaltedWrite \o HaltedBlkCapture \o HaltedReadback \o HaltedMismatch \o HaltedBlkRestore
      \o HaltedReadback \o HaltedBlkEnd)), QueuePage)

-----------------------------------------------------------------------------
\* full_controller_virtio_blk_guest.rs: captured before the only request

\* Interrupts stay off from the notification to the adjacent STI and HLT, so
\* that no check runs before the handler did.
RequestGuest ==
  <<Cli, InitPic({0}), Sti, Nop>> \o Capacity4 \o Negotiate(4) \o BlkRingSetup \o <<Out("C"), Nop, Cli>>
    \o <<Notify, Out("N"), Sti, Hlt>> \o BlkChecks \o ReadIsr(0) \o <<Out("R"), Out("D"), Nop, Hlt>>
RequestHandler == <<Out("I")>> \o ReadIsr(1) \o <<Out("A"), PicEoi, Iretq>>
RequestGuestPart == <<"queue", "cpu0">>
RequestController == RequestGuestPart \o ChipParts
RequestParts == RequestController \o <<"dev1">>

\* run_single_step_to_quiescence
RequestQuiesced(b) == Retire(BSP, "bsp", After(RequestGuest, b), {TRUE})

\* run_setup_to_quiescent_capture: the exits are counted exactly.
RequestToCapture ==
  <<Budget(20), RunTo("C", {}), Spent, Proof(BSP, <<"C">>),
    RequestQuiesced("C")>>
RequestReady == <<DeviceIs(1, Ready)>>
RequestCapture == Captures(RequestParts) \o <<CapturedIndices("dev1", 0)>>

\* run_request_phase: through the bus and the interrupt line, or through the
\* device's doorbell and irqfd.
RequestNotified(fds) ==
  IF fds THEN <<NoEvent, Bell(1), HostNotify(1), Process(1, FALSE), Irq(1)>>
  ELSE ServeQueue(FALSE) \o <<SetLine(0, TRUE)>>
RequestAccesses(fds) == (IF fds THEN <<>> ELSE Notified) \o IsrRead \o IsrRead
RequestServed(fds) ==
  <<Fresh, Budget(IF fds THEN 7 ELSE 8), RunTo("N", {"A", "D"})>> \o RequestNotified(fds)
    \o <<RunTo("A", {"N", "D"})>> \o (IF fds THEN <<>> ELSE <<SetLine(0, FALSE)>>)
    \o <<RunTo("D", {"N", "A"}), Spent, NoEvent,
         Accesses(RequestAccesses(fds)),
         Proof(BSP, <<"N", "I", "A", "R", "D">>), Completed(<<BlkElement(513, 0)>>),
         RequestQuiesced("D")>>

\* Wrong on purpose: the error returns before the cleanup.
OrForgotten(s) == s

\* run_request_with_transport: whatever the phase returned, the
\* registrations it ran with are given back.
OrDeassign(s) == [i \in 1..Len(s) |-> Else(s[i], "deassign")]
Request(fds) ==
  IF fds THEN <<Register(<<0>>)>> \o OrDeassign(RequestServed(TRUE)) \o <<Deassign>> ELSE RequestServed(FALSE)

\* require_request_memory and the state of the device.
RequestMemory ==
  <<Memory([used |-> Used(1, <<Element(513)>>), data |-> <<Sector0>>, status |-> "OK"]),
    DeviceIs(1, [avail |-> 1, used |-> 1, notify |-> FALSE, isr |-> 0])>>
RequestCorrupt  == CorruptAll(ChipsCorrupt)
RequestMismatch == Differs(RequestParts)
RequestRestore ==
  Restores(RequestGuestPart) \o Matches(RequestGuestPart) \o Restores(ChipParts) \o Matches(RequestController)
    \o Restores(<<"dev1">>) \o Matches(RequestParts)
RequestExact == <<NoEvent, Indices(1, 0)>>
RequestEnd == <<BackingIs(1, 0, <<Sector0>>)>>
RequestCarried(versioned) == Carried(versioned) \o <<CapturedIndices("dev1", 0)>>
RequestMain(versioned, fds) ==
  <<Setup>> \o RequestToCapture \o RequestReady \o <<NoEvent>> \o RequestCapture
    \o RequestCarried(versioned) \o Request(fds) \o RequestMemory \o RequestCorrupt \o RequestMismatch
    \o RequestRestore \o RequestExact \o Request(fds) \o RequestMemory \o RequestEnd
RequestFixture(versioned, fds) ==
  WithPages(VirtioFixture(FirstGate, [bsp |-> RequestGuest, handler |-> RequestHandler, ud2 |-> <<Ud2>>], "blk",
    NewBlk, <<Zero>>, RequestMain(versioned, fds)), QueuePage)
RequestDirect               == RequestFixture(FALSE, FALSE)
RequestVersioned            == RequestFixture(TRUE, FALSE)
RequestRegistered           == RequestFixture(FALSE, TRUE)
RequestVersionedRegistered  == RequestFixture(TRUE, TRUE)
RequestTransaction          == RequestFixture(TRUE, TRUE)    \* the decoded registration is used

CheckpointBlkSuite ==
  [haltedBlk |-> HaltedBlk, request |-> RequestDirect, requestV1 |-> RequestVersioned,
   requestFds |-> RequestRegistered, requestFdsV1 |-> RequestVersionedRegistered,
   requestTransaction |-> RequestTransaction]
=============================================================================
