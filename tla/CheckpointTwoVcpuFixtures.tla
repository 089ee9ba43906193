---------------------- MODULE CheckpointTwoVcpuFixtures ----------------------
(***************************************************************************)
(* The fixtures of state_snapshot/page_set/ with two vCPUs and two block   *)
(* devices: one checkpoint owns both vCPUs, every controller, both devices *)
(* and the pair of registrations, and may carry a token for a request that *)
(* was notified but not served, or served but not announced.               *)
(***************************************************************************)
EXTENDS CheckpointPairFixtures

\* let x = call()?; if x is wrong { return cleanup_error(registrations, ..) }
OnVerdict(s) == [i \in 1..Len(s) |-> Else(s[i], "verdict")]
Quiet == OnVerdict(<<BellsAre({})>>)

\* BoundedTwoVcpuFullControllerTwoVirtioBlkCheckpoint, and the transaction
\* around it: doorbells quiet at capture, and the registrations given back.
TwoDeviceParts(pages) == Devices \o pages \o PairAll
TwoDeviceCapture(pages) == OrDeassign(<<BellsAre({})>> \o Captures(TwoDeviceParts(pages))) \o <<Deassign>>

\* restore_and_verify: with a token the live devices are not looked at before
\* they are replaced.
TwoDeviceRestore(pages, token) ==
  (IF token = <<>> THEN BothQuiescent ELSE <<>>) \o Restores(pages) \o PairRestore \o Restores(Devices)
    \o Matches(TwoDeviceParts(pages))

\* restore_and_reconstruct: the registrations come last and may change
\* nothing.
Reconstruct(pages, gsis, token) ==
  TwoDeviceRestore(pages, token) \o <<Register(gsis)>>
    \o OrDeassign(<<BellsAre({})>> \o Matches(TwoDeviceParts(pages)))

-----------------------------------------------------------------------------
\* two_vcpu_two_device_transaction_guest.rs: the guests of the two-vCPU
\* full-controller fixture, with two devices they do not use

TwoDeviceBarrier(v, code, b) == Barrier(v, HaltBlock(v), code, b, BOOLEAN)
TwoDeviceBarriers(marks) ==
  TwoDeviceBarrier(BSP, BarrierGuest(0), marks[1]) \o TwoDeviceBarrier(AP, BarrierGuest(1), marks[2])
TwoDeviceContract ==
  <<Captured("dev1", [status |-> FirstStatus]), Captured("dev2", [status |-> SecondStatus])>>
TwoDeviceCorrupt(pages) ==
  CorruptAll([i \in 1..Len(pages) |-> <<pages[i], 0>>]) \o PairCorrupt
    \o CorruptAll(<<<<"dev1", 0>>, <<"dev2", 0>>>>)
TwoDeviceMismatch(pages) == Differs(TwoDeviceParts(pages))
TwoDeviceCarried(versioned) == Carried(versioned) \o TwoDeviceContract
TwoDeviceStatuses  == OrDeassign(TwoBlkStatuses \o <<BellsAre({})>>)
TwoDeviceResume    == OrDeassign(TwoDeviceBarriers(<<"0", "1">>)) \o <<Deassign>>
TwoDevice(versioned) ==
  [Pair([bsp |-> BarrierGuest(0), ap |-> BarrierGuest(1), fail |-> PairFail], PairPages, PairMemory,
     <<Setup, MpIs(BSP, "runnable"), MpIs(AP, "runnable"), Register(<<0, 1>>)>>
       \o TwoDeviceBarriers(<<"A", "B">>) \o Quiet \o TwoDeviceCapture(<<>>) \o TwoDeviceCarried(versioned)
       \o TwoDeviceCorrupt(<<>>) \o TwoDeviceMismatch(<<>>) \o Reconstruct(<<>>, <<0, 1>>, <<>>)
       \o TwoDeviceStatuses \o TwoDeviceResume)
   EXCEPT !.dev = <<PreparedDevice(FirstStatus), PreparedDevice(SecondStatus)>>]
TwoDeviceDirect    == TwoDevice(FALSE)
TwoDeviceVersioned == TwoDevice(TRUE)

-----------------------------------------------------------------------------
\* restored_multi_producer_data_plane_replay.rs: a producer on each vCPU,
\* its device's interrupt bound to it

ProducerMarks(i) == IF i = 0 THEN <<"W", "M", "R", "X", "D">> ELSE <<"Y", "N", "Z", "Q", "E">>
ProducerProof(i) ==
  IF i = 0 THEN <<"W", "0", "a", "M", "R", "0", "a", "X", "D">>
  ELSE <<"Y", "1", "b", "N", "Z", "1", "b", "Q", "E">>
ProducerGuest(i) ==
  PairBefore(i) \o <<Out(BarrierMark(i)), Nop, Load(PairStack(i)), Must(PairMark(i)), Load("shared"), Must("S")>>
    \o EmitWriteThenRead(i + 1, ProducerMarks(i)) \o <<Out(ProducerMarks(i)[5]), Nop, Hlt>>
ProducerHandler(d, marker, ack) ==
  <<Out(marker), MmioRead(d, "isr"), Must(1), Out(ack), LapicEoi, Iretq>>
ProducerGates == ("0x50" :> "first") @@ ("0x51" :> "second")
ProducerIoapic == <<SetPin(16, "0x50", BSP), SetPin(17, "0x51", AP)>>
ProducerPages == <<"queue", "queue2">>
Producers(main) ==
  [Pair([bsp |-> ProducerGuest(0), ap |-> ProducerGuest(1), first |-> ProducerHandler(1, "0", "a"),
         second |-> ProducerHandler(2, "1", "b"), ud2 |-> <<Ud2>>],
     PairPages @@ CoupledPages, PairMemory @@ WriteQueue(1) @@ WriteQueue(2), main)
   EXCEPT !.gates = ProducerGates, !.extint = {BSP, AP}, !.dev = <<ReadyDevice(1), ReadyDevice(2)>>]
ProducersSetup ==
  <<Setup, MpIs(BSP, "runnable"), MpIs(AP, "runnable")>> \o ProducerIoapic \o ReadyDevices
    \o <<Register(<<16, 17>>)>>
ProducerBarriers ==
  TwoDeviceBarrier(BSP, ProducerGuest(0), "A") \o TwoDeviceBarrier(AP, ProducerGuest(1), "B") \o Quiet
ProducersCorrupt == TwoDeviceCorrupt(ProducerPages) \o TwoDeviceMismatch(ProducerPages)

\* run_bound_producer: its own debug port and its own exits.
RunVcpuTo(v, b, others) == Step("to", v, <<b, others>>, "drop")
ProducerWrite(i, others) ==
  <<RunVcpuTo(i, ProducerMarks(i)[1], others), NoEvent, Bell(i + 1), HostNotify(i + 1), Process(i + 1, TRUE),
    BackingIs(i + 1, 0, Payload(i + 1)), Irq(i + 1)>>
ProducerRead(i, others) ==
  <<RunVcpuTo(i, ProducerMarks(i)[3], others)>> \o Accelerated(i + 1, TRUE)
ProducerDone(i) ==
  <<RunVcpuTo(i, ProducerMarks(i)[5], {ProducerMarks(i)[1], ProducerMarks(i)[3]}), Proof(i, ProducerProof(i)),
    Completed(<<BlkElement(1, 0), BlkElement(513, 0)>>)>>
ProducerQuiesced(i) ==
  <<Retire(i, HaltBlock(i), After(ProducerGuest(i), ProducerMarks(i)[5]), {TRUE})>>
BoundProducer(i) ==
  LET m == ProducerMarks(i) IN
  <<Fresh, Budget(32)>> \o ProducerWrite(i, {m[3], m[5]}) \o ProducerRead(i, {m[1], m[5]}) \o ProducerDone(i)
    \o <<NoEvent>> \o ProducerQuiesced(i)
ProducersReplay ==
  ReadyDevices \o CoupledRestored \o Quiet \o OnVerdict(Matches(<<"ioapic">>))
    \o OrDeassign(BoundProducer(0) \o BoundProducer(1)) \o <<Deassign>>
MultiProducer ==
  Producers(ProducersSetup \o ProducerBarriers \o TwoDeviceCapture(ProducerPages) \o <<Transport>>
    \o ProducersCorrupt \o Reconstruct(ProducerPages, <<16, 17>>, <<>>) \o ProducersReplay
    \o CoupledEnd(2, Payload(1), Payload(2)))

-----------------------------------------------------------------------------
\* pending_completion_token_replay.rs and pending_notification_token_replay.rs:
\* the first write is captured half way

\* Up to the notification, with interrupts off until the token is captured.
TokenNotified ==
  <<Fresh, Budget(32), RunVcpuTo(BSP, "W", {}), NoEvent, Bell(1), HostNotify(1)>>
TokenService  == <<Process(1, TRUE)>>
TokenServed   == <<Completed(<<BlkElement(1, 0)>>), BackingIs(1, 0, Payload(1))>>
TokenRetired  == <<Retire(BSP, "bsp", After(ProducerGuest(0), "W"), {FALSE})>>
\* service_first_write_without_irq, capture_first_write_notification_without_service
TokenFirstWrite(token) ==
  TokenNotified \o (IF token[2] = "completion" THEN TokenService \o TokenServed ELSE <<>>) \o TokenRetired

TokenIndices(token) == IF token[2] = "completion" THEN 1 ELSE 0
TokenBoundary(token) == <<Indices(1, TokenIndices(token)), Indices(2, 0)>>
TokenUnserved(token) == IF token[2] = "notification" THEN <<BackingIs(1, 0, <<Sector0>>)>> ELSE <<>>

\* The ordinary capture refuses the device; with the token it is captured.
TokenCapture(token) ==
  OrDeassign(TokenBoundary(token) \o TokenUnserved(token)) \o Quiet \o OrDeassign(<<CaptureRefused(1)>>)
    \o TwoDeviceCapture(ProducerPages)
    \o <<Captured("dev1", [avail |-> TokenIndices(token), used |-> TokenIndices(token)])>>

\* The restored device still owes the notification, which is then served.
TokenOwed == <<DeviceIs(1, [notify |-> TRUE, isr |-> 0])>>
TokenRestored(token) ==
  Quiet \o OrDeassign(TokenBoundary(token))
    \o (IF token[2] = "notification" THEN TokenOwed \o TokenService \o OrDeassign(TokenServed) ELSE <<>>)
    \o <<Irq(1)>>

\* resume_first_producer_after_pending_completion
TokenReplay ==
  OrDeassign(<<Budget(32)>> \o ProducerRead(0, {"D"}) \o ProducerDone(0) \o ProducerQuiesced(0)) \o <<Deassign>>
TokenEnd ==
  <<QueueIndices(1, 2), QueueIndices(2, 0), Memory([data |-> Payload(1)]), BackingIs(1, 0, Payload(1))>>
TokenFixture(token) ==
  [Producers(ProducersSetup \o ProducerBarriers \o TokenFirstWrite(token) \o TokenCapture(token) \o <<Transport>>
     \o ProducersCorrupt \o Reconstruct(ProducerPages, <<16, 17>>, token) \o TokenRestored(token) \o TokenReplay \o TokenEnd)
   EXCEPT !.token = token]
PendingCompletion   == TokenFixture(<<"dev1", "completion">>)
PendingNotification == TokenFixture(<<"dev1", "notification">>)

CheckpointTwoVcpuSuite ==
  [twoDevice |-> TwoDeviceDirect, twoDeviceV1 |-> TwoDeviceVersioned, producers |-> MultiProducer,
   completion |-> PendingCompletion, notification |-> PendingNotification]
=============================================================================
