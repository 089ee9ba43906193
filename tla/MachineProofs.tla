---------------------------- MODULE MachineProofs ---------------------------
(***************************************************************************)
(* The safety of the machine as a whole: the loop that runs its vCPU, and  *)
(* the transaction that checkpoints and restores vCPUs, devices and host   *)
(* registrations together.                                                 *)
(***************************************************************************)
EXTENDS ExecutionLoop, CheckpointTransaction, TLAPS

-----------------------------------------------------------------------------
(***************************************************************************)
(* Proofs about ExecutionLoop for every exit budget, every mapping size    *)
(* and every set of exits KVM may report.                                  *)
(***************************************************************************)

\* Every exit of the sequence is one the loop goes round after.
AllContinue(s) == \A i \in DOMAIN s : Disposition(s[i]) = "continue"

\* What the loop knows at each of its points: between two entries the caller's trace is
\* the kernel's history, and while an exit is being served it is one exit behind.
LoopInv ==
    /\ completed \in Seq(Exits) /\ trace \in Seq(Exits) /\ exitReasons = Reasons(completed)
    /\ Len(completed) <= Limit
    /\ pc \in {"entry", "exit", "served", "returned"}
    /\ pc # "returned" => result = Running /\ AllContinue(trace)
    /\ pc = "entry" => trace = completed
    /\ pc \in {"exit", "served"} => page.exit \in Exits /\ completed = Append(trace, page.exit)
    /\ (pc = "served" \/ (pc = "entry" /\ completed # <<>>)) =>
          /\ page.exit \in Exits
          /\ Disposition(page.exit) = "continue" /\ page.response = Response(page.exit)
    /\ TraceIsWhole /\ ExhaustionHidesNothing

\* dispatch_vcpu_exit never reports an exhausted budget: that result is the loop's own.
LEMMA DispositionKind ==
    ASSUME NEW e \in Exits
    PROVE  Disposition(e) \notin {"running", "exhausted"}
<1> USE LoopAssumption
<1>1. CASE e \in IoExits
  <2>1. e.reason = "io"
    BY <1>1
  <2>. QED  BY <2>1 DEF Disposition, Stops
<1>2. CASE e \in MmioExits
  <2>1. e.reason = "mmio"
    BY <1>2
  <2>. QED  BY <2>1 DEF Disposition, Stops
<1>3. CASE e \in Plain
  <2>1. e.reason \in {"hlt", "shutdown", "debug", "unknown", "exception", "fail_entry", "unhandled"}
    BY <1>3 DEF Plain
  <2>. QED  BY <2>1 DEF Disposition, Stops
<1>4. CASE e \in Counted
  <2>1. e.reason \in {"internal", "system"}
    BY <1>4 DEF Counted
  <2>. QED  BY <2>1 DEF Disposition, Stops, InternalError, SystemEvent
<1>. QED  BY <1>1, <1>2, <1>3, <1>4 DEF Exits

\* A read that dispatch_vcpu_exit served is answered in full, where KVM looks, inside
\* the mapping: what the buses accept leaves the response no other size.
LEMMA ServedReadAnswered ==
    ASSUME NEW e \in Exits, Disposition(e) = "continue", IsRead(e)
    PROVE  LET r == Response(e)
           IN  /\ r.length = IF e.reason = "io" THEN e.size * e.count ELSE e.length
               /\ r.at = IF e.reason = "io" THEN e.offset ELSE 0
               /\ e.reason = "io" => r.at + r.length <= MappingSize
<1> USE LoopAssumption
<1>1. CASE e.reason = "io"
  <2>1. e \in IoExits
    BY <1>1 DEF Exits, Plain, Counted
  <2>2. e.size \in Nat /\ e.count \in Nat /\ e.offset \in Nat /\ e.port \in {"debug", "pci", "other"}
    BY <2>1
  <2>3. DecodesIo(e) /\ PortHandles(e)
    BY <1>1 DEF Disposition, Stops
  <2>4. e.count = 1 /\ e.size = IF e.port = "debug" THEN 1 ELSE 4
    BY <2>2, <2>3 DEF PortHandles
  <2>5. e.size * e.count = e.size
    BY <2>2, <2>4
  <2>6. e.offset + e.size <= MappingSize
    BY <2>3, <2>5 DEF DecodesIo, IoRangeFits
  <2>7. Response(e) = [at |-> e.offset, length |-> e.size]
    BY <1>1, <2>4 DEF Response, PortResponse
  <2>. QED  BY <1>1, <2>5, <2>6, <2>7
<1>2. CASE e.reason = "mmio"
  BY <1>2 DEF Response, MmioResponse
<1>. QED  BY <1>1, <1>2 DEF IsRead

\* The reasons record_completed_exit has counted stay those of the completed exits when
\* one more is appended to both.
LEMMA ReasonsAppend ==
    ASSUME NEW s \in Seq(Exits), NEW e \in Exits
    PROVE  Append(Reasons(s), e.reason) = Reasons(Append(s, e))
<1>1. Len(s) \in Nat /\ DOMAIN s = 1 .. Len(s)
  OBVIOUS
<1>2. Reasons(s) \in Seq({x.reason : x \in Exits}) /\ Len(Reasons(s)) = Len(s)
  BY <1>1 DEF Reasons
<1>. QED  BY <1>1, <1>2 DEF Reasons

\* Every step of run_vcpu_until_stopped_with_mmio_observer keeps what the loop knows.
LEMMA LoopStep ==
    LoopInv /\ [LoopNext]_loopVars => LoopInv'
<1> SUFFICES ASSUME LoopInv, [LoopNext]_loopVars PROVE LoopInv'
  OBVIOUS
<1> USE LoopAssumption
<1>1. CASE Exhausted
  <2>1. Len(exitReasons) = Len(completed)
    BY DEF LoopInv, Reasons
  <2>2. Len(completed) = Limit
    BY <1>1, <2>1 DEF Exhausted, RunAllowed, LoopInv
  <2>. QED
    BY <1>1, <2>2 DEF Exhausted, Return, LoopInv, TraceIsWhole, ExhaustionHidesNothing, AllContinue,
       Reasons, Disposition, InternalError, SystemEvent
<1>2. CASE RunFails
  BY <1>2 DEF RunFails, Return, LoopInv, TraceIsWhole, ExhaustionHidesNothing
<1>3. CASE \E e \in Exits : RunOnce(e)
  <2> PICK e \in Exits : RunOnce(e)
    BY <1>3
  <2>1. Len(exitReasons) = Len(completed) /\ Len(completed) \in Nat
    BY DEF LoopInv, Reasons
  <2>2. completed' \in Seq(Exits) /\ Len(completed') <= Limit /\ completed' # <<>>
    BY <2>1 DEF RunOnce, RunAllowed, LoopInv
  <2>3. exitReasons' = Reasons(completed')
    BY ReasonsAppend DEF RunOnce, LoopInv
  <2>4. page'.exit = e /\ completed' = Append(trace', page'.exit)
    BY DEF RunOnce, LoopInv
  <2>5. AllContinue(trace)'
    BY DEF RunOnce, LoopInv, AllContinue, Disposition, InternalError, SystemEvent
  <2>. QED
    BY <2>2, <2>3, <2>4, <2>5 DEF RunOnce, LoopInv, TraceIsWhole, ExhaustionHidesNothing, Running
<1>4. CASE Serve
  <2>1. AllContinue(trace)' /\ Disposition(page.exit)' = "continue"
    BY <1>4 DEF Serve, LoopInv, AllContinue, Disposition, InternalError, SystemEvent
  <2>. QED
    BY <1>4, <2>1 DEF Serve, LoopInv, TraceIsWhole, ExhaustionHidesNothing, Running
<1>5. CASE Stop
  BY <1>5 DEF Stop, Return, LoopInv, TraceIsWhole, ExhaustionHidesNothing
<1>6. CASE DispatchFails
  <2>1. Disposition(page.exit) \notin {"running", "exhausted"}
    BY <1>6, DispositionKind DEF DispatchFails, LoopInv
  <2>. QED
    BY <1>6, <2>1 DEF DispatchFails, Return, AttachCompletedExitTrace, LoopInv, TraceIsWhole,
       ExhaustionHidesNothing
<1>7. CASE Observe
  <2>1. trace' = completed /\ completed' = completed
    BY <1>7 DEF Observe, LoopInv
  <2>2. Disposition(page.exit) = "continue" /\ AllContinue(trace) /\ page.exit \in Exits
    BY <1>7 DEF Observe, LoopInv
  <2>3. \A i \in DOMAIN trace' : trace'[i] = page.exit \/ (i \in DOMAIN trace /\ trace'[i] = trace[i])
    BY <1>7 DEF Observe, LoopInv
  <2>4. AllContinue(trace)' /\ Disposition(page.exit)' = "continue"
    BY <1>7, <2>2, <2>3 DEF Observe, AllContinue, Disposition, InternalError, SystemEvent
  <2>. QED
    BY <1>7, <2>1, <2>4 DEF Observe, LoopInv, TraceIsWhole, ExhaustionHidesNothing, Running
<1>8. CASE ObserverFails
  BY <1>8 DEF ObserverFails, Return, LoopInv, TraceIsWhole, ExhaustionHidesNothing
<1>9. CASE UNCHANGED loopVars
  BY <1>9 DEF loopVars, LoopInv, TraceIsWhole, ExhaustionHidesNothing, AllContinue, Disposition,
     InternalError, SystemEvent
<1>. QED  BY <1>1, <1>2, <1>3, <1>4, <1>5, <1>6, <1>7, <1>8, <1>9 DEF LoopNext

\* The loop's invariant holds throughout every run of it.
THEOREM LoopInvHolds == LoopSpec => []LoopInv
<1>1. LoopInit => LoopInv
  BY LoopAssumption DEF LoopInit, LoopInv, Reasons, AllContinue, TraceIsWhole, ExhaustionHidesNothing,
     Running
<1>. QED  BY <1>1, LoopStep, PTL DEF LoopSpec

\* For every budget and every exit: a report, an exhausted budget and an exit error carry
\* the reasons of all exits KVM completed.
THEOREM TraceIsWholeHolds == LoopSpec => []TraceIsWhole
<1>1. LoopInv => TraceIsWhole
  BY DEF LoopInv
<1>. QED  BY <1>1, LoopInvHolds, PTL

\* For every budget: ensure_run_allowed gives up only after exactly that many exits, all of
\* them served and observed.
THEOREM ExhaustionHidesNothingHolds == LoopSpec => []ExhaustionHidesNothing
<1>1. LoopInv => ExhaustionHidesNothing
  BY DEF LoopInv
<1>. QED  BY <1>1, LoopInvHolds, PTL

\* For every mapping size and every exit: KVM_RUN is entered again only with the previous
\* exit served and a read's response complete, in place and inside the mapping.
THEOREM ReentryFindsResponseHolds == LoopSpec => ReentryFindsResponse
<1> DEFINE Answered ==
        LET e == page.exit
            r == page.response
        IN  /\ Disposition(e) = "continue"
            /\ IsRead(e) =>
                  /\ r.length = IF e.reason = "io" THEN e.size * e.count ELSE e.length
                  /\ r.at = IF e.reason = "io" THEN e.offset ELSE 0
                  /\ e.reason = "io" => r.at + r.length <= MappingSize
<1>1. ASSUME LoopInv, LoopNext, completed' # completed, completed # <<>>
      PROVE  Answered
  <2>1. pc = "entry"
    BY <1>1 DEF LoopNext, Exhausted, RunFails, RunOnce, Serve, Stop, DispatchFails, Observe, ObserverFails
  <2>2. page.exit \in Exits /\ Disposition(page.exit) = "continue" /\ page.response = Response(page.exit)
    BY <1>1, <2>1 DEF LoopInv
  <2>. QED  BY <2>2, ServedReadAnswered
<1>2. LoopInv /\ [LoopNext]_loopVars => [(completed' # completed /\ completed # <<>>) => Answered]_loopVars
  BY <1>1
<1>. QED  BY <1>2, LoopInvHolds, PTL DEF LoopSpec, ReentryFindsResponse

-----------------------------------------------------------------------------
(***************************************************************************)
(* The safety of the checkpoint transaction for every index width and any  *)
(* number of captures: no request or completion is lost or repeated, the   *)
(* registrations are accounted for, and the devices are restored last.     *)
(***************************************************************************)

\* The successor of a queue index is another queue index.
LEMMA FollowingType == \A i \in Indices : Following(i) \in Indices /\ Following(i) # i
  BY TransactionAssumption DEF Indices, Following

\* A sum of an index with nothing or one request in flight, as the u16 addition wraps it.
LEMMA InFlightSum == \A i \in Indices : (i + 0) % IndexModulus = i /\ (i + 1) % IndexModulus = Following(i)
  BY TransactionAssumption DEF Indices, Following

\* Zero is a queue index and a new device is well typed.
LEMMA FreshType == 0 \in Indices /\ Fresh \in DeviceState
  BY TransactionAssumption DEF Indices, Fresh, DeviceState

-----------------------------------------------------------------------------
\* The types the argument needs.
TypeInv ==
    /\ doorbell \in [Devices -> Nat]
    /\ issued \in [Devices -> Indices \cup {Wiped}]
    /\ handled \in [Devices -> Indices \cup {Wiped}]
    /\ irq \subseteq Devices
    /\ device \in [Devices -> DeviceState]
    /\ owed \subseteq Devices
    /\ phase \in Phases

\* A queue with n requests on their way to a device in state s, i published and h handled.
Sound(i, h, s, n) ==
    /\ i \in Indices /\ h \in Indices
    /\ n \in {0, 1}
    /\ i = IF n = 0 THEN s.index ELSE Following(s.index)
    /\ s.index = IF s.isr THEN Following(h) ELSE h
    /\ s.isr => n = 0

Notified(s) == IF s.notify THEN 1 ELSE 0

\* A running machine: each queue is sound, and a completion has its interrupt.
RunningInv ==
    phase = "running" =>
        \A d \in Devices :
            /\ Sound(issued[d], handled[d], device[d], doorbell[d] + Notified(device[d]))
            /\ device[d].isr <=> d \in irq \cup owed

\* What a captured transaction holds is a machine that could run again.
SnapshotSound(t) ==
    /\ t.kind \in Kinds /\ t.bar \in Devices
    /\ t.issued \in [Devices -> Indices] /\ t.handled \in [Devices -> Indices]
    /\ t.irq \subseteq Devices /\ t.device \in [Devices -> DeviceState]
    /\ DevicesCapturable(t.kind, t.bar, t.device)
    /\ \A d \in Devices : /\ Sound(t.issued[d], t.handled[d], t.device[d], Notified(t.device[d]))
                          /\ d \in t.irq => t.device[d].isr

InTransaction == {"captured", "released", "wiped", "verify", "cleanup"} \cup Restoring
SnapshotInv   == phase \in InTransaction => SnapshotSound(transaction)

\* How far a restore has come.
ProgressInv ==
    /\ phase \in {"mp", "controllers", "devices", "registrations", "verify"} =>
         issued = transaction.issued /\ handled = transaction.handled
    /\ phase \in {"controllers", "devices", "registrations", "verify"} => mp = transaction.mp
    /\ phase \in {"devices", "registrations", "verify"} => irq = transaction.irq
    /\ phase \in {"registrations", "verify"} => device = transaction.device

\* Nothing happens before the first reconstruction.
StartInv ==
    phase = "start" =>
        \A d \in Devices : /\ issued[d] = 0 /\ handled[d] = 0 /\ device[d] = Fresh
                           /\ d \notin irq \cup owed

TransactionInv ==
    TypeInv /\ StartInv /\ RunningInv /\ SnapshotInv /\ ProgressInv /\ RegistrationsAccounted

-----------------------------------------------------------------------------
\* The step is one of these; used to name the cases once.
LEMMA StepCases ==
    ASSUME [TransactionNext]_transactionVars
    PROVE  \/ \E d \in Devices : Drain(d) \/ Service(d) \/ SignalIrq(d) \/ Issue(d) \/ Handle(d)
           \/ \E kind \in Kinds, bar \in Devices : Capture(kind, bar)
           \/ FirstReconstruction \/ Release \/ Wipe
           \/ BeginRestore \/ RestoreGuest \/ RestoreMp \/ RestoreControllers
           \/ RestoreDevices \/ RestoreFails \/ RestoreRegistrations \/ FinishRestore
           \/ ReplayFails \/ UNCHANGED transactionVars
  BY DEF TransactionNext, Host, Guest, Stopped, Kinds, Devices

\* Every step keeps the types.
LEMMA TypeStep ==
    ASSUME TypeInv, RunningInv, SnapshotInv, [TransactionNext]_transactionVars
    PROVE  TypeInv'
<1>. USE DEF TypeInv, Goto, guestVars, hostVars, registrationVars, Phases, Held, Restoring
<1>1. ASSUME NEW d \in Devices, Issue(d) PROVE TypeInv'
  <2>1. issued[d] \in Indices
    BY <1>1 DEF Issue, VcpuRuns, RunningInv, Sound
  <2>. QED BY <1>1, <2>1, FollowingType DEF Issue, VcpuRuns
<1>2. ASSUME NEW d \in Devices, Handle(d) PROVE TypeInv'
  BY <1>2 DEF Handle, VcpuRuns, DeviceState
<1>3. ASSUME NEW d \in Devices, Drain(d) PROVE TypeInv'
  BY <1>3 DEF Drain, DeviceState
<1>4. ASSUME NEW d \in Devices, Service(d) PROVE TypeInv'
  <2>1. issued[d] \in Indices
    BY <1>4 DEF Service, RunningInv, Sound
  <2>. QED BY <1>4, <2>1 DEF Service, DeviceState
<1>5. ASSUME NEW d \in Devices, SignalIrq(d) PROVE TypeInv'
  BY <1>5 DEF SignalIrq
<1>6. ASSUME NEW kind, NEW bar, Capture(kind, bar) PROVE TypeInv'
  BY <1>6 DEF Capture
<1>7. CASE FirstReconstruction
  BY <1>7 DEF FirstReconstruction, Reconstructs, ReconstructFails
<1>8. CASE Release
  BY <1>8 DEF Release, Deassigns
<1>9. CASE Wipe
  BY <1>9 DEF Wipe
<1>10. CASE BeginRestore
  BY <1>10 DEF BeginRestore
<1>11. CASE RestoreGuest
  BY <1>11 DEF RestoreGuest, SnapshotInv, SnapshotSound, InTransaction
<1>12. CASE RestoreMp
  BY <1>12 DEF RestoreMp
<1>13. CASE RestoreControllers
  BY <1>13 DEF RestoreControllers, SnapshotInv, SnapshotSound, InTransaction
<1>14. CASE RestoreDevices
  BY <1>14 DEF RestoreDevices, SnapshotInv, SnapshotSound, InTransaction
<1>15. CASE RestoreFails
  BY <1>15 DEF RestoreFails
<1>16. CASE RestoreRegistrations
  BY <1>16 DEF RestoreRegistrations, Reconstructs, ReconstructFails
<1>17. CASE FinishRestore
  BY <1>17 DEF FinishRestore, SnapshotInv, SnapshotSound, InTransaction
<1>18. CASE ReplayFails
  BY <1>18 DEF ReplayFails, Deassigns
<1>19. CASE UNCHANGED transactionVars
  BY <1>19 DEF transactionVars
<1>. QED
  BY StepCases, <1>1, <1>2, <1>3, <1>4, <1>5, <1>6, <1>7, <1>8, <1>9, <1>10, <1>11, <1>12, <1>13,
     <1>14, <1>15, <1>16, <1>17, <1>18, <1>19

-----------------------------------------------------------------------------
\* A reconstruction that succeeds assigns all four registrations.
LEMMA ReconstructsAll == ReconstructPair({}, {}).registered = AllRegistrations
  BY DEF ReconstructPair, ReconstructOne, AllRegistrations, Registration, Devices

\* A reconstruction that fails leaves only what the kernel refused to give up:
\* the first failure is reported, the second rolls back.
LEMMA ReconstructRollsBack ==
    ASSUME NEW refused, NEW stuck, ~ReconstructPair(refused, stuck).ok
    PROVE  ReconstructPair(refused, stuck).registered \subseteq stuck
<1>. DEFINE first  == ReconstructOne({}, 0, refused, stuck)
            second == ReconstructOne(first.registered, 1, refused, stuck)
<1>1. ~first.ok => first.registered \subseteq stuck
  BY DEF ReconstructOne
<1>2. first.ok => first.registered = Registration(0)
  BY DEF ReconstructOne
<1>3. first.ok /\ ~second.ok => second.registered \subseteq Registration(0) \cup stuck
  BY <1>2 DEF ReconstructOne
<1>. QED BY <1>1, <1>3 DEF ReconstructPair, DeassignOne

\* Whatever the kernel refuses, deassign tries all four.
LEMMA DeassignAll ==
    ASSUME NEW stuck, registered = AllRegistrations, Deassigns(stuck)
    PROVE  registered' \subseteq stranded'
  BY DEF Deassigns, DeassignOne, AllRegistrations, Devices

\* Every step keeps the registrations accounted for.
LEMMA RegistrationsStep ==
    ASSUME TypeInv, RegistrationsAccounted, [TransactionNext]_transactionVars
    PROVE  RegistrationsAccounted'
<1>. USE DEF RegistrationsAccounted, Goto, registrationVars, Held
<1>1. ASSUME NEW d \in Devices, Drain(d) \/ Service(d) \/ SignalIrq(d) \/ Issue(d) \/ Handle(d)
      PROVE  RegistrationsAccounted'
  BY <1>1 DEF Drain, Service, SignalIrq, Issue, Handle, hostVars
<1>2. ASSUME NEW kind, NEW bar, Capture(kind, bar) PROVE RegistrationsAccounted'
  BY <1>2 DEF Capture
<1>3. ASSUME Reconstructs PROVE registered' = AllRegistrations
  BY <1>3, ReconstructsAll DEF Reconstructs
<1>4. ASSUME ReconstructFails PROVE registered' \subseteq stranded'
  BY <1>4, ReconstructRollsBack DEF ReconstructFails
<1>5. CASE FirstReconstruction
  BY <1>5, <1>3, <1>4 DEF FirstReconstruction
<1>6. CASE RestoreRegistrations
  BY <1>6, <1>3, <1>4 DEF RestoreRegistrations
<1>7. CASE Release
  <2>1. PICK stuck : /\ Deassigns(stuck)
                     /\ phase \in Held /\ phase' \notin Held \cup {"abandoned"}
    BY <1>7 DEF Release, VcpuRuns
  <2>. QED BY <2>1, DeassignAll
<1>8. CASE Wipe \/ BeginRestore \/ RestoreGuest \/ RestoreMp \/ RestoreControllers \/ RestoreFails
  BY <1>8 DEF Wipe, BeginRestore, RestoreGuest, RestoreMp, RestoreControllers, RestoreFails, Restoring
<1>9. CASE RestoreDevices \/ FinishRestore
  BY <1>9 DEF RestoreDevices, FinishRestore
<1>10. CASE ReplayFails
  <2>1. CASE phase' = "abandoned" /\ UNCHANGED registrationVars
    BY <1>10, <2>1 DEF ReplayFails
  <2>2. CASE phase' = "failed" /\ \E stuck \in SUBSET AllRegistrations : Deassigns(stuck)
    BY <1>10, <2>2, DeassignAll DEF ReplayFails
  <2>. QED BY <1>10, <2>1, <2>2 DEF ReplayFails
<1>11. CASE UNCHANGED transactionVars
  BY <1>11 DEF transactionVars, hostVars
<1>. QED BY StepCases, <1>1, <1>2, <1>5, <1>6, <1>7, <1>8, <1>9, <1>10, <1>11

-----------------------------------------------------------------------------
\* The byte transport loses nothing of a sound snapshot: only the device of a
\* notification token was notified.
LEMMA MaterializeSound ==
    ASSUME NEW t, SnapshotSound(t)
    PROVE  SnapshotSound(Materialize(t))
<1>. DEFINE m == Materialize(t)
<1>1. \A d \in Devices : t.device[d].notify = (t.kind = "notification" /\ d = t.bar)
  BY DEF SnapshotSound, DevicesCapturable, TokenOwns, CheckpointCompletionPending,
         CheckpointNotificationPending, CheckpointFullyQuiescent, Kinds, DeviceState
<1>2. \A d \in Devices :
        [t.device[d] EXCEPT !.notify = (t.kind = "notification" /\ d = t.bar)] = t.device[d]
  BY <1>1 DEF SnapshotSound, DeviceState
<1>3. [d \in Devices |->
         [t.device[d] EXCEPT !.notify = (t.kind = "notification" /\ d = t.bar)]] = t.device
  BY <1>2 DEF SnapshotSound
<1>4. m = [t EXCEPT !.device = t.device]
  BY <1>3 DEF Materialize
<1>5. /\ m.kind = t.kind /\ m.bar = t.bar /\ m.issued = t.issued /\ m.handled = t.handled
      /\ m.irq = t.irq /\ m.device = t.device
  BY <1>4
<1>. QED BY <1>5 DEF SnapshotSound

\* What a running machine captures is a machine that could run again.
LEMMA CaptureSound ==
    ASSUME TypeInv, RunningInv, NEW kind \in Kinds, NEW bar \in Devices, Capture(kind, bar)
    PROVE  SnapshotSound(transaction')
<1>1. \A d \in Devices : Sound(issued[d], handled[d], device[d], Notified(device[d]))
  <2>1. \A d \in Devices : doorbell[d] + Notified(device[d]) = Notified(device[d])
    BY DEF Capture, RequireCheckpointQuiescent, Notified
  <2>. QED BY <2>1 DEF Capture, RunningInv
<1>2. issued \in [Devices -> Indices] /\ handled \in [Devices -> Indices]
  BY <1>1 DEF TypeInv, Sound
<1>3. \A d \in Devices : d \in irq => device[d].isr
  BY DEF Capture, RunningInv
<1>. QED BY <1>1, <1>2, <1>3 DEF Capture, SnapshotSound, TypeInv

\* Every step keeps a captured transaction sound.
LEMMA SnapshotStep ==
    ASSUME TypeInv, RunningInv, SnapshotInv, [TransactionNext]_transactionVars
    PROVE  SnapshotInv'
<1>. USE DEF SnapshotInv, InTransaction, Restoring, Goto
<1>1. ASSUME NEW d \in Devices, Drain(d) \/ Service(d) \/ SignalIrq(d) \/ Issue(d) \/ Handle(d)
      PROVE  SnapshotInv'
  BY <1>1 DEF Drain, Service, SignalIrq, Issue, Handle, VcpuRuns, hostVars
<1>2. ASSUME NEW kind \in Kinds, NEW bar \in Devices, Capture(kind, bar) PROVE SnapshotInv'
  BY <1>2, CaptureSound
<1>3. CASE Wipe
  BY <1>3, MaterializeSound DEF Wipe
<1>4. CASE FirstReconstruction \/ Release \/ FinishRestore \/ ReplayFails
  BY <1>4 DEF FirstReconstruction, Release, FinishRestore, ReplayFails
<1>5. CASE BeginRestore \/ RestoreGuest \/ RestoreMp \/ RestoreControllers \/ RestoreDevices
             \/ RestoreFails \/ RestoreRegistrations
  BY <1>5 DEF BeginRestore, RestoreGuest, RestoreMp, RestoreControllers, RestoreDevices,
              RestoreFails, RestoreRegistrations
<1>6. CASE UNCHANGED transactionVars
  BY <1>6 DEF transactionVars, hostVars
<1>. QED BY StepCases, <1>1, <1>2, <1>3, <1>4, <1>5, <1>6

\* Each restore step adds its part and leaves the parts before it.
LEMMA ProgressStep ==
    ASSUME TypeInv, ProgressInv, [TransactionNext]_transactionVars
    PROVE  ProgressInv'
<1>. USE DEF ProgressInv, Goto, guestVars
<1>1. ASSUME NEW d \in Devices, Drain(d) \/ Service(d) \/ SignalIrq(d) \/ Issue(d) \/ Handle(d)
      PROVE  ProgressInv'
  BY <1>1 DEF Drain, Service, SignalIrq, Issue, Handle, VcpuRuns, hostVars
<1>2. ASSUME NEW kind, NEW bar, Capture(kind, bar) PROVE ProgressInv'
  BY <1>2 DEF Capture
<1>3. CASE FirstReconstruction \/ Release \/ Wipe \/ FinishRestore \/ ReplayFails
  BY <1>3 DEF FirstReconstruction, Release, Wipe, FinishRestore, ReplayFails
<1>4. CASE BeginRestore \/ RestoreGuest \/ RestoreMp \/ RestoreControllers \/ RestoreDevices
             \/ RestoreFails \/ RestoreRegistrations
  BY <1>4 DEF BeginRestore, RestoreGuest, RestoreMp, RestoreControllers, RestoreDevices,
              RestoreFails, RestoreRegistrations
<1>5. CASE UNCHANGED transactionVars
  BY <1>5 DEF transactionVars, hostVars
<1>. QED BY StepCases, <1>1, <1>2, <1>3, <1>4, <1>5

-----------------------------------------------------------------------------
\* A request is published on an idle device only, and its doorbell was silent.
LEMMA IssueSound ==
    ASSUME TypeInv, RunningInv, NEW d \in Devices, Issue(d)
    PROVE  RunningInv'
<1>. DEFINE i == issued[d]  h == handled[d]  s == device[d]
<1>1. Sound(i, h, s, doorbell[d]) /\ ~s.notify /\ h = i /\ s \in DeviceState /\ doorbell[d] \in Nat
  BY DEF Issue, VcpuRuns, RunningInv, Notified, TypeInv
<1>2. doorbell[d] = 0 /\ ~s.isr /\ i = s.index
  <2>1. s.index \in Indices
    BY <1>1 DEF DeviceState
  <2>. QED BY <1>1, <2>1, FollowingType DEF Sound
<1>3. Sound(Following(i), h, s, 1)
  BY <1>1, <1>2, FollowingType DEF Sound
<1>4. doorbell'[d] = 1 /\ issued'[d] = Following(i)
  BY <1>2 DEF Issue, TypeInv
<1>5. Sound(issued'[d], handled'[d], device'[d], doorbell'[d] + Notified(device'[d]))
  BY <1>1, <1>3, <1>4 DEF Issue, hostVars, Notified
<1>6. ASSUME NEW e \in Devices, e # d
      PROVE  Sound(issued'[e], handled'[e], device'[e], doorbell'[e] + Notified(device'[e]))
  BY <1>6 DEF Issue, VcpuRuns, RunningInv, hostVars, TypeInv
<1>. QED BY <1>5, <1>6 DEF Issue, VcpuRuns, RunningInv, hostVars

\* The guest's handler accepts the completion that the ISR announces.
LEMMA HandleSound ==
    ASSUME TypeInv, RunningInv, NEW d \in Devices, Handle(d)
    PROVE  RunningInv'
<1>1. /\ Sound(issued[d], handled[d], device[d], doorbell[d]) /\ ~device[d].notify
      /\ device[d] \in DeviceState /\ doorbell[d] \in Nat
  BY DEF Handle, VcpuRuns, RunningInv, Notified, TypeInv
<1>2. /\ device'[d] = [device[d] EXCEPT !.isr = FALSE] /\ handled'[d] = device[d].index
      /\ issued' = issued /\ doorbell' = doorbell
  BY DEF Handle, TypeInv, registrationVars
<1>3. /\ device'[d].index = device[d].index /\ ~device'[d].isr /\ ~device'[d].notify
      /\ device[d].index \in Indices
  BY <1>1, <1>2 DEF DeviceState
<1>4. Sound(issued'[d], handled'[d], device'[d], doorbell'[d] + Notified(device'[d]))
  BY <1>1, <1>2, <1>3 DEF Sound, Notified
<1>5. ASSUME NEW e \in Devices, e # d
      PROVE  /\ Sound(issued'[e], handled'[e], device'[e], doorbell'[e] + Notified(device'[e]))
             /\ device'[e].isr <=> e \in irq' \cup owed'
  BY <1>5, <1>2 DEF Handle, VcpuRuns, RunningInv, TypeInv
<1>. QED BY <1>3, <1>4, <1>5 DEF Handle, VcpuRuns, RunningInv

\* A drained doorbell is a notification of the device.
LEMMA DrainSound ==
    ASSUME TypeInv, RunningInv, NEW d \in Devices, Drain(d)
    PROVE  RunningInv'
<1>1. /\ Sound(issued[d], handled[d], device[d], 1 + Notified(device[d])) /\ device[d] \in DeviceState
  BY DEF Drain, RunningInv, TypeInv
<1>2. ~device[d].notify
  BY <1>1 DEF Sound, Notified
<1>3. device'[d] = [device[d] EXCEPT !.notify = TRUE] /\ doorbell'[d] = 0
  BY DEF Drain, TypeInv
<1>4. /\ device'[d].index = device[d].index /\ device'[d].isr = device[d].isr /\ device'[d].notify
  BY <1>1, <1>3 DEF DeviceState
<1>5. Sound(issued'[d], handled'[d], device'[d], doorbell'[d] + Notified(device'[d]))
  BY <1>1, <1>2, <1>3, <1>4 DEF Sound, Notified, Drain, guestVars
<1>6. ASSUME NEW e \in Devices, e # d
      PROVE  /\ Sound(issued'[e], handled'[e], device'[e], doorbell'[e] + Notified(device'[e]))
             /\ device'[e].isr <=> e \in irq' \cup owed'
  BY <1>6 DEF Drain, RunningInv, TypeInv, guestVars
<1>. QED BY <1>4, <1>5, <1>6 DEF Drain, RunningInv, guestVars

\* A served request is a completion whose interrupt the host owes.
LEMMA ServiceSound ==
    ASSUME TypeInv, RunningInv, NEW d \in Devices, Service(d)
    PROVE  RunningInv'
<1>1. /\ Sound(issued[d], handled[d], device[d], doorbell[d] + 1) /\ doorbell[d] \in Nat
  BY DEF Service, RunningInv, TypeInv, Notified
<1>2. doorbell[d] = 0 /\ ~device[d].isr
  BY <1>1 DEF Sound
<1>3. device'[d] = [index |-> issued[d], notify |-> FALSE, isr |-> TRUE]
  BY DEF Service, TypeInv
<1>4. Sound(issued'[d], handled'[d], device'[d], doorbell'[d] + Notified(device'[d]))
  BY <1>1, <1>2, <1>3 DEF Sound, Notified, Service, guestVars, registrationVars
<1>5. ASSUME NEW e \in Devices, e # d
      PROVE  /\ Sound(issued'[e], handled'[e], device'[e], doorbell'[e] + Notified(device'[e]))
             /\ device'[e].isr <=> e \in irq' \cup owed'
  BY <1>5 DEF Service, RunningInv, TypeInv, guestVars, registrationVars
<1>. QED BY <1>3, <1>4, <1>5 DEF Service, RunningInv, guestVars

\* A restored machine runs as the captured one did: its completion token is owed.
LEMMA FinishRestoreSound ==
    ASSUME TypeInv, SnapshotInv, ProgressInv, FinishRestore
    PROVE  RunningInv'
<1>. SUFFICES ASSUME phase' = "running" PROVE RunningInv'
  BY DEF RunningInv
<1>1. /\ SnapshotSound(transaction) /\ RequireCheckpointQuiescent
      /\ owed' = IF transaction.kind = "completion" THEN {transaction.bar} ELSE {}
      /\ issued = transaction.issued /\ handled = transaction.handled
      /\ irq = transaction.irq /\ device = transaction.device
  BY DEF FinishRestore, Goto, SnapshotInv, ProgressInv, InTransaction
<1>2. issued' = issued /\ handled' = handled /\ irq' = irq /\ device' = device /\ doorbell' = doorbell
  BY DEF FinishRestore, guestVars, registrationVars
<1>3. ASSUME NEW d \in Devices
      PROVE  Sound(issued'[d], handled'[d], device'[d], doorbell'[d] + Notified(device'[d]))
  <2>1. doorbell'[d] + Notified(device'[d]) = Notified(transaction.device[d])
    BY <1>1, <1>2 DEF RequireCheckpointQuiescent, Notified
  <2>. QED BY <1>1, <1>2, <2>1 DEF SnapshotSound
<1>4. ASSUME NEW d \in Devices PROVE device'[d].isr <=> d \in irq' \cup owed'
  BY <1>1, <1>2 DEF SnapshotSound, DevicesCapturable, TokenOwns, CheckpointCompletionPending,
       CheckpointNotificationPending, CheckpointFullyQuiescent, Kinds
<1>. QED BY <1>3, <1>4 DEF RunningInv

\* Every step keeps a running machine sound.
LEMMA RunningStep ==
    ASSUME TransactionInv, [TransactionNext]_transactionVars
    PROVE  RunningInv'
<1>. USE DEF TransactionInv, Goto
<1>1. ASSUME NEW d \in Devices, Drain(d) \/ Service(d) \/ SignalIrq(d) \/ Issue(d) \/ Handle(d)
      PROVE  RunningInv'
  <2>1. CASE SignalIrq(d)
    BY <2>1 DEF SignalIrq, RunningInv, registrationVars
  <2>. QED BY <1>1, <2>1, DrainSound, ServiceSound, IssueSound, HandleSound
<1>2. ASSUME NEW kind, NEW bar, Capture(kind, bar) PROVE RunningInv'
  BY <1>2 DEF Capture, RunningInv
<1>3. CASE FirstReconstruction
  <2>. SUFFICES ASSUME phase' = "running", NEW d \in Devices
                PROVE  /\ Sound(issued'[d], handled'[d], device'[d], doorbell'[d] + Notified(device'[d]))
                       /\ device'[d].isr <=> d \in irq' \cup owed'
    BY DEF RunningInv
  <2>1. /\ issued'[d] = 0 /\ handled'[d] = 0 /\ device'[d] = Fresh /\ doorbell'[d] = 0
        /\ d \notin irq' \cup owed'
    BY <1>3 DEF FirstReconstruction, Reconstructs, StartInv, guestVars
  <2>. QED BY <2>1, FreshType DEF Sound, Notified, Fresh
<1>4. CASE FinishRestore
  BY <1>4, FinishRestoreSound
<1>5. CASE Release \/ Wipe \/ BeginRestore \/ RestoreGuest \/ RestoreMp \/ RestoreControllers
             \/ RestoreDevices \/ RestoreFails \/ RestoreRegistrations \/ ReplayFails
  BY <1>5 DEF Release, Wipe, BeginRestore, RestoreGuest, RestoreMp, RestoreControllers,
              RestoreDevices, RestoreFails, RestoreRegistrations, ReplayFails, RunningInv
<1>6. CASE UNCHANGED transactionVars
  BY <1>6 DEF transactionVars, hostVars, guestVars, registrationVars, RunningInv
<1>. QED BY StepCases, <1>1, <1>2, <1>3, <1>4, <1>5, <1>6

\* No step leads back to the start.
LEMMA StartStep ==
    ASSUME TypeInv, StartInv, [TransactionNext]_transactionVars
    PROVE  StartInv'
<1>. USE DEF StartInv, Goto
<1>1. ASSUME NEW d \in Devices, Drain(d) \/ Service(d) \/ SignalIrq(d) \/ Issue(d) \/ Handle(d)
      PROVE  StartInv'
  BY <1>1 DEF Drain, Service, SignalIrq, Issue, Handle, VcpuRuns, hostVars
<1>2. ASSUME NEW kind, NEW bar, Capture(kind, bar) PROVE StartInv'
  BY <1>2 DEF Capture
<1>3. CASE FirstReconstruction \/ Release \/ Wipe \/ FinishRestore \/ ReplayFails
  BY <1>3 DEF FirstReconstruction, Release, Wipe, FinishRestore, ReplayFails
<1>4. CASE BeginRestore \/ RestoreGuest \/ RestoreMp \/ RestoreControllers \/ RestoreDevices
             \/ RestoreFails \/ RestoreRegistrations
  BY <1>4 DEF BeginRestore, RestoreGuest, RestoreMp, RestoreControllers, RestoreDevices,
              RestoreFails, RestoreRegistrations
<1>5. CASE UNCHANGED transactionVars
  BY <1>5 DEF transactionVars, hostVars, guestVars
<1>. QED BY StepCases, <1>1, <1>2, <1>3, <1>4, <1>5

-----------------------------------------------------------------------------
\* The inductive invariant holds at the start and is kept by every step.
THEOREM TransactionInvHolds == TransactionSpec => []TransactionInv
<1>1. TransactionInit => TransactionInv
  BY FreshType DEF TransactionInit, TransactionInv, TypeInv, StartInv, RunningInv, SnapshotInv, ProgressInv,
       RegistrationsAccounted, InTransaction, Restoring, Held, Phases
<1>2. TransactionInv /\ [TransactionNext]_transactionVars => TransactionInv'
  <2>. SUFFICES ASSUME TransactionInv, [TransactionNext]_transactionVars PROVE TransactionInv'
    OBVIOUS
  <2>1. TypeInv' /\ StartInv' /\ SnapshotInv' /\ ProgressInv' /\ RegistrationsAccounted'
    BY TypeStep, StartStep, SnapshotStep, ProgressStep, RegistrationsStep DEF TransactionInv
  <2>2. RunningInv'
    BY RunningStep
  <2>. QED BY <2>1, <2>2 DEF TransactionInv
<1>. QED BY <1>1, <1>2, PTL DEF TransactionSpec

\* No capture and restore loses or repeats a request, for every width of the queue
\* indices: the quiescence checks, the tokens and the order of restore_and_reconstruct.
THEOREM RequestsSurviveHolds == TransactionSpec => []RequestsSurvive
<1>1. TransactionInv => RequestsSurvive
  <2>. SUFFICES ASSUME TransactionInv, phase = "running", NEW d \in Devices
                PROVE  LET inFlight == doorbell[d] + (IF device[d].notify THEN 1 ELSE 0)
                       IN  /\ issued[d] = (device[d].index + inFlight) % IndexModulus
                           /\ inFlight \in {0, 1}
                           /\ device[d].index = (IF device[d].isr THEN Following(handled[d])
                                                 ELSE handled[d])
    BY DEF RequestsSurvive
  <2>1. Sound(issued[d], handled[d], device[d], doorbell[d] + Notified(device[d]))
    BY DEF TransactionInv, RunningInv
  <2>2. device[d].index \in Indices
    BY DEF TransactionInv, TypeInv, DeviceState
  <2>. QED BY <2>1, <2>2, InFlightSum DEF Sound, Notified
<1>. QED BY <1>1, TransactionInvHolds, PTL

\* A completion that the ISR announces has its interrupt pending or owed, also behind a
\* restore with a completion token.
THEOREM CompletionsInterruptHolds == TransactionSpec => []CompletionsInterrupt
<1>1. TransactionInv => CompletionsInterrupt
  BY DEF TransactionInv, RunningInv, CompletionsInterrupt
<1>. QED BY <1>1, TransactionInvHolds, PTL

\* On every path of reconstruct, capture, deassign and restore the kernel holds both pairs
\* of registrations or only what it refused to give up; an error that drops the pair while
\* the guest is driven leaves both, never a part.
THEOREM RegistrationsAccountedHolds == TransactionSpec => []RegistrationsAccounted
<1>1. TransactionInv => RegistrationsAccounted
  BY DEF TransactionInv
<1>. QED BY <1>1, TransactionInvHolds, PTL

\* A restore replaces the devices last and both at once
\* (restore_two_virtio_blk_checkpoints_atomic).
THEOREM DevicesRestoredLastHolds == TransactionSpec => DevicesRestoredLast
<1>. DEFINE Last == (phase \in Restoring /\ device' # device)
                      => (/\ device' = transaction.device
                          /\ issued = transaction.issued /\ handled = transaction.handled
                          /\ mp = transaction.mp /\ irq = transaction.irq)
<1>1. TransactionInv /\ [TransactionNext]_transactionVars => [Last]_transactionVars
  <2>. SUFFICES ASSUME TransactionInv, [TransactionNext]_transactionVars, phase \in Restoring, device' # device
                PROVE  /\ device' = transaction.device
                       /\ issued = transaction.issued /\ handled = transaction.handled
                       /\ mp = transaction.mp /\ irq = transaction.irq
    OBVIOUS
  <2>1. RestoreDevices
    <3>1. ~(\E d \in Devices : Drain(d) \/ Service(d) \/ SignalIrq(d) \/ Issue(d) \/ Handle(d))
      BY DEF Drain, Service, SignalIrq, Issue, Handle, VcpuRuns, Restoring
    <3>2. ~(\E kind \in Kinds, bar \in Devices : Capture(kind, bar))
      BY DEF Capture, Restoring
    <3>3. ~(FirstReconstruction \/ Release \/ Wipe \/ BeginRestore \/ FinishRestore \/ ReplayFails)
      BY DEF FirstReconstruction, Release, VcpuRuns, Wipe, BeginRestore, FinishRestore, ReplayFails,
             Restoring
    <3>4. ~(RestoreGuest \/ RestoreMp \/ RestoreControllers \/ RestoreFails \/ RestoreRegistrations
              \/ UNCHANGED transactionVars)
      BY DEF RestoreGuest, RestoreMp, RestoreControllers, RestoreFails, RestoreRegistrations,
             transactionVars, hostVars
    <3>. QED BY StepCases, <3>1, <3>2, <3>3, <3>4
  <2>. QED BY <2>1 DEF RestoreDevices, TransactionInv, ProgressInv
<1>. QED BY <1>1, TransactionInvHolds, PTL DEF TransactionSpec, DevicesRestoredLast
=============================================================================
