-------------------------- MODULE FixtureCheckpoint --------------------------
(***************************************************************************)
(* The host steps of the checkpoint and acceleration fixtures: capturing   *)
(* the parts of the machine a checkpoint owns, overwriting them, restoring *)
(* and comparing them, carrying them through the versioned encoding, and   *)
(* serving devices whose notifications and interrupts go through eventfds. *)
(*                                                                         *)
(* A part is a page of guest memory (F.pages), the registers, the MP state *)
(* or the local APIC of a vCPU, a PIC, the I/O APIC, or a block device.    *)
(***************************************************************************)
EXTENDS FixtureHost

CpuPart(v)   == IF v = BSP THEN "cpu0" ELSE "cpu1"
VcpuOf(p)    == IF p \in {"cpu0", "mp0", "lapic0"} THEN BSP ELSE AP
DeviceOf(p)  == IF p = "dev1" THEN 1 ELSE 2
CpuParts     == {"cpu0", "cpu1"}
MpParts      == {"mp0", "mp1"}
LapicParts   == {"lapic0", "lapic1"}
DeviceParts  == {"dev1", "dev2"}
LinesOf(p)   == IF p = "master" THEN {0, 1, 2} ELSE {8, 9}

\* Wrong on purpose: RFLAGS is not among the registers.
SnapshotWithoutFlags(c) ==
  [blk |-> c.blk, pc |-> c.pc, frames |-> c.frames, if |-> FALSE, al |-> c.al, long |-> c.long,
   idt |-> c.idt]

\* VcpuStateSnapshot: registers, special registers and MSRs; the interrupt
\* shadow is none of them.
Snapshot(c) ==
  [blk |-> c.blk, pc |-> c.pc, frames |-> c.frames, if |-> c.if, al |-> c.al, long |-> c.long,
   idt |-> c.idt]
WithSnapshot(c, r) ==
  [c EXCEPT !.blk = r.blk, !.pc = r.pc, !.frames = r.frames, !.if = r.if, !.al = r.al,
            !.long = r.long, !.idt = r.idt]
Lapic(a)     == [on |-> a.on, lint |-> a.lint, irr |-> a.irr \cup a.posted, isr |-> a.isr]
WithLapic(a, x) ==
  [a EXCEPT !.on = x.on, !.lint = x.lint, !.irr = x.irr, !.posted = {}, !.isr = x.isr]
Chip(p, l)   == [irr |-> p.irr \cap l, isr |-> p.isr \cap l, unmasked |-> p.unmasked \cap l]
WithChip(p, l, x) ==
  [p EXCEPT !.irr = (@ \ l) \cup x.irr, !.isr = (@ \ l) \cup x.isr,
            !.unmasked = (@ \ l) \cup x.unmasked]

Part(p) ==
  CASE p \in DOMAIN F.pages        -> [l \in DOMAIN F.pages[p] |-> mem[l]]
    [] p \in CpuParts              -> Snapshot(cpu[VcpuOf(p)])
    [] p \in MpParts               -> cpu[VcpuOf(p)].mp
    [] p \in LapicParts            -> Lapic(apic[VcpuOf(p)])
    [] p \in {"master", "slave"}   -> Chip(pic, LinesOf(p))
    [] p = "ioapic"                -> pic.redir
    [] p \in DeviceParts           -> dev[DeviceOf(p)]

Assign(p, x) ==
  /\ mem' = [l \in DOMAIN mem |->
       IF p \in DOMAIN F.pages /\ l \in DOMAIN F.pages[p] THEN x[l] ELSE mem[l]]
  /\ cpu' = [v \in DOMAIN cpu |->
       CASE p \in CpuParts /\ v = VcpuOf(p) -> WithSnapshot(cpu[v], x)
         [] p \in MpParts /\ v = VcpuOf(p)  -> [cpu[v] EXCEPT !.mp = x]
         [] OTHER                           -> cpu[v]]
  /\ apic' = [v \in DOMAIN apic |->
       IF p \in LapicParts /\ v = VcpuOf(p) THEN WithLapic(apic[v], x) ELSE apic[v]]
  /\ pic' = CASE p \in {"master", "slave"} -> WithChip(pic, LinesOf(p), x)
              [] p = "ioapic"              -> [pic EXCEPT !.redir = x]
              [] OTHER                     -> pic
  /\ dev' = [d \in DOMAIN dev |-> IF p \in DeviceParts /\ d = DeviceOf(p) THEN x ELSE dev[d]]
  /\ UNCHANGED <<kvm, timer, pte>>

\* The doorbells that were rung and not yet read.
Rung == {d \in DOMAIN bus.bell : bus.bell[d] > 0}

\* Everything the guest's future depends on, the registrations apart.
Machine ==
  [cpu |-> [v \in DOMAIN cpu |-> [cpu[v] EXCEPT !.tlb = "none"]],
   apic |-> [v \in DOMAIN apic |-> Lapic(apic[v])], pic |-> pic, mem |-> mem, dev |-> dev,
   events |-> bus.events, rung |-> Rung, irq |-> bus.irq]

-----------------------------------------------------------------------------
\* Capture, overwrite, restore, compare

FullyQuiescent(d)    == ~d.notify /\ d.isr = 0
CompletionPending(d) == ~d.notify /\ d.isr = 1 /\ d.used # 0
NotificationPending(d) == d.notify /\ d.isr = 0

\* A device owes exactly what the fixture has a token for, or nothing.
Owned(p, d) ==
  CASE F.token = <<p, "completion">>   -> CompletionPending(d)
    [] F.token = <<p, "notification">> -> NotificationPending(d)
    [] OTHER                           -> FullyQuiescent(d)

\* The I/O APIC is captured when no pin requests.
Capturable(p) ==
  CASE p \in DeviceParts -> Owned(p, dev[DeviceOf(p)])
    [] p = "ioapic" -> \A g \in Pins : ~pic.line[g]
    [] OTHER        -> TRUE

CapturePart(t) ==
  LET p == Here(t).x IN
  /\ Doing(t, "capture")
  /\ Requires(t, Capturable(p))
  /\ saved' = (p :> Part(p)) @@ saved
  /\ whole' = Machine
  /\ UNCHANGED <<fx, guest, dev, bus, out, served>>

\* What the fixture leaves in place of a captured part: other bytes, a vCPU
\* initialized anew elsewhere, a flipped mask, a reset device.
Flip(set, e) == (set \ {e}) \cup ({e} \ set)
Corrupted(p, x) ==
  CASE p \in DOMAIN F.pages -> F.pages[p]
    [] p \in CpuParts ->
         [blk |-> "elsewhere", pc |-> 1, frames |-> <<>>, if |-> FALSE, al |-> Zero, long |-> TRUE,
          idt |-> cpu[VcpuOf(p)].idt]
    [] p \in MpParts  -> x
    [] p \in LapicParts -> IF x = "lint" THEN [Part(p) EXCEPT !.lint = ~@] ELSE [Part(p) EXCEPT !.on = ~@]
    [] p \in {"master", "slave"} -> [Part(p) EXCEPT !.unmasked = Flip(@, x)]
    [] p = "ioapic"   -> [Part(p) EXCEPT ![x].masked = ~@]
    [] p \in DeviceParts -> NewVirtio("blk")
CorruptPart(t) ==
  /\ Doing(t, "corrupt") /\ Next1(t)
  /\ Assign(Here(t).x[1], Corrupted(Here(t).x[1], Here(t).x[2]))
  /\ UNCHANGED <<fx, bus, saved, whole, out, served>>

\* Restoring a device needs a fully quiescent one in its place, and a captured
\* one that owes nothing but what a token owns.
Restorable(p) ==
  p \in DeviceParts => FullyQuiescent(dev[DeviceOf(p)]) /\ Owned(p, saved[p])
RestorePart(t) ==
  LET p == Here(t).x IN
  /\ Doing(t, "restore")
  /\ IF Restorable(p) THEN Next1(t) /\ Assign(p, saved[p])
     ELSE Fails(t) /\ UNCHANGED <<guest, dev, faults>>
  /\ UNCHANGED <<fx, bus, saved, whole, out, served>>

\* VirtioBlkCheckpointState has no notify_pending: materialize sets it again
\* only for the device of a notification token.
Materialized(p, x) ==
  IF p \in DeviceParts THEN [x EXCEPT !.notify = F.token = <<p, "notification">>] ELSE x
TransportCheckpoint(t) ==
  /\ Doing(t, "transport") /\ Next1(t)
  /\ saved' = [p \in DOMAIN saved |-> Materialized(p, saved[p])]
  /\ UNCHANGED <<fx, guest, dev, bus, whole, out, served>>

Compare(t) ==
  /\ \/ Doing(t, "differ")  /\ Requires(t, \A p \in Here(t).x : Part(p) # saved[p])
     \/ Doing(t, "match")   /\ Requires(t, \A p \in Here(t).x : Part(p) = saved[p])
     \/ /\ Doing(t, "captured")
        /\ LET c == saved[Here(t).x[1]]  r == Here(t).x[2] IN Requires(t, \A f \in DOMAIN r : c[f] = r[f])
     \/ /\ Doing(t, "stopped")
        /\ LET c == cpu[Here(t).v] IN Requires(t, c.blk = Here(t).x[1] /\ c.pc = Here(t).x[2])
     \/ /\ Doing(t, "refused")
        /\ Requires(t, Rung # {} \/ ~FullyQuiescent(dev[Here(t).x]))
  /\ UNCHANGED <<fx, guest, devs, out, served>>

-----------------------------------------------------------------------------
\* Quiescing, and the I/O APIC

\* One KVM_RUN with single-step: it completes the instruction whose exit was
\* served and stops before the next.
RetireExit(t) ==
  LET v == Here(t).v  x == Here(t).x  c == Completing(v) IN
  /\ Doing(t, "retire")
  /\ cpu' = [cpu EXCEPT ![v] = c]
  /\ kvm' = [kvm EXCEPT ![v].exit = <<[kind |-> "debug"]>>]
  /\ apic' = [apic EXCEPT ![v].irr = @ \cup apic[v].posted, ![v].posted = {}]
  /\ UNCHANGED <<fx, pic, timer, mem, pte, devs, out, served>>
  /\ Requires(t, c.blk = x[1] /\ c.pc = x[2] /\ c.if \in x[3] /\ ~TakesInterrupt(v, c))

SetRedirection(t) ==
  /\ Doing(t, "pin") /\ Next1(t)
  /\ pic' = [pic EXCEPT !.redir[Here(t).x[1]] =
               [masked |-> FALSE, vec |-> Here(t).x[2], dest |-> Here(t).v]]
  /\ UNCHANGED <<fx, cpu, kvm, apic, timer, mem, pte, devs, out, served>>

\* A new debug port and new traces.
StartTraces(t) ==
  /\ Doing(t, "fresh")
  /\ host' = [host EXCEPT ![t] = [Proceed(@) EXCEPT !.io = <<>>, !.mmio = <<>>, !.done = <<>>]]
  /\ out' = [v \in DOMAIN out |-> <<>>]
  /\ UNCHANGED <<fx, guest, devs, chan, served, faults>>

-----------------------------------------------------------------------------
\* Devices behind eventfds

RegisterPair(t) ==
  /\ Doing(t, "register") /\ Next1(t)
  /\ bus' = [bus EXCEPT !.fds = Here(t).x, !.bell = [d \in DOMAIN Here(t).x |-> 0]]
  /\ UNCHANGED <<fx, guest, dev, saved, whole, out, served>>

\* wait_doorbell: the counter is read, and so reset; a poll leaves it alone.
WaitDoorbell(t) ==
  /\ Doing(t, "bell")
  /\ Requires(t, bus.bell[Here(t).x] = 1)
  /\ bus' = [bus EXCEPT !.bell[Here(t).x] = 0]
  /\ UNCHANGED <<fx, guest, dev, saved, whole, out, served>>
PollDoorbells(t) ==
  /\ Doing(t, "bells")
  /\ Requires(t, Rung = Here(t).x)
  /\ UNCHANGED <<fx, guest, devs, out, served>>

\* apply_virtio_blk_host_notification: the notify write, but no bus event.
ApplyNotification(t) ==
  LET d == Here(t).x  a == Write("notify", 0) IN
  /\ Doing(t, "hostnotify")
  /\ IF VirtioAccepts(dev[d], a)
     THEN Next1(t) /\ dev' = [dev EXCEPT ![d] = VirtioAccess(@, a)]
     ELSE Fails(t) /\ UNCHANGED <<dev, faults>>
  /\ UNCHANGED <<fx, guest, bus, saved, whole, out, served>>

SignalIrq(t) ==
  /\ Doing(t, "irq") /\ Next1(t)
  /\ bus' = [bus EXCEPT !.irq = @ \cup {bus.fds[Here(t).x]}]
  /\ UNCHANGED <<fx, guest, dev, saved, whole, out, served>>

DeassignPair(t) ==
  /\ Doing(t, "deassign")
  /\ \E left \in SUBSET DOMAIN bus.fds :
       /\ Deassigned(left)
       /\ IF left # {} THEN Fails(t)
          ELSE host' = [host EXCEPT ![t] = Proceed(@)] /\ UNCHANGED chan
  /\ UNCHANGED <<fx, guest, dev, saved, whole, out, served>>

\* The watchdog thread of one handoff: cancelled, or it pulses the GSI.
GuardCancelled(t) ==
  /\ Doing(t, "guard") /\ chan["command"] # <<>>
  /\ host' = [host EXCEPT ![t] = [Proceed(@) EXCEPT !.st = "ok"]]
  /\ chan' = [chan EXCEPT !["command"] = Tail(@)]
  /\ UNCHANGED <<fx, guest, devs, out, served, faults>>
GuardExpires(t) ==
  /\ Doing(t, "guard") /\ chan["command"] = <<>>
  /\ host' = [host EXCEPT ![t] = [Proceed(@) EXCEPT !.st = "ok", !.fired = TRUE]]
  /\ faults' = faults \cup {"late"}
  /\ pic' = Latched(pic, Here(t).x)
  /\ UNCHANGED <<fx, cpu, kvm, apic, timer, mem, pte, devs, chan, out, served>>
RequireUnguarded(t) ==
  /\ Doing(t, "unguarded")
  /\ Requires(t, ~host["worker"].fired)
  /\ UNCHANGED <<fx, guest, devs, out, served>>

CheckpointStep(t) ==
  \/ CapturePart(t) \/ CorruptPart(t) \/ RestorePart(t) \/ TransportCheckpoint(t) \/ Compare(t)
  \/ RetireExit(t) \/ SetRedirection(t) \/ StartTraces(t)
  \/ RegisterPair(t) \/ WaitDoorbell(t) \/ PollDoorbells(t) \/ ApplyNotification(t)
  \/ SignalIrq(t) \/ DeassignPair(t) \/ GuardCancelled(t) \/ RequireUnguarded(t)
=============================================================================
