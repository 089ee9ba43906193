------------------------------ MODULE MCFixtures ------------------------------
(***************************************************************************)
(* Every fixture of the repository on one machine: all interleavings of    *)
(* host threads and vCPUs, with failing host calls, exhausted poll loops,  *)
(* evicted translations and a local timer that never fires.                *)
(***************************************************************************)
EXTENDS FixtureSpec, TwoVcpuFixtures, CheckpointTwoVcpuFixtures

Suite == TwoVcpuSuite @@ DeviceSuite @@ VirtioSuite @@ CheckpointSuite @@ CheckpointBlkSuite
           @@ CheckpointPairSuite @@ CheckpointTwoVcpuSuite

LevelSources == {d \in DOMAIN dev : dev[d].mode = "level"}

\* An acknowledgment in shared memory means that what it acknowledges is
\* done.  Work dispatch: the command was consumed and its result stored.
\* TLB shootdown: the AP cannot use the old translation any more.
AckMeansDone ==
  /\ (fx.name \in {"work", "sipiWork"} /\ mem.ack = 1) =>
       mem.command = 0 /\ mem.result = (2 * mem.payload) % 256
  /\ (fx.name = "tlb" /\ mem.ack = 1) => cpu[AP].tlb # "A"

\* run_two_vcpu_ap_local_timer_guest: a run in which the watchdog requested
\* the vector never counts as a proof of the AP's own timer.
WatchdogNeverProves ==
  (fx.name = "apTimer" /\ host["main"].st = "ok") => served[AP] = <<{"timer"}>>

\* The line of a level source changes only when the guest store that asked
\* for it has completed, which takes a KVM_RUN after the one that reported
\* the store.
LineFollowsCompletedStore ==
  [][(pic'.line # pic.line /\ LevelSources # {}) =>
       (kvm[BSP].exit # <<>> /\ kvm[BSP].exit[1].kind = "io")]_vars

\* Whenever guest code runs, the line of a level source is as high as the
\* source's last event said, and a completion the driver has not
\* acknowledged holds its line whatever the PIC did with the edge.
SourceHoldsLine ==
  kvm[BSP].in =>
    /\ \A d \in LevelSources : pic.line[Route(d)] = dev[d].asserted
    /\ fx.name \in {"rngIntx", "blkIntx"} /\ dev[1].isr = 1 => pic.line[0]

\* A completion is announced, by the line or by a message, only when its used
\* element is already in guest memory and the ISR bit is set: the handler
\* never runs against an old index (the completion interrupt loops call
\* set_gsi_level and signal_msi after process_virtio_*_notification).
AnnouncedAfterPublished ==
  [][(/\ fx.name \in {"rngIntx", "blkIntx", "rngMsi"}
      /\ \/ pic'.line[0] /\ ~pic.line[0]
         \/ \E r \in apic'[BSP].irr \ apic[BSP].irr : r.vec = "0x50")
     => /\ dev'[1].isr = 1
        /\ mem'.used.idx = dev'[1].used /\ mem'.used.idx = mem'.avail.idx]_vars

Passes(op) ==
  /\ host["main"].st = "run" /\ host["main"].pc <= Len(F.main) /\ Here("main").op = op
  /\ host'["main"].pc = host["main"].pc + 1

\* A vCPU is captured only between instructions: the exit of its last one is
\* complete (HLT, or the single step after the OUT), so nothing that KVM still
\* owes the guest is outside the checkpoint ("Never checkpoint that
\* intermediate kvm_run state", run_full_controller_debug_barrier).
CapturedBetweenInstructions ==
  [][\A v \in F.cpus : (Passes("capture") /\ Here("main").x = CpuPart(v)) =>
       /\ ~kvm[v].in
       /\ kvm[v].exit # <<>> /\ kvm[v].exit[1].kind \in {"hlt", "debug"}]_vars

\* When restore_and_verify reports an exact match of the parts a checkpoint
\* owns, the whole machine is what it was at capture: nothing the guest can
\* observe was left out of the ownership set, no memory, no latched or
\* unnoticed interrupt, no interrupt shadow, no queued event and no doorbell.
RestoredWhole ==
  [][(Passes("match") /\ Here("main").x = DOMAIN saved) => Machine = whole]_vars
=============================================================================
