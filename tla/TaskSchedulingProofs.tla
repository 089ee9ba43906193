------------------------ MODULE TaskSchedulingProofs ------------------------
(***************************************************************************)
(* Proofs about TaskScheduling.  The guest is straight-line code but for   *)
(* interrupts: the first of them comes out of HLT and belongs to the       *)
(* program, whichever thread raised it; a second one may come wherever the *)
(* interrupt flag is set, and its first output is refused, except between  *)
(* task B's increment and its yield, where the exit after it is.  The      *)
(* invariant therefore says of each label which registers and which memory *)
(* belong to it and how many outputs were accepted before it.              *)
(***************************************************************************)
EXTENDS TaskScheduling, TLAPS

Queued == {"queue"} \cup WaitFixtures

(* How many outputs precede the arm handler's P and the scheduler's A and B. *)

ArmAt(f) == CASE f = "preempt" -> 0 [] f = "wakeup" -> 2 [] f = "queue" -> 3 [] OTHER -> 4
LeaveA(f) == CASE f = "switch" -> 0 [] f \in {"preempt", "wakeup"} -> 1 [] OTHER -> 2
LeaveB(f) == CASE f = "switch" -> 1 [] f = "preempt" -> 2 [] f = "wakeup" -> 4
               [] f = "queue" -> 6 [] OTHER -> 7

(* The metadata of the context page, in the order in which a blocking        *)
(* fixture goes through it: 0 at first, 1 blocked, 2 after the first         *)
(* selection, 3 after the mismatching wakeup, 4 woken, 5 selected again.     *)

StateAt(f, k) == IF f \in BlockingFixtures /\ k \in {1, 2, 3} THEN BlockedA ELSE BothRunnable
QueueAt(f, k) ==
    IF f \notin Queued \/ k \in {0, 1} THEN QueueNew
    ELSE IF k = 5 THEN SecondSelection ELSE FirstSelection
WaitOf(owner, mismatches, wakes, attempt) ==
    [owner |-> owner, mismatches |-> mismatches, wakes |-> wakes, attempt |-> attempt]
WaitAt(f, k) ==
    IF f \notin WaitFixtures \/ k = 0 THEN WaitOf("none", 0, 0, "none")
    ELSE IF k \in {1, 2} THEN WaitOf("a", 0, 0, "none")
    ELSE IF k = 3 THEN WaitOf("a", 1, 0, "wrong")
    ELSE WaitOf("none", 1, 1, "a")

(* The saved contexts before the first switch, after it, after the second,  *)
(* and after a second one that saved B from the user stack.                 *)

Context(at, t, r, n) == [space |-> t, at |-> at, r12 |-> r, saves |-> n]
SavedA == Context("after", "A", "A", 1)
SavedB == Context("after", "B", "B+", 1)
WildB == Context("wild", "B", "B+", 1)
Contexts(p) == [A |-> IF p = 1 THEN Context("none", "none", "zero", 0) ELSE SavedA,
                B |-> IF p = 3 THEN SavedB ELSE IF p = 4 THEN WildB
                      ELSE Context("entry", "B", "B", 0)]
Saved == {Contexts(1), Contexts(2), Contexts(3), Contexts(4)}

Memory(k, p, t) ==
    /\ state = StateAt(fixture, k) /\ queue = QueueAt(fixture, k) /\ wait = WaitAt(fixture, k)
    /\ context = Contexts(p) /\ terminal = t

Terminal == <<[space |-> "A", at |-> "end", r12 |-> "A"]>>

-----------------------------------------------------------------------------
(* The vCPU at a label.                                                      *)

Cpu(label, i, q, s, r, f, re) ==
    /\ pc = label /\ if = i /\ isr = q /\ space = s /\ r12 = r /\ frame = f /\ resume = re

Running(label, i, q, s, r, f, re) == Cpu(label, i, q, s, r, f, re) /\ ~shadow /\ ~halted

\* Task A's first entry, and its kernel half up to the first switch.
EntryA == Running("entry", TRUE, FALSE, "A", "zero", "none", "none") /\ Memory(0, 1, <<>>) /\ accepted = 0
KernelA(label, k, n) ==
    Running(label, FALSE, FALSE, "A", "A", "after", "none") /\ Memory(k, 1, <<>>) /\ accepted = n

PathA ==
    \/ EntryA
    \/ fixture \in BlockingFixtures /\ (KernelA("block", 0, 0) \/ (KernelA("K", 1, 0) /\ dirty))
    \/ fixture \in Queued /\ (KernelA("queue", 1, 1) \/ KernelA("1", 2, 1))
    \/ fixture = "preempt" /\ (KernelA("arm", 2, 0) \/ KernelA("P", 3, 0))
    \/ KernelA("scheduler", 2, LeaveA(fixture))
    \/ KernelA("switch", 2, LeaveA(fixture) + 1)

\* Task B's first entry, and its kernel half up to the arm handler's P.
EntryB ==
    Running("entry", TRUE, FALSE, "B", "B", "none", "none") /\ Memory(2, 2, <<>>)
    /\ accepted = LeaveA(fixture) + 1
YieldB ==
    Running("yield", TRUE, FALSE, "B", "B+", "none", "none") /\ Memory(2, 2, <<>>)
    /\ accepted = LeaveA(fixture) + 1
KernelB(label, k, n) ==
    Running(label, FALSE, FALSE, "B", "B+", "after", "none") /\ Memory(k, 2, <<>>) /\ accepted = n

PathB ==
    \/ EntryB \/ YieldB
    \/ fixture \in BlockingFixtures /\ (\/ KernelB("arm", 2, LeaveA(fixture) + 1)
                                        \/ KernelB("P", 3, ArmAt(fixture)))
    \/ fixture \in WaitFixtures /\ KernelB("X", 3, 3) /\ dirty

\* The arm handler around its HLT, and the interrupt that ends it.
Arming(label, i, q, re) ==
    /\ fixture # "switch" /\ accepted = ArmAt(fixture) + 1
    /\ IF fixture = "preempt"
       THEN Cpu(label, i, q, "A", "A", "after", re) /\ Memory(3, 1, <<>>)
       ELSE Cpu(label, i, q, "B", "B+", "after", re) /\ Memory(3, 2, <<>>)

PathHlt ==
    \/ Arming("sti", FALSE, FALSE, "none") /\ ~shadow /\ ~halted
    \/ Arming("hlt", TRUE, FALSE, "none") /\ shadow /\ ~halted
    \/ Arming("armed", TRUE, FALSE, "none") /\ ~shadow /\ halted
    \/ Arming("timer", FALSE, TRUE, "armed") /\ ~shadow /\ ~halted

\* A blocking fixture's wakeup.
Waking(label, i, q, re, n) ==
    /\ fixture \in BlockingFixtures
    /\ Running(label, i, q, "B", "B+", "after", re) /\ Memory(4, 2, <<>>)
    /\ accepted = ArmAt(fixture) + n

\* Task B's kernel half up to the second switch; a wakeup left interrupts enabled.
LateB(label, k, n) ==
    /\ IF fixture \in BlockingFixtures
       THEN Running(label, TRUE, FALSE, "B", "B+", "after", "none")
       ELSE Running(label, FALSE, FALSE, "B", "B+", "after", "none")
    /\ Memory(k, 2, <<>>) /\ accepted = n

PathWake ==
    \/ Waking("W", FALSE, TRUE, "armed", 1) /\ dirty
    \/ Waking("eoi", FALSE, TRUE, "armed", 2)
    \/ Waking("iret", FALSE, FALSE, "armed", 2)
    \/ Waking("armed", TRUE, FALSE, "none", 2)
    \/ fixture \in Queued /\ (\/ LateB("queue", 4, ArmAt(fixture) + 2)
                              \/ LateB("0", 5, ArmAt(fixture) + 2))
    \/ LateB("scheduler", 5, LeaveB(fixture))
    \/ LateB("switch", 5, LeaveB(fixture) + 1)

\* Task A again, up to its exit.
Exiting(label, n, t) ==
    /\ Running(label, FALSE, FALSE, "A", "A", "end", "none") /\ Memory(5, 3, t)
    /\ accepted = LeaveB(fixture) + n

Back ==
    Running("after", TRUE, FALSE, "A", "A", "none", "none") /\ Memory(5, 3, <<>>)
    /\ accepted = LeaveB(fixture) + 1

PathExit ==
    \/ Back
    \/ Exiting("terminal", 1, <<>>)
    \/ Exiting("R", 1, Terminal) /\ dirty
    \/ Exiting("D", 2, Terminal) /\ dirty
    \/ fixture = "switch" /\ Exiting("end", 3, Terminal)

\* A second interrupt after task B's increment, up to the switch.
PathWild ==
    /\ fixture = "preempt" /\ "watchdog" \in raised
    /\ ~if /\ ~shadow /\ ~halted /\ space = "B" /\ r12 = "B+" /\ context = Contexts(2)
    /\ \/ pc = "timer" /\ resume = "yield" /\ accepted = 2
       \/ pc = "scheduler" /\ frame = "wild" /\ accepted = 2
       \/ pc = "switch" /\ frame = "wild" /\ accepted = 3

\* A second interrupt, up to the exit that the host refuses.
AgainPreempted ==
    /\ fixture = "preempt"
    /\ \/ pc \in {"timer", "scheduler"} /\ space = "B" /\ r12 = "B" /\ accepted = 2
       \/ pc \in {"timer", "scheduler"} /\ space = "A" /\ r12 = "A" /\ accepted = 3
       \/ pc = "fault" /\ accepted = 3

AgainWoken ==
    /\ fixture \in BlockingFixtures
    /\ pc \in {"timer", "W", "F"}
    /\ accepted \in (ArmAt(fixture) + 2)..(LeaveB(fixture) + 1)
    /\ pc = "timer" /\ fixture \in WaitFixtures => wait.owner = "none"

Again ==
    /\ "watchdog" \in raised /\ ~if /\ ~shadow /\ ~halted
    /\ AgainPreempted \/ AgainWoken

RunInv ==
    main = "run" => PathA \/ PathB \/ PathHlt \/ PathWake \/ PathExit \/ PathWild \/ Again

-----------------------------------------------------------------------------
(* The threads, the interrupt line and the host function.                    *)

Before == {"run", "capture", "mutate", "restore"}
Joining == {"cancel", "join_worker", "join_watchdog", "verdict"}

HostTypeOK ==
    /\ TimerTypeOK
    /\ fixture \in AllFixtures
    /\ main \in Before \cup Joining \cup {"returned"}
    /\ execution \in {"none", "ok", "err"} /\ result \in {"none", "ok", "err"}
    /\ context \in Saved

\* A thread raised the line only in the states after its first ioctl.
ThreadInv ==
    /\ worker = "unspawned" => watchdog = "unspawned" /\ raised = {} /\ ~irr
    /\ watchdog = "unspawned" => worker = "unspawned"
    /\ "worker" \in raised => worker \in {"raised", "done", "failed"}
    /\ "watchdog" \in raised => watchdog \in {"raised", "done", "failed"}
    /\ worker = "failed" => failed # {}
    /\ irr => raised # {}

\* The threads exist once P was accepted.
SpawnInv ==
    main \in Before =>
        /\ fixture = "switch" \/ accepted <= ArmAt(fixture) => worker = "unspawned"
        /\ fixture # "switch" /\ accepted > ArmAt(fixture) => worker # "unspawned"

\* The first interrupt was taken.
Taken ==
    \/ isr \/ accepted > ArmAt(fixture) + 1
    \/ fixture = "preempt" /\ pc = "scheduler"

\* Without the watchdog there is one interrupt, the worker's.
EdgeInv ==
    main = "run" /\ fixture # "switch" /\ "watchdog" \notin raised =>
        /\ irr => ~Taken
        /\ Taken => "worker" \in raised

\* The checkpoint is taken in front of P.
AtX == fixture = "wait_checkpoint" /\ KernelB("P", 3, 4)
AtXCpu == <<"P", FALSE, FALSE, FALSE, FALSE, "B", "B+", "after", "none">>
AtXPage == <<Contexts(2), <<>>, BlockedA, FirstSelection, WaitOf("a", 1, 0, "wrong")>>
CaptureInv ==
    /\ main \in {"capture", "mutate"} => AtX
    /\ main = "restore" => fixture = "wait_checkpoint" /\ accepted = 4
    /\ main \in {"mutate", "restore"} => captured = <<[cpu |-> AtXCpu, page |-> AtXPage]>>

\* What cancel, joins and verdict know of the run.
JoinInv ==
    /\ main \in Joining =>
          /\ execution # "none"
          /\ execution = "err" => "watchdog" \in raised
          /\ execution = "ok" => /\ accepted = LeaveB(fixture) + 3
                                 /\ Memory(5, 3, Terminal) /\ space = "A" /\ r12 = "A"
          /\ fixture = "switch" => main = "verdict" /\ execution = "ok"
          /\ fixture # "switch" => worker # "unspawned"
    /\ main \in {"join_watchdog", "verdict"} /\ fixture # "switch" => WorkerJoined
    /\ main = "verdict" /\ fixture # "switch" => WatchdogJoined

IInv ==
    /\ HostTypeOK /\ ThreadInv /\ SpawnInv /\ EdgeInv /\ RunInv /\ CaptureInv /\ JoinInv
    /\ GuestMeetsModel

\* After B was saved from the user stack.
WildInv ==
    context = Contexts(4) => /\ fixture = "preempt" /\ "watchdog" \in raised
                             /\ pc \in {"fault", "end"} /\ result # "ok"

\* The result is that of the return.
ResultInv == main # "returned" => result = "none"

-----------------------------------------------------------------------------
(* Constants of the model.                                                   *)

\* The ready queue after the two selections.
LEMMA Selections ==
    /\ FirstSelection = [head |-> 0, selected |-> "B", skips |-> 1]
    /\ SecondSelection = [head |-> 1, selected |-> "A", skips |-> 1]
  <1>1. FirstSelection = [head |-> 0, selected |-> "B", skips |-> 1]
    BY DEF FirstSelection, SelectNext, QueueNew, BlockedA, Other
  <1>2. SecondSelection = [head |-> 1, selected |-> "A", skips |-> 1]
    BY <1>1 DEF SecondSelection, SelectNext, BothRunnable, Other
  <1>3. QED
    BY Zenon, <1>1, <1>2

\* A record is what its fields are.
LEMMA WaitFields ==
    ASSUME NEW o, NEW m, NEW k, NEW a,
           NEW w \in [owner : {o}, mismatches : {m}, wakes : {k}, attempt : {a}]
    PROVE  w = WaitOf(o, m, k, a)
  BY Zenon DEF WaitOf

\* The same for the host's model of the wait channel.
LEMMA SnapshotFields ==
    ASSUME NEW s, NEW o, NEW m, NEW k, NEW a,
           NEW w \in [state : {s}, owner : {o}, mismatches : {m}, wakes : {k}, attempt : {a}]
    PROVE  w = [state |-> s, owner |-> o, mismatches |-> m, wakes |-> k, attempt |-> a]
  OBVIOUS

\* What WaitChannelModel says after the block, the mismatch and the wakeup.
LEMMA WaitModel ==
    /\ WaitBlocked = [state |-> "blocked", owner |-> "a", mismatches |-> 0, wakes |-> 0,
                      attempt |-> "none"]
    /\ WaitMismatch = [state |-> "blocked", owner |-> "a", mismatches |-> 1, wakes |-> 0,
                       attempt |-> "wrong"]
    /\ WaitWoken = [state |-> "runnable", owner |-> "none", mismatches |-> 1, wakes |-> 1,
                    attempt |-> "a"]
  <1>1. WaitBlocked \in [state : {"blocked"}, owner : {"a"}, mismatches : {0}, wakes : {0},
                         attempt : {"none"}]
    BY Zenon DEF WaitBlocked, WaitBlock, WaitNew
  <1>2. WaitBlocked = [state |-> "blocked", owner |-> "a", mismatches |-> 0, wakes |-> 0,
                       attempt |-> "none"]
    BY Zenon, <1>1, SnapshotFields
  <1>3. WaitMismatch \in [state : {"blocked"}, owner : {"a"}, mismatches : {1}, wakes : {0},
                          attempt : {"wrong"}]
    <2>1. WaitBlocked.owner = "a" /\ WaitBlocked.mismatches + 1 = 1
      BY <1>2
    <2>2. WaitMismatch = [WaitBlocked EXCEPT !.attempt = "wrong", !.mismatches = 1]
      BY Zenon, <2>1 DEF WaitMismatch, WaitWake
    <2>3. QED
      BY Zenon, <1>2, <2>2
  <1>4. WaitMismatch = [state |-> "blocked", owner |-> "a", mismatches |-> 1, wakes |-> 0,
                        attempt |-> "wrong"]
    BY Zenon, <1>3, SnapshotFields
  <1>5. WaitWoken \in [state : {"runnable"}, owner : {"none"}, mismatches : {1}, wakes : {1},
                       attempt : {"a"}]
    <2>1. WaitMismatch.owner = "a" /\ WaitMismatch.wakes + 1 = 1
      BY <1>4
    <2>2. WaitWoken = [WaitMismatch EXCEPT !.attempt = "a", !.owner = "none",
                                           !.state = "runnable", !.wakes = 1]
      BY Zenon, <2>1 DEF WaitWoken, WaitWake
    <2>3. QED
      BY Zenon, <1>4, <2>2
  <1>6. WaitWoken = [state |-> "runnable", owner |-> "none", mismatches |-> 1, wakes |-> 1,
                     attempt |-> "a"]
    BY Zenon, <1>5, SnapshotFields
  <1>7. QED
    BY Zenon, <1>2, <1>4, <1>6

\* The places of the outputs in TASK_*_PROOF.
LEMMA Outputs ==
    ASSUME fixture \in AllFixtures
    PROVE  /\ Len(Proof) = LeaveB(fixture) + 3
           /\ Proof[LeaveA(fixture) + 1] = "A" /\ Proof[LeaveB(fixture) + 1] = "B"
           /\ Proof[LeaveB(fixture) + 2] = "R" /\ Proof[LeaveB(fixture) + 3] = "D"
           /\ fixture # "switch" => Proof[ArmAt(fixture) + 1] = "P"
           /\ fixture \in BlockingFixtures =>
                 /\ Proof[1] = "K" /\ Proof[ArmAt(fixture) + 2] = "W"
                 /\ \A n \in (ArmAt(fixture) + 2)..(LeaveB(fixture) + 1) :
                       Proof[n + 1] \in {"0", "B", "R"}
           /\ fixture \in Queued => Proof[2] = "1" /\ Proof[ArmAt(fixture) + 3] = "0"
           /\ fixture \in WaitFixtures => Proof[4] = "X"
  <1>1. CASE fixture = "switch"
    BY <1>1 DEF Proof, LeaveA, LeaveB, ArmAt, BlockingFixtures, WaitFixtures, Queued
  <1>2. CASE fixture = "preempt"
    BY <1>2 DEF Proof, LeaveA, LeaveB, ArmAt, BlockingFixtures, WaitFixtures, Queued
  <1>3. CASE fixture = "wakeup"
    <2>1. \A n \in 4..5 : n = 4 \/ n = 5
      OBVIOUS
    <2>2. QED
      BY <1>3, <2>1 DEF Proof, LeaveA, LeaveB, ArmAt, BlockingFixtures, WaitFixtures, Queued
  <1>4. CASE fixture = "queue"
    <2>1. \A n \in 5..7 : n = 5 \/ n = 6 \/ n = 7
      OBVIOUS
    <2>2. QED
      BY <1>4, <2>1 DEF Proof, LeaveA, LeaveB, ArmAt, BlockingFixtures, WaitFixtures, Queued
  <1>5. CASE fixture \in WaitFixtures
    <2>1. \A n \in 6..8 : n = 6 \/ n = 7 \/ n = 8
      OBVIOUS
    <2>2. QED
      BY <1>5, <2>1 DEF Proof, LeaveA, LeaveB, ArmAt, BlockingFixtures, WaitFixtures, Queued
  <1>6. QED
    BY Zenon, <1>1, <1>2, <1>3, <1>4, <1>5 DEF AllFixtures, BlockingFixtures

-----------------------------------------------------------------------------
(* Steps of the guest between two outputs.                                   *)

\* A step that leaves threads and host alone and takes no first interrupt
\* preserves everything that is not about the guest's label.
LEMMA Quiet ==
    ASSUME IInv, main = "run", UNCHANGED <<timerVars, host>>,
           context' \in Saved, Taken' => Taken, RunInv'
    PROVE  IInv'
  <1>1. HostTypeOK' /\ ThreadInv' /\ GuestMeetsModel'
    BY DEF IInv, HostTypeOK, TimerTypeOK, ThreadInv, GuestMeetsModel, Saved, timerVars, host
  <1>2. SpawnInv'
    BY Zenon DEF IInv, SpawnInv, timerVars, host
  <1>3. EdgeInv'
    BY Zenon DEF IInv, EdgeInv, timerVars, host
  <1>4. CaptureInv' /\ JoinInv'
    BY Zenon DEF CaptureInv, JoinInv, Joining, host
  <1>5. QED
    BY Zenon, <1>1, <1>2, <1>3, <1>4 DEF IInv

\* The labels of each part of the program.
LEMMA Labels ==
    /\ PathA => pc \in {"entry", "block", "K", "queue", "1", "arm", "P", "scheduler", "switch"}
    /\ PathB => pc \in {"entry", "yield", "arm", "P", "X"}
    /\ PathHlt => pc \in {"sti", "hlt", "armed", "timer"}
    /\ PathWake => pc \in {"W", "eoi", "iret", "armed", "queue", "0", "scheduler", "switch"}
    /\ PathExit => pc \in {"after", "terminal", "R", "D", "end"}
    /\ PathWild => pc \in {"timer", "scheduler", "switch"}
    /\ Again => pc \in {"timer", "scheduler", "W", "F", "fault"}
  <1>1. PathA => pc \in {"entry", "block", "K", "queue", "1", "arm", "P", "scheduler", "switch"}
    BY Zenon DEF PathA, EntryA, KernelA, Running, Cpu
  <1>2. PathB => pc \in {"entry", "yield", "arm", "P", "X"}
    BY Zenon DEF PathB, EntryB, YieldB, KernelB, Running, Cpu
  <1>3. PathHlt => pc \in {"sti", "hlt", "armed", "timer"}
    BY Zenon DEF PathHlt, Arming, Cpu
  <1>4. PathWake => pc \in {"W", "eoi", "iret", "armed", "queue", "0", "scheduler", "switch"}
    BY Zenon DEF PathWake, Waking, LateB, Running, Cpu
  <1>5. PathExit => pc \in {"after", "terminal", "R", "D", "end"}
    BY Zenon DEF PathExit, Back, Exiting, Running, Cpu
  <1>6. Again => pc \in {"timer", "scheduler", "W", "F", "fault"}
    BY Zenon DEF Again, AgainPreempted, AgainWoken
  <1>7. PathWild => pc \in {"timer", "scheduler", "switch"}
    BY Zenon DEF PathWild
  <1>8. QED
    BY Zenon, <1>1, <1>2, <1>3, <1>4, <1>5, <1>6, <1>7

\* The labels at which task A and task B enter.
LEMMA AtEntry ==
    ASSUME IInv, Executes("entry")
    PROVE  (space = "A" /\ EntryA) \/ (space = "B" /\ EntryB)
  <1>1. PathA \/ PathB
    BY Zenon, Labels DEF IInv, RunInv, Executes
  <1>2. PathA => EntryA
    BY Zenon DEF Executes, PathA, KernelA, Running, Cpu
  <1>3. PathB => EntryB
    BY Zenon DEF Executes, PathB, YieldB, KernelB, Running, Cpu
  <1>4. (EntryA => space = "A") /\ (EntryB => space = "B")
    BY Zenon DEF EntryA, EntryB, Running, Cpu
  <1>5. QED
    BY Zenon, <1>1, <1>2, <1>3, <1>4

\* What the guest's label says of the rest of the state.
LEMMA AtLabel ==
    ASSUME IInv, main = "run", ~halted
    PROVE
      /\ pc = "block" => (fixture \in BlockingFixtures /\ KernelA("block", 0, 0))
      /\ pc = "K" => (fixture \in BlockingFixtures /\ KernelA("K", 1, 0) /\ dirty)
      /\ pc = "1" => (fixture \in Queued /\ KernelA("1", 2, 1))
      /\ pc = "arm" => (\/ (fixture = "preempt" /\ KernelA("arm", 2, 0))
              \/ (fixture \in BlockingFixtures /\ KernelB("arm", 2, LeaveA(fixture) + 1)))
      /\ pc = "P" => (\/ (fixture = "preempt" /\ KernelA("P", 3, 0))
              \/ (fixture \in BlockingFixtures /\ KernelB("P", 3, ArmAt(fixture))))
      /\ pc = "X" => (fixture \in WaitFixtures /\ KernelB("X", 3, 3) /\ dirty)
      /\ pc = "sti" => (Arming("sti", FALSE, FALSE, "none") /\ ~shadow)
      /\ pc = "hlt" => (Arming("hlt", TRUE, FALSE, "none") /\ shadow)
      /\ pc = "timer" => (Arming("timer", FALSE, TRUE, "armed") /\ ~shadow) \/ PathWild \/ Again
      /\ pc = "yield" => YieldB
      /\ pc = "W" => (Waking("W", FALSE, TRUE, "armed", 1) /\ dirty) \/ Again
      /\ pc = "eoi" => Waking("eoi", FALSE, TRUE, "armed", 2)
      /\ pc = "iret" => Waking("iret", FALSE, FALSE, "armed", 2)
      /\ pc = "armed" => Waking("armed", TRUE, FALSE, "none", 2)
      /\ pc = "queue" => (\/ (fixture \in Queued /\ KernelA("queue", 1, 1))
              \/ (fixture \in Queued /\ LateB("queue", 4, ArmAt(fixture) + 2)))
      /\ pc = "0" => (fixture \in Queued /\ LateB("0", 5, ArmAt(fixture) + 2))
      /\ pc = "scheduler" => (\/ KernelA("scheduler", 2, LeaveA(fixture))
              \/ LateB("scheduler", 5, LeaveB(fixture))
              \/ PathWild \/ Again)
      /\ pc = "switch" => (\/ KernelA("switch", 2, LeaveA(fixture) + 1)
              \/ LateB("switch", 5, LeaveB(fixture) + 1)
              \/ PathWild)
      /\ pc = "after" => Back
      /\ pc = "terminal" => Exiting("terminal", 1, <<>>)
      /\ pc = "R" => (Exiting("R", 1, Terminal) /\ dirty)
      /\ pc = "D" => (Exiting("D", 2, Terminal) /\ dirty)
      /\ pc = "end" => (fixture = "switch" /\ Exiting("end", 3, Terminal))
      /\ pc \in {"F", "fault"} => Again
  <1>1. PathA =>
        /\ pc = "block" => fixture \in BlockingFixtures /\ KernelA("block", 0, 0)
        /\ pc = "K" => fixture \in BlockingFixtures /\ KernelA("K", 1, 0) /\ dirty
        /\ pc = "1" => fixture \in Queued /\ KernelA("1", 2, 1)
        /\ pc = "arm" => fixture = "preempt" /\ KernelA("arm", 2, 0)
        /\ pc = "P" => fixture = "preempt" /\ KernelA("P", 3, 0)
        /\ pc = "queue" => fixture \in Queued /\ KernelA("queue", 1, 1)
        /\ pc = "scheduler" => KernelA("scheduler", 2, LeaveA(fixture))
        /\ pc = "switch" => KernelA("switch", 2, LeaveA(fixture) + 1)
    BY Zenon DEF PathA, EntryA, KernelA, Running, Cpu
  <1>2. PathB =>
        /\ pc = "arm" => fixture \in BlockingFixtures /\ KernelB("arm", 2, LeaveA(fixture) + 1)
        /\ pc = "P" => fixture \in BlockingFixtures /\ KernelB("P", 3, ArmAt(fixture))
        /\ pc = "X" => fixture \in WaitFixtures /\ KernelB("X", 3, 3) /\ dirty
        /\ pc = "yield" => YieldB
    BY Zenon DEF PathB, EntryB, YieldB, KernelB, Running, Cpu
  <1>3. PathHlt =>
        /\ pc = "sti" => Arming("sti", FALSE, FALSE, "none") /\ ~shadow
        /\ pc = "hlt" => Arming("hlt", TRUE, FALSE, "none") /\ shadow
        /\ pc = "timer" => Arming("timer", FALSE, TRUE, "armed") /\ ~shadow
        /\ pc = "armed" => FALSE
    BY Zenon DEF PathHlt, Arming, Cpu
  <1>4. PathWake =>
        /\ pc = "W" => Waking("W", FALSE, TRUE, "armed", 1) /\ dirty
        /\ pc = "eoi" => Waking("eoi", FALSE, TRUE, "armed", 2)
        /\ pc = "iret" => Waking("iret", FALSE, FALSE, "armed", 2)
        /\ pc = "armed" => Waking("armed", TRUE, FALSE, "none", 2)
        /\ pc = "queue" => fixture \in Queued /\ LateB("queue", 4, ArmAt(fixture) + 2)
        /\ pc = "0" => fixture \in Queued /\ LateB("0", 5, ArmAt(fixture) + 2)
        /\ pc = "scheduler" => LateB("scheduler", 5, LeaveB(fixture))
        /\ pc = "switch" => LateB("switch", 5, LeaveB(fixture) + 1)
    BY Zenon DEF PathWake, Waking, LateB, Running, Cpu
  <1>5. PathExit =>
        /\ pc = "after" => Back
        /\ pc = "terminal" => Exiting("terminal", 1, <<>>)
        /\ pc = "R" => Exiting("R", 1, Terminal) /\ dirty
        /\ pc = "D" => Exiting("D", 2, Terminal) /\ dirty
        /\ pc = "end" => fixture = "switch" /\ Exiting("end", 3, Terminal)
    BY Zenon DEF PathExit, Exiting, Back, Running, Cpu
  <1>6. QED
    BY Zenon, <1>1, <1>2, <1>3, <1>4, <1>5, Labels DEF IInv, RunInv

\* The usual way to use Quiet: the step leads to the next label.
LEMMA QuietPath ==
    ASSUME IInv, main = "run", UNCHANGED <<timerVars, host>>, Taken' => Taken,
           (PathA \/ PathB \/ PathHlt \/ PathWake \/ PathExit)'
    PROVE  IInv'
  <1>1. PathA' \/ PathB' => context' \in Saved
    BY Zenon DEF PathA, PathB, EntryA, EntryB, YieldB, KernelA, KernelB, Memory, Saved
  <1>2. PathHlt' \/ PathWake' => context' \in Saved
    BY Zenon DEF PathHlt, PathWake, Arming, Waking, LateB, Memory, Saved
  <1>3. PathExit' => context' \in Saved
    BY Zenon DEF PathExit, Back, Exiting, Memory, Saved
  <1>4. RunInv'
    BY Zenon DEF RunInv
  <1>5. QED
    BY Zenon, <1>1, <1>2, <1>3, <1>4, Quiet

\* Task A enters the kernel with its own registers.
LEMMA TaskAEntryStep ==
    ASSUME IInv, TaskAEntry
    PROVE  IInv'
  <1>1. EntryA /\ main = "run" /\ UNCHANGED <<timerVars, host>> /\ fixture' = fixture
    BY Zenon, AtEntry DEF TaskAEntry, Executes, host
  <1>2. CASE fixture = "switch"
    <2>1. KernelA("scheduler", 2, LeaveA(fixture))'
      BY Zenon, <1>1, <1>2 DEF TaskAEntry, Int, EntryA, KernelA, Running, Cpu, Memory, StateAt, QueueAt,
         WaitAt, LeaveA, BlockingFixtures, WaitFixtures, Queued, host, page
    <2>2. Taken' => Taken
      BY Zenon, <1>1, <1>2 DEF TaskAEntry, Int, Taken, host
    <2>3. QED
      BY Zenon, <1>1, <2>1, <2>2, QuietPath DEF PathA
  <1>3. CASE fixture = "preempt"
    <2>1. KernelA("arm", 2, 0)'
      BY Zenon, <1>1, <1>3 DEF TaskAEntry, Int, EntryA, KernelA, Running, Cpu, Memory, StateAt, QueueAt,
         WaitAt, BlockingFixtures, WaitFixtures, Queued, host, page
    <2>2. Taken' => Taken
      BY Zenon, <1>1, <1>3 DEF TaskAEntry, Int, Taken, host
    <2>3. QED
      BY Zenon, <1>1, <1>3, <2>1, <2>2, QuietPath DEF PathA
  <1>4. CASE fixture \in BlockingFixtures
    <2>1. KernelA("block", 0, 0)'
      BY Zenon, <1>1, <1>4 DEF TaskAEntry, Int, EntryA, KernelA, Running, Cpu, Memory,
         BlockingFixtures, WaitFixtures, host, page
    <2>2. Taken' => Taken
      BY Zenon, <1>1, <1>4 DEF TaskAEntry, Int, Taken, host, BlockingFixtures, WaitFixtures
    <2>3. QED
      BY Zenon, <1>1, <1>4, <2>1, <2>2, QuietPath DEF PathA
  <1>5. QED
    BY Zenon, <1>2, <1>3, <1>4 DEF IInv, HostTypeOK, AllFixtures

\* Task B finds its own R12 and changes it.
LEMMA TaskBEntryStep ==
    ASSUME IInv, TaskBEntry
    PROVE  IInv'
  <1>1. EntryB /\ main = "run" /\ UNCHANGED <<timerVars, host>> /\ fixture' = fixture
    BY Zenon, AtEntry DEF TaskBEntry, Executes, host
  <1>2. r12 = "B"
    BY Zenon, <1>1 DEF EntryB, Running, Cpu
  <1>3. YieldB'
    BY Zenon, <1>1, <1>2 DEF TaskBEntry, EntryB, YieldB, Running, Cpu, Memory, host, page
  <1>4. Taken' => Taken
    BY Zenon, <1>1, <1>2 DEF TaskBEntry, Taken, host
  <1>5. QED
    BY Zenon, <1>1, <1>3, <1>4, QuietPath DEF PathB

\* It goes on to the scheduler or the arm handler.
LEMMA TaskBYieldsStep ==
    ASSUME IInv, TaskBYields
    PROVE  IInv'
  <1>1. YieldB /\ main = "run" /\ UNCHANGED <<timerVars, host>> /\ fixture' = fixture
    BY Zenon, AtLabel DEF TaskBYields, Executes, host
  <1>2. CASE fixture \in {"switch", "preempt"}
    <2>1. LateB("scheduler", 5, LeaveB(fixture))'
      BY <1>1, <1>2 DEF TaskBYields, Int, YieldB, LateB, Running, Cpu, Memory, StateAt,
         QueueAt, WaitAt, LeaveA, LeaveB, BlockingFixtures, WaitFixtures, Queued, host, page
    <2>2. Taken' => Taken
      BY <1>1, <1>2 DEF TaskBYields, Int, Taken, YieldB, ArmAt, LeaveA, host
    <2>3. QED
      BY Zenon, <1>1, <2>1, <2>2, QuietPath DEF PathWake
  <1>3. CASE fixture \in BlockingFixtures
    <2>1. KernelB("arm", 2, LeaveA(fixture) + 1)'
      BY Zenon, <1>1, <1>3 DEF TaskBYields, Int, YieldB, KernelB, Running, Cpu, Memory, host, page
    <2>2. Taken' => Taken
      BY Zenon, <1>1, <1>3 DEF TaskBYields, Int, Taken, host
    <2>3. QED
      BY Zenon, <1>1, <1>3, <2>1, <2>2, QuietPath DEF PathB
  <1>4. QED
    BY Zenon, <1>2, <1>3 DEF IInv, HostTypeOK, AllFixtures

\* Task A leaves through the terminal gate.
LEMMA TaskExitsStep ==
    ASSUME IInv, TaskExits
    PROVE  IInv'
  <1>1. Back /\ main = "run" /\ UNCHANGED <<timerVars, host>> /\ fixture' = fixture
    BY Zenon, AtLabel DEF TaskExits, Executes, host
  <1>2. Exiting("terminal", 1, <<>>)'
    BY Zenon, <1>1 DEF TaskExits, Int, Back, Exiting, Running, Cpu, Memory, host, page
  <1>3. Taken' => Taken
    BY Zenon, <1>1 DEF TaskExits, Int, Taken, host
  <1>4. QED
    BY Zenon, <1>1, <1>2, <1>3, QuietPath DEF PathExit

\* The block handler marks A blocked, owned by its channel if there is one.
LEMMA BlockHandlerStep ==
    ASSUME IInv, BlockHandler
    PROVE  IInv'
  <1>1. /\ fixture \in BlockingFixtures /\ KernelA("block", 0, 0) /\ main = "run"
        /\ UNCHANGED <<timerVars, host>> /\ fixture' = fixture
    BY Zenon, AtLabel DEF BlockHandler, KernelStep, Executes, host
  <1>2. state' = BlockedA
    BY Zenon, <1>1 DEF BlockHandler, KernelA, Memory, StateAt, BothRunnable, BlockedA
  <1>3. wait' = WaitAt(fixture, 1)
    <2>1. CASE fixture \in WaitFixtures
      <3>1. wait = WaitOf("none", 0, 0, "none") /\ wait' = [wait EXCEPT !.owner = "a"]
        BY Zenon, <1>1, <2>1 DEF BlockHandler, KernelA, Memory, WaitAt
      <3>2. wait' \in [owner : {"a"}, mismatches : {0}, wakes : {0}, attempt : {"none"}]
        BY Zenon, <3>1 DEF WaitOf
      <3>3. QED
        BY <2>1, <3>2, WaitFields DEF WaitAt
    <2>2. CASE fixture \notin WaitFixtures
      BY Zenon, <1>1, <2>2 DEF BlockHandler, KernelA, Memory, WaitAt
    <2>3. QED
      BY Zenon, <2>1, <2>2
  <1>4. KernelA("K", 1, 0)' /\ dirty'
    BY Zenon, <1>1, <1>2, <1>3 DEF BlockHandler, KernelStep, KernelA, Running, Cpu, Memory, StateAt,
       QueueAt, host
  <1>5. Taken' => Taken
    BY Zenon, <1>1 DEF BlockHandler, KernelStep, Taken, host
  <1>6. QED
    BY Zenon, <1>1, <1>4, <1>5, QuietPath DEF PathA

\* The arm handler; on a wait channel its mismatching wakeup leaves A blocked.
LEMMA ArmHandlerStep ==
    ASSUME IInv, ArmHandler
    PROVE  IInv'
  <1>1. /\ main = "run" /\ UNCHANGED <<timerVars, host>> /\ fixture' = fixture
        /\ \/ fixture = "preempt" /\ KernelA("arm", 2, 0)
           \/ fixture \in BlockingFixtures /\ KernelB("arm", 2, LeaveA(fixture) + 1)
    BY Zenon, AtLabel DEF ArmHandler, KernelStep, Executes, host
  <1>2. Taken' => Taken
    <2>1. pc' # "scheduler"
      BY Zenon DEF ArmHandler, KernelStep
    <2>2. QED
      BY Zenon, <2>1 DEF ArmHandler, KernelStep, Taken, host
  <1>3. CASE fixture = "preempt"
    <2>1. KernelA("P", 3, 0)'
      BY Zenon, <1>1, <1>3 DEF ArmHandler, KernelStep, KernelA, KernelB, Running, Cpu, Memory, StateAt,
         QueueAt, WaitAt, BlockingFixtures, WaitFixtures, Queued, host
    <2>2. QED
      BY Zenon, <1>1, <1>2, <1>3, <2>1, QuietPath DEF PathA
  <1>4. CASE fixture \in BlockingFixtures \ WaitFixtures
    <2>1. KernelB("P", 3, ArmAt(fixture))'
      BY <1>1, <1>4 DEF ArmHandler, KernelStep, KernelA, KernelB, Running, Cpu, Memory, StateAt,
         QueueAt, WaitAt, ArmAt, LeaveA, BlockingFixtures, WaitFixtures, Queued, host
    <2>2. QED
      BY Zenon, <1>1, <1>2, <1>4, <2>1, QuietPath DEF PathB
  <1>5. CASE fixture \in WaitFixtures
    <2>1. KernelB("arm", 2, LeaveA(fixture) + 1) /\ LeaveA(fixture) + 1 = 3
      BY <1>1, <1>5 DEF WaitFixtures, LeaveA
    <2>2. wait = WaitOf("a", 0, 0, "none") /\ state = BlockedA
      BY <1>1, <1>5, <2>1 DEF KernelB, Memory, WaitAt, StateAt, BlockingFixtures
    <2>3. wait.owner = "a" /\ wait.mismatches + 1 = 1 /\ state["A"] = "blocked"
      BY <2>2 DEF WaitOf, BlockedA
    <2>4. wait' = [wait EXCEPT !.attempt = "wrong", !.mismatches = 1] /\ pc' = "X" /\ dirty'
      BY Zenon, <1>5, <2>3 DEF ArmHandler, KernelStep
    <2>5. wait' \in [owner : {"a"}, mismatches : {1}, wakes : {0}, attempt : {"wrong"}]
      BY Zenon, <2>2, <2>4 DEF WaitOf
    <2>6. wait' = WaitAt(fixture, 3)
      BY <1>5, <2>5, WaitFields DEF WaitAt
    <2>7. KernelB("X", 3, 3)'
      BY <1>1, <1>5, <2>1, <2>4, <2>6 DEF ArmHandler, KernelStep, KernelB, Running, Cpu, Memory,
         StateAt, QueueAt, host
    <2>8. QED
      BY Zenon, <1>1, <1>2, <1>5, <2>4, <2>7, QuietPath DEF PathB
  <1>6. QED
    BY Zenon, <1>1, <1>3, <1>4, <1>5

\* STI and HLT.
LEMMA StiHltStep ==
    ASSUME IInv, Sti \/ Hlt
    PROVE  IInv'
  <1>1. /\ main = "run" /\ UNCHANGED <<timerVars, host>> /\ fixture' = fixture
        /\ accepted' = accepted
    BY Zenon DEF Sti, Hlt, Executes, host
  <1>2. Taken' => Taken
    BY Zenon, <1>1 DEF Sti, Hlt, Taken
  <1>3. CASE Sti
    <2>1. Arming("sti", FALSE, FALSE, "none") /\ ~shadow /\ ~halted
      BY Zenon, <1>3, AtLabel DEF Sti, Executes
    <2>2. Arming("hlt", TRUE, FALSE, "none")' /\ shadow' /\ ~halted'
      BY Zenon, <1>1, <1>3, <2>1 DEF Sti, Arming, Cpu, Memory, page
    <2>3. QED
      BY Zenon, <1>1, <1>2, <2>2, QuietPath DEF PathHlt
  <1>4. CASE Hlt
    <2>1. Arming("hlt", TRUE, FALSE, "none") /\ ~halted
      BY Zenon, <1>4, AtLabel DEF Hlt, Executes
    <2>2. Arming("armed", TRUE, FALSE, "none")' /\ ~shadow' /\ halted'
      BY Zenon, <1>1, <1>4, <2>1 DEF Hlt, Arming, Cpu, Memory, page
    <2>3. QED
      BY Zenon, <1>1, <1>2, <2>2, QuietPath DEF PathHlt
  <1>5. QED
    BY Zenon, <1>3, <1>4

\* After the wakeup the arm handler finds A runnable and goes on.
LEMMA ArmedHandlerStep ==
    ASSUME IInv, ArmedHandler
    PROVE  IInv'
  <1>1. /\ main = "run" /\ UNCHANGED <<timerVars, host>> /\ fixture' = fixture
        /\ accepted' = accepted /\ Waking("armed", TRUE, FALSE, "none", 2)
    BY Zenon, AtLabel DEF ArmedHandler, KernelStep, Executes, host
  <1>2. Taken' => Taken
    BY Zenon, <1>1 DEF ArmedHandler, Waking, Taken, BlockingFixtures, WaitFixtures
  <1>3. state["A"] = "runnable" /\ fixture # "preempt"
    BY <1>1 DEF Waking, Memory, StateAt, BothRunnable, BlockingFixtures, WaitFixtures
  <1>4. fixture \in WaitFixtures => wait.owner = "none"
    BY <1>1 DEF Waking, Memory, WaitAt, WaitOf
  <1>5. CASE fixture = "wakeup"
    <2>1. LateB("scheduler", 5, LeaveB(fixture))'
      BY <1>1, <1>3, <1>5 DEF ArmedHandler, KernelStep, Waking, LateB, Running, Cpu, Memory,
         StateAt, QueueAt, WaitAt, ArmAt, LeaveB, BlockingFixtures, WaitFixtures, Queued, page
    <2>2. QED
      BY Zenon, <1>1, <1>2, <2>1, QuietPath DEF PathWake
  <1>6. CASE fixture \in Queued
    <2>1. pc' = "queue"
      BY Zenon, <1>3, <1>4, <1>6 DEF ArmedHandler, KernelStep, Queued, WaitFixtures
    <2>2. LateB("queue", 4, ArmAt(fixture) + 2)'
      BY Zenon, <1>1, <2>1 DEF ArmedHandler, KernelStep, Waking, LateB, Running, Cpu, Memory, page
    <2>3. QED
      BY Zenon, <1>1, <1>2, <1>6, <2>2, QuietPath DEF PathWake
  <1>7. QED
    BY Zenon, <1>1, <1>5, <1>6 DEF Waking, BlockingFixtures, Queued

\* The queue handler selects what QueueModel::select_next does: B while A is
\* blocked, and A after it was woken.
LEMMA QueueHandlerStep ==
    ASSUME IInv, QueueHandler
    PROVE  IInv'
  <1>1. /\ main = "run" /\ UNCHANGED <<timerVars, host>> /\ fixture' = fixture
        /\ accepted' = accepted /\ fixture \in Queued /\ fixture # "preempt"
        /\ KernelA("queue", 1, 1) \/ LateB("queue", 4, ArmAt(fixture) + 2)
    BY Zenon, AtLabel DEF QueueHandler, KernelStep, Executes, host, Queued, WaitFixtures
  <1>2. Taken' => Taken
    BY Zenon, <1>1 DEF QueueHandler, KernelStep, Taken
  <1>3. CASE KernelA("queue", 1, 1)
    <2>1. state = BlockedA /\ queue = QueueNew /\ space = "A"
      BY Zenon, <1>1, <1>3 DEF KernelA, Running, Cpu, Memory, StateAt, QueueAt, Queued, BlockingFixtures
    <2>2. queue' = FirstSelection /\ pc' = "1"
      BY <2>1, Selections DEF QueueHandler, KernelStep, QueueNew, BlockedA, Other
    <2>3. KernelA("1", 2, 1)'
      BY <1>1, <1>3, <2>2 DEF QueueHandler, KernelStep, KernelA, Running, Cpu, Memory, StateAt,
         QueueAt, WaitAt
    <2>4. QED
      BY Zenon, <1>1, <1>2, <2>3, QuietPath DEF PathA
  <1>4. CASE LateB("queue", 4, ArmAt(fixture) + 2)
    <2>1. state = BothRunnable /\ queue = FirstSelection /\ space = "B"
      BY <1>1, <1>4 DEF LateB, Running, Cpu, Memory, StateAt, QueueAt
    <2>2. queue' = SecondSelection /\ pc' = "0"
      BY <2>1, Selections DEF QueueHandler, KernelStep, BothRunnable, Other
    <2>3. LateB("0", 5, ArmAt(fixture) + 2)'
      BY <1>1, <1>4, <2>2 DEF QueueHandler, KernelStep, LateB, Running, Cpu, Memory, StateAt,
         QueueAt, WaitAt
    <2>4. QED
      BY Zenon, <1>1, <1>2, <2>3, QuietPath DEF PathWake
  <1>5. QED
    BY Zenon, <1>1, <1>3, <1>4

\* Saving the task that runs leads from one pair of contexts to the next.
LEMMA SavedContexts ==
    /\ [Contexts(1) EXCEPT !["A"] = SavedA] = Contexts(2)
    /\ [Contexts(2) EXCEPT !["B"] = SavedB] = Contexts(3)
    /\ [Contexts(2) EXCEPT !["B"] = WildB] = Contexts(4)
  <1>1. Contexts(1) = [A |-> Context("none", "none", "zero", 0), B |-> Context("entry", "B", "B", 0)]
    BY DEF Contexts
  <1>2. Contexts(2) = [A |-> SavedA, B |-> Context("entry", "B", "B", 0)]
    BY DEF Contexts
  <1>3. Contexts(3) = [A |-> SavedA, B |-> SavedB]
    BY DEF Contexts
  <1>4. Contexts(4) = [A |-> SavedA, B |-> WildB]
    BY DEF Contexts
  <1>5. QED
    BY <1>1, <1>2, <1>3, <1>4

\* The scheduler saves the running task and enters the other one.
LEMMA SwitchStep ==
    ASSUME IInv, Switch
    PROVE  IInv'
  <1>1. /\ main = "run" /\ UNCHANGED <<timerVars, host>> /\ fixture' = fixture
        /\ accepted' = accepted
        /\ \/ KernelA("switch", 2, LeaveA(fixture) + 1) \/ LateB("switch", 5, LeaveB(fixture) + 1)
           \/ PathWild
    BY Zenon, AtLabel DEF Switch, Executes, host
  <1>2. CASE KernelA("switch", 2, LeaveA(fixture) + 1)
    <2>1. context = Contexts(1) /\ space = "A" /\ frame = "after" /\ r12 = "A"
      BY Zenon, <1>2 DEF KernelA, Running, Cpu, Memory
    <2>2. context' = Contexts(2)
      <3>1. context["A"].saves + 1 = 1
        BY <2>1 DEF Contexts, Context
      <3>2. context' = [context EXCEPT !["A"] = SavedA]
        BY Zenon, <2>1, <3>1 DEF Switch, SavedA, Context
      <3>3. QED
        BY Zenon, <2>1, <3>2, SavedContexts
    <2>3. space' = "B" /\ r12' = "B" /\ pc' = "entry"
      BY <2>1 DEF Switch, Contexts, Context, Other
    <2>4. EntryB'
      BY Zenon, <1>1, <1>2, <2>2, <2>3 DEF Switch, KernelA, EntryB, Running, Cpu, Memory
    <2>5. Taken' => Taken
      BY Zenon, <1>1, <2>3 DEF Switch, Taken
    <2>6. QED
      BY Zenon, <1>1, <2>4, <2>5, QuietPath DEF PathB
  <1>3. CASE LateB("switch", 5, LeaveB(fixture) + 1)
    <2>1. context = Contexts(2) /\ space = "B" /\ frame = "after" /\ r12 = "B+"
      BY Zenon, <1>3 DEF LateB, Running, Cpu, Memory
    <2>2. context' = Contexts(3)
      <3>1. context["B"].saves + 1 = 1
        BY <2>1 DEF Contexts, Context
      <3>2. context' = [context EXCEPT !["B"] = SavedB]
        BY Zenon, <2>1, <3>1 DEF Switch, SavedB, Context
      <3>3. QED
        BY Zenon, <2>1, <3>2, SavedContexts
    <2>3. space' = "A" /\ r12' = "A" /\ pc' = "after"
      BY <2>1 DEF Switch, Contexts, SavedA, Context, Other
    <2>4. Back'
      BY Zenon, <1>1, <1>3, <2>2, <2>3 DEF Switch, LateB, Back, Running, Cpu, Memory
    <2>5. Taken' => Taken
      BY Zenon, <1>1, <2>3 DEF Switch, Taken
    <2>6. QED
      BY Zenon, <1>1, <2>4, <2>5, QuietPath DEF PathExit
  <1>4. CASE PathWild
    <2>1. /\ context = Contexts(2) /\ space = "B" /\ frame = "wild" /\ r12 = "B+"
          /\ fixture = "preempt" /\ accepted = 3 /\ "watchdog" \in raised /\ raised' = raised
      BY Zenon, <1>1, <1>4 DEF PathWild, Switch, Executes, timerVars
    <2>2. context' = Contexts(4)
      <3>1. context["B"].saves + 1 = 1
        BY <2>1 DEF Contexts, Context
      <3>2. context' = [context EXCEPT !["B"] = WildB]
        BY Zenon, <2>1, <3>1 DEF Switch, WildB, Context
      <3>3. QED
        BY Zenon, <2>1, <3>2, SavedContexts
    <2>3. Again'
      BY Zenon, <1>1, <1>4, <2>1 DEF Switch, PathWild, Again, AgainPreempted
    <2>4. Taken' => Taken
      BY <1>1, <2>1 DEF Taken, ArmAt
    <2>5. QED
      BY Zenon, <1>1, <2>2, <2>3, <2>4, Quiet DEF RunInv, Saved
  <1>5. QED
    BY Zenon, <1>1, <1>2, <1>3, <1>4

\* The terminal handler finds task A's registers.
LEMMA TerminalHandlerStep ==
    ASSUME IInv, TerminalHandler
    PROVE  IInv'
  <1>1. /\ main = "run" /\ UNCHANGED <<timerVars, host>> /\ fixture' = fixture
        /\ accepted' = accepted /\ Exiting("terminal", 1, <<>>)
    BY Zenon, AtLabel DEF TerminalHandler, KernelStep, Executes, host
  <1>2. space = "A" /\ r12 = "A" /\ frame = "end"
    BY Zenon, <1>1 DEF Exiting, Running, Cpu
  <1>3. terminal' = Terminal /\ pc' = "R" /\ dirty'
    BY Zenon, <1>2 DEF TerminalHandler, KernelStep, Terminal
  <1>4. Exiting("R", 1, Terminal)'
    BY Zenon, <1>1, <1>3 DEF TerminalHandler, KernelStep, Exiting, Running, Cpu, Memory
  <1>5. Taken' => Taken
    BY Zenon, <1>1, <1>3 DEF TerminalHandler, KernelStep, Taken
  <1>6. QED
    BY Zenon, <1>1, <1>3, <1>4, <1>5, QuietPath DEF PathExit

\* EOI and IRETQ of the timer handler.
LEMMA EoiIretStep ==
    ASSUME IInv, Eoi \/ Iret
    PROVE  IInv'
  <1>1. /\ main = "run" /\ UNCHANGED <<timerVars, host>> /\ fixture' = fixture
        /\ accepted' = accepted
    BY Zenon DEF Eoi, Iret, KernelStep, Executes, host
  <1>2. CASE Eoi
    <2>1. Waking("eoi", FALSE, TRUE, "armed", 2)
      BY Zenon, <1>2, AtLabel DEF Eoi, Executes
    <2>2. Waking("iret", FALSE, FALSE, "armed", 2)'
      BY Zenon, <1>1, <1>2, <2>1 DEF Eoi, KernelStep, Waking, Running, Cpu, Memory, page
    <2>3. Taken' => Taken
      BY Zenon, <2>1 DEF Waking, Running, Cpu, Taken
    <2>4. QED
      BY Zenon, <1>1, <2>2, <2>3, QuietPath DEF PathWake
  <1>3. CASE Iret
    <2>1. Waking("iret", FALSE, FALSE, "armed", 2)
      BY Zenon, <1>3, AtLabel DEF Iret, Executes
    <2>2. Waking("armed", TRUE, FALSE, "none", 2)'
      BY Zenon, <1>1, <1>3, <2>1 DEF Iret, Waking, Running, Cpu, Memory, page
    <2>3. Taken' => Taken
      BY Zenon, <1>1, <1>3, <2>1 DEF Iret, Waking, Running, Cpu, Taken
    <2>4. QED
      BY Zenon, <1>1, <2>2, <2>3, QuietPath DEF PathWake
  <1>4. QED
    BY Zenon, <1>2, <1>3

\* The timer handler of a blocking fixture: the first time it wakes A, a second
\* time it is on the way to an output that is refused.
LEMMA WakeTimerHandlerStep ==
    ASSUME IInv, WakeTimerHandler
    PROVE  IInv'
  <1>1. /\ main = "run" /\ UNCHANGED <<timerVars, host>> /\ fixture' = fixture
        /\ accepted' = accepted /\ raised' = raised /\ fixture # "preempt"
        /\ Again \/ (Arming("timer", FALSE, TRUE, "armed") /\ ~shadow)
    BY Zenon, AtLabel DEF WakeTimerHandler, KernelStep, Executes, host, timerVars, PathWild
  <1>2. pc = "timer" /\ pc' # "scheduler"
    BY Zenon DEF WakeTimerHandler, KernelStep, Executes
  <1>3. Taken' => Taken
    BY Zenon, <1>1, <1>2 DEF WakeTimerHandler, KernelStep, Taken
  <1>4. CASE Again
    <2>1. pc' \in {"W", "F"}
      BY Zenon DEF WakeTimerHandler, KernelStep
    <2>2. Again'
      BY Zenon, <1>1, <1>4, <2>1 DEF WakeTimerHandler, KernelStep, Again, AgainPreempted, AgainWoken
    <2>3. context' \in Saved
      BY Zenon DEF WakeTimerHandler, IInv, HostTypeOK, Saved
    <2>4. QED
      BY Zenon, <1>1, <1>3, <2>2, <2>3, Quiet DEF RunInv
  <1>5. CASE Arming("timer", FALSE, TRUE, "armed") /\ ~shadow
    <2>1. fixture \in BlockingFixtures
      BY Zenon, <1>1, <1>5 DEF Arming, IInv, HostTypeOK, AllFixtures
    <2>2. state = BlockedA /\ wait = WaitAt(fixture, 3)
      BY Zenon, <1>1, <1>5, <2>1 DEF Arming, Memory, StateAt
    <2>3. fixture \in WaitFixtures => wait.owner = "a"
      BY <2>2 DEF WaitAt, WaitOf
    <2>4. state' = BothRunnable /\ pc' = "W" /\ dirty'
      BY Zenon, <2>2, <2>3 DEF WakeTimerHandler, KernelStep, BlockedA, BothRunnable
    <2>5. wait' = WaitAt(fixture, 4)
      <3>1. CASE fixture \in WaitFixtures
        <4>1. wait = WaitOf("a", 1, 0, "wrong") /\ wait.wakes + 1 = 1
          BY <2>2, <3>1 DEF WaitAt, WaitOf
        <4>2. wait' = [wait EXCEPT !.attempt = "a", !.owner = "none", !.wakes = 1]
          BY Zenon, <2>3, <3>1, <4>1 DEF WakeTimerHandler
        <4>3. wait' \in [owner : {"none"}, mismatches : {1}, wakes : {1}, attempt : {"a"}]
          BY Zenon, <4>1, <4>2 DEF WaitOf
        <4>4. QED
          BY <3>1, <4>3, WaitFields DEF WaitAt
      <3>2. CASE fixture \notin WaitFixtures
        BY Zenon, <2>2, <3>2 DEF WakeTimerHandler, WaitAt
      <3>3. QED
        BY Zenon, <3>1, <3>2
    <2>6. Waking("W", FALSE, TRUE, "armed", 1)'
      BY <1>1, <1>5, <2>1, <2>4, <2>5 DEF WakeTimerHandler, KernelStep, Executes, Arming, Waking,
         Running, Cpu, Memory, StateAt, QueueAt
    <2>7. QED
      BY Zenon, <1>1, <1>3, <2>4, <2>6, QuietPath DEF PathWake
  <1>6. QED
    BY Zenon, <1>1, <1>4, <1>5

\* The preemption wrapper: the first time on the stack of the arm handler.
LEMMA PreemptTimerWrapperStep ==
    ASSUME IInv, PreemptTimerWrapper
    PROVE  IInv'
  <1>1. /\ main = "run" /\ UNCHANGED <<timerVars, host>> /\ fixture' = fixture
        /\ accepted' = accepted /\ raised' = raised /\ fixture = "preempt" /\ pc = "timer"
        /\ Again \/ PathWild \/ (Arming("timer", FALSE, TRUE, "armed") /\ ~shadow)
    BY Zenon, AtLabel DEF PreemptTimerWrapper, KernelStep, Executes, host, timerVars
  <1>2. CASE Again
    <2>1. Taken
      BY <1>1, <1>2 DEF Again, AgainPreempted, AgainWoken, Taken, ArmAt, BlockingFixtures,
         WaitFixtures
    <2>2. Again'
      BY Zenon, <1>1, <1>2 DEF PreemptTimerWrapper, KernelStep, Again, AgainPreempted, AgainWoken,
         BlockingFixtures, WaitFixtures
    <2>3. context' \in Saved
      BY Zenon DEF PreemptTimerWrapper, page, IInv, HostTypeOK, Saved
    <2>4. QED
      BY Zenon, <1>1, <2>1, <2>2, <2>3, Quiet DEF RunInv
  <1>3. CASE Arming("timer", FALSE, TRUE, "armed") /\ ~shadow
    <2>1. Taken
      BY Zenon, <1>1, <1>3 DEF Arming, Cpu, Taken
    <2>2. KernelA("scheduler", 2, LeaveA(fixture))'
      BY <1>1, <1>3 DEF PreemptTimerWrapper, KernelStep, Executes, Arming, KernelA, Running, Cpu,
         Memory, StateAt, QueueAt, WaitAt, LeaveA, ArmAt, User, BlockingFixtures, WaitFixtures,
         Queued, page
    <2>3. QED
      BY Zenon, <1>1, <2>1, <2>2, QuietPath DEF PathA
  <1>4. CASE PathWild
    <2>1. Taken
      BY <1>1, <1>4 DEF PathWild, Taken, ArmAt
    <2>2. PathWild' /\ context' \in Saved
      BY Zenon, <1>1, <1>4 DEF PreemptTimerWrapper, KernelStep, PathWild, User, page, Saved
    <2>3. QED
      BY Zenon, <1>1, <2>1, <2>2, Quiet DEF RunInv
  <1>5. QED
    BY Zenon, <1>1, <1>2, <1>3, <1>4

\* An interrupt is the first one, out of HLT, or a second one.
LEMMA TakesInterruptStep ==
    ASSUME IInv, TakesInterrupt
    PROVE  IInv'
  <1>1. /\ main = "run" /\ main' = "run" /\ fixture' = fixture /\ accepted' = accepted
        /\ raised' = raised /\ irr /\ ~irr' /\ if /\ ~shadow /\ ~isr
        /\ UNCHANGED <<worker, watchdog, host, page>>
    BY Zenon DEF TakesInterrupt, host
  <1>2. raised # {} /\ worker # "unspawned" /\ raised \subseteq {"worker", "watchdog"}
    BY Zenon, <1>1 DEF IInv, HostTypeOK, TimerTypeOK, ThreadInv
  <1>3. fixture # "switch" /\ ~(accepted <= ArmAt(fixture)) /\ fixture \in AllFixtures
    BY Zenon, <1>1, <1>2 DEF IInv, SpawnInv, Before, HostTypeOK
  <1>4. Taken => "watchdog" \in raised
    BY Zenon, <1>1, <1>3 DEF IInv, EdgeInv
  <1>5. ~shadow' /\ ~halted' /\ ~if' /\ pc' = "timer" /\ isr'
    BY Zenon, <1>1 DEF TakesInterrupt
  <1>6. RunInv'
    <2>1. CASE PathA
      <3>1. EntryA
        BY Zenon, <1>1, <2>1 DEF PathA, KernelA, Running, Cpu
      <3>2. QED
        BY <1>3, <3>1 DEF EntryA, ArmAt
    <2>2. CASE PathB
      <3>1. EntryB \/ YieldB
        BY Zenon, <1>1, <2>2 DEF PathB, KernelB, Running, Cpu
      <3>2. accepted = LeaveA(fixture) + 1
        BY Zenon, <3>1 DEF EntryB, YieldB
      <3>3. fixture = "preempt" /\ accepted = 2
        BY <1>3, <3>2 DEF ArmAt, LeaveA, AllFixtures, BlockingFixtures, WaitFixtures
      <3>4. "watchdog" \in raised
        BY <1>4, <3>3 DEF Taken, ArmAt
      <3>5. EntryB => Again'
        BY Zenon, <1>1, <1>5, <3>3, <3>4 DEF TakesInterrupt, EntryB, Running, Cpu, Again,
           AgainPreempted
      <3>6. YieldB => PathWild'
        BY Zenon, <1>1, <1>5, <3>3, <3>4 DEF TakesInterrupt, YieldB, Running, Cpu, Memory, PathWild,
           page
      <3>7. QED
        BY Zenon, <3>1, <3>5, <3>6 DEF RunInv
    <2>3. CASE PathHlt
      <3>1. Arming("armed", TRUE, FALSE, "none")
        BY Zenon, <1>1, <2>3 DEF PathHlt, Arming, Cpu
      <3>2. Arming("timer", FALSE, TRUE, "armed")'
        BY Zenon, <1>1, <1>5, <3>1 DEF TakesInterrupt, Arming, Cpu, Memory, page
      <3>3. QED
        BY Zenon, <1>5, <3>2 DEF RunInv, PathHlt
    <2>4. CASE PathWake
      <3>1. fixture \in BlockingFixtures
        BY Zenon, <1>1, <2>4 DEF PathWake, Waking, LateB, Running, Cpu
      <3>2. /\ accepted \in (ArmAt(fixture) + 2)..(LeaveB(fixture) + 1)
            /\ wait = WaitAt(fixture, 4)
        BY <1>1, <2>4, <3>1 DEF PathWake, Waking, LateB, Running, Cpu, Memory, WaitAt, ArmAt,
           LeaveB, BlockingFixtures, WaitFixtures
      <3>3. "watchdog" \in raised
        BY <1>4, <3>1, <3>2 DEF Taken, ArmAt
      <3>4. fixture \in WaitFixtures => wait'.owner = "none"
        BY <1>1, <3>2 DEF WaitAt, WaitOf, page
      <3>5. Again'
        BY Zenon, <1>1, <1>5, <3>1, <3>2, <3>3, <3>4 DEF Again, AgainWoken
      <3>6. QED
        BY Zenon, <3>5 DEF RunInv
    <2>5. CASE PathExit
      <3>1. Back
        BY Zenon, <1>1, <2>5 DEF PathExit, Exiting, Running, Cpu
      <3>2. Taken
        BY <1>3, <3>1 DEF Back, Taken, ArmAt, LeaveB, AllFixtures, BlockingFixtures, WaitFixtures
      <3>3. CASE fixture = "preempt"
        <4>1. accepted = 3 /\ space = "A" /\ r12 = "A"
          BY <3>1, <3>3 DEF Back, Running, Cpu, LeaveB
        <4>2. Again'
          BY Zenon, <1>1, <1>4, <1>5, <3>2, <3>3, <4>1 DEF TakesInterrupt, Again, AgainPreempted
        <4>3. QED
          BY Zenon, <4>2 DEF RunInv
      <3>4. CASE fixture \in BlockingFixtures
        <4>1. accepted \in (ArmAt(fixture) + 2)..(LeaveB(fixture) + 1)
          BY <3>1, <3>4 DEF Back, ArmAt, LeaveB, BlockingFixtures, WaitFixtures
        <4>2. fixture \in WaitFixtures => wait'.owner = "none"
          BY <1>1, <3>1 DEF Back, Memory, WaitAt, WaitOf, page
        <4>3. Again'
          BY Zenon, <1>1, <1>4, <1>5, <3>2, <3>4, <4>1, <4>2 DEF Again, AgainWoken
        <4>4. QED
          BY Zenon, <4>3 DEF RunInv
      <3>5. QED
        BY Zenon, <1>3, <3>3, <3>4 DEF AllFixtures
    <2>6. ~Again /\ ~PathWild
      BY Zenon, <1>1 DEF Again, PathWild
    <2>7. QED
      BY Zenon, <1>1, <2>1, <2>2, <2>3, <2>4, <2>5, <2>6 DEF IInv, RunInv
  <1>7. HostTypeOK' /\ ThreadInv' /\ GuestMeetsModel'
    <2>1. irr' \in BOOLEAN /\ UNCHANGED <<worker, watchdog, cancelled, level, raised, failed, context>>
      BY Zenon DEF TakesInterrupt, page
    <2>2. HostTypeOK'
      BY Zenon, <1>1, <2>1 DEF IInv, HostTypeOK, TimerTypeOK, host
    <2>3. ThreadInv' /\ GuestMeetsModel'
      BY Zenon, <1>1, <2>1 DEF IInv, ThreadInv, GuestMeetsModel, host
    <2>4. QED
      BY Zenon, <2>2, <2>3
  <1>8. SpawnInv'
    BY Zenon, <1>1 DEF IInv, SpawnInv
  <1>9. EdgeInv'
    BY Zenon, <1>1, <1>2 DEF EdgeInv
  <1>10. CaptureInv' /\ JoinInv'
    BY Zenon, <1>1 DEF CaptureInv, JoinInv, Joining
  <1>11. QED
    BY Zenon, <1>6, <1>7, <1>8, <1>9, <1>10 DEF IInv

-----------------------------------------------------------------------------
(* The host threads.                                                         *)

\* What the threads do moves neither the guest nor the main thread.
LEMMA ThreadsStep ==
    ASSUME IInv, Threads
    PROVE  IInv'
  <1>1. /\ UNCHANGED <<fixture, main, accepted, execution, result, captured>>
        /\ UNCHANGED <<pc, if, shadow, halted, isr, space, r12, frame, resume>>
        /\ UNCHANGED <<context, terminal, state, queue, wait, dirty>>
    BY Zenon DEF Threads, host, cpu, page
  <1>2. TimerStep \/ WatchdogStep
    BY Zenon DEF Threads
  <1>3. TimerTypeOK' /\ raised \subseteq raised'
    BY Zenon, <1>2 DEF IInv, HostTypeOK, TimerTypeOK, TimerStep, WatchdogStep, SetGsiLevel, Fails,
       ThreadState
  <1>4. ThreadInv'
    BY <1>2 DEF IInv, HostTypeOK, TimerTypeOK, ThreadInv, TimerStep, WatchdogStep, SetGsiLevel,
       Fails
  <1>5. (worker' = "unspawned" <=> worker = "unspawned") /\ failed \subseteq failed'
    BY Zenon, <1>2 DEF TimerStep, WatchdogStep, SetGsiLevel, Fails
  <1>6. SpawnInv'
    BY Zenon, <1>1, <1>5 DEF IInv, SpawnInv
  <1>7. EdgeInv'
    <2>1. SUFFICES ASSUME main' = "run", fixture' # "switch", "watchdog" \notin raised'
                   PROVE  (irr' => ~Taken') /\ (Taken' => "worker" \in raised')
      BY Zenon DEF EdgeInv
    <2>2. (irr => ~Taken) /\ (Taken => "worker" \in raised) /\ (Taken' <=> Taken)
      BY Zenon, <1>1, <1>3, <2>1 DEF IInv, EdgeInv, Taken
    <2>3. CASE worker = "expired" /\ worker' = "raised"
      <3>1. "worker" \notin raised
        BY Zenon, <2>3 DEF IInv, ThreadInv
      <3>2. QED
        BY Zenon, <2>2, <3>1
    <2>4. CASE irr' => irr
      BY Zenon, <1>3, <2>2, <2>4
    <2>5. TimerStep => (worker = "expired" /\ worker' = "raised") \/ (irr' => irr)
      BY Zenon DEF TimerStep, SetGsiLevel
    <2>6. WatchdogStep => "watchdog" \in raised' \/ (irr' => irr)
      BY Zenon DEF WatchdogStep, SetGsiLevel
    <2>7. QED
      BY Zenon, <1>2, <2>1, <2>3, <2>4, <2>5, <2>6
  <1>8. RunInv'
    <2>1. /\ PathA => PathA'
          /\ PathB => PathB'
      BY Zenon, <1>1 DEF PathA, PathB, EntryA, EntryB, YieldB, KernelA, KernelB, Running, Cpu, Memory
    <2>2. /\ PathHlt => PathHlt'
          /\ PathWake => PathWake'
          /\ PathExit => PathExit'
      BY Zenon, <1>1 DEF PathHlt, PathWake, PathExit, Arming, Waking, LateB, Back, Exiting, Running, Cpu,
         Memory
    <2>3. (Again => Again') /\ (PathWild => PathWild')
      BY Zenon, <1>1, <1>3 DEF Again, AgainPreempted, AgainWoken, PathWild
    <2>4. QED
      BY Zenon, <1>1, <2>1, <2>2, <2>3 DEF IInv, RunInv
  <1>9. CaptureInv'
    BY Zenon, <1>1 DEF IInv, CaptureInv, AtX, KernelB, Running, Cpu, Memory
  <1>10. JoinInv'
    <2>1. (WorkerJoined => WorkerJoined') /\ (WatchdogJoined => WatchdogJoined')
      BY Zenon, <1>2 DEF TimerStep, WatchdogStep, WorkerJoined, WatchdogJoined
    <2>2. QED
      BY Zenon, <1>1, <1>3, <1>5, <2>1 DEF IInv, JoinInv, Memory
  <1>11. GuestMeetsModel'
    <2>1. watchdog \in {"done", "failed"} => watchdog' \in {"done", "failed"}
      BY Zenon, <1>2 DEF TimerStep, WatchdogStep
    <2>2. QED
      BY Zenon, <1>1, <1>5, <2>1 DEF IInv, GuestMeetsModel
  <1>12. HostTypeOK'
    BY Zenon, <1>1, <1>3 DEF IInv, HostTypeOK
  <1>13. QED
    BY Zenon, <1>4, <1>6, <1>7, <1>8, <1>9, <1>10, <1>11, <1>12 DEF IInv

-----------------------------------------------------------------------------
(* Outputs.                                                                  *)

\* The output of a second interrupt is not the one the host waits for.
LEMMA AgainIsRefused ==
    ASSUME IInv, AtExit, Again
    PROVE  OutputByte # Proof[accepted + 1]
  <1>1. fixture \in AllFixtures
    BY Zenon DEF IInv, HostTypeOK
  <1>2. CASE AgainPreempted
    <2>1. pc \in {"scheduler", "fault"} /\ Proof[3] = "B" /\ Proof[4] = "R"
      BY <1>1, <1>2, Outputs DEF AtExit, AgainPreempted, LeaveB
    <2>2. QED
      BY <1>2, <2>1 DEF AgainPreempted, OutputByte
  <1>3. CASE AgainWoken
    <2>1. OutputByte \in {"W", "F"}
      BY Zenon, <1>3 DEF AtExit, AgainWoken, OutputByte
    <2>2. Proof[accepted + 1] \in {"0", "B", "R"}
      BY Zenon, <1>1, <1>3, Outputs DEF AgainWoken
    <2>3. QED
      BY Zenon, <2>1, <2>2
  <1>4. QED
    BY Zenon, <1>2, <1>3 DEF Again

\* The order of the counts.
LEMMA Counts ==
    ASSUME fixture \in AllFixtures
    PROVE  /\ LeaveA(fixture) \in Nat /\ LeaveB(fixture) \in Nat /\ ArmAt(fixture) \in Nat
           /\ LeaveA(fixture) < LeaveB(fixture)
           /\ fixture # "switch" => ArmAt(fixture) + 1 < LeaveB(fixture)
           /\ fixture \in BlockingFixtures => /\ 0 < LeaveA(fixture)
                                             /\ LeaveA(fixture) < ArmAt(fixture)
                                             /\ ArmAt(fixture) + 2 <= LeaveB(fixture)
           /\ fixture \in Queued => LeaveA(fixture) = 2 /\ ArmAt(fixture) + 3 = LeaveB(fixture)
           /\ fixture = "wakeup" => LeaveA(fixture) = 1 /\ ArmAt(fixture) + 2 = LeaveB(fixture)
           /\ fixture \in WaitFixtures => ArmAt(fixture) = 4
           /\ fixture = "preempt" => ArmAt(fixture) = 0 /\ LeaveA(fixture) = 1
  BY DEF AllFixtures, BlockingFixtures, WaitFixtures, Queued, LeaveA, LeaveB, ArmAt

\* The guest's wait channel is in the state of the host's model.
LEMMA Snapshots ==
    ASSUME fixture \in WaitFixtures, NEW k \in 1..5,
           state = StateAt(fixture, k), wait = WaitAt(fixture, k)
    PROVE  /\ k \in {1, 2} => WaitSnapshot = WaitBlocked
           /\ k = 3 => WaitSnapshot = WaitMismatch
           /\ k \in {4, 5} => WaitSnapshot = WaitWoken
  <1>1. ASSUME k \in {1, 2}
        PROVE  WaitSnapshot = WaitBlocked
    <2>1. state = BlockedA /\ wait = WaitOf("a", 0, 0, "none")
      BY SMTT(30), <1>1 DEF StateAt, WaitAt, BlockingFixtures
    <2>2. QED
      BY <2>1, WaitModel DEF WaitSnapshot, WaitOf, BlockedA
  <1>2. ASSUME k = 3
        PROVE  WaitSnapshot = WaitMismatch
    <2>1. state = BlockedA /\ wait = WaitOf("a", 1, 0, "wrong")
      BY <1>2 DEF StateAt, WaitAt, BlockingFixtures
    <2>2. QED
      BY <2>1, WaitModel DEF WaitSnapshot, WaitOf, BlockedA
  <1>3. ASSUME k \in {4, 5}
        PROVE  WaitSnapshot = WaitWoken
    <2>1. state = BothRunnable /\ wait = WaitOf("none", 1, 1, "a")
      BY <1>3 DEF StateAt, WaitAt
    <2>2. QED
      BY <2>1, WaitModel DEF WaitSnapshot, WaitOf, BothRunnable
  <1>4. QED
    BY Zenon, <1>1, <1>2, <1>3

\* Every other output is the one the host waits for, with the memory it expects.
LEMMA OthersAreExpected ==
    ASSUME IInv, AtExit, ~Again
    PROVE  accepted < Len(Proof) /\ OutputByte = Proof[accepted + 1] /\ Verified(OutputByte)
  <1>1. fixture \in AllFixtures /\ main = "run" /\ ~halted
    BY Zenon DEF IInv, HostTypeOK, AtExit
  <1>2. CASE pc = "K"
    <2>1. fixture \in BlockingFixtures /\ KernelA("K", 1, 0) /\ dirty
      BY Zenon, <1>1, <1>2, AtLabel
    <2>2. accepted < Len(Proof) /\ OutputByte = Proof[accepted + 1] /\ OutputByte = "K"
      BY <1>1, <1>2, <2>1, Outputs, Counts DEF OutputByte, KernelA
    <2>3. state["A"] = "blocked" /\ (fixture \in WaitFixtures => WaitSnapshot = WaitBlocked)
      BY <2>1, Snapshots DEF KernelA, Memory, StateAt, BlockedA
    <2>4. QED
      BY Zenon, <2>1, <2>2, <2>3 DEF Verified
  <1>3. CASE pc = "1"
    <2>1. fixture \in Queued /\ KernelA("1", 2, 1)
      BY Zenon, <1>1, <1>3, AtLabel
    <2>2. accepted < Len(Proof) /\ OutputByte = Proof[accepted + 1] /\ OutputByte = "1"
      BY <1>1, <1>3, <2>1, Outputs, Counts DEF OutputByte, KernelA
    <2>3. state = BlockedA /\ queue = FirstSelection
      BY <2>1 DEF KernelA, Memory, StateAt, QueueAt, Queued, BlockingFixtures
    <2>4. QED
      BY Zenon, <2>2, <2>3 DEF Verified
  <1>4. CASE pc = "X"
    <2>1. fixture \in WaitFixtures /\ KernelB("X", 3, 3) /\ dirty
      BY Zenon, <1>1, <1>4, AtLabel
    <2>2. accepted < Len(Proof) /\ OutputByte = Proof[accepted + 1] /\ OutputByte = "X"
      BY <1>1, <1>4, <2>1, Outputs, Counts DEF OutputByte, KernelB, Queued
    <2>3. WaitSnapshot = WaitMismatch
      BY <2>1, Snapshots DEF KernelB, Memory
    <2>4. QED
      BY Zenon, <2>1, <2>2, <2>3 DEF Verified
  <1>5. CASE pc = "P"
    <2>1. /\ fixture # "switch" /\ accepted = ArmAt(fixture) /\ ~if
          /\ \/ KernelA("P", 3, 0) \/ KernelB("P", 3, ArmAt(fixture))
      BY Zenon, <1>1, <1>5, AtLabel, Counts DEF KernelA, KernelB, Running, Cpu, BlockingFixtures,
         WaitFixtures
    <2>2. accepted < Len(Proof) /\ OutputByte = Proof[accepted + 1] /\ OutputByte = "P"
      BY <1>1, <1>5, <2>1, Outputs, Counts DEF OutputByte
    <2>3. QED
      BY Zenon, <2>1, <2>2 DEF Verified
  <1>6. CASE pc = "W"
    <2>1. Waking("W", FALSE, TRUE, "armed", 1) /\ dirty
      BY Zenon, <1>1, <1>6, AtLabel
    <2>2. accepted < Len(Proof) /\ OutputByte = Proof[accepted + 1] /\ OutputByte = "W"
      BY SMTT(30), <1>1, <1>6, <2>1, Outputs, Counts DEF OutputByte, Waking
    <2>3. state = StateAt(fixture, 4) /\ wait = WaitAt(fixture, 4)
      BY Zenon, <2>1 DEF Waking, Memory
    <2>4. state["A"] = "runnable"
      BY <2>3 DEF StateAt, BothRunnable
    <2>5. fixture \in WaitFixtures => WaitSnapshot = WaitWoken
      BY <2>3, Snapshots
    <2>6. QED
      BY Zenon, <2>1, <2>2, <2>4, <2>5 DEF Verified
  <1>7. CASE pc = "0"
    <2>1. fixture \in Queued /\ LateB("0", 5, ArmAt(fixture) + 2)
      BY Zenon, <1>1, <1>7, AtLabel
    <2>2. accepted < Len(Proof) /\ OutputByte = Proof[accepted + 1] /\ OutputByte = "0"
      BY <1>1, <1>7, <2>1, Outputs, Counts DEF OutputByte, LateB
    <2>3. state = BothRunnable /\ queue = SecondSelection
      BY <2>1 DEF LateB, Memory, StateAt, QueueAt
    <2>4. QED
      BY Zenon, <2>2, <2>3 DEF Verified
  <1>8. CASE pc = "scheduler"
    <2>1. \/ KernelA("scheduler", 2, LeaveA(fixture)) \/ LateB("scheduler", 5, LeaveB(fixture))
          \/ PathWild
      BY Zenon, <1>1, <1>8, AtLabel
    <2>2. CASE ~PathWild
      <3>1. accepted < Len(Proof) /\ OutputByte = Proof[accepted + 1] /\ OutputByte \in {"A", "B"}
        BY SMTT(30), <1>1, <1>8, <2>1, <2>2, Outputs, Counts DEF OutputByte, KernelA, LateB, Running,
           Cpu
      <3>2. QED
        BY Zenon, <3>1 DEF Verified
    <2>3. CASE PathWild
      <3>1. accepted = 2 /\ fixture = "preempt" /\ OutputByte = "B"
        BY Zenon, <1>8, <2>3 DEF PathWild, OutputByte
      <3>2. accepted < Len(Proof) /\ OutputByte = Proof[accepted + 1]
        BY <1>1, <3>1, Outputs DEF LeaveB
      <3>3. QED
        BY Zenon, <3>1, <3>2 DEF Verified
    <2>4. QED
      BY Zenon, <2>2, <2>3
  <1>9. CASE pc = "R"
    <2>1. Exiting("R", 1, Terminal)
      BY Zenon, <1>1, <1>9, AtLabel
    <2>2. accepted < Len(Proof) /\ OutputByte = Proof[accepted + 1] /\ OutputByte = "R"
      BY <1>1, <1>9, <2>1, Outputs, Counts DEF OutputByte, Exiting
    <2>3. QED
      BY Zenon, <2>2 DEF Verified
  <1>10. CASE pc = "D"
    <2>1. Exiting("D", 2, Terminal) /\ dirty
      BY SMTT(30), <1>1, <1>10, AtLabel
    <2>2. accepted < Len(Proof) /\ OutputByte = Proof[accepted + 1] /\ OutputByte = "D"
      BY SMTT(30), <1>1, <1>10, <2>1, Outputs, Counts DEF OutputByte, Exiting
    <2>3. fixture \in WaitFixtures => WaitSnapshot = WaitWoken
      BY <2>1, Snapshots DEF Exiting, Memory
    <2>4. QED
      BY Zenon, <2>1, <2>2, <2>3 DEF Verified
  <1>11. CASE pc \in {"F", "fault"}
    BY Zenon, <1>1, <1>11, AtLabel
  <1>12. QED
    BY Zenon, <1>2, <1>3, <1>4, <1>5, <1>6, <1>7, <1>8, <1>9, <1>10, <1>11 DEF AtExit

\* A step like Quiet that accepts an output and is neither the first interrupt's
\* nor the start of the threads.
LEMMA QuietOutput ==
    ASSUME IInv, main = "run", UNCHANGED <<timerVars, fixture, main, execution, result, captured>>,
           context' = context,
           fixture # "switch" => /\ Taken' => Taken
                                 /\ accepted' <= ArmAt(fixture) => accepted <= ArmAt(fixture)
                                 /\ accepted' > ArmAt(fixture) => accepted > ArmAt(fixture),
           RunInv'
    PROVE  IInv'
  <1>1. HostTypeOK' /\ ThreadInv' /\ GuestMeetsModel'
    BY DEF IInv, HostTypeOK, TimerTypeOK, ThreadInv, GuestMeetsModel, timerVars
  <1>2. SpawnInv'
    BY Zenon DEF IInv, SpawnInv, timerVars
  <1>3. EdgeInv'
    BY Zenon DEF IInv, EdgeInv, timerVars
  <1>4. CaptureInv' /\ JoinInv'
    BY Zenon DEF CaptureInv, JoinInv, Joining
  <1>5. QED
    BY Zenon, <1>1, <1>2, <1>3, <1>4 DEF IInv

\* An accepted output leads to the next label; P starts the threads, X may lead
\* to the checkpoint and D to the joins.
LEMMA AcceptOutputStep ==
    ASSUME IInv, AcceptOutput
    PROVE  IInv'
  <1> DEFINE Silent == UNCHANGED <<timerVars, main, execution, result>>
  <1> DEFINE Counted ==
        fixture # "switch" => /\ Taken' => Taken
                              /\ accepted' <= ArmAt(fixture) => accepted <= ArmAt(fixture)
                              /\ accepted' > ArmAt(fixture) => accepted > ArmAt(fixture)
  <1>1. /\ fixture \in AllFixtures /\ main = "run" /\ ~halted /\ fixture' = fixture
        /\ accepted' = accepted + 1 /\ pc' = AfterOutput /\ captured' = captured
        /\ UNCHANGED <<if, shadow, halted, isr, space, r12, frame, resume>>
        /\ UNCHANGED <<context, terminal, state, queue, wait>>
    BY Zenon DEF IInv, HostTypeOK, AcceptOutput, AtExit, page
  <1>2. ~Again
    BY Zenon, AgainIsRefused DEF AcceptOutput
  <1>3. CASE pc = "K"
    <2>1. fixture \in BlockingFixtures /\ KernelA("K", 1, 0)
      BY Zenon, <1>1, <1>3, AtLabel
    <2>2. OutputByte = "K" /\ fixture # "switch" /\ fixture # "preempt"
      BY Zenon, <1>3, <2>1 DEF OutputByte, BlockingFixtures, WaitFixtures
    <2>3. PathA'
      <3>1. CASE fixture = "wakeup"
        <4>1. KernelA("scheduler", 2, LeaveA(fixture))'
          BY <1>1, <2>1, <2>2, <3>1, Counts DEF AfterOutput, KernelA, Running, Cpu, Memory, StateAt,
             QueueAt, WaitAt, WaitFixtures, Queued
        <4>2. QED
          BY Zenon, <4>1 DEF PathA
      <3>2. CASE fixture \in Queued
        <4>1. KernelA("queue", 1, 1)'
          BY <1>1, <2>1, <2>2, <3>2 DEF AfterOutput, KernelA, Running, Cpu, Memory, WaitFixtures,
             Queued
        <4>2. QED
          BY Zenon, <1>1, <3>2, <4>1 DEF PathA
      <3>3. QED
        BY Zenon, <2>1, <3>1, <3>2 DEF BlockingFixtures, Queued
    <2>4. Silent
      BY Zenon, <2>2 DEF AcceptOutput
    <2>5. Counted
      BY <1>1, <2>1, <2>2, Counts DEF Taken, KernelA, Running, Cpu
    <2>6. QED
      BY Zenon, <1>1, <2>3, <2>4, <2>5, QuietOutput DEF RunInv
  <1>4. CASE pc = "1"
    <2>1. fixture \in Queued /\ KernelA("1", 2, 1)
      BY Zenon, <1>1, <1>4, AtLabel
    <2>2. OutputByte = "1" /\ fixture \in BlockingFixtures /\ fixture # "preempt"
      BY Zenon, <1>4, <2>1 DEF OutputByte, BlockingFixtures, WaitFixtures, Queued
    <2>3. KernelA("scheduler", 2, LeaveA(fixture))'
      BY <1>1, <2>1, <2>2, Counts DEF AfterOutput, KernelA, Running, Cpu, Memory
    <2>4. Silent
      BY Zenon, <2>2 DEF AcceptOutput
    <2>5. Counted
      BY <1>1, <2>1, <2>2, Counts DEF Taken, KernelA, Running, Cpu
    <2>6. QED
      BY SMTT(30), <1>1, <2>3, <2>4, <2>5, QuietOutput DEF RunInv, PathA
  <1>5. CASE pc = "X"
    <2>1. fixture \in WaitFixtures /\ KernelB("X", 3, 3)
      BY Zenon, <1>1, <1>5, AtLabel
    <2>2. /\ OutputByte = "X" /\ fixture \in BlockingFixtures /\ ArmAt(fixture) = 4
          /\ fixture # "switch" /\ fixture # "preempt"
      BY Zenon, <1>1, <1>5, <2>1, Counts DEF OutputByte, BlockingFixtures, WaitFixtures
    <2>3. KernelB("P", 3, ArmAt(fixture))'
      BY <1>1, <2>1, <2>2 DEF AfterOutput, KernelB, Running, Cpu, Memory
    <2>4. Counted
      BY <1>1, <2>1, <2>2 DEF Taken, KernelB, Running, Cpu
    <2>5. CASE Silent
      BY Zenon, <1>1, <2>2, <2>3, <2>4, <2>5, QuietOutput DEF RunInv, PathB
    <2>6. CASE /\ fixture = "wait_checkpoint" /\ main' = "capture"
               /\ UNCHANGED <<timerVars, execution, result>>
      <3>1. HostTypeOK' /\ ThreadInv' /\ GuestMeetsModel'
        BY <1>1, <2>6 DEF IInv, HostTypeOK, TimerTypeOK, ThreadInv, GuestMeetsModel, timerVars,
           Before
      <3>2. SpawnInv'
        BY Zenon, <1>1, <2>2, <2>4, <2>6 DEF IInv, SpawnInv, timerVars, Before
      <3>3. CaptureInv'
        BY Zenon, <1>1, <2>2, <2>3, <2>6 DEF CaptureInv, AtX
      <3>4. RunInv' /\ EdgeInv' /\ JoinInv'
        BY Zenon, <2>6 DEF RunInv, EdgeInv, JoinInv, Joining
      <3>5. QED
        BY Zenon, <3>1, <3>2, <3>3, <3>4 DEF IInv
    <2>7. QED
      BY Zenon, <2>2, <2>5, <2>6 DEF AcceptOutput
  <1>6. CASE pc = "P"
    <2>1. /\ fixture # "switch" /\ accepted = ArmAt(fixture)
          /\ \/ fixture = "preempt" /\ KernelA("P", 3, 0)
             \/ fixture # "preempt" /\ KernelB("P", 3, ArmAt(fixture))
      BY Zenon, <1>1, <1>6, AtLabel, Counts DEF KernelA, KernelB, BlockingFixtures, WaitFixtures
    <2>2. OutputByte = "P" /\ pc' = "sti"
      BY SMTT(30), <1>1, <1>6 DEF OutputByte, AfterOutput
    <2>3. worker = "unspawned" /\ watchdog = "unspawned" /\ raised = {} /\ ~irr
      BY <1>1, <2>1, Counts DEF IInv, SpawnInv, ThreadInv, Before
    <2>4. Arming("sti", FALSE, FALSE, "none")' /\ ~shadow' /\ ~halted'
      BY Zenon, <1>1, <2>1, <2>2 DEF KernelA, KernelB, Running, Cpu, Arming, Memory
    <2>5. CASE Spawn /\ UNCHANGED <<main, execution, result>>
      <3>1. /\ worker' = "waiting" /\ watchdog' = "waiting"
            /\ UNCHANGED <<cancelled, level, irr, raised, failed, main, execution, result>>
        BY Zenon, <2>5 DEF Spawn
      <3>2. HostTypeOK' /\ ThreadInv' /\ GuestMeetsModel'
        BY Zenon, <1>1, <2>3, <3>1 DEF IInv, HostTypeOK, TimerTypeOK, ThreadInv, GuestMeetsModel,
           ThreadState
      <3>3. SpawnInv'
        BY SMTT(30), <1>1, <2>1, <3>1, Counts DEF SpawnInv
      <3>4. ~Taken'
        BY <1>1, <2>1, <2>2, <2>4, Counts DEF Taken, Arming, Cpu
      <3>5. EdgeInv'
        BY Zenon, <3>4 DEF EdgeInv
      <3>6. RunInv' /\ CaptureInv' /\ JoinInv'
        BY Zenon, <1>1, <2>4, <3>1 DEF RunInv, PathHlt, CaptureInv, JoinInv, Joining
      <3>7. QED
        BY Zenon, <3>2, <3>3, <3>5, <3>6 DEF IInv
    <2>6. CASE /\ Fails("preflight") /\ Return("err")
               /\ UNCHANGED <<worker, watchdog, cancelled, level, irr, raised, execution>>
      <3>1. /\ main' = "returned" /\ result' = "err" /\ "preflight" \in failed'
            /\ failed' \subseteq Faults
        BY Zenon, <2>6 DEF Fails, Return, IInv, HostTypeOK, TimerTypeOK
      <3>2. HostTypeOK' /\ ThreadInv' /\ GuestMeetsModel'
        BY Zenon, <1>1, <2>3, <2>6, <3>1 DEF IInv, HostTypeOK, TimerTypeOK, ThreadInv, GuestMeetsModel
      <3>3. SpawnInv' /\ RunInv' /\ EdgeInv' /\ CaptureInv' /\ JoinInv'
        BY Zenon, <3>1 DEF SpawnInv, RunInv, EdgeInv, CaptureInv, JoinInv, Before, Joining
      <3>4. QED
        BY Zenon, <3>2, <3>3 DEF IInv
    <2>7. QED
      BY Zenon, <2>2, <2>5, <2>6 DEF AcceptOutput
  <1>7. CASE pc = "W"
    <2>1. Waking("W", FALSE, TRUE, "armed", 1)
      BY Zenon, <1>1, <1>2, <1>7, AtLabel
    <2>2. OutputByte = "W" /\ fixture # "switch"
      BY Zenon, <1>7, <2>1 DEF OutputByte, Waking, BlockingFixtures, WaitFixtures
    <2>3. Waking("eoi", FALSE, TRUE, "armed", 2)'
      BY <1>1, <2>1, <2>2, Counts DEF AfterOutput, Waking, Running, Cpu, Memory
    <2>4. Silent
      BY Zenon, <2>2 DEF AcceptOutput
    <2>5. Counted
      BY <1>1, <2>1, Counts DEF Taken, Waking, Running, Cpu
    <2>6. QED
      BY Zenon, <1>1, <2>3, <2>4, <2>5, QuietOutput DEF RunInv, PathWake
  <1>8. CASE pc = "0"
    <2>1. fixture \in Queued /\ LateB("0", 5, ArmAt(fixture) + 2)
      BY Zenon, <1>1, <1>8, AtLabel
    <2>2. OutputByte = "0" /\ fixture # "switch"
      BY Zenon, <1>8, <2>1 DEF OutputByte, Queued, WaitFixtures
    <2>3. LateB("scheduler", 5, LeaveB(fixture))'
      BY <1>1, <2>1, <2>2, Counts DEF AfterOutput, LateB, Running, Cpu, Memory
    <2>4. Silent
      BY Zenon, <2>2 DEF AcceptOutput
    <2>5. Counted
      BY <1>1, <2>1, Counts DEF Taken, LateB
    <2>6. QED
      BY Zenon, <1>1, <2>3, <2>4, <2>5, QuietOutput DEF RunInv, PathWake
  <1>9. CASE pc = "scheduler"
    <2>1. \/ KernelA("scheduler", 2, LeaveA(fixture)) \/ LateB("scheduler", 5, LeaveB(fixture))
          \/ PathWild
      BY Zenon, <1>1, <1>2, <1>9, AtLabel
    <2>2. CASE KernelA("scheduler", 2, LeaveA(fixture))
      <3>1. OutputByte = "A"
        BY Zenon, <1>9, <2>2 DEF OutputByte, KernelA, Running, Cpu
      <3>2. KernelA("switch", 2, LeaveA(fixture) + 1)'
        BY Zenon, <1>1, <2>2, <3>1 DEF AfterOutput, KernelA, Running, Cpu, Memory
      <3>3. Silent
        BY Zenon, <3>1 DEF AcceptOutput
      <3>4. Counted
        BY <1>1, <1>9, <2>2, Counts DEF Taken, KernelA, Running, Cpu, AllFixtures
      <3>5. QED
        BY Zenon, <1>1, <3>2, <3>3, <3>4, QuietOutput DEF RunInv, PathA
    <2>3. CASE LateB("scheduler", 5, LeaveB(fixture))
      <3>1. OutputByte = "B"
        BY Zenon, <1>9, <2>3 DEF OutputByte, LateB, Running, Cpu
      <3>2. LateB("switch", 5, LeaveB(fixture) + 1)'
        BY Zenon, <1>1, <2>3, <3>1 DEF AfterOutput, LateB, Running, Cpu, Memory
      <3>3. Silent
        BY Zenon, <3>1 DEF AcceptOutput
      <3>4. Counted
        BY <1>1, <2>3, Counts DEF Taken, LateB
      <3>5. QED
        BY Zenon, <1>1, <3>2, <3>3, <3>4, QuietOutput DEF RunInv, PathWake
    <2>4. CASE PathWild
      <3>1. OutputByte = "B" /\ accepted = 2 /\ fixture = "preempt"
        BY Zenon, <1>9, <2>4 DEF OutputByte, PathWild
      <3>2. Silent
        BY Zenon, <3>1 DEF AcceptOutput
      <3>3. pc' = "switch" /\ accepted' = 3 /\ raised' = raised
        BY <1>1, <3>1, <3>2 DEF AfterOutput, timerVars
      <3>4. PathWild'
        BY Zenon, <1>1, <1>9, <2>4, <3>3 DEF PathWild
      <3>5. Counted
        BY <1>1, <3>1, <3>3, Counts DEF Taken
      <3>6. QED
        BY Zenon, <1>1, <3>2, <3>4, <3>5, QuietOutput DEF RunInv
    <2>5. QED
      BY Zenon, <2>1, <2>2, <2>3, <2>4
  <1>10. CASE pc = "R"
    <2>1. Exiting("R", 1, Terminal) /\ dirty
      BY Zenon, <1>1, <1>10, AtLabel
    <2>2. OutputByte = "R" /\ dirty'
      BY Zenon, <1>10, <2>1 DEF OutputByte, AcceptOutput
    <2>3. Exiting("D", 2, Terminal)'
      BY <1>1, <2>1, <2>2, Counts DEF AfterOutput, Exiting, Running, Cpu, Memory
    <2>4. Silent
      BY Zenon, <2>2 DEF AcceptOutput
    <2>5. Counted
      BY <1>1, <2>1, Counts DEF Taken, Exiting
    <2>6. QED
      BY Zenon, <1>1, <2>2, <2>3, <2>4, <2>5, QuietOutput DEF RunInv, PathExit
  <1>11. CASE pc = "D"
    <2>1. Exiting("D", 2, Terminal)
      BY Zenon, <1>1, <1>11, AtLabel
    <2>2. OutputByte = "D"
      BY Zenon, <1>11 DEF OutputByte
    <2>3. Exiting("end", 3, Terminal)'
      BY <1>1, <2>1, <2>2, Counts DEF AfterOutput, Exiting, Running, Cpu, Memory
    <2>4. CASE fixture = "switch" /\ Silent
      BY Zenon, <1>1, <2>3, <2>4, QuietOutput DEF RunInv, PathExit
    <2>5. CASE /\ fixture # "switch" /\ main' = "cancel" /\ execution' = "ok"
               /\ UNCHANGED <<timerVars, result>>
      <3>1. HostTypeOK' /\ ThreadInv' /\ GuestMeetsModel'
        BY SMTT(30), <1>1, <2>5 DEF IInv, HostTypeOK, TimerTypeOK, ThreadInv, GuestMeetsModel, timerVars,
           Joining
      <3>2. worker' # "unspawned"
        BY SMTT(30), <1>1, <2>1, <2>5, Counts DEF IInv, SpawnInv, Before, Exiting, timerVars
      <3>3. JoinInv'
        BY Zenon, <1>1, <2>3, <2>5, <3>2 DEF JoinInv, Joining, Exiting, Running, Cpu
      <3>4. SpawnInv' /\ RunInv' /\ EdgeInv' /\ CaptureInv'
        BY Zenon, <2>5 DEF SpawnInv, RunInv, EdgeInv, CaptureInv, Before
      <3>5. QED
        BY Zenon, <3>1, <3>3, <3>4 DEF IInv
    <2>6. QED
      BY Zenon, <2>2, <2>4, <2>5 DEF AcceptOutput
  <1>12. CASE pc \in {"F", "fault"}
    BY Zenon, <1>1, <1>2, <1>12, AtLabel
  <1>13. QED
    BY SMTT(30), <1>3, <1>4, <1>5, <1>6, <1>7, <1>8, <1>9, <1>10, <1>11, <1>12
       DEF AcceptOutput, AtExit

\* Only the output of a second interrupt is refused, and then the watchdog has
\* raised the line.
LEMMA RejectOutputStep ==
    ASSUME IInv, RejectOutput
    PROVE  IInv'
  <1>1. main = "run" /\ Again
    BY Zenon, OthersAreExpected DEF RejectOutput, AtExit
  <1>2. "watchdog" \in raised /\ worker # "unspawned" /\ fixture # "switch"
    BY Zenon, <1>1 DEF Again, AgainPreempted, AgainWoken, IInv, ThreadInv, BlockingFixtures, WaitFixtures
  <1>3. /\ main' = "cancel" /\ execution' = "err"
        /\ UNCHANGED <<timerVars, fixture, accepted, result, page>>
    BY Zenon, <1>2 DEF RejectOutput
  <1>4. HostTypeOK' /\ ThreadInv' /\ GuestMeetsModel'
    BY <1>3 DEF IInv, HostTypeOK, TimerTypeOK, ThreadInv, GuestMeetsModel, timerVars, page, Joining
  <1>5. JoinInv'
    BY Zenon, <1>2, <1>3 DEF JoinInv, Joining, timerVars
  <1>6. SpawnInv' /\ RunInv' /\ EdgeInv' /\ CaptureInv'
    BY Zenon, <1>3 DEF SpawnInv, RunInv, EdgeInv, CaptureInv, Before
  <1>7. QED
    BY Zenon, <1>4, <1>5, <1>6 DEF IInv

\* The cooperative fixture stops at its end.
LEMMA SwitchStopsStep ==
    ASSUME IInv, SwitchStops
    PROVE  IInv'
  <1>1. main = "run" /\ fixture = "switch" /\ Exiting("end", 3, Terminal)
    BY Zenon, AtLabel DEF SwitchStops, Executes
  <1>2. /\ main' = "verdict" /\ execution' = "ok" /\ UNCHANGED <<timerVars, fixture, accepted, result>>
        /\ UNCHANGED <<space, r12, context, terminal, state, queue, wait>>
    BY Zenon DEF SwitchStops, cpu, page
  <1>3. HostTypeOK' /\ ThreadInv' /\ GuestMeetsModel'
    BY <1>2 DEF IInv, HostTypeOK, TimerTypeOK, ThreadInv, GuestMeetsModel, timerVars, Joining
  <1>4. JoinInv'
    BY Zenon, <1>1, <1>2 DEF JoinInv, Joining, Exiting, Running, Cpu, Memory
  <1>5. SpawnInv' /\ RunInv' /\ EdgeInv' /\ CaptureInv'
    BY Zenon, <1>2 DEF SpawnInv, RunInv, EdgeInv, CaptureInv, Before
  <1>6. QED
    BY Zenon, <1>3, <1>4, <1>5 DEF IInv

-----------------------------------------------------------------------------
(* The main thread.                                                          *)

\* Cancel and joins.
LEMMA JoinStep ==
    ASSUME IInv, SendCancel \/ JoinWorker \/ JoinWatchdog
    PROVE  IInv'
  <1>1. /\ main \in Joining /\ main' \in Joining
        /\ UNCHANGED <<worker, watchdog, level, irr, raised, failed>>
        /\ UNCHANGED <<fixture, accepted, execution, result, captured>>
        /\ UNCHANGED <<space, r12, context, terminal, state, queue, wait>>
    BY Zenon DEF SendCancel, JoinWorker, JoinWatchdog, Joining, Cancel, timerVars, cpu, page
  <1>2. cancelled' \in BOOLEAN
    BY Zenon DEF SendCancel, JoinWorker, JoinWatchdog, Cancel, timerVars, IInv, HostTypeOK, TimerTypeOK
  <1>3. HostTypeOK' /\ ThreadInv' /\ GuestMeetsModel'
    BY <1>1, <1>2 DEF IInv, HostTypeOK, TimerTypeOK, ThreadInv, GuestMeetsModel
  <1>4. JoinInv'
    <2>1. fixture # "switch"
      BY Zenon DEF SendCancel, JoinWorker, JoinWatchdog, IInv, JoinInv, Joining
    <2>2. main' \in {"join_watchdog", "verdict"} => WorkerJoined'
      BY Zenon, <2>1 DEF SendCancel, JoinWorker, JoinWatchdog, WorkerJoined, timerVars, IInv, JoinInv
    <2>3. main' = "verdict" => WatchdogJoined'
      BY Zenon DEF SendCancel, JoinWorker, JoinWatchdog, WatchdogJoined, timerVars
    <2>4. QED
      BY Zenon, <1>1, <2>1, <2>2, <2>3 DEF IInv, JoinInv, Memory
  <1>5. SpawnInv' /\ RunInv' /\ EdgeInv' /\ CaptureInv'
    BY Zenon, <1>1 DEF SpawnInv, RunInv, EdgeInv, CaptureInv, Before, Joining
  <1>6. QED
    BY Zenon, <1>3, <1>4, <1>5 DEF IInv

\* What the accepted run leaves behind passes validate_*_state.
LEMMA FinalIsValid ==
    ASSUME Memory(5, 3, Terminal), space = "A", r12 = "A"
    PROVE  FinalStateValid
  <1>1. \A t \in Tasks : ContextValid(t)
    <2>1. context["A"] = SavedA /\ context["B"] = SavedB
      BY DEF Memory, Contexts
    <2>2. QED
      BY Zenon, <2>1 DEF SavedA, SavedB, Context, Tasks, ContextValid
  <1>2. state = StateAt(fixture, 5) /\ wait = WaitAt(fixture, 5) /\ terminal = Terminal
    BY Zenon DEF Memory
  <1>3. state["A"] = "runnable"
    BY <1>2 DEF StateAt, BothRunnable
  <1>4. fixture \in WaitFixtures => WaitSnapshot = WaitWoken
    BY <1>2, Snapshots
  <1>5. QED
    BY SMTT(30), <1>1, <1>2, <1>3, <1>4 DEF FinalStateValid, Terminal

\* The verdict is an error only if the worker failed or the watchdog was not
\* cancelled.
LEMMA VerdictStep ==
    ASSUME IInv, Verdict
    PROVE  IInv'
  <1>1. /\ main = "verdict" /\ main' = "returned" /\ result' \in {"ok", "err"}
        /\ UNCHANGED <<worker, watchdog, cancelled, level, irr, raised, failed>>
        /\ UNCHANGED <<fixture, execution, context>>
    BY Zenon DEF Verdict, Return, timerVars, page
  <1>2. result' = "err" => failed # {} \/ watchdog \in {"done", "failed"}
    <2>1. SUFFICES ASSUME failed = {}, watchdog \notin {"done", "failed"}
                   PROVE  result' = "ok"
      BY Zenon, <1>1
    <2>2. fixture = "switch" \/ (worker = "done" /\ watchdog = "cancelled")
      BY Zenon, <1>1, <2>1 DEF IInv, JoinInv, ThreadInv, WorkerJoined, WatchdogJoined
    <2>3. execution = "ok"
      BY SMTT(30), <1>1, <2>1, <2>2 DEF IInv, HostTypeOK, JoinInv, ThreadInv, Joining
    <2>4. accepted = Len(Proof) /\ FinalStateValid
      BY SMTT(30), <1>1, <2>3, Outputs, FinalIsValid DEF IInv, HostTypeOK, JoinInv, Joining
    <2>5. QED
      BY Zenon, <2>2, <2>3, <2>4 DEF Verdict, Return
  <1>3. HostTypeOK' /\ ThreadInv' /\ GuestMeetsModel'
    BY <1>1, <1>2 DEF IInv, HostTypeOK, TimerTypeOK, ThreadInv, GuestMeetsModel
  <1>4. SpawnInv' /\ RunInv' /\ EdgeInv' /\ CaptureInv' /\ JoinInv'
    BY Zenon, <1>1 DEF SpawnInv, RunInv, EdgeInv, CaptureInv, JoinInv, Before, Joining
  <1>5. QED
    BY Zenon, <1>3, <1>4 DEF IInv

\* The capture finds the wait channel and the queue as the models say.
LEMMA CheckpointCaptureStep ==
    ASSUME IInv, CheckpointCapture
    PROVE  IInv'
  <1>1. AtX /\ main = "capture"
    BY Zenon DEF CheckpointCapture, IInv, CaptureInv
  <1>2. /\ state = BlockedA /\ queue = FirstSelection /\ wait = WaitOf("a", 1, 0, "wrong")
        /\ fixture \in WaitFixtures
    BY <1>1 DEF AtX, KernelB, Memory, StateAt, QueueAt, WaitAt, BlockingFixtures, WaitFixtures, Queued
  <1>3. WaitSnapshot = WaitMismatch
    BY <1>1, <1>2, Snapshots DEF AtX, KernelB, Memory
  <1>4. /\ captured' = <<[cpu |-> cpu, page |-> page]>> /\ main' = "mutate"
        /\ UNCHANGED <<timerVars, fixture, accepted, execution, result, cpu, page>>
    BY Zenon, <1>2, <1>3 DEF CheckpointCapture
  <1>5. cpu = AtXCpu /\ page = AtXPage
    <2>1. /\ if = FALSE /\ shadow = FALSE /\ halted = FALSE /\ isr = FALSE
          /\ pc = "P" /\ space = "B" /\ r12 = "B+" /\ frame = "after" /\ resume = "none"
      BY <1>1 DEF AtX, KernelB, Running, Cpu
    <2>2. context = Contexts(2) /\ terminal = <<>>
      BY Zenon, <1>1 DEF AtX, KernelB, Memory
    <2>3. QED
      BY Zenon, <1>2, <2>1, <2>2 DEF cpu, page, AtXCpu, AtXPage
  <1>6. HostTypeOK' /\ ThreadInv' /\ GuestMeetsModel'
    <2>1. HostTypeOK'
      BY Zenon, <1>4 DEF IInv, HostTypeOK, TimerTypeOK, timerVars, page, Before
    <2>2. ThreadInv' /\ GuestMeetsModel'
      BY Zenon, <1>4 DEF IInv, ThreadInv, GuestMeetsModel, timerVars
    <2>3. QED
      BY Zenon, <2>1, <2>2
  <1>7. SpawnInv'
    BY Zenon, <1>1, <1>4 DEF IInv, SpawnInv, Before, timerVars
  <1>8. CaptureInv'
    BY Zenon, <1>1, <1>4, <1>5 DEF CaptureInv, AtX, KernelB, Running, Cpu, Memory, cpu, page
  <1>9. RunInv' /\ EdgeInv' /\ JoinInv'
    BY Zenon, <1>4 DEF RunInv, EdgeInv, JoinInv, Joining
  <1>10. QED
    BY Zenon, <1>6, <1>7, <1>8, <1>9 DEF IInv

\* The overwritten guest is not the captured one.
LEMMA CheckpointMutateStep ==
    ASSUME IInv, CheckpointMutate
    PROVE  IInv'
  <1>1. AtX /\ main = "mutate" /\ captured = <<[cpu |-> AtXCpu, page |-> AtXPage]>>
    BY Zenon DEF CheckpointMutate, IInv, CaptureInv
  <1>2. /\ main' = "restore"
        /\ UNCHANGED <<timerVars, fixture, accepted, execution, result, captured, context>>
    BY Zenon DEF CheckpointMutate
  <1>3. HostTypeOK' /\ ThreadInv' /\ GuestMeetsModel'
    BY <1>2 DEF IInv, HostTypeOK, TimerTypeOK, ThreadInv, GuestMeetsModel, timerVars, Before
  <1>4. SpawnInv'
    BY Zenon, <1>1, <1>2 DEF IInv, SpawnInv, Before, timerVars
  <1>5. CaptureInv'
    BY Zenon, <1>1, <1>2 DEF CaptureInv, AtX, KernelB
  <1>6. RunInv' /\ EdgeInv' /\ JoinInv'
    BY Zenon, <1>2 DEF RunInv, EdgeInv, JoinInv, Joining
  <1>7. QED
    BY Zenon, <1>3, <1>4, <1>5, <1>6 DEF IInv

\* The restored guest goes on in front of P as if nothing had happened.
LEMMA CheckpointRestoreStep ==
    ASSUME IInv, CheckpointRestore
    PROVE  IInv'
  <1>1. /\ main = "restore" /\ fixture = "wait_checkpoint" /\ accepted = 4
        /\ captured = <<[cpu |-> AtXCpu, page |-> AtXPage]>>
    BY Zenon DEF CheckpointRestore, IInv, CaptureInv
  <1>2. captured[1].cpu = AtXCpu /\ captured[1].page = AtXPage
    BY Zenon, <1>1
  <1>3. RestorePage(AtXPage) /\ UNCHANGED <<fixture, accepted, execution, captured>>
    BY Zenon, <1>2 DEF CheckpointRestore
  <1>4. /\ context' = Contexts(2) /\ terminal' = <<>> /\ state' = BlockedA
        /\ queue' = FirstSelection /\ wait' = WaitOf("a", 1, 0, "wrong")
    BY Zenon, <1>3 DEF RestorePage, AtXPage
  <1>5. CASE RestoreVcpu(AtXCpu) /\ main' = "run" /\ UNCHANGED <<timerVars, result>>
    <2>1. /\ if' = FALSE /\ shadow' = FALSE /\ halted' = FALSE /\ isr' = FALSE
          /\ pc' = "P" /\ space' = "B" /\ r12' = "B+" /\ frame' = "after" /\ resume' = "none"
      BY Zenon, <1>5 DEF RestoreVcpu, AtXCpu
    <2>2. fixture' \in BlockingFixtures /\ ArmAt(fixture) = 4
      BY Zenon, <1>1, <1>3 DEF BlockingFixtures, WaitFixtures, ArmAt
    <2>3. KernelB("P", 3, ArmAt(fixture))'
      BY <1>1, <1>3, <1>4, <2>1, <2>2 DEF KernelB, Running, Cpu, Memory, StateAt, QueueAt, WaitAt,
         WaitFixtures, Queued, BlockingFixtures
    <2>4. RunInv'
      BY Zenon, <2>2, <2>3 DEF RunInv, PathB
    <2>5. ~Taken'
      BY <1>1, <1>3, <2>1, <2>2 DEF Taken
    <2>6. HostTypeOK' /\ ThreadInv' /\ GuestMeetsModel'
      <3>1. HostTypeOK'
        BY Zenon, <1>3, <1>4, <1>5 DEF IInv, HostTypeOK, TimerTypeOK, timerVars, Before, Saved
      <3>2. ThreadInv' /\ GuestMeetsModel'
        BY Zenon, <1>3, <1>5 DEF IInv, ThreadInv, GuestMeetsModel, timerVars
      <3>3. QED
        BY Zenon, <3>1, <3>2
    <2>7. SpawnInv'
      BY Zenon, <1>1, <1>3, <1>5 DEF IInv, SpawnInv, Before, timerVars
    <2>8. EdgeInv'
      BY Zenon, <2>5 DEF EdgeInv
    <2>9. CaptureInv' /\ JoinInv'
      BY Zenon, <1>5 DEF CaptureInv, JoinInv, Joining
    <2>10. QED
      BY Zenon, <2>4, <2>6, <2>7, <2>8, <2>9 DEF IInv
  <1>6. CASE /\ Fails("restore") /\ Return("err")
             /\ UNCHANGED <<worker, watchdog, cancelled, level, irr, raised>>
    <2>1. /\ main' = "returned" /\ result' = "err" /\ "restore" \in failed'
          /\ failed' \subseteq Faults
      BY SMTT(30), <1>6 DEF Fails, Return, IInv, HostTypeOK, TimerTypeOK
    <2>2. HostTypeOK' /\ ThreadInv' /\ GuestMeetsModel'
      BY Zenon, <1>3, <1>4, <1>6, <2>1 DEF IInv, HostTypeOK, TimerTypeOK, ThreadInv, GuestMeetsModel,
         Saved
    <2>3. SpawnInv' /\ RunInv' /\ EdgeInv' /\ CaptureInv' /\ JoinInv'
      BY Zenon, <2>1 DEF SpawnInv, RunInv, EdgeInv, CaptureInv, JoinInv, Before, Joining
    <2>4. QED
      BY Zenon, <2>2, <2>3 DEF IInv
  <1>7. QED
    BY Zenon, <1>2, <1>5, <1>6 DEF CheckpointRestore

-----------------------------------------------------------------------------
\* The initial states: task A is about to enter and no thread exists.
LEMMA Initial == Init => IInv
  <1> SUFFICES ASSUME Init
               PROVE  IInv
    OBVIOUS
  <1>1. fixture \in AllFixtures
    BY Zenon, SchedulingAssumption DEF Init
  <1>2. context = Contexts(1)
    BY DEF Init, Contexts, Context
  <1>3. HostTypeOK /\ ThreadInv
    BY Zenon, <1>1, <1>2 DEF Init, TimerInit, HostTypeOK, TimerTypeOK, ThreadInv, ThreadState, Before,
       Saved
  <1>4. EntryA
    <2>1. /\ Running("entry", TRUE, FALSE, "A", "zero", "none", "none")
          /\ accepted = 0 /\ terminal = <<>>
      BY Zenon DEF Init, Running, Cpu
    <2>2. state = StateAt(fixture, 0) /\ queue = QueueAt(fixture, 0)
      BY DEF Init, StateAt, QueueAt
    <2>3. wait = WaitAt(fixture, 0)
      BY Zenon DEF Init, WaitAt, WaitOf
    <2>4. QED
      BY Zenon, <1>2, <2>1, <2>2, <2>3 DEF EntryA, Memory
  <1>5. SpawnInv /\ RunInv
    <2>1. worker = "unspawned" /\ accepted = 0
      BY Zenon DEF Init, TimerInit
    <2>2. SpawnInv
      BY <1>1, <2>1, Counts DEF SpawnInv
    <2>3. QED
      BY Zenon, <1>4, <2>2 DEF RunInv, PathA
  <1>6. EdgeInv
    <2>1. ~irr /\ ~isr /\ accepted = 0 /\ pc = "entry"
      BY Zenon DEF Init, TimerInit
    <2>2. fixture # "switch" => ~(accepted > ArmAt(fixture) + 1)
      BY <1>1, <2>1, Counts
    <2>3. fixture # "switch" => ~Taken
      BY Zenon, <2>1, <2>2 DEF Taken
    <2>4. QED
      BY Zenon, <2>1, <2>3 DEF EdgeInv
  <1>7. CaptureInv /\ JoinInv /\ GuestMeetsModel
    BY Zenon DEF Init, CaptureInv, JoinInv, Joining, GuestMeetsModel
  <1>8. QED
    BY Zenon, <1>3, <1>5, <1>6, <1>7 DEF IInv

\* The invariant speaks of nothing but vars.
LEMMA Stutters ==
    ASSUME IInv, UNCHANGED vars
    PROVE  IInv'
  <1>1. /\ UNCHANGED <<worker, watchdog, cancelled, level, irr, raised, failed>>
        /\ UNCHANGED <<fixture, main, accepted, execution, result, captured>>
        /\ UNCHANGED <<pc, if, shadow, halted, isr, space, r12, frame, resume>>
        /\ UNCHANGED <<context, terminal, state, queue, wait, dirty>>
    BY Zenon DEF vars, timerVars, host, cpu, page
  <1>2. HostTypeOK' /\ ThreadInv' /\ SpawnInv' /\ EdgeInv' /\ GuestMeetsModel'
    <2>1. HostTypeOK'
      BY Zenon, <1>1 DEF IInv, HostTypeOK, TimerTypeOK
    <2>2. ThreadInv' /\ SpawnInv' /\ GuestMeetsModel'
      BY Zenon, <1>1 DEF IInv, ThreadInv, SpawnInv, GuestMeetsModel
    <2>3. EdgeInv'
      BY Zenon, <1>1 DEF IInv, EdgeInv, Taken
    <2>4. QED
      BY Zenon, <2>1, <2>2, <2>3
  <1>3. RunInv'
    <2>1. /\ PathA => PathA'
          /\ PathB => PathB'
      BY Zenon, <1>1 DEF PathA, PathB, EntryA, EntryB, YieldB, KernelA, KernelB, Running, Cpu, Memory
    <2>2. /\ PathHlt => PathHlt'
          /\ PathWake => PathWake'
          /\ PathExit => PathExit'
      BY Zenon, <1>1 DEF PathHlt, PathWake, PathExit, Arming, Waking, LateB, Back, Exiting, Running, Cpu,
         Memory
    <2>3. (Again => Again') /\ (PathWild => PathWild')
      BY Zenon, <1>1 DEF Again, AgainPreempted, AgainWoken, PathWild
    <2>4. QED
      BY Zenon, <1>1, <2>1, <2>2, <2>3 DEF IInv, RunInv
  <1>4. CaptureInv' /\ JoinInv'
    BY Zenon, <1>1 DEF IInv, CaptureInv, JoinInv, AtX, KernelB, Running, Cpu, Memory, WorkerJoined,
       WatchdogJoined
  <1>5. QED
    BY Zenon, <1>2, <1>3, <1>4 DEF IInv

\* Every step of guest, threads, timer and host preserves the invariant.
LEMMA Inductive == IInv /\ [Next]_vars => IInv'
  <1> SUFFICES ASSUME IInv, [Next]_vars
               PROVE  IInv'
    OBVIOUS
  <1>1. CASE Guest
    BY Zenon, <1>1, TaskAEntryStep, TaskBEntryStep, TaskBYieldsStep, TaskExitsStep, BlockHandlerStep,
       ArmHandlerStep, StiHltStep, ArmedHandlerStep, QueueHandlerStep, SwitchStep, TerminalHandlerStep,
       WakeTimerHandlerStep, PreemptTimerWrapperStep, EoiIretStep, AcceptOutputStep,
       RejectOutputStep, SwitchStopsStep DEF Guest
  <1>2. CASE Main
    BY Zenon, <1>2, JoinStep, VerdictStep, CheckpointCaptureStep, CheckpointMutateStep,
       CheckpointRestoreStep DEF Main
  <1>3. QED
    BY Zenon, <1>1, <1>2, ThreadsStep, TakesInterruptStep, Stutters DEF Next, Returned

\* The four pairs of contexts are told apart by what they hold for B.
LEMMA WildIsApart ==
    /\ Contexts(4) # Contexts(1) /\ Contexts(4) # Contexts(2) /\ Contexts(4) # Contexts(3)
    /\ Contexts(4)["A"] = SavedA /\ Contexts(4)["B"] = WildB
    /\ WildB.at = "wild"
  <1>1. /\ Contexts(1)["B"] = Context("entry", "B", "B", 0)
        /\ Contexts(2)["B"] = Context("entry", "B", "B", 0)
        /\ Contexts(3)["B"] = SavedB
        /\ Contexts(4)["A"] = SavedA /\ Contexts(4)["B"] = WildB
    BY DEF Contexts
  <1>2. WildB.at = "wild" /\ SavedB.at = "after" /\ Context("entry", "B", "B", 0).at = "entry"
    BY DEF WildB, SavedB, Context
  <1>3. QED
    BY Zenon, <1>1, <1>2

\* What a wild context leaves to happen: the host refuses the shutdown and
\* joins its threads.
LEMMA WildStays ==
    ASSUME IInv, WildInv, context = Contexts(4), [Next]_vars
    PROVE  fixture' = "preempt" /\ "watchdog" \in raised' /\ pc' \in {"fault", "end"} /\ result' # "ok"
  <1>1. fixture = "preempt" /\ "watchdog" \in raised /\ pc \in {"fault", "end"} /\ result # "ok"
    BY Zenon DEF WildInv
  <1>2. main = "run" => pc = "fault" /\ Again /\ ~if
    <2>1. main = "run" => PathExit \/ Again
      BY Zenon, <1>1, Labels DEF IInv, RunInv
    <2>2. ~PathExit
      BY Zenon, <1>1 DEF PathExit, Back, Exiting, Running, Cpu
    <2>3. Again => pc # "end" /\ ~if
      BY Zenon, Labels DEF Again
    <2>4. QED
      BY Zenon, <1>1, <2>1, <2>2, <2>3
  <1>3. CASE Guest
    <2>1. ~AcceptOutput
      <3>1. AcceptOutput => AtExit /\ main = "run" /\ OutputByte = Proof[accepted + 1]
        BY Zenon DEF AcceptOutput, AtExit
      <3>2. QED
        BY Zenon, <1>2, <3>1, AgainIsRefused
    <2>2. ~SwitchStops
      BY Zenon, <1>1 DEF SwitchStops
    <2>3. RejectOutput
      <3>1. ~TaskAEntry /\ ~TaskBEntry /\ ~TaskBYields /\ ~TaskExits /\ ~BlockHandler /\ ~ArmHandler
        BY Zenon, <1>2 DEF TaskAEntry, TaskBEntry, TaskBYields, TaskExits, BlockHandler, ArmHandler,
           Executes
      <3>2. ~Sti /\ ~Hlt /\ ~ArmedHandler /\ ~QueueHandler /\ ~Switch /\ ~TerminalHandler
        BY Zenon, <1>2 DEF Sti, Hlt, ArmedHandler, QueueHandler, Switch, TerminalHandler, Executes
      <3>3. ~WakeTimerHandler /\ ~PreemptTimerWrapper /\ ~Eoi /\ ~Iret
        BY Zenon, <1>2 DEF WakeTimerHandler, PreemptTimerWrapper, Eoi, Iret, Executes
      <3>4. QED
        BY Zenon, <1>3, <2>1, <2>2, <3>1, <3>2, <3>3 DEF Guest
    <2>4. QED
      BY Zenon, <1>1, <2>3 DEF RejectOutput, Return, timerVars
  <1>4. CASE Threads
    <2>1. fixture' = fixture /\ pc' = pc /\ result' = result
      BY Zenon, <1>4 DEF Threads, host, cpu
    <2>2. raised \subseteq raised'
      BY Zenon, <1>4 DEF Threads, TimerStep, WatchdogStep, SetGsiLevel, Fails
    <2>3. QED
      BY Zenon, <1>1, <2>1, <2>2
  <1>5. ~TakesInterrupt
    BY Zenon, <1>2 DEF TakesInterrupt
  <1>6. CASE SendCancel \/ JoinWorker \/ JoinWatchdog
    BY Zenon, <1>1, <1>6 DEF SendCancel, JoinWorker, JoinWatchdog, Cancel, timerVars, cpu
  <1>7. CASE Verdict
    <2>1. ~FinalStateValid
      <3>1. context["B"].at = "wild"
        BY Zenon, WildIsApart
      <3>2. FinalStateValid => context["B"].at = "after"
        BY DEF FinalStateValid, ContextValid, Tasks
      <3>3. QED
        BY Zenon, <3>1, <3>2
    <2>2. QED
      BY Zenon, <1>1, <1>7, <2>1 DEF Verdict, Return, timerVars, cpu
  <1>8. ~CheckpointCapture /\ ~CheckpointMutate /\ ~CheckpointRestore
    BY Zenon, <1>1 DEF CheckpointCapture, CheckpointMutate, CheckpointRestore, IInv, CaptureInv, AtX
  <1>9. CASE UNCHANGED vars
    BY Zenon, <1>1, <1>9 DEF vars, timerVars, host, cpu
  <1>10. QED
    BY Zenon, <1>3, <1>4, <1>5, <1>6, <1>7, <1>8, <1>9 DEF Next, Main, Returned

\* Only a switch on the user stack leads there, and it leads to the fault.
LEMMA WildArises ==
    ASSUME IInv, ResultInv, context # Contexts(4), context' = Contexts(4), [Next]_vars
    PROVE  fixture' = "preempt" /\ "watchdog" \in raised' /\ pc' \in {"fault", "end"} /\ result' # "ok"
  <1>1. context' # context
    OBVIOUS
  <1>2. ~CheckpointRestore
    <2>1. CheckpointRestore => context' = Contexts(2)
      <3>1. SUFFICES ASSUME CheckpointRestore
                     PROVE  context' = Contexts(2)
        OBVIOUS
      <3>2. captured = <<[cpu |-> AtXCpu, page |-> AtXPage]>> /\ RestorePage(captured[1].page)
        BY Zenon, <3>1 DEF CheckpointRestore, IInv, CaptureInv
      <3>3. captured[1].page = AtXPage
        BY Zenon, <3>2
      <3>4. QED
        BY Zenon, <3>2, <3>3 DEF RestorePage, AtXPage
    <2>2. QED
      BY Zenon, <2>1, WildIsApart
  <1>3. Switch
    <2>1. ~Threads /\ ~TakesInterrupt /\ ~Returned /\ ~UNCHANGED vars
      BY Zenon, <1>1 DEF Threads, TakesInterrupt, Returned, vars, page
    <2>2. ~Main
      BY Zenon, <1>1, <1>2 DEF Main, SendCancel, JoinWorker, JoinWatchdog, Verdict,
         CheckpointCapture, CheckpointMutate, page
    <2>3. Guest => Switch
      <3>1. ~TaskAEntry /\ ~TaskBEntry /\ ~TaskBYields /\ ~TaskExits /\ ~BlockHandler /\ ~ArmHandler
        BY Zenon, <1>1 DEF TaskAEntry, TaskBEntry, TaskBYields, TaskExits, BlockHandler, ArmHandler,
           page
      <3>2. ~Sti /\ ~Hlt /\ ~ArmedHandler /\ ~QueueHandler /\ ~TerminalHandler
        BY Zenon, <1>1 DEF Sti, Hlt, ArmedHandler, QueueHandler, TerminalHandler, page
      <3>3. ~WakeTimerHandler /\ ~PreemptTimerWrapper /\ ~Eoi /\ ~Iret
        BY Zenon, <1>1 DEF WakeTimerHandler, PreemptTimerWrapper, Eoi, Iret, page
      <3>4. ~AcceptOutput /\ ~RejectOutput /\ ~SwitchStops
        BY Zenon, <1>1 DEF AcceptOutput, RejectOutput, SwitchStops, page
      <3>5. QED
        BY Zenon, <3>1, <3>2, <3>3, <3>4 DEF Guest
    <2>4. QED
      BY Zenon, <2>1, <2>2, <2>3 DEF Next
  <1>4. frame = "wild"
    <2>1. context'[space].at = frame
      <3>1. context \in Saved /\ space \in {"A", "B"}
        BY Zenon, <1>3, AtLabel DEF Switch, Executes, IInv, HostTypeOK, KernelA, LateB, PathWild,
           Running, Cpu
      <3>2. DOMAIN context = {"A", "B"}
        BY <3>1 DEF Saved, Contexts
      <3>3. QED
        BY <1>3, <3>1, <3>2 DEF Switch
    <2>2. space = "B" \/ context' = Contexts(2)
      <3>1. \/ KernelA("switch", 2, LeaveA(fixture) + 1) \/ LateB("switch", 5, LeaveB(fixture) + 1)
            \/ PathWild
        BY Zenon, <1>3, AtLabel DEF Switch, Executes
      <3>2. CASE KernelA("switch", 2, LeaveA(fixture) + 1)
        <4>1. context = Contexts(1) /\ space = "A" /\ frame = "after" /\ r12 = "A"
          BY Zenon, <3>2 DEF KernelA, Running, Cpu, Memory
        <4>2. context["A"].saves + 1 = 1
          BY <4>1 DEF Contexts, Context
        <4>3. context' = [context EXCEPT !["A"] = SavedA]
          BY Zenon, <1>3, <4>1, <4>2 DEF Switch, SavedA, Context
        <4>4. QED
          BY Zenon, <4>1, <4>3, SavedContexts
      <3>3. CASE LateB("switch", 5, LeaveB(fixture) + 1)
        BY Zenon, <3>3 DEF LateB, Running, Cpu
      <3>4. CASE PathWild
        BY Zenon, <3>4 DEF PathWild
      <3>5. QED
        BY Zenon, <3>1, <3>2, <3>3, <3>4
    <2>3. QED
      BY Zenon, <2>1, <2>2, WildIsApart
  <1>5. PathWild
    BY Zenon, <1>3, <1>4, AtLabel DEF Switch, Executes, KernelA, LateB, Running, Cpu
  <1>6. result # "ok"
    BY Zenon, <1>3 DEF Switch, Executes, ResultInv
  <1>7. QED
    BY Zenon, <1>3, <1>4, <1>5, <1>6 DEF Switch, PathWild, host, timerVars

\* A step sets the result if it returns, and only then.
LEMMA ResultStep == ResultInv /\ [Next]_vars => ResultInv'
  <1> SUFFICES ASSUME ResultInv, [Next]_vars, main' # "returned"
               PROVE  result' = result /\ main # "returned"
    BY Zenon DEF ResultInv
  <1>1. CASE Guest
    <2>1. CASE AcceptOutput \/ RejectOutput \/ SwitchStops
      BY Zenon, <2>1 DEF AcceptOutput, RejectOutput, SwitchStops, AtExit, Executes, Return
    <2>2. CASE TaskAEntry \/ TaskBEntry \/ TaskBYields \/ TaskExits \/ Sti \/ Hlt \/ Switch \/ Iret
      BY Zenon, <2>2 DEF TaskAEntry, TaskBEntry, TaskBYields, TaskExits, Sti, Hlt, Switch, Iret,
         Executes, host
    <2>3. CASE BlockHandler \/ ArmHandler \/ ArmedHandler \/ QueueHandler \/ TerminalHandler
      BY Zenon, <2>3 DEF BlockHandler, ArmHandler, ArmedHandler, QueueHandler, TerminalHandler,
         KernelStep, Executes, host
    <2>4. CASE WakeTimerHandler \/ PreemptTimerWrapper \/ Eoi
      BY Zenon, <2>4 DEF WakeTimerHandler, PreemptTimerWrapper, Eoi, KernelStep, Executes, host
    <2>5. QED
      BY Zenon, <1>1, <2>1, <2>2, <2>3, <2>4 DEF Guest
  <1>2. CASE Main
    BY Zenon, <1>2 DEF Main, SendCancel, JoinWorker, JoinWatchdog, Verdict, CheckpointCapture,
       CheckpointMutate, CheckpointRestore, Return
  <1>3. CASE Threads \/ TakesInterrupt \/ Returned \/ UNCHANGED vars
    BY Zenon, <1>3 DEF Threads, TakesInterrupt, Returned, vars, host
  <1>4. QED
    BY Zenon, <1>1, <1>2, <1>3 DEF Next

\* Every reachable state satisfies the assertion of the guest's label.
THEOREM SchedulingInvariant == Spec => [](IInv /\ WildInv)
  <1>1. Init => ResultInv /\ WildInv
    <2>1. Init => context = Contexts(1)
      BY DEF Init, Contexts, Context
    <2>2. QED
      BY Zenon, <2>1, WildIsApart DEF WildInv, Init, ResultInv
  <1>2. IInv /\ ResultInv /\ WildInv /\ [Next]_vars => WildInv'
    BY Zenon, WildStays, WildArises DEF WildInv
  <1>3. QED
    BY <1>1, <1>2, ResultStep, Initial, Inductive, PTL DEF Spec

\* Whatever the timer, the watchdog, the failing calls and the checkpoint do,
\* no user instruction of task A executes while A is marked blocked.
THEOREM BlockedTaskNeverRunsHolds == Spec => []BlockedTaskNeverRuns
  <1>1. IInv => BlockedTaskNeverRuns
    <2>1. SUFFICES ASSUME IInv, main = "run", pc \in User, space = "A"
                   PROVE  state["A"] = "runnable"
      BY Zenon DEF BlockedTaskNeverRuns
    <2>2. PathA \/ PathB \/ PathExit
      BY Zenon, <2>1, Labels DEF IInv, RunInv, User
    <2>3. (PathA => EntryA) /\ ~PathB /\ (PathExit => Back)
      BY Zenon, <2>1 DEF User, PathA, PathB, PathExit, KernelA, EntryB, YieldB, KernelB, Exiting,
         Running, Cpu
    <2>4. EntryA => state = BothRunnable
      BY DEF EntryA, Memory, StateAt
    <2>5. Back => state = BothRunnable
      BY DEF Back, Memory, StateAt
    <2>6. QED
      BY <2>2, <2>3, <2>4, <2>5 DEF BothRunnable
  <1>2. QED
    BY <1>1, SchedulingInvariant, PTL

\* Whatever interrupts come in, what the scheduler has saved for a task is the
\* address space, resume point and register the task left user mode with; if
\* the watchdog's interrupt made it save B from the user stack, nothing is
\* resumed after it and the host function does not succeed.
THEOREM ContextsBelongHolds == Spec => []ContextsBelong
  <1>1. IInv /\ WildInv => ContextsBelong
    <2>1. SUFFICES ASSUME IInv, WildInv, NEW t \in Tasks, context[t].saves > 0
                   PROVE  \/ ContextValid(t)
                          \/ /\ fixture = "preempt" /\ t = "B" /\ "watchdog" \in raised
                             /\ pc \in {"fault", "end"} /\ result # "ok"
      BY Zenon DEF ContextsBelong
    <2>2. context \in Saved
      BY Zenon, <2>1 DEF IInv, HostTypeOK
    <2>3. CASE context = Contexts(4)
      <3>1. CASE t = "A"
        BY Zenon, <2>3, <3>1, WildIsApart DEF SavedA, Context, ContextValid
      <3>2. CASE t = "B"
        BY Zenon, <2>1, <2>3, <3>2 DEF WildInv
      <3>3. QED
        BY Zenon, <3>1, <3>2 DEF Tasks
    <2>4. CASE context \in {Contexts(1), Contexts(2), Contexts(3)}
      <3>1. /\ context["A"] \in {Context("none", "none", "zero", 0), SavedA}
            /\ context["B"] \in {Context("entry", "B", "B", 0), SavedB}
        BY SMTT(30), <2>4 DEF Contexts
      <3>2. context[t] = IF t = "A" THEN SavedA ELSE SavedB
        BY <2>1, <3>1 DEF Tasks, Context
      <3>3. QED
        BY Zenon, <3>2 DEF SavedA, SavedB, Context, Tasks, ContextValid
    <2>5. QED
      BY Zenon, <2>2, <2>3, <2>4 DEF Saved
  <1>2. QED
    BY <1>1, SchedulingInvariant, PTL

\* For every set of fixtures and of calls that may fail: the host function
\* returns an error only if such a call failed or the watchdog expired.
THEOREM GuestMeetsModelHolds == Spec => []GuestMeetsModel
  <1>1. IInv => GuestMeetsModel
    BY Zenon DEF IInv
  <1>2. QED
    BY <1>1, SchedulingInvariant, PTL

\* The host refuses an output only after the watchdog raised the line: the bytes
\* and the memory of an undisturbed guest are the ones the host expects, each
\* time one is put out.
THEOREM OutputsAreExpected ==
    Spec => [](AtExit /\ "watchdog" \notin raised =>
                 /\ accepted < Len(Proof) /\ OutputByte = Proof[accepted + 1]
                 /\ Verified(OutputByte))
  <1>1. IInv => (AtExit /\ "watchdog" \notin raised =>
                   /\ accepted < Len(Proof) /\ OutputByte = Proof[accepted + 1]
                   /\ Verified(OutputByte))
    BY Zenon, OthersAreExpected DEF Again
  <1>2. QED
    BY <1>1, SchedulingInvariant, PTL
=============================================================================
