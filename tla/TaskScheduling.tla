-------------------------- MODULE TaskScheduling --------------------------
(***************************************************************************)
(* Two tasks in two address spaces and the guest kernel that switches      *)
(* between them, under the host functions that run and verify them:        *)
(*                                                                         *)
(*   switch           task.rs                  yield, yield, done          *)
(*   preempt          task/preemption.rs       a timer preempts A          *)
(*   wakeup           task/wakeup.rs           A blocks, a timer wakes it  *)
(*   queue            task/runnable_queue.rs   ... through a ready queue   *)
(*   wait             task/wait_channel.rs     ... on a wait channel       *)
(*   wait_dirty, wait_checkpoint               its two other run modes     *)
(*                                                                         *)
(* The guest is the handlers' machine code, one step per block that an     *)
(* interrupt cannot tell apart: before the arm barrier nothing raises the  *)
(* line, up to its STI a handler has the interrupt flag clear, and after   *)
(* it a second wakeup prints at once, which ends the run.  An output       *)
(* leaves KVM_RUN, and the host accepts only the byte and the guest memory *)
(* it expects.                                                             *)
(***************************************************************************)
EXTENDS WatchdogTimer, Naturals, Sequences

CONSTANT Fixtures

WaitFixtures == {"wait", "wait_dirty", "wait_checkpoint"}
BlockingFixtures == {"wakeup", "queue"} \cup WaitFixtures
AllFixtures == {"switch", "preempt"} \cup BlockingFixtures

ASSUME SchedulingAssumption ==
    /\ Fixtures \subseteq AllFixtures
    /\ Faults \subseteq {"worker", "watchdog", "preflight", "restore"}

VARIABLES
    \* the host
    fixture, main, accepted, execution, result, captured,
    \* the vCPU
    pc, if, shadow, halted, isr, space, r12,
    frame,      \* where the interrupt frame under the handler returns to
    resume,     \* what the timer interrupted
    \* the task-context page of guest memory
    context, terminal, state, queue, wait,
    dirty       \* the dirty log's bit for that page, set by guest writes

host == <<fixture, main, accepted, execution, result, captured>>
cpu == <<pc, if, shadow, halted, isr, space, r12, frame, resume>>
page == <<context, terminal, state, queue, wait>>
vars == <<timerVars, host, cpu, page, dirty>>

Tasks == {"A", "B"}
Other(t) == IF t = "A" THEN "B" ELSE "A"
User == {"entry", "yield", "after"}

\* TASK_*_PROOF: the debug bytes of a complete run.
Proof ==
    CASE fixture = "switch"  -> <<"A", "B", "R", "D">>
      [] fixture = "preempt" -> <<"P", "A", "B", "R", "D">>
      [] fixture = "wakeup"  -> <<"K", "A", "P", "W", "B", "R", "D">>
      [] fixture = "queue"   -> <<"K", "1", "A", "P", "W", "0", "B", "R", "D">>
      [] OTHER -> <<"K", "1", "A", "X", "P", "W", "0", "B", "R", "D">>

-----------------------------------------------------------------------------
(* The host's own models of the ready queue and of the wait channel, which  *)
(* say what guest memory must hold at each output.                          *)

WaitNew == [state |-> "runnable", owner |-> "none", mismatches |-> 0, wakes |-> 0,
            attempt |-> "none"]

\* WaitChannelModel::block of a runnable task
WaitBlock(w, channel) == [w EXCEPT !.state = "blocked", !.owner = channel]

\* WaitChannelModel::wake of a blocked task
WaitWake(w, channel) ==
    IF w.owner # channel
    THEN [w EXCEPT !.attempt = channel, !.mismatches = @ + 1]
    ELSE [w EXCEPT !.attempt = channel, !.owner = "none", !.state = "runnable", !.wakes = @ + 1]

\* QueueModel::select_next over the entries <<A, B>>, of which one is runnable.
SelectNext(q, states) ==
    LET first == IF q.head = 0 THEN "A" ELSE "B"
        skips == IF states[first] = "runnable" THEN 0 ELSE 1
    IN  [head |-> (q.head + 1 + skips) % 2,
         selected |-> IF skips = 0 THEN first ELSE Other(first),
         skips |-> q.skips + skips]

QueueNew == [head |-> 0, selected |-> "none", skips |-> 0]

BlockedA == [A |-> "blocked", B |-> "runnable"]
BothRunnable == [A |-> "runnable", B |-> "runnable"]

\* The five bytes of a WaitChannelSnapshot.
WaitSnapshot == [state |-> state["A"], owner |-> wait.owner, mismatches |-> wait.mismatches,
                 wakes |-> wait.wakes, attempt |-> wait.attempt]

FirstSelection == SelectNext(QueueNew, BlockedA)
SecondSelection == SelectNext(FirstSelection, BothRunnable)
WaitBlocked == WaitBlock(WaitNew, "a")
WaitMismatch == WaitWake(WaitBlocked, "wrong")
WaitWoken == WaitWake(WaitMismatch, "a")

\* What the host verifies after it accepted a byte.
Verified(byte) ==
    /\ byte = "K" /\ fixture \in BlockingFixtures => state["A"] = "blocked"
    /\ byte = "W" /\ fixture = "wakeup" => state["A"] = "runnable"
    /\ byte = "1" => queue = FirstSelection /\ state = BlockedA
    /\ byte = "0" => queue = SecondSelection /\ state = BothRunnable
    /\ byte = "P" => ~if
    /\ fixture \in WaitFixtures =>
          /\ byte = "K" => WaitSnapshot = WaitBlocked
          /\ byte = "X" => WaitSnapshot = WaitMismatch
          /\ byte \in {"W", "D"} => WaitSnapshot = WaitWoken
    /\ fixture = "wait_dirty" /\ byte \in {"K", "X", "W", "D"} => dirty

-----------------------------------------------------------------------------
\* Tables and handlers are loaded, the context page is zero but for B's first
\* context and the metadata, task A is entered at its first instruction.
Init ==
    /\ TimerInit
    /\ fixture \in Fixtures
    /\ main = "run" /\ accepted = 0 /\ execution = "none" /\ result = "none" /\ captured = <<>>
    /\ pc = "entry" /\ if = TRUE /\ shadow = FALSE /\ halted = FALSE /\ isr = FALSE
    /\ space = "A" /\ r12 = "zero" /\ frame = "none" /\ resume = "none"
    /\ context = [A |-> [space |-> "none", at |-> "none", r12 |-> "zero", saves |-> 0],
                  B |-> [space |-> "B", at |-> "entry", r12 |-> "B", saves |-> 0]]
    /\ terminal = <<>> /\ state = BothRunnable /\ queue = QueueNew
    /\ wait = [owner |-> "none", mismatches |-> 0, wakes |-> 0, attempt |-> "none"]
    /\ dirty = FALSE

Return(outcome) == main' = "returned" /\ result' = outcome

-----------------------------------------------------------------------------
(* The guest's instructions, while the main thread is in KVM_RUN.           *)

Executes(label) == main = "run" /\ ~halted /\ pc = label

\* INT n through an interrupt gate.
Int(handler, return) == pc' = handler /\ frame' = return /\ if' = FALSE

\* Task A: mark R12 and the stack, then leave through the fixture's gate.
TaskAEntry ==
    /\ Executes("entry") /\ space = "A"
    /\ r12' = "A"
    /\ Int(CASE fixture = "switch" -> "scheduler" [] fixture = "preempt" -> "arm"
             [] OTHER -> "block", "after")
    /\ UNCHANGED <<timerVars, host, shadow, halted, isr, space, resume, page, dirty>>

\* Task B: expect its own R12, mark the stack, change R12.
TaskBEntry ==
    /\ Executes("entry") /\ space = "B"
    /\ IF r12 = "B"
       THEN /\ r12' = "B+" /\ pc' = "yield"
            /\ UNCHANGED <<if, frame>>
       ELSE /\ Int("terminal", "end")
            /\ UNCHANGED r12
    /\ UNCHANGED <<timerVars, host, shadow, halted, isr, space, resume, page, dirty>>

\* Task B's next instruction: yield, or arm the wakeup.
TaskBYields ==
    /\ Executes("yield")
    /\ Int(IF fixture \in BlockingFixtures THEN "arm" ELSE "scheduler", "after")
    /\ UNCHANGED <<timerVars, host, shadow, halted, isr, space, r12, resume, page, dirty>>

TaskExits ==
    /\ Executes("after")
    /\ Int("terminal", "end")
    /\ UNCHANGED <<timerVars, host, shadow, halted, isr, space, r12, resume, page, dirty>>

KernelStep(next) == pc' = next /\ UNCHANGED <<timerVars, host, if, shadow, halted, space, r12>>

\* Wrong on purpose: the handler marks the task blocked and returns to it.
BlockHandlerReturns ==
    /\ Executes("block")
    /\ state' = [state EXCEPT !["A"] = "blocked"]
    /\ wait' = IF fixture \in WaitFixtures THEN [wait EXCEPT !.owner = "a"] ELSE wait
    /\ dirty' = TRUE
    /\ KernelStep(frame)
    /\ UNCHANGED <<isr, frame, resume, context, terminal, queue>>

\* *_BLOCK_HANDLER_BYTES
BlockHandler ==
    /\ Executes("block")
    /\ state' = [state EXCEPT !["A"] = "blocked"]
    /\ wait' = IF fixture \in WaitFixtures THEN [wait EXCEPT !.owner = "a"] ELSE wait
    /\ dirty' = TRUE
    /\ KernelStep("K")
    /\ UNCHANGED <<isr, frame, resume, context, terminal, queue>>

\* *_WAKE_ARM_HANDLER_BYTES up to its first output: on a wait channel, an
\* attempt with the wrong channel that must leave the task blocked and owned.
ArmHandler ==
    /\ Executes("arm")
    /\ IF fixture \in WaitFixtures
       THEN /\ wait' = [wait EXCEPT !.attempt = "wrong",
                                    !.mismatches = IF wait.owner = "wrong" THEN @ ELSE @ + 1]
            /\ dirty' = TRUE
            /\ KernelStep(IF wait.owner = "a" /\ state["A"] = "blocked" THEN "X" ELSE "F")
       ELSE /\ KernelStep("P")
            /\ UNCHANGED <<wait, dirty>>
    /\ UNCHANGED <<isr, frame, resume, context, terminal, state, queue>>

\* STI enables interrupts only after the instruction that follows it.
Sti ==
    /\ Executes("sti")
    /\ pc' = "hlt" /\ if' = TRUE /\ shadow' = TRUE
    /\ UNCHANGED <<timerVars, host, halted, isr, space, r12, frame, resume, page, dirty>>

Hlt ==
    /\ Executes("hlt")
    /\ pc' = "armed" /\ shadow' = FALSE /\ halted' = TRUE
    /\ UNCHANGED <<timerVars, host, if, isr, space, r12, frame, resume, page, dirty>>

\* The rest of the arm handler, after the wakeup; a preempted task never gets here.
ArmedHandler ==
    /\ Executes("armed")
    /\ KernelStep(IF \/ fixture = "preempt"
                     \/ state["A"] # "runnable"
                     \/ fixture \in WaitFixtures /\ wait.owner # "none" THEN "F"
                  ELSE IF fixture = "wakeup" THEN "scheduler" ELSE "queue")
    /\ UNCHANGED <<isr, frame, resume, page, dirty>>

\* QUEUE_HANDLER_BYTES: the first runnable entry from the head on, which must be
\* the task of the other address space.
QueueHandler ==
    LET first == IF queue.head = 0 THEN "A" ELSE "B"
        chosen == IF state[first] = "runnable" THEN first ELSE Other(first)
    IN  /\ Executes("queue")
        /\ IF state[chosen] = "runnable"
           THEN /\ queue' = [head |-> IF chosen = "A" THEN 1 ELSE 0,
                             selected |-> chosen,
                             skips |-> queue.skips + (IF chosen = first THEN 0 ELSE 1)]
                /\ dirty' = TRUE
                /\ KernelStep(IF space = chosen THEN "F" ELSE IF chosen = "A" THEN "0" ELSE "1")
           ELSE /\ KernelStep("F")
                /\ UNCHANGED <<queue, dirty>>
        /\ UNCHANGED <<isr, frame, resume, context, terminal, state, wait>>

\* Wrong on purpose: R12 is loaded before it is saved.
SwitchSavesLate ==
    LET next == context[Other(space)]
    IN  /\ Executes("switch")
        /\ context' = [context EXCEPT ![space] =
                         [space |-> space, at |-> frame, r12 |-> next.r12, saves |-> @.saves + 1]]
        /\ space' = next.space /\ r12' = next.r12
        /\ IF frame = "wild" THEN pc' = "fault" /\ UNCHANGED if ELSE pc' = next.at /\ if' = TRUE
        /\ frame' = "none" /\ dirty' = TRUE
        /\ UNCHANGED <<timerVars, host, shadow, halted, isr, resume, terminal, state, queue, wait>>

\* SCHEDULER_HANDLER_BYTES after its output: save the interrupted user context,
\* load the other task's, change CR3, IRETQ.  On a user stack the new frame is
\* written before CR3 changes and popped after it, from the other task's stack
\* page: a null CS, and no gate takes the fault.
Switch ==
    LET next == context[Other(space)]
    IN  /\ Executes("switch")
        /\ context' = [context EXCEPT ![space] =
                         [space |-> space, at |-> frame, r12 |-> r12, saves |-> @.saves + 1]]
        /\ space' = next.space /\ r12' = next.r12
        /\ IF frame = "wild" THEN pc' = "fault" /\ UNCHANGED if ELSE pc' = next.at /\ if' = TRUE
        /\ frame' = "none" /\ dirty' = TRUE
        /\ UNCHANGED <<timerVars, host, shadow, halted, isr, resume, terminal, state, queue, wait>>

\* TERMINAL_HANDLER_BYTES up to its output.
TerminalHandler ==
    /\ Executes("terminal")
    /\ IF space = "A" /\ r12 = "A" /\ frame = "end"
       THEN /\ terminal' = <<[space |-> space, at |-> frame, r12 |-> r12]>>
            /\ dirty' = TRUE
            /\ KernelStep("R")
       ELSE /\ KernelStep("F")
            /\ UNCHANGED <<terminal, dirty>>
    /\ UNCHANGED <<isr, frame, resume, context, state, queue, wait>>

-----------------------------------------------------------------------------
(* The timer interrupt, delivered by the in-kernel PIC.                     *)

TakesInterrupt ==
    /\ main = "run"
    /\ irr /\ ~isr /\ if /\ ~shadow
    /\ irr' = FALSE /\ isr' = TRUE
    /\ if' = FALSE /\ halted' = FALSE
    /\ resume' = pc /\ pc' = "timer"
    /\ UNCHANGED <<worker, watchdog, cancelled, level, raised, failed, host, shadow, space, r12,
                   frame, page, dirty>>

\* *_WAKE_TIMER_HANDLER_BYTES up to the output.  On a wait channel the wakeup
\* has to name the owning channel.
WakeTimerHandler ==
    /\ Executes("timer") /\ fixture # "preempt"
    /\ LET owned == fixture \in WaitFixtures => wait.owner = "a"
       IN  /\ state' = IF owned THEN [state EXCEPT !["A"] = "runnable"] ELSE state
           /\ wait' = IF fixture \notin WaitFixtures THEN wait
                      ELSE IF owned
                      THEN [wait EXCEPT !.attempt = "a", !.owner = "none", !.wakes = @ + 1]
                      ELSE [wait EXCEPT !.attempt = "a"]
           /\ KernelStep(IF owned THEN "W" ELSE "F")
    /\ dirty' = TRUE
    /\ UNCHANGED <<isr, frame, resume, context, terminal, queue>>

\* PREEMPT_TIMER_WRAPPER_BYTES: EOI, then the scheduler on the stack that was
\* interrupted.  Under HLT that is the arm handler's, with the user frame of
\* task A on it; in user mode it is the user's own, and no frame at all.
PreemptTimerWrapper ==
    /\ Executes("timer") /\ fixture = "preempt"
    /\ isr' = FALSE
    /\ frame' = IF resume \in User THEN "wild" ELSE frame
    /\ resume' = "none"
    /\ KernelStep("scheduler")
    /\ UNCHANGED <<page, dirty>>

Eoi ==
    /\ Executes("eoi")
    /\ isr' = FALSE
    /\ KernelStep("iret")
    /\ UNCHANGED <<frame, resume, page, dirty>>

Iret ==
    /\ Executes("iret")
    /\ pc' = resume /\ resume' = "none" /\ if' = TRUE
    /\ UNCHANGED <<timerVars, host, shadow, halted, isr, space, r12, frame, page, dirty>>

-----------------------------------------------------------------------------
(* Debug outputs and the main thread.                                       *)

\* The byte the guest puts out next.
OutputByte ==
    IF pc # "scheduler" THEN pc
    ELSE IF space = "A" /\ r12 = "A" THEN "A"
    ELSE IF space = "B" /\ r12 = "B+" THEN "B"
    ELSE "F"

AfterOutput ==
    CASE OutputByte = "K" -> (IF fixture = "wakeup" THEN "scheduler" ELSE "queue")
      [] OutputByte \in {"0", "1"} -> "scheduler"
      [] OutputByte \in {"A", "B"} -> "switch"
      [] OutputByte = "X" -> "P"
      [] OutputByte = "P" -> "sti"
      [] OutputByte = "W" -> "eoi"
      [] OutputByte = "R" -> "D"
      [] OTHER -> "end"

\* KVM_RUN returns: an output, or the shutdown after a fault without a gate.
AtExit ==
    /\ main = "run" /\ ~halted
    /\ pc \in {"scheduler", "K", "0", "1", "X", "P", "W", "R", "D", "F", "fault"}

\* KVM_RUN exits with the expected byte and guest memory is as expected.  The arm
\* barrier duplicates the IRQ handles, lowers the line and starts the threads.
AcceptOutput ==
    /\ AtExit
    /\ accepted < Len(Proof) /\ OutputByte = Proof[accepted + 1] /\ Verified(OutputByte)
    /\ accepted' = accepted + 1
    /\ pc' = AfterOutput
    /\ dirty' = IF fixture = "wait_dirty" /\ OutputByte \in {"K", "X", "W", "D"}
                THEN FALSE ELSE dirty
    /\ \/ /\ OutputByte = "P" /\ Spawn
          /\ UNCHANGED <<main, execution, result>>
       \/ /\ OutputByte = "P" /\ Fails("preflight") /\ Return("err")
          /\ UNCHANGED <<worker, watchdog, cancelled, level, irr, raised, execution>>
       \/ /\ OutputByte = "D" /\ fixture # "switch"
          /\ main' = "cancel" /\ execution' = "ok"
          /\ UNCHANGED <<timerVars, result>>
       \/ /\ OutputByte = "X" /\ fixture = "wait_checkpoint"
          /\ main' = "capture"
          /\ UNCHANGED <<timerVars, execution, result>>
       \/ /\ OutputByte # "P"
          /\ OutputByte = "D" => fixture = "switch"
          /\ OutputByte = "X" => fixture # "wait_checkpoint"
          /\ UNCHANGED <<timerVars, main, execution, result>>
    /\ UNCHANGED <<fixture, captured, if, shadow, halted, isr, space, r12, frame, resume, page>>

\* Anything else is an error: at once before the threads exist, and through
\* cancel and joins once they do.
RejectOutput ==
    /\ AtExit
    /\ ~(accepted < Len(Proof) /\ OutputByte = Proof[accepted + 1] /\ Verified(OutputByte))
    /\ pc' = "end"
    /\ execution' = "err"
    /\ IF worker = "unspawned"
       THEN Return("err")
       ELSE main' = "cancel" /\ UNCHANGED result
    /\ UNCHANGED <<timerVars, fixture, accepted, captured, if, shadow, halted, isr, space, r12,
                   frame, resume, page, dirty>>

\* Without an in-kernel irqchip the final HLT leaves KVM_RUN.
SwitchStops ==
    /\ fixture = "switch" /\ Executes("end")
    /\ main' = "verdict" /\ execution' = "ok"
    /\ UNCHANGED <<timerVars, fixture, accepted, result, captured, cpu, page, dirty>>

SendCancel ==
    /\ main = "cancel"
    /\ main' = "join_worker"
    /\ Cancel
    /\ UNCHANGED <<fixture, accepted, execution, result, captured, cpu, page, dirty>>

JoinWorker ==
    /\ main = "join_worker" /\ WorkerJoined
    /\ main' = "join_watchdog"
    /\ UNCHANGED <<timerVars, fixture, accepted, execution, result, captured, cpu, page, dirty>>

JoinWatchdog ==
    /\ main = "join_watchdog" /\ WatchdogJoined
    /\ main' = "verdict"
    /\ UNCHANGED <<timerVars, fixture, accepted, execution, result, captured, cpu, page, dirty>>

\* validate_*_state: both contexts saved once, each with its own values.
ContextValid(t) ==
    context[t] = [space |-> t, at |-> "after", r12 |-> IF t = "A" THEN "A" ELSE "B+", saves |-> 1]

FinalStateValid ==
    /\ \A t \in Tasks : ContextValid(t)
    /\ terminal = <<[space |-> "A", at |-> "end", r12 |-> "A"]>>
    /\ space = "A" /\ r12 = "A"
    /\ fixture = "wakeup" => state["A"] = "runnable"
    /\ fixture \in WaitFixtures => WaitSnapshot = WaitWoken

Verdict ==
    /\ main = "verdict"
    /\ Return(IF /\ fixture = "switch" \/ (worker = "done" /\ watchdog = "cancelled")
                 /\ execution = "ok" /\ accepted = Len(Proof) /\ FinalStateValid
              THEN "ok" ELSE "err")
    /\ UNCHANGED <<timerVars, fixture, accepted, execution, captured, cpu, page, dirty>>

-----------------------------------------------------------------------------
(* capture_mutate_restore_wait_checkpoint, between X and P.                 *)

\* A single step completes the output of X and stops in front of P; the vCPU and
\* the page are captured.
CheckpointCapture ==
    /\ main = "capture"
    /\ IF WaitSnapshot = WaitMismatch /\ queue = FirstSelection
       THEN /\ captured' = <<[cpu |-> cpu, page |-> page]>>
            /\ main' = "mutate"
            /\ UNCHANGED result
       ELSE Return("err") /\ UNCHANGED captured
    /\ UNCHANGED <<timerVars, fixture, accepted, execution, cpu, page, dirty>>

\* The wakeup metadata is overwritten as if A had been woken, and the vCPU starts over.
CheckpointMutate ==
    /\ main = "mutate"
    /\ main' = "restore"
    /\ state' = [state EXCEPT !["A"] = "runnable"]
    /\ queue' = [queue EXCEPT !.selected = "A"]
    /\ wait' = [wait EXCEPT !.owner = "none", !.mismatches = 0, !.attempt = "none"]
    /\ pc' = "boot" /\ if' = FALSE /\ space' = "A" /\ r12' = "zero" /\ frame' = "none"
    /\ UNCHANGED <<timerVars, fixture, accepted, execution, result, captured, shadow, halted, isr,
                   resume, context, terminal, dirty>>

RestoreVcpu(saved) ==
    /\ pc' = saved[1] /\ if' = saved[2] /\ shadow' = saved[3] /\ halted' = saved[4]
    /\ isr' = saved[5] /\ space' = saved[6] /\ r12' = saved[7] /\ frame' = saved[8]
    /\ resume' = saved[9]

RestorePage(saved) ==
    /\ context' = saved[1] /\ terminal' = saved[2] /\ state' = saved[3] /\ queue' = saved[4]
    /\ wait' = saved[5]

\* Wrong on purpose: only the vCPU comes back.
CheckpointRestoreVcpu ==
    /\ main = "restore"
    /\ RestoreVcpu(captured[1].cpu)
    /\ main' = "run"
    /\ UNCHANGED <<timerVars, fixture, accepted, execution, result, captured, page, dirty>>

\* BoundedVcpuPageCheckpoint::restore_and_verify, the page first, and the typed
\* comparison; restoring the vCPU may fail.
CheckpointRestore ==
    /\ main = "restore"
    /\ \/ /\ RestoreVcpu(captured[1].cpu) /\ RestorePage(captured[1].page)
          /\ main' = "run"
          /\ UNCHANGED <<timerVars, result>>
       \/ /\ Fails("restore") /\ Return("err")
          /\ RestorePage(captured[1].page)
          /\ UNCHANGED <<worker, watchdog, cancelled, level, irr, raised, cpu>>
    /\ UNCHANGED <<fixture, accepted, execution, captured, dirty>>

-----------------------------------------------------------------------------
Main ==
    \/ SendCancel \/ JoinWorker \/ JoinWatchdog \/ Verdict
    \/ CheckpointCapture \/ CheckpointMutate \/ CheckpointRestore

Threads == (TimerStep \/ WatchdogStep) /\ UNCHANGED <<host, cpu, page, dirty>>

Guest ==
    \/ TaskAEntry \/ TaskBEntry \/ TaskBYields \/ TaskExits \/ BlockHandler \/ ArmHandler
    \/ Sti \/ Hlt
    \/ ArmedHandler \/ QueueHandler \/ Switch \/ TerminalHandler
    \/ WakeTimerHandler \/ PreemptTimerWrapper \/ Eoi \/ Iret
    \/ AcceptOutput \/ RejectOutput \/ SwitchStops

Returned == main = "returned" /\ UNCHANGED vars

Next == Main \/ Threads \/ Guest \/ TakesInterrupt \/ Returned

Spec == Init /\ [][Next]_vars

\* Every thread is scheduled, sleeps and timeouts end, the guest executes, and a
\* pending interrupt is delivered to an interruptible vCPU.
FairSpec ==
    /\ Spec
    /\ WF_vars(Main) /\ WF_vars(Guest) /\ WF_vars(TakesInterrupt)
    /\ WF_vars(TimerStep /\ UNCHANGED <<host, cpu, page, dirty>>)
    /\ WF_vars(WatchdogStep /\ UNCHANGED <<host, cpu, page, dirty>>)

-----------------------------------------------------------------------------
\* A blocked task does not execute: while A is marked blocked, no user
\* instruction of A's address space runs, in any fixture and whatever the
\* timer, the watchdog and the checkpoint do.
BlockedTaskNeverRuns ==
    main = "run" /\ pc \in User /\ space = "A" => state["A"] = "runnable"

\* A context is saved whole and for its own task: what the scheduler has saved
\* for a task is what the task held when it left user mode.  The one exception
\* takes the watchdog's interrupt on top of the timer's, after task B changed
\* R12 and before it yields: B's output is accepted and its context is saved
\* from the user stack, but no task is resumed after it and the host function
\* does not return a success.
ContextsBelong ==
    \A t \in Tasks : context[t].saves > 0 =>
        \/ ContextValid(t)
        \/ /\ fixture = "preempt" /\ t = "B" /\ "watchdog" \in raised
           /\ pc \in {"fault", "end"} /\ result # "ok"

\* The handlers' machine code, the ready queue and the wait channel behave as the
\* host's models of them say: unless a host call failed or the watchdog
\* expired, no interleaving of timer and guest fails the verification.
GuestMeetsModel ==
    result = "err" => failed # {} \/ watchdog \in {"done", "failed"}

\* The host function returns, also when the timer failed: the watchdog gets the
\* vCPU out of HLT, unless its own pulse failed.
SchedulingReturns == <>(main = "returned" \/ watchdog = "failed")
=============================================================================
