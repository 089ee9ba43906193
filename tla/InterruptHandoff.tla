-------------------------- MODULE InterruptHandoff --------------------------
(***************************************************************************)
(* One interrupt delivered to a halted guest by a second host thread while *)
(* a watchdog thread stands by: the direct timer and the irqfd timer of    *)
(* async_timer.rs and irqfd_timer.rs, and the ioeventfd -> bridge -> irqfd *)
(* round trip of ioeventfd_roundtrip.rs.                                   *)
(*                                                                         *)
(* Five parties interleave: the main thread, which also is the vCPU        *)
(* thread; the delivery worker; the watchdog; the guest's instructions     *)
(* while the main thread is inside KVM_RUN; and KVM's own injection of a   *)
(* signalled irqfd.  Time is abstracted: a timeout may expire at any       *)
(* moment at which the awaited event has not yet happened.                 *)
(***************************************************************************)
EXTENDS Integers

CONSTANTS
  Deliveries,   \* the transports considered: "direct", "irqfd", "bridge"
  Faults        \* the host calls that may fail

ASSUME HandoffAssumption ==
  /\ Deliveries \subseteq {"direct", "irqfd", "bridge"}
  /\ Faults \subseteq {"assign", "worker", "watchdog", "deassign"}

VARIABLES
  delivery,    \* the transport selected for this run
  main,        \* where the main thread is
  expect,      \* the debug byte the next KVM_RUN must exit with
  execution,   \* the outcome of the execution closure
  result,      \* what the function returned
  worker,      \* the timer or bridge thread
  watchdog,    \* the watchdog thread
  registered,  \* kernel registrations that exist
  refused,     \* registrations whose deassign ioctl failed
  doorbell,    \* counter of the ioeventfd
  signalled,   \* the irqfd was written and KVM has not injected it yet
  level,       \* interrupt sources holding the GSI high
  irr, isr,    \* the PIC's request and in-service bits for the GSI
  pc,          \* the guest's next instruction; a debug output goes by its byte
  saved,       \* where the handler returns to
  if, shadow, halted,   \* RFLAGS.IF, the STI shadow, the HLT state
  raised,      \* history: threads that raised the line
  handled,     \* history: times the guest's handler was entered
  failed       \* history: the host calls that failed

host   == <<delivery, main, expect, execution, result>>
thread == <<worker, watchdog>>
kernel == <<registered, refused, doorbell, signalled>>
lines  == <<level, irr, isr>>
guest  == <<pc, saved, if, shadow, halted>>
past   == <<raised, handled, failed>>
handoffVars == <<host, thread, kernel, lines, guest, past>>

Registrations == {"ioeventfd", "irqfd"}

\* The byte expected after each byte; "none" ends the execution closure.
Following(byte) ==
  CASE byte = "A" -> "T" [] byte = "T" -> "W" [] byte = "W" -> "D" [] OTHER -> "none"

\* Both round trips start at a barrier with IF clear: the timers at A, the
\* bridge at R, before its doorbell store.
HandoffInit ==
  /\ delivery \in Deliveries
  /\ main = "assign" /\ execution = "none" /\ result = "none"
  /\ expect = (IF delivery = "bridge" THEN "A" ELSE "T")
  /\ worker = "unspawned" /\ watchdog = "unspawned"
  /\ registered = {} /\ refused = {} /\ doorbell = 0 /\ signalled = FALSE
  /\ level = {} /\ irr = FALSE /\ isr = FALSE
  /\ pc = (IF delivery = "bridge" THEN "doorbell" ELSE "sti") /\ saved = "none"
  /\ if = FALSE /\ shadow = FALSE /\ halted = FALSE
  /\ raised = {} /\ handled = 0 /\ failed = {}

-----------------------------------------------------------------------------
(* The GSI's line is the OR of its sources; the PIC latches a request on a  *)
(* rising edge only.                                                        *)

SetGsiLevel(source, on) ==
  /\ level' = IF on THEN level \cup {source} ELSE level \ {source}
  /\ irr' = (irr \/ (on /\ level = {}))
  /\ UNCHANGED isr

(* The main thread: assignment, the execution closure, cleanup, verdict.    *)

Fails(call) ==
  /\ call \in Faults
  /\ failed' = failed \cup {call}

Return(outcome) ==
  /\ main' = "returned"
  /\ result' = outcome
  /\ UNCHANGED <<delivery, expect, execution>>

Spawn ==
  /\ main' = "run"
  /\ worker' = "waiting" /\ watchdog' = "waiting"

AssignIrqfd ==
  /\ main = "assign"
  /\ \/ /\ delivery = "direct"
        /\ Spawn
        /\ UNCHANGED registered
     \/ /\ delivery = "irqfd"
        /\ Spawn
        /\ registered' = registered \cup {"irqfd"}
     \/ /\ delivery = "bridge"
        /\ main' = "assign_doorbell"
        /\ registered' = registered \cup {"irqfd"}
        /\ UNCHANGED thread
  /\ UNCHANGED <<delivery, expect, execution, result, refused, doorbell, signalled,
                 lines, guest, past>>

AssignIrqfdFails ==
  /\ main = "assign" /\ delivery # "direct"
  /\ Fails("assign")
  /\ Return("err")
  /\ UNCHANGED <<thread, kernel, lines, guest, raised, handled>>

AssignIoeventfd ==
  /\ main = "assign_doorbell"
  /\ Spawn
  /\ registered' = registered \cup {"ioeventfd"}
  /\ UNCHANGED <<delivery, expect, execution, result, refused, doorbell, signalled,
                 lines, guest, past>>

\* A failed doorbell assignment removes the irqfd before it is reported.
AssignIoeventfdFails ==
  /\ main = "assign_doorbell" /\ "assign" \in Faults
  /\ \E bad \in SUBSET {"irqfd"} :
       /\ bad # {} => "deassign" \in Faults
       /\ registered' = bad /\ refused' = bad
       /\ failed' = failed \cup {"assign"} \cup (IF bad = {} THEN {} ELSE {"deassign"})
  /\ Return("err")
  /\ UNCHANGED <<thread, doorbell, signalled, lines, guest, raised, handled>>

\* The bridge's completion is received before the vCPU is entered again; a
\* worker that ended without sending it disconnects the channel.
WaitForBridgeIrqfdSignal ==
  /\ main = "await"
  /\ \/ /\ worker = "done"
        /\ main' = "run"
        /\ UNCHANGED <<execution, failed>>
     \/ /\ worker = "failed"
        /\ main' = "cancel" /\ execution' = "err"
        /\ UNCHANGED failed
     \/ /\ worker \notin {"done", "failed"}
        /\ main' = "cancel" /\ execution' = "err"
        /\ failed' = failed \cup {"bridge_timeout"}
  /\ UNCHANGED <<delivery, expect, result, thread, kernel, lines, guest, raised, handled>>

\* The cancel message, then the two joins: each waits for its thread to end.
\* A cancel already sent is received even when the timeout has also elapsed.
CancelWatchdog ==
  /\ main = "cancel"
  /\ main' = "join_worker"
  /\ UNCHANGED <<delivery, expect, execution, result, thread, kernel, lines, guest, past>>

JoinWorker ==
  /\ main = "join_worker" /\ worker \in {"done", "failed"}
  /\ main' = "join_watchdog"
  /\ UNCHANGED <<delivery, expect, execution, result, thread, kernel, lines, guest, past>>

JoinWatchdog ==
  /\ main = "join_watchdog" /\ watchdog \in {"cancelled", "fired", "failed"}
  /\ main' = "deassign"
  /\ UNCHANGED <<delivery, expect, execution, result, thread, kernel, lines, guest, past>>

\* Wrong on purpose: the first failed deassign ends the cleanup.
DeassignShortCircuit ==
  /\ main = "deassign"
  /\ \E bad \in SUBSET registered :
       /\ bad # {} => "deassign" \in Faults
       /\ registered' = IF "ioeventfd" \in bad THEN registered ELSE bad
       /\ refused' = bad
       /\ failed' = failed \cup (IF bad = {} THEN {} ELSE {"deassign"})
  /\ main' = "verdict"
  /\ UNCHANGED <<delivery, expect, execution, result, thread, doorbell, signalled,
                 lines, guest, raised, handled>>

\* Every registration's removal is attempted, whatever the others returned.
Deassign ==
  /\ main = "deassign"
  /\ \E bad \in SUBSET registered :
       /\ bad # {} => "deassign" \in Faults
       /\ registered' = bad /\ refused' = bad
       /\ failed' = failed \cup (IF bad = {} THEN {} ELSE {"deassign"})
  /\ main' = "verdict"
  /\ UNCHANGED <<delivery, expect, execution, result, thread, doorbell, signalled,
                 lines, guest, raised, handled>>

\* Wrong on purpose: the verdict does not ask whether the watchdog fired.
VerdictIgnoringWatchdog ==
  /\ main = "verdict"
  /\ Return(IF /\ worker = "done" /\ watchdog # "failed"
               /\ refused = {} /\ execution = "ok"
            THEN "ok" ELSE "err")
  /\ UNCHANGED <<thread, kernel, lines, guest, past>>

Verdict ==
  /\ main = "verdict"
  /\ Return(IF /\ worker = "done" /\ watchdog = "cancelled"
               /\ refused = {} /\ execution = "ok"
            THEN "ok" ELSE "err")
  /\ UNCHANGED <<thread, kernel, lines, guest, past>>

-----------------------------------------------------------------------------
(* The delivery worker.  A timer sleeps; the bridge polls the doorbell and  *)
(* gives up after its timeout.                                              *)

WorkerWakes ==
  /\ worker = "waiting"
  /\ \/ /\ delivery # "bridge"
        /\ worker' = "woken"
        /\ UNCHANGED <<doorbell, failed>>
     \/ /\ delivery = "bridge" /\ doorbell > 0
        /\ worker' = (IF doorbell = 1 THEN "woken" ELSE "failed")
        /\ doorbell' = 0
        /\ UNCHANGED failed
     \/ /\ delivery = "bridge" /\ doorbell = 0
        /\ worker' = "failed"
        /\ failed' = failed \cup {"bridge_timeout"}
        /\ UNCHANGED doorbell
  /\ UNCHANGED <<host, watchdog, registered, refused, signalled, lines, guest,
                 raised, handled>>

\* The eventfd write of the irqfd transports, or the first ioctl of the pulse.
WorkerRaises ==
  /\ worker = "woken"
  /\ raised' = raised \cup {"worker"}
  /\ IF delivery = "direct"
     THEN SetGsiLevel("userspace", TRUE) /\ UNCHANGED signalled
     ELSE signalled' = TRUE /\ UNCHANGED lines
  /\ worker' = (IF delivery = "irqfd" THEN "done" ELSE "raised")
  /\ UNCHANGED <<host, watchdog, registered, refused, doorbell, guest, handled, failed>>

\* The second ioctl of the pulse, or the bridge's completion message.
WorkerFinishes ==
  /\ worker = "raised"
  /\ worker' = "done"
  /\ IF delivery = "direct" THEN SetGsiLevel("userspace", FALSE) ELSE UNCHANGED lines
  /\ UNCHANGED <<host, watchdog, kernel, guest, past>>

WorkerFails ==
  /\ worker = "woken" \/ (worker = "raised" /\ delivery = "direct")
  /\ Fails("worker")
  /\ worker' = "failed"
  /\ UNCHANGED <<host, watchdog, kernel, lines, guest, raised, handled>>

(* The watchdog: cancelled, or out of patience and pulsing the GSI itself.  *)

WatchdogCancelled ==
  /\ watchdog = "waiting"
  /\ main \in {"join_worker", "join_watchdog"}
  /\ watchdog' = "cancelled"
  /\ UNCHANGED <<host, worker, kernel, lines, guest, past>>

\* Wrong on purpose: a timeout only makes the watchdog wait again.
WatchdogWaitsAgain ==
  /\ watchdog = "waiting"
  /\ main \notin {"join_worker", "join_watchdog"}
  /\ UNCHANGED handoffVars

WatchdogExpires ==
  /\ watchdog = "waiting"
  /\ main \notin {"join_worker", "join_watchdog"}
  /\ watchdog' = "expired"
  /\ UNCHANGED <<host, worker, kernel, lines, guest, past>>

WatchdogRaises ==
  /\ watchdog = "expired"
  /\ SetGsiLevel("userspace", TRUE)
  /\ watchdog' = "raised"
  /\ raised' = raised \cup {"watchdog"}
  /\ UNCHANGED <<host, worker, kernel, guest, handled, failed>>

WatchdogFinishes ==
  /\ watchdog = "raised"
  /\ SetGsiLevel("userspace", FALSE)
  /\ watchdog' = "fired"
  /\ UNCHANGED <<host, worker, kernel, guest, past>>

WatchdogFails ==
  /\ watchdog \in {"expired", "raised"}
  /\ Fails("watchdog")
  /\ watchdog' = "failed"
  /\ UNCHANGED <<host, worker, kernel, lines, guest, raised, handled>>

\* KVM turns a signalled irqfd into one edge of the GSI, in its own time.
InjectIrqfd ==
  /\ signalled /\ "irqfd" \in registered
  /\ signalled' = FALSE
  /\ irr' = (irr \/ level = {})
  /\ UNCHANGED <<host, thread, registered, refused, doorbell, level, isr, guest, past>>

-----------------------------------------------------------------------------
(* The guest, while the main thread is in KVM_RUN.                          *)

Executes(instruction) == main = "run" /\ ~halted /\ pc = instruction

GuestDoorbell ==
  /\ Executes("doorbell") /\ "ioeventfd" \in registered
  /\ doorbell' = doorbell + 1
  /\ pc' = "A"
  /\ UNCHANGED <<host, thread, registered, refused, signalled, lines,
                 saved, if, shadow, halted, past>>

\* STI enables interrupts only after the instruction that follows it.
GuestSti ==
  /\ Executes("sti")
  /\ if' = TRUE /\ shadow' = TRUE /\ pc' = "hlt"
  /\ UNCHANGED <<host, thread, kernel, lines, saved, halted, past>>

GuestHlt ==
  /\ Executes("hlt")
  /\ halted' = TRUE /\ shadow' = FALSE /\ pc' = "W"
  /\ UNCHANGED <<host, thread, kernel, lines, saved, if, past>>

\* The in-kernel PIC's request is taken at an instruction boundary.
GuestTakesInterrupt ==
  /\ main = "run"
  /\ irr /\ ~isr /\ if /\ ~shadow
  /\ irr' = FALSE /\ isr' = TRUE
  /\ if' = FALSE /\ halted' = FALSE
  /\ saved' = pc /\ pc' = "T"
  /\ handled' = handled + 1
  /\ UNCHANGED <<host, thread, kernel, level, shadow, raised, failed>>

GuestEoi ==
  /\ Executes("eoi")
  /\ isr' = FALSE /\ pc' = "iret"
  /\ UNCHANGED <<host, thread, kernel, level, irr, saved, if, shadow, halted, past>>

GuestIret ==
  /\ Executes("iret")
  /\ if' = TRUE /\ pc' = saved /\ saved' = "none"
  /\ UNCHANGED <<host, thread, kernel, lines, shadow, halted, past>>

\* The instruction after each debug output.
AfterOut(byte) ==
  CASE byte = "A" -> "sti" [] byte = "T" -> "eoi" [] byte = "W" -> "D" [] OTHER -> "end"

\* A debug output leaves KVM_RUN; the main thread accepts only the byte it
\* expects, and any other byte ends the execution closure with an error.
RunExpectedDebugOutput(byte) ==
  /\ Executes(byte)
  /\ pc' = AfterOut(byte)
  /\ \/ /\ byte = expect
        /\ expect' = Following(byte)
        /\ main' = CASE byte = "A" -> "await" [] byte = "D" -> "cancel" [] OTHER -> "run"
        /\ execution' = IF byte = "D" THEN "ok" ELSE execution
     \/ /\ byte # expect
        /\ main' = "cancel" /\ execution' = "err"
        /\ UNCHANGED expect
  /\ UNCHANGED <<delivery, result, thread, kernel, lines, saved, if, shadow, halted, past>>

-----------------------------------------------------------------------------
Main ==
  \/ AssignIrqfd \/ AssignIrqfdFails \/ AssignIoeventfd \/ AssignIoeventfdFails
  \/ WaitForBridgeIrqfdSignal \/ CancelWatchdog \/ JoinWorker \/ JoinWatchdog
  \/ Deassign \/ Verdict

Worker   == WorkerWakes \/ WorkerRaises \/ WorkerFinishes \/ WorkerFails

Watchdog ==
  WatchdogCancelled \/ WatchdogExpires \/ WatchdogRaises \/ WatchdogFinishes \/ WatchdogFails

GuestRuns ==
  \/ GuestDoorbell \/ GuestSti \/ GuestHlt \/ GuestEoi \/ GuestIret
  \/ \E byte \in {"A", "T", "W", "D"} : RunExpectedDebugOutput(byte)

\* The function has returned; its threads are joined.
Returned ==
  /\ main = "returned"
  /\ UNCHANGED handoffVars

HandoffNext == Main \/ Worker \/ Watchdog \/ InjectIrqfd \/ GuestRuns \/ GuestTakesInterrupt \/ Returned

HandoffSpec == HandoffInit /\ [][HandoffNext]_handoffVars

\* Every host thread is scheduled, every timeout elapses, KVM injects what
\* was signalled and delivers what is pending to an interruptible vCPU.
FairSpec ==
  /\ HandoffSpec
  /\ WF_handoffVars(Main) /\ WF_handoffVars(Worker) /\ WF_handoffVars(Watchdog)
  /\ WF_handoffVars(InjectIrqfd) /\ WF_handoffVars(GuestRuns) /\ WF_handoffVars(GuestTakesInterrupt)

-----------------------------------------------------------------------------
\* A run that returns Ok proved the selected delivery on its own: the worker
\* raised the line, the watchdog never did, the handler ran exactly once and
\* no request is left in the PIC.  The watchdog may expire at any point up to
\* the cancel, also after the worker's own interrupt was taken.
SuccessIsIndependent ==
  result = "ok" => raised = {"worker"} /\ handled = 1 /\ ~irr /\ registered = {}

\* When the function returns, the only kernel registrations that remain are
\* those whose own deassign ioctl failed: no error path leaves one behind, and
\* one failed removal does not stop the other.
RegistrationsReleased ==
  main = "returned" => registered \subseteq refused

\* The run always ends, also when the worker's delivery failed: the watchdog's
\* pulse gets the vCPU out of HLT, so that cancel, joins and cleanup follow.
\* Only a watchdog whose own pulse failed can leave the vCPU halted.
AlwaysReturns == <>(main = "returned" \/ watchdog = "failed")
=============================================================================
