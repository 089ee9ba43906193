--------------------------- MODULE WatchdogTimer ---------------------------
(***************************************************************************)
(* The two host threads that a task fixture starts at its arm barrier, and *)
(* the interrupt line they share: a timer that sleeps and pulses the GSI,  *)
(* and a watchdog that pulses it when no cancel message came in time       *)
(* (task/wakeup.rs; preemption.rs, runnable_queue.rs and wait_channel.rs   *)
(* start the same two).  A pulse is two ioctls, between which the other    *)
(* thread and the guest may run.  Time is abstracted: a sleep or a timeout *)
(* may end at any moment.                                                  *)
(***************************************************************************)
CONSTANT Faults    \* the host calls that may fail

VARIABLES
    worker, watchdog,   \* the threads
    cancelled,          \* the cancel message was sent
    level, irr,         \* the GSI's level, the PIC's request bit
    raised,             \* history: threads that raised the line
    failed              \* history: the host calls that failed

timerVars == <<worker, watchdog, cancelled, level, irr, raised, failed>>

ThreadState == {"unspawned", "waiting", "expired", "raised", "done", "failed", "cancelled"}

TimerInit ==
    /\ worker = "unspawned" /\ watchdog = "unspawned" /\ cancelled = FALSE
    /\ level = FALSE /\ irr = FALSE
    /\ raised = {} /\ failed = {}

TimerTypeOK ==
    /\ worker \in ThreadState /\ watchdog \in ThreadState /\ cancelled \in BOOLEAN
    /\ level \in BOOLEAN /\ irr \in BOOLEAN
    /\ raised \subseteq {"worker", "watchdog"} /\ failed \subseteq Faults

\* set_gsi_level; the PIC latches a request on a rising edge only.
SetGsiLevel(on) ==
    /\ level' = on
    /\ irr' = (irr \/ (on /\ ~level))

Fails(call) ==
    /\ call \in Faults
    /\ failed' = failed \cup {call}

Spawn ==
    /\ worker' = "waiting" /\ watchdog' = "waiting"
    /\ UNCHANGED <<cancelled, level, irr, raised, failed>>

\* watchdog_cancel_tx.send
Cancel ==
    /\ cancelled' = TRUE
    /\ UNCHANGED <<worker, watchdog, level, irr, raised, failed>>

\* The timer thread: sleep, then pulse_gsi_edge.
TimerStep ==
    \/ /\ worker = "waiting" /\ worker' = "expired"
       /\ UNCHANGED <<watchdog, cancelled, level, irr, raised, failed>>
    \/ /\ worker = "expired" /\ worker' = "raised"
       /\ SetGsiLevel(TRUE) /\ raised' = raised \cup {"worker"}
       /\ UNCHANGED <<watchdog, cancelled, failed>>
    \/ /\ worker = "raised" /\ worker' = "done"
       /\ SetGsiLevel(FALSE)
       /\ UNCHANGED <<watchdog, cancelled, raised, failed>>
    \/ /\ worker \in {"expired", "raised"} /\ worker' = "failed"
       /\ Fails("worker")
       /\ UNCHANGED <<watchdog, cancelled, level, irr, raised>>

\* Wrong on purpose: a timeout only makes the watchdog wait again.
WatchdogStepWaitsAgain ==
    \/ /\ watchdog = "waiting" /\ cancelled /\ watchdog' = "cancelled"
       /\ UNCHANGED <<worker, cancelled, level, irr, raised, failed>>
    \/ /\ watchdog = "waiting" /\ ~cancelled
       /\ UNCHANGED timerVars

\* The watchdog thread: recv_timeout prefers a message that has arrived; after
\* a timeout it pulses the same GSI.
WatchdogStep ==
    \/ /\ watchdog = "waiting" /\ cancelled /\ watchdog' = "cancelled"
       /\ UNCHANGED <<worker, cancelled, level, irr, raised, failed>>
    \/ /\ watchdog = "waiting" /\ ~cancelled /\ watchdog' = "expired"
       /\ UNCHANGED <<worker, cancelled, level, irr, raised, failed>>
    \/ /\ watchdog = "expired" /\ watchdog' = "raised"
       /\ SetGsiLevel(TRUE) /\ raised' = raised \cup {"watchdog"}
       /\ UNCHANGED <<worker, cancelled, failed>>
    \/ /\ watchdog = "raised" /\ watchdog' = "done"
       /\ SetGsiLevel(FALSE)
       /\ UNCHANGED <<worker, cancelled, raised, failed>>
    \/ /\ watchdog \in {"expired", "raised"} /\ watchdog' = "failed"
       /\ Fails("watchdog")
       /\ UNCHANGED <<worker, cancelled, level, irr, raised>>

WorkerJoined == worker \in {"done", "failed"}
WatchdogJoined == watchdog \in {"done", "failed", "cancelled"}
=============================================================================
