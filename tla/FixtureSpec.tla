----------------------------- MODULE FixtureSpec -----------------------------
(***************************************************************************)
(* The fixtures as one specification: the host threads, the vCPUs, the     *)
(* interrupt hardware and what may go wrong outside the program.           *)
(***************************************************************************)
EXTENDS FixtureCheckpoint

Next ==
  \/ \E t \in Threads : HostStep(t) \/ CheckpointStep(t) \/ CallFails(t) \/ WatchExpires(t) \/ GuardExpires(t)
  \/ \E v \in F.cpus : GuestStep(v) \/ TimerFires(v) \/ GuestMishap(v)
  \/ \E g \in Gsis : InjectIrqfd(g)

\* Threads and vCPUs are scheduled, a pending interrupt is noticed, a
\* signalled irqfd injects, and a time-out that nothing else ends expires.
Fairness ==
  /\ \A t \in Threads :
       WF_vars(HostStep(t) \/ CheckpointStep(t)) /\ WF_vars(WatchExpires(t) \/ GuardExpires(t))
  /\ WF_vars(\E g \in Gsis : InjectIrqfd(g))
  /\ \A v \in {BSP, AP} :
       WF_vars(v \in F.cpus /\ (GuestStep(v) \/ PollGivesUp(v)))

Spec == Init /\ [][Next]_vars /\ Fairness
-----------------------------------------------------------------------------
\* Properties of every fixture

\* A fixture fails only when something outside it failed: whatever the order
\* in which threads, vCPUs and interrupts proceed, no expected byte, access,
\* event, flag or memory value is ever missed (run_expected_debug_output and
\* the require_ and validate_ functions of every fixture).
NoFalseFailure == host["main"].st \in {"closing", "err"} => faults # {}

\* A fixture succeeds only when its worker did (the ?? after join), no vCPU is
\* still running guest code and no eventfd is still registered.  An error path
\* that aborts or joins the worker leaves no thread behind that still runs the
\* secondary vCPU.  From the first captured part on, an error leaves a
\* registration in the kernel only when the kernel refused its removal, or when
\* the call that failed was a doorbell poll, the I/O APIC read or the irqfd
\* signal between reconstruction and replay (the ? of
\* run_pending_completion_token_replay_guest and its like); the quiescence
\* fixture leaves none even before it captures.
ReturnsWhole ==
  /\ host["main"].st = "ok" =>
       /\ host["worker"].st \in {"idle", "ok"}
       /\ \A v \in F.cpus : ~kvm[v].in
       /\ bus.fds = <<>>
  /\ (host["main"].st = "err" /\ Here("main").els \in {"abort", "cancel", "join"}) => Returned("worker")
  /\ (host["main"].st = "err" /\ bus.fds # <<>>) =>
       \/ "stuck" \in faults
       \/ DOMAIN saved = {} /\ fx.name # "pending"
       \/ Here("main").op \in {"bells", "match", "irq"} /\ "call" \in faults

\* Every fixture returns: no channel, join, poll loop or halted vCPU is
\* waited for forever, whichever call or interrupt was lost.
MainReturns == <>Returned("main")
=============================================================================
