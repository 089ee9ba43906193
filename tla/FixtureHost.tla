----------------------------- MODULE FixtureHost -----------------------------
(***************************************************************************)
(* The host threads of a fixture: each runs its procedure step by step,    *)
(* blocking in KVM_RUN, in a channel or in a join, and any step that calls *)
(* the host kernel may fail.  A thread that returns drops its ends of the  *)
(* channels.                                                               *)
(***************************************************************************)
EXTENDS FixtureMachine, Functions

Procedure(t) == IF t = "main" THEN F.main ELSE F.worker
Here(t)      == Procedure(t)[host[t].pc]
Doing(t, op) ==
  /\ host[t].st = "run" /\ host[t].pc <= Len(Procedure(t))
  /\ Here(t).op = op
Returned(t)  == host[t].st \in {"ok", "err"}

Proceed(h) == [h EXCEPT !.pc = @ + 1, !.st = "run"]
Next1(t)   == host' = [host EXCEPT ![t] = Proceed(@)] /\ UNCHANGED <<chan, faults>>

\* What an error in the current step does, when these kinds return at once.
Leaves(t, atOnce) ==
  /\ host' = [host EXCEPT ![t].st = IF Here(t).els \in atOnce THEN "err" ELSE "closing"]
  /\ chan' = IF Here(t).els \in {"abort", "cancel"}
             THEN [chan EXCEPT !["command"] = Append(@, Here(t).els)] ELSE chan

Fails(t) == Leaves(t, {"drop"})

Requires(t, cond) == IF cond THEN Next1(t) ELSE Fails(t) /\ UNCHANGED faults

\* deassign: every removal is tried, and the kernel may refuse some; an irqfd
\* goes only after the injection it has started.
Deassigned(left) ==
  /\ bus.irq = {}
  /\ bus' = [bus EXCEPT !.fds = Restrict(@, left), !.bell = Restrict(@, left)]
  /\ faults' = IF left = {} THEN faults ELSE faults \cup {"stuck"}

\* The join, or the deassignment, before an error is returned.
Close(t) ==
  /\ host[t].st = "closing" /\ host["worker"].st \in {"idle", "ok", "err"}
  /\ host' = [host EXCEPT ![t].st = "err"]
  /\ IF Here(t).els \in {"deassign", "verdict"}
     THEN \E left \in SUBSET DOMAIN bus.fds : Deassigned(left)
     ELSE UNCHANGED <<bus, faults>>
  /\ UNCHANGED <<fx, guest, dev, saved, whole, chan, out, served>>

Finish(t) ==
  /\ host[t].st = "run" /\ host[t].pc > Len(Procedure(t))
  /\ host' = [host EXCEPT ![t].st = "ok"]
  /\ UNCHANGED <<fx, guest, devs, chan, out, served, faults>>

\* A call into the host kernel fails.
KernelCalls == {"setup", "out", "serve", "to", "if", "mp", "runnable", "startup", "starts", "long",
                "idt", "msi", "cfgmsi", "line", "window", "inject",
                "pin", "retire", "capture", "corrupt", "differ", "restore", "match",
                "register", "bell", "bells", "refused", "irq"}
CallFails(t) ==
  /\ host[t].st = "run" /\ host[t].pc <= Len(Procedure(t)) /\ Here(t).op \in KernelCalls
  /\ faults' = faults \cup {"call"}
  /\ Leaves(t, {"drop", "verdict"})
  /\ UNCHANGED <<fx, guest, devs, out, served>>

-----------------------------------------------------------------------------
\* KVM_RUN

\* Entry completes the instruction that exited and shows pending interrupts.
Completing(v) ==
  IF kvm[v].exit = <<>> \/ kvm[v].exit[1].kind \in {"window", "hlt", "ud2", "debug"} THEN cpu[v]
  ELSE LET a == kvm[v].exit[1].access IN
       CASE a.dir \in {"read", "in"} -> [Done(cpu[v]) EXCEPT !.al = kvm[v].resp]
         [] a.dir = "out" /\ a.port = "debug" -> [Done(cpu[v]) EXCEPT !.al = a.val]
         [] OTHER -> Done(cpu[v])
Entered(v) ==
  /\ cpu' = [cpu EXCEPT ![v] = Completing(v)]
  /\ kvm' = [kvm EXCEPT ![v].in = TRUE, ![v].exit = <<>>,
                        ![v].window = \E t \in Threads : Doing(t, "window")]
  /\ apic' = [apic EXCEPT ![v].irr = @ \cup apic[v].posted, ![v].posted = {}]

\* A loop that has used up its exits does not enter again.
RunOps == {"out", "serve", "to", "window"}
Enter(t) ==
  /\ \E op \in RunOps : Doing(t, op)
  /\ IF Here(t).op = "to" /\ host[t].left = 0
     THEN Fails(t) /\ UNCHANGED <<cpu, kvm, apic>>
     ELSE Entered(Here(t).v) /\ host' = [host EXCEPT ![t].st = "kvm"] /\ UNCHANGED chan
  /\ UNCHANGED <<fx, pic, timer, mem, pte, devs, out, served, faults>>

\* run_once returned: the step looks at the exit.
Back(t, op) ==
  /\ host[t].st = "kvm" /\ Here(t).op = op
  /\ ~kvm[Here(t).v].in
Exit(t) == kvm[Here(t).v].exit[1]

\* run_expected_debug_output: the exit must be this byte on the debug port.
ExpectOutput(t) ==
  /\ Back(t, "out")
  /\ LET v == Here(t).v  e == Exit(t) IN
     IF e.kind = "io" /\ e.access.val = Here(t).x
     THEN Next1(t) /\ out' = [out EXCEPT ![v] = Append(@, e.access.val)]
     ELSE Fails(t) /\ UNCHANGED <<out, faults>>
  /\ UNCHANGED <<fx, guest, devs, served>>

\* MmioBus and PciConfigMechanism1: the device an access goes to.  A virtio
\* notification is queued for the host.
BusAccepts(d, a)  == IF IsVirtio(d) THEN VirtioAccepts(d, a) ELSE Accepts(d, a)
BusAccess(d, a)   == IF IsVirtio(d) THEN VirtioAccess(d, a) ELSE Access(d, a)
BusResponse(d, a) == IF IsVirtio(d) THEN VirtioResponse(d, a) ELSE Response(d, a)
Dispatched(v, e) ==
  \/ /\ e.kind = "mmio"
     /\ dev' = [dev EXCEPT ![e.dev] = BusAccess(@, e.access)]
     /\ bus' = [bus EXCEPT !.events = IF IsVirtio(dev[e.dev]) /\ e.access.off = "notify" THEN Append(@, e.dev) ELSE @]
     /\ UNCHANGED <<saved, whole>>
     /\ kvm' = [kvm EXCEPT ![v].resp =
                  IF e.access.dir = "read" THEN BusResponse(dev[e.dev], e.access) ELSE @]
  \/ /\ e.kind = "io" /\ e.access.port # "debug"
     /\ bus' = [bus EXCEPT !.pci = PciAccess(@, e.access)]
     /\ kvm' = [kvm EXCEPT ![v].resp =
                  IF e.access.dir = "in" THEN PciResponse(bus.pci, e.access) ELSE @]
     /\ UNCHANGED <<dev, saved, whole>>
  \/ /\ e.kind # "mmio" /\ (e.kind = "io" => e.access.port = "debug")
     /\ UNCHANGED <<kvm, devs>>

\* expect_mmio, the validation of the access, the dispatch and, for a read,
\* the response the guest will load.
ExpectAccess(t) ==
  /\ Back(t, "serve")
  /\ LET v == Here(t).v  e == Exit(t)  d == Here(t).x[1]  a == Here(t).x[2]
         good == /\ e.kind = "mmio"
                 /\ e.dev = d /\ e.access.off = a.off /\ e.access.dir = a.dir
                 /\ a.dir = "write" => e.access.val = a.val
                 /\ BusAccepts(dev[d], e.access)
                 /\ a.dir = "read" => BusResponse(dev[d], e.access) = a.val
     IN IF good THEN Next1(t) /\ Dispatched(v, e)
        ELSE Fails(t) /\ UNCHANGED <<devs, kvm, faults>>
  /\ UNCHANGED <<fx, cpu, apic, pic, timer, mem, pte, out, served>>

\* One round of an exit loop, run_vcpu_until_stopped or a fixture's own:
\* serve the exit, record it, stop at the awaited output or HLT; an output
\* that must not come yet, a stop or a refused access is an error.
ServeExits(t) ==
  /\ Back(t, "to")
  /\ LET v == Here(t).v  e == Exit(t)  stop == Here(t).x[1]  others == Here(t).x[2]
         debug == e.kind = "io" /\ e.access.port = "debug"
         event == IF debug THEN e.access.val ELSE e.kind
         good  == CASE debug           -> event \notin others
                    [] e.kind = "io"   -> PciAccepts(bus.pci, e.access)
                    [] e.kind = "mmio" -> BusAccepts(dev[e.dev], e.access)
                    [] OTHER           -> event = stop
         seen(h) == [h EXCEPT !.left = @ - 1,
                              !.io   = IF e.kind = "io" THEN Append(@, e.access) ELSE @,
                              !.mmio = IF e.kind = "mmio" THEN Append(@, <<e.dev, e.access>>) ELSE @]
     IN IF ~good THEN Fails(t) /\ UNCHANGED <<kvm, devs, out, faults>>
        ELSE /\ host' = [host EXCEPT ![t] = IF event = stop THEN Proceed(seen(@))
                                            ELSE [seen(@) EXCEPT !.st = "run"]]
             /\ out' = [out EXCEPT ![v] = IF debug THEN Append(@, event) ELSE @]
             /\ Dispatched(v, e)
             /\ UNCHANGED <<chan, faults>>
  /\ UNCHANGED <<fx, cpu, apic, pic, timer, mem, pte, served>>

\* wait_for_interrupt_window: the request is taken back whatever the exit.
ExpectWindow(t) ==
  /\ Back(t, "window")
  /\ kvm' = [kvm EXCEPT ![Here(t).v].window = FALSE]
  /\ Requires(t, Exit(t).kind = "window")
  /\ UNCHANGED <<fx, cpu, apic, pic, timer, mem, pte, devs, out, served>>

-----------------------------------------------------------------------------
\* Checks and calls that do not run the guest

\* take_device_event_record: a byte device's event comes before every queued
\* virtio event, the first device's before the second's.
NextEvent ==
  LET waiting == {d \in DOMAIN dev : ~IsVirtio(dev[d]) /\ Event(dev[d]) # "none"} IN
  IF waiting # {}
  THEN LET d == CHOOSE d \in waiting : \A o \in waiting : d <= o IN <<d, Event(dev[d])>>
  ELSE IF bus.events # <<>> THEN <<Head(bus.events), "notified">> ELSE <<0, "none">>

Check(t) ==
  /\ \/ Doing(t, "setup")    /\ Next1(t)
     \/ Doing(t, "if")       /\ Requires(t, cpu[Here(t).v].if = Here(t).x)
     \/ Doing(t, "mp")       /\ Requires(t, cpu[Here(t).v].mp = Here(t).x)
     \/ /\ Doing(t, "starts")
        /\ LET c == cpu[Here(t).v] IN Requires(t, c.blk = Here(t).x /\ c.pc = 1 /\ ~c.long)
     \/ Doing(t, "long")     /\ Requires(t, cpu[Here(t).v].long)
     \/ Doing(t, "idt")      /\ Requires(t, cpu[Here(t).v].idt)
     \/ Doing(t, "wrote")    /\ Requires(t, dev[Here(t).x[1]].writes = Here(t).x[2])
     \/ Doing(t, "accesses") /\ Requires(t, host[t].mmio = Here(t).x)
     \/ Doing(t, "accesscount") /\ Requires(t, Len(host[t].mmio) = Here(t).x)
     \/ Doing(t, "outputcount") /\ Requires(t, Len(out[Here(t).v]) = Here(t).x)
     \/ Doing(t, "proof")    /\ Requires(t, out[Here(t).v] = Here(t).x)
     \/ Doing(t, "noevent")  /\ Requires(t, NextEvent[2] = "none")
     \/ Doing(t, "spent")    /\ Requires(t, host[t].left = 0)
     \/ Doing(t, "ports")    /\ Requires(t, host[t].io = Here(t).x)
     \/ Doing(t, "completed") /\ Requires(t, host[t].done = Here(t).x)
     \/ /\ Doing(t, "deviceis")
        /\ LET d == dev[Here(t).x[1]]  r == Here(t).x[2] IN
           Requires(t, \A f \in DOMAIN r : d[f] = r[f])
     \/ /\ Doing(t, "backing")
        /\ LET x == Here(t).x IN
           Requires(t, SubSeq(dev[x[1]].disk, x[2] + 1, x[2] + Len(x[3])) = x[3])
     \/ Doing(t, "unwatched") /\ Requires(t, ~host[t].fired)
     \/ /\ Doing(t, "memory")
        /\ Requires(t, \A l \in DOMAIN Here(t).x :
              Here(t).x[l] = IF l = "pte" THEN <<pte.page, pte.accessed>> ELSE mem[l])
  /\ UNCHANGED <<fx, guest, devs, out, served>>

\* ensure_runnable_mp_state: a vCPU in any other state is made runnable.
SetRunnable(t) ==
  /\ Doing(t, "runnable") /\ Next1(t)
  /\ cpu' = [cpu EXCEPT ![Here(t).v].mp = "runnable"]
  /\ UNCHANGED <<fx, kvm, apic, pic, timer, mem, pte, devs, out, served>>

\* accept_init_sipi_startup_handoff: the first KVM_RUN of an uninitialized
\* vCPU consumes INIT and SIPI and returns EAGAIN with the vCPU runnable.
AcceptStartup(t) ==
  LET v == Here(t).v IN
  /\ Doing(t, "startup") /\ apic[v].wake \notin {"none", "init"}
  /\ Requires(t, cpu[v].mp = "uninit")
  /\ cpu' = [cpu EXCEPT ![v].mp = "runnable", ![v].blk = apic[v].wake, ![v].pc = 1]
  /\ apic' = [apic EXCEPT ![v].wake = "none"]
  /\ UNCHANGED <<fx, kvm, pic, timer, mem, pte, devs, out, served>>

\* signal_msi and inject_interrupt: neither may be lost or coalesced.  A
\* device sends the message its driver programmed.
SendMsi(t) ==
  /\ \E op \in {"msi", "inject", "cfgmsi"} : Doing(t, op)
  /\ LET a == apic[Here(t).v] IN
     Requires(t, /\ a.on /\ \A r \in a.irr \cup a.posted : r.vec # Here(t).x
                 /\ Here(t).op = "cfgmsi" => MsiMessage(bus.pci) = <<"0xfee00000", Here(t).x>>)
  /\ apic' = Post(apic, Here(t).v, Here(t).x, "host")
  /\ UNCHANGED <<fx, cpu, kvm, pic, timer, mem, pte, devs, out, served>>

\* The next event must be this one; whatever was taken is consumed.
TakeEvent(t) ==
  /\ Doing(t, "take")
  /\ Requires(t, NextEvent = Here(t).x)
  /\ IF NextEvent[2] = "notified"
     THEN bus' = [bus EXCEPT !.events = Tail(@)] /\ UNCHANGED dev
     ELSE dev' = [dev EXCEPT ![Here(t).x[1]] = Taken(@)] /\ UNCHANGED bus
  /\ UNCHANGED <<fx, guest, saved, whole, out, served>>

\* process_virtio_rng_notification, process_virtio_blk_notification(_atomic).
ProcessNotification(t) ==
  /\ Doing(t, "process")
  /\ LET d == Here(t).x[1]  r == ProcessQueue(dev[d], mem, Here(t).x[2]) IN
     IF r.ok
     THEN /\ host' = [host EXCEPT ![t] = [Proceed(@) EXCEPT !.done = Append(@, r.done)]]
          /\ dev' = [dev EXCEPT ![d] = r.dev] /\ mem' = r.mem /\ UNCHANGED chan
     ELSE Fails(t) /\ UNCHANGED <<dev, mem>>
  /\ UNCHANGED <<fx, cpu, kvm, apic, pic, timer, pte, bus, saved, whole, out, served, faults>>

\* A loop starts with its number of exits.
SetBudget(t) ==
  /\ Doing(t, "budget")
  /\ host' = [host EXCEPT ![t] = [Proceed(@) EXCEPT !.left = Here(t).x]]
  /\ UNCHANGED <<fx, guest, devs, chan, out, served, faults>>

\* set_gsi_level
DriveLine(t) ==
  LET g == Here(t).x[1]  b == Here(t).x[2]  rises == b /\ ~pic.line[g] IN
  /\ Doing(t, "line") /\ Next1(t)
  /\ pic' = [IF rises THEN Latched(pic, g) ELSE pic EXCEPT !.line[g] = b]
  /\ apic' = IF rises THEN Routed(apic, g) ELSE apic
  /\ UNCHANGED <<fx, cpu, kvm, timer, mem, pte, devs, out, served>>

-----------------------------------------------------------------------------
\* Threads and channels

SpawnWorker(t) ==
  /\ Doing(t, "spawn")
  /\ host' = [host EXCEPT ![t] = Proceed(@), !["worker"].st = "run"]
  /\ UNCHANGED <<fx, guest, devs, chan, out, served, faults>>

Peer(t) == IF t = "main" THEN "worker" ELSE "main"
SendMessage(t) ==
  LET c == Here(t).x[1] IN
  /\ Doing(t, "send")
  /\ IF Returned(Peer(t)) /\ Here(t).els # "ignore" THEN Fails(t)
     ELSE /\ host' = [host EXCEPT ![t] = Proceed(@)]
          /\ chan' = IF Returned(Peer(t)) THEN chan ELSE [chan EXCEPT ![c] = Append(@, Here(t).x[2])]
  /\ UNCHANGED <<fx, guest, devs, out, served, faults>>

\* recv: a message, or an error once the sender is gone.
ReceiveMessage(t) ==
  LET c == Here(t).x IN
  /\ Doing(t, "recv") \/ Doing(t, "go")
  /\ \/ /\ chan[c] # <<>> /\ Head(chan[c]) # "abort"
        /\ host' = [host EXCEPT ![t] = Proceed(@)]
        /\ chan' = [chan EXCEPT ![c] = Tail(@)]
     \/ /\ \/ chan[c] # <<>> /\ Head(chan[c]) = "abort"
           \/ chan[c] = <<>> /\ Returned(Peer(t))
        /\ Fails(t)
  /\ UNCHANGED <<fx, guest, devs, out, served, faults>>

\* Wrong on purpose: only a panic of the worker is an error.
JoinIgnoresError(t) ==
  /\ Doing(t, "join") /\ Returned("worker")
  /\ Next1(t)
  /\ UNCHANGED <<fx, guest, devs, out, served>>

JoinWorker(t) ==
  /\ Doing(t, "join") /\ Returned("worker")
  /\ Requires(t, host["worker"].st = "ok")
  /\ UNCHANGED <<fx, guest, devs, out, served>>

\* recv_timeout of the completion: done, or the sender is gone.
WatchEnds(t) ==
  /\ Doing(t, "watch")
  /\ chan[Here(t).x[1]] # <<>> \/ Returned("worker")
  /\ Next1(t)
  /\ UNCHANGED <<fx, guest, devs, out, served>>

\* Wrong on purpose: the watchdog expires without requesting the vector.
WatchExpiresQuietly(t) ==
  /\ Doing(t, "watch") /\ chan[Here(t).x[1]] = <<>> /\ ~Returned("worker")
  /\ faults' = faults \cup {"late"}
  /\ host' = [host EXCEPT ![t] = [Proceed(@) EXCEPT !.fired = TRUE]]
  /\ UNCHANGED <<fx, guest, devs, chan, out, served>>

\* The five seconds are over first: the watchdog requests the vector itself.
WatchExpires(t) ==
  /\ Doing(t, "watch") /\ chan[Here(t).x[1]] = <<>> /\ ~Returned("worker")
  /\ faults' = faults \cup {"late"}
  /\ \/ /\ host' = [host EXCEPT ![t] = [Proceed(@) EXCEPT !.fired = TRUE]]
        /\ apic' = Post(apic, AP, Here(t).x[2], "watchdog")
        /\ UNCHANGED chan
     \/ Fails(t) /\ UNCHANGED apic
  /\ UNCHANGED <<fx, cpu, kvm, pic, timer, mem, pte, devs, out, served>>

HostStep(t) ==
  \/ Close(t) \/ Finish(t) \/ Enter(t)
  \/ ExpectOutput(t) \/ ExpectAccess(t) \/ ServeExits(t) \/ ExpectWindow(t)
  \/ Check(t) \/ SetRunnable(t) \/ AcceptStartup(t) \/ SendMsi(t) \/ TakeEvent(t) \/ DriveLine(t)
  \/ SetBudget(t) \/ ProcessNotification(t)
  \/ SpawnWorker(t) \/ SendMessage(t) \/ ReceiveMessage(t) \/ JoinWorker(t) \/ WatchEnds(t)
=============================================================================
