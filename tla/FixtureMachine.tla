--------------------------- MODULE FixtureMachine ---------------------------
(***************************************************************************)
(* The machine the fixtures run on: virtual CPUs with their local APICs,   *)
(* the legacy PIC, one debug port per vCPU, byte-wide MMIO devices, guest  *)
(* memory, and the host threads that enter KVM_RUN and check what comes    *)
(* out.  Guest instructions of a vCPU interleave with everything else      *)
(* while some thread is inside KVM_RUN for it.                             *)
(*                                                                         *)
(* An I/O or MMIO instruction exits before it completes: its effect on the *)
(* guest (the next instruction, the loaded value) happens when KVM_RUN is  *)
(* entered again.  An interrupt pending at entry is taken before the next  *)
(* instruction that may be interrupted; one that arrives while the vCPU is *)
(* inside KVM_RUN is noticed after a delay (Notice).                       *)
(***************************************************************************)
EXTENDS FixtureLanguage, ByteDevice, VirtioDevice, FiniteSets, TLC

CONSTANT Fixtures      \* name -> fixture

VARIABLES
  fx,        \* the fixture that runs, which no step changes
  cpu,       \* registers of each vCPU
  kvm,       \* for each vCPU: inside KVM_RUN, its pending exit, window request
  apic,      \* local APICs: visible and unnoticed requests, in service, INIT/SIPI
  pic,       \* legacy PICs and I/O APIC: lines, edges latched, in service,
             \* unmasked, and where the I/O APIC sends each of its pins
  timer,     \* the local APIC timer of each vCPU
  mem, pte,  \* guest memory; the page-table entry the TLB fixture rewrites
  dev,       \* MMIO devices
  bus,       \* queued virtio events, PCI configuration space, and the
             \* eventfds of accelerated devices: routes, doorbells, signals
  saved,     \* the checkpoint: each owned part of the machine, as captured
  whole,     \* history: the whole machine when the checkpoint was captured
  host,      \* host threads
  chan,      \* mpsc channels between them
  out,       \* bytes each debug port received
  served,    \* history: for each vCPU, who requested the interrupts it took
  faults     \* history: what went wrong outside the program

guest == <<kvm, cpu, apic, pic, timer, mem, pte>>
devs  == <<dev, bus, saved, whole>>
vars  == <<fx, host, guest, devs, chan, out, served, faults>>

F       == fx
Threads == {"main", "worker"}
PicVector(g) == CASE g = 0 -> "0x40" [] g = 1 -> "0x41" [] g = 8 -> "0x48"
Gsis    == {0, 1, 8, 16, 17}     \* 8 is the slave's first line, cascaded on 2
Pins    == {8, 16, 17}           \* I/O APIC pins the fixtures use

Init ==
  /\ \E name \in DOMAIN Fixtures : fx = [Fixtures[name] EXCEPT !.name = name]
  /\ cpu = [v \in F.cpus |->
              [blk |-> F.entry[v], pc |-> 1, frames |-> <<>>, if |-> FALSE, shadow |-> FALSE,
               mp |-> F.mp[v], al |-> Zero, long |-> v \in F.booted,
               idt |-> v \in F.booted, tlb |-> "none"]]
  /\ kvm = [v \in F.cpus |-> [in |-> FALSE, exit |-> <<>>, resp |-> "", window |-> FALSE]]
  /\ apic = [v \in F.cpus |->
              [on |-> v \in F.extint, lint |-> TRUE, irr |-> {}, posted |-> {}, isr |-> {}, wake |-> "none"]]
  /\ pic = [line |-> [g \in Gsis |-> FALSE], irr |-> {}, isr |-> {}, unmasked |-> {},
            redir |-> [g \in Pins |-> Masked]]
  /\ timer = [v \in F.cpus |-> "off"]
  /\ mem = F.mem
  /\ pte = [page |-> "A", accessed |-> FALSE]
  /\ dev = F.dev
  /\ bus = [events |-> <<>>, pci |-> F.pci, fds |-> <<>>, bell |-> <<>>, irq |-> {}]
  /\ saved = <<>> /\ whole = <<>>
  /\ host = [t \in Threads |->
              [pc |-> 1, st |-> IF t = "main" THEN "run" ELSE "idle", left |-> 0, fired |-> FALSE,
               mmio |-> <<>>, io |-> <<>>, done |-> <<>>]]
  /\ chan = [c \in {"ready", "command", "done"} |-> <<>>]
  /\ out = [v \in F.cpus |-> <<>>]
  /\ served = [v \in F.cpus |-> <<>>]
  /\ faults = {}

-----------------------------------------------------------------------------
\* Interrupts

\* A request for a vector at v's local APIC; a disabled one drops it.
Post(a, v, vec, from) ==
  IF ~a[v].on THEN a
  ELSE IF kvm[v].in
  THEN [a EXCEPT ![v].posted = @ \cup {[vec |-> vec, from |-> from]}]
  ELSE [a EXCEPT ![v].irr = @ \cup {[vec |-> vec, from |-> from]}]

Notice(v) ==
  /\ kvm[v].in /\ apic[v].posted # {}
  /\ apic' = [apic EXCEPT ![v].irr = @ \cup apic[v].posted, ![v].posted = {}]
  /\ UNCHANGED <<fx, cpu, kvm, pic, timer, mem, pte, devs, host, chan, out, served, faults>>

\* A rising line latches an edge in the PIC and, where the I/O APIC's pin is
\* not masked, sends the pin's message.
Latched(p, g) == [p EXCEPT !.irr = IF g \in Pins \ {8} THEN @ ELSE @ \cup {g}]
Routed(a, g) ==
  IF g \in Pins /\ ~pic.redir[g].masked
  THEN Post(a, pic.redir[g].dest, pic.redir[g].vec, "ioapic") ELSE a

\* The PIC requests its first line that no line in service holds back.
Rank(g)    == IF g = 8 THEN 2 ELSE g
PicPending == {g \in pic.irr \cap pic.unmasked : g = 8 => 2 \in pic.unmasked}
PicRequests ==
  {g \in PicPending :
     /\ \A h \in PicPending : Rank(g) <= Rank(h)
     /\ \A h \in pic.isr : Rank(g) < Rank(h)}
ApicRequests(v) == {r \in apic[v].irr : r.vec \notin apic[v].isr}

TakesInterrupt(v, c) ==
  /\ c.if /\ ~c.shadow
  /\ (ApicRequests(v) # {}) \/ (v = BSP /\ apic[v].lint /\ PicRequests # {})
Interruptible(v) == TakesInterrupt(v, cpu[v])

\* Entering a handler: the frame holds where to return and the flags.
Vectored(c, vec) ==
  [c EXCEPT !.frames = Append(@, [blk |-> c.blk, pc |-> c.pc, if |-> c.if]),
            !.blk = F.gates[vec], !.pc = 1, !.if = FALSE, !.mp = "runnable"]

TakeApicInterrupt(v) ==
  /\ kvm[v].in /\ Interruptible(v)
  /\ \E r \in ApicRequests(v) :
       LET same == {q \in apic[v].irr : q.vec = r.vec} IN
       /\ cpu' = [cpu EXCEPT ![v] = Vectored(@, r.vec)]
       /\ apic' = [apic EXCEPT ![v].irr = @ \ same,
                               ![v].isr = IF F.irqchip THEN @ \cup {r.vec} ELSE @]
       /\ served' = [served EXCEPT ![v] = Append(@, {q.from : q \in same})]
  /\ UNCHANGED <<fx, kvm, pic, timer, mem, pte, devs, host, chan, out, faults>>

TakePicInterrupt(v) ==
  /\ v = BSP /\ kvm[v].in /\ apic[v].lint /\ Interruptible(v)
  /\ \E g \in PicRequests :
       /\ cpu' = [cpu EXCEPT ![v] = Vectored(@, PicVector(g))]
       /\ pic' = [pic EXCEPT !.irr = @ \ {g}, !.isr = @ \cup {g, Rank(g)}]
       /\ served' = [served EXCEPT ![v] = Append(@, {PicVector(g)})]
  /\ UNCHANGED <<fx, kvm, apic, timer, mem, pte, devs, host, chan, out, faults>>

TimerFires(v) ==
  /\ timer[v] # "off"
  /\ timer' = [timer EXCEPT ![v] = "off"]
  /\ apic' = Post(apic, v, timer[v], "timer")
  /\ UNCHANGED <<fx, cpu, kvm, pic, mem, pte, devs, host, chan, out, served, faults>>

\* The fault the watchdog is there for: the local timer never interrupts.
TimerLost(v) ==
  /\ timer[v] # "off"
  /\ timer' = [timer EXCEPT ![v] = "off"]
  /\ faults' = faults \cup {"timer"}
  /\ UNCHANGED <<fx, cpu, kvm, apic, pic, mem, pte, devs, host, chan, out, served>>

-----------------------------------------------------------------------------
\* Guest instructions

Code(v) == F.code[cpu[v].blk][cpu[v].pc]
At(v, op) ==
  /\ kvm[v].in /\ cpu[v].mp = "runnable"
  /\ ~Interruptible(v)
  /\ ~(kvm[v].window /\ cpu[v].if /\ ~cpu[v].shadow)
  /\ Code(v).op = op

Done(c)     == [c EXCEPT !.pc = @ + 1, !.shadow = FALSE]
Jump(c, to) == [c EXCEPT !.blk = to, !.pc = 1, !.shadow = FALSE]
Step1(v)    == cpu' = [cpu EXCEPT ![v] = Done(@)]
Exits(v, e) == kvm' = [kvm EXCEPT ![v].in = FALSE, ![v].exit = <<e>>]

\* Instructions that only touch the vCPU's own registers.
ExecRegister(v) ==
  /\ \E op \in {"nop", "sti", "cli", "double", "jne", "long", "lidt", "invlpg", "iretq"} :
       /\ At(v, op)
       /\ cpu' = [cpu EXCEPT ![v] =
            LET i == Code(v)  frame == @.frames[Len(@.frames)] IN
            CASE op = "nop"    -> Done(@)
              [] op = "sti"    -> [Done(@) EXCEPT !.if = TRUE, !.shadow = ~cpu[v].if]
              [] op = "cli"    -> [Done(@) EXCEPT !.if = FALSE]
              [] op = "double" -> [Done(@) EXCEPT !.al = (2 * @) % 256]
              [] op = "jne"    -> IF @.al = i.x THEN Done(@) ELSE Jump(@, i.to)
              [] op = "long"   -> [Done(@) EXCEPT !.long = TRUE]
              [] op = "lidt"   -> [Done(@) EXCEPT !.idt = TRUE]
              [] op = "invlpg" -> [Done(@) EXCEPT !.tlb = "none"]
              [] op = "iretq"  -> [@ EXCEPT !.blk = frame.blk, !.pc = frame.pc, !.if = frame.if,
                                            !.frames = SubSeq(@, 1, Len(@) - 1)]]
  /\ UNCHANGED <<fx, kvm, apic, pic, timer, mem, pte, devs, host, chan, out, served, faults>>

ExecMemory(v) ==
  LET i == Code(v) IN
  /\ \/ /\ At(v, "store") /\ Step1(v)
        /\ mem' = [mem EXCEPT ![i.x] = i.y]
     \/ /\ At(v, "storeal") /\ Step1(v)
        /\ mem' = [mem EXCEPT ![i.x] = cpu[v].al]
     \/ /\ At(v, "load") /\ UNCHANGED mem
        /\ cpu' = [cpu EXCEPT ![v] = [Done(@) EXCEPT !.al = mem[i.x]]]
     \/ /\ At(v, "loadidx") /\ UNCHANGED mem
        /\ cpu' = [cpu EXCEPT ![v] = [Done(@) EXCEPT !.al = mem[i.x].idx]]
     \/ /\ At(v, "loadused") /\ UNCHANGED mem
        /\ cpu' = [cpu EXCEPT ![v] = [Done(@) EXCEPT !.al = mem[i.x].ring[i.y]]]
     \/ /\ At(v, "xchg")
        /\ mem' = [mem EXCEPT ![i.x] = i.y]
        /\ cpu' = [cpu EXCEPT ![v] = [Done(@) EXCEPT !.al = mem[i.x]]]
     \/ /\ At(v, "poll") /\ mem[i.x] = i.y /\ Step1(v) /\ UNCHANGED mem
  /\ UNCHANGED <<fx, kvm, apic, pic, timer, pte, devs, host, chan, out, served, faults>>

\* A poll loop runs out of its 2^27 iterations.
PollGivesUp(v) ==
  /\ At(v, "poll") /\ mem[Code(v).x] # Code(v).y
  /\ cpu' = [cpu EXCEPT ![v] = Jump(@, Code(v).to)]
  /\ faults' = faults \cup {"spin"}
  /\ UNCHANGED <<fx, kvm, apic, pic, timer, mem, pte, devs, host, chan, out, served>>

\* A load through the mapping that is rewritten: a cached translation is
\* used as it stands, a walk reads the entry and marks it accessed.
ExecPaging(v) ==
  LET i == Code(v)  c == cpu[v] IN
  /\ \/ /\ At(v, "pte") /\ Step1(v)
        /\ pte' = [page |-> i.x, accessed |-> FALSE]
     \/ /\ At(v, "va") /\ c.tlb # "none" /\ UNCHANGED pte
        /\ cpu' = [cpu EXCEPT ![v] = [Done(@) EXCEPT !.al = c.tlb]]
     \/ /\ At(v, "va") /\ c.tlb = "none"
        /\ pte' = [pte EXCEPT !.accessed = TRUE]
        /\ cpu' = [cpu EXCEPT ![v] = [Done(@) EXCEPT !.al = pte.page, !.tlb = pte.page]]
  /\ UNCHANGED <<fx, kvm, apic, pic, timer, mem, devs, host, chan, out, served, faults>>

\* A processor may drop a translation at any time.
TlbEvicts(v) ==
  /\ cpu[v].tlb # "none"
  /\ cpu' = [cpu EXCEPT ![v].tlb = "none"]
  /\ UNCHANGED <<fx, kvm, apic, pic, timer, mem, pte, devs, host, chan, out, served, faults>>

ExecApic(v) ==
  LET i == Code(v) IN
  /\ \/ /\ At(v, "spiv") /\ apic' = [apic EXCEPT ![v].on = TRUE] /\ UNCHANGED <<timer, pic>>
     \/ /\ At(v, "eoi") /\ apic' = [apic EXCEPT ![v].isr = {}] /\ UNCHANGED <<timer, pic>>
     \/ /\ At(v, "arm") /\ timer' = [timer EXCEPT ![v] = i.x] /\ UNCHANGED <<apic, pic>>
     \/ /\ At(v, "icr") /\ UNCHANGED <<timer, pic>>
        /\ \/ i.x = "init" /\ apic' = [apic EXCEPT ![AP].wake = "init"]
           \/ /\ i.x = "sipi"
              /\ apic' = [apic EXCEPT ![AP].wake = IF @ = "init" THEN i.to ELSE @]
           \/ i.x = "fixed" /\ apic' = Post(apic, i.y, i.to, "ipi")
     \/ /\ At(v, "pic") /\ UNCHANGED <<timer, apic>>
        /\ pic' = [pic EXCEPT !.irr = {}, !.isr = {}, !.unmasked = i.x]
     \/ /\ At(v, "piceoi") /\ UNCHANGED <<timer, apic>>
        /\ pic' = [pic EXCEPT !.isr = {g \in @ : g = 8 \/ \E h \in @ : h < g}]
     \/ /\ At(v, "slaveeoi") /\ UNCHANGED <<timer, apic>>
        /\ pic' = [pic EXCEPT !.isr = @ \ {8}]
  /\ Step1(v)
  /\ UNCHANGED <<fx, kvm, mem, pte, devs, host, chan, out, served, faults>>

\* A notification of an accelerated device signals its ioeventfd and does
\* not leave KVM_RUN.
Rings(v) == Code(v).x \in DOMAIN bus.fds /\ Code(v).y.off = "notify"
ExecDoorbell(v) ==
  /\ At(v, "mmio") /\ Rings(v)
  /\ Step1(v)
  /\ bus' = [bus EXCEPT !.bell[Code(v).x] = @ + 1]
  /\ UNCHANGED <<fx, kvm, apic, pic, timer, mem, pte, dev, saved, whole, host, chan, out, served, faults>>

\* The kernel turns the signal of an irqfd into a pulse on its GSI.
InjectIrqfd(g) ==
  /\ g \in bus.irq
  /\ bus' = [bus EXCEPT !.irq = @ \ {g}]
  /\ pic' = Latched(pic, g) /\ apic' = Routed(apic, g)
  /\ UNCHANGED <<fx, cpu, kvm, timer, mem, pte, dev, saved, whole, host, chan, out, served, faults>>

\* Leaving KVM_RUN; the next entry completes an I/O or MMIO instruction,
\* while HLT is complete when it exits.  UD2 without a handler ends in a
\* triple fault.
ExecExit(v) ==
  /\ \/ /\ \/ At(v, "out")   /\ Exits(v, [kind |-> "io", access |-> Debug(Code(v).x)])
           \/ At(v, "outal") /\ Exits(v, [kind |-> "io", access |-> Debug(cpu[v].al)])
           \/ At(v, "port")  /\ Exits(v, [kind |-> "io", access |-> Code(v).x])
           \/ At(v, "mmio")  /\ ~Rings(v) /\ Exits(v, [kind |-> "mmio", dev |-> Code(v).x, access |-> Code(v).y])
           \/ /\ kvm[v].in /\ kvm[v].window /\ cpu[v].if /\ ~cpu[v].shadow
              /\ Exits(v, [kind |-> "window"])
        /\ UNCHANGED cpu
     \/ /\ \E op \in {"hlt", "ud2"} :
             At(v, op) /\ (op = "hlt" => ~F.irqchip) /\ Exits(v, [kind |-> op])
        /\ Step1(v)
  /\ UNCHANGED <<fx, apic, pic, timer, mem, pte, devs, host, chan, out, served, faults>>

\* With an in-kernel local APIC a halted vCPU stays inside KVM_RUN.
ExecHalt(v) ==
  /\ At(v, "hlt") /\ F.irqchip
  /\ cpu' = [cpu EXCEPT ![v] = [Done(@) EXCEPT !.mp = "halted"]]
  /\ UNCHANGED <<fx, kvm, apic, pic, timer, mem, pte, devs, host, chan, out, served, faults>>

GuestStep(v) ==
  \/ Notice(v) \/ TakeApicInterrupt(v) \/ TakePicInterrupt(v)
  \/ ExecRegister(v) \/ ExecMemory(v) \/ ExecPaging(v)
  \/ ExecApic(v) \/ ExecDoorbell(v) \/ ExecExit(v) \/ ExecHalt(v)

GuestMishap(v) == PollGivesUp(v) \/ TlbEvicts(v) \/ TimerLost(v)
=============================================================================
