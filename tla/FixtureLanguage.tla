--------------------------- MODULE FixtureLanguage ---------------------------
(***************************************************************************)
(* The vocabulary in which the guest programs and the host procedures of   *)
(* the fixtures are written.  A guest program is a function from block     *)
(* names to sequences of instructions; a jump goes to the start of a       *)
(* block.  A host procedure is a sequence of steps; a step names what an   *)
(* error in it does: return at once ("drop"), tell the worker to abort and *)
(* join it ("abort"), cancel it and join it ("cancel"), join it without    *)
(* telling it ("join"), give back the eventfd registrations ("deassign"),  *)
(* give them back when what the step found is wrong but return at once     *)
(* when its call fails ("verdict"), or, for a message nobody receives,     *)
(* nothing ("ignore").                                                     *)
(***************************************************************************)
EXTENDS Integers, Sequences, PciConfig

BSP == 0
AP  == 1

Inst(op, x, y, to) == [op |-> op, x |-> x, y |-> y, to |-> to]
Plain(op)      == Inst(op, 0, 0, "")
Out(b)         == Inst("out", b, 0, "")          \* mov al, b; out 0xe9, al
OutAl          == Plain("outal")                 \* out 0xe9, al
Sti            == Plain("sti")
Cli            == Plain("cli")
Nop            == Plain("nop")
Hlt            == Plain("hlt")
Iretq          == Plain("iretq")
Store(l, v)    == Inst("store", l, v, "")        \* mov [l], v
StoreAl(l)     == Inst("storeal", l, 0, "")      \* mov [l], al
Load(l)        == Inst("load", l, 0, "")         \* mov al, [l]
Xchg(l, v)     == Inst("xchg", l, v, "")         \* mov al, v; xchg [l], al
Double         == Plain("double")                \* add al, al
JumpUnless(v, to)  == Inst("jne", v, 0, to)      \* cmp al, v; jne to
Poll(l, v, to) == Inst("poll", l, v, to)         \* bounded pause loop
EnterLongMode  == Plain("long")                  \* cr4, cr3, efer, cr0, ljmp
LoadIdt        == Plain("lidt")
EnableLapic    == Plain("spiv")                  \* SPIV software enable
SendInit       == Inst("icr", "init", 0, "")
SendDeassert   == Plain("nop")                   \* INIT level de-assert
SendSipi(to)   == Inst("icr", "sipi", 0, to)
SendIpi(v, vec) == Inst("icr", "fixed", v, vec)
LapicEoi       == Plain("eoi")
ArmTimer(vec)  == Inst("arm", vec, 0, "")        \* divide, LVT, initial count
WritePte(p)    == Inst("pte", p, 0, "")          \* mov [pte], p|3; mfence
LoadVa         == Plain("va")                    \* mov al, [va]
Invlpg         == Plain("invlpg")
InitPic(lines) == Inst("pic", lines, 0, "")      \* ICW1..4, OCW1 unmasks lines
PicEoi         == Plain("piceoi")
SlaveEoi       == Plain("slaveeoi")
MmioWrite(d, o, v) == Inst("mmio", d, [off |-> o, dir |-> "write", val |-> v], "")
MmioRead(d, o)     == Inst("mmio", d, [off |-> o, dir |-> "read", val |-> ""], "")
LoadIdx(l)     == Inst("loadidx", l, 0, "")      \* the index word of a ring
LoadUsed(l, n) == Inst("loadused", l, n, "")     \* an element of a used ring
Ud2            == Plain("ud2")
Must(v)        == JumpUnless(v, "ud2")           \* cmp; je +2; ud2

\* Port accesses; configuration space is reached through two of them.
Port(p, d, v)  == [port |-> p, dir |-> d, val |-> v]
Select(o)      == Port("address", "out", o)
InData         == Port("data", "in", "")
OutData(v)     == Port("data", "out", v)
Debug(b)       == Port("debug", "out", b)
PortIo(a)      == Inst("port", a, 0, "")
PciRead(o)     == <<PortIo(Select(o)), PortIo(InData)>>
PciWrite(o, v) == <<PortIo(Select(o)), PortIo(OutData(v))>>

Step(op, v, x, els) == [op |-> op, v |-> v, x |-> x, els |-> els]
Setup           == Step("setup", BSP, 0, "drop")         \* every call before the first run
Run(v, b)       == Step("out", v, b, "drop")             \* run_expected_debug_output
RunOr(v, b, e)  == Step("out", v, b, e)
Serve(v, d, a)  == Step("serve", v, <<d, a>>, "drop")   \* expect_mmio, validate, dispatch
Budget(n)       == Step("budget", BSP, n, "drop")        \* the exits a loop may take
RunTo(b, o)     == Step("to", BSP, <<b, o>>, "drop")     \* serve exits up to output b, none of o
UntilHlt(v)     == Step("to", v, <<"hlt", {}>>, "drop")  \* run_vcpu_until_stopped
Spent           == Step("spent", BSP, 0, "drop")         \* the budget is exact
IfIs(v, b)      == Step("if", v, b, "drop")              \* require_interrupt_*_flags
IfIsOr(v, b, e) == Step("if", v, b, e)
MpIs(v, s)      == Step("mp", v, s, "drop")              \* require_mp_state
MakeRunnable(v) == Step("runnable", v, 0, "drop")        \* ensure_runnable_mp_state
Startup(v)      == Step("startup", v, 0, "drop")         \* accept_init_sipi_startup_handoff
StartsAt(v, blk) == Step("starts", v, blk, "drop")       \* require_init_sipi_startup_state
InLongMode(v)   == Step("long", v, 0, "drop")
HasIdt(v)       == Step("idt", v, 0, "drop")
Spawn           == Step("spawn", AP, 0, "drop")
Send(c, m)      == Step("send", AP, <<c, m>>, "drop")
Receive(c, e)   == Step("recv", AP, c, e)
SendAnyway(c, m) == Step("send", AP, <<c, m>>, "ignore") \* let _ = send
AwaitCommand    == Step("go", AP, "command", "drop")     \* Continue, Abort or disconnected
Join            == Step("join", AP, 0, "drop")
Watch(c, vec)   == Step("watch", AP, <<c, vec>>, "drop") \* recv_timeout, then signal_msi
NotWatched      == Step("unwatched", AP, 0, "drop")
Msi(v, vec, e)  == Step("msi", v, vec, e)                \* signal_msi
Take(d, e)      == Step("take", BSP, <<d, e>>, "drop")   \* take_device_event(_record)
Process(d, a)   == Step("process", BSP, <<d, a>>, "drop") \* process_virtio_*_notification(_atomic)
ConfigMsi(v, vec) == Step("cfgmsi", v, vec, "drop")      \* the message the driver programmed
Completed(s)    == Step("completed", BSP, s, "drop")
DeviceIs(d, r)  == Step("deviceis", BSP, <<d, r>>, "drop") \* virtio_*_at accessors
BackingIs(d, n, s) == Step("backing", BSP, <<d, n, s>>, "drop") \* virtio_blk_backing_range_at
PortsAre(s)     == Step("ports", BSP, s, "drop")         \* the trace of port exits
NoEvent         == Step("noevent", BSP, 0, "drop")
SetLine(g, b)   == Step("line", BSP, <<g, b>>, "drop")   \* set_gsi_level
Window(v)       == Step("window", v, 0, "drop")          \* wait_for_interrupt_window
Inject(v, vec)  == Step("inject", v, vec, "drop")        \* inject_interrupt
SetPin(g, vec, v) == Step("pin", v, <<g, vec>>, "drop")   \* set_ioapic_state
Retire(v, blk, pc, f) == Step("retire", v, <<blk, pc, f>>, "drop") \* single step to KVM_EXIT_DEBUG
Stopped(v, blk, pc) == Step("stopped", v, <<blk, pc>>, "drop") \* require_hlt_report
Fresh           == Step("fresh", BSP, 0, "drop")         \* new PortIoBus, new traces
Capture(p)      == Step("capture", BSP, p, "drop")       \* one owned part of the machine
Captured(p, r)  == Step("captured", BSP, <<p, r>>, "drop") \* what the checkpoint must hold
CaptureRefused(d) == Step("refused", BSP, d, "drop")     \* a doorbell is pending or the device not quiescent
Corrupt(p, x)   == Step("corrupt", BSP, <<p, x>>, "drop") \* the fixture overwrites the part
Differ(s)       == Step("differ", BSP, s, "drop")        \* verify: every one of these differs
Transport       == Step("transport", BSP, 0, "drop")     \* encode, drop, decode, materialize
Restore(p)      == Step("restore", BSP, p, "drop")
Match(s)        == Step("match", BSP, s, "drop")         \* verify: exact
Register(gsis)  == Step("register", BSP, gsis, "drop")   \* reconstruct: ioeventfd and irqfd of each device
Bell(d)         == Step("bell", BSP, d, "drop")          \* wait_doorbell counts 1
BellsAre(s)     == Step("bells", BSP, s, "drop")         \* pending_doorbells
HostNotify(d)   == Step("hostnotify", BSP, d, "drop")    \* apply_virtio_blk_host_notification
Irq(d)          == Step("irq", BSP, d, "drop")           \* signal_irq
Deassign        == Step("deassign", BSP, 0, "drop")
Guard(g)        == Step("guard", AP, g, "drop")          \* recv_timeout, then a pulse
NotGuarded      == Step("unguarded", AP, 0, "drop")
Else(s, e)      == [s EXCEPT !.els = e]
Each(Op(_), s)  == [i \in 1..Len(s) |-> Op(s[i])]
Wrote(d, s)     == Step("wrote", BSP, <<d, s>>, "drop")  \* writes, writes_at
Accesses(s)     == Step("accesses", BSP, s, "drop")      \* the trace of MMIO exits
AccessCount(n)  == Step("accesscount", BSP, n, "drop")
OutputCount(v, n) == Step("outputcount", v, n, "drop")
Proof(v, s)     == Step("proof", v, s, "drop")           \* debug_output
Memory(m)       == Step("memory", BSP, m, "drop")        \* guest memory, read by the host

Write(o, v) == [off |-> o, dir |-> "write", val |-> v]
Read(o, v)  == [off |-> o, dir |-> "read", val |-> v]    \* v: the response required

\* A redirection entry of the I/O APIC that sends nothing.
Masked == [masked |-> TRUE, vec |-> "none", dest |-> BSP]

\* A value of guest memory before anything was written to it.
Zero == "0"

\* A fixture with an in-kernel irqchip: the vCPUs, those the host brings up
\* itself, where each starts, the IDT, the images, memory and devices, and
\* the procedures of the two host threads.
Fixture(cpus, booted, mp, gates, code, memory, devices, main, worker) ==
  [name |-> "", irqchip |-> TRUE, cpus |-> cpus, booted |-> booted, mp |-> mp, gates |-> gates,
   code |-> code, entry |-> [v \in cpus |-> IF v = BSP THEN "bsp" ELSE "ap"],
   extint |-> booted, pages |-> <<>>, token |-> <<>>, mem |-> memory, dev |-> devices, pci |-> Latch(<<>>, FALSE), main |-> main, worker |-> worker]

WithoutIrqchip(f) == [f EXCEPT !.irqchip = FALSE]
WithPci(f, p)     == [f EXCEPT !.pci = p]

\* The pages a checkpoint owns: for each the locations it holds, with the
\* value the fixture overwrites them with.
WithPages(f, p)   == [f EXCEPT !.pages = p]
=============================================================================
