# Formal verification of mini-hypervisor

TLA+ models of mini-hypervisor's devices, checkpoints, interrupts, guests, tasks and system calls,
model-checked with TLC on small instances and, where it matters most, proved with TLAPS for every
instance. Paths below are relative to the crate's `src/` directory. `PROJECT.json` maps every definition
to the source lines it stands for and lists components, runs, mutants, hazards and theorems.

## The system

mini-hypervisor is a KVM-based virtual machine monitor made of bounded, self-checking fixtures: a guest
program, a host procedure that runs it for a fixed number of exits, and a comparison of everything the
guest did with what it should have done. Its parts fall into these groups:

| group | source | modelled in |
|---|---|---|
| virtio register files (block and entropy) | `pci/virtio_blk.rs`, `pci/virtio.rs` | `VirtioRegisters`, `VirtioDevice` |
| virtio-blk queue services and backing | `pci/virtio_blk*.rs` | `VirtioBlkQueue`, `BlockStore` |
| descriptor chains | `pci/virtio_blk_indirect.rs` | `VirtioChain` |
| ioeventfd/irqfd registrations | `kvm/host_registration*.rs` | `HostRegistrationPair`, `CheckpointPairFixtures` |
| two-vCPU two-device checkpoint | `state_snapshot/page_set/two_vcpu_two_device_transaction*.rs`, `mmio/multi_device/virtio_blk_atomic_bus.rs`, `pci/virtio_blk_checkpoint.rs` | `CheckpointTransaction`, `CheckpointTwoVcpuFixtures` |
| timers, irqfd, ioeventfd bridge and watchdog | `kvm/async_timer.rs`, `kvm/irqfd_timer.rs`, `kvm/ioeventfd_roundtrip.rs` | `InterruptHandoff` |
| MMIO bus, device events, edge/level/two-source interrupts | `mmio.rs`, `mmio/` | `ByteDevice`, `DeviceFixtures` |
| PCI configuration space, MSI, virtio guests | `pci.rs`, `pci/`, `portio/` | `PciConfig`, `VirtioDevice`, `VirtioFixtures`, `VirtioBlkFixtures` |
| two-vCPU start-up, IPIs, TLB shootdown, AP timer | `portio/` | `TwoVcpuFixtures` |
| tasks, ready queue, wait channel, preemption | `task.rs`, `task/` | `TaskScheduling`, `WatchdogTimer` |
| system calls and user copies | `syscall/`, `copyin.rs`, `copyout.rs` | `UserCopyCode`, `UserCopy` |
| snapshots, page sets, controller checkpoints and their guests | `state_snapshot/` | `FixtureCheckpoint`, `Checkpoint*Fixtures` |
| versioned byte formats | `state_snapshot/page_set/*schema_v1*` | `VcpuFormats`, `DeviceFormats`, `TransactionFormats`, `CheckpointTransport` |
| execution loop and exit dispatch | `execution.rs`, `vmexit.rs`, `vcpu.rs`, `portio.rs` | `ExecutionLoop`, `FixtureHost` |
| loaders, paging, privilege transition, KVM set-up, binaries | remaining modules | see "Not modelled" |

A guest driver negotiates with a device through its registers (`VirtioRegisters`), puts descriptor
chains in the rings (`VirtioChain`) and notifies; the host drains the doorbell, serves the queue
(`VirtioBlkQueue`) and signals an interrupt (`InterruptHandoff`); a checkpoint may fall between any
two of these steps (`CheckpointTransaction`, which extends `HostRegistrationPair`). Those modules look
at one protocol each, in every state it can be in. The `Fixture*` modules put the parts together: the
guest programs and host procedures of the repository run on one model of vCPUs, interrupt controllers,
devices and host threads.

## Modules

Conventions. An operation that the code refuses before it changes anything is a stuttering step. A
definition commented "Wrong on purpose" is a plausible bug, used only to show that a property notices
it. Variables keep the source's field names; history variables are marked.

### One protocol each

* **VirtioRegisters**: the common configuration registers as one machine for both devices: status
  writes with their monotonicity and FEATURES_OK validation, feature selects and words, queue select,
  size, the three addresses, enable, notify, ISR read, completion, reset. Feature words are sets of
  bits. The checkpoint predicates (`checkpoint_quiescent` and its siblings) are defined on the state.
* **VirtioBlkQueue**: a driver (bring up, reset, publish, notify, read ISR, reap), the two services
  and the host file. The service runs on the vCPU's thread, so guest steps never fall inside it; a
  file-backed write is split into write, sync and completion because process and machine can stop
  between them. A chain is abstracted to the request it encodes; a buffer to one content per sector;
  ranges are mapped or not. `process_notified_queue` has no preflight, and its partial failure is
  modelled: it may fail with the status byte written and the used ring not. `acked` and `limbo` are
  history: what the guest was told, and where a write was attempted without an answer.
* **BlockStore**: the promise: acknowledged writes change the store as a whole, interruptions change
  it only where an attempt is unresolved. `VirtioBlkQueue` refines it with
  `online <- alive, store <- acked, unsure <- limbo`.
* **VirtioChain**: one service call on what a driver put in guest memory, up to the point where the used
  ring is looked at: the direct and the indirect resolver and the checks of the header, compared with an
  independent definition of a well-formed request. Memory is an array of slots of the size of a
  descriptor, with the ring at slot 0. The head descriptor says whether there is an indirect table and
  where: anywhere in memory, over the ring too, or past its end.
* **HostRegistrationPair**: assignment of the four registrations in order, rollback on the first
  failure, removal that goes on after a failure, quiescence probe.
* **CheckpointTransaction**: capture (plain, or with a notification or completion token), release,
  wipe, restore (guest, MP state, controllers, devices, registrations), final verification, and the
  request cycle of the replay guests. `issued` and `handled` stand for guest memory and registers. Each
  of these steps may fail. So may a call while the host drives the guest: some of those errors deassign
  before they return, others drop the pair with all its registrations (phase `abandoned`).
  `Materialize` is the byte transport, which has no notify flag of its own.
* **InterruptHandoff**: main/vCPU thread, worker, watchdog, the guest's instructions (STI with its
  shadow, HLT, interrupt gate, EOI, IRETQ), the PIC's edge latch and KVM's injection of an irqfd. The
  kernel and the CPU are external and modelled from how the code relies on them.
* **WatchdogTimer**: the timer and watchdog threads of a task fixture and the interrupt line they
  share; a pulse is two ioctls. `TaskScheduling` extends it.
* **TaskScheduling**: two tasks in two address spaces and the guest kernel's handlers, translated from
  their machine code, one step per block between debug outputs; the host that accepts each output only
  with the memory it expects, where the expectation comes from the source's own `QueueModel` and
  `WaitChannelModel`; and the checkpoint taken inside a wait. RSP, stack markers and page-table
  entries are left out, so a saved context is its address space, resume point, R12 and save count. In
  the cooperative fixture (`switch`) the host compares the bytes after the run instead of one by one,
  which ends in the same result.
* **ExecutionLoop**: `run_vcpu_until_stopped_with_mmio_observer`: KVM may report any exit, also with a
  payload the decoder must refuse; the loop decodes it from the `kvm_run` page, serves it, calls the
  observer and spends one exit of its budget. A response is where and how long it is, not its bytes.
* **UserCopyCode**, **UserCopy**: six system-call services instruction by instruction, at the offsets
  the source uses for fault sites and fixups (`Code(fx, offset)`); the page-fault handlers; the
  fixtures' user programs and the host's verification. The caller is the fixture's own program or an
  open one, whose pointers lie on pages of the fixture, mapped or absent (`CallerAssumption`).
* **VcpuFormats**, **DeviceFormats**, **TransactionFormats**: `from_checkpoint`, `encode`, `decode` and
  `materialize` of the thirteen versioned formats, over words instead of bytes, one word per field.
* **CheckpointTransport**: a captured checkpoint is stored, its words may be changed, lost or repeated,
  and it is decoded and materialized on a host that offers some set of MSRs.

### The fixtures on one machine

* **FixtureLanguage**: the vocabulary: guest programs as blocks of instructions, host procedures as
  steps that say what an error in them does (return, abort or cancel the worker, join, deassign, or
  deassign for a failed check and return at once from a failed call).
* **FixtureMachine**: vCPUs with local APICs, the PIC, debug ports, MMIO devices and memory. External
  parts are modelled from how the code relies on them: an I/O or MMIO instruction that exits completes
  at the next KVM_RUN, HLT and UD2 when they exit; HLT does not exit with an in-kernel APIC; the PIC
  is edge-triggered; STI has its shadow; an interrupt that arrives inside KVM_RUN is noticed later.
  Memory is sequentially consistent: x86 may delay a store behind a later load of another location,
  and no guest decides anything on such a pair.
* **FixtureHost**: the main and worker threads, channels, joins and watchdogs; a step that calls the
  kernel may fail. **FixtureCheckpoint**: capture, overwrite, restore and comparison of the parts of a
  machine, the encoding in between, and eventfds, whose injection is asynchronous. **FixtureSpec**:
  their composition, its fairness and the properties every fixture shares.
* **ByteDevice**, **PciConfig**, **VirtioDevice**: devices as operators on records, for the machine.
  `VirtioDevice` is the driver's view of what `VirtioRegisters` and `VirtioBlkQueue` explore alone.
* **DeviceFixtures**, **TwoVcpuFixtures**, **VirtioFixtures**, **VirtioBlkFixtures**,
  **CheckpointFixtures**, **CheckpointBlkFixtures**, **CheckpointPairFixtures**,
  **CheckpointTwoVcpuFixtures**: the 52 guests with their host procedures, in that vocabulary: byte
  devices and their interrupts, two vCPUs, PCI and virtio, checkpoints of pages, vCPUs, controllers,
  one device, two devices, and both vCPUs with both devices.

The `MC*` modules supply finite values where a constant needs a definition; the `.cfg` files replace no
definition. `VirtioRegisters`, `CheckpointTransaction`, `InterruptHandoff` and `TaskScheduling` need no
such definition and run themselves.

## Runs

| run | checks | instance |
|---|---|---|
| `registers` | WorkNeedsNegotiation, ReadyDeviceCapture, NegotiationIsStable | all register write orders; selects in and out of range, sizes 0, 3, 4, 8 of at most 8; indices modulo 3 |
| `queue_memory` | ChainsAreConserved, CompletionIsAnnounced, ReadsReturnAcked | both services, queue of 2, 2 in flight, indices modulo 4, malformed and unmapped requests |
| `queue_file` | AckedIsDurable, ImplementsBlockStore | two sectors, two contents, one in flight, every I/O failure, crash and power loss |
| `queue_live` | PublishedIsServed | one outstanding request |
| `chain` | ResolvesExactlyRequests | ring of 3, all contents of 3 of 5 slots of memory, tables of 2 to 5 descriptors at slot 1 |
| `transaction` | RequestsSurvive, CompletionsInterrupt, RegistrationsAccounted, DevicesRestoredLast, RequestsComplete | 3 captures, indices modulo 3, every step of the host may fail |
| `handoff` | SuccessIsIndependent, RegistrationsReleased, AlwaysReturns | three transports, all four kinds of fault |
| `tasks` | BlockedTaskNeverRuns, ContextsBelong, GuestMeetsModel, SchedulingReturns | five fixtures, two extra wait-channel modes, all four kinds of fault |
| `execution_loop` | TraceIsWhole, ExhaustionHidesNothing, ReentryFindsResponse | budget of 3, mapping of 8 bytes, payloads at, before and past every limit |
| `fixtures` | NoFalseFailure, ReturnsWhole, AckMeansDone, WatchdogNeverProves, SourceHoldsLine, CapturedBetweenInstructions, RestoredWhole, LineFollowsCompletedStore, AnnouncedAfterPublished, MainReturns | 52 fixtures as they are, every interleaving, failing host calls |
| `formats` | StoredReturnsWhole, AcceptedIsCanonical, RefusedOnlyForMsrs | thirteen formats, one damaged word (two for pairs), hosts with all or one of the MSRs |
| `user_copies` | ReturnsMeetContract, OwnCallsVerified | six services, own programs and two calls of an open caller, pages of 8 bytes |

The comment above each property states it in words. What the runs show, in short:

* **Devices.** Outstanding work implies a complete negotiation, whatever the order of writes. No chain
  is lost, duplicated or completed without status, over wrap-around, failed services and resets.
  Acknowledged data survives every failure and crash. The service accepts a well-formed request, in the
  ring or in an indirect table, and nothing else.
* **Checkpoints.** A request and its interrupt survive a checkpoint taken at any point at which the code
  allows one. Capture and restore leave a registration behind only where the kernel refuses to remove
  it; an error between two of them may drop the whole pair, never a part of it. In every checkpoint fixture a vCPU is captured only between instructions, and when the restored parts
  match, the whole machine is what it was at capture: each ownership set is complete for its guest.
* **Formats.** What is stored comes back whole. An image that decodes encodes to the same words, so no
  word of it is ignored, and it is refused afterwards only for an MSR the host does not offer.
* **Interrupts and threads.** A fixture that reports success was woken by its worker and not by its
  watchdog. A line stays asserted until the store that acknowledges it has completed, and a completion
  is announced only once it is published. Every fixture returns, and none fails unless something outside
  it did. A success leaves no running vCPU and no registration. After the first capture an error leaves
  a registration only if the kernel refused its removal, or if the failed call was one of those the code
  leaves with a plain `?` between reconstruction and replay: a doorbell poll, the I/O APIC read, the
  irqfd signal. `ReturnsWhole` names these cases; the failed checks beside them give the pair back.
* **Guests.** A blocked task does not run before its owner's wakeup, and the guest kernel does what the
  host's models of it say unless the watchdog or a host call interferes. A user copy returns exactly
  the number of bytes it copied, also when a fault stops it or the buffers overlap.
* **Loop.** A trace is whole, an exhausted budget hides no exit, and a vCPU is entered again only with
  its last read answered in full.

`ContextsBelong` has one exception, which it states. The preemption wrapper takes the stack it
interrupted for a task frame, which it is under HLT and is not in user mode, where a watchdog edge can
come. In most places the host refuses the first output of such an interrupt, before anything is saved.
Between task B's change of R12 and its yield, the output is the one the host waits for, and the switch
saves B from the user stack. The frame it pops afterwards lies on the other task's stack page and has a
null CS; no gate takes that fault, so the vCPU shuts down: no task is resumed from the wrong context,
and the fixture reports an error.

Two observations that contradict no text of the repository. `decode` accepts a device with its ISR set
in a transaction without a token, which `capture` would have refused: the formats do not check whether
a state could have been captured. In `partial_dispatch.rs` the fixup table lists the sites of the range
copy only, so a fault in its single-byte service is not fixed up: the page-fault handler prints `X` and
halts. The fixture's own program never provokes it, and an open caller stops there.

Every property of a passing run has a mutant in `PROJECT.json`: one definition replaced by a
"Wrong on purpose" one makes TLC report a violation.

### Bounds

* Ring indices are 16 bits wide in the code. The models reduce them modulo a constant that is a multiple
  of the queue size where slots matter, as 2^16 is, and small enough to wrap several times. Wrapping to
  0 matters by itself: 0 is the one index a completion token excludes, so a device that wraps exactly
  there has no capture with a token (`ReadyDeviceCapture` states precisely which ready devices do not).
* Two sectors suffice for partial, torn and cross-sector requests. Three captures allow each kind to
  follow the others, and three queue indices let an index wrap to 0, where a completion has no token. A
  doorbell count above one is refused by the host, and the replay guests keep one request per device
  outstanding.
* The fixtures have no bound of their own: guests, budgets and procedures are the code's. A poll loop of
  the guest is one step that may give up, in place of its count of iterations.
* The formats keep every limit of the code as a constant and make it small (pages of 4 addresses below
  64, two pages, two MSRs), so that each limit is met, reached and passed. A truncation inside a field
  is the loss of its word.
* User copies use pages of 8 bytes, the lengths 0, 1, 4 (the last one accepted) and 5, and pointers
  inside a page, at its end before a present and before an absent page, and in an absent one.
* A budget of three exits is enough for a served exit, its re-entry and a last exit of any kind.

### Fairness

* `queue_live`: weak fairness of serving a notified request (the host serves on the thread that
  dispatched the exit) and of the driver's notification of published work. Only one request is
  outstanding, because the service accepts exactly one new available entry; with two published behind
  one notification it refuses until a reset.
* `transaction`: weak fairness of the host thread and of its three duties per device; strong fairness of
  a guest handler, because the host re-enters a vCPU with a pending vector again and again but may
  capture in between.
* `handoff`, `tasks`: weak fairness of each thread, of timeouts (`recv_timeout` returns), of KVM's
  injection and of the guest's instructions. `AlwaysReturns` and `SchedulingReturns` promise nothing
  when the watchdog's own ioctl failed: with a failed worker as well, KVM_RUN stays in HLT.
* `fixtures`: weak fairness of each host thread, of its timeouts, of irqfd injection, and of each vCPU's
  instructions, a poll loop's end included. No failure and no loss of an interrupt is fair.

Deadlock is not checked where the system really stops: `handoff` and `tasks` (KVM_RUN may stay in HLT,
and a finished run is finished), `fixtures` and `user_copies` (every guest halts), `execution_loop` (the
loop returns), `formats` (an image is done with), and `chain`, which evaluates one call per state.

## Proofs

Each proof module extends the modules it is about. The assumptions are the ASSUMEs of the modules, which
TLC evaluates in every run; every theorem holds for all values of the constants they allow.

**DeviceProofs**, the registers (any feature sets, values, queue limit and index width). The inductive
invariant `RegInv` adds `GrantedFeaturesValid` to the checked invariants: FEATURES_OK is set only over
a valid negotiation. Without it, `WorkNeedsNegotiation` does not survive a feature write or a refused
FEATURES_OK. Proved: `WorkNeedsNegotiation`, `ReadyDeviceCapture`, `NegotiationIsStable`,
`EnabledGeometryIsStable`.

**DeviceProofs**, the descriptor chains (any ring, any set of memory slots and contents, any head, table,
header, descriptor and sector size, capacity). In a layout, the ring from the head or the table from its
first entry, the `next` fields allow a single walk of three descriptors (`RequestIsWalk`), so there is at
most one well-formed request. The resolvers follow this walk (`DirectOutcome`, `IndirectOutcome`) and
the service accepts it exactly when it is a request (`AcceptsRequests`). The rest is arithmetic: the
minimum, remainder and maximum the code checks on a table amount to three to `MaxIndirect` whole
descriptors (`WholeDescriptors`), and its byte range to whole sectors that exist (`SectorsOnDisk`).
Proved: `ResolvesExactlyRequests`.

**DeviceProofs**, the hand-off of an interrupt (any transports, any set of failing calls, handler entries not bounded).
The argument counts edges. While the watchdog has not raised the line, the worker's one delivery is in
exactly one place: in the irqfd, in the PIC's request bit, or taken by the handler (`EdgeInv`). The
verdict's four conditions then leave a delivery that was taken once and nothing pending. `CleanupInv`
says that the cleanup leaves exactly the registrations it was refused, and `DoorbellInv` that the guest
stores to the doorbell once. Proved: `SuccessIsIndependent`, `RegistrationsReleased`; beyond what the
run checks, `DoorbellRungOnce` (the bridge's refusal of another count is never taken) and
`HandlerEnteredOnce` (also on every error path, unless the watchdog pulsed).

**VirtioBlkQueueProofs** (any capacity, contents, requests, queue size, index width, number of
requests in flight, with or without a file). `DataPlaneInv` joins three parts. `TypeOK`. `QueueInv`:
besides the checked invariants, a device that is not ready has no queue state, and a write being
persisted keeps the conditions it was admitted under. `StoreInv`: besides the checked invariants,
while a write is being persisted its sectors are in limbo and the file has its data, and after
`sync_all` the disk has it too. Proved: `AckedIsDurable`, `CacheIsAcked`, `RingPositionsAgree`,
`CompletionIsAnnounced`, the action properties `DurableBeforeVisible` and `ReadsReturnAcked`, and the
refinement `ImplementsBlockStore` (initial states map to initial states, and `StoreStep` maps every
step to a step or a stutter).

The last part of the module is about the rings. `RingInv` numbers the chains in flight from the driver's
position `reaped`: the first of them are in the used ring, the others in the avail ring, and their heads
are distinct and are the outstanding ones. A step then appends to the numbering (publish), moves the
border between the rings (complete), or shifts it by one (reap). Two assumptions carry the argument, and
the code's values meet both: the queue size divides the index range, so that consecutive indices fall
into different slots over a wrap, and is smaller than it, because otherwise a full ring would look empty
(at most 8 against 2^16). Proved: `ChainsAreConserved`.

**MachineProofs**, the execution loop (any budget, mapping size and set of exits). `LoopInv`: between two entries
the caller's trace is the kernel's history, and while an exit is being served it is one exit behind.
Proved: `TraceIsWhole`, `ExhaustionHidesNothing`, `ReentryFindsResponse`.

**MachineProofs**, the checkpoint transaction (any index width of at least two values, any number of captures).
`TransactionInv` states what a running machine keeps (a completion excludes requests in flight), that a
snapshot has the same property together with its token, so that `Materialize` loses nothing, and how
far a restore in each phase has come; an abandoned pair still has every registration. Proved: `RequestsSurvive`, `CompletionsInterrupt`,
`RegistrationsAccounted`, `DevicesRestoredLast`.

**TaskSchedulingProofs** (any subset of the fixtures, any set of failing calls). One assertion per label
of the guest's handlers: which registers and which metadata belong to the label and how many outputs
came before it, in terms of the six stages a blocking fixture goes through. The labels are one path for
all fixtures but for interrupts. The first interrupt comes out of HLT, whichever thread raised it, and
belongs to the path (`PathHlt`). A second one needs the watchdog, and `Again` follows it to its first
output, which `AgainIsRefused` shows to be refused because the host waits for another byte by then. The
one that comes before task B's yield is accepted; `PathWild` follows it to the switch, and `WildInv` says
that nothing but the shutdown and an error comes after it.
`EdgeInv` says that there is no second one without the watchdog, and `CaptureInv` that what the
checkpoint restores is the assertion of the label it was taken at. Proved: `BlockedTaskNeverRuns`,
`ContextsBelong`, `GuestMeetsModel`, and `OutputsAreExpected`: as long as only the worker raised the
line, the host refuses no byte and no memory, at any output.

**UserCopyProofs** (any page size of at least eight bytes, any number of calls, any lengths, any pointers
on pages of the fixture). Floyd's method: one assertion for each offset of the services' code. Before
the outcome of a call is known the assertion says how far the copy came; from then on, which register
holds the promised result. A fault may happen at every access, so the assertion of an access also has to
imply the one at its fixup. Overlapping buffers need nothing more, because what a copy promises is
defined byte by byte, forward, as the code copies. Proved: `ReturnsMeetContract`, and
`OnlyUnlistedByteCopyStops`: the byte copy of `partial_dispatch.rs` is the only access whose fault is
not fixed up.

**FormatProofs** (any limits, words and states of any length). Every format is canonical in both
directions: what `decode` accepts passes the checks of the format and encodes to the words it was read
from, and what passes the checks is encoded and read back unchanged. The lemmas follow the nesting of
the formats: fields, segments, lists of MSRs and pages, then vCPU states, controllers, devices, tokens
and registrations, then the containers. Each says where in the words its parts begin and end and cites
the lemmas of the parts. Lists are compared by position, which needs no induction on them.

**CaptureProofs** (any checkpoint, host and limits). `FromCheckpoint`: a format takes over exactly the
checkpoints it promises to carry (`Carried`), what it takes over passes the checks of the format
(`Sound`), and whatever `materialize` gives back has the captured contents, pending notification or
completion included. `Supported`: a state that passes the checks is rebuilt on every host that offers its
MSRs. The MSRs are sorted on the way; the number of entries that sort before an entry is a place of its
own for each, so sorting keeps the entries and puts their indices in order.

**CheckpointTransportProofs** (any images of the thirteen formats, any number of damaged words, any
hosts). `Decoded` and `Stored` collect FormatProofs for all formats. The inductive invariant `Inv` (checked
by TLC on the instance of the `formats` run before it was proved) says that what was stored, read and
rebuilt is `encode`, `decode` and `materialize` of what came before, but for the damage; it alone does not
tell what these functions do, the theorems above do. Proved: `StoredReturnsWhole`, `AcceptedIsCanonical`,
`RefusedOnlyForMsrs`.

In the long modules a leaf that is pure logic names the prover `Zenon`; the others go to the SMT solver.

### Only model-checked

* All liveness properties: fairness is out of the prover's reach.
* `OwnCallsVerified`: the fixtures' own user programs and the values the host expects of them are fixed;
  the run covers them for one page size, the only constant they depend on.
* The `fixtures` run: 52 given programs on one machine, with no constant to generalise. The run visits
  every interleaving of every one of them. An inductive invariant would be one assertion for each
  instruction of each program against each step of each host procedure.

## Not modelled

* **Privilege transition and SYSCALL round trip** (`privilege.rs`, parts of `syscall/`): one straight
  line of code with one outcome, interrupts masked. There is no choice, order or failure to explore.
* **Address spaces and paging** (`address_space.rs`, `long_mode.rs`, `memory.rs`): constants written at
  constant addresses. What depends on a mapping is modelled where it is used: absent pages in
  `UserCopy`, the stale translation in `TwoVcpuFixtures`, address spaces in `TaskScheduling`.
* **Image loaders** (`loader/`): a pure check of one byte image before anything runs, all field widths
  and range arithmetic. Every run starts after it has accepted the image.
* **KVM set-up and system interface** (`kvm/`): capability probes and ioctl wrappers, one call with one
  result each.
* **Configuration, errors, models and binaries**: argument parsing, error values and printing.

Left out of what is modelled:

* Overlap checks when a device is added to the MMIO bus; the order of byte-device before virtio events,
  since no fixture has both on one bus; the words of exit records and diagnostics.
* The copying of registers between KVM structures and snapshots, field by field; the bits of the dirty
  bitmap and the straight-line dirty-log guest.
* Which call of a replay guest fails, and what each error path does, is in the fixtures;
  `CheckpointTransaction` only has the two ways such an error treats the registrations. File-backed
  devices are refused by the checkpoint code and are not part of it.
* Contents of pages and controllers beyond what a guest tells apart, encodings of instructions, messages
  of errors.
