--------------------------- MODULE ExecutionLoop ---------------------------
(***************************************************************************)
(* run_vcpu_until_stopped_with_mmio_observer (execution.rs): the loop that *)
(* spends an exit budget on KVM_RUN, decodes each exit from the shared     *)
(* kvm_run page (vcpu.rs, vcpu/...), serves it from the port and MMIO      *)
(* buses (vmexit.rs, portio.rs) and stops, or returns an error that        *)
(* carries the trace of completed exits.                                   *)
(*                                                                         *)
(* KVM may produce any exit, including ones with a payload the decoder     *)
(* must refuse.  What the devices behind the buses do is not modelled      *)
(* here: an access is handled or it is not.                                *)
(***************************************************************************)
EXTENDS Naturals, Sequences

CONSTANTS
    Limit,          \* exit_budget
    MappingSize,    \* bytes of the kvm_run mapping
    DataCapacity,   \* KVM_INTERNAL_ERROR_DATA_CAPACITY, KVM_SYSTEM_EVENT_DATA_CAPACITY
    MmioCapacity,   \* KVM_MMIO_DATA_CAPACITY
    IoExits,        \* port exits KVM may report
    MmioExits,      \* MMIO exits KVM may report
    DataCounts      \* ndata of internal errors and system events

ASSUME LoopAssumption ==
    /\ Limit \in Nat /\ MappingSize \in Nat /\ DataCapacity \in Nat /\ MmioCapacity \in Nat
    /\ IoExits \subseteq [reason : {"io"}, dir : {"in", "out", "bad"}, size : Nat,
                          count : Nat, offset : Nat, port : {"debug", "pci", "other"}]
    /\ MmioExits \subseteq [reason : {"mmio"}, dir : {"read", "write", "bad"}, length : Nat,
                            handled : BOOLEAN]
    /\ DataCounts \subseteq Nat

VARIABLES
    completed,    \* exits KVM_RUN returned, oldest first: the kernel's view
    exitReasons,  \* exit_reasons, with the budget's completed count as its length
    page,         \* what the kvm_run page holds: the exit, and the response copied into it
    pc,           \* "entry" before KVM_RUN, "exit" after it, "served" before the observer
    trace,        \* io_exits and mmio_exits, merged: what the caller is given
    dataKnown,    \* supports_internal_error_data
    result

loopVars == <<completed, exitReasons, page, pc, trace, dataKnown, result>>

Plain == {[reason |-> r] : r \in {"hlt", "shutdown", "debug", "unknown", "exception",
                                  "fail_entry", "unhandled"}}
Counted == [reason : {"internal", "system"}, ndata : DataCounts]
Exits == IoExits \cup MmioExits \cup Plain \cup Counted
Stops == {"hlt", "shutdown", "debug"}

NoResponse == [at |-> 0, length |-> 0]
Idle == [exit |-> [reason |-> "none"], response |-> NoResponse]
Running == [kind |-> "running", trace |-> <<>>]

Reasons(exits) == [i \in DOMAIN exits |-> exits[i].reason]
IsRead(e) == e.reason \in {"io", "mmio"} /\ e.dir \in {"in", "read"}

-----------------------------------------------------------------------------
(* Decoding and dispatch. *)

\* checked_io_data_range
IoRangeFits(e) == e.offset + e.size * e.count <= MappingSize

\* port_io_exit: direction and data range are ones the crate understands.
DecodesIo(e) == e.dir # "bad" /\ IoRangeFits(e)

\* mmio_exit, checked_mmio_length
DecodesMmio(e) == e.dir # "bad" /\ e.length \in 1 .. MmioCapacity

\* PortIoBus::dispatch: DebugPort::handle and PciConfigMechanism1::dispatch look at size
\* and count; no other port is handled.
PortHandles(e) ==
    CASE e.port = "debug" -> e.size = 1 /\ e.count = 1
      [] e.port = "pci" -> e.size = 4 /\ e.count = 1
      [] e.port = "other" -> FALSE

\* Wrong on purpose: port responses are written at the start of the page.
PortResponseAtStart(e) == [at |-> 0, length |-> IF e.port = "debug" THEN 1 ELSE 4]

\* write_port_io_input: one debug byte or one config dword at the exit's data offset.
PortResponse(e) == [at |-> e.offset, length |-> IF e.port = "debug" THEN 1 ELSE 4]

\* write_mmio_read_response fills the first bytes of the fixed data array.
MmioResponse(e) == [at |-> 0, length |-> e.length]

Response(e) ==
    CASE ~IsRead(e) -> NoResponse
      [] IsRead(e) /\ e.reason = "io" -> PortResponse(e)
      [] IsRead(e) /\ e.reason = "mmio" -> MmioResponse(e)

\* The optional data is looked at only when the host reported that it exists.
InternalError(e) ==
    IF dataKnown /\ e.ndata > DataCapacity THEN "bad internal data" ELSE "internal"

SystemEvent(e) == IF e.ndata > DataCapacity THEN "bad system data" ELSE "system"

\* dispatch_vcpu_exit: how one exit ends.  "refused" stands for the errors of the decoders
\* and the buses, which attach_completed_exit_trace leaves alone; every other error name
\* is one whose trace it fills in.
Disposition(e) ==
    CASE e.reason \in Stops -> "stopped"
      [] e.reason = "io" -> IF DecodesIo(e) /\ PortHandles(e) THEN "continue" ELSE "refused"
      [] e.reason = "mmio" -> IF DecodesMmio(e) /\ e.handled THEN "continue" ELSE "refused"
      [] e.reason = "internal" -> InternalError(e)
      [] e.reason = "system" -> SystemEvent(e)
      [] OTHER -> e.reason

\* Wrong on purpose: the error keeps the one-reason trace it was constructed with.
AttachNothing(kind) ==
    [kind |-> kind, trace |-> <<exitReasons[Len(exitReasons)]>>]

\* attach_completed_exit_trace
AttachCompletedExitTrace(kind) ==
    [kind |-> kind, trace |-> IF kind = "refused" THEN <<>> ELSE exitReasons]

-----------------------------------------------------------------------------
(* The loop. *)

LoopInit ==
    /\ completed = <<>> /\ exitReasons = <<>> /\ trace = <<>>
    /\ page = Idle
    /\ pc = "entry"
    /\ dataKnown \in BOOLEAN
    /\ result = Running

Return(r) == result' = r /\ pc' = "returned"

\* ExitBudget::ensure_run_allowed
RunAllowed == Len(exitReasons) < Limit

Exhausted ==
    /\ pc = "entry" /\ ~RunAllowed
    /\ Return([kind |-> "exhausted", trace |-> exitReasons])
    /\ UNCHANGED <<completed, exitReasons, page, trace, dataKnown>>

\* run_once fails: KVM_RUN returns an errno other than EINTR (EINTR is retried inside).
RunFails ==
    /\ pc = "entry" /\ RunAllowed
    /\ Return([kind |-> "KVM_RUN", trace |-> <<>>])
    /\ UNCHANGED <<completed, exitReasons, page, trace, dataKnown>>

\* run_once returns with an exit on the page, and record_completed_exit counts it.
RunOnce(e) ==
    /\ pc = "entry" /\ RunAllowed
    /\ completed' = Append(completed, e)
    /\ exitReasons' = Append(exitReasons, e.reason)
    /\ page' = [exit |-> e, response |-> NoResponse]
    /\ pc' = "exit"
    /\ UNCHANGED <<trace, dataKnown, result>>

\* The exit is served; a read has its response on the page before the observer runs.
Serve ==
    /\ pc = "exit" /\ Disposition(page.exit) = "continue"
    /\ page' = [page EXCEPT !.response = Response(page.exit)]
    /\ pc' = "served"
    /\ UNCHANGED <<completed, exitReasons, trace, dataKnown, result>>

\* The stop reads the registers; that can fail, and the error then has no trace.
Stop ==
    /\ pc = "exit" /\ Disposition(page.exit) = "stopped"
    /\ \/ Return([kind |-> "stopped", trace |-> exitReasons])
       \/ Return([kind |-> "KVM_GET_REGS", trace |-> <<>>])
    /\ UNCHANGED <<completed, exitReasons, page, trace, dataKnown>>

\* A system event and an unhandled exit are reported with the registers, too.
DispatchFails ==
    /\ pc = "exit" /\ Disposition(page.exit) \notin {"continue", "stopped"}
    /\ \/ Return(AttachCompletedExitTrace(Disposition(page.exit)))
       \/ /\ Disposition(page.exit) \in {"system", "unhandled"}
          /\ Return([kind |-> "KVM_GET_REGS", trace |-> <<>>])
    /\ UNCHANGED <<completed, exitReasons, page, trace, dataKnown>>

\* Wrong on purpose: the exit is pushed only when the observer has nothing to say about it.
ObserveDropsReads ==
    /\ pc = "served"
    /\ trace' = IF IsRead(page.exit) THEN trace ELSE Append(trace, page.exit)
    /\ pc' = "entry"
    /\ UNCHANGED <<completed, exitReasons, page, dataKnown, result>>

\* The observer accepts; the exit joins the caller's trace and the loop goes round.
Observe ==
    /\ pc = "served"
    /\ trace' = Append(trace, page.exit)
    /\ pc' = "entry"
    /\ UNCHANGED <<completed, exitReasons, page, dataKnown, result>>

\* The observer's own error is not one of those that carry a trace.
ObserverFails ==
    /\ pc = "served"
    /\ Return([kind |-> "observer", trace |-> <<>>])
    /\ UNCHANGED <<completed, exitReasons, page, trace, dataKnown>>

LoopNext ==
    \/ Exhausted \/ RunFails \/ Serve \/ Stop \/ DispatchFails \/ Observe \/ ObserverFails
    \/ \E e \in Exits : RunOnce(e)

LoopSpec == LoopInit /\ [][LoopNext]_loopVars

-----------------------------------------------------------------------------
(* Properties. *)

\* A report, an exhausted budget and an exit error tell the whole history: the trace they
\* carry is every exit KVM completed, in order, whatever the error was constructed with.
TraceIsWhole ==
    result.kind \notin {"running", "KVM_RUN", "KVM_GET_REGS", "observer", "refused"} =>
        result.trace = Reasons(completed)

\* The budget never hides an exit: when it runs out, every completed exit was served and
\* handed to the observer, and none of them was a stop or an error; so a guest that stops
\* on the last exit it was allowed is reported as stopped.
ExhaustionHidesNothing ==
    result.kind = "exhausted" =>
        /\ Len(completed) = Limit
        /\ trace = completed
        /\ \A i \in DOMAIN completed : Disposition(completed[i]) = "continue"

\* The vCPU is entered again only when the previous exit was served: a read is answered
\* with the number of bytes the guest asked for, where KVM will look for them, inside the
\* mapping.
ReentryFindsResponse ==
    [][(completed' # completed /\ completed # <<>>) =>
        LET e == page.exit
            r == page.response
        IN  /\ Disposition(e) = "continue"
            /\ IsRead(e) =>
                  /\ r.length = IF e.reason = "io" THEN e.size * e.count ELSE e.length
                  /\ r.at = IF e.reason = "io" THEN e.offset ELSE 0
                  /\ e.reason = "io" => r.at + r.length <= MappingSize]_loopVars
=============================================================================
