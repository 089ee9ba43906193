------------------------------ MODULE UserCopy ------------------------------
(***************************************************************************)
(* The services of UserCopyCode at work: user calls, kernel instructions,  *)
(* page faults, the terminal gate, and the host that counts the exits and  *)
(* verifies what the fixture left behind.                                  *)
(*                                                                         *)
(* The caller is the fixture's own program, whose results the host         *)
(* verifies, or any program that passes user addresses: what a service     *)
(* promises does not depend on who calls it.                               *)
(***************************************************************************)
EXTENDS UserCopyCode

CONSTANTS MaxCalls,   \* calls an open caller makes
          Pointers,   \* per fixture, the addresses an open caller passes
          Lengths     \* the lengths an open caller passes

\* An open caller passes addresses of user memory, from which a range of four
\* bytes does not leave it.
ASSUME CallerAssumption ==
  /\ MaxCalls \in Nat /\ Lengths \subseteq Nat
  /\ \A f \in DOMAIN Suite : \A a \in Pointers[f] :
       a \in Nat /\ PageOf(IF f \in Ranged THEN a + 3 ELSE a) \in DOMAIN Suite[f].pages

VARIABLES fx,       \* the fixture
          own,      \* whether its own program runs
          calls,    \* calls made
          pc,       \* where the vCPU is: in user mode, at a kernel instruction, stopped
          at,       \* offset of the kernel instruction
          regs, mem,
          fault,    \* what the processor pushed for a page fault
          obs,      \* the observations the fault handler stored
          proof,    \* bytes written to the debug port
          returns,  \* results the user program stored
          entry,    \* registers, memory and observations when the call was made
          verdict

vars == <<fx, own, calls, pc, at, regs, mem, fault, obs, proof, returns, entry, verdict>>

NoFault == [cr2 |-> 0, error |-> 0, rip |-> 0]
NoObs   == [cr2 |-> 0, error |-> 0, rip |-> 0, fixup |-> 0]
Scratch == -1
Zeroed  == [rax |-> 0, rdi |-> 0, rsi |-> 0, rdx |-> 0, r8 |-> 0, r9 |-> 0]

Init ==
  /\ fx \in DOMAIN Suite /\ own \in BOOLEAN
  /\ calls = 0 /\ pc = "user" /\ at = 0
  /\ regs = Zeroed /\ mem = Suite[fx].mem
  /\ fault = NoFault /\ obs = [s \in {"read", "write"} |-> NoObs]
  /\ proof = <<>> /\ returns = <<>> /\ verdict = "none"
  /\ entry = [regs |-> Zeroed, mem |-> Suite[fx].mem, obs |-> [s \in {"read", "write"} |-> NoObs]]

Present(f, a) == Suite[f].pages[PageOf(a)]

-----------------------------------------------------------------------------
\* User mode

\* The registers an open caller may set.
OpenCalls ==
  LET p == Pointers[fx] IN
  CASE fx \in {"copyin", "copyout"} -> {[rdi |-> a] : a \in p}
    [] fx \in {"usercopy", "cross"} -> {Copy(a, b) : a, b \in p}
    [] fx = "dispatch" -> {CopyByte(a, b) : a, b \in p} \cup {Character, Unknown}
    [] fx = "partial"  -> {CopyByte(a, b) : a, b \in p} \cup {Character, Unknown}
                            \cup {Range(a, b, n) : a, b \in p, n \in Lengths}

Loaded(set) == [r \in DOMAIN regs |-> IF r \in DOMAIN set THEN set[r] ELSE regs[r]]

Syscall(set) ==
  /\ pc = "user"
  /\ regs' = Loaded(set)
  /\ entry' = [regs |-> Loaded(set), mem |-> mem, obs |-> obs]
  /\ calls' = calls + 1 /\ pc' = "kernel" /\ at' = 13
  /\ UNCHANGED <<fx, own, mem, fault, obs, proof, returns, verdict>>

CallOwn  == own /\ calls < Len(Suite[fx].program) /\ Syscall(Suite[fx].program[calls + 1].set)
CallOpen == ~own /\ calls < MaxCalls /\ \E set \in OpenCalls : Syscall(set)

\* The program stores the result and does what follows the call.
StoreResult ==
  LET after == IF own THEN Suite[fx].program[calls].after ELSE "" IN
  /\ pc = "returned" /\ pc' = "user"
  /\ returns' = returns \o <<regs.rax>>
                  \o (IF after \in {"rdi", "rsi"} THEN <<mem[regs[after]]>> ELSE <<>>)
  /\ proof' = IF after = "int" THEN Append(proof, Char("K")) ELSE proof
  /\ UNCHANGED <<fx, own, calls, at, regs, mem, fault, obs, entry, verdict>>

\* int 0x81: the terminal handler says "D" and halts.
Terminal ==
  /\ pc = "user" /\ calls = (IF own THEN Len(Suite[fx].program) ELSE MaxCalls)
  /\ pc' = "halted" /\ proof' = Append(proof, Char("D"))
  /\ UNCHANGED <<fx, own, calls, at, regs, mem, fault, obs, returns, entry, verdict>>

-----------------------------------------------------------------------------
\* Kernel mode

Current == Code(fx, at)
Address ==
  (IF Current.op = "store" THEN regs.rsi ELSE regs.rdi)
    + (IF Current.op # "poke" /\ Current.arg THEN regs.r8 ELSE 0)

Goto(offset) == at' = offset /\ pc' = "kernel"

Access ==
  /\ pc = "kernel" /\ Current.op \in {"load", "store", "poke"}
  /\ Present(fx, Address)
  /\ IF Current.op = "load" THEN regs' = [regs EXCEPT !.rax = mem[Address]] /\ UNCHANGED mem
     ELSE /\ mem' = [mem EXCEPT ![Address] = IF Current.op = "poke" THEN Current.arg ELSE regs.rax]
          /\ UNCHANGED regs
  /\ Goto(Current.next)
  /\ UNCHANGED <<fx, own, calls, fault, obs, proof, returns, entry, verdict>>

\* The kernel reads or writes an absent page: bit 1 of the error code tells.
PageFault ==
  /\ pc = "kernel" /\ Current.op \in {"load", "store", "poke"}
  /\ ~Present(fx, Address)
  /\ fault' = [cr2 |-> Address, error |-> IF Current.op = "load" THEN 0 ELSE 2, rip |-> at]
  /\ pc' = "fault"
  /\ UNCHANGED <<fx, own, calls, at, regs, mem, obs, proof, returns, entry, verdict>>

\* PAGE_FAULT_HANDLER_BYTES: a listed site is recorded and resumed at its
\* fixup; any other says "X" and halts.  The handlers of copyin.rs and
\* copyout.rs say "F" themselves and leave the error in rax.
HandlePageFault ==
  LET listed == fault.rip \in DOMAIN Suite[fx].fixups
      f      == Suite[fx].fixups[fault.rip]
      simple == fx \in {"copyin", "copyout"} IN
  /\ pc = "fault"
  /\ \/ /\ listed
        /\ obs' = [obs EXCEPT ![f.slot] =
                     [cr2 |-> fault.cr2, error |-> fault.error, rip |-> fault.rip, fixup |-> f.fixup]]
        /\ regs' = [regs EXCEPT !.r8  = IF HandlerSetsR8(fx) THEN EFAULT ELSE @,
                                !.rax = IF simple THEN EFAULT ELSE Scratch,
                                !.rdx = Scratch, !.r9 = IF simple THEN @ ELSE Scratch]
        /\ proof' = IF simple THEN Append(proof, Char("F")) ELSE proof
        /\ Goto(f.fixup)
     \/ /\ ~listed
        /\ proof' = Append(proof, Char("X")) /\ pc' = "stopped"
        /\ UNCHANGED <<at, regs, obs>>
  /\ UNCHANGED <<fx, own, calls, mem, fault, returns, entry, verdict>>

\* mov, xor and the debug port.
Compute ==
  /\ pc = "kernel" /\ Current.op \in {"set", "move", "emit", "putc"}
  /\ regs' = CASE Current.op = "set"  -> [regs EXCEPT ![Current.arg[1]] = Current.arg[2]]
               [] Current.op = "move" -> [regs EXCEPT ![Current.arg[1]] = regs[Current.arg[2]]]
               [] Current.op = "emit" -> [regs EXCEPT !.rax = Current.arg]
               [] Current.op = "putc" -> [regs EXCEPT !.rax = regs.rdi]
  /\ proof' = IF Current.op \in {"emit", "putc"} THEN Append(proof, regs'.rax) ELSE proof
  /\ Goto(Current.next)
  /\ UNCHANGED <<fx, own, calls, mem, fault, obs, returns, entry, verdict>>

\* The number in rax, the length in rdx, the count in r8.  Services are numbered from 0.
Branch ==
  /\ pc = "kernel" /\ Current.op \in {"dispatch", "length", "loop"}
  /\ regs' = IF Current.op = "loop" THEN [regs EXCEPT !.r8 = @ + 1] ELSE regs
  /\ Goto(CASE Current.op = "dispatch" ->
                 IF regs.rax + 1 \in DOMAIN Current.arg THEN Current.arg[regs.rax + 1] ELSE Current.next
            [] Current.op = "length" -> IF LengthAccepted(regs.rdx) THEN Current.next ELSE Current.arg
            [] Current.op = "loop" ->
                 IF regs.r8 + 1 < RangeEnd(fx, regs.rdx) THEN Current.arg ELSE Current.next)
  /\ UNCHANGED <<fx, own, calls, mem, fault, obs, proof, returns, entry, verdict>>

Return ==
  /\ pc = "kernel" /\ Current.op = "sysret"
  /\ pc' = "returned"
  /\ UNCHANGED <<fx, own, calls, at, regs, mem, fault, obs, proof, returns, entry, verdict>>

-----------------------------------------------------------------------------
\* The host: run_vcpu_until_stopped, then validate_runtime_state

\* Every OUT is an exit and so is the final HLT.
Verified ==
  /\ Len(proof) + 1 <= Suite[fx].budget
  /\ pc = "halted" /\ proof = Suite[fx].proof
  /\ returns = States[fx].returns
  /\ \A a \in DOMAIN States[fx].bytes : mem[a] = States[fx].bytes[a]
  /\ \A s \in DOMAIN States[fx].obs : obs[s] = States[fx].obs[s]
  /\ fault.cr2 = States[fx].cr2

Verify ==
  /\ own /\ pc \in {"halted", "stopped"} /\ verdict = "none"
  /\ verdict' = IF Verified THEN "verified" ELSE "refused"
  /\ UNCHANGED <<fx, own, calls, pc, at, regs, mem, fault, obs, proof, returns, entry>>

Next ==
  \/ CallOwn \/ CallOpen \/ StoreResult \/ Terminal
  \/ Access \/ PageFault \/ HandlePageFault \/ Compute \/ Branch \/ Return
  \/ Verify

Spec == Init /\ [][Next]_vars

-----------------------------------------------------------------------------
\* What a service promises

\* Memory after the first k bytes were copied, one after the other; no service
\* copies more than four.
CopyOne(m, s, d, i) == [m EXCEPT ![d + i] = m[s + i]]
Copied(m, s, d, k) ==
  LET m1 == CopyOne(m, s, d, 0)   m2 == CopyOne(m1, s, d, 1)
      m3 == CopyOne(m2, s, d, 2)  m4 == CopyOne(m3, s, d, 3)
  IN CASE k = 0 -> m [] k = 1 -> m1 [] k = 2 -> m2 [] k = 3 -> m3 [] k = 4 -> m4

\* How many bytes can be copied before one of the two pages is absent.
Reach(f, s, d, n) ==
  LET ok(k) == \A i \in 0..(k - 1) : Present(f, s + i) /\ Present(f, d + i)
  IN CHOOSE k \in 0..n : ok(k) /\ (k = n \/ ~ok(k + 1))

Promise(ret, m) == [ret |-> ret, mem |-> m]
RangePromise(f, e, n) ==
  LET s == e.regs.rdi  d == e.regs.rsi  k == Reach(f, s, d, n) IN Promise(k, Copied(e.mem, s, d, k))
BytePromise(f, e) ==
  LET s == e.regs.rdi  d == e.regs.rsi IN
  IF Reach(f, s, d, 1) = 1 THEN Promise(0, Copied(e.mem, s, d, 1)) ELSE Promise(EFAULT, e.mem)

\* The result and the memory that fixture f promises for a call.
Promised(f, e) ==
  CASE f = "copyin" ->
         Promise(IF Present(f, e.regs.rdi) THEN e.mem[e.regs.rdi] ELSE EFAULT, e.mem)
    [] f = "copyout" ->
         IF Present(f, e.regs.rdi) THEN Promise(0, [e.mem EXCEPT ![e.regs.rdi] = Value])
         ELSE Promise(EFAULT, e.mem)
    [] f = "usercopy" -> BytePromise(f, e)
    [] f = "cross"    -> RangePromise(f, e, 4)
    [] f \in {"dispatch", "partial"} ->
         CASE e.regs.rax = 0 -> BytePromise(f, e)
           [] e.regs.rax = 1 -> Promise(0, e.mem)
           [] e.regs.rax = 2 /\ f = "partial" ->
                IF e.regs.rdx \in 1..4 THEN RangePromise(f, e, e.regs.rdx) ELSE Promise(EINVAL, e.mem)
           [] OTHER -> Promise(ENOSYS, e.mem)

\* A call that returns did exactly what its service promises: the result counts the
\* bytes that were copied, those bytes and no other changed, byte by byte also when the
\* buffers overlap, and an observation changed only for a fault at an absent page.  A
\* page fault in the middle of a copy loses no progress (PAGE_FAULT_HANDLER_BYTES).
ReturnsMeetContract ==
  pc = "returned" =>
    /\ regs.rax = Promised(fx, entry).ret
    /\ mem = Promised(fx, entry).mem
    /\ \A s \in DOMAIN obs : obs[s] # entry.obs[s] =>
         ~Present(fx, obs[s].cr2) /\ obs[s].error = (IF s = "read" THEN 0 ELSE 2)

\* The program of each fixture is verified (validate_runtime_state): its nine or fewer
\* calls stay within the exit budget, every fault is at a listed site, and what the host
\* finds in memory is what it expects.
OwnCallsVerified == own => verdict # "refused" /\ pc # "stopped"
=============================================================================
