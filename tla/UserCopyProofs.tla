--------------------------- MODULE UserCopyProofs ---------------------------
(***************************************************************************)
(* Every system-call service keeps its contract: for every page size, for  *)
(* callers that make any number of calls with any pointers and lengths,    *)
(* and for the fixtures' own programs.                                     *)
(*                                                                         *)
(* The proof is Floyd's: one assertion for each offset of the services'    *)
(* code.  Before the outcome of a call is known the assertion says how far *)
(* the copy came; from then on it says which register holds the promised   *)
(* result.                                                                 *)
(***************************************************************************)
EXTENDS UserCopy, TLAPS

Fixtures  == {"copyin", "copyout", "usercopy", "dispatch", "cross", "partial"}
Registers == {"rax", "rdi", "rsi", "rdx", "r8", "r9"}
Slots     == {"read", "write"}

Src == entry.regs.rdi
Dst == entry.regs.rsi

\* The outcome of the call is known: memory is final and v is the result.
Settled(v) == Promised(fx, entry) = Promise(v, mem)

\* Nothing is copied yet; then the byte to copy is in al.
Untouched == mem = entry.mem
Fetched   == mem = entry.mem /\ Present(fx, Src) /\ regs.rax = mem[Src]

\* The first k bytes of a range are copied.
Intact(k)   == \A i \in 0..(k - 1) : Present(fx, Src + i) /\ Present(fx, Dst + i)
Progress(k) == Intact(k) /\ mem = Copied(entry.mem, Src, Dst, k)

CopyinAt ==
  \/ at = 13 /\ Untouched
  \/ at \in {16, 26} /\ Settled(regs.rax)
  \/ at \in {19, 23} /\ Settled(regs.r8)

CopyoutAt ==
  \/ at = 13 /\ Untouched
  \/ at = 16 /\ Settled(0)
  \/ at \in {19, 23} /\ Settled(regs.r8)
  \/ at = 26 /\ Settled(regs.rax)

UsercopyAt ==
  \/ at = 13 /\ Untouched
  \/ at = 16 /\ Fetched
  \/ at = 18 /\ Settled(0)
  \/ at \in {21, 27, 33, 37} /\ Settled(regs.r8)
  \/ at = 40 /\ Settled(regs.rax)

ByteServicesAt ==
  \/ at = 38 /\ entry.regs.rax = 0 /\ Untouched
  \/ at = 41 /\ entry.regs.rax = 0 /\ Fetched
  \/ at \in {43, 47, 77, 82} /\ Settled(0)
  \/ at \in {51, 55, 64, 68} /\ Settled(EFAULT)
  \/ at = 84 /\ Settled(regs.rax)

DispatchAt ==
  \/ at = 13 /\ Untouched /\ regs.rax = entry.regs.rax
  \/ at \in {25, 29} /\ Settled(ENOSYS)
  \/ ByteServicesAt

\* A range copy of n bytes, with its load, store and loop instructions.
RangeAt(n, load, store, loop) ==
  /\ regs.r8 \in 0..(n - 1)
  /\ \/ at = load /\ Progress(regs.r8)
     \/ /\ at = store /\ Progress(regs.r8)
        /\ Present(fx, Src + regs.r8) /\ regs.rax = mem[Src + regs.r8]
     \/ at = loop /\ Progress(regs.r8 + 1)

CrossAt ==
  \/ at = 13 /\ Untouched
  \/ RangeAt(4, 19, 24, 28)
  \/ at = 37 /\ Settled(regs.r8)
  \/ at = 40 /\ Settled(regs.rax)

PartialAt ==
  \/ at = 13 /\ Untouched /\ regs.rax = entry.regs.rax /\ regs.rdx = entry.regs.rdx
  \/ at \in {90, 94} /\ Settled(ENOSYS)
  \/ /\ entry.regs.rax = 2 /\ regs.rdx = entry.regs.rdx
     /\ \/ at = 103 /\ Untouched
        \/ at = 114 /\ Untouched /\ regs.rdx \in 1..4
        \/ RangeAt(regs.rdx, 120, 125, 130) /\ regs.rdx \in 1..4
  \/ at \in {137, 152} /\ Settled(regs.r8)
  \/ at \in {143, 147, 158, 162} /\ Settled(regs.r9)
  \/ at \in {167, 171} /\ Settled(EINVAL)
  \/ ByteServicesAt

AtInv ==
  CASE fx = "copyin"   -> CopyinAt
    [] fx = "copyout"  -> CopyoutAt
    [] fx = "usercopy" -> UsercopyAt
    [] fx = "dispatch" -> DispatchAt
    [] fx = "cross"    -> CrossAt
    [] fx = "partial"  -> PartialAt

\* The instructions that touch user memory.
Sites(f) ==
  CASE f \in {"copyin", "copyout"} -> {13}
    [] f = "usercopy" -> {13, 16}
    [] f = "dispatch" -> {38, 41}
    [] f = "cross"    -> {19, 24}
    [] f = "partial"  -> {38, 41, 120, 125}

\* A page fault is pending at the instruction whose access failed.
FaultInv ==
  /\ at \in Sites(fx) /\ ~Present(fx, Address)
  /\ fault = [cr2 |-> Address, error |-> IF Current.op = "load" THEN 0 ELSE 2, rip |-> at]

\* An observation that changed since the call is one of a fault.
ObservedInv ==
  \A s \in Slots : obs[s] # entry.obs[s] =>
    ~Present(fx, obs[s].cr2) /\ obs[s].error = (IF s = "read" THEN 0 ELSE 2)

TypeOK ==
  /\ fx \in Fixtures /\ own \in BOOLEAN /\ calls \in Nat
  /\ pc \in {"user", "kernel", "fault", "returned", "halted", "stopped"}
  /\ DOMAIN regs = Registers /\ regs.rdi \in Nat /\ regs.rsi \in Nat
  /\ DOMAIN obs = Slots

\* During a call: the pointers are the caller's, a dispatcher was given a
\* number and its range copy a length.
CallInv ==
  pc \in {"kernel", "fault", "returned"} =>
    /\ regs.rdi = Src /\ regs.rsi = Dst
    /\ fx \in {"dispatch", "partial"} => entry.regs.rax \in Nat
    /\ fx = "partial" /\ entry.regs.rax = 2 => entry.regs.rdx \in Nat
    /\ ObservedInv

IInv ==
  /\ TypeOK /\ CallInv
  /\ pc \in {"kernel", "fault"} => AtInv
  /\ pc = "fault" => FaultInv
  /\ pc = "returned" => Settled(regs.rax)
  /\ pc = "stopped" => fx = "partial" /\ fault.rip \in {38, 41}

-----------------------------------------------------------------------------
(* What a service promises.                                                *)

\* One more byte of a copy.
LEMMA CopiedNext ==
  ASSUME NEW m, NEW s, NEW d, NEW k \in 0..3
  PROVE  Copied(m, s, d, k + 1) = CopyOne(Copied(m, s, d, k), s, d, k)
  <1>1. CASE k = 0
    BY <1>1 DEF Copied
  <1>2. CASE k = 1
    BY <1>2 DEF Copied
  <1>3. CASE k = 2
    BY <1>3 DEF Copied
  <1>4. CASE k = 3
    BY <1>4 DEF Copied
  <1>5. QED
    BY <1>1, <1>2, <1>3, <1>4

\* The reach of a copy is where it ends or where a page is absent.
LEMMA ReachIs ==
  ASSUME NEW f, NEW s \in Nat, NEW d \in Nat, NEW n \in Nat, NEW k \in 0..n,
         \A i \in 0..(k - 1) : Present(f, s + i) /\ Present(f, d + i),
         k = n \/ ~(Present(f, s + k) /\ Present(f, d + k))
  PROVE  Reach(f, s, d, n) = k
  <1> DEFINE ok(j) == \A i \in 0..(j - 1) : Present(f, s + i) /\ Present(f, d + i)
             Is(j) == ok(j) /\ (j = n \/ ~ok(j + 1))
  <1>1. Is(k)
    OBVIOUS
  <1>2. ASSUME NEW j \in 0..n, Is(j)
        PROVE  j = k
    <2>1. CASE j < k
      <3>1. ok(j + 1)
        BY <2>1
      <3>2. QED
        BY <1>2, <2>1, <3>1
    <2>2. CASE k < j
      <3>1. Present(f, s + k) /\ Present(f, d + k)
        BY <1>2, <2>2
      <3>2. QED
        BY <2>2, <3>1
    <2>3. QED
      BY <2>1, <2>2
  <1>3. Reach(f, s, d, n) = CHOOSE j \in 0..n : Is(j)
    BY Zenon DEF Reach
  <1>4. QED
    BY <1>1, <1>2, <1>3, Zenon

\* A byte copy with both pages present promises 0 and the one byte written.
LEMMA ByteCopied ==
  ASSUME NEW f, NEW e, e.regs.rdi \in Nat, e.regs.rsi \in Nat,
         Present(f, e.regs.rdi), Present(f, e.regs.rsi)
  PROVE  BytePromise(f, e) = Promise(0, [e.mem EXCEPT ![e.regs.rsi] = e.mem[e.regs.rdi]])
  <1>1. \A i \in 0..(1 - 1) : Present(f, e.regs.rdi + i) /\ Present(f, e.regs.rsi + i)
    OBVIOUS
  <1>2. Reach(f, e.regs.rdi, e.regs.rsi, 1) = 1
    <2>1. 1 \in Nat /\ 1 \in 0..1
      OBVIOUS
    <2>2. QED
      BY <1>1, <2>1, ReachIs, Zenon
  <1>3. QED
    BY <1>2 DEF BytePromise, Copied, CopyOne

\* A byte copy with an absent page promises EFAULT and unchanged memory.
LEMMA ByteRefused ==
  ASSUME NEW f, NEW e, e.regs.rdi \in Nat, e.regs.rsi \in Nat,
         ~(Present(f, e.regs.rdi) /\ Present(f, e.regs.rsi))
  PROVE  BytePromise(f, e) = Promise(EFAULT, e.mem)
  <1>1. Reach(f, e.regs.rdi, e.regs.rsi, 1) = 0
    BY ReachIs
  <1>2. QED
    BY <1>1 DEF BytePromise

-----------------------------------------------------------------------------
(* What one instruction does.                                              *)

Executes == pc = "kernel" /\ (Access \/ Compute \/ Branch)

\* No instruction of a service changes the pointers, the length or an observation.
Kept ==
  /\ pc' = "kernel" /\ UNCHANGED <<fx, own, calls, entry, obs>>
  /\ DOMAIN regs' = Registers
  /\ regs'.rdi = regs.rdi /\ regs'.rsi = regs.rsi /\ regs'.rdx = regs.rdx

\* MOV between registers.
LEMMA Moves ==
  ASSUME Executes, DOMAIN regs = Registers, NEW r \in {"rax", "r8", "r9"},
         NEW s \in Registers, NEW next, Current = Move(r, s, next)
  PROVE  Kept /\ at' = next /\ mem' = mem /\ regs'[r] = regs[s]
  BY DEF Executes, Access, Compute, Branch, Goto, Move, Instr, Registers, Kept

\* MOV of a constant, or XOR of a register with itself.
LEMMA Sets ==
  ASSUME Executes, DOMAIN regs = Registers, NEW r \in {"rax", "r8", "r9"},
         NEW v, NEW next, Current = Set(r, v, next)
  PROVE  Kept /\ at' = next /\ mem' = mem /\ regs'[r] = v
  BY Zenon DEF Executes, Access, Compute, Branch, Goto, Set, Instr, Registers, Kept

\* MOV of a proof byte to al and OUT to the debug port: only rax changes.
LEMMA Emits ==
  ASSUME Executes, DOMAIN regs = Registers, NEW c, NEW next, Current = Emit(c, next)
  PROVE  Kept /\ at' = next /\ mem' = mem /\ regs'.r8 = regs.r8 /\ regs'.r9 = regs.r9
  BY Zenon DEF Executes, Access, Compute, Branch, Goto, Emit, Instr, Registers, Kept

\* The user's character goes to the debug port through al.
LEMMA Puts ==
  ASSUME Executes, DOMAIN regs = Registers, NEW next, Current = Putc(next)
  PROVE  Kept /\ at' = next /\ mem' = mem
  BY Zenon DEF Executes, Access, Compute, Branch, Goto, Putc, Instr, Registers, Kept

\* A load that did not fault found its page present and put the byte in al.
LEMMA Loads ==
  ASSUME Executes, DOMAIN regs = Registers, regs.rdi \in Nat, NEW next, Current = Load(next)
  PROVE  /\ Kept /\ at' = next /\ mem' = mem
         /\ Present(fx, regs.rdi) /\ regs'.rax = mem[regs.rdi]
  BY DEF Executes, Access, Compute, Branch, Goto, Address, Load, Instr, Registers, Kept

\* The load of a range copy adds the count in r8.
LEMMA LoadsIndexed ==
  ASSUME Executes, DOMAIN regs = Registers, NEW next, Current = LoadIndexed(next)
  PROVE  /\ Kept /\ at' = next /\ mem' = mem /\ regs'.r8 = regs.r8
         /\ Present(fx, regs.rdi + regs.r8) /\ regs'.rax = mem[regs.rdi + regs.r8]
  BY Zenon DEF Executes, Access, Compute, Branch, Goto, Address, LoadIndexed, Instr, Registers, Kept

\* A store that did not fault found its page present and wrote al.
LEMMA Stores ==
  ASSUME Executes, DOMAIN regs = Registers, regs.rsi \in Nat, NEW next, Current = Store(next)
  PROVE  /\ Kept /\ at' = next /\ regs' = regs
         /\ Present(fx, regs.rsi) /\ mem' = [mem EXCEPT ![regs.rsi] = regs.rax]
  BY DEF Executes, Access, Compute, Branch, Goto, Address, Store, Instr, Registers, Kept

\* The store of a range copy adds the count in r8.
LEMMA StoresIndexed ==
  ASSUME Executes, DOMAIN regs = Registers, NEW next, Current = StoreIndexed(next)
  PROVE  /\ Kept /\ at' = next /\ regs' = regs
         /\ Present(fx, regs.rsi + regs.r8)
         /\ mem' = [mem EXCEPT ![regs.rsi + regs.r8] = regs.rax]
  BY Zenon DEF Executes, Access, Compute, Branch, Goto, Address, StoreIndexed, Instr, Registers, Kept

\* The constant store of copyout.rs.
LEMMA Pokes ==
  ASSUME Executes, DOMAIN regs = Registers, regs.rdi \in Nat, NEW v, NEW next,
         Current = StoreByte(v, next)
  PROVE  /\ Kept /\ at' = next /\ regs' = regs
         /\ Present(fx, regs.rdi) /\ mem' = [mem EXCEPT ![regs.rdi] = v]
  BY DEF Executes, Access, Compute, Branch, Goto, Address, StoreByte, Instr, Registers, Kept

\* The comparisons of the number in rax select a service or the unknown path.
LEMMA Dispatches ==
  ASSUME Executes, DOMAIN regs = Registers, NEW table, NEW next, Current = Dispatch(table, next)
  PROVE  /\ Kept /\ mem' = mem /\ regs' = regs
         /\ at' = IF regs.rax + 1 \in DOMAIN table THEN table[regs.rax + 1] ELSE next
  BY Zenon DEF Executes, Access, Compute, Branch, Goto, Dispatch, Instr, Registers, Kept

\* The length in rdx is accepted or leads to the EINVAL path.
LEMMA ChecksLength ==
  ASSUME Executes, DOMAIN regs = Registers, NEW bad, NEW next, Current = CheckLength(bad, next)
  PROVE  /\ Kept /\ mem' = mem /\ regs' = regs
         /\ at' = IF LengthAccepted(regs.rdx) THEN next ELSE bad
  BY Zenon DEF Executes, Access, Compute, Branch, Goto, CheckLength, Instr, Registers, Kept

\* The count in r8 is incremented and compared with the range's end.
LEMMA Loops ==
  ASSUME Executes, DOMAIN regs = Registers, NEW back, NEW next, Current = Loop(back, next)
  PROVE  /\ Kept /\ mem' = mem /\ regs'.r8 = regs.r8 + 1
         /\ at' = IF regs.r8 + 1 < RangeEnd(fx, regs.rdx) THEN back ELSE next
  BY Zenon DEF Executes, Access, Compute, Branch, Goto, Loop, Instr, Registers, Kept

\* SYSRET is none of the executing instructions.
LEMMA SysretLeaves ==
  ASSUME Executes, Current = Sysret
  PROVE  FALSE
  BY Zenon DEF Executes, Access, Compute, Branch, Sysret, Instr

-----------------------------------------------------------------------------
(* The services, instruction by instruction.                               *)

\* Each instruction of copyin.rs's service leads from its assertion to the next.
LEMMA CopyinStep ==
  ASSUME IInv, Executes, fx = "copyin"
  PROVE  Kept /\ CopyinAt'
  <1> USE DEF Current, Code, CopyinHandler
  <1>1. /\ CopyinAt /\ DOMAIN regs = Registers
        /\ regs.rdi = Src /\ regs.rsi = Dst /\ Src \in Nat /\ Dst \in Nat
    BY Zenon DEF IInv, TypeOK, CallInv, AtInv, Executes
  <1>2. CASE at = 13
    BY <1>1, <1>2, Loads DEF CopyinAt, Untouched, Settled, Promised, Kept, Src
  <1>3. CASE at \in {16, 23}
    BY <1>1, <1>3, Moves DEF CopyinAt, Settled, Kept, Registers
  <1>4. CASE at = 19
    BY <1>1, <1>4, Emits DEF CopyinAt, Settled, Kept
  <1>5. CASE at = 26
    BY <1>1, <1>5, SysretLeaves DEF Kept
  <1>6. QED
    BY Zenon, <1>1, <1>2, <1>3, <1>4, <1>5 DEF CopyinAt

\* The same for copyout.rs.
LEMMA CopyoutStep ==
  ASSUME IInv, Executes, fx = "copyout"
  PROVE  Kept /\ CopyoutAt'
  <1> USE DEF Current, Code, CopyoutHandler
  <1>1. /\ CopyoutAt /\ DOMAIN regs = Registers
        /\ regs.rdi = Src /\ regs.rsi = Dst /\ Src \in Nat /\ Dst \in Nat
    BY Zenon DEF IInv, TypeOK, CallInv, AtInv, Executes
  <1>2. CASE at = 13
    BY <1>1, <1>2, Pokes DEF CopyoutAt, Untouched, Settled, Promised, Kept, Src
  <1>3. CASE at = 16
    BY <1>1, <1>3, Sets DEF CopyoutAt, Settled, Kept
  <1>4. CASE at = 19
    BY <1>1, <1>4, Emits DEF CopyoutAt, Settled, Kept
  <1>5. CASE at = 23
    BY <1>1, <1>5, Moves DEF CopyoutAt, Settled, Kept, Registers
  <1>6. CASE at = 26
    BY <1>1, <1>6, SysretLeaves DEF Kept
  <1>7. QED
    BY Zenon, <1>1, <1>2, <1>3, <1>4, <1>5, <1>6 DEF CopyoutAt

\* The same for syscall/usercopy.rs: two instructions may fault.
LEMMA UsercopyStep ==
  ASSUME IInv, Executes, fx = "usercopy"
  PROVE  Kept /\ UsercopyAt'
  <1> USE DEF Current, Code, UsercopyHandler
  <1>1. /\ UsercopyAt /\ DOMAIN regs = Registers
        /\ regs.rdi = Src /\ regs.rsi = Dst /\ Src \in Nat /\ Dst \in Nat
    BY Zenon DEF IInv, TypeOK, CallInv, AtInv, Executes
  <1>2. CASE at = 13
    BY <1>1, <1>2, Loads DEF UsercopyAt, Untouched, Fetched, Kept, Src
  <1>3. CASE at = 16
    BY <1>1, <1>3, Stores, ByteCopied DEF UsercopyAt, Fetched, Settled, Promised, Kept, Src, Dst
  <1>4. CASE at = 18
    BY <1>1, <1>4, Sets DEF UsercopyAt, Settled, Kept
  <1>5. CASE at \in {21, 27, 33}
    BY <1>1, <1>5, Emits DEF UsercopyAt, Settled, Kept
  <1>6. CASE at = 37
    BY <1>1, <1>6, Moves DEF UsercopyAt, Settled, Kept, Registers
  <1>7. CASE at = 40
    BY <1>1, <1>7, SysretLeaves DEF Kept
  <1>8. QED
    BY Zenon, <1>1, <1>2, <1>3, <1>4, <1>5, <1>6, <1>7 DEF UsercopyAt

\* The same for nr 0 and nr 1 of the two dispatchers, whose code is shared.
LEMMA ByteServicesStep ==
  ASSUME Executes, ByteServicesAt, Current = ByteServices(at), fx \in {"dispatch", "partial"},
         DOMAIN regs = Registers, regs.rdi = Src, regs.rsi = Dst, Src \in Nat, Dst \in Nat
  PROVE  Kept /\ ByteServicesAt'
  <1> USE DEF ByteServices
  <1>1. CASE at = 38
    BY <1>1, Loads DEF ByteServicesAt, Untouched, Fetched, Kept, Src
  <1>2. CASE at = 41
    BY <1>2, Stores, ByteCopied DEF ByteServicesAt, Fetched, Settled, Promised, Kept, Src, Dst
  <1>3. CASE at \in {43, 51, 64}
    BY <1>3, Emits DEF ByteServicesAt, Settled, Kept
  <1>4. CASE at \in {47, 55, 68, 82}
    BY <1>4, Sets DEF ByteServicesAt, Settled, Kept
  <1>5. CASE at = 77
    BY <1>5, Puts DEF ByteServicesAt, Settled, Kept
  <1>6. CASE at = 84
    BY <1>6, SysretLeaves
  <1>7. QED
    BY <1>1, <1>2, <1>3, <1>4, <1>5, <1>6 DEF ByteServicesAt

\* The instructions of a copy loop are at these offsets.
LoopCode(load, store, loop, done) ==
  /\ load # store /\ load # loop /\ store # loop
  /\ at = load => Current = LoadIndexed(store)
  /\ at = store => Current = StoreIndexed(loop)
  /\ at = loop => Current = Loop(load, done)

\* The loop of a range copy of n bytes: a load, a store and a test.
LEMMA RangeStep ==
  ASSUME NEW n \in 1..4, NEW load, NEW store, NEW loop, NEW done,
         Executes, RangeAt(n, load, store, loop), RangeEnd(fx, regs.rdx) = n,
         LoopCode(load, store, loop, done),
         DOMAIN regs = Registers, regs.rdi = Src, regs.rsi = Dst, Src \in Nat, Dst \in Nat
  PROVE  /\ Kept
         /\ \/ RangeAt(n, load, store, loop)'
            \/ at' = done /\ Progress(n) /\ mem' = mem /\ regs'.r8 = n
  <1> USE DEF LoopCode
  <1>0. regs.r8 \in 0..(n - 1) /\ regs.r8 \in 0..3
    BY DEF RangeAt
  <1>1. CASE at = load
    <2>1. Progress(regs.r8)
      BY Zenon, <1>1 DEF RangeAt
    <2>2. QED
      BY Zenon, <1>0, <1>1, <2>1, LoadsIndexed DEF RangeAt, Progress, Intact, Kept, Src, Dst
  <1>2. CASE at = store
    <2>1. /\ Progress(regs.r8) /\ Present(fx, Src + regs.r8)
          /\ regs.rax = mem[Src + regs.r8]
      BY Zenon, <1>2 DEF RangeAt
    <2>2. /\ Kept /\ at' = loop /\ regs' = regs /\ Present(fx, Dst + regs.r8)
          /\ mem' = [mem EXCEPT ![Dst + regs.r8] = regs.rax]
      BY Zenon, <1>2, StoresIndexed
    <2>3. mem' = Copied(entry.mem, Src, Dst, regs.r8 + 1)
      BY <1>0, <2>1, <2>2, CopiedNext DEF Progress, CopyOne
    <2>4. Intact(regs.r8 + 1)
      BY <1>0, <2>1, <2>2 DEF Progress, Intact
    <2>5. Progress(regs.r8 + 1)'
      BY <1>0, <2>2, <2>3, <2>4, Zenon DEF Progress, Intact, Kept, Src, Dst
    <2>6. QED
      BY Zenon, <1>0, <2>2, <2>5 DEF RangeAt
  <1>3. CASE at = loop
    <2>1. Progress(regs.r8 + 1)
      BY Zenon, <1>3 DEF RangeAt
    <2>2. /\ Kept /\ mem' = mem /\ regs'.r8 = regs.r8 + 1
          /\ at' = IF regs.r8 + 1 < n THEN load ELSE done
      BY Zenon, <1>3, Loops
    <2>3. Progress(regs.r8)'
      BY Zenon, <2>1, <2>2 DEF Progress, Intact, Kept, Src, Dst
    <2>4. CASE regs.r8 + 1 < n
      BY <1>0, <2>2, <2>3, <2>4 DEF RangeAt
    <2>5. CASE regs.r8 + 1 = n
      BY <2>1, <2>2, <2>5
    <2>6. QED
      BY <1>0, <2>4, <2>5
  <1>4. QED
    BY Zenon, <1>1, <1>2, <1>3 DEF RangeAt

\* A range copy that ended, or met an absent page, has done what is promised.
LEMMA RangeSettles ==
  ASSUME NEW n \in 1..4, NEW k \in 0..n, Progress(k), Src \in Nat, Dst \in Nat,
         k = n \/ ~(Present(fx, Src + k) /\ Present(fx, Dst + k))
  PROVE  RangePromise(fx, entry, n) = Promise(k, mem)
  <1>1. Reach(fx, Src, Dst, n) = k
    <2>1. \A i \in 0..(k - 1) : Present(fx, Src + i) /\ Present(fx, Dst + i)
      BY Zenon DEF Progress, Intact
    <2>2. n \in Nat
      OBVIOUS
    <2>3. QED
      BY <2>1, <2>2, ReachIs, Zenon
  <1>2. QED
    BY Zenon, <1>1 DEF RangePromise, Progress, Src, Dst

\* The same for syscall/dispatcher.rs: the number selects the service.
LEMMA DispatchStep ==
  ASSUME IInv, Executes, fx = "dispatch"
  PROVE  Kept /\ DispatchAt'
  <1> USE DEF Current, Code, DispatcherHandler
  <1>1. /\ DispatchAt /\ DOMAIN regs = Registers /\ entry.regs.rax \in Nat
        /\ regs.rdi = Src /\ regs.rsi = Dst /\ Src \in Nat /\ Dst \in Nat
    BY Zenon DEF IInv, TypeOK, CallInv, AtInv, Executes
  <1>2. CASE at = 13
    <2>1. /\ Kept /\ mem' = mem /\ regs' = regs /\ mem = entry.mem /\ regs.rax = entry.regs.rax
          /\ at' = IF regs.rax + 1 \in DOMAIN <<38, 77>> THEN <<38, 77>>[regs.rax + 1] ELSE 25
      BY <1>1, <1>2, Dispatches DEF DispatchAt, ByteServicesAt, Untouched
    <2>2. CASE at' = 38 /\ regs.rax = 0
      BY Zenon, <2>1, <2>2 DEF DispatchAt, ByteServicesAt, Untouched, Kept
    <2>3. CASE at' = 77 /\ regs.rax = 1
      BY <1>1, <2>1, <2>3 DEF DispatchAt, ByteServicesAt, Settled, Promised, Kept
    <2>4. CASE at' = 25 /\ regs.rax \notin {0, 1}
      BY Zenon, <1>1, <2>1, <2>4 DEF DispatchAt, Settled, Promised, Kept
    <2>5. QED
      BY <1>1, <2>1, <2>2, <2>3, <2>4
  <1>3. CASE at = 25
    BY <1>1, <1>3, Emits DEF DispatchAt, ByteServicesAt, Settled, Kept
  <1>4. CASE at = 29
    BY <1>1, <1>4, Sets DEF DispatchAt, ByteServicesAt, Settled, Kept
  <1>5. CASE ByteServicesAt
    <2>1. Current = ByteServices(at)
      BY <1>5 DEF ByteServicesAt
    <2>2. QED
      BY Zenon, <1>1, <1>5, <2>1, ByteServicesStep DEF DispatchAt
  <1>6. QED
    BY Zenon, <1>1, <1>2, <1>3, <1>4, <1>5 DEF DispatchAt

\* The same for syscall/cross_page.rs: four bytes, with the count in r8.
LEMMA CrossStep ==
  ASSUME IInv, Executes, fx = "cross"
  PROVE  Kept /\ CrossAt'
  <1> USE DEF Current, Code, CopyService
  <1>1. /\ CrossAt /\ DOMAIN regs = Registers
        /\ regs.rdi = Src /\ regs.rsi = Dst /\ Src \in Nat /\ Dst \in Nat
    BY Zenon DEF IInv, TypeOK, CallInv, AtInv, Executes
  <1>2. CASE at = 13
    BY <1>1, <1>2, Sets DEF CrossAt, RangeAt, Untouched, Progress, Intact, Copied, Kept
  <1>3. CASE RangeAt(4, 19, 24, 28)
    <2>1. LoopCode(19, 24, 28, 37)
      BY DEF LoopCode
    <2>2. RangeEnd(fx, regs.rdx) = 4
      BY Zenon DEF RangeEnd
    <2>3. /\ Kept
          /\ \/ RangeAt(4, 19, 24, 28)'
             \/ at' = 37 /\ Progress(4) /\ mem' = mem /\ regs'.r8 = 4
      BY <1>1, <1>3, <2>1, <2>2, 4 \in 1..4, RangeStep, Zenon
    <2>4. ASSUME at' = 37, Progress(4), mem' = mem, regs'.r8 = 4
          PROVE  Settled(regs.r8)'
      <3>1. RangePromise(fx, entry, 4) = Promise(4, mem)
        BY <1>1, <2>4, RangeSettles
      <3>2. QED
        BY Zenon, <2>3, <2>4, <3>1 DEF Settled, Promised, Kept
    <2>5. QED
      BY Zenon, <2>3, <2>4 DEF CrossAt
  <1>4. CASE at = 37
    BY <1>1, <1>4, Moves DEF CrossAt, RangeAt, Settled, Kept, Registers
  <1>5. CASE at = 40
    BY <1>1, <1>5, SysretLeaves, SMTT(20)
  <1>6. QED
    BY Zenon, <1>1, <1>2, <1>3, <1>4, <1>5 DEF CrossAt

\* The same for syscall/partial_dispatch.rs: byte services, range copy, and the
\* refusals of a bad length and an unknown number.
LEMMA PartialStep ==
  ASSUME IInv, Executes, fx = "partial"
  PROVE  Kept /\ PartialAt'
  <1> USE DEF Current, Code, PartialDispatcher
  <1>1. /\ PartialAt /\ DOMAIN regs = Registers
        /\ entry.regs.rax \in Nat /\ (entry.regs.rax = 2 => entry.regs.rdx \in Nat)
        /\ regs.rdi = Src /\ regs.rsi = Dst /\ Src \in Nat /\ Dst \in Nat
    BY Zenon DEF IInv, TypeOK, CallInv, AtInv, Executes
  <1>2. CASE at = 13
    <2>1. /\ Kept /\ mem' = mem /\ regs' = regs /\ mem = entry.mem
          /\ regs.rax = entry.regs.rax /\ regs.rdx = entry.regs.rdx
          /\ at' = IF regs.rax + 1 \in DOMAIN <<38, 77, 103>>
                   THEN <<38, 77, 103>>[regs.rax + 1] ELSE 90
      BY <1>1, <1>2, Dispatches DEF PartialAt, RangeAt, ByteServicesAt, Untouched
    <2>2. CASE at' = 38 /\ regs.rax = 0
      BY Zenon, <2>1, <2>2 DEF PartialAt, ByteServicesAt, Untouched, Kept
    <2>3. CASE at' = 77 /\ regs.rax = 1
      BY <1>1, <2>1, <2>3 DEF PartialAt, ByteServicesAt, Settled, Promised, Kept
    <2>4. CASE at' = 103 /\ regs.rax = 2
      BY Zenon, <2>1, <2>4 DEF PartialAt, Untouched, Kept
    <2>5. CASE at' = 90 /\ regs.rax \notin {0, 1, 2}
      BY <1>1, <2>1, <2>5 DEF PartialAt, Settled, Promised, Kept
    <2>6. QED
      BY <1>1, <2>1, <2>2, <2>3, <2>4, <2>5
  <1>3. CASE at \in {90, 167}
    BY <1>1, <1>3, Emits, SMTT(20) DEF PartialAt, RangeAt, ByteServicesAt, Settled, Kept
  <1>4. CASE at \in {94, 171}
    BY <1>1, <1>4, Sets, SMTT(20) DEF PartialAt, RangeAt, ByteServicesAt, Settled, Kept
  <1>5. CASE at \in {137, 152}
    <2>1. Settled(regs.r8)
      BY <1>1, <1>5, SMTT(20) DEF PartialAt, RangeAt, ByteServicesAt
    <2>2. Kept /\ at' \in {143, 158} /\ mem' = mem /\ regs'.r9 = regs.r8
      BY <1>1, <1>5, Moves DEF Registers
    <2>3. QED
      BY <2>1, <2>2 DEF PartialAt, Settled, Kept
  <1>6. CASE at \in {143, 147, 158, 162}
    <2>1. Settled(regs.r9)
      BY <1>1, <1>6 DEF PartialAt, RangeAt, ByteServicesAt
    <2>2. CASE at \in {143, 158}
      <3>1. Kept /\ at' \in {147, 162} /\ mem' = mem /\ regs'.r9 = regs.r9
        BY <1>1, <2>2, Emits
      <3>2. QED
        BY Zenon, <2>1, <3>1 DEF PartialAt, Settled, Kept
    <2>3. CASE at \in {147, 162}
      <3>1. Kept /\ at' = 84 /\ mem' = mem /\ regs'.rax = regs.r9
        BY <1>1, <2>3, Moves DEF Registers
      <3>2. QED
        BY <2>1, <3>1, SMTT(20) DEF PartialAt, ByteServicesAt, Settled, Kept
    <2>4. QED
      BY Zenon, <1>6, <2>2, <2>3
  <1>7. CASE at = 103
    <2>1. /\ entry.regs.rax = 2 /\ regs.rdx = entry.regs.rdx /\ mem = entry.mem
          /\ Kept /\ mem' = mem /\ regs' = regs
          /\ at' = IF LengthAccepted(regs.rdx) THEN 114 ELSE 167
      BY <1>1, <1>7, ChecksLength DEF PartialAt, RangeAt, ByteServicesAt, Untouched
    <2>2. CASE regs.rdx \in 1..4
      BY <2>1, <2>2 DEF PartialAt, LengthAccepted, Untouched, Kept
    <2>3. CASE regs.rdx \notin 1..4
      <3>1. at' = 167
        BY <1>1, <2>1, <2>3 DEF LengthAccepted
      <3>2. QED
        BY <2>1, <2>3, <3>1 DEF PartialAt, Settled, Promised, Kept
    <2>4. QED
      BY Zenon, <2>2, <2>3
  <1>8. CASE at = 114
    <2>1. /\ entry.regs.rax = 2 /\ regs.rdx = entry.regs.rdx /\ regs.rdx \in 1..4
          /\ mem = entry.mem /\ Kept /\ mem' = mem /\ regs'.r8 = 0 /\ at' = 120
      BY <1>1, <1>8, Sets DEF PartialAt, RangeAt, ByteServicesAt, Untouched
    <2>2. RangeAt(regs.rdx, 120, 125, 130)'
      BY <2>1 DEF RangeAt, Progress, Intact, Copied, Kept
    <2>3. QED
      BY Zenon, <2>1, <2>2 DEF PartialAt, Kept
  <1>9. CASE /\ entry.regs.rax = 2 /\ regs.rdx = entry.regs.rdx
             /\ RangeAt(regs.rdx, 120, 125, 130) /\ regs.rdx \in 1..4
    <2>0. PICK n \in 1..4 : n = regs.rdx
      BY Zenon, <1>9
    <2>1. LoopCode(120, 125, 130, 137)
      BY DEF LoopCode
    <2>2. RangeEnd(fx, regs.rdx) = n /\ RangeAt(n, 120, 125, 130)
      BY Zenon, <1>9, <2>0 DEF RangeEnd
    <2>3. /\ Kept
          /\ \/ RangeAt(n, 120, 125, 130)'
             \/ at' = 137 /\ Progress(n) /\ mem' = mem /\ regs'.r8 = n
      BY <1>1, <2>0, <2>1, <2>2, RangeStep, SMTT(30)
    <2>4. CASE RangeAt(n, 120, 125, 130)'
      BY <1>9, <2>0, <2>3, <2>4 DEF PartialAt, RangeAt, Kept
    <2>5. CASE at' = 137 /\ Progress(n) /\ mem' = mem /\ regs'.r8 = n
      <3>1. RangePromise(fx, entry, n) = Promise(n, mem)
        BY <1>1, <2>5, RangeSettles
      <3>2. Settled(regs.r8)'
        BY <1>9, <2>0, <2>3, <2>5, <3>1 DEF Settled, Promised, Kept
      <3>3. QED
        BY Zenon, <2>3, <2>5, <3>2 DEF PartialAt
    <2>6. QED
      BY Zenon, <2>3, <2>4, <2>5
  <1>10. CASE ByteServicesAt
    <2>1. Current = ByteServices(at)
      BY <1>10 DEF ByteServicesAt
    <2>2. QED
      BY Zenon, <1>1, <1>10, <2>1, ByteServicesStep DEF PartialAt
  <1>11. QED
    BY <1>1, <1>2, <1>3, <1>4, <1>5, <1>6, <1>7, <1>8, <1>9, <1>10, ZenonT(40) DEF PartialAt

-----------------------------------------------------------------------------
(* Page faults.                                                            *)

\* An assertion reads the fixture, the registers, memory and the call only.
LEMMA AtInvKept ==
  ASSUME fx \in Fixtures, AtInv, UNCHANGED <<fx, at, regs, mem, entry>>
  PROVE  AtInv'
  <1> USE DEF AtInv, Settled, Untouched, Fetched, Src, Dst
  <1>1. CASE fx \in {"copyin", "copyout", "usercopy"}
    BY <1>1, Zenon DEF CopyinAt, CopyoutAt, UsercopyAt
  <1>2. ByteServicesAt => ByteServicesAt'
    BY Zenon DEF ByteServicesAt
  <1>3. CASE fx = "dispatch"
    BY Zenon, <1>2, <1>3 DEF DispatchAt
  <1>4. ASSUME NEW n, NEW load, NEW store, NEW loop, RangeAt(n, load, store, loop)
        PROVE  RangeAt(n, load, store, loop)'
    BY Zenon, <1>4 DEF RangeAt, Progress, Intact
  <1>5. CASE fx = "cross"
    BY Zenon, <1>4, <1>5 DEF CrossAt
  <1>6. CASE fx = "partial"
    <2>1. RangeAt(regs.rdx, 120, 125, 130) => RangeAt(regs.rdx, 120, 125, 130)'
      BY Zenon, <1>4 DEF RangeAt, Progress, Intact
    <2>2. QED
      BY <1>2, <1>6, <2>1 DEF PartialAt
  <1>7. QED
    BY <1>1, <1>3, <1>5, <1>6, Zenon DEF Fixtures

\* Only the services' loads and stores can fault.
LEMMA SitesOnly ==
  ASSUME fx \in Fixtures, AtInv, Current.op \in {"load", "store", "poke"}
  PROVE  at \in Sites(fx)
  <1> USE DEF Current, Code, Sites, AtInv, Fixtures, Instr
  <1>1. CASE fx \in {"copyin", "copyout"}
    BY <1>1, Zenon DEF CopyinAt, CopyoutAt, CopyinHandler, CopyoutHandler, Move, Set, Emit, Sysret
  <1>2. CASE fx = "usercopy"
    BY Zenon, <1>2 DEF UsercopyAt, UsercopyHandler, Move, Set, Emit, Sysret
  <1>3. CASE fx = "dispatch"
    BY Zenon, <1>3 DEF DispatchAt, ByteServicesAt, DispatcherHandler, ByteServices, Dispatch, Set, Emit,
                Putc, Sysret
  <1>4. CASE fx = "cross"
    BY <1>4 DEF CrossAt, RangeAt, CopyService, Move, Set, Loop, Sysret
  <1>5. CASE fx = "partial"
    BY <1>5 DEF PartialAt, RangeAt, ByteServicesAt, PartialDispatcher, ByteServices, Dispatch,
                CheckLength, Move, Set, Emit, Putc, Loop, Sysret
  <1>6. QED
    BY Zenon, <1>1, <1>2, <1>3, <1>4, <1>5

\* A page fault keeps the assertion of the instruction it interrupts.
LEMMA PageFaultStep ==
  ASSUME IInv, PageFault
  PROVE  IInv'
  <1>1. AtInv' /\ at \in Sites(fx)
    BY Zenon, AtInvKept, SitesOnly DEF IInv, TypeOK, PageFault
  <1>2. FaultInv'
    BY Zenon, <1>1 DEF PageFault, FaultInv, Address, Current
  <1>3. TypeOK' /\ CallInv' /\ pc' = "fault"
    BY Zenon DEF IInv, PageFault, TypeOK, CallInv, ObservedInv, Src, Dst
  <1>4. QED
    BY Zenon, <1>1, <1>2, <1>3 DEF IInv

\* The fixup tables the fixtures are loaded with.
LEMMA SuiteFixups ==
  /\ DOMAIN Suite = Fixtures
  /\ Suite["copyin"].fixups = CopyinFixups /\ Suite["copyout"].fixups = CopyoutFixups
  /\ Suite["usercopy"].fixups = UsercopyFixups /\ Suite["dispatch"].fixups = DispatchFixups
  /\ Suite["cross"].fixups = CrossFixups /\ Suite["partial"].fixups = PartialFixups
  BY Zenon DEF Suite, Fixtures, Guest, CopyinGuest, CopyoutGuest, UsercopyGuest, DispatchGuest,
         CrossGuest, PartialGuest

\* The current instruction has an entry in its fixture's table.
ListedAt(next, slot) ==
  /\ at \in DOMAIN Suite[fx].fixups /\ Suite[fx].fixups[at] = Fixup(next, slot)
  /\ (slot = "read") <=> (Current.op = "load")

\* The listed sites and their fixups; a load's observation goes to the read slot.
LEMMA SitesListed ==
  /\ fx = "copyin" /\ at = 13 => ListedAt(26, "read")
  /\ fx = "copyout" /\ at = 13 => ListedAt(26, "write")
  /\ fx = "usercopy" /\ at = 13 => ListedAt(27, "read")
  /\ fx = "usercopy" /\ at = 16 => ListedAt(33, "write")
  /\ fx = "dispatch" /\ at = 38 => ListedAt(51, "read")
  /\ fx = "dispatch" /\ at = 41 => ListedAt(64, "write")
  /\ fx = "cross" /\ at = 19 => ListedAt(37, "read")
  /\ fx = "cross" /\ at = 24 => ListedAt(37, "write")
  /\ fx = "partial" /\ at = 120 => ListedAt(152, "read")
  /\ fx = "partial" /\ at = 125 => ListedAt(152, "write")
  <1> USE SuiteFixups DEF ListedAt, FixupTable, Fixup, Current, Code, Instr
  <1>1. fx = "copyin" /\ at = 13 => ListedAt(26, "read")
    BY DEF CopyinFixups, CopyinHandler, Load
  <1>2. fx = "copyout" /\ at = 13 => ListedAt(26, "write")
    BY DEF CopyoutFixups, CopyoutHandler, StoreByte
  <1>3. /\ fx = "usercopy" /\ at = 13 => ListedAt(27, "read")
        /\ fx = "usercopy" /\ at = 16 => ListedAt(33, "write")
    BY DEF UsercopyFixups, UsercopyHandler, Load, Store
  <1>4. /\ fx = "dispatch" /\ at = 38 => ListedAt(51, "read")
        /\ fx = "dispatch" /\ at = 41 => ListedAt(64, "write")
    BY DEF DispatchFixups, DispatcherHandler, ByteServices, Load, Store
  <1>5. /\ fx = "cross" /\ at = 19 => ListedAt(37, "read")
        /\ fx = "cross" /\ at = 24 => ListedAt(37, "write")
    BY DEF CrossFixups, CopyService, LoadIndexed, StoreIndexed
  <1>6. /\ fx = "partial" /\ at = 120 => ListedAt(152, "read")
        /\ fx = "partial" /\ at = 125 => ListedAt(152, "write")
    BY DEF PartialFixups, PartialDispatcher, LoadIndexed, StoreIndexed
  <1>7. QED
    BY <1>1, <1>2, <1>3, <1>4, <1>5, <1>6, Zenon

\* The address an instruction touches.
LEMMA Addresses ==
  ASSUME regs.rdi \in Nat, regs.rsi \in Nat, NEW v, NEW next
  PROVE  /\ Current = Load(next) \/ Current = StoreByte(v, next) => Address = regs.rdi
         /\ Current = Store(next) => Address = regs.rsi
         /\ Current = LoadIndexed(next) => Address = regs.rdi + regs.r8
         /\ Current = StoreIndexed(next) => Address = regs.rsi + regs.r8
  BY DEF Address, Load, Store, StoreByte, LoadIndexed, StoreIndexed, Instr

\* The handler of a listed fault: it records the fault in its slot, resumes at
\* the fixup, and leaves EFAULT in r8 except in the range services.
LEMMA Resumes ==
  ASSUME IInv, HandlePageFault, NEW next, NEW slot \in Slots, ListedAt(next, slot)
  PROVE  /\ pc' = "kernel" /\ at' = next /\ UNCHANGED mem
         /\ TypeOK' /\ CallInv' /\ UNCHANGED <<fx, entry>>
         /\ regs'.r8 = (IF fx \in Ranged THEN regs.r8 ELSE EFAULT)
         /\ fx \in {"copyin", "copyout"} => regs'.rax = EFAULT
  <1>1. /\ FaultInv /\ TypeOK /\ CallInv /\ pc = "fault"
    BY Zenon DEF IInv, HandlePageFault
  <1>2. /\ pc' = "kernel" /\ at' = next /\ UNCHANGED <<fx, own, calls, mem, entry>>
        /\ obs' = [obs EXCEPT ![slot] = [cr2 |-> fault.cr2, error |-> fault.error,
                                         rip |-> fault.rip, fixup |-> next]]
    BY <1>1 DEF HandlePageFault, FaultInv, Goto, Fixup, ListedAt
  <1>3. /\ DOMAIN regs' = Registers /\ regs'.rdi = regs.rdi /\ regs'.rsi = regs.rsi
        /\ regs'.r8 = (IF fx \in Ranged THEN regs.r8 ELSE EFAULT)
        /\ fx \in {"copyin", "copyout"} => regs'.rax = EFAULT
    BY <1>1, Zenon DEF HandlePageFault, FaultInv, TypeOK, Registers, HandlerSetsR8, ListedAt
  <1>4. TypeOK'
    BY Zenon, <1>1, <1>2, <1>3 DEF TypeOK
  <1>5. ObservedInv'
    BY Zenon, <1>1, <1>2 DEF ObservedInv, CallInv, FaultInv, TypeOK, Slots, ListedAt
  <1>6. CallInv'
    BY Zenon, <1>1, <1>2, <1>3, <1>5 DEF CallInv, Src, Dst
  <1>7. QED
    BY Zenon, <1>2, <1>3, <1>4, <1>6

\* Each service after the handler: the outcome is settled, or the byte copy of
\* partial_dispatch.rs, which its table does not list, has stopped the guest.
LEMMA HandlePageFaultStep ==
  ASSUME IInv, HandlePageFault
  PROVE  IInv'
  <1>1. /\ FaultInv /\ AtInv /\ fx \in Fixtures /\ pc = "fault" /\ DOMAIN regs = Registers
        /\ regs.rdi = Src /\ regs.rsi = Dst /\ Src \in Nat /\ Dst \in Nat
    BY Zenon DEF IInv, TypeOK, CallInv, HandlePageFault
  <1> USE DEF Slots, Ranged
  <1>2. CASE fx = "copyin"
    <2>1. at = 13 /\ Untouched /\ ~Present(fx, Src)
      BY <1>1, <1>2, Addresses DEF FaultInv, Sites, AtInv, CopyinAt, Current, Code, CopyinHandler
    <2>2. /\ pc' = "kernel" /\ at' = 26 /\ UNCHANGED mem /\ TypeOK' /\ CallInv'
          /\ UNCHANGED <<fx, entry>> /\ regs'.rax = EFAULT
      BY <1>2, <2>1, SitesListed, Resumes
    <2>3. CopyinAt'
      BY Zenon, <1>2, <2>1, <2>2 DEF CopyinAt, Settled, Promised, Untouched, Src
    <2>4. QED
      BY Zenon, <1>2, <2>2, <2>3 DEF IInv, AtInv
  <1>3. CASE fx = "copyout"
    <2>1. at = 13 /\ Untouched /\ ~Present(fx, Src)
      BY <1>1, <1>3, Addresses DEF FaultInv, Sites, AtInv, CopyoutAt, Current, Code,
                                   CopyoutHandler
    <2>2. /\ pc' = "kernel" /\ at' = 26 /\ UNCHANGED mem /\ TypeOK' /\ CallInv'
          /\ UNCHANGED <<fx, entry>> /\ regs'.rax = EFAULT
      BY Zenon, <1>3, <2>1, SitesListed, Resumes
    <2>3. CopyoutAt'
      BY Zenon, <1>3, <2>1, <2>2 DEF CopyoutAt, Settled, Promised, Untouched, Src
    <2>4. QED
      BY Zenon, <1>3, <2>2, <2>3 DEF IInv, AtInv
  <1>4. CASE fx = "usercopy"
    <2>1. /\ at \in {13, 16} /\ mem = entry.mem
          /\ ~(Present(fx, Src) /\ Present(fx, Dst))
      BY <1>1, <1>4, Addresses DEF FaultInv, Sites, AtInv, UsercopyAt, Untouched, Fetched,
                                   Current, Code, UsercopyHandler
    <2>2. /\ pc' = "kernel" /\ at' \in {27, 33} /\ UNCHANGED mem /\ TypeOK' /\ CallInv'
          /\ UNCHANGED <<fx, entry>> /\ regs'.r8 = EFAULT
      BY <1>4, <2>1, SitesListed, Resumes
    <2>3. BytePromise(fx, entry) = Promise(EFAULT, entry.mem)
      BY Zenon, <1>1, <2>1, ByteRefused DEF Src, Dst
    <2>4. UsercopyAt'
      BY Zenon, <1>4, <2>1, <2>2, <2>3 DEF UsercopyAt, Settled, Promised
    <2>5. QED
      BY Zenon, <1>4, <2>2, <2>4 DEF IInv, AtInv
  <1>5. CASE fx = "dispatch"
    <2>1. /\ at \in {38, 41} /\ mem = entry.mem /\ entry.regs.rax = 0
          /\ ~(Present(fx, Src) /\ Present(fx, Dst))
      <3>1. at \in {38, 41} /\ ByteServicesAt
        BY <1>1, <1>5 DEF FaultInv, Sites, AtInv, DispatchAt
      <3>2. CASE at = 38
        BY <1>1, <1>5, <3>1, <3>2, Addresses
           DEF FaultInv, ByteServicesAt, Untouched, Current, Code, DispatcherHandler, ByteServices
      <3>3. CASE at = 41
        BY <1>1, <1>5, <3>1, <3>3, Addresses
           DEF FaultInv, ByteServicesAt, Fetched, Current, Code, DispatcherHandler, ByteServices
      <3>4. QED
        BY Zenon, <3>1, <3>2, <3>3
    <2>2. /\ pc' = "kernel" /\ at' \in {51, 64} /\ UNCHANGED mem /\ TypeOK' /\ CallInv'
          /\ UNCHANGED <<fx, entry>>
      BY <1>5, <2>1, SitesListed, Resumes
    <2>3. BytePromise(fx, entry) = Promise(EFAULT, entry.mem)
      BY <1>1, <2>1, ByteRefused DEF Src, Dst
    <2>4. DispatchAt'
      BY <1>5, <2>1, <2>2, <2>3 DEF DispatchAt, ByteServicesAt, Settled, Promised
    <2>5. QED
      BY Zenon, <1>5, <2>2, <2>4 DEF IInv, AtInv
  <1>6. CASE fx = "cross"
    <2>1. /\ at \in {19, 24} /\ regs.r8 \in 0..4 /\ Progress(regs.r8)
          /\ ~(Present(fx, Src + regs.r8) /\ Present(fx, Dst + regs.r8))
      BY <1>1, <1>6, Addresses DEF FaultInv, Sites, AtInv, CrossAt, RangeAt, Current, Code,
                                   CopyService
    <2>2. /\ pc' = "kernel" /\ at' = 37 /\ UNCHANGED mem /\ TypeOK' /\ CallInv'
          /\ UNCHANGED <<fx, entry>> /\ regs'.r8 = regs.r8
      BY <1>6, <2>1, SitesListed, Resumes
    <2>3. RangePromise(fx, entry, 4) = Promise(regs.r8, mem)
      BY <1>1, <2>1, RangeSettles
    <2>4. CrossAt'
      BY Zenon, <1>6, <2>2, <2>3 DEF CrossAt, Settled, Promised
    <2>5. QED
      BY Zenon, <1>6, <2>2, <2>4 DEF IInv, AtInv
  <1>7. CASE fx = "partial" /\ at \in {120, 125}
    <2>0. PICK n \in 1..4 : n = regs.rdx
      BY <1>1, <1>7 DEF AtInv, PartialAt, RangeAt, ByteServicesAt
    <2>1. /\ regs.r8 \in 0..n /\ Progress(regs.r8)
          /\ entry.regs.rax = 2 /\ entry.regs.rdx = n
          /\ ~(Present(fx, Src + regs.r8) /\ Present(fx, Dst + regs.r8))
      <3>1. entry.regs.rax = 2 /\ entry.regs.rdx = n /\ RangeAt(n, 120, 125, 130)
        BY <1>1, <1>7, <2>0 DEF AtInv, PartialAt, ByteServicesAt
      <3>2. CASE at = 120
        BY <1>1, <1>7, <3>1, <3>2, Addresses DEF FaultInv, RangeAt, Current, Code, PartialDispatcher
      <3>3. CASE at = 125
        <4>1. Current = StoreIndexed(130)
          BY <1>7, <3>3 DEF Current, Code, PartialDispatcher
        <4>2. Address = Dst + regs.r8
          BY Zenon, <1>1, <4>1, Addresses
        <4>3. QED
          BY <1>1, <3>1, <3>3, <4>2 DEF FaultInv, RangeAt
      <3>4. QED
        BY Zenon, <1>7, <3>1, <3>2, <3>3
    <2>2. /\ pc' = "kernel" /\ at' = 152 /\ UNCHANGED mem /\ TypeOK' /\ CallInv'
          /\ UNCHANGED <<fx, entry>> /\ regs'.r8 = regs.r8
      BY <1>7, SitesListed, Resumes
    <2>3. RangePromise(fx, entry, n) = Promise(regs.r8, mem)
      BY Zenon, <1>1, <2>1, RangeSettles
    <2>4. PartialAt'
      BY <1>7, <2>1, <2>2, <2>3 DEF PartialAt, Settled, Promised
    <2>5. QED
      BY Zenon, <1>7, <2>2, <2>4 DEF IInv, AtInv
  <1>8. CASE fx = "partial" /\ at \in {38, 41}
    <2>1. fault.rip = at /\ at \notin DOMAIN Suite[fx].fixups
      BY <1>1, <1>8, SuiteFixups DEF FaultInv, PartialFixups, FixupTable
    <2>2. /\ pc' = "stopped" /\ UNCHANGED <<fx, own, calls, regs, obs, fault>>
      BY Zenon, <2>1 DEF HandlePageFault
    <2>3. QED
      BY Zenon, <1>8, <2>1, <2>2 DEF IInv, TypeOK, CallInv
  <1>9. QED
    BY Zenon, <1>1, <1>2, <1>3, <1>4, <1>5, <1>6, <1>7, <1>8 DEF FaultInv, Sites, Fixtures

-----------------------------------------------------------------------------
(* Calls.                                                                  *)

\* What a caller may put into registers: addresses, and for the dispatchers a
\* number and, with a range, its length.
SetOK(f, set) ==
  /\ "rdi" \in DOMAIN set => set["rdi"] \in Nat
  /\ "rsi" \in DOMAIN set => set["rsi"] \in Nat
  /\ f \in {"dispatch", "partial"} => "rax" \in DOMAIN set /\ set["rax"] \in Nat
  /\ f = "partial" /\ set["rax"] = 2 => "rdx" \in DOMAIN set /\ set["rdx"] \in Nat

\* A call begins with the memory and the observations it will be judged by.
LEMMA SyscallStep ==
  ASSUME IInv, NEW set, SetOK(fx, set), Syscall(set)
  PROVE  IInv'
  <1>1. /\ pc' = "kernel" /\ at' = 13 /\ mem' = mem /\ obs' = obs /\ UNCHANGED <<fx, own>>
        /\ calls' = calls + 1 /\ regs' = Loaded(set)
        /\ entry' = [regs |-> Loaded(set), mem |-> mem, obs |-> obs]
    BY Zenon DEF Syscall
  <1>2. /\ DOMAIN regs' = Registers /\ regs'.rdi \in Nat /\ regs'.rsi \in Nat
        /\ fx \in {"dispatch", "partial"} => regs'.rax \in Nat
        /\ fx = "partial" /\ regs'.rax = 2 => regs'.rdx \in Nat
    BY Zenon, <1>1 DEF IInv, TypeOK, Loaded, SetOK, Registers
  <1>3. TypeOK'
    BY <1>1, <1>2 DEF IInv, TypeOK
  <1>4. CallInv'
    BY Zenon, <1>1, <1>2 DEF CallInv, ObservedInv, Src, Dst
  <1>5. AtInv'
    BY <1>1, Zenon DEF IInv, TypeOK, Fixtures, AtInv, CopyinAt, CopyoutAt, UsercopyAt, DispatchAt, CrossAt,
                PartialAt, Untouched
  <1>6. QED
    BY Zenon, <1>1, <1>3, <1>4, <1>5 DEF IInv

\* An open caller sets what CallerAssumption says.
LEMMA OpenSets ==
  ASSUME fx \in Fixtures, NEW set \in OpenCalls
  PROVE  SetOK(fx, set)
  <1>1. \A a \in Pointers[fx] : a \in Nat
    BY Zenon, SuiteFixups, CallerAssumption
  <1>2. Char("P") \in Nat
    BY Zenon DEF Char
  <1>3. CASE fx \in {"copyin", "copyout"}
    BY <1>1, <1>3 DEF OpenCalls, SetOK
  <1>4. CASE fx \in {"usercopy", "cross"}
    BY <1>1, <1>4 DEF OpenCalls, SetOK, Copy
  <1>5. ASSUME fx \in {"dispatch", "partial"},
               set \in {CopyByte(a, b) : a, b \in Pointers[fx]} \cup {Character, Unknown}
        PROVE  SetOK(fx, set)
    BY <1>1, <1>2, <1>5 DEF SetOK, CopyByte, Character, Unknown
  <1>6. ASSUME fx = "partial", set \in {Range(a, b, n) : a, b \in Pointers[fx], n \in Lengths}
        PROVE  SetOK(fx, set)
    BY <1>1, <1>6, CallerAssumption DEF SetOK, Range
  <1>7. CASE fx = "dispatch"
    BY <1>5, <1>7 DEF OpenCalls
  <1>8. CASE fx = "partial"
    BY <1>5, <1>6, <1>8 DEF OpenCalls
  <1>9. QED
    BY Zenon, <1>3, <1>4, <1>7, <1>8 DEF Fixtures

\* The calls the fixtures' own programs make.
LEMMA OwnSets ==
  ASSUME NEW f \in Fixtures, NEW i \in 1..Len(Suite[f].program)
  PROVE  SetOK(f, Suite[f].program[i].set)
  <1>1. /\ Good \in Nat /\ Good + 1 \in Nat /\ Bad \in Nat
        /\ \A page \in Nat, offset \in Nat : At(page, offset) \in Nat
        /\ \A page \in {0, 2, 4, 6, 8, 10} : Crossing(page) \in Nat
    BY PageSizeAssumption DEF Good, Bad, At, Crossing
  <1>2. /\ SetOK(f, Character) /\ SetOK(f, Unknown)
        /\ \A a, b \in Nat : SetOK(f, CopyByte(a, b))
        /\ \A a, b, n \in Nat : SetOK(f, Range(a, b, n))
    BY DEF SetOK, Character, Unknown, CopyByte, Range, Char
  <1>3. f \notin {"dispatch", "partial"} =>
          \A a, b \in Nat : SetOK(f, [rdi |-> a]) /\ SetOK(f, Copy(a, b))
    BY Zenon DEF SetOK, Copy
  <1>0. \A set, after : Call(set, after).set = set /\ Plain(set).set = set
    BY Zenon DEF Call, Plain
  <1>4. CASE f = "copyin"
    <2>1. Suite[f].program = CopyinProgram
      BY Zenon, <1>4 DEF Suite, CopyinGuest, Guest
    <2>2. Len(CopyinProgram) = 2
      BY Zenon DEF CopyinProgram
    <2>3. i \in {1, 2}
      BY <2>1, <2>2
    <2>4. /\ CopyinProgram[1].set = [rdi |-> Good]
          /\ CopyinProgram[2].set = [rdi |-> Bad]
      BY Zenon, <1>0 DEF CopyinProgram
    <2>5. /\ SetOK(f, [rdi |-> Good])
          /\ SetOK(f, [rdi |-> Bad])
      BY Zenon, <1>1, <1>3, <1>4
    <2>6. QED
      BY Zenon, <2>1, <2>3, <2>4, <2>5
  <1>5. CASE f = "copyout"
    <2>1. Suite[f].program = CopyoutProgram
      BY Zenon, <1>5 DEF Suite, CopyoutGuest, Guest
    <2>2. Len(CopyoutProgram) = 2
      BY Zenon DEF CopyoutProgram
    <2>3. i \in {1, 2}
      BY <2>1, <2>2
    <2>4. /\ CopyoutProgram[1].set = [rdi |-> Good]
          /\ CopyoutProgram[2].set = [rdi |-> Bad]
      BY Zenon, <1>0 DEF CopyoutProgram
    <2>5. /\ SetOK(f, [rdi |-> Good])
          /\ SetOK(f, [rdi |-> Bad])
      BY Zenon, <1>1, <1>3, <1>5
    <2>6. QED
      BY Zenon, <2>1, <2>3, <2>4, <2>5
  <1>6. CASE f = "usercopy"
    <2>1. Suite[f].program = UsercopyProgram
      BY Zenon, <1>6 DEF Suite, UsercopyGuest, Guest
    <2>2. Len(UsercopyProgram) = 3
      BY Zenon DEF UsercopyProgram
    <2>3. i \in {1, 2, 3}
      BY <2>1, <2>2
    <2>4. /\ UsercopyProgram[1].set = Copy(Good, Good + 1)
          /\ UsercopyProgram[2].set = Copy(Bad, Good + 1)
          /\ UsercopyProgram[3].set = Copy(Good, Bad)
      BY Zenon, <1>0 DEF UsercopyProgram
    <2>5. /\ SetOK(f, Copy(Good, Good + 1))
          /\ SetOK(f, Copy(Bad, Good + 1))
          /\ SetOK(f, Copy(Good, Bad))
      BY <1>1, <1>3, <1>6, Zenon
    <2>6. QED
      BY Zenon, <2>1, <2>3, <2>4, <2>5
  <1>7. CASE f = "dispatch"
    <2>1. Suite[f].program = DispatchProgram
      BY Zenon, <1>7 DEF Suite, DispatchGuest, Guest
    <2>2. Len(DispatchProgram) = 5
      BY Zenon DEF DispatchProgram
    <2>3. i \in {1, 2, 3, 4, 5}
      BY <2>1, <2>2
    <2>4. /\ DispatchProgram[1].set = CopyByte(Good, Good + 1)
          /\ DispatchProgram[2].set = Character
          /\ DispatchProgram[3].set = CopyByte(Bad, Good + 1)
          /\ DispatchProgram[4].set = CopyByte(Good, Bad)
          /\ DispatchProgram[5].set = Unknown
      BY Zenon, <1>0 DEF DispatchProgram
    <2>5. /\ SetOK(f, CopyByte(Good, Good + 1))
          /\ SetOK(f, CopyByte(Bad, Good + 1))
          /\ SetOK(f, CopyByte(Good, Bad))
      BY <1>1, <1>2, <1>7, Zenon
    <2>6. QED
      BY Zenon, <1>2, <2>1, <2>3, <2>4, <2>5
  <1>8. CASE f = "cross"
    <2>1. Suite[f].program = CrossProgram
      BY Zenon, <1>8 DEF Suite, CrossGuest, Guest
    <2>2. Len(CrossProgram) = 3
      BY Zenon DEF CrossProgram
    <2>3. i \in {1, 2, 3}
      BY <2>1, <2>2
    <2>4. /\ CrossProgram[1].set = Copy(Crossing(0), Crossing(2))
          /\ CrossProgram[2].set = Copy(Crossing(4), Crossing(6))
          /\ CrossProgram[3].set = Copy(Crossing(8), Crossing(10))
      BY Zenon, <1>0 DEF CrossProgram
    <2>5. /\ SetOK(f, Copy(Crossing(0), Crossing(2)))
          /\ SetOK(f, Copy(Crossing(4), Crossing(6)))
          /\ SetOK(f, Copy(Crossing(8), Crossing(10)))
      BY <1>1, <1>3, <1>8, Zenon
    <2>6. QED
      BY Zenon, <2>1, <2>3, <2>4, <2>5
  <1>9. CASE f = "partial"
    <2>1. Suite[f].program = PartialProgram
      BY Zenon, <1>9 DEF Suite, PartialGuest, Guest
    <2>2. Len(PartialProgram) = 9
      BY Zenon DEF PartialProgram
    <2>3. i \in {1, 2, 3, 4, 5, 6, 7, 8, 9}
      BY <2>1, <2>2, SMTT(20)
    <2>4. /\ PartialProgram[1].set = Range(Crossing(0), Crossing(2), 4)
          /\ PartialProgram[2].set = Range(Crossing(4), Crossing(6), 4)
          /\ PartialProgram[3].set = Range(Crossing(8), Crossing(10), 4)
          /\ PartialProgram[4].set = Range(At(0, 0), At(2, 0), 1)
          /\ PartialProgram[5].set = Range(At(0, 0), At(2, 0), 0)
          /\ PartialProgram[6].set = Range(At(0, 0), At(2, 0), 5)
          /\ PartialProgram[7].set = CopyByte(At(0, 4), At(2, 4))
          /\ PartialProgram[8].set = Character
          /\ PartialProgram[9].set = Unknown
      BY <1>0, Zenon DEF PartialProgram
    <2>5. /\ SetOK(f, Range(Crossing(0), Crossing(2), 4))
          /\ SetOK(f, Range(Crossing(4), Crossing(6), 4))
          /\ SetOK(f, Range(Crossing(8), Crossing(10), 4))
          /\ SetOK(f, Range(At(0, 0), At(2, 0), 1))
          /\ SetOK(f, Range(At(0, 0), At(2, 0), 0))
          /\ SetOK(f, Range(At(0, 0), At(2, 0), 5))
          /\ SetOK(f, CopyByte(At(0, 4), At(2, 4)))
      BY <1>1, <1>2, <1>9, Zenon
    <2>6. QED
      BY <1>2, <2>1, <2>3, <2>4, <2>5, SMTT(20)
  <1>10. QED
    BY Zenon, <1>4, <1>5, <1>6, <1>7, <1>8, <1>9 DEF Fixtures

-----------------------------------------------------------------------------
(* The invariant.                                                          *)

\* An instruction of any service preserves the invariant.
LEMMA ExecutesStep ==
  ASSUME IInv, Executes
  PROVE  IInv'
  <1>1. Kept /\ AtInv'
    <2>1. fx \in Fixtures
      BY Zenon DEF IInv, TypeOK
    <2>2. CASE fx = "copyin"
      BY Zenon, <2>2, CopyinStep DEF AtInv, Kept
    <2>3. CASE fx = "copyout"
      BY Zenon, <2>3, CopyoutStep DEF AtInv, Kept
    <2>4. CASE fx = "usercopy"
      BY Zenon, <2>4, UsercopyStep DEF AtInv, Kept
    <2>5. CASE fx = "dispatch"
      BY Zenon, <2>5, DispatchStep DEF AtInv, Kept
    <2>6. CASE fx = "cross"
      BY Zenon, <2>6, CrossStep DEF AtInv, Kept
    <2>7. CASE fx = "partial"
      BY Zenon, <2>7, PartialStep DEF AtInv, Kept
    <2>8. QED
      BY Zenon, <2>1, <2>2, <2>3, <2>4, <2>5, <2>6, <2>7 DEF Fixtures
  <1>2. TypeOK' /\ CallInv'
    BY Zenon, <1>1 DEF Executes, IInv, TypeOK, CallInv, ObservedInv, Kept, Src, Dst
  <1>3. QED
    BY Zenon, <1>1, <1>2 DEF IInv, Kept

\* SYSRET returns a settled result.
LEMMA ReturnStep ==
  ASSUME IInv, Return
  PROVE  IInv'
  <1>1. Settled(regs.rax)
    <2> USE DEF IInv, Return, Current, Code, AtInv, Instr
    <2>1. CASE fx = "copyin"
      BY <2>1 DEF CopyinAt, CopyinHandler, Load, Move, Emit
    <2>2. CASE fx = "copyout"
      BY <2>2 DEF CopyoutAt, CopyoutHandler, StoreByte, Move, Set, Emit
    <2>3. CASE fx = "usercopy"
      BY <2>3 DEF UsercopyAt, UsercopyHandler, Load, Store, Move, Set, Emit
    <2>4. CASE fx = "dispatch"
      BY <2>4 DEF DispatchAt, ByteServicesAt, DispatcherHandler, ByteServices, Dispatch, Load, Store,
                  Set, Emit, Putc
    <2>5. CASE fx = "cross"
      BY <2>5 DEF CrossAt, RangeAt, CopyService, LoadIndexed, StoreIndexed, Loop, Set, Move
    <2>6. CASE fx = "partial"
      BY <2>6, SMTT(20) DEF PartialAt, RangeAt, ByteServicesAt, PartialDispatcher, ByteServices, Dispatch,
                  CheckLength, LoadIndexed, StoreIndexed, Load, Store, Move, Set, Emit, Putc, Loop
    <2>7. QED
      BY Zenon, <2>1, <2>2, <2>3, <2>4, <2>5, <2>6 DEF TypeOK, Fixtures
  <1>2. TypeOK' /\ CallInv' /\ pc' = "returned" /\ Settled(regs.rax)'
    BY Zenon, <1>1 DEF Return, IInv, TypeOK, CallInv, ObservedInv, Settled, Src, Dst
  <1>3. QED
    BY Zenon, <1>2 DEF IInv

\* Every step of a caller, a service or the host preserves the invariant.
LEMMA Inductive == IInv /\ [Next]_vars => IInv'
  <1> SUFFICES ASSUME IInv, [Next]_vars
               PROVE  IInv'
    OBVIOUS
  <1>1. CASE CallOwn
    <2>1. SetOK(fx, Suite[fx].program[calls + 1].set)
      BY <1>1, OwnSets, SMTT(20) DEF CallOwn, IInv, TypeOK
    <2>2. QED
      BY Zenon, <1>1, <2>1, SyscallStep DEF CallOwn
  <1>2. CASE CallOpen
    BY <1>2, OpenSets, SyscallStep, SMTT(20) DEF CallOpen, IInv, TypeOK
  <1>3. CASE StoreResult
    BY <1>3, Zenon DEF StoreResult, IInv, TypeOK, CallInv
  <1>4. CASE Terminal
    BY Zenon, <1>4 DEF Terminal, IInv, TypeOK, CallInv
  <1>5. CASE Access \/ Compute \/ Branch
    BY Zenon, <1>5, ExecutesStep DEF Executes, Access, Compute, Branch
  <1>6. CASE PageFault
    BY Zenon, <1>6, PageFaultStep
  <1>7. CASE HandlePageFault
    BY Zenon, <1>7, HandlePageFaultStep
  <1>8. CASE Return
    BY Zenon, <1>8, ReturnStep
  <1>9. CASE Verify
    BY Zenon, <1>9 DEF Verify, IInv, TypeOK, CallInv
  <1>10. CASE UNCHANGED vars
    <2>1. AtInv => AtInv'
      BY Zenon, <1>10, AtInvKept DEF vars, IInv, TypeOK
    <2>2. QED
      BY <1>10, <2>1 DEF vars, IInv, TypeOK, CallInv, ObservedInv, FaultInv, Settled, Address, Current,
                         Src, Dst
  <1>11. QED
    BY Zenon, <1>1, <1>2, <1>3, <1>4, <1>5, <1>6, <1>7, <1>8, <1>9, <1>10 DEF Next

\* Every reachable state satisfies the assertion of the offset it is at.
THEOREM Assertions == Spec => []IInv
  <1>1. Init => IInv
    BY SuiteFixups DEF Init, IInv, TypeOK, CallInv, Zeroed, Registers, Slots
  <1>2. QED
    BY <1>1, Inductive, PTL DEF Spec

\* Every call that returns, whoever made it, did exactly what its service
\* promises, for every page size, pointer and length.
THEOREM ServicesMeetContract == Spec => []ReturnsMeetContract
  <1>1. IInv => ReturnsMeetContract
    BY DEF IInv, ReturnsMeetContract, Settled, Promise, CallInv, ObservedInv, TypeOK
  <1>2. QED
    BY <1>1, Assertions, PTL

\* The page-fault handler stops the guest for one reason only: a byte copy of
\* partial_dispatch.rs met an absent page, which its two-entry table does not
\* list.  Every fault of the five other fixtures, and of its range copy, is
\* fixed up.
THEOREM OnlyUnlistedByteCopyStops ==
  Spec => [](pc = "stopped" => fx = "partial" /\ fault.rip \in {38, 41})
  <1>1. IInv => (pc = "stopped" => fx = "partial" /\ fault.rip \in {38, 41})
    BY Zenon DEF IInv
  <1>2. QED
    BY <1>1, Assertions, PTL
=============================================================================
