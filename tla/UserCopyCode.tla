---------------------------- MODULE UserCopyCode ----------------------------
(***************************************************************************)
(* The system-call services that copy bytes between user buffers: the      *)
(* guest kernels of copyin.rs, copyout.rs, syscall/usercopy.rs,            *)
(* syscall/dispatcher.rs, syscall/cross_page.rs and                        *)
(* syscall/partial_dispatch.rs, with their page-fault handlers, fixup      *)
(* tables and user programs.                                               *)
(*                                                                         *)
(* A service is its code: the instruction at each offset behind LSTAR, at  *)
(* the offsets the source uses for fault sites and fixups.  A load or a    *)
(* store of an absent page faults; the handler resumes at the fixup of the *)
(* faulting instruction.                                                   *)
(*                                                                         *)
(* Bytes, characters and results are integers, an error is its negative    *)
(* number.  Selectors, flags and the frames on the kernel stack are left   *)
(* out: interrupts are masked throughout the kernel.                       *)
(***************************************************************************)
EXTENDS Integers, Sequences, FiniteSets, TLC

CONSTANT PageSize   \* bytes of a page

ASSUME PageSizeAssumption == PageSize \in Nat /\ PageSize >= 8

EFAULT == -14
EINVAL == -22
ENOSYS == -38

Char(c) ==
  [C |-> 67, D |-> 68, F |-> 70, G |-> 71, I |-> 73, K |-> 75, M |-> 77,
   P |-> 80, R |-> 82, U |-> 85, W |-> 87, X |-> 88][c]
Chars(s) == [i \in 1..Len(s) |-> Char(s[i])]

Ranged == {"cross", "partial"}

-----------------------------------------------------------------------------
\* User memory

At(page, offset) == page * PageSize + offset
PageOf(a)        == a \div PageSize

\* The byte services have one data page and a pointer above the mapped memory.
Good == At(0, 0)
Bad  == At(1, 0)
BytePages == 0 :> TRUE @@ 1 :> FALSE

\* USER_PAGES, the pages from 0x20000.
RangePages     == [p \in 0..11 |-> p \notin {5, 11}]
Crossing(page) == At(page + 1, 0) - 2

Value == 107
FourFrom(a, b) == [x \in a..(a + 3) |-> b + x - a]
RangeData      == FourFrom(Crossing(0), 17) @@ FourFrom(Crossing(4), 85) @@ FourFrom(Crossing(8), 153)
PartialData    == RangeData @@ FourFrom(At(0, 0), 222) @@ At(0, 4) :> Value
NoData         == <<>>

-----------------------------------------------------------------------------
\* The services

Instr(op, arg, next) == [op |-> op, arg |-> arg, next |-> next]
Load(next)           == Instr("load", FALSE, next)
Store(next)          == Instr("store", FALSE, next)
LoadIndexed(next)    == Instr("load", TRUE, next)
StoreIndexed(next)   == Instr("store", TRUE, next)
StoreByte(v, next)   == Instr("poke", v, next)
Set(r, v, next)      == Instr("set", <<r, v>>, next)
Move(r, s, next)     == Instr("move", <<r, s>>, next)
Emit(c, next)        == Instr("emit", Char(c), next)
Putc(next)           == Instr("putc", 0, next)
Dispatch(table, next) == Instr("dispatch", table, next)
CheckLength(bad, next) == Instr("length", bad, next)
Loop(back, next)     == Instr("loop", back, next)
Sysret               == Instr("sysret", 0, 0)

CopyinHandler(offset) ==
  CASE offset = 13 -> Load(16)
    [] offset = 16 -> Move("r8", "rax", 19)
    [] offset = 19 -> Emit("G", 23)
    [] offset = 23 -> Move("rax", "r8", 26)
    [] offset = 26 -> Sysret
CopyoutHandler(offset) ==
  CASE offset = 13 -> StoreByte(Value, 16)
    [] offset = 16 -> Set("r8", 0, 19)
    [] offset = 19 -> Emit("W", 23)
    [] offset = 23 -> Move("rax", "r8", 26)
    [] offset = 26 -> Sysret
UsercopyHandler(offset) ==
  CASE offset = 13 -> Load(16)
    [] offset = 16 -> Store(18)
    [] offset = 18 -> Set("r8", 0, 21)
    [] offset = 21 -> Emit("C", 37)
    [] offset = 27 -> Emit("R", 37)
    [] offset = 33 -> Emit("W", 37)
    [] offset = 37 -> Move("rax", "r8", 40)
    [] offset = 40 -> Sysret

\* nr 0 and nr 1, at the same offsets in both dispatchers.
ByteServices(offset) ==
  CASE offset = 38 -> Load(41)
    [] offset = 41 -> Store(43)
    [] offset = 43 -> Emit("C", 47)
    [] offset = 47 -> Set("rax", 0, 84)
    [] offset = 51 -> Emit("R", 55)
    [] offset = 55 -> Set("rax", EFAULT, 84)
    [] offset = 64 -> Emit("W", 68)
    [] offset = 68 -> Set("rax", EFAULT, 84)
    [] offset = 77 -> Putc(82)
    [] offset = 82 -> Set("rax", 0, 84)
    [] offset = 84 -> Sysret
DispatcherHandler(offset) ==
  CASE offset = 13 -> Dispatch(<<38, 77>>, 25)
    [] offset = 25 -> Emit("U", 29)
    [] offset = 29 -> Set("rax", ENOSYS, 84)
    [] OTHER -> ByteServices(offset)

CopyService(offset) ==
  CASE offset = 13 -> Set("r8", 0, 19)
    [] offset = 19 -> LoadIndexed(24)
    [] offset = 24 -> StoreIndexed(28)
    [] offset = 28 -> Loop(19, 37)
    [] offset = 37 -> Move("rax", "r8", 40)
    [] offset = 40 -> Sysret

\* r9 keeps the count while al holds the proof byte.
PartialDispatcher(offset) ==
  CASE offset = 13  -> Dispatch(<<38, 77, 103>>, 90)
    [] offset = 90  -> Emit("U", 94)
    [] offset = 94  -> Set("rax", ENOSYS, 84)
    [] offset = 103 -> CheckLength(167, 114)
    [] offset = 114 -> Set("r8", 0, 120)
    [] offset = 120 -> LoadIndexed(125)
    [] offset = 125 -> StoreIndexed(130)
    [] offset = 130 -> Loop(120, 137)
    [] offset = 137 -> Move("r9", "r8", 143)
    [] offset = 143 -> Emit("M", 147)
    [] offset = 147 -> Move("rax", "r9", 84)
    [] offset = 152 -> Move("r9", "r8", 158)
    [] offset = 158 -> Emit("F", 162)
    [] offset = 162 -> Move("rax", "r9", 84)
    [] offset = 167 -> Emit("I", 171)
    [] offset = 171 -> Set("rax", EINVAL, 84)
    [] OTHER -> ByteServices(offset)

\* The instruction of a fixture's service at an offset behind LSTAR.
Code(fx, offset) ==
  CASE fx = "copyin"   -> CopyinHandler(offset)
    [] fx = "copyout"  -> CopyoutHandler(offset)
    [] fx = "usercopy" -> UsercopyHandler(offset)
    [] fx = "dispatch" -> DispatcherHandler(offset)
    [] fx = "cross"    -> CopyService(offset)
    [] fx = "partial"  -> PartialDispatcher(offset)

\* expected_fixup_entries: faulting instruction, fixup, observation slot.
Fixup(fixup, slot) == [fixup |-> fixup, slot |-> slot]
FixupTable(load, afterLoad, store, afterStore) ==
  [site \in {load, store} |->
     IF site = load THEN Fixup(afterLoad, "read") ELSE Fixup(afterStore, "write")]
UsercopyFixups == FixupTable(13, 27, 16, 33)
DispatchFixups == FixupTable(38, 51, 41, 64)
CrossFixups    == FixupTable(19, 37, 24, 37)

\* Only the range copy is listed: a fault of the byte copy has no fixup here.
PartialFixups  == FixupTable(120, 152, 125, 152)

\* The handlers of copyin.rs and copyout.rs fix up every fault, and there is
\* only one instruction that can.
CopyinFixups   == [site \in {13} |-> Fixup(26, "read")]
CopyoutFixups  == [site \in {13} |-> Fixup(26, "write")]

\* Wrong on purpose: every handler leaves an error in r8.
HandlerSetsR8Always(fx) == TRUE

\* The range services keep their progress in r8; their handlers use r12.
HandlerSetsR8(fx) == fx \notin Ranged

LengthAccepted(n) == n # 0 /\ n <= 4
RangeEnd(fx, n)   == IF fx = "cross" THEN 4 ELSE n

-----------------------------------------------------------------------------
\* The user programs and what the host expects of them

\* A call sets some registers; afterwards the program may read a byte back
\* or enter the kernel through int 0x80.
Call(set, after)  == [set |-> set, after |-> after]
Copy(s, d)        == [rdi |-> s, rsi |-> d]
CopyByte(s, d)    == [rax |-> 0, rdi |-> s, rsi |-> d]
Range(s, d, n)    == [rax |-> 2, rdi |-> s, rsi |-> d, rdx |-> n]
Character         == [rax |-> 1, rdi |-> Char("P")]
Unknown           == [rax |-> 255]
Plain(set)        == Call(set, "")

CopyinProgram   == <<Plain([rdi |-> Good]), Plain([rdi |-> Bad])>>
CopyoutProgram  == <<Call([rdi |-> Good], "rdi"), Plain([rdi |-> Bad])>>
UsercopyProgram ==
  <<Call(Copy(Good, Good + 1), "rsi"), Plain(Copy(Bad, Good + 1)), Plain(Copy(Good, Bad))>>
DispatchProgram ==
  <<Call(CopyByte(Good, Good + 1), "rsi"), Plain(Character), Plain(CopyByte(Bad, Good + 1)),
    Plain(CopyByte(Good, Bad)), Plain(Unknown)>>
CrossProgram ==
  <<Call(Copy(Crossing(0), Crossing(2)), "int"), Call(Copy(Crossing(4), Crossing(6)), "int"),
    Call(Copy(Crossing(8), Crossing(10)), "int")>>
PartialProgram ==
  <<Plain(Range(Crossing(0), Crossing(2), 4)), Plain(Range(Crossing(4), Crossing(6), 4)),
    Plain(Range(Crossing(8), Crossing(10), 4)), Plain(Range(At(0, 0), At(2, 0), 1)),
    Plain(Range(At(0, 0), At(2, 0), 0)), Plain(Range(At(0, 0), At(2, 0), 5)),
    Plain(CopyByte(At(0, 4), At(2, 4))), Plain(Character), Plain(Unknown)>>

-----------------------------------------------------------------------------
\* The fixtures: what is loaded, how many exits are allowed, and the proof

Guest(fixups, program, pages, data, budget, proof) ==
  [fixups |-> fixups, program |-> program, pages |-> pages,
   mem |-> [a \in 0..(Cardinality(DOMAIN pages) * PageSize - 1) |-> IF a \in DOMAIN data THEN data[a] ELSE 0],
   budget |-> budget, proof |-> Chars(proof)]

CopyinGuest ==
  Guest(CopyinFixups, CopyinProgram, BytePages, Good :> Value, 4, <<"G", "F", "D">>)
CopyoutGuest ==
  Guest(CopyoutFixups, CopyoutProgram, BytePages, NoData, 4, <<"W", "F", "D">>)
UsercopyGuest ==
  Guest(UsercopyFixups, UsercopyProgram, BytePages, Good :> Value, 5,
        <<"C", "R", "W", "D">>)
DispatchGuest ==
  Guest(DispatchFixups, DispatchProgram, BytePages, Good :> Value, 7,
        <<"C", "P", "R", "W", "U", "D">>)
CrossGuest ==
  Guest(CrossFixups, CrossProgram, RangePages, RangeData, 5, <<"K", "K", "K", "D">>)

\* Wrong on purpose: the budget forgets the final HLT.
PartialGuestWithoutHlt ==
  Guest(PartialFixups, PartialProgram, RangePages, PartialData, 10,
        <<"M", "F", "F", "M", "I", "I", "C", "P", "U", "D">>)

PartialGuest ==
  Guest(PartialFixups, PartialProgram, RangePages, PartialData, 11,
        <<"M", "F", "F", "M", "I", "I", "C", "P", "U", "D">>)

Suite ==
  [copyin |-> CopyinGuest, copyout |-> CopyoutGuest, usercopy |-> UsercopyGuest,
   dispatch |-> DispatchGuest, cross |-> CrossGuest, partial |-> PartialGuest]

-----------------------------------------------------------------------------
\* validate_runtime_state: results, bytes read back, observations and CR2

Observed(fixups, rip, cr2, error) ==
  [cr2 |-> cr2, error |-> error, rip |-> rip, fixup |-> fixups[rip].fixup]
State(returns, bytes, observations, cr2) ==
  [returns |-> returns, bytes |-> bytes, obs |-> observations, cr2 |-> cr2]

CopyinState ==
  State(<<Value, EFAULT>>, NoData, [read |-> Observed(CopyinFixups, 13, Bad, 0)], Bad)
CopyoutState ==
  State(<<0, Value, EFAULT>>, Good :> Value, [write |-> Observed(CopyoutFixups, 13, Bad, 2)], Bad)
UsercopyState ==
  State(<<0, Value, EFAULT, EFAULT>>, Good :> Value @@ (Good + 1) :> Value,
        [read  |-> Observed(UsercopyFixups, 13, Bad, 0),
         write |-> Observed(UsercopyFixups, 16, Bad, 2)], Bad)
DispatchState ==
  State(<<0, Value, 0, EFAULT, EFAULT, ENOSYS>>, Good :> Value @@ (Good + 1) :> Value,
        [read  |-> Observed(DispatchFixups, 38, Bad, 0),
         write |-> Observed(DispatchFixups, 41, Bad, 2)], Bad)

Four(a, s) == [x \in a..(a + 3) |-> s[x - a + 1]]
RangeCopied ==
  Four(Crossing(2), <<17, 18, 19, 20>>) @@ Four(Crossing(6), <<85, 86, 0, 0>>)
    @@ Four(Crossing(10), <<153, 154, 0, 0>>)
CrossState ==
  State(<<4, 2, 2>>, RangeCopied @@ RangeData,
        [read  |-> Observed(CrossFixups, 19, At(5, 0), 0),
         write |-> Observed(CrossFixups, 24, At(11, 0), 2)], At(11, 0))
PartialState ==
  State(<<4, 2, 2, 1, EINVAL, EINVAL, 0, 0, ENOSYS>>,
        RangeCopied @@ Four(At(2, 0), <<222, 0, 0, 0>>) @@ At(2, 4) :> Value,
        [read  |-> Observed(PartialFixups, 120, At(5, 0), 0),
         write |-> Observed(PartialFixups, 125, At(11, 0), 2)], At(11, 0))

States ==
  [copyin |-> CopyinState, copyout |-> CopyoutState, usercopy |-> UsercopyState,
   dispatch |-> DispatchState, cross |-> CrossState, partial |-> PartialState]
=============================================================================
