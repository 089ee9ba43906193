----------------------------- MODULE PciConfig -----------------------------
(***************************************************************************)
(* Configuration mechanism #1 of pci.rs: an address latch, one function    *)
(* behind it, and the MSI capability of the entropy endpoint.  An address  *)
(* is the name of the dword it selects, or "elsewhere" when it selects no  *)
(* register of the function.                                               *)
(***************************************************************************)
EXTENDS Sequences, TLC

NoMsi  == [on |-> FALSE, addr |-> "0", data |-> "0"]
Latch(regs, msi) == [address |-> "elsewhere", regs |-> regs, hasMsi |-> msi, msi |-> NoMsi]

\* The dwords the drivers read, by offset; every other offset reads zero.
SyntheticFunction == ("0x00" :> "synthetic") @@ ("0x08" :> "class") @@ ("0x10" :> "bar")
VirtioCaps(last) ==
  ("0x34" :> "0x40") @@ ("0x40" :> "common>0x50") @@ ("0x50" :> "notify>0x64") @@ ("0x64" :> last)
RngFunction == ("0x00" :> "rng") @@ VirtioCaps("isr>end") @@ ("0x10" :> "bar")
BlkFunction ==
  ("0x00" :> "blk") @@ VirtioCaps("isr>0x74") @@ ("0x74" :> "device>end") @@ ("0x10" :> "bar")

NewSynthetic == Latch(SyntheticFunction, FALSE)
NewRng       == Latch(RngFunction, FALSE)
NewRngMsi    == Latch(RngFunction, TRUE)
NewBlk       == Latch(BlkFunction, FALSE)

\* PciMsiCapability::read_dword, and the link to it from the ISR capability.
ReadSelected(p) ==
  LET o == p.address IN
  CASE o = "elsewhere"          -> "ones"
    [] p.hasMsi /\ o = "0x74"   -> IF p.msi.on THEN "msi+enable" ELSE "msi"
    [] p.hasMsi /\ o = "0x78"   -> p.msi.addr
    [] p.hasMsi /\ o = "0x7c"   -> p.msi.data
    [] p.hasMsi /\ o = "0x64"   -> "isr>0x74"
    [] o \in DOMAIN p.regs      -> p.regs[o]
    [] OTHER                    -> "0"

WriteAccepted(p, v) ==
  /\ p.hasMsi
  /\ \/ p.address = "0x74" /\ v \in {"msi", "msi+enable"}
     \/ p.address \in {"0x78", "0x7c"}
WriteSelected(p, v) ==
  CASE p.address = "0x74" -> [p EXCEPT !.msi.on = v = "msi+enable"]
    [] p.address = "0x78" -> [p EXCEPT !.msi.addr = v]
    [] p.address = "0x7c" -> [p EXCEPT !.msi.data = v]

\* A port access: dispatch.
PciAccepts(p, a)  == a.port = "address" \/ a.dir = "in" \/ WriteAccepted(p, a.val)
PciAccess(p, a) ==
  IF a.dir = "in" THEN p
  ELSE IF a.port = "address" THEN [p EXCEPT !.address = a.val] ELSE WriteSelected(p, a.val)
PciResponse(p, a) == IF a.port = "address" THEN p.address ELSE ReadSelected(p)

\* msi_message: nothing unless the driver enabled it.
MsiMessage(p) == IF p.hasMsi /\ p.msi.on THEN <<p.msi.addr, p.msi.data>> ELSE <<"0", "0">>
=============================================================================
