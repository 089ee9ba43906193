----------------------- MODULE MCCheckpointTransport -----------------------
EXTENDS CheckpointTransport

MCVcpu(n, msrs) ==
  [regs  |-> [r \in Range(RegisterOrder) |-> n],
   sregs |-> [segs |-> [s \in Range(SegmentOrder) |-> [base |-> n, type |-> 15, dpl |-> 3, bit |-> 1]],
              gdt |-> n, idt |-> n, ctl |-> [c \in Range(ControlOrder) |-> n]],
   msrs  |-> msrs]
Msr(i, v) == [index |-> i, value |-> v]
Unsorted == MCVcpu(1, <<Msr(5, 1), Msr(3, 2)>>)
NoMsrs   == MCVcpu(2, <<>>)
Twice    == MCVcpu(1, <<Msr(3, 1), Msr(3, 2)>>)
Excess   == MCVcpu(1, <<Msr(3, 1), Msr(5, 2), Msr(6, 2)>>)

P(a) == [addr |-> a, bytes |-> 7]
MCPage(pages, v) == [pages |-> pages, vcpu |-> v]
GoodPage == MCPage(<<P(4), P(8)>>, Unsorted)
MCFull(g, pad) == [guest |-> g, master |-> 1, slave |-> 2, ioapic |-> [regs |-> 3, pad |-> pad], lapic |-> 4]
MCSmp(p, v, ids, mps, pad) ==
  [primary |-> p, secondary |-> v, ids |-> ids, owners |-> <<ids, ids>>, mps |-> mps, master |-> 1,
   slave |-> 2, ioapic |-> [regs |-> 3, pad |-> pad], lapics |-> <<4, 5>>]
GoodFull == MCFull(GoodPage, 0)
GoodSmp  == MCSmp(GoodPage, NoMsrs, <<0, 1>>, <<0, 4>>, 0)

\* Devices: as new, in use and idle, with a completion to acknowledge, notified.
New(bar) ==
  [bar0 |-> bar, dfsel |-> 0, gfsel |-> 0, features |-> 0, status |-> 0, enabled |-> 0, isr |-> 0,
   qsel |-> 0, qsize |-> 8, avail |-> 0, used |-> 0, desc |-> 0, driver |-> 0, device |-> 0,
   backing |-> 1, notify |-> FALSE, external |-> FALSE]
Used(bar) ==
  [New(bar) EXCEPT !.features = 3, !.status = 15, !.enabled = 1, !.qsize = 2, !.desc = 1, !.driver = 1,
     !.device = 1, !.avail = 1, !.used = 1]
Completed(bar) == [Used(bar) EXCEPT !.isr = 1]
Notified(bar)  == [Used(bar) EXCEPT !.notify = TRUE]
FileBacked(bar) == [Used(bar) EXCEPT !.external = TRUE]

Reg(a, g) == [addr |-> a, len |-> 2, gsi |-> g, match |-> 0]
Regs   == <<Reg(17, 5), Reg(21, 6)>>
Blk(d) == [ctl |-> GoodFull, bar0 |-> d.bar0, dev |-> d]
Two(c, d, e) == [ctl |-> c, devs |-> <<d, e>>]
Tx(c, r) == [cp |-> c, regs |-> r]
TokenTx(c, t) == [cp |-> c, regs |-> Regs, token |-> t]

\* A vCPU after the power-on defaults and one captured in another order.
MCRestorable ==
  [vcpu   |-> {Unsorted, NoMsrs},
   page   |-> {GoodPage, MCPage(<<P(0)>>, NoMsrs), MCPage(<<P(56)>>, NoMsrs)},
   full   |-> {GoodFull},
   smp    |-> {GoodSmp},
   blk    |-> {Blk(New(16)), Blk(Used(16))},
   twoBlk |-> {Two(GoodFull, New(16), Used(20))},
   smpBlk |-> {Two(GoodSmp, New(16), Used(20))},
   pair   |-> {[regs |-> Regs], [regs |-> <<Reg(17, 5), [Reg(19, 6) EXCEPT !.len = 8, !.match = 16]>>]},
   tx     |-> {Tx(Blk(Used(16)), <<Reg(17, 5)>>)},
   twoTx  |-> {Tx(Two(GoodFull, Used(16), Used(20)), Regs)},
   smpTx  |-> {Tx(Two(GoodSmp, Used(16), Used(20)), Regs)},
   smpTx2 |-> {TokenTx(Two(GoodSmp, Completed(16), Used(20)), TokenOf(Completed(16))),
               TokenTx(Two(GoodSmp, New(16), Completed(20)), TokenOf(Completed(20)))},
   smpTx3 |-> {TokenTx(Two(GoodSmp, Notified(16), Used(20)), TokenOf(Notified(16))),
               TokenTx(Two(GoodSmp, New(16), Notified(20)), TokenOf(Notified(20)))}]

\* What the formats cannot carry: duplicate or too many MSRs, pages out of
\* place, padding in use, run states KVM does not know, work that is pending
\* without the token that goes with it, a backing file, doorbells that are
\* not the devices' own.
MCUnrestorable ==
  [vcpu   |-> {Twice, Excess},
   page   |-> {MCPage(<<P(8), P(4)>>, NoMsrs), MCPage(<<P(6)>>, NoMsrs), MCPage(<<P(60)>>, NoMsrs),
               MCPage(<<P(0), P(4), P(8)>>, NoMsrs), MCPage(<<P(4)>>, Twice)},
   full   |-> {MCFull(GoodPage, 1), MCFull(MCPage(<<P(4)>>, Twice), 0)},
   smp    |-> {MCSmp(GoodPage, NoMsrs, <<1, 1>>, <<0, 0>>, 0), MCSmp(GoodPage, NoMsrs, <<0, 1>>, <<0, 5>>, 0),
               MCSmp(GoodPage, NoMsrs, <<0, 1>>, <<0, 0>>, 1), MCSmp(GoodPage, Twice, <<0, 1>>, <<0, 0>>, 0)},
   blk    |-> {Blk(d) : d \in {Completed(16), Notified(16), FileBacked(16), Used(17)}},
   twoBlk |-> {Two(GoodFull, Used(20), Used(16)), Two(GoodFull, Used(16), Completed(20))},
   smpBlk |-> {Two(GoodSmp, Used(16), Used(16)), Two(GoodSmp, Notified(16), Used(20))},
   pair   |-> {},
   tx     |-> {Tx(Blk(Notified(16)), <<Reg(17, 5)>>)},
   twoTx  |-> {Tx(Two(GoodFull, Used(16), Notified(20)), Regs)},
   smpTx  |-> {Tx(Two(GoodSmp, Completed(16), Used(20)), Regs),
               Tx(Two(GoodSmp, Used(16), Used(20)), <<Reg(18, 5), Reg(21, 6)>>)},
   smpTx2 |-> {TokenTx(Two(GoodSmp, Completed(16), Completed(20)), TokenOf(Completed(16))),
               TokenTx(Two(GoodSmp, Completed(16), Used(20)), TokenOf(Used(20))),
               TokenTx(Two(GoodSmp, Completed(16), Used(20)), TokenOf(Used(24))),
               TokenTx(Two(GoodSmp, Notified(16), Used(20)), TokenOf(Notified(16)))},
   smpTx3 |-> {TokenTx(Two(GoodSmp, Notified(16), Notified(20)), TokenOf(Notified(16))),
               TokenTx(Two(GoodSmp, Completed(16), Used(20)), TokenOf(Completed(16))),
               TokenTx(Two(GoodSmp, Used(16), FileBacked(20)), TokenOf(Used(20)))}]

MCMaxFaults == [f \in DOMAIN MCRestorable |-> IF f = "pair" THEN 2 ELSE 1]
MCHosts     == {{3, 4, 5, 6}, {3}}
=============================================================================
