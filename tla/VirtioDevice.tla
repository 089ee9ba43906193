---------------------------- MODULE VirtioDevice ----------------------------
(***************************************************************************)
(* The virtio devices of pci/virtio.rs (entropy) and pci/virtio_blk.rs     *)
(* (block) as pure operators, for the fixtures that drive them register by *)
(* register: what an access does, and what processing a notified queue     *)
(* does to the device and to guest memory.                                 *)
(*                                                                         *)
(* Registers are named; the status register is its set of bits, a feature  *)
(* word its set of features.  A ring address names the location in guest   *)
(* memory where a whole ring lies, the sequence of descriptors or a record *)
(* of index and slots, and a buffer is the sequence of its sectors.        *)
(***************************************************************************)
EXTENDS Integers, Sequences

SectorSize   == 512
QueueMaxSize == 8
Capacity     == 4
RngPayload   == <<"random">>
Unset        == "0"              \* the value of an address register half
Known        == {"ack", "driver", "features", "ok"}

Sector0 == "sector0"             \* deterministic_sector
Backing == <<Sector0, "sector1", "sector2", "sector3">>

Offered(mode) ==
  [w \in 0..1 |-> IF w = 1 THEN {"v1"} ELSE IF mode = "blk" THEN {"indirect"} ELSE {}]

NewVirtio(mode) ==
  [mode |-> mode, status |-> {}, dfsel |-> 0, gfsel |-> 0, gf |-> [w \in 0..1 |-> {}],
   qsel |-> 0, qsize |-> QueueMaxSize, qon |-> FALSE,
   addr |-> [desc |-> <<Unset, Unset>>, avail |-> <<Unset, Unset>>, used |-> <<Unset, Unset>>],
   notify |-> FALSE, avail |-> 0, used |-> 0, isr |-> 0,
   disk |-> IF mode = "blk" THEN Backing ELSE <<>>]

IsVirtio(d) == d.mode \in {"rng", "blk"}

\* A status write of 0: everything but the backing store is as new.
Reset(d) == [NewVirtio(d.mode) EXCEPT !.disk = d.disk]

-----------------------------------------------------------------------------
\* Registers

Half(o)     == IF o \in {"descHi", "availHi", "usedHi"} THEN 2 ELSE 1
RingOf(o)   == CASE o \in {"descLo", "descHi"}   -> "desc"
                 [] o \in {"availLo", "availHi"} -> "avail"
                 [] o \in {"usedLo", "usedHi"}   -> "used"
AddressRegs == {"descLo", "descHi", "availLo", "availHi", "usedLo", "usedHi"}

FeaturesValid(d) == d.gf[1] = {"v1"} /\ d.gf[0] \subseteq Offered(d.mode)[0]

\* A ring address of zero: both halves are unset.
AddressesSet(d) == \A r \in DOMAIN d.addr : d.addr[r] # <<Unset, Unset>>

EnsureQueueUnlocked(d) == d.qsel = 0 /\ ~d.qon
EnsureQueueReady(d) ==
  {"ok", "features"} \subseteq d.status /\ FeaturesValid(d) /\ d.qon /\ AddressesSet(d)

StatusAccepted(d, s) ==
  \/ s = {}
  \/ /\ d.status \subseteq s /\ s \subseteq Known
     /\ "driver" \in s => "ack" \in s
     /\ "features" \in s => {"ack", "driver"} \subseteq s
     /\ ("ok" \in s /\ ~("features" \in s /\ ~FeaturesValid(d))) => ("features" \in s /\ d.qon)

\* Features the device cannot honour leave FEATURES_OK clear; that early
\* return comes before DRIVER_OK is looked at.
WriteStatus(d, s) ==
  IF s = {} THEN Reset(d)
  ELSE [d EXCEPT !.status = IF "features" \in s /\ ~FeaturesValid(d) THEN s \ {"features"} ELSE s]

\* Registers the fixtures read; every other read has no effect either.
VirtioReads(d) ==
  {"dfsel", "df", "gfsel", "gf", "status", "qsel", "qsize", "qon", "isr"}
    \cup (IF d.mode = "blk" THEN {"cap"} ELSE {})

VirtioAccepts(d, a) ==
  IF a.dir = "read" THEN a.off \in VirtioReads(d)
  ELSE CASE a.off \in {"dfsel", "gfsel", "qsel"} -> TRUE
         [] a.off = "gf"           -> "features" \notin d.status /\ (d.gfsel \in 0..1 \/ a.val = {})
         [] a.off = "status"       -> StatusAccepted(d, a.val)
         [] a.off = "qsize"        -> EnsureQueueUnlocked(d) /\ a.val \in {1, 2, 4, QueueMaxSize}
         [] a.off = "qon"          -> d.qsel = 0 /\ (a.val = 0 \/ (a.val = 1 /\ AddressesSet(d)))
         [] a.off \in AddressRegs  -> EnsureQueueUnlocked(d)
         [] a.off = "notify"       -> a.val = 0 /\ EnsureQueueReady(d)
         [] OTHER                  -> FALSE

VirtioResponse(d, a) ==
  CASE a.off = "dfsel"  -> d.dfsel
    [] a.off = "df"     -> IF d.dfsel \in 0..1 THEN Offered(d.mode)[d.dfsel] ELSE {}
    [] a.off = "gfsel"  -> d.gfsel
    [] a.off = "gf"     -> IF d.gfsel \in 0..1 THEN d.gf[d.gfsel] ELSE {}
    [] a.off = "status" -> d.status
    [] a.off = "qsel"   -> d.qsel
    [] a.off = "qsize"  -> IF d.qsel = 0 THEN d.qsize ELSE 0
    [] a.off = "qon"    -> IF d.qon THEN 1 ELSE 0
    [] a.off = "isr"    -> d.isr
    [] a.off = "cap"    -> Capacity

\* The device after an accepted access; reading ISR acknowledges it.
VirtioAccess(d, a) ==
  IF a.dir = "read" THEN (IF a.off = "isr" THEN [d EXCEPT !.isr = 0] ELSE d)
  ELSE CASE a.off = "dfsel"       -> [d EXCEPT !.dfsel = a.val]
         [] a.off = "gfsel"       -> [d EXCEPT !.gfsel = a.val]
         [] a.off = "gf"          -> IF d.gfsel \in 0..1 THEN [d EXCEPT !.gf[d.gfsel] = a.val] ELSE d
         [] a.off = "status"      -> WriteStatus(d, a.val)
         [] a.off = "qsel"        -> [d EXCEPT !.qsel = a.val]
         [] a.off = "qsize"       -> [d EXCEPT !.qsize = a.val]
         [] a.off = "qon"         -> [d EXCEPT !.qon = a.val = 1]
         [] a.off \in AddressRegs -> [d EXCEPT !.addr[RingOf(a.off)][Half(a.off)] = a.val]
         [] a.off = "notify"      -> [d EXCEPT !.notify = TRUE]

-----------------------------------------------------------------------------
\* The queue

NoElement   == [id |-> 0, len |-> 0]
EmptyUsed   == [idx |-> 0, ring |-> [s \in 0..QueueMaxSize - 1 |-> NoElement]]
Avail(n)    == [idx |-> n, ring |-> [s \in 0..QueueMaxSize - 1 |-> 0]]
Desc(a, l, f, n) == [addr |-> a, len |-> l, flags |-> f, next |-> n]
Header(t, s)     == [type |-> t, sector |-> s]

Ring(d, mem, r) == mem[d.addr[r][1]]
HeadOf(d, mem)  == Ring(d, mem, "avail").ring[d.avail % d.qsize]

\* What both devices check before they look at a descriptor.
Serviceable(d, mem) ==
  /\ EnsureQueueReady(d) /\ d.notify
  /\ Ring(d, mem, "avail").idx = d.avail + 1
  /\ HeadOf(d, mem) < d.qsize
  /\ Ring(d, mem, "used").idx = d.used

\* resolve_request_chain: header, data and status, in the ring or in the
\* indirect table the head points at.
ChainOf(d, mem) ==
  LET head  == HeadOf(d, mem)
      outer == Ring(d, mem, "desc")[head + 1]
      table == IF "INDIRECT" \in outer.flags THEN mem[outer.addr] ELSE Ring(d, mem, "desc")
      first == IF "INDIRECT" \in outer.flags THEN 0 ELSE head
      data  == table[first + 1].next
  IN [outer |-> outer, indirect |-> "INDIRECT" \in outer.flags, table |-> table,
      walk |-> <<first, data, table[data + 1].next>>]

ChainValid(d, c) ==
  LET part(i) == c.table[c.walk[i] + 1]
      size    == IF c.indirect THEN c.outer.len \div 16 ELSE d.qsize IN
  /\ c.indirect => /\ "indirect" \in d.gf[0] /\ c.outer.flags = {"INDIRECT"}
                   /\ size >= 3 /\ c.outer.len % 16 = 0
  /\ \A i \in 1..3 : c.walk[i] < size /\ \A j \in 1..(i - 1) : c.walk[i] # c.walk[j]
  /\ part(1).flags = {"NEXT"} /\ part(1).len = 16
  /\ part(3).flags = {"WRITE"} /\ part(3).len = 1

\* The device and memory once the request was served: used element and
\* index, queue indices, notification consumed, ISR raised.
Complete(d, mem, head, len) ==
  [dev |-> [d EXCEPT !.avail = @ + 1, !.used = @ + 1, !.notify = FALSE, !.isr = 1],
   mem |-> [mem EXCEPT ![d.addr.used[1]] =
              [idx  |-> d.used + 1,
               ring |-> [@.ring EXCEPT ![d.used % d.qsize] = [id |-> head, len |-> len]]]]]

Refused(d, mem) == [ok |-> FALSE, dev |-> d, mem |-> mem, done |-> NoElement]

\* process_notified_queue of the entropy device.
ProcessRng(d, mem) ==
  LET head == HeadOf(d, mem)  desc == Ring(d, mem, "desc")[head + 1]
      r    == Complete(d, [mem EXCEPT ![desc.addr] = RngPayload], head, 8) IN
  IF Serviceable(d, mem) /\ desc.flags = {"WRITE"} /\ desc.len >= 8
  THEN [ok |-> TRUE, dev |-> r.dev, mem |-> r.mem, done |-> [id |-> head, len |-> 8]]
  ELSE Refused(d, mem)

\* request_backing_range
RangeValid(sector, len) ==
  len > 0 /\ len % SectorSize = 0 /\ sector < Capacity /\ sector * SectorSize + len <= Capacity * SectorSize

\* The disk after n sectors of data were copied to it.
Stored(disk, sector, n, data) ==
  [s \in 1..Capacity |-> IF s > sector /\ s <= sector + n THEN data[s - sector] ELSE disk[s]]

\* process_notified_queue_atomic; process_notified_queue serves only a read
\* of one sector.
ProcessBlk(d, mem, atomic) ==
  LET c      == ChainOf(d, mem)
      part(i) == c.table[c.walk[i] + 1]
      data   == part(2)  hdr == mem[part(1).addr]
      in     == hdr.type = "in"
      n      == data.len \div SectorSize
      valid  == /\ ChainValid(d, c)
                /\ hdr.type \in (IF atomic THEN {"in", "out"} ELSE {"in"})
                /\ atomic \/ data.len = SectorSize
                /\ RangeValid(hdr.sector, data.len)
                /\ data.flags = (IF in THEN {"NEXT", "WRITE"} ELSE {"NEXT"})
      len    == IF in THEN data.len + 1 ELSE 1
      read   == IF in THEN [mem EXCEPT ![data.addr] = SubSeq(d.disk, hdr.sector + 1, hdr.sector + n)]
                ELSE mem
      r      == Complete(d, [read EXCEPT ![part(3).addr] = "OK"], HeadOf(d, mem), len)
      disk   == IF in THEN d.disk ELSE Stored(d.disk, hdr.sector, n, mem[data.addr])
  IN IF Serviceable(d, mem) /\ valid
     THEN [ok |-> TRUE, dev |-> [r.dev EXCEPT !.disk = disk], mem |-> r.mem,
           done |-> [id |-> HeadOf(d, mem), len |-> len, sector |-> hdr.sector]]
     ELSE Refused(d, mem)

ProcessQueue(d, mem, atomic) ==
  IF d.mode = "rng" THEN ProcessRng(d, mem) ELSE ProcessBlk(d, mem, atomic)
=============================================================================
