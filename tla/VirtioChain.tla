---------------------------- MODULE VirtioChain ----------------------------
(***************************************************************************)
(* From a descriptor head to a request: resolve_request_chain              *)
(* (pci/virtio_blk_indirect.rs) and the checks its caller makes on the     *)
(* resolved descriptors and on the request header                          *)
(* (process_notified_queue_atomic in pci/virtio_blk_write_readback.rs).    *)
(*                                                                         *)
(* Guest memory is an array of slots of the size of a descriptor.  The     *)
(* descriptor ring starts at slot 0 (queue_desc); an indirect table starts *)
(* at the slot its descriptor names and may lie anywhere, over the ring    *)
(* too.  Memory goes on behind the ring and behind a table: an index past  *)
(* the declared size would read what is there.  The state is what a driver *)
(* has put there, chosen at the start, and the outcome of one service call *)
(* on it, up to the point where the used ring is looked at: what follows   *)
(* is in VirtioBlkQueue.                                                   *)
(***************************************************************************)
EXTENDS Naturals

CONSTANTS
    QueueSize,       \* queue_size
    Memory,          \* the slots that are guest memory
    Free,            \* the slots that hold any of Descriptors
    Descriptors,
    Drivers,         \* the rest of what a driver sets up
    HeaderLength,    \* 16
    StatusLength,    \* 1
    DescriptorSize,  \* DESCRIPTOR_SIZE
    MaxIndirect,     \* MAX_INDIRECT_DESCRIPTORS
    SectorSize,      \* VIRTIO_BLK_SECTOR_SIZE
    Capacity         \* VIRTIO_BLK_CAPACITY_SECTORS

Flags == {"NEXT", "WRITE", "INDIRECT"}
Descriptor == [flags : SUBSET Flags, length : Nat, next : Nat, address : Nat]

\* The sixteen bytes at the address of the header, if that is guest memory.
Header == [readable : BOOLEAN, type : {"IN", "OUT", "other"}, reserved : Nat, sector : Nat]

MIN_REQUEST_DESCRIPTORS == 3

ASSUME ChainAssumption ==
    /\ QueueSize \in Nat \ {0} /\ MaxIndirect \in Nat
    /\ DescriptorSize \in Nat \ {0} /\ SectorSize \in Nat \ {0}
    /\ HeaderLength \in Nat /\ StatusLength \in Nat /\ Capacity \in Nat
    /\ Memory \subseteq Nat /\ Free \subseteq Memory
    /\ Descriptors \subseteq Descriptor
    \* the head is what the avail ring holds
    /\ Drivers \subseteq [placed : [Memory \ Free -> Descriptor], head : Nat,
                          negotiated : BOOLEAN, request : Header]

VARIABLES
    memory,
    driver,   \* the member of Drivers
    outcome

chainVars == <<memory, driver, outcome>>

Pending == [done |-> FALSE, base |-> 0, walk |-> <<>>]
Refused == [done |-> TRUE, base |-> 0, walk |-> <<>>]
Accepted(base, walk) == [done |-> TRUE, base |-> base, walk |-> walk]

-----------------------------------------------------------------------------
\* ensure_descriptor_index
DescriptorIndexInRange(index) == index < QueueSize

\* read_descriptor: the index is in range and the address is guest memory.
RingReadable(index) == DescriptorIndexInRange(index) /\ index \in Memory

ResolveDirect ==
    LET head == driver.head
        header == memory[head]
        data == memory[header.next]
        status == memory[data.next]
    IN  IF /\ header.flags = {"NEXT"} /\ header.length >= HeaderLength
           /\ header.next # head /\ RingReadable(header.next)
           /\ data.next \notin {head, header.next} /\ RingReadable(data.next)
           /\ status.flags = {"WRITE"} /\ status.length >= StatusLength
        THEN Accepted(0, <<head, header.next, data.next>>)
        ELSE Refused

Entries(outer) == outer.length \div DescriptorSize

\* Wrong on purpose: read_indirect_descriptor lets the index equal to the entry count through.
TableReadableAtEnd(outer, index) ==
    index <= Entries(outer) /\ outer.address + index \in Memory

\* read_indirect_descriptor
TableReadable(outer, index) ==
    index < Entries(outer) /\ outer.address + index \in Memory

\* The outer descriptor's own conditions; then the walk in the table it names, where no
\* entry may be indirect itself.
ResolveIndirect(outer) ==
    LET At(index) == memory[outer.address + index]
        header == At(0)
        data == At(header.next)
        status == At(data.next)
    IN  IF /\ driver.negotiated
           /\ outer.flags = {"INDIRECT"}
           /\ outer.length >= MIN_REQUEST_DESCRIPTORS * DescriptorSize
           /\ outer.length % DescriptorSize = 0
           /\ Entries(outer) <= MaxIndirect
           /\ TableReadable(outer, 0)
           /\ header.flags = {"NEXT"} /\ header.length >= HeaderLength
           /\ header.next # 0 /\ TableReadable(outer, header.next)
           /\ "INDIRECT" \notin data.flags
           /\ data.next \notin {0, header.next} /\ TableReadable(outer, data.next)
           /\ status.flags = {"WRITE"} /\ status.length >= StatusLength
        THEN Accepted(outer.address, <<0, header.next, data.next>>)
        ELSE Refused

ResolveRequestChain ==
    IF "INDIRECT" \in memory[driver.head].flags
    THEN ResolveIndirect(memory[driver.head]) ELSE ResolveDirect

\* The header's fields, request_backing_range, and require_flags on the data descriptor.
RequestValid(data) ==
    LET request == driver.request
    IN  /\ request.readable
        /\ request.type \in {"IN", "OUT"} /\ request.reserved = 0
        /\ data.length > 0 /\ data.length % SectorSize = 0
        /\ request.sector < Capacity
        /\ request.sector * SectorSize + data.length <= Capacity * SectorSize
        /\ data.flags = IF request.type = "IN" THEN {"NEXT", "WRITE"} ELSE {"NEXT"}

ChainInit ==
    /\ driver \in Drivers
    /\ \E free \in [Free -> Descriptors] :
          memory = [i \in Memory |-> IF i \in Free THEN free[i] ELSE driver.placed[i]]
    /\ outcome = Pending

ProcessNotified ==
    /\ ~outcome.done
    /\ outcome' = LET chain == ResolveRequestChain
                  IN  IF /\ RingReadable(driver.head)
                         /\ chain # Refused
                         /\ RequestValid(memory[chain.base + chain.walk[2]])
                      THEN chain ELSE Refused
    /\ UNCHANGED <<memory, driver>>

ChainNext == ProcessNotified

ChainSpec == ChainInit /\ [][ChainNext]_chainVars

-----------------------------------------------------------------------------
(* Properties. *)

\* Where the request is laid out: in the ring from the named head, or in the indirect table
\* that the head describes from its first entry.  A table of size 0 holds no request: it was
\* not negotiated, its descriptor is linked or writable, or its length is not that of three
\* to MaxIndirect whole descriptors.
Layout ==
    LET outer == memory[driver.head]
    IN  IF ~RingReadable(driver.head) THEN [base |-> 0, start |-> 0, size |-> 0]
        ELSE IF "INDIRECT" \notin outer.flags
             THEN [base |-> 0, start |-> driver.head, size |-> QueueSize]
        ELSE [base |-> outer.address, start |-> 0,
              size |-> IF /\ driver.negotiated /\ outer.flags = {"INDIRECT"}
                          /\ \E n \in 3 .. MaxIndirect : outer.length = n * DescriptorSize
                       THEN outer.length \div DescriptorSize ELSE 0]

\* What a well-formed request is, whatever the layout: three different descriptors within
\* the size, in guest memory, linked header -> data -> status, readable header of a read or
\* a write, whole sectors of data in the direction of the request that all exist on the
\* disk, writable status.
IsRequest(layout, w) ==
    LET At(i) == memory[layout.base + w[i]]
        request == driver.request
    IN  /\ \A i \in 1 .. 3 : w[i] \in 0 .. layout.size - 1 /\ layout.base + w[i] \in Memory
        /\ \A i, j \in 1 .. 3 : w[i] = w[j] => i = j
        /\ At(1).next = w[2] /\ At(2).next = w[3]
        /\ At(1).flags = {"NEXT"} /\ At(1).length >= HeaderLength
        /\ At(3).flags = {"WRITE"} /\ At(3).length >= StatusLength
        /\ request.readable /\ request.type # "other" /\ request.reserved = 0
        /\ At(2).flags = {"NEXT"} \cup IF request.type = "IN" THEN {"WRITE"} ELSE {}
        /\ \E n \in 1 .. Capacity :
              At(2).length = n * SectorSize /\ request.sector + n <= Capacity

Requests(layout) ==
    {w \in {layout.start} \X (0 .. layout.size - 1) \X (0 .. layout.size - 1) :
        IsRequest(layout, w)}

\* Of the requests that can be put in guest memory, the service accepts exactly the
\* well-formed ones that start at the named head, and takes their descriptors: cycles,
\* indices past the ring or the table, heads out of range, nested, partial, oversized or
\* unnegotiated indirect tables, wrong directions and sectors off the disk are all
\* refused, and nothing else is.
ResolvesExactlyRequests ==
    outcome.done =>
        IF Requests(Layout) = {} THEN outcome = Refused
        ELSE outcome.base = Layout.base /\ {outcome.walk} = Requests(Layout)
=============================================================================
