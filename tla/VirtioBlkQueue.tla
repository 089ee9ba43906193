--------------------------- MODULE VirtioBlkQueue ---------------------------
(***************************************************************************)
(* The data plane of VirtioBlkDevice: the split virtqueue shared with the  *)
(* guest driver, the two queue-service routines of the device, the         *)
(* in-memory backing and the optional host file behind it.                 *)
(*                                                                         *)
(*   process_notified_queue_atomic   pci/virtio_blk_write_readback.rs      *)
(*   process_notified_queue          pci/virtio_blk.rs  (reads only)       *)
(*   create/open/persist             pci/virtio_blk_file_backed.rs         *)
(*                                                                         *)
(* The vCPU thread that runs the guest also runs the service, so a guest   *)
(* step never falls inside one.  The host file is different: the process   *)
(* or the machine can stop between write_all, sync_all and completion, so  *)
(* a file-backed write takes three steps.  A service call that returns an  *)
(* error before touching anything is a stuttering step.                    *)
(*                                                                         *)
(* A descriptor chain is abstracted to the request it encodes (VirtioChain *)
(* models its resolution); a data buffer holds one content per sector of   *)
(* the disk.                                                               *)
(***************************************************************************)
EXTENDS Integers, FiniteSets

CONSTANTS
    Capacity,      \* VIRTIO_BLK_CAPACITY_SECTORS
    Values,        \* what a driver can store in a sector
    Initial,       \* deterministic_backing()
    Torn,          \* a sector of which only a part was written
    Payloads,      \* buffers a driver publishes
    Requests,      \* requests a driver publishes
    QueueSize,     \* queue_size
    IndexModulus,  \* 2^16 for the u16 ring indices
    MaxInFlight,   \* requests a driver keeps outstanding at a time
    FileBacked,    \* persistent_backing.is_some()
    Legacy         \* whether the host calls process_notified_queue

Sectors == 0 .. Capacity - 1
Contents == Values \cup {Torn}
Heads == 0 .. QueueSize - 1
Indices == 0 .. IndexModulus - 1

RequestKind == {"IN", "OUT", "OTHER"}

ASSUME QueueAssumption ==
    /\ Capacity \in Nat \ {0}
    /\ QueueSize \in Nat \ {0}
    /\ IndexModulus \in Nat /\ QueueSize < IndexModulus
    /\ IndexModulus % QueueSize = 0
    /\ MaxInFlight \in Nat
    /\ Initial \in [Sectors -> Values]
    /\ Torn \notin Values
    /\ Payloads \subseteq [Sectors -> Values]
    /\ Requests \subseteq [kind : RequestKind, first : Nat, count : Nat,
                           data_mapped : BOOLEAN, status_mapped : BOOLEAN]
    /\ Requests # {}
    /\ FileBacked \in BOOLEAN
    /\ Legacy \in BOOLEAN

VARIABLES
    \* the device
    alive,             \* the VirtioBlkDevice value exists
    ready,             \* ensure_queue_ready()
    notify_pending, last_avail_idx, last_used_idx, isr_status, backing,
    svc,               \* progress of a file-backed write inside the service
    \* guest memory
    avail_idx, avail_ring, used_idx, used_ring, chain, buf, status_byte,
    \* the guest driver
    outstanding,       \* heads published and not yet reaped
    reaped,            \* used-ring position up to which completions were taken
    in_handler,        \* the ISR register was read and the used ring not yet
    \* the host file
    file,              \* what an open() reads
    disk,              \* what survives a power loss
    length_ok,         \* the file has exactly VIRTIO_BLK_BACKING_SIZE bytes
    \* history
    acked,             \* sector contents the guest was told
    limbo              \* sectors with a write attempt of unknown outcome

queue == <<notify_pending, last_avail_idx, last_used_idx, isr_status>>
rings == <<avail_idx, avail_ring, used_idx, used_ring>>
guest == <<rings, chain, buf, status_byte, outstanding, reaped, in_handler>>
host == <<file, disk, length_ok>>
history == <<acked, limbo>>
vars == <<alive, ready, queue, backing, svc, guest, host, history>>

-----------------------------------------------------------------------------
(* Ring arithmetic and requests. *)

NextIndex(i) == (i + 1) % IndexModulus
SlotOf(i) == i % QueueSize
Distance(from, to) == (to - from) % IndexModulus
Window(from, to) == {(from + k) % IndexModulus : k \in 0 .. Distance(from, to) - 1}

SectorsOf(r) == {s \in Sectors : r.first <= s /\ s < r.first + r.count}

\* A zero count stands for every length that is not a positive multiple of 512.
RequestBackingRange(r) == r.count > 0 /\ r.first < Capacity /\ r.first + r.count <= Capacity

Overlay(contents, source, sectors) ==
    [s \in Sectors |-> IF s \in sectors THEN source[s] ELSE contents[s]]

CurrentHead == avail_ring[SlotOf(last_avail_idx)]
CurrentRequest == chain[CurrentHead]
CurrentSectors == SectorsOf(CurrentRequest)

\* The checks both services make before they look at the descriptors.
Notified ==
    /\ alive
    /\ svc = "idle"
    /\ ready
    /\ notify_pending
    /\ avail_idx = NextIndex(last_avail_idx)
    /\ used_idx = last_used_idx

\* Preflight of the atomic service: every range it will read or write is mapped.
AtomicPreflight ==
    /\ Notified
    /\ RequestBackingRange(CurrentRequest)
    /\ CurrentRequest.data_mapped
    /\ CurrentRequest.status_mapped

\* Wrong on purpose: the used element goes to the slot after the one the index announces.
CompleteNextSlot(head) ==
    /\ status_byte' = [status_byte EXCEPT ![head] = "ok"]
    /\ used_ring' = [used_ring EXCEPT ![SlotOf(NextIndex(last_used_idx))] = head]
    /\ used_idx' = NextIndex(last_used_idx)
    /\ last_avail_idx' = avail_idx
    /\ last_used_idx' = NextIndex(last_used_idx)
    /\ notify_pending' = FALSE
    /\ isr_status' = 1

\* Wrong on purpose: the ISR bit is left as it is.
CompleteSilently(head) ==
    /\ status_byte' = [status_byte EXCEPT ![head] = "ok"]
    /\ used_ring' = [used_ring EXCEPT ![SlotOf(last_used_idx)] = head]
    /\ used_idx' = NextIndex(last_used_idx)
    /\ last_avail_idx' = avail_idx
    /\ last_used_idx' = NextIndex(last_used_idx)
    /\ notify_pending' = FALSE
    /\ UNCHANGED isr_status

\* Used element, used index, device indices, notification and ISR, in the code's order
\* and with nothing fallible between them.
Complete(head) ==
    /\ status_byte' = [status_byte EXCEPT ![head] = "ok"]
    /\ used_ring' = [used_ring EXCEPT ![SlotOf(last_used_idx)] = head]
    /\ used_idx' = NextIndex(last_used_idx)
    /\ last_avail_idx' = avail_idx
    /\ last_used_idx' = NextIndex(last_used_idx)
    /\ notify_pending' = FALSE
    /\ isr_status' = 1

-----------------------------------------------------------------------------
NoRequest == [kind |-> "OTHER", first |-> 0, count |-> 0,
              data_mapped |-> FALSE, status_mapped |-> FALSE]

\* Zeroed guest memory and a driver that has published nothing.
FreshGuest ==
    /\ avail_idx' = 0
    /\ avail_ring' = [i \in Heads |-> 0]
    /\ used_idx' = 0
    /\ used_ring' = [i \in Heads |-> 0]
    /\ chain' = [h \in Heads |-> NoRequest]
    /\ buf' = [h \in Heads |-> Initial]
    /\ status_byte' = [h \in Heads |-> "unset"]
    /\ outstanding' = {}
    /\ reaped' = 0
    /\ in_handler' = FALSE

FreshQueue ==
    /\ ready' = FALSE
    /\ notify_pending' = FALSE
    /\ last_avail_idx' = 0
    /\ last_used_idx' = 0
    /\ isr_status' = 0
    /\ svc' = "idle"

\* VirtioBlkDevice::new or a completed create_file_backed, before any driver.
Init ==
    /\ alive = TRUE
    /\ ready = FALSE
    /\ notify_pending = FALSE
    /\ last_avail_idx = 0
    /\ last_used_idx = 0
    /\ isr_status = 0
    /\ backing = Initial
    /\ svc = "idle"
    /\ avail_idx = 0
    /\ avail_ring = [i \in Heads |-> 0]
    /\ used_idx = 0
    /\ used_ring = [i \in Heads |-> 0]
    /\ chain = [h \in Heads |-> NoRequest]
    /\ buf = [h \in Heads |-> Initial]
    /\ status_byte = [h \in Heads |-> "unset"]
    /\ outstanding = {}
    /\ reaped = 0
    /\ in_handler = FALSE
    /\ file = Initial
    /\ disk = Initial
    /\ length_ok = TRUE
    /\ acked = Initial
    /\ limbo = {}

-----------------------------------------------------------------------------
(* The guest driver. *)

GuestRuns == alive /\ svc = "idle"

\* Feature negotiation, ring addresses, enable and DRIVER_OK (VirtioRegisters has the
\* single writes), with zeroed rings.  No notification is accepted before its last write.
BringUp ==
    /\ GuestRuns
    /\ ~ready
    /\ ready' = TRUE
    /\ FreshGuest
    /\ UNCHANGED <<alive, queue, backing, svc, host, history>>

\* Writing zero to the status register: the backing is kept, the queue state is not.
GuestReset ==
    /\ GuestRuns
    /\ ready
    /\ FreshQueue
    /\ UNCHANGED <<alive, backing, guest, host, history>>

\* Fill a free chain and its buffer, put its head in the next avail slot, bump avail.idx.
Publish(h, r, p) ==
    /\ GuestRuns
    /\ ready
    /\ h \notin outstanding
    /\ Cardinality(outstanding) < MaxInFlight
    /\ chain' = [chain EXCEPT ![h] = r]
    /\ buf' = [buf EXCEPT ![h] = p]
    /\ status_byte' = [status_byte EXCEPT ![h] = "unset"]
    /\ avail_ring' = [avail_ring EXCEPT ![SlotOf(avail_idx)] = h]
    /\ avail_idx' = NextIndex(avail_idx)
    /\ outstanding' = outstanding \cup {h}
    /\ UNCHANGED <<alive, ready, queue, backing, svc, used_idx, used_ring, reaped, in_handler,
                   host, history>>

\* Wrong on purpose: a notification behind an unread interrupt is dropped.
NotifyUnlessInterrupt ==
    /\ GuestRuns
    /\ ready
    /\ notify_pending' = (isr_status = 0)
    /\ UNCHANGED <<alive, ready, last_avail_idx, last_used_idx, isr_status, backing, svc,
                   guest, host, history>>

Notify ==
    /\ GuestRuns
    /\ ready
    /\ notify_pending' = TRUE
    /\ UNCHANGED <<alive, ready, last_avail_idx, last_used_idx, isr_status, backing, svc,
                   guest, host, history>>

ReadIsr ==
    /\ GuestRuns
    /\ isr_status' = 0
    /\ in_handler' = (in_handler \/ isr_status = 1)
    /\ UNCHANGED <<alive, ready, notify_pending, last_avail_idx, last_used_idx, backing, svc,
                   rings, chain, buf, status_byte, outstanding, reaped, host, history>>

Reap ==
    /\ GuestRuns
    /\ in_handler \/ reaped # used_idx
    /\ outstanding' = outstanding \ {used_ring[SlotOf(k)] : k \in Window(reaped, used_idx)}
    /\ reaped' = used_idx
    /\ in_handler' = FALSE
    /\ UNCHANGED <<alive, ready, queue, backing, svc, rings, chain, buf, status_byte,
                   host, history>>

-----------------------------------------------------------------------------
(* The queue services. *)

\* Wrong on purpose: a read of several sectors fills only the first.
ServiceReadFirstSector ==
    /\ AtomicPreflight
    /\ CurrentRequest.kind = "IN"
    /\ buf' = [buf EXCEPT ![CurrentHead] = Overlay(@, backing, {CurrentRequest.first})]
    /\ Complete(CurrentHead)
    /\ UNCHANGED <<alive, ready, backing, svc, avail_idx, avail_ring, chain, outstanding,
                   reaped, in_handler, host, history>>

ServiceRead ==
    /\ AtomicPreflight
    /\ CurrentRequest.kind = "IN"
    /\ buf' = [buf EXCEPT ![CurrentHead] = Overlay(@, backing, CurrentSectors)]
    /\ Complete(CurrentHead)
    /\ UNCHANGED <<alive, ready, backing, svc, avail_idx, avail_ring, chain, outstanding,
                   reaped, in_handler, host, history>>

\* persist_backing_range returns at once when there is no host file.
ServiceWriteInMemory ==
    /\ ~FileBacked
    /\ AtomicPreflight
    /\ CurrentRequest.kind = "OUT"
    /\ backing' = Overlay(backing, buf[CurrentHead], CurrentSectors)
    /\ acked' = Overlay(acked, buf[CurrentHead], CurrentSectors)
    /\ Complete(CurrentHead)
    /\ UNCHANGED <<alive, ready, svc, avail_idx, avail_ring, chain, buf, outstanding,
                   reaped, in_handler, host, limbo>>

\* open, seek and write_all succeed: the file has the data, the disk may not.
PersistWrite ==
    /\ FileBacked
    /\ AtomicPreflight
    /\ CurrentRequest.kind = "OUT"
    /\ svc' = "written"
    /\ file' = Overlay(file, buf[CurrentHead], CurrentSectors)
    /\ limbo' = limbo \cup CurrentSectors
    /\ UNCHANGED <<alive, ready, queue, backing, guest, disk, length_ok, acked>>

\* open, seek or write_all fails after n whole sectors and, perhaps, a part of the next.
PersistWriteFails(n, part) ==
    LET written == {s \in CurrentSectors : s < CurrentRequest.first + n}
        torn == IF part THEN {CurrentRequest.first + n} ELSE {}
    IN  /\ FileBacked
        /\ AtomicPreflight
        /\ CurrentRequest.kind = "OUT"
        /\ torn \subseteq CurrentSectors
        /\ file' = [s \in Sectors |-> IF s \in torn THEN Torn
                                      ELSE IF s \in written THEN buf[CurrentHead][s]
                                      ELSE file[s]]
        /\ limbo' = limbo \cup written \cup torn
        /\ UNCHANGED <<alive, ready, queue, backing, svc, guest, disk, length_ok, acked>>

\* sync_all succeeds.  Nothing is assumed of sectors whose earlier sync failed.
PersistSync ==
    /\ svc = "written"
    /\ svc' = "synced"
    /\ disk' = Overlay(disk, file, CurrentSectors)
    /\ UNCHANGED <<alive, ready, queue, backing, guest, file, length_ok, history>>

PersistSyncFails ==
    /\ svc = "written"
    /\ svc' = "idle"
    /\ UNCHANGED <<alive, ready, queue, backing, guest, host, history>>

\* Wrong on purpose: the request completes without waiting for sync_all.
CompleteWriteUnsynced ==
    /\ svc # "idle"
    /\ svc' = "idle"
    /\ backing' = Overlay(backing, buf[CurrentHead], CurrentSectors)
    /\ acked' = Overlay(acked, buf[CurrentHead], CurrentSectors)
    /\ limbo' = limbo \ CurrentSectors
    /\ Complete(CurrentHead)
    /\ UNCHANGED <<alive, ready, avail_idx, avail_ring, chain, buf, outstanding,
                   reaped, in_handler, host>>

\* Guest status and used ring, then the cache, then the device's own indices.
CompleteWrite ==
    /\ svc = "synced"
    /\ svc' = "idle"
    /\ backing' = Overlay(backing, buf[CurrentHead], CurrentSectors)
    /\ acked' = Overlay(acked, buf[CurrentHead], CurrentSectors)
    /\ limbo' = limbo \ CurrentSectors
    /\ Complete(CurrentHead)
    /\ UNCHANGED <<alive, ready, avail_idx, avail_ring, chain, buf, outstanding,
                   reaped, in_handler, host>>

\* process_notified_queue has no preflight: it writes data, then status, then the used
\* ring, and stops at the first range that is not mapped.  A used ring whose index could
\* be read may still end outside guest memory.
LegacyRead ==
    /\ Legacy
    /\ Notified
    /\ CurrentRequest.kind = "IN"
    /\ RequestBackingRange(CurrentRequest)
    /\ CurrentRequest.data_mapped
    /\ buf' = [buf EXCEPT ![CurrentHead] = Overlay(@, backing, CurrentSectors)]
    /\ \/ /\ CurrentRequest.status_mapped
          /\ Complete(CurrentHead)
       \/ /\ CurrentRequest.status_mapped
          /\ status_byte' = [status_byte EXCEPT ![CurrentHead] = "ok"]
          /\ UNCHANGED <<used_ring, used_idx, queue>>
       \/ /\ ~CurrentRequest.status_mapped
          /\ UNCHANGED <<status_byte, used_ring, used_idx, queue>>
    /\ UNCHANGED <<alive, ready, backing, svc, avail_idx, avail_ring, chain, outstanding,
                   reaped, in_handler, host, history>>

-----------------------------------------------------------------------------
(* The host. *)

\* The page cache reaches the disk on its own schedule.
Writeback(s) ==
    /\ FileBacked
    /\ disk' = [disk EXCEPT ![s] = file[s]]
    /\ UNCHANGED <<alive, ready, queue, backing, svc, guest, file, length_ok, history>>

\* The process ends, at any point of a service; the page cache survives.
Crash ==
    /\ FileBacked
    /\ alive
    /\ alive' = FALSE
    /\ backing' = Initial
    /\ FreshQueue
    /\ FreshGuest
    /\ UNCHANGED <<host, history>>

\* The machine ends: what was not on the disk is gone.
PowerLoss ==
    /\ FileBacked
    /\ alive' = FALSE
    /\ backing' = Initial
    /\ FreshQueue
    /\ FreshGuest
    /\ file' = disk
    /\ UNCHANGED <<disk, length_ok, history>>

\* Wrong on purpose: a reopened device starts from the deterministic contents.
OpenFileBackedUnread ==
    /\ FileBacked
    /\ ~alive
    /\ length_ok
    /\ alive' = TRUE
    /\ backing' = Initial
    /\ acked' = Initial
    /\ limbo' = {s \in limbo : disk[s] # file[s]}
    /\ UNCHANGED <<ready, queue, svc, guest, host>>

\* open_file_backed: refuses a file of any other length, then caches what it reads.
OpenFileBacked ==
    /\ FileBacked
    /\ ~alive
    /\ length_ok
    /\ alive' = TRUE
    /\ backing' = file
    /\ acked' = file
    /\ limbo' = {s \in limbo : disk[s] # file[s]}
    /\ UNCHANGED <<ready, queue, svc, guest, host>>

CreateFileBacked ==
    /\ FileBacked
    /\ ~alive
    /\ alive' = TRUE
    /\ backing' = Initial
    /\ file' = Initial
    /\ disk' = Initial
    /\ length_ok' = TRUE
    /\ acked' = Initial
    /\ limbo' = {}
    /\ UNCHANGED <<ready, queue, svc, guest>>

\* The file was truncated; write_all failed (short file) or sync_all did (full file).
CreateFileBackedFails(full) ==
    /\ FileBacked
    /\ ~alive
    /\ length_ok' = full
    /\ file' = IF full THEN Initial ELSE file
    /\ limbo' = Sectors
    /\ UNCHANGED <<alive, ready, queue, backing, svc, guest, disk, acked>>

-----------------------------------------------------------------------------
Driver ==
    \/ BringUp
    \/ GuestReset
    \/ \E h \in Heads, r \in Requests, p \in Payloads : Publish(h, r, p)
    \/ Notify
    \/ ReadIsr
    \/ Reap

Service ==
    \/ ServiceRead
    \/ ServiceWriteInMemory
    \/ PersistWrite
    \/ \E n \in 0 .. Capacity, part \in BOOLEAN : PersistWriteFails(n, part)
    \/ PersistSync
    \/ PersistSyncFails
    \/ CompleteWrite
    \/ LegacyRead

HostFile ==
    \/ \E s \in Sectors : Writeback(s)
    \/ Crash
    \/ PowerLoss
    \/ OpenFileBacked
    \/ CreateFileBacked
    \/ \E full \in BOOLEAN : CreateFileBackedFails(full)

Next == Driver \/ Service \/ HostFile

Spec == Init /\ [][Next]_vars

\* The host loop serves a notification as soon as the notifying exit is dispatched, and a
\* driver notifies what it has published.
ServeRequest == ServiceRead \/ ServiceWriteInMemory
LiveSpec == Spec /\ WF_vars(Notify /\ avail_idx # last_avail_idx) /\ WF_vars(ServeRequest)

-----------------------------------------------------------------------------
(* Properties. *)

TypeOK ==
    /\ alive \in BOOLEAN
    /\ ready \in BOOLEAN
    /\ notify_pending \in BOOLEAN
    /\ last_avail_idx \in Indices
    /\ last_used_idx \in Indices
    /\ isr_status \in {0, 1}
    /\ backing \in [Sectors -> Contents]
    /\ svc \in {"idle", "written", "synced"}
    /\ avail_idx \in Indices
    /\ avail_ring \in [Heads -> Heads]
    /\ used_idx \in Indices
    /\ used_ring \in [Heads -> Heads]
    /\ chain \in [Heads -> Requests \cup {NoRequest}]
    /\ buf \in [Heads -> [Sectors -> Contents]]
    /\ status_byte \in [Heads -> {"unset", "ok"}]
    /\ outstanding \subseteq Heads
    /\ reaped \in Indices
    /\ in_handler \in BOOLEAN
    /\ file \in [Sectors -> Contents]
    /\ disk \in [Sectors -> Contents]
    /\ length_ok \in BOOLEAN
    /\ acked \in [Sectors -> Contents]
    /\ limbo \subseteq Sectors

\* Acknowledged data is durable: whatever crashed, failed or was written back, a sector
\* without an unresolved write attempt holds on the disk, and reads back from the file,
\* exactly what the guest was last told (persist_backing_range before completion).
AckedIsDurable ==
    FileBacked => \A s \in Sectors \ limbo : disk[s] = acked[s] /\ file[s] = acked[s]

\* The in-memory copy that serves reads is what the guest was told, also after a host
\* write failed half way: only a completed request reaches the cache.
CacheIsAcked == alive => backing = acked

\* No completion without its data on the disk: when used.idx moves for a write to a
\* file-backed device, sync_all has already succeeded for every sector of it.
DurableBeforeVisible ==
    [][ FileBacked /\ used_idx' # used_idx /\ ready /\ ready' /\ CurrentRequest.kind = "OUT" =>
            \A s \in CurrentSectors : disk[s] = buf[CurrentHead][s] ]_vars

\* A read completes with the acknowledged contents of every sector it asked for.
ReadsReturnAcked ==
    [][ used_idx' # used_idx /\ ready /\ ready' /\ CurrentRequest.kind = "IN" =>
            \A s \in CurrentSectors : buf'[CurrentHead][s] = acked[s] ]_vars

\* Each outstanding chain is either waiting in the avail ring or waiting to be reaped from
\* the used ring, never both and never twice, and a chain in the used ring has its status
\* byte written; across index wrap-around and resets.
HeadsIn(ring, positions) == {ring[SlotOf(k)] : k \in positions}
ChainsAreConserved ==
    ready =>
        LET waiting == Window(last_avail_idx, avail_idx)
            done == Window(reaped, used_idx)
        IN  /\ outstanding = HeadsIn(avail_ring, waiting) \cup HeadsIn(used_ring, done)
            /\ Cardinality(outstanding) = Cardinality(waiting) + Cardinality(done)
            /\ \A h \in HeadsIn(used_ring, done) : status_byte[h] = "ok"

\* The device's two ring positions and the guest-visible used.idx move together, also
\* over failed services: this is what the checkpoint tokens record and re-validate.
RingPositionsAgree ==
    /\ last_avail_idx = last_used_idx
    /\ ready => used_idx = last_used_idx

\* A completion the driver has not taken yet is announced: the ISR bit is up, or the
\* driver has read it and is about to look at the used ring.
CompletionIsAnnounced == ready /\ reaped # used_idx => isr_status = 1 \/ in_handler

\* The queue, the cache and the host file together keep the promise of BlockStore, the
\* acknowledged contents being the store.
Store == INSTANCE BlockStore WITH online <- alive, store <- acked, unsure <- limbo
ImplementsBlockStore == Store!Spec

\* With one request outstanding at a time, everything published is eventually consumed.
PublishedIsServed ==
    [](ready /\ avail_idx # last_avail_idx => <>(~ready \/ avail_idx = last_avail_idx))
=============================================================================
