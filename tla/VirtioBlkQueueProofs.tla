------------------------ MODULE VirtioBlkQueueProofs ------------------------
(***************************************************************************)
(* The safety of the virtio-blk data plane for every disk size, queue      *)
(* size, index width, request and payload set, with and without a host     *)
(* file: type correctness, ring positions, completion announcement,        *)
(* durability of acknowledged data, the refinement of BlockStore, and that *)
(* no chain is lost or duplicated between the avail and the used ring.     *)
(***************************************************************************)
EXTENDS VirtioBlkQueue, FiniteSetTheorems, TLAPS

\* Merging buffers keeps a sector map a sector map.
LEMMA OverlayType ==
    ASSUME NEW V, NEW contents \in [Sectors -> V], NEW source \in [Sectors -> V], NEW sectors
    PROVE  Overlay(contents, source, sectors) \in [Sectors -> V]
  BY Zenon DEF Overlay

\* A merged buffer has the source inside the merged sectors and the old contents outside.
LEMMA OverlayValue ==
    ASSUME NEW contents, NEW source, NEW sectors, NEW s \in Sectors
    PROVE  Overlay(contents, source, sectors)[s] =
             IF s \in sectors THEN source[s] ELSE contents[s]
  BY Zenon DEF Overlay

\* The wrapping successor of a ring index is a ring index.
LEMMA NextIndexType == \A i \in Indices : NextIndex(i) \in Indices
  BY QueueAssumption DEF Indices, NextIndex

\* Every ring index has a slot of the ring.
LEMMA SlotType == \A i \in Indices : SlotOf(i) \in Heads
  BY QueueAssumption DEF Indices, SlotOf, Heads

\* Sector maps of driver values are sector maps of contents.
LEMMA InitialType == Initial \in [Sectors -> Contents] /\ Payloads \subseteq [Sectors -> Contents]
  BY Zenon, QueueAssumption DEF Contents

\* Zero is a ring index and a head.
LEMMA ZeroType == 0 \in Indices /\ 0 \in Heads
  BY QueueAssumption DEF Indices, Heads

-----------------------------------------------------------------------------
\* The part of the type invariant about device and host.
DeviceType ==
    /\ alive \in BOOLEAN
    /\ ready \in BOOLEAN
    /\ notify_pending \in BOOLEAN
    /\ last_avail_idx \in Indices
    /\ last_used_idx \in Indices
    /\ isr_status \in {0, 1}
    /\ backing \in [Sectors -> Contents]
    /\ svc \in {"idle", "written", "synced"}
    /\ file \in [Sectors -> Contents]
    /\ disk \in [Sectors -> Contents]
    /\ length_ok \in BOOLEAN
    /\ acked \in [Sectors -> Contents]
    /\ limbo \subseteq Sectors

\* The part of the type invariant about guest memory and driver.
GuestType ==
    /\ avail_idx \in Indices
    /\ avail_ring \in [Heads -> Heads]
    /\ used_idx \in Indices
    /\ used_ring \in [Heads -> Heads]
    /\ chain \in [Heads -> Requests \cup {NoRequest}]
    /\ buf \in [Heads -> [Sectors -> Contents]]
    /\ status_byte \in [Heads -> {"unset", "ok"}]
    /\ outstanding \subseteq Heads
    /\ reaped \in Indices
    /\ in_handler \in BOOLEAN

\* The two halves are the type invariant.
LEMMA TypeSplit == TypeOK <=> DeviceType /\ GuestType
  BY Zenon DEF TypeOK, DeviceType, GuestType

\* A new device and zeroed guest memory are well typed.
LEMMA TypeInit == Init => TypeOK
<1>1. Init => DeviceType
  BY Zenon, InitialType, ZeroType DEF Init, DeviceType
<1>2. Init => GuestType
  BY Zenon, InitialType, ZeroType DEF Init, GuestType
<1>. QED  BY <1>1, <1>2, TypeSplit

\* The request being served: its head, its buffer, and its sectors.
LEMMA CurrentType ==
    ASSUME TypeOK
    PROVE  /\ CurrentHead \in Heads
           /\ buf[CurrentHead] \in [Sectors -> Contents]
           /\ CurrentSectors \subseteq Sectors
<1>1. SlotOf(last_avail_idx) \in Heads
  BY Zenon, SlotType DEF TypeOK
<1>2. CurrentHead \in Heads
  BY Zenon, <1>1 DEF TypeOK, CurrentHead
<1>. QED BY Zenon, <1>2 DEF TypeOK, CurrentSectors, SectorsOf

\* A completion keeps the types of what it assigns.
LEMMA CompleteType ==
    ASSUME TypeOK, Complete(CurrentHead)
    PROVE  /\ status_byte' \in [Heads -> {"unset", "ok"}]
           /\ used_ring' \in [Heads -> Heads]
           /\ used_idx' \in Indices
           /\ last_avail_idx' \in Indices
           /\ last_used_idx' \in Indices
           /\ notify_pending' \in BOOLEAN
           /\ isr_status' \in {0, 1}
  BY Zenon, CurrentType, NextIndexType DEF TypeOK, Complete

\* Device steps of the driver, the services and the host keep the types.
LEMMA TypeNext == TypeOK /\ [Next]_vars => TypeOK'
<1>. SUFFICES ASSUME TypeOK, [Next]_vars PROVE DeviceType' /\ GuestType'
  BY TypeSplit, PTL
<1>. USE TypeSplit
<1>1. ASSUME FreshGuest PROVE GuestType'
  BY Zenon, <1>1, InitialType, ZeroType DEF FreshGuest, GuestType
<1>2. CASE BringUp
  BY Zenon, <1>2, <1>1 DEF BringUp, DeviceType, queue, host, history
<1>3. CASE GuestReset
  BY Zenon, <1>3, ZeroType DEF GuestReset, FreshQueue, DeviceType, GuestType, guest, rings, host, history
<1>4. ASSUME NEW h \in Heads, NEW r \in Requests, NEW p \in Payloads, Publish(h, r, p)
      PROVE  DeviceType' /\ GuestType'
  <2>1. DeviceType'
    BY Zenon, <1>4 DEF Publish, DeviceType, queue, host, history
  <2>2. avail_idx' \in Indices
    BY Zenon, <1>4, NextIndexType DEF Publish, GuestType
  <2>3. p \in [Sectors -> Contents]
    BY Zenon, InitialType
  <2>. QED BY Zenon, <1>4, <2>1, <2>2, <2>3 DEF Publish, GuestType
<1>5. CASE Notify
  BY Zenon, <1>5 DEF Notify, DeviceType, GuestType, guest, rings, host, history
<1>6. CASE ReadIsr
  BY Zenon, <1>6 DEF ReadIsr, DeviceType, GuestType, rings, host, history
<1>7. CASE Reap
  BY Zenon, <1>7 DEF Reap, DeviceType, GuestType, queue, rings, host, history
<1>8. ASSUME buf' = [buf EXCEPT ![CurrentHead] = Overlay(@, backing, CurrentSectors)]
      PROVE  buf' \in [Heads -> [Sectors -> Contents]]
  <2>1. Overlay(buf[CurrentHead], backing, CurrentSectors) \in [Sectors -> Contents]
    BY Zenon, CurrentType, OverlayType DEF DeviceType
  <2>. QED BY Zenon, <1>8, <2>1 DEF GuestType
<1>9. CASE ServiceRead
  BY Zenon, <1>8, <1>9, CompleteType DEF ServiceRead, DeviceType, GuestType, host, history
<1>10. Overlay(acked, buf[CurrentHead], CurrentSectors) \in [Sectors -> Contents]
       /\ Overlay(backing, buf[CurrentHead], CurrentSectors) \in [Sectors -> Contents]
       /\ Overlay(file, buf[CurrentHead], CurrentSectors) \in [Sectors -> Contents]
       /\ Overlay(disk, file, CurrentSectors) \in [Sectors -> Contents]
  BY Zenon, CurrentType, OverlayType DEF DeviceType
<1>11. CASE ServiceWriteInMemory
  BY Zenon, <1>10, <1>11, CompleteType DEF ServiceWriteInMemory, DeviceType, GuestType, host
<1>12. CASE PersistWrite
  BY Zenon, <1>10, <1>12, CurrentType DEF PersistWrite, DeviceType, GuestType, queue, guest, rings
<1>13. ASSUME NEW n \in 0 .. Capacity, NEW part \in BOOLEAN, PersistWriteFails(n, part)
       PROVE  DeviceType' /\ GuestType'
  <2>1. file' \in [Sectors -> Contents]
    BY Zenon, <1>13, CurrentType DEF PersistWriteFails, DeviceType, Contents
  <2>2. limbo' \subseteq Sectors
    BY Zenon, <1>13, CurrentType DEF PersistWriteFails, DeviceType
  <2>. QED BY <1>13, <2>1, <2>2 DEF PersistWriteFails, DeviceType, GuestType, queue, guest, rings
<1>14. CASE PersistSync
  BY Zenon, <1>10, <1>14 DEF PersistSync, DeviceType, GuestType, queue, guest, rings, history
<1>15. CASE PersistSyncFails
  BY Zenon, <1>15 DEF PersistSyncFails, DeviceType, GuestType, queue, guest, rings, host, history
<1>16. CASE CompleteWrite
  BY Zenon, <1>10, <1>16, CompleteType DEF CompleteWrite, DeviceType, GuestType, host
<1>17. CASE LegacyRead
  <2>1. buf' \in [Heads -> [Sectors -> Contents]]
    BY Zenon, <1>8, <1>17 DEF LegacyRead
  <2>2. CASE Complete(CurrentHead)
    BY Zenon, <1>17, <2>1, <2>2, CompleteType DEF LegacyRead, DeviceType, GuestType, host, history
  <2>3. CASE UNCHANGED <<status_byte, used_ring, used_idx, queue>>
    BY Zenon, <1>17, <2>1, <2>3 DEF LegacyRead, DeviceType, GuestType, host, history, queue
  <2>4. CASE /\ status_byte' = [status_byte EXCEPT ![CurrentHead] = "ok"]
             /\ UNCHANGED <<used_ring, used_idx, queue>>
    <3>1. status_byte' \in [Heads -> {"unset", "ok"}]
      BY Zenon, <2>4, CurrentType DEF GuestType
    <3>. QED BY Zenon, <1>17, <2>1, <2>4, <3>1 DEF LegacyRead, DeviceType, GuestType, host, history, queue
  <2>. QED BY Zenon, <1>17, <2>2, <2>3, <2>4 DEF LegacyRead
<1>18. ASSUME NEW s \in Sectors, Writeback(s)
       PROVE  DeviceType' /\ GuestType'
  BY <1>18 DEF Writeback, DeviceType, GuestType, queue, guest, rings, history
<1>19. CASE Crash \/ PowerLoss
  <2>1. FreshGuest /\ FreshQueue /\ alive' = FALSE /\ backing' = Initial
        /\ file' \in {file, disk} /\ UNCHANGED <<disk, length_ok, history>>
    BY Zenon, <1>19 DEF Crash, PowerLoss, host
  <2>. QED BY Zenon, <1>1, <2>1, InitialType, ZeroType DEF FreshQueue, DeviceType, history
<1>20. CASE OpenFileBacked
  BY Zenon, <1>20 DEF OpenFileBacked, DeviceType, GuestType, queue, guest, rings, host
<1>21. CASE CreateFileBacked
  BY Zenon, <1>21, InitialType DEF CreateFileBacked, DeviceType, GuestType, queue, guest, rings
<1>22. ASSUME NEW full \in BOOLEAN, CreateFileBackedFails(full)
       PROVE  DeviceType' /\ GuestType'
  BY Zenon, <1>22, InitialType DEF CreateFileBackedFails, DeviceType, GuestType, queue, guest, rings
<1>23. CASE UNCHANGED vars
  BY <1>23 DEF vars, DeviceType, GuestType, queue, guest, rings, host, history
<1>. QED
  BY <1>2, <1>3, <1>4, <1>5, <1>6, <1>7, <1>9, <1>11, <1>12, <1>13, <1>14, <1>15, <1>16, <1>17,
     <1>18, <1>19, <1>20, <1>21, <1>22, <1>23 DEF Next, Driver, Service, HostFile

-----------------------------------------------------------------------------
\* The queue side of the inductive invariant.  A device that is not ready has no queue
\* state left (so that bringing it up again starts from zeroed positions on both sides),
\* and a write that is being persisted keeps the conditions it was admitted under.
QueueInv ==
    /\ RingPositionsAgree
    /\ CompletionIsAnnounced
    /\ ~alive => ~ready
    /\ ~ready => last_used_idx = 0 /\ svc = "idle"
    /\ svc # "idle" => avail_idx = NextIndex(last_avail_idx)

\* A new device satisfies the queue invariant.
LEMMA QueueInit == Init => QueueInv
  BY Zenon DEF Init, QueueInv, RingPositionsAgree, CompletionIsAnnounced

\* A completion of the current request keeps the queue invariant.
LEMMA QueueComplete ==
    ASSUME QueueInv, ready, Complete(CurrentHead), avail_idx = NextIndex(last_avail_idx),
           UNCHANGED <<alive, ready>>, svc' = "idle"
    PROVE  QueueInv'
  BY Zenon DEF QueueInv, Complete, RingPositionsAgree, CompletionIsAnnounced

\* Every step keeps the queue invariant.
LEMMA QueueNext == QueueInv /\ TypeOK /\ [Next]_vars => QueueInv'
<1>. SUFFICES ASSUME QueueInv, TypeOK, [Next]_vars PROVE QueueInv'
  OBVIOUS
<1>. USE DEF QueueInv, RingPositionsAgree, CompletionIsAnnounced
<1>1. CASE BringUp
  BY Zenon, <1>1 DEF BringUp, FreshGuest, GuestRuns, queue
<1>2. CASE GuestReset
  BY Zenon, <1>2 DEF GuestReset, FreshQueue, guest, rings, GuestRuns
<1>3. ASSUME NEW h \in Heads, NEW r \in Requests, NEW p \in Payloads, Publish(h, r, p)
      PROVE  QueueInv'
  BY Zenon, <1>3 DEF Publish, GuestRuns, queue
<1>4. CASE Notify
  BY Zenon, <1>4 DEF Notify, guest, rings
<1>5. CASE ReadIsr
  BY Zenon, <1>5 DEF ReadIsr, rings, TypeOK
<1>6. CASE Reap
  BY Zenon, <1>6 DEF Reap, rings, queue
<1>7. CASE ServiceRead
  <2>1. /\ ready /\ svc' = "idle" /\ avail_idx = NextIndex(last_avail_idx)
        /\ Complete(CurrentHead) /\ UNCHANGED <<alive, ready>>
    BY Zenon, <1>7 DEF ServiceRead, AtomicPreflight, Notified
  <2>. QED BY Zenon, <2>1, QueueComplete
<1>8. CASE ServiceWriteInMemory
  <2>1. /\ ready /\ svc' = "idle" /\ avail_idx = NextIndex(last_avail_idx)
        /\ Complete(CurrentHead) /\ UNCHANGED <<alive, ready>>
    BY Zenon, <1>8 DEF ServiceWriteInMemory, AtomicPreflight, Notified
  <2>. QED BY Zenon, <2>1, QueueComplete
<1>9. CASE PersistWrite
  BY Zenon, <1>9 DEF PersistWrite, AtomicPreflight, Notified, queue, guest, rings
<1>10. ASSUME NEW n \in 0 .. Capacity, NEW part \in BOOLEAN, PersistWriteFails(n, part)
       PROVE  QueueInv'
  BY Zenon, <1>10 DEF PersistWriteFails, queue, guest, rings
<1>11. CASE PersistSync \/ PersistSyncFails
  BY Zenon, <1>11 DEF PersistSync, PersistSyncFails, queue, guest, rings
<1>12. CASE CompleteWrite
  <2>1. /\ ready /\ svc' = "idle" /\ avail_idx = NextIndex(last_avail_idx)
        /\ Complete(CurrentHead) /\ UNCHANGED <<alive, ready>>
    BY Zenon, <1>12 DEF CompleteWrite, TypeOK
  <2>. QED BY Zenon, <2>1, QueueComplete
<1>13. CASE LegacyRead
  <2>1. /\ ready /\ svc = "idle" /\ avail_idx = NextIndex(last_avail_idx)
        /\ UNCHANGED <<alive, ready, svc, avail_idx, reaped, in_handler>>
    BY Zenon, <1>13 DEF LegacyRead, Notified
  <2>2. CASE Complete(CurrentHead)
    BY Zenon, <2>1, <2>2, QueueComplete
  <2>3. CASE UNCHANGED <<used_ring, used_idx, queue>>
    BY Zenon, <2>1, <2>3 DEF queue
  <2>. QED BY Zenon, <1>13, <2>2, <2>3 DEF LegacyRead
<1>14. ASSUME NEW s \in Sectors, Writeback(s)
       PROVE  QueueInv'
  BY Zenon, <1>14 DEF Writeback, queue, guest, rings
<1>15. CASE Crash \/ PowerLoss
  BY Zenon, <1>15 DEF Crash, PowerLoss, FreshQueue, FreshGuest
<1>16. CASE OpenFileBacked \/ CreateFileBacked
  BY <1>16 DEF OpenFileBacked, CreateFileBacked, queue, guest, rings
<1>17. ASSUME NEW full \in BOOLEAN, CreateFileBackedFails(full)
       PROVE  QueueInv'
  BY Zenon, <1>17 DEF CreateFileBackedFails, queue, guest, rings
<1>18. CASE UNCHANGED vars
  BY Zenon, <1>18 DEF vars, queue, guest, rings
<1>. QED
  BY Zenon, <1>1, <1>2, <1>3, <1>4, <1>5, <1>6, <1>7, <1>8, <1>9, <1>10, <1>11, <1>12, <1>13, <1>14,
     <1>15, <1>16, <1>17, <1>18 DEF Next, Driver, Service, HostFile

-----------------------------------------------------------------------------
\* The store side of the inductive invariant.  While a write is being persisted its
\* sectors are in limbo and the file already has its data; after sync_all the disk does.
PersistInv ==
    /\ svc # "idle" => /\ FileBacked
                       /\ alive
                       /\ CurrentRequest.kind = "OUT"
                       /\ CurrentSectors \subseteq limbo
                       /\ \A s \in CurrentSectors : file[s] = buf[CurrentHead][s]
    /\ svc = "synced" => \A s \in CurrentSectors : disk[s] = buf[CurrentHead][s]

StoreInv ==
    /\ AckedIsDurable
    /\ CacheIsAcked
    /\ PersistInv
    /\ ~FileBacked => limbo = {}

\* A new device and its freshly synced file satisfy the store invariant.
LEMMA StoreInit == Init => StoreInv
  BY Zenon DEF Init, StoreInv, AckedIsDurable, CacheIsAcked, PersistInv

\* The current request is a function of the rings, the chains and the ring position.
LEMMA CurrentUnchanged ==
    ASSUME UNCHANGED <<avail_ring, chain, last_avail_idx>>
    PROVE  CurrentHead' = CurrentHead /\ CurrentRequest' = CurrentRequest
           /\ CurrentSectors' = CurrentSectors
  BY Zenon DEF CurrentHead, CurrentRequest, CurrentSectors

\* Steps that touch neither the store nor a service keep the store invariant.
LEMMA StoreIdle ==
    ASSUME StoreInv, UNCHANGED <<alive, backing, host, history>>, svc' = "idle"
    PROVE  StoreInv'
  BY Zenon DEF StoreInv, AckedIsDurable, CacheIsAcked, PersistInv, host, history

\* Every step keeps the store invariant.
LEMMA StoreNext == StoreInv /\ QueueInv /\ TypeOK /\ [Next]_vars => StoreInv'
<1>. SUFFICES ASSUME StoreInv, QueueInv, TypeOK, [Next]_vars PROVE StoreInv'
  OBVIOUS
<1>1. CASE Driver
  BY Zenon, <1>1, StoreIdle DEF Driver, BringUp, GuestReset, Publish, Notify, ReadIsr, Reap, GuestRuns,
                         FreshQueue
<1>2. CASE ServiceRead
  BY Zenon, <1>2, StoreIdle DEF ServiceRead, AtomicPreflight, Notified
<1>3. CASE ServiceWriteInMemory
  <2>1. ~FileBacked /\ svc' = "idle" /\ alive' = alive /\ limbo' = limbo
        /\ alive
    BY Zenon, <1>3 DEF ServiceWriteInMemory, AtomicPreflight, Notified
  <2>2. backing' = acked'
    BY Zenon, <1>3, <2>1 DEF ServiceWriteInMemory, StoreInv, CacheIsAcked
  <2>. QED BY Zenon, <2>1, <2>2 DEF StoreInv, AckedIsDurable, CacheIsAcked, PersistInv
<1>4. CASE PersistWrite
  <2>1. CurrentHead' = CurrentHead /\ CurrentRequest' = CurrentRequest
        /\ CurrentSectors' = CurrentSectors
    BY Zenon, <1>4, CurrentUnchanged DEF PersistWrite, guest, rings, queue
  <2>2. \A s \in Sectors : file'[s] = IF s \in CurrentSectors THEN buf[CurrentHead][s] ELSE file[s]
    BY <1>4, OverlayValue DEF PersistWrite
  <2>3. AckedIsDurable'
    BY Zenon, <1>4, <2>2 DEF PersistWrite, StoreInv, AckedIsDurable
  <2>4. PersistInv'
    BY Zenon, <1>4, <2>1, <2>2, CurrentType
       DEF PersistWrite, PersistInv, guest, AtomicPreflight, Notified
  <2>. QED BY Zenon, <1>4, <2>3, <2>4 DEF PersistWrite, StoreInv, CacheIsAcked
<1>5. ASSUME NEW n \in 0 .. Capacity, NEW part \in BOOLEAN, PersistWriteFails(n, part)
      PROVE  StoreInv'
  <2>1. \A s \in Sectors \ limbo' : file'[s] = file[s]
    BY Zenon, <1>5 DEF PersistWriteFails
  <2>2. AckedIsDurable'
    BY Zenon, <1>5, <2>1 DEF PersistWriteFails, StoreInv, AckedIsDurable
  <2>3. svc' = "idle" /\ FileBacked /\ UNCHANGED <<alive, backing, acked>>
    BY Zenon, <1>5 DEF PersistWriteFails, AtomicPreflight, Notified
  <2>. QED BY Zenon, <2>2, <2>3 DEF StoreInv, CacheIsAcked, PersistInv
<1>6. CASE PersistSync
  <2>1. CurrentHead' = CurrentHead /\ CurrentRequest' = CurrentRequest
        /\ CurrentSectors' = CurrentSectors
    BY Zenon, <1>6, CurrentUnchanged DEF PersistSync, guest, rings, queue
  <2>2. \A s \in Sectors : disk'[s] = IF s \in CurrentSectors THEN file[s] ELSE disk[s]
    BY <1>6, OverlayValue DEF PersistSync
  <2>3. svc = "written" /\ svc' = "synced" /\ UNCHANGED <<alive, backing, buf, file, acked, limbo>>
    BY Zenon, <1>6 DEF PersistSync, guest, history
  <2>4. AckedIsDurable'
    BY Zenon, <2>2, <2>3 DEF StoreInv, PersistInv, AckedIsDurable
  <2>5. PersistInv'
    BY Zenon, <2>1, <2>2, <2>3, CurrentType DEF StoreInv, PersistInv
  <2>. QED BY Zenon, <2>3, <2>4, <2>5 DEF StoreInv, CacheIsAcked
<1>7. CASE PersistSyncFails
  BY Zenon, <1>7, StoreIdle DEF PersistSyncFails
<1>8. CASE CompleteWrite
  <2>1. \A s \in Sectors : acked'[s] = IF s \in CurrentSectors THEN buf[CurrentHead][s] ELSE acked[s]
    BY <1>8, OverlayValue DEF CompleteWrite
  <2>2. svc = "synced" /\ svc' = "idle" /\ limbo' = limbo \ CurrentSectors
        /\ UNCHANGED <<alive, file, disk>>
    BY Zenon, <1>8 DEF CompleteWrite, host
  <2>3. AckedIsDurable'
    BY Zenon, <2>1, <2>2 DEF StoreInv, AckedIsDurable, PersistInv
  <2>4. backing' = acked'
    BY Zenon, <1>8, <2>2 DEF CompleteWrite, StoreInv, CacheIsAcked, PersistInv
  <2>. QED BY Zenon, <2>2, <2>3, <2>4 DEF StoreInv, CacheIsAcked, PersistInv
<1>9. CASE LegacyRead
  BY Zenon, <1>9, StoreIdle DEF LegacyRead, Notified
<1>10. ASSUME NEW s \in Sectors, Writeback(s)
       PROVE  StoreInv'
  <2>1. CurrentHead' = CurrentHead /\ CurrentRequest' = CurrentRequest
        /\ CurrentSectors' = CurrentSectors
    BY Zenon, <1>10, CurrentUnchanged DEF Writeback, guest, rings, queue
  <2>2. \A t \in Sectors : disk'[t] = disk[t] \/ disk'[t] = file[t]
    BY Zenon, <1>10 DEF Writeback, TypeOK
  <2>3. UNCHANGED <<alive, backing, svc, buf, file, acked, limbo>>
    BY Zenon, <1>10 DEF Writeback, guest, history
  <2>4. AckedIsDurable'
    BY Zenon, <2>2, <2>3 DEF StoreInv, AckedIsDurable
  <2>5. PersistInv'
    BY Zenon, <2>1, <2>2, <2>3, CurrentType DEF StoreInv, PersistInv
  <2>. QED BY Zenon, <2>3, <2>4, <2>5 DEF StoreInv, CacheIsAcked
<1>11. CASE Crash
  BY Zenon, <1>11 DEF Crash, FreshQueue, StoreInv, AckedIsDurable, CacheIsAcked, PersistInv, host, history
<1>12. CASE PowerLoss
  BY Zenon, <1>12 DEF PowerLoss, FreshQueue, StoreInv, AckedIsDurable, CacheIsAcked, PersistInv, history
<1>13. CASE OpenFileBacked
  <2>1. svc' = "idle"
    BY Zenon, <1>13 DEF OpenFileBacked, QueueInv
  <2>. QED
    BY Zenon, <1>13, <2>1 DEF OpenFileBacked, StoreInv, AckedIsDurable, CacheIsAcked, PersistInv, host
<1>14. CASE CreateFileBacked
  <2>1. svc' = "idle"
    BY Zenon, <1>14 DEF CreateFileBacked, QueueInv
  <2>. QED
    BY Zenon, <1>14, <2>1 DEF CreateFileBacked, StoreInv, AckedIsDurable, CacheIsAcked, PersistInv
<1>15. ASSUME NEW full \in BOOLEAN, CreateFileBackedFails(full)
       PROVE  StoreInv'
  <2>1. svc' = "idle"
    BY Zenon, <1>15 DEF CreateFileBackedFails, QueueInv
  <2>. QED
    BY Zenon, <1>15, <2>1 DEF CreateFileBackedFails, StoreInv, AckedIsDurable, CacheIsAcked, PersistInv
<1>16. CASE UNCHANGED vars
  <2>1. CurrentHead' = CurrentHead /\ CurrentRequest' = CurrentRequest
        /\ CurrentSectors' = CurrentSectors
    BY Zenon, <1>16, CurrentUnchanged DEF vars, guest, rings, queue
  <2>. QED
    BY Zenon, <1>16, <2>1 DEF vars, guest, host, history, StoreInv, AckedIsDurable, CacheIsAcked, PersistInv
<1>. QED
  BY <1>1, <1>2, <1>3, <1>4, <1>5, <1>6, <1>7, <1>8, <1>9, <1>10, <1>11, <1>12, <1>13, <1>14,
     <1>15, <1>16 DEF Next, Service, HostFile

-----------------------------------------------------------------------------
\* The inductive invariant of the data plane.
DataPlaneInv == TypeOK /\ QueueInv /\ StoreInv

\* The data plane keeps its types, its ring positions and its store invariant.
THEOREM DataPlaneSafe == Spec => []DataPlaneInv
<1>1. Init => DataPlaneInv
  BY Zenon, TypeInit, QueueInit, StoreInit DEF DataPlaneInv
<1>2. DataPlaneInv /\ [Next]_vars => DataPlaneInv'
  BY Zenon, TypeNext, QueueNext, StoreNext DEF DataPlaneInv
<1>. QED BY <1>1, <1>2, PTL DEF Spec

\* Acknowledged sectors survive every crash, power loss, failed write and failed sync.
THEOREM AckedIsDurableHolds == Spec => []AckedIsDurable
<1>1. DataPlaneInv => AckedIsDurable
  BY Zenon DEF DataPlaneInv, StoreInv
<1>. QED BY <1>1, DataPlaneSafe, PTL

\* The cache of a live device is what its guest was told.
THEOREM CacheIsAckedHolds == Spec => []CacheIsAcked
<1>1. DataPlaneInv => CacheIsAcked
  BY Zenon DEF DataPlaneInv, StoreInv
<1>. QED BY <1>1, DataPlaneSafe, PTL

\* The ring positions a checkpoint token records agree, on the device and in the guest.
THEOREM RingPositionsAgreeHolds == Spec => []RingPositionsAgree
<1>1. DataPlaneInv => RingPositionsAgree
  BY Zenon DEF DataPlaneInv, QueueInv
<1>. QED BY <1>1, DataPlaneSafe, PTL

\* A completion is never left behind a cleared ISR.
THEOREM CompletionIsAnnouncedHolds == Spec => []CompletionIsAnnounced
<1>1. DataPlaneInv => CompletionIsAnnounced
  BY Zenon DEF DataPlaneInv, QueueInv
<1>. QED BY <1>1, DataPlaneSafe, PTL

-----------------------------------------------------------------------------
\* The steps that move used.idx under a ready queue are the four completions.
LEMMA CompletingSteps ==
    ASSUME [Next]_vars, used_idx' # used_idx, ready, ready'
    PROVE  ServiceRead \/ ServiceWriteInMemory \/ CompleteWrite \/ LegacyRead
  BY Zenon DEF Next, Driver, Service, HostFile, vars, guest, rings, queue, BringUp, GuestReset, Publish,
         Notify, ReadIsr, Reap, PersistWrite, PersistWriteFails, PersistSync, PersistSyncFails,
         Writeback, Crash, PowerLoss, FreshQueue, OpenFileBacked, CreateFileBacked,
         CreateFileBackedFails

\* A write becomes visible to the guest only after sync_all succeeded for its sectors.
THEOREM DurableBeforeVisibleHolds == Spec => DurableBeforeVisible
<1>1. DataPlaneInv /\ [Next]_vars =>
        [ FileBacked /\ used_idx' # used_idx /\ ready /\ ready' /\ CurrentRequest.kind = "OUT" =>
            \A s \in CurrentSectors : disk[s] = buf[CurrentHead][s] ]_vars
  <2>. SUFFICES ASSUME DataPlaneInv, [Next]_vars, FileBacked, used_idx' # used_idx, ready, ready',
                       CurrentRequest.kind = "OUT"
                PROVE  \A s \in CurrentSectors : disk[s] = buf[CurrentHead][s]
    OBVIOUS
  <2>1. CompleteWrite
    BY Zenon, CompletingSteps DEF ServiceRead, ServiceWriteInMemory, LegacyRead
  <2>. QED BY Zenon, <2>1 DEF CompleteWrite, DataPlaneInv, StoreInv, PersistInv
<1>. QED BY <1>1, DataPlaneSafe, PTL DEF Spec, DurableBeforeVisible

\* A completed read returned the acknowledged contents.
THEOREM ReadsReturnAckedHolds == Spec => ReadsReturnAcked
<1>1. DataPlaneInv /\ [Next]_vars =>
        [ used_idx' # used_idx /\ ready /\ ready' /\ CurrentRequest.kind = "IN" =>
            \A s \in CurrentSectors : buf'[CurrentHead][s] = acked[s] ]_vars
  <2>. SUFFICES ASSUME DataPlaneInv, [Next]_vars, used_idx' # used_idx, ready, ready',
                       CurrentRequest.kind = "IN", NEW s \in CurrentSectors
                PROVE  buf'[CurrentHead][s] = acked[s]
    OBVIOUS
  <2>1. CurrentHead \in Heads /\ s \in Sectors
    BY Zenon, CurrentType DEF DataPlaneInv
  <2>2. ServiceRead \/ LegacyRead
    BY Zenon, CompletingSteps DEF ServiceWriteInMemory, CompleteWrite, DataPlaneInv, StoreInv, PersistInv
  <2>3. alive /\ buf' = [buf EXCEPT ![CurrentHead] = Overlay(buf[CurrentHead], backing, CurrentSectors)]
    BY Zenon, <2>2 DEF ServiceRead, LegacyRead, AtomicPreflight, Notified
  <2>4. buf'[CurrentHead][s] = backing[s]
    BY <2>1, <2>3, OverlayValue DEF DataPlaneInv, TypeOK
  <2>. QED BY Zenon, <2>3, <2>4 DEF DataPlaneInv, StoreInv, CacheIsAcked
<1>. QED BY <1>1, DataPlaneSafe, PTL DEF Spec, ReadsReturnAcked

\* Each step of the data plane is a step of the block store, or leaves it alone.
LEMMA StoreStep ==
    ASSUME DataPlaneInv, [Next]_vars
    PROVE  [Store!Next]_Store!storeVars
<1>. USE DEF DataPlaneInv
<1>1. ASSUME UNCHANGED <<alive, acked, limbo>> PROVE UNCHANGED Store!storeVars
  BY Zenon, <1>1 DEF Store!storeVars
<1>2. CASE Driver
  BY Zenon, <1>1, <1>2 DEF Driver, BringUp, GuestReset, Publish, Notify, ReadIsr, Reap, history
<1>3. CASE ServiceRead \/ LegacyRead
  BY Zenon, <1>1, <1>3 DEF ServiceRead, LegacyRead, history
<1>4. CASE ServiceWriteInMemory \/ CompleteWrite
  <2>1. CurrentSectors \in SUBSET Sectors /\ buf[CurrentHead] \in [Sectors -> Contents]
    BY Zenon, CurrentType
  <2>2. Store!Write(CurrentSectors, buf[CurrentHead])
    BY Zenon, <1>4 DEF ServiceWriteInMemory, CompleteWrite, Store!Write, Overlay, AtomicPreflight,
                Notified, StoreInv, PersistInv
  <2>. QED BY Zenon, <2>1, <2>2 DEF Store!Next
<1>5. CASE PersistWrite
  <2>1. Store!Attempt(CurrentSectors) /\ CurrentSectors \in SUBSET Sectors
    BY Zenon, <1>5, CurrentType DEF PersistWrite, Store!Attempt, AtomicPreflight, Notified
  <2>. QED BY Zenon, <2>1 DEF Store!Next
<1>6. ASSUME NEW n \in 0 .. Capacity, NEW part \in BOOLEAN, PersistWriteFails(n, part)
      PROVE  Store!Next
  <2>. DEFINE touched == limbo' \ limbo
  <2>1. touched \in SUBSET Sectors /\ limbo' = limbo \cup touched
    BY Zenon, <1>6, CurrentType DEF PersistWriteFails
  <2>2. alive /\ UNCHANGED <<alive, acked>>
    BY Zenon, <1>6 DEF PersistWriteFails, AtomicPreflight, Notified
  <2>3. Store!Attempt(touched)
    BY Zenon, <2>1, <2>2 DEF Store!Attempt
  <2>. QED BY Zenon, <2>1, <2>3 DEF Store!Next
<1>7. CASE PersistSync \/ PersistSyncFails
  BY Zenon, <1>1, <1>7 DEF PersistSync, PersistSyncFails, history
<1>8. ASSUME NEW s \in Sectors, Writeback(s)
      PROVE  UNCHANGED Store!storeVars
  BY Zenon, <1>1, <1>8 DEF Writeback, history
<1>9. CASE Crash \/ PowerLoss
  BY Zenon, <1>9 DEF Crash, PowerLoss, history, Store!Stop, Store!Next
<1>10. CASE OpenFileBacked
  <2>1. file \in [Sectors -> Contents]
    BY Zenon DEF TypeOK
  <2>2. Store!Recover(file)
    BY Zenon, <1>10 DEF OpenFileBacked, StoreInv, AckedIsDurable, Store!Recover
  <2>. QED BY Zenon, <2>1, <2>2 DEF Store!Next
<1>11. CASE CreateFileBacked
  BY Zenon, <1>11 DEF CreateFileBacked, Store!Format, Store!Next
<1>12. ASSUME NEW full \in BOOLEAN, CreateFileBackedFails(full)
       PROVE  Store!Next
  BY Zenon, <1>12 DEF CreateFileBackedFails, Store!FormatFails, Store!Next
<1>13. CASE UNCHANGED vars
  BY Zenon, <1>1, <1>13 DEF vars, history
<1>. QED
  BY Zenon, <1>2, <1>3, <1>4, <1>5, <1>6, <1>7, <1>8, <1>9, <1>10, <1>11, <1>12, <1>13
     DEF Next, Service, HostFile

\* The virtio-blk device, its queue and its host file implement the block store.
THEOREM ImplementsBlockStoreHolds == Spec => ImplementsBlockStore
<1>1. Init => Store!Init
  BY Zenon DEF Init, Store!Init
<1>2. DataPlaneInv /\ [Next]_vars => [Store!Next]_Store!storeVars
  BY Zenon, StoreStep
<1>. QED BY <1>1, <1>2, DataPlaneSafe, PTL DEF Spec, ImplementsBlockStore, Store!Spec

-----------------------------------------------------------------------------
(* The chains in flight are numbered 0, 1, 2 ... from the driver's own       *)
(* position reaped: the first u of them are in the used ring, the others, up *)
(* to d, in the avail ring.                                                  *)

\* The ring index k positions after i.
At(i, k) == (i + k) % IndexModulus

\* The head of chain number k.
HeadAt(i, u, avail, used, k) ==
    IF k < u THEN used[SlotOf(At(i, k))] ELSE avail[SlotOf(At(i, k))]

\* The chains in flight are the heads at the first d positions, each at one of them, and
\* the first u have their status.
InFlight(i, u, d, avail, used, heads, status) ==
    /\ u <= d /\ d <= QueueSize
    /\ heads = {HeadAt(i, u, avail, used, k) : k \in 0 .. d - 1}
    /\ \A j, k \in 0 .. d - 1 :
          HeadAt(i, u, avail, used, j) = HeadAt(i, u, avail, used, k) => j = k
    /\ \A k \in 0 .. u - 1 : status[HeadAt(i, u, avail, used, k)] = "ok"

RingInv ==
    ready => \E u, d \in Nat :
                /\ used_idx = At(reaped, u) /\ avail_idx = At(reaped, d)
                /\ InFlight(reaped, u, d, avail_ring, used_ring, outstanding, status_byte)

-----------------------------------------------------------------------------
\* Division with remainder, the arithmetic of ring indices and slots.
LEMMA Division ==
    ASSUME NEW a \in Nat, NEW m \in Nat \ {0}
    PROVE  /\ a \div m \in Nat /\ a % m \in Nat /\ a % m < m
           /\ a = m * (a \div m) + (a % m)
  OBVIOUS

\* A remainder below twice the modulus is found by one subtraction at most.
LEMMA ModOnce ==
    ASSUME NEW a \in Nat, NEW m \in Nat \ {0}, a < 2 * m
    PROVE  a % m = IF a < m THEN a ELSE a - m
<1> DEFINE q == a \div m
           r == a % m
<1>1. q \in Nat /\ r \in Nat /\ r < m /\ a = m * q + r
  OBVIOUS
<1> SUFFICES r = IF a < m THEN a ELSE a - m
  OBVIOUS
<1> HIDE DEF q, r
<1>2. ASSUME q >= 2 PROVE FALSE
  <2>1. m * q >= 2 * m
    BY <1>1, <1>2
  <2>. QED  BY <1>1, <2>1
<1>3. q = 0 \/ q = 1
  BY <1>1, <1>2
<1>. QED  BY <1>1, <1>3

\* Ring indices near each other: the wrapping sum of the u16 indices.
LEMMA AtValue ==
    ASSUME NEW i \in Indices, NEW k \in 0 .. QueueSize
    PROVE  /\ At(i, k) = IF i + k < IndexModulus THEN i + k ELSE i + k - IndexModulus
           /\ At(i, k) \in Indices
<1>1. IndexModulus \in Nat \ {0} /\ QueueSize \in Nat /\ QueueSize < IndexModulus
  BY QueueAssumption
<1>2. i + k \in Nat /\ i + k < 2 * IndexModulus
  BY <1>1 DEF Indices
<1> DEFINE a == i + k
<1>3. a \in Nat /\ a < 2 * IndexModulus /\ At(i, k) = a % IndexModulus
  BY Zenon, <1>2 DEF At
<1> HIDE DEF a
<1>4. At(i, k) = IF a < IndexModulus THEN a ELSE a - IndexModulus
  BY <1>1, <1>3, ModOnce, Zenon
<1>. QED  BY <1>1, <1>3, <1>4 DEF Indices, a

\* Moving on by u and then by k is moving on by u + k.
LEMMA AtAt ==
    ASSUME NEW i \in Indices, NEW u \in Nat, NEW k \in Nat, u + k <= QueueSize
    PROVE  At(At(i, u), k) = At(i, u + k)
<1>1. IndexModulus \in Nat /\ QueueSize \in Nat /\ QueueSize < IndexModulus
  BY Zenon, QueueAssumption
<1>2. u \in 0 .. QueueSize /\ k \in 0 .. QueueSize /\ u + k \in 0 .. QueueSize
  BY <1>1
<1> DEFINE a == At(i, u)
<1>3. a \in Indices /\ a = IF i + u < IndexModulus THEN i + u ELSE i + u - IndexModulus
  BY Zenon, <1>2, AtValue
<1>4. At(i, u + k) = IF i + (u + k) < IndexModulus THEN i + (u + k) ELSE i + (u + k) - IndexModulus
  BY Zenon, <1>2, AtValue
<1> HIDE DEF a
<1>5. At(a, k) = IF a + k < IndexModulus THEN a + k ELSE a + k - IndexModulus
  BY Zenon, <1>2, <1>3, AtValue
<1>6. i \in Nat /\ i < IndexModulus
  BY <1>1 DEF Indices
<1>7. At(a, k) = At(i, u + k)
  BY <1>1, <1>2, <1>3, <1>4, <1>5, <1>6
<1>. QED  BY Zenon, <1>7 DEF a

\* The successor index is one position on.
LEMMA AtNext ==
    ASSUME NEW i \in Indices
    PROVE  At(i, 0) = i /\ At(i, 1) = NextIndex(i)
<1>1. 0 \in 0 .. QueueSize /\ IndexModulus \in Nat
  BY QueueAssumption
<1>2. i \in Nat /\ i < IndexModulus
  BY <1>1 DEF Indices
<1>3. At(i, 0) = IF i + 0 < IndexModulus THEN i + 0 ELSE i + 0 - IndexModulus
  BY Zenon, <1>1, AtValue
<1>4. At(i, 0) = i
  BY <1>2, <1>3
<1>5. At(i, 1) = NextIndex(i)
  BY Zenon DEF At, NextIndex
<1>. QED  BY Zenon, <1>4, <1>5

\* A multiple of q that is below q and not negative is zero.
LEMMA SmallMultiple ==
    ASSUME NEW q \in Nat \ {0}, NEW x \in Int, 0 <= q * x, q * x < q
    PROVE  x = 0
<1>1. ASSUME x >= 1 PROVE FALSE
  <2>1. q * x >= q
    BY <1>1
  <2>. QED  BY <2>1
<1>2. ASSUME x <= -1 PROVE FALSE
  <2>1. q * x <= -q
    BY <1>2
  <2>. QED  BY <2>1
<1>. QED  BY <1>1, <1>2

\* Fewer than queue_size positions apart, two ring indices have different slots; this is
\* where the index width must be a multiple of the queue size, as 2^16 is.
LEMMA SlotsDiffer ==
    ASSUME NEW i \in Indices, NEW j \in Nat, NEW k \in Nat, j <= k, k < j + QueueSize,
           k <= QueueSize, SlotOf(At(i, j)) = SlotOf(At(i, k))
    PROVE  j = k
<1> DEFINE a == At(i, j)
           b == At(i, k)
           r == a % QueueSize
           qa == a \div QueueSize
           qb == b \div QueueSize
           c == IndexModulus \div QueueSize
<1>1. QueueSize \in Nat \ {0} /\ IndexModulus \in Nat /\ IndexModulus % QueueSize = 0
      /\ QueueSize < IndexModulus
  BY Zenon, QueueAssumption
<1>2. j \in 0 .. QueueSize /\ k \in 0 .. QueueSize
  BY <1>1
<1>3. /\ a = IF i + j < IndexModulus THEN i + j ELSE i + j - IndexModulus
      /\ b = IF i + k < IndexModulus THEN i + k ELSE i + k - IndexModulus
      /\ a \in Nat /\ b \in Nat
  BY <1>2, AtValue DEF Indices
<1>4. i \in Nat
  BY DEF Indices
<1>5. b - a = k - j \/ b - a = k - j - IndexModulus
  BY <1>1, <1>3, <1>4
<1>6. r = b % QueueSize
  BY Zenon DEF SlotOf
<1> HIDE DEF a, b
<1>7. /\ a = QueueSize * qa + r /\ qa \in Nat /\ r \in Nat
      /\ b = QueueSize * qb + r /\ qb \in Nat
      /\ IndexModulus = QueueSize * c /\ c \in Nat
  <2>1. a = QueueSize * qa + r /\ qa \in Nat /\ r \in Nat
    BY <1>1, <1>3, Division, Zenon
  <2>2. b = QueueSize * qb + (b % QueueSize) /\ qb \in Nat
    BY <1>1, <1>3, Division, Zenon
  <2>3. IndexModulus = QueueSize * c + (IndexModulus % QueueSize) /\ c \in Nat
    BY Zenon, <1>1, Division
  <2> HIDE DEF qa, qb, c, r
  <2>4. IndexModulus = QueueSize * c
    BY <1>1, <2>3
  <2>. QED  BY Zenon, <1>6, <2>1, <2>2, <2>3, <2>4
<1> HIDE DEF r, qa, qb, c
<1>8. b - a = QueueSize * (qb - qa)
  BY <1>1, <1>7
<1>9. PICK x \in Int : k - j = QueueSize * x
  <2>1. CASE b - a = k - j
    <3>1. qb - qa \in Int
      BY <1>7
    <3>. QED  BY Zenon, <1>8, <2>1, <3>1
  <2>2. CASE b - a = k - j - IndexModulus
    <3>1. k - j = QueueSize * (qb - qa) + QueueSize * c
      BY <1>1, <1>7, <1>8, <2>2
    <3>2. k - j = QueueSize * (qb - qa + c) /\ qb - qa + c \in Int
      BY <1>1, <1>7, <3>1
    <3>. QED  BY Zenon, <3>2
  <2>. QED  BY Zenon, <1>5, <2>1, <2>2
<1>10. 0 <= QueueSize * x /\ QueueSize * x < QueueSize
  BY <1>1, <1>9
<1>11. x = 0
  BY Zenon, <1>1, <1>10, SmallMultiple
<1>. QED  BY <1>1, <1>9, <1>11

\* Positions at most queue_size apart have different indices.
LEMMA AtInjective ==
    ASSUME NEW i \in Indices, NEW j \in 0 .. QueueSize, NEW k \in 0 .. QueueSize,
           At(i, j) = At(i, k)
    PROVE  j = k
<1>1. IndexModulus \in Nat /\ QueueSize \in Nat /\ QueueSize < IndexModulus
  BY Zenon, QueueAssumption
<1>2. i \in Nat /\ i < IndexModulus
  BY <1>1 DEF Indices
<1>3. /\ At(i, j) = IF i + j < IndexModulus THEN i + j ELSE i + j - IndexModulus
      /\ At(i, k) = IF i + k < IndexModulus THEN i + k ELSE i + k - IndexModulus
  BY Zenon, AtValue
<1>4. j \in Nat /\ k \in Nat /\ j < IndexModulus /\ k < IndexModulus
  BY <1>1
<1> DEFINE a == At(i, j)
           b == At(i, k)
<1>5. a = b /\ (a = i + j \/ a = i + j - IndexModulus) /\ (b = i + k \/ b = i + k - IndexModulus)
  BY <1>3, Zenon
<1> HIDE DEF a, b
<1>. QED  BY <1>1, <1>2, <1>4, <1>5

-----------------------------------------------------------------------------
\* Freshly zeroed rings hold nothing.
LEMMA InFlightNone ==
    ASSUME NEW i, NEW avail, NEW used, NEW status
    PROVE  InFlight(i, 0, 0, avail, used, {}, status)
  BY QueueAssumption DEF InFlight

\* Every position near i has a slot, and a head in it.
LEMMA HeadAtType ==
    ASSUME NEW i \in Indices, NEW u, NEW avail \in [Heads -> Heads],
           NEW used \in [Heads -> Heads], NEW k \in Nat, k <= QueueSize
    PROVE  SlotOf(At(i, k)) \in Heads /\ HeadAt(i, u, avail, used, k) \in Heads
<1>1. k \in 0 .. QueueSize
  BY QueueAssumption
<1>2. SlotOf(At(i, k)) \in Heads
  BY Zenon, <1>1, AtValue, SlotType
<1>. QED  BY Zenon, <1>2 DEF HeadAt

\* A driver that still has a free head has published fewer than queue_size chains.
LEMMA RoomForHead ==
    ASSUME NEW i \in Indices, NEW u \in Nat, NEW d \in Nat,
           NEW avail \in [Heads -> Heads], NEW used \in [Heads -> Heads],
           NEW heads, NEW status, InFlight(i, u, d, avail, used, heads, status),
           NEW h \in Heads, h \notin heads
    PROVE  d < QueueSize
<1> DEFINE f == [k \in 0 .. d - 1 |-> HeadAt(i, u, avail, used, k)]
<1>1. QueueSize \in Nat \ {0}
  BY Zenon, QueueAssumption
<1>2. IsFiniteSet(Heads) /\ Cardinality(Heads) = QueueSize
  BY <1>1, FS_Interval DEF Heads
<1>3. Cardinality(0 .. d - 1) = d
  BY FS_Interval
<1>4. \A k \in 0 .. d - 1 : HeadAt(i, u, avail, used, k) \in Heads
  BY <1>1, HeadAtType DEF InFlight
<1>5. f \in Injection(0 .. d - 1, Heads)
  BY Zenon, <1>4 DEF InFlight, Injection, IsInjective
<1>6. f \notin Surjection(0 .. d - 1, Heads)
  <2>1. \A k \in 0 .. d - 1 : f[k] \in heads
    BY Zenon DEF InFlight
  <2>. QED  BY <2>1, Zenon DEF Surjection
<1> HIDE DEF f
<1>7. Cardinality(0 .. d - 1) <= Cardinality(Heads) /\ Cardinality(0 .. d - 1) # Cardinality(Heads)
  BY <1>2, <1>5, <1>6, FS_Injection
<1>. QED  BY <1>1, <1>2, <1>3, <1>7

\* Publishing writes a slot no chain in flight is in, and adds the head behind them.
LEMMA InFlightPublish ==
    ASSUME NEW i \in Indices, NEW u \in Nat, NEW d \in Nat,
           NEW avail \in [Heads -> Heads], NEW used \in [Heads -> Heads],
           NEW heads, NEW status \in [Heads -> {"unset", "ok"}],
           InFlight(i, u, d, avail, used, heads, status),
           NEW h \in Heads, h \notin heads
    PROVE  InFlight(i, u, d + 1, [avail EXCEPT ![SlotOf(At(i, d))] = h], used, heads \cup {h},
                    [status EXCEPT ![h] = "unset"])
<1> DEFINE avail2 == [avail EXCEPT ![SlotOf(At(i, d))] = h]
           Old(k) == HeadAt(i, u, avail, used, k)
           New(k) == HeadAt(i, u, avail2, used, k)
<1>1. QueueSize \in Nat \ {0} /\ d < QueueSize /\ u <= d
  <2>1. d < QueueSize
    BY Zenon, RoomForHead
  <2>. QED  BY Zenon, <2>1, QueueAssumption DEF InFlight
<1>2. SlotOf(At(i, d)) \in Heads
  BY <1>1, HeadAtType
<1>3. ASSUME NEW k \in 0 .. d - 1 PROVE New(k) = Old(k)
  <2>1. SlotOf(At(i, k)) # SlotOf(At(i, d))
    BY <1>1, SlotsDiffer
  <2>2. SlotOf(At(i, k)) \in Heads
    BY <1>1, HeadAtType
  <2>. QED  BY Zenon, <2>1, <2>2 DEF HeadAt
<1>4. New(d) = h
  BY <1>1, <1>2 DEF HeadAt
<1>5. \A k \in 0 .. d - 1 : Old(k) \in heads /\ Old(k) # h /\ Old(k) \in Heads
  BY <1>1, HeadAtType DEF InFlight
<1>6. /\ heads = {Old(k) : k \in 0 .. d - 1}
      /\ \A j, k \in 0 .. d - 1 : Old(j) = Old(k) => j = k
      /\ \A k \in 0 .. u - 1 : status[Old(k)] = "ok"
  BY Zenon DEF InFlight
<1>7. \A k \in 0 .. (d + 1) - 1 : k = d \/ k \in 0 .. d - 1
  OBVIOUS
<1>8. 0 .. d - 1 \subseteq 0 .. (d + 1) - 1 /\ d \in 0 .. (d + 1) - 1 /\ 0 .. u - 1 \subseteq 0 .. d - 1
  BY <1>1
<1> HIDE DEF Old, New
<1>9. heads \cup {h} = {New(k) : k \in 0 .. (d + 1) - 1}
  BY <1>3, <1>4, <1>6, <1>7, <1>8
<1>10. \A j, k \in 0 .. (d + 1) - 1 : New(j) = New(k) => j = k
  BY <1>3, <1>4, <1>5, <1>6, <1>7
<1>11. \A k \in 0 .. u - 1 : [status EXCEPT ![h] = "unset"][New(k)] = "ok"
  <2>1. \A k \in 0 .. u - 1 : status[Old(k)] = "ok" /\ New(k) = Old(k) /\ Old(k) # h
                               /\ Old(k) \in Heads
    BY Zenon, <1>3, <1>5, <1>6, <1>8
  <2>. QED  BY Zenon, <2>1
<1>12. u <= d + 1 /\ d + 1 <= QueueSize
  BY <1>1
<1>. QED  BY <1>9, <1>10, <1>11, <1>12, Zenon DEF InFlight, New

\* A completion moves the oldest published chain to the used ring: the same head at the
\* same position, in a slot no other completed chain is in, with its status written.
LEMMA InFlightComplete ==
    ASSUME NEW i \in Indices, NEW u \in Nat,
           NEW avail \in [Heads -> Heads], NEW used \in [Heads -> Heads],
           NEW heads, NEW status \in [Heads -> {"unset", "ok"}],
           InFlight(i, u, u + 1, avail, used, heads, status),
           NEW h, h = avail[SlotOf(At(i, u))]
    PROVE  InFlight(i, u + 1, u + 1, avail, [used EXCEPT ![SlotOf(At(i, u))] = h], heads,
                    [status EXCEPT ![h] = "ok"])
<1> DEFINE used2 == [used EXCEPT ![SlotOf(At(i, u))] = h]
           status2 == [status EXCEPT ![h] = "ok"]
           Old(k) == HeadAt(i, u, avail, used, k)
           New(k) == HeadAt(i, u + 1, avail, used2, k)
<1>1. QueueSize \in Nat \ {0} /\ u < QueueSize
  BY QueueAssumption DEF InFlight
<1>2. SlotOf(At(i, u)) \in Heads /\ h \in Heads
  BY <1>1, HeadAtType
<1>3. Old(u) = h /\ New(u) = h
  BY <1>2 DEF HeadAt
<1>4. ASSUME NEW k \in 0 .. u - 1 PROVE New(k) = Old(k)
  <2>1. SlotOf(At(i, k)) # SlotOf(At(i, u))
    BY <1>1, SlotsDiffer
  <2>2. SlotOf(At(i, k)) \in Heads
    BY <1>1, HeadAtType
  <2>3. k < u /\ k < u + 1
    OBVIOUS
  <2>. QED  BY Zenon, <2>1, <2>2, <2>3 DEF HeadAt
<1>5. \A k \in 0 .. (u + 1) - 1 : k = u \/ k \in 0 .. u - 1
  OBVIOUS
<1>6. \A k \in 0 .. (u + 1) - 1 : New(k) = Old(k) /\ Old(k) \in Heads
  <2>1. \A k \in 0 .. (u + 1) - 1 : Old(k) \in Heads
    BY <1>1, HeadAtType
  <2> HIDE DEF Old, New
  <2>. QED  BY Zenon, <1>3, <1>4, <1>5, <2>1
<1>7. /\ heads = {Old(k) : k \in 0 .. (u + 1) - 1}
      /\ \A j, k \in 0 .. (u + 1) - 1 : Old(j) = Old(k) => j = k
      /\ \A k \in 0 .. u - 1 : status[Old(k)] = "ok"
  BY Zenon DEF InFlight
<1>8. 0 .. u - 1 \subseteq 0 .. (u + 1) - 1
  OBVIOUS
<1> HIDE DEF Old, New
<1>9. heads = {New(k) : k \in 0 .. (u + 1) - 1}
  BY <1>6, <1>7
<1>10. \A j, k \in 0 .. (u + 1) - 1 : New(j) = New(k) => j = k
  BY Zenon, <1>6, <1>7
<1>11. \A k \in 0 .. (u + 1) - 1 : status2[New(k)] = "ok"
  BY Zenon, <1>2, <1>3, <1>5, <1>6, <1>7, <1>8
<1>12. u + 1 <= u + 1 /\ u + 1 <= QueueSize
  BY <1>1
<1>. QED  BY <1>9, <1>10, <1>11, <1>12, Zenon DEF InFlight, New

\* Reaping takes the completed chains and renumbers the published ones from zero.
LEMMA InFlightReap ==
    ASSUME NEW i \in Indices, NEW u \in Nat, NEW d \in Nat,
           NEW avail \in [Heads -> Heads], NEW used \in [Heads -> Heads],
           NEW heads, NEW status, InFlight(i, u, d, avail, used, heads, status)
    PROVE  InFlight(At(i, u), 0, d - u, avail, used,
                    heads \ {used[SlotOf(At(i, k))] : k \in 0 .. u - 1}, status)
<1> DEFINE Old(k) == HeadAt(i, u, avail, used, k)
           New(k) == HeadAt(At(i, u), 0, avail, used, k)
           taken == {used[SlotOf(At(i, k))] : k \in 0 .. u - 1}
<1>1. QueueSize \in Nat /\ u <= d /\ d <= QueueSize
  BY Zenon, QueueAssumption DEF InFlight
<1>2. ASSUME NEW k \in 0 .. (d - u) - 1 PROVE New(k) = Old(u + k)
  <2>1. At(At(i, u), k) = At(i, u + k)
    BY <1>1, AtAt
  <2>2. ~(k < 0) /\ ~(u + k < u)
    OBVIOUS
  <2>. QED  BY Zenon, <2>1, <2>2 DEF HeadAt
<1>3. \A k \in 0 .. u - 1 : Old(k) = used[SlotOf(At(i, k))]
  BY DEF HeadAt
<1>4. /\ heads = {Old(k) : k \in 0 .. d - 1}
      /\ \A j, k \in 0 .. d - 1 : Old(j) = Old(k) => j = k
  BY Zenon DEF InFlight
<1> HIDE DEF Old, New
<1>5. taken = {Old(k) : k \in 0 .. u - 1}
  BY Zenon, <1>3
<1>6. \A k \in 0 .. d - 1 : k \in 0 .. u - 1 \/ (k - u \in 0 .. (d - u) - 1 /\ u + (k - u) = k)
  BY <1>1
<1>7. \A k \in 0 .. (d - u) - 1 : u + k \in 0 .. d - 1 /\ u + k \notin 0 .. u - 1
  BY <1>1
<1>8. 0 .. u - 1 \subseteq 0 .. d - 1
  BY <1>1
<1>9. heads \ taken = {New(k) : k \in 0 .. (d - u) - 1}
  <2>1. ASSUME NEW x \in heads \ taken PROVE x \in {New(k) : k \in 0 .. (d - u) - 1}
    <3>1. PICK k \in 0 .. d - 1 : x = Old(k)
      BY Zenon, <1>4
    <3>2. k - u \in 0 .. (d - u) - 1 /\ u + (k - u) = k
      BY Zenon, <1>5, <1>6, <3>1
    <3>. QED  BY Zenon, <1>2, <3>1, <3>2
  <2>2. ASSUME NEW k \in 0 .. (d - u) - 1 PROVE New(k) \in heads \ taken
    <3>1. New(k) = Old(u + k) /\ u + k \in 0 .. d - 1 /\ u + k \notin 0 .. u - 1
      BY Zenon, <1>2, <1>7
    <3>. QED  BY Zenon, <1>4, <1>5, <1>8, <3>1
  <2>. QED  BY Zenon, <2>1, <2>2
<1>10. \A j, k \in 0 .. (d - u) - 1 : New(j) = New(k) => j = k
  <2>1. ASSUME NEW j \in 0 .. (d - u) - 1, NEW k \in 0 .. (d - u) - 1, New(j) = New(k)
        PROVE  j = k
    <3>1. u + j = u + k
      BY Zenon, <1>2, <1>4, <1>7, <2>1
    <3>. QED  BY <3>1
  <2>. QED  BY Zenon, <2>1
<1>11. 0 <= d - u /\ d - u <= QueueSize
  BY <1>1
<1>12. \A k \in 0 .. 0 - 1 : status[New(k)] = "ok"
  OBVIOUS
<1>. QED  BY <1>9, <1>10, <1>11, <1>12, Zenon DEF InFlight, New

-----------------------------------------------------------------------------
\* The device serves the oldest published chain: between used.idx and avail.idx there is
\* exactly one, so the completion is the move that InFlightComplete describes.
LEMMA RingComplete ==
    ASSUME RingInv, QueueInv, TypeOK, ready, Complete(CurrentHead),
           avail_idx = NextIndex(last_avail_idx),
           UNCHANGED <<ready, avail_idx, avail_ring, outstanding, reaped>>
    PROVE  RingInv'
<1>1. PICK u \in Nat, d \in Nat :
        /\ used_idx = At(reaped, u) /\ avail_idx = At(reaped, d)
        /\ InFlight(reaped, u, d, avail_ring, used_ring, outstanding, status_byte)
  BY Zenon DEF RingInv
<1>2. used_idx = last_used_idx /\ last_avail_idx = last_used_idx
  BY Zenon DEF QueueInv, RingPositionsAgree
<1>3. reaped \in Indices /\ used_idx \in Indices /\ avail_ring \in [Heads -> Heads]
      /\ used_ring \in [Heads -> Heads] /\ status_byte \in [Heads -> {"unset", "ok"}]
  BY Zenon DEF TypeOK
<1>4. QueueSize \in Nat \ {0} /\ u <= d /\ d <= QueueSize
  BY Zenon, <1>1, QueueAssumption DEF InFlight
<1>5. avail_idx = At(used_idx, 1)
  BY Zenon, <1>2, <1>3, AtNext
<1>6. u # d
  <2>1. SUFFICES ASSUME u = d PROVE FALSE
    OBVIOUS
  <2>2. At(used_idx, 1) = At(used_idx, 0)
    BY <1>1, <1>3, <1>5, <2>1, AtNext, Zenon
  <2>3. 1 \in 0 .. QueueSize /\ 0 \in 0 .. QueueSize
    BY <1>4
  <2>4. 1 = 0
    BY Zenon, <1>3, <2>2, <2>3, AtInjective
  <2>. QED  BY <2>4
<1>7. u + 1 <= QueueSize
  BY <1>4, <1>6
<1>8. avail_idx = At(reaped, u + 1)
  BY <1>1, <1>3, <1>5, <1>7, AtAt
<1>9. d = u + 1
  <2>1. d \in 0 .. QueueSize /\ u + 1 \in 0 .. QueueSize
    BY <1>4, <1>7
  <2>. QED  BY <1>1, <1>3, <1>8, <2>1, AtInjective, Zenon
<1>10. InFlight(reaped, u, u + 1, avail_ring, used_ring, outstanding, status_byte)
  BY Zenon, <1>1, <1>9
<1>11. CurrentHead = avail_ring[SlotOf(At(reaped, u))]
  BY Zenon, <1>1, <1>2 DEF CurrentHead
<1>12. InFlight(reaped, u + 1, u + 1, avail_ring,
                [used_ring EXCEPT ![SlotOf(At(reaped, u))] = CurrentHead], outstanding,
                [status_byte EXCEPT ![CurrentHead] = "ok"])
  BY <1>3, <1>10, <1>11, InFlightComplete, Zenon
<1>13. /\ used_ring' = [used_ring EXCEPT ![SlotOf(At(reaped, u))] = CurrentHead]
       /\ status_byte' = [status_byte EXCEPT ![CurrentHead] = "ok"]
       /\ used_idx' = At(reaped, u + 1)
  <2>1. used_idx' = NextIndex(used_idx) /\ SlotOf(last_used_idx) = SlotOf(At(reaped, u))
    BY Zenon, <1>1, <1>2 DEF Complete
  <2>2. used_idx' = At(reaped, u + 1)
    BY Zenon, <1>2, <1>8, <2>1
  <2>. QED  BY Zenon, <2>1, <2>2 DEF Complete
<1>14. u + 1 \in Nat
  OBVIOUS
<1>15. /\ used_idx' = At(reaped', u + 1) /\ avail_idx' = At(reaped', u + 1)
       /\ InFlight(reaped', u + 1, u + 1, avail_ring', used_ring', outstanding', status_byte')
  BY Zenon, <1>8, <1>12, <1>13
<1>. QED  BY Zenon, <1>14, <1>15 DEF RingInv

\* The used-ring window the driver reaps, position by position.
LEMMA WindowPositions ==
    ASSUME NEW i \in Indices, NEW k \in 0 .. QueueSize
    PROVE  Window(i, At(i, k)) = {At(i, j) : j \in 0 .. k - 1}
<1>1. IndexModulus \in Nat \ {0} /\ QueueSize \in Nat /\ QueueSize < IndexModulus
  BY QueueAssumption
<1>2. At(i, k) = IF i + k < IndexModulus THEN i + k ELSE i + k - IndexModulus
  BY Zenon, AtValue
<1>3. i \in Nat /\ i < IndexModulus /\ k \in Nat /\ k < IndexModulus
  BY <1>1 DEF Indices
<1>4. k % IndexModulus = k
  BY <1>1, <1>3, ModOnce
<1>5. (k - IndexModulus) % IndexModulus = k
  BY <1>1, <1>3
<1>6. Distance(i, At(i, k)) = k
  <2>1. At(i, k) - i = k \/ At(i, k) - i = k - IndexModulus
    BY <1>1, <1>2, <1>3
  <2>. QED  BY Zenon, <1>4, <1>5, <2>1 DEF Distance
<1>. QED  BY <1>6, Zenon DEF Window, At

\* A status byte that process_notified_queue writes before its used-ring write fails
\* changes no chain's place.
LEMMA RingStatus ==
    ASSUME RingInv, TypeOK, status_byte' = [status_byte EXCEPT ![CurrentHead] = "ok"],
           UNCHANGED <<ready, avail_idx, avail_ring, used_idx, used_ring, outstanding, reaped>>
    PROVE  RingInv'
<1>1. SUFFICES ASSUME ready PROVE RingInv'
  BY Zenon DEF RingInv
<1>2. PICK u \in Nat, d \in Nat :
        /\ used_idx = At(reaped, u) /\ avail_idx = At(reaped, d)
        /\ InFlight(reaped, u, d, avail_ring, used_ring, outstanding, status_byte)
  BY Zenon, <1>1 DEF RingInv
<1>3. ASSUME NEW k \in 0 .. u - 1
      PROVE  status_byte'[HeadAt(reaped, u, avail_ring, used_ring, k)] = "ok"
  <2> DEFINE h == HeadAt(reaped, u, avail_ring, used_ring, k)
  <2>1. status_byte \in [Heads -> {"unset", "ok"}] /\ reaped \in Indices
        /\ avail_ring \in [Heads -> Heads] /\ used_ring \in [Heads -> Heads]
    BY Zenon DEF TypeOK
  <2>2. u <= d /\ d <= QueueSize /\ status_byte[h] = "ok"
    BY Zenon, <1>2, <1>3 DEF InFlight
  <2>3. k \in Nat /\ k <= QueueSize
    BY <2>2, QueueAssumption
  <2>4. h \in Heads
    BY Zenon, <2>1, <2>3, HeadAtType
  <2> HIDE DEF h
  <2>5. status_byte'[h] = "ok"
    BY Zenon, <2>1, <2>2, <2>4
  <2>. QED  BY <2>5 DEF h
<1>4. InFlight(reaped, u, d, avail_ring, used_ring, outstanding, status_byte')
  BY Zenon, <1>2, <1>3 DEF InFlight
<1>. QED  BY Zenon, <1>2, <1>4 DEF RingInv

\* Every step of driver, device and host keeps the chains in flight accounted for.
LEMMA RingNext == RingInv /\ QueueInv /\ TypeOK /\ [Next]_vars => RingInv'
<1>. SUFFICES ASSUME RingInv, QueueInv, TypeOK, [Next]_vars PROVE RingInv'
  OBVIOUS
<1>1. ASSUME UNCHANGED <<rings, status_byte, outstanding, reaped>>, ready' => ready
      PROVE  RingInv'
  BY Zenon, <1>1 DEF RingInv, rings
<1>2. CASE BringUp
  <2>1. /\ used_idx' = 0 /\ avail_idx' = 0 /\ reaped' = 0 /\ outstanding' = {}
    BY Zenon, <1>2 DEF BringUp, FreshGuest
  <2>2. At(0, 0) = 0
    BY Zenon, ZeroType, AtNext
  <2>3. InFlight(0, 0, 0, avail_ring', used_ring', {}, status_byte')
    BY Zenon, InFlightNone
  <2>. QED  BY Zenon, <2>1, <2>2, <2>3 DEF RingInv
<1>3. CASE GuestReset \/ Crash \/ PowerLoss
  BY Zenon, <1>3 DEF GuestReset, Crash, PowerLoss, FreshQueue, RingInv
<1>4. ASSUME NEW h \in Heads, NEW r \in Requests, NEW p \in Payloads, Publish(h, r, p)
      PROVE  RingInv'
  <2>1. ready
    BY Zenon, <1>4 DEF Publish
  <2>2. PICK u \in Nat, d \in Nat :
          /\ used_idx = At(reaped, u) /\ avail_idx = At(reaped, d)
          /\ InFlight(reaped, u, d, avail_ring, used_ring, outstanding, status_byte)
    BY Zenon, <2>1 DEF RingInv
  <2>3. reaped \in Indices /\ avail_idx \in Indices /\ avail_ring \in [Heads -> Heads]
        /\ used_ring \in [Heads -> Heads] /\ status_byte \in [Heads -> {"unset", "ok"}]
    BY Zenon DEF TypeOK
  <2>4. h \notin outstanding
    BY Zenon, <1>4 DEF Publish
  <2>5. InFlight(reaped, u, d + 1, [avail_ring EXCEPT ![SlotOf(At(reaped, d))] = h], used_ring,
                 outstanding \cup {h}, [status_byte EXCEPT ![h] = "unset"])
    BY <2>2, <2>3, <2>4, InFlightPublish, Zenon
  <2>6. d + 1 \in Nat /\ d + 1 <= QueueSize
    BY <2>5 DEF InFlight
  <2>7. NextIndex(avail_idx) = At(reaped, d + 1)
    BY <2>2, <2>3, <2>6, AtAt, AtNext
  <2>8. /\ avail_ring' = [avail_ring EXCEPT ![SlotOf(At(reaped, d))] = h]
        /\ status_byte' = [status_byte EXCEPT ![h] = "unset"]
        /\ outstanding' = outstanding \cup {h}
        /\ avail_idx' = At(reaped, d + 1)
        /\ UNCHANGED <<reaped, used_idx, used_ring>>
    BY Zenon, <1>4, <2>2, <2>7 DEF Publish
  <2>9. /\ used_idx' = At(reaped', u) /\ avail_idx' = At(reaped', d + 1)
        /\ InFlight(reaped', u, d + 1, avail_ring', used_ring', outstanding', status_byte')
    BY Zenon, <2>2, <2>5, <2>8
  <2>. QED  BY Zenon, <2>6, <2>9 DEF RingInv
<1>5. CASE Notify \/ ReadIsr
  BY Zenon, <1>1, <1>5 DEF Notify, ReadIsr, guest
<1>6. CASE Reap
  <2>1. SUFFICES ASSUME ready PROVE RingInv'
    BY Zenon, <1>6 DEF Reap, RingInv
  <2>2. PICK u \in Nat, d \in Nat :
          /\ used_idx = At(reaped, u) /\ avail_idx = At(reaped, d)
          /\ InFlight(reaped, u, d, avail_ring, used_ring, outstanding, status_byte)
    BY Zenon, <2>1 DEF RingInv
  <2>3. reaped \in Indices /\ used_idx \in Indices /\ avail_ring \in [Heads -> Heads]
        /\ used_ring \in [Heads -> Heads]
    BY Zenon DEF TypeOK
  <2>4. QueueSize \in Nat /\ u <= d /\ d <= QueueSize
    BY Zenon, <2>2, QueueAssumption DEF InFlight
  <2>5. Window(reaped, used_idx) = {At(reaped, k) : k \in 0 .. u - 1}
    BY <2>2, <2>3, <2>4, WindowPositions
  <2>6. outstanding' = outstanding \ {used_ring[SlotOf(At(reaped, k))] : k \in 0 .. u - 1}
    BY Zenon, <1>6, <2>5 DEF Reap
  <2>7. InFlight(At(reaped, u), 0, d - u, avail_ring, used_ring, outstanding', status_byte)
    BY Zenon, <2>2, <2>3, <2>6, InFlightReap
  <2>8. used_idx = At(used_idx, 0)
    BY Zenon, <2>3, AtNext
  <2>9. avail_idx = At(used_idx, d - u) /\ d - u \in Nat
    <3>1. d - u \in Nat /\ u + (d - u) = d
      BY <2>4
    <3>. QED  BY <2>2, <2>3, <2>4, <3>1, AtAt
  <2>10. reaped' = used_idx /\ UNCHANGED <<rings, status_byte>>
    BY Zenon, <1>6 DEF Reap
  <2>11. /\ used_idx' = At(reaped', 0) /\ avail_idx' = At(reaped', d - u)
         /\ InFlight(reaped', 0, d - u, avail_ring', used_ring', outstanding', status_byte')
    BY Zenon, <2>2, <2>7, <2>8, <2>9, <2>10 DEF rings
  <2>. QED  BY Zenon, <2>9, <2>11 DEF RingInv
<1>7. CASE ServiceRead
  BY Zenon, <1>7, RingComplete DEF ServiceRead, AtomicPreflight, Notified
<1>8. CASE ServiceWriteInMemory
  BY Zenon, <1>8, RingComplete DEF ServiceWriteInMemory, AtomicPreflight, Notified
<1>9. CASE CompleteWrite
  <2>1. ready /\ avail_idx = NextIndex(last_avail_idx)
    BY Zenon, <1>9 DEF CompleteWrite, QueueInv, TypeOK
  <2>. QED  BY Zenon, <1>9, <2>1, RingComplete DEF CompleteWrite
<1>10. CASE LegacyRead
  <2>1. CASE Complete(CurrentHead)
    BY Zenon, <1>10, <2>1, RingComplete DEF LegacyRead, Notified
  <2>2. CASE UNCHANGED <<status_byte, used_ring, used_idx, queue>>
    BY Zenon, <1>1, <1>10, <2>2 DEF LegacyRead, rings
  <2>3. CASE /\ status_byte' = [status_byte EXCEPT ![CurrentHead] = "ok"]
             /\ UNCHANGED <<used_ring, used_idx, queue>>
    BY Zenon, <1>10, <2>3, RingStatus DEF LegacyRead
  <2>. QED  BY Zenon, <1>10, <2>1, <2>2, <2>3 DEF LegacyRead
<1>11. ASSUME UNCHANGED <<guest, ready>> PROVE RingInv'
  BY Zenon, <1>1, <1>11 DEF guest
<1>12. CASE PersistWrite \/ PersistSync \/ PersistSyncFails
  BY Zenon, <1>11, <1>12 DEF PersistWrite, PersistSync, PersistSyncFails
<1>13. ASSUME NEW n \in 0 .. Capacity, NEW part \in BOOLEAN, PersistWriteFails(n, part)
       PROVE  RingInv'
  BY Zenon, <1>11, <1>13 DEF PersistWriteFails
<1>14. ASSUME NEW s \in Sectors, Writeback(s)
       PROVE  RingInv'
  BY Zenon, <1>11, <1>14 DEF Writeback
<1>15. CASE OpenFileBacked \/ CreateFileBacked
  BY Zenon, <1>11, <1>15 DEF OpenFileBacked, CreateFileBacked
<1>16. ASSUME NEW full \in BOOLEAN, CreateFileBackedFails(full)
       PROVE  RingInv'
  BY Zenon, <1>11, <1>16 DEF CreateFileBackedFails
<1>17. CASE UNCHANGED vars
  BY Zenon, <1>11, <1>17 DEF vars
<1>. QED
  BY Zenon, <1>2, <1>3, <1>4, <1>5, <1>6, <1>7, <1>8, <1>9, <1>10, <1>12, <1>13, <1>14, <1>15, <1>16,
     <1>17 DEF Next, Driver, Service, HostFile

-----------------------------------------------------------------------------
\* The ring positions 0 to n - 1 are n.
LEMMA PositionCount ==
    ASSUME NEW n \in Nat
    PROVE  IsFiniteSet(0 .. n - 1) /\ Cardinality(0 .. n - 1) = n
  BY FS_Interval

\* What sits at n positions, each at one of them only, is n things.
LEMMA ImageCardinality ==
    ASSUME NEW n \in Nat, NEW f, f = [k \in 0 .. n - 1 |-> f[k]],
           \A j, k \in 0 .. n - 1 : f[j] = f[k] => j = k
    PROVE  Cardinality({f[k] : k \in 0 .. n - 1}) = n
<1> DEFINE T == {f[k] : k \in 0 .. n - 1}
<1>1. IsFiniteSet(0 .. n - 1) /\ Cardinality(0 .. n - 1) = n
  BY PositionCount, Zenon
<1>2. f \in Bijection(0 .. n - 1, T)
  <2>1. f \in [0 .. n - 1 -> T]
    OBVIOUS
  <2>2. DOMAIN f = 0 .. n - 1
    OBVIOUS
  <2>. QED  BY Zenon, <2>1, <2>2 DEF Bijection, Injection, Surjection, IsInjective
<1>3. ExistsBijection(0 .. n - 1, T)
  BY Zenon, <1>2 DEF ExistsBijection
<1>. QED  BY Zenon, <1>1, <1>3, FS_Bijection

\* A window of at most queue_size positions has as many indices as positions.
LEMMA WindowCardinality ==
    ASSUME NEW i \in Indices, NEW k \in 0 .. QueueSize
    PROVE  Cardinality(Window(i, At(i, k))) = k
<1> DEFINE f == [j \in 0 .. k - 1 |-> At(i, j)]
<1>1. QueueSize \in Nat /\ k \in Nat
  BY QueueAssumption
<1>2. 0 .. k - 1 \subseteq 0 .. QueueSize
  BY <1>1
<1>3. \A j, l \in 0 .. k - 1 : f[j] = f[l] => j = l
  BY Zenon, <1>2, AtInjective
<1>4. Window(i, At(i, k)) = {f[j] : j \in 0 .. k - 1}
  BY WindowPositions
<1>5. f = [j \in 0 .. k - 1 |-> f[j]]
  OBVIOUS
<1> HIDE DEF f
<1>. QED  BY <1>1, <1>3, <1>4, <1>5, ImageCardinality

\* The numbering of the chains in flight is what ChainsAreConserved says of the rings.
LEMMA RingConserves == RingInv /\ QueueInv /\ TypeOK => ChainsAreConserved
<1>. SUFFICES ASSUME RingInv, QueueInv, TypeOK, ready PROVE ChainsAreConserved
  BY Zenon DEF ChainsAreConserved
<1> DEFINE waiting == Window(last_avail_idx, avail_idx)
           done == Window(reaped, used_idx)
<1>1. PICK u \in Nat, d \in Nat :
        /\ used_idx = At(reaped, u) /\ avail_idx = At(reaped, d)
        /\ InFlight(reaped, u, d, avail_ring, used_ring, outstanding, status_byte)
  BY Zenon DEF RingInv
<1>2. used_idx = last_avail_idx
  BY Zenon DEF QueueInv, RingPositionsAgree
<1>3. reaped \in Indices /\ used_idx \in Indices /\ avail_ring \in [Heads -> Heads]
      /\ used_ring \in [Heads -> Heads]
  BY Zenon DEF TypeOK
<1>4. QueueSize \in Nat /\ u <= d /\ d <= QueueSize
  BY Zenon, <1>1, QueueAssumption DEF InFlight
<1>5. d - u \in 0 .. QueueSize /\ u \in 0 .. QueueSize /\ u + (d - u) = d /\ d - u \in Nat
  BY <1>4
<1>6. avail_idx = At(used_idx, d - u)
  BY <1>1, <1>3, <1>4, <1>5, AtAt
<1>7. waiting = {At(used_idx, k) : k \in 0 .. (d - u) - 1} /\ Cardinality(waiting) = d - u
  BY Zenon, <1>2, <1>3, <1>5, <1>6, WindowPositions, WindowCardinality
<1>8. done = {At(reaped, k) : k \in 0 .. u - 1} /\ Cardinality(done) = u
  BY Zenon, <1>1, <1>3, <1>5, WindowPositions, WindowCardinality
<1> HIDE DEF waiting, done
<1>9. HeadsIn(used_ring, done) = {used_ring[SlotOf(At(reaped, k))] : k \in 0 .. u - 1}
  BY Zenon, <1>8 DEF HeadsIn
<1>10. HeadsIn(avail_ring, waiting)
         = {avail_ring[SlotOf(At(used_idx, k))] : k \in 0 .. (d - u) - 1}
  BY Zenon, <1>7 DEF HeadsIn
<1>11. outstanding \ HeadsIn(used_ring, done) = HeadsIn(avail_ring, waiting)
  <2>1. InFlight(used_idx, 0, d - u, avail_ring, used_ring,
                 outstanding \ HeadsIn(used_ring, done), status_byte)
    BY Zenon, <1>1, <1>3, <1>9, InFlightReap
  <2>2. \A k \in 0 .. (d - u) - 1 :
          HeadAt(used_idx, 0, avail_ring, used_ring, k) = avail_ring[SlotOf(At(used_idx, k))]
    BY DEF HeadAt
  <2>3. outstanding \ HeadsIn(used_ring, done)
          = {HeadAt(used_idx, 0, avail_ring, used_ring, k) : k \in 0 .. (d - u) - 1}
    BY Zenon, <2>1 DEF InFlight
  <2>. QED  BY Zenon, <1>10, <2>2, <2>3
<1>12. \A k \in 0 .. u - 1 : /\ used_ring[SlotOf(At(reaped, k))] \in outstanding
                             /\ status_byte[used_ring[SlotOf(At(reaped, k))]] = "ok"
  <2>1. \A k \in 0 .. u - 1 : k \in 0 .. d - 1 /\ k < u
    BY <1>4
  <2>2. \A k \in 0 .. u - 1 : HeadAt(reaped, u, avail_ring, used_ring, k)
                                = used_ring[SlotOf(At(reaped, k))]
    BY Zenon, <2>1 DEF HeadAt
  <2>. QED  BY Zenon, <1>1, <2>1, <2>2 DEF InFlight
<1>13. outstanding = HeadsIn(avail_ring, waiting) \cup HeadsIn(used_ring, done)
  BY Zenon, <1>9, <1>11, <1>12
<1>14. Cardinality(outstanding) = d
  <2> DEFINE f == [k \in 0 .. d - 1 |-> HeadAt(reaped, u, avail_ring, used_ring, k)]
  <2>1. \A j, k \in 0 .. d - 1 : f[j] = f[k] => j = k
    BY Zenon, <1>1 DEF InFlight
  <2>2. outstanding = {f[k] : k \in 0 .. d - 1}
    BY Zenon, <1>1 DEF InFlight
  <2>3. f = [k \in 0 .. d - 1 |-> f[k]]
    OBVIOUS
  <2> HIDE DEF f
  <2>. QED  BY <2>1, <2>2, <2>3, ImageCardinality
<1>15. Cardinality(outstanding) = Cardinality(waiting) + Cardinality(done)
  BY <1>5, <1>7, <1>8, <1>14
<1>16. \A h \in HeadsIn(used_ring, done) : status_byte[h] = "ok"
  BY Zenon, <1>9, <1>12
<1>. QED  BY Zenon, <1>13, <1>15, <1>16 DEF ChainsAreConserved, waiting, done

\* For every queue size and index width, over wrap-around, failed services, crashes and
\* resets: each chain the driver has outstanding is in exactly one ring, once, and a
\* completed one has its status byte.
THEOREM ChainsAreConservedHolds == Spec => []ChainsAreConserved
<1>1. Init => RingInv
  BY Zenon DEF Init, RingInv
<1>2. Spec => [](QueueInv /\ TypeOK)
  <2>1. DataPlaneInv => QueueInv /\ TypeOK
    BY Zenon DEF DataPlaneInv
  <2>. QED  BY <2>1, DataPlaneSafe, PTL
<1>. QED  BY <1>1, <1>2, RingNext, RingConserves, PTL DEF Spec
=============================================================================
