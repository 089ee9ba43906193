---------------------------- MODULE CaptureProofs ---------------------------
(***************************************************************************)
(* What from_checkpoint keeps and what materialize refuses, for every      *)
(* checkpoint, format and host. A checkpoint that a format promises to     *)
(* carry is taken over whole, whatever the order of its MSRs; one it       *)
(* cannot carry is refused; and what materialize gives back has the        *)
(* contents that were captured. A sound image is refused only for an MSR   *)
(* that the host does not offer.                                           *)
(*                                                                         *)
(* The MSRs are sorted by index. The rank of an entry, the number of       *)
(* entries that sort before it, is a place of its own, so sorting keeps    *)
(* the entries, puts them in order, and leaves a sorted list as it is.     *)
(***************************************************************************)
EXTENDS CheckpointTransport, FiniteSetTheorems, TLAPS

\* Equality as a predicate: the provers find the instance of a lemma by its
\* shape, which an equation does not show.
Alike(u, v) == u = v

-----------------------------------------------------------------------------
\* Sorting the MSRs

Msrs == Seq([index : Nat, value : Nat])
Rank(msrs, i) == Cardinality(SortsBefore(msrs, i))
Place(msrs, k) == CHOOSE i \in DOMAIN msrs : Rank(msrs, i) = k - 1

\* The rank of an entry is its place in the sorted order, less one: every
\* entry has one of its own.
LEMMA Ranks ==
  ASSUME NEW msrs \in Msrs
  PROVE  /\ \A i \in DOMAIN msrs : Rank(msrs, i) \in 0..Len(msrs) - 1
         /\ \A i, j \in DOMAIN msrs : j \in SortsBefore(msrs, i) <=> Rank(msrs, j) < Rank(msrs, i)
         /\ \A i, j \in DOMAIN msrs : Rank(msrs, i) = Rank(msrs, j) => i = j
         /\ \A k \in 1..Len(msrs) : \E i \in DOMAIN msrs : Rank(msrs, i) = k - 1
<1> DEFINE n == Len(msrs)
           D == 1..n
           B(i) == SortsBefore(msrs, i)
<1>1. n \in Nat /\ DOMAIN msrs = D /\ \A i \in D : msrs[i].index \in Nat
  <2> DEFINE Msr == [index : Nat, value : Nat]
  <2>0. msrs \in Seq(Msr)
    BY Zenon DEF Msrs
  <2> HIDE DEF Msr
  <2>1. n \in Nat /\ DOMAIN msrs = D /\ \A i \in D : msrs[i] \in Msr
    BY <2>0
  <2>2. \A r \in [index : Nat, value : Nat] : r.index \in Nat
    OBVIOUS
  <2> QED
    BY <2>1, <2>2, Zenon DEF Msr
<1>2. IsFiniteSet(D) /\ Cardinality(D) = n
  <2>1. IsFiniteSet(1..n) /\ Cardinality(1..n) = IF 1 > n THEN 0 ELSE n - 1 + 1
    BY <1>1, FS_Interval, SMTT(30)
  <2> QED
    BY <1>1, <2>1
<1> HIDE DEF n
<1>3. \A i \in D : B(i) \subseteq D /\ i \notin B(i)
  BY <1>1 DEF SortsBefore
<1>4. \A i, j \in D : j \in B(i) => B(j) \subseteq B(i)
  BY <1>1 DEF SortsBefore
<1>5. \A i, j \in D : i = j \/ i \in B(j) \/ j \in B(i)
  BY <1>1 DEF SortsBefore
<1> HIDE DEF B
<1>6. \A i \in D : IsFiniteSet(B(i)) /\ Rank(msrs, i) \in Nat /\ Rank(msrs, i) < n
  <2> TAKE i \in D
  <2>1. /\ IsFiniteSet(B(i)) /\ Cardinality(B(i)) <= Cardinality(D)
        /\ Cardinality(D) = Cardinality(B(i)) => D = B(i)
    BY <1>2, <1>3, FS_Subset, Zenon
  <2>2. Cardinality(B(i)) \in Nat
    BY <2>1, FS_CardinalityType, Zenon
  <2>3. D # B(i)
    BY <1>3
  <2> HIDE DEF D
  <2> QED
    BY <1>1, <1>2, <2>1, <2>2, <2>3 DEF Rank, B
<1>7. \A i, j \in D : j \in B(i) => Rank(msrs, j) < Rank(msrs, i)
  <2> SUFFICES ASSUME NEW i \in D, NEW j \in D, j \in B(i)
               PROVE  Cardinality(B(j)) < Cardinality(B(i))
    BY DEF Rank, B
  <2>1. B(j) \subseteq B(i) /\ B(j) # B(i)
    BY <1>3, <1>4
  <2>2. /\ Cardinality(B(j)) <= Cardinality(B(i))
        /\ Cardinality(B(i)) = Cardinality(B(j)) => B(i) = B(j)
    BY <1>6, <2>1, FS_Subset, Zenon
  <2>3. Cardinality(B(i)) \in Nat /\ Cardinality(B(j)) \in Nat
    BY <1>6, FS_CardinalityType, Zenon
  <2> QED
    BY <2>1, <2>2, <2>3
<1>8. \A i, j \in D : Rank(msrs, i) = Rank(msrs, j) => i = j
  BY <1>5, <1>6, <1>7
<1>9. \A i, j \in D : j \in B(i) <=> Rank(msrs, j) < Rank(msrs, i)
  BY <1>5, <1>6, <1>7
<1>10. \A k \in D : \E i \in D : Rank(msrs, i) = k - 1
  <2> DEFINE f == [i \in D |-> Rank(msrs, i) + 1]
  <2>1. f \in [D -> D]
    BY <1>1, <1>6
  <2>2. \A i, j \in D : f[i] = f[j] => i = j
    BY <1>6, <1>8
  <2>3. f \in Injection(D, D)
    BY <2>1, <2>2 DEF Injection, IsInjective
  <2>4. f \in Surjection(D, D)
    BY <1>2, <2>3, FS_Injection, Zenon
  <2>5. \A k \in D : \E i \in D : f[i] = k
    BY <2>4, Zenon DEF Surjection
  <2>6. \A i \in D : f[i] = Rank(msrs, i) + 1
    OBVIOUS
  <2> HIDE DEF f
  <2>7. \A r \in Nat : \A k \in D : r + 1 = k => r = k - 1
    BY <1>1
  <2> QED
    <3> TAKE k \in D
    <3>1. PICK i \in D : f[i] = k
      BY <2>5, Zenon
    <3>2. Rank(msrs, i) + 1 = k /\ Rank(msrs, i) \in Nat
      BY <1>6, <2>6, <3>1, Zenon
    <3> QED
      BY <2>7, <3>2, Zenon
<1>11. \A i \in D : Rank(msrs, i) \in 0..n - 1
  BY <1>1, <1>6
<1> QED
  BY <1>1, <1>8, <1>9, <1>10, <1>11, Zenon DEF B, n

\* Sorting puts the entry of rank k - 1 at place k, each entry once.
LEMMA Places ==
  ASSUME NEW msrs \in Msrs
  PROVE  /\ SortedMsrs(msrs) \in Msrs /\ Len(SortedMsrs(msrs)) = Len(msrs)
         /\ \A k \in 1..Len(msrs) : /\ Place(msrs, k) \in DOMAIN msrs /\ Rank(msrs, Place(msrs, k)) = k - 1
                                    /\ SortedMsrs(msrs)[k] = msrs[Place(msrs, k)]
         /\ \A i \in DOMAIN msrs : Rank(msrs, i) + 1 \in 1..Len(msrs) /\ Place(msrs, Rank(msrs, i) + 1) = i
<1> DEFINE n == Len(msrs)
           D == 1..n
           Msr == [index : Nat, value : Nat]
           sorted == [k \in D |-> msrs[Place(msrs, k)]]
<1>0. msrs \in Seq(Msr)
  BY Zenon DEF Msrs
<1> HIDE DEF Msr
<1>1. n \in Nat /\ DOMAIN msrs = D /\ \A i \in D : msrs[i] \in Msr
  BY <1>0
<1>2. /\ \A i \in D : Rank(msrs, i) \in 0..n - 1
      /\ \A i, j \in D : Rank(msrs, i) = Rank(msrs, j) => i = j
      /\ \A k \in D : \E i \in D : Rank(msrs, i) = k - 1
  BY <1>1, Ranks, Zenon
<1>3. SortedMsrs(msrs) = sorted
  BY <1>1, Zenon DEF SortedMsrs, Place, Rank
<1> HIDE DEF n
<1>4. \A k \in D : Place(msrs, k) \in D /\ Rank(msrs, Place(msrs, k)) = k - 1
  <2> TAKE k \in D
  <2>1. Place(msrs, k) = CHOOSE i \in D : Rank(msrs, i) = k - 1
    BY <1>1, Zenon DEF Place
  <2>2. \E i \in D : Rank(msrs, i) = k - 1
    BY <1>2, Zenon
  <2> QED
    BY <2>1, <2>2, Zenon
<1>5. \A i \in D : Rank(msrs, i) + 1 \in D
  BY <1>1, <1>2
<1>6. \A i \in D : Place(msrs, Rank(msrs, i) + 1) = i
  <2> TAKE i \in D
  <2> DEFINE k == Rank(msrs, i) + 1
  <2>1. k \in D /\ k - 1 = Rank(msrs, i)
    BY <1>1, <1>2
  <2> HIDE DEF k
  <2>2. Place(msrs, k) \in D /\ Rank(msrs, Place(msrs, k)) = Rank(msrs, i)
    BY <1>4, <2>1, Zenon
  <2> QED
    BY <1>2, <2>2, Zenon DEF k
<1>7. /\ \A k \in D : sorted[k] = msrs[Place(msrs, k)]
      /\ \A k \in D : sorted[k] \in Msr
      /\ DOMAIN sorted = D
  BY <1>1, <1>4, Zenon
<1>8. sorted \in Seq(Msr) /\ Len(sorted) = n
  <2>1. sorted \in [1..n -> Msr]
    BY <1>7, Zenon
  <2> HIDE DEF sorted
  <2> QED
    BY <1>1, <2>1
<1> HIDE DEF sorted
<1> QED
  BY <1>1, <1>3, <1>4, <1>5, <1>6, <1>7, <1>8, Zenon DEF Msrs, Msr, n

\* Sorting changes no entry, and the indices ascend exactly when no index is
\* there twice (sort_unstable_by_key, then the check for duplicates).
LEMMA Sorted ==
  ASSUME NEW msrs \in Msrs
  PROVE  /\ MsrSet(SortedMsrs(msrs)) = MsrSet(msrs)
         /\ Ascending(Indices(SortedMsrs(msrs))) <=>
              \A i, j \in DOMAIN msrs : msrs[i].index = msrs[j].index => i = j
<1> DEFINE n == Len(msrs)
           D == 1..n
           s == SortedMsrs(msrs)
           P(k) == Place(msrs, k)
           R(i) == Rank(msrs, i)
           X(i) == msrs[i].index
<1>1. s \in Msrs /\ Len(s) = n
  BY Places, Zenon
<1>2. n \in Nat /\ DOMAIN msrs = D /\ DOMAIN s = D
  <2>1. \A q \in Msrs : Len(q) \in Nat /\ DOMAIN q = 1..Len(q)
    BY DEF Msrs
  <2> QED
    BY <1>1, <2>1, Zenon
<1>3. \A k \in D : P(k) \in D /\ R(P(k)) = k - 1 /\ s[k] = msrs[P(k)]
  BY <1>2, Places, Zenon
<1>4. \A i \in D : R(i) + 1 \in D /\ P(R(i) + 1) = i
  BY <1>2, Places, Zenon
<1>5. /\ \A i \in D : R(i) \in 0..n - 1
      /\ \A i, j \in D : j \in SortsBefore(msrs, i) <=> R(j) < R(i)
      /\ \A i, j \in D : R(i) = R(j) => i = j
  BY <1>2, Ranks, Zenon
<1>6. \A i \in D : X(i) \in Nat
  <2> DEFINE Msr == [index : Nat, value : Nat]
  <2>1. \A r \in Msr : r.index \in Nat
    OBVIOUS
  <2>2. msrs \in Seq(Msr)
    BY Zenon DEF Msrs
  <2> HIDE DEF Msr
  <2>3. \A i \in D : msrs[i] \in Msr
    BY <1>2, <2>2
  <2> QED
    BY <2>1, <2>3, Zenon
<1>7. \A i, j \in D : j \in SortsBefore(msrs, i) <=> X(j) < X(i) \/ (X(j) = X(i) /\ j < i)
  BY <1>2, Zenon DEF SortsBefore
<1> HIDE DEF n, s, P, R
<1>8. Range(s) = Range(msrs)
  <2>1. \A k \in D : s[k] \in Range(msrs)
    BY <1>2, <1>3, Zenon DEF Range
  <2>2. \A i \in D : msrs[i] \in Range(s)
    <3> TAKE i \in D
    <3>1. R(i) + 1 \in D /\ s[R(i) + 1] = msrs[i]
      BY <1>3, <1>4, Zenon
    <3> QED
      BY <1>2, <3>1, Zenon DEF Range
  <2> QED
    BY <1>2, <2>1, <2>2, Zenon DEF Range
<1>9. \A k \in D : Indices(s)[k] = X(P(k))
  BY <1>2, <1>3, Zenon DEF Indices
<1>10. Len(Indices(s)) = n
  BY <1>2 DEF Indices
<1>11. Ascending(Indices(s)) <=> \A k \in 1..n - 1 : X(P(k)) < X(P(k + 1))
  <2>1. \A k \in 1..n - 1 : k \in D /\ k + 1 \in D
    BY <1>2
  <2> QED
    BY <1>9, <1>10, <2>1, Zenon DEF Ascending
<1> HIDE DEF X
<1>12. ASSUME \A i, j \in D : X(i) = X(j) => i = j
       PROVE  \A k \in 1..n - 1 : X(P(k)) < X(P(k + 1))
  <2> TAKE k \in 1..n - 1
  <2> DEFINE l == k + 1
  <2>1. k \in D /\ l \in D /\ k - 1 < l - 1
    BY <1>2
  <2> HIDE DEF l
  <2>2. P(k) \in D /\ P(l) \in D /\ R(P(k)) = k - 1 /\ R(P(l)) = l - 1
    BY <1>3, <2>1, Zenon
  <2>3. R(P(k)) < R(P(l)) /\ P(k) # P(l)
    BY <2>1, <2>2
  <2>4. X(P(k)) < X(P(l)) \/ X(P(k)) = X(P(l))
    BY <1>5, <1>7, <2>2, <2>3, Zenon
  <2> QED
    BY <1>12, <2>2, <2>3, <2>4, Zenon DEF l
<1>13. ASSUME NEW i \in D, NEW j \in D, X(i) = X(j), R(i) < R(j)
       PROVE  \E k \in 1..n - 1 : ~(X(P(k)) < X(P(k + 1)))
  <2> DEFINE k == R(i) + 1
             l == k + 1
             m == P(l)
  <2>1. k \in 1..n - 1 /\ l \in D /\ l - 1 = R(i) + 1
    BY <1>2, <1>5, <1>13, SMTT(30)
  <2>2. P(k) = i
    BY <1>4, Zenon
  <2> HIDE DEF k, l
  <2>3. m \in D /\ R(m) = R(i) + 1
    BY <1>3, <2>1, Zenon
  <2> HIDE DEF m
  <2>4. R(i) < R(m) /\ (R(m) < R(j) \/ R(m) = R(j))
    BY <1>5, <1>13, <2>3
  <2>5. i \in SortsBefore(msrs, m) /\ (m \in SortsBefore(msrs, j) \/ m = j)
    BY <1>5, <2>3, <2>4, Zenon
  <2>6. ~(X(i) < X(m))
    <3>1. X(i) < X(m) \/ X(i) = X(m)
      BY <1>7, <2>3, <2>5, Zenon
    <3>2. X(m) < X(j) \/ X(m) = X(j)
      BY <1>7, <2>3, <2>5, Zenon
    <3>3. X(i) \in Nat /\ X(j) \in Nat /\ X(m) \in Nat
      BY <1>6, <2>3, Zenon
    <3> QED
      BY <1>13, <3>1, <3>2, <3>3
  <2> QED
    BY <2>1, <2>2, <2>6, Zenon DEF l, m
<1>14. ASSUME NEW i \in D, NEW j \in D, X(i) = X(j), i # j
       PROVE  \E k \in 1..n - 1 : ~(X(P(k)) < X(P(k + 1)))
  <2>1. R(i) < R(j) \/ R(j) < R(i)
    <3>1. R(i) # R(j)
      BY <1>5, <1>14, Zenon
    <3>2. R(i) \in 0..n - 1 /\ R(j) \in 0..n - 1
      BY <1>5, Zenon
    <3> QED
      BY <1>2, <3>1, <3>2
  <2> QED
    BY <1>13, <1>14, <2>1, Zenon
<1>15. MsrSet(s) = MsrSet(msrs)
  BY <1>8, Zenon DEF MsrSet
<1> QED
  BY <1>2, <1>11, <1>12, <1>14, <1>15, Zenon DEF s, X

-----------------------------------------------------------------------------
\* What materialize accepts

\* The fields of a device that tokens speak of.
TokenFields(d, s) == d.bar0 = s.bar0 /\ d.isr = s.isr /\ d.avail = s.avail /\ d.used = s.used
OrderedBars(ds) == ds[1].bar0 \in Nat /\ ds[2].bar0 \in Nat /\ ds[1].bar0 < ds[2].bar0
NamedBy(t, d)   == t.bar0 = d.bar0

\* Two devices of which device k is rebuilt with its notification pending.
Notified(devs, k) ==
  [i \in 1..2 |-> IF i = k THEN [MaterializeDevice(devs[i]) EXCEPT !.notify = TRUE] ELSE MaterializeDevice(devs[i])]

\* The MSRs a host must offer for each format.
LEMMA NeededIs ==
  ASSUME NEW x, NEW h
  PROVE  /\ MsrsNeeded("vcpu", x) \subseteq h => MsrsOffered(x.msrs, h)
         /\ MsrsNeeded("page", x) \subseteq h => MsrsOffered(x.vcpu.msrs, h)
         /\ MsrsNeeded("full", x) \subseteq h => MsrsOffered(x.guest.vcpu.msrs, h)
         /\ MsrsNeeded("smp", x) \subseteq h =>
              MsrsOffered(x.primary.vcpu.msrs, h) /\ MsrsOffered(x.secondary.msrs, h)
         /\ \A f \in {"blk", "twoBlk"} : MsrsNeeded(f, x) \subseteq h => MsrsOffered(x.ctl.guest.vcpu.msrs, h)
         /\ MsrsNeeded("smpBlk", x) \subseteq h =>
              MsrsOffered(x.ctl.primary.vcpu.msrs, h) /\ MsrsOffered(x.ctl.secondary.msrs, h)
         /\ \A f \in {"tx", "twoTx"} : MsrsNeeded(f, x) \subseteq h => MsrsOffered(x.cp.ctl.guest.vcpu.msrs, h)
         /\ \A f \in {"smpTx", "smpTx2", "smpTx3"} : MsrsNeeded(f, x) \subseteq h =>
              MsrsOffered(x.cp.ctl.primary.vcpu.msrs, h) /\ MsrsOffered(x.cp.ctl.secondary.msrs, h)
<1> DEFINE Needed(vcpus) == UNION {Range(Indices(v.msrs)) : v \in vcpus}
<1>1. \A a : Needed({a}) \subseteq h => MsrsOffered(a.msrs, h)
  BY DEF MsrsOffered
<1>2. \A a, b : Needed({a, b}) \subseteq h => MsrsOffered(a.msrs, h) /\ MsrsOffered(b.msrs, h)
  BY DEF MsrsOffered
<1>3. /\ MsrsNeeded("vcpu", x) = Needed({x})
      /\ MsrsNeeded("page", x) = Needed({x.vcpu})
      /\ MsrsNeeded("full", x) = Needed({x.guest.vcpu})
      /\ MsrsNeeded("smp", x) = Needed({x.primary.vcpu, x.secondary})
      /\ \A f \in {"blk", "twoBlk"} : MsrsNeeded(f, x) = Needed({x.ctl.guest.vcpu})
      /\ MsrsNeeded("smpBlk", x) = Needed({x.ctl.primary.vcpu, x.ctl.secondary})
      /\ \A f \in {"tx", "twoTx"} : MsrsNeeded(f, x) = Needed({x.cp.ctl.guest.vcpu})
      /\ \A f \in {"smpTx", "smpTx2", "smpTx3"} :
           MsrsNeeded(f, x) = Needed({x.cp.ctl.primary.vcpu, x.cp.ctl.secondary})
  BY DEF MsrsNeeded
<1> HIDE DEF Needed
<1> QED
  BY <1>1, <1>2, <1>3, ZenonT(60)

\* materialize of what decode made sure of, where the host offers the MSRs.
LEMMA VcpuSupported ==
  ASSUME NEW v, NEW h, VcpuSound(v), MsrsOffered(v.msrs, h)
  PROVE  MaterializeVcpu(v, h) = v /\ v # Nothing
BY Zenon DEF MaterializeVcpu, VcpuSound, ValidMsrs

\* The same for pages and one vCPU.
LEMMA PageSupported ==
  ASSUME NEW c, NEW h, PageSound(c), MsrsOffered(c.vcpu.msrs, h)
  PROVE  MaterializePage(c, h) = c /\ c # Nothing
BY VcpuSupported, Zenon DEF MaterializePage, PageSound

\* The same for the controllers around one vCPU.
LEMMA FullSupported ==
  ASSUME NEW c, NEW h, FullSound(c), MsrsOffered(c.guest.vcpu.msrs, h)
  PROVE  MaterializeFull(c, h) = c /\ c # Nothing
BY PageSupported, Zenon DEF MaterializeFull, FullSound

\* The same for two vCPUs.
LEMMA SmpSupported ==
  ASSUME NEW c, NEW h, SmpSound(c), MsrsOffered(c.primary.vcpu.msrs, h), MsrsOffered(c.secondary.msrs, h)
  PROVE  MaterializeSmp(c, h) = c /\ c # Nothing
BY PageSupported, VcpuSupported, Zenon DEF MaterializeSmp, SmpSound

\* A rebuilt device has the fields of the state and nothing pending.
LEMMA DeviceSupported ==
  ASSUME NEW s, ValidDevice(s)
  PROVE  /\ MaterializeDevice(s) # Nothing /\ TokenFields(MaterializeDevice(s), s)
         /\ MaterializeDevice(s).notify = FALSE
         /\ MaterializeDevice(s) =
              [f \in StateFields \cup {"notify", "external"} |-> IF f \in StateFields THEN s[f] ELSE FALSE]
<1> DEFINE d == [f \in StateFields \cup {"notify", "external"} |-> IF f \in StateFields THEN s[f] ELSE FALSE]
<1>1. MaterializeDevice(s) = d
  BY Zenon DEF MaterializeDevice
<1>2. TokenFields(d, s) /\ d.notify = FALSE
  BY DEF TokenFields, StateFields
<1>3. DOMAIN d # DOMAIN Nothing
  BY DEF StateFields, Nothing
<1> HIDE DEF d
<1> QED
  BY <1>1, <1>2, <1>3, Zenon DEF d

\* No two devices have the same BAR, so a token names one of them.
LEMMA NamedDevice ==
  ASSUME NEW ds, OrderedBars(ds), NEW t, NEW i \in 1..2, NamedBy(t, ds[i])
  PROVE  /\ DeviceNamed(ds, t) = ds[i] /\ Names(t, ds)
         /\ \A j \in 1..2 : NamedBy(t, ds[j]) => j = i
<1> USE DEF NamedBy
<1>1. \A j \in 1..2 : t.bar0 = ds[j].bar0 => j = i
  <2>1. ds[1].bar0 # ds[2].bar0 /\ i \in {1, 2} /\ \A j \in 1..2 : j \in {1, 2}
    BY DEF OrderedBars
  <2> QED
    BY <2>1, Zenon
<1>2. 1 \in 1..2 /\ 2 \in 1..2 /\ i \in {1, 2}
  OBVIOUS
<1>3. ds[i] \in {ds[1], ds[2]}
  BY <1>2, Zenon
<1>4. \A d \in {ds[1], ds[2]} : d.bar0 = t.bar0 => d = ds[i]
  BY <1>1, <1>2, Zenon
<1>5. DeviceNamed(ds, t) = CHOOSE d \in {ds[1], ds[2]} : d.bar0 = t.bar0
  BY Zenon DEF DeviceNamed
<1>6. DeviceNamed(ds, t) = ds[i]
  BY <1>3, <1>4, <1>5
<1> QED
  BY <1>1, <1>6, Zenon DEF Names

\* Two captured parts are a checkpoint when both are there.
LEMMA CapturedIs ==
  ASSUME NEW ctl, ctl # Nothing, NEW ds, \A i \in 1..2 : ds[i] # Nothing
  PROVE  Captured(ctl, ds) = [ctl |-> ctl, devs |-> ds] /\ Captured(ctl, ds) # Nothing
<1>1. Captured(ctl, ds) = [ctl |-> ctl, devs |-> ds]
  BY Zenon DEF Captured
<1>2. [ctl |-> ctl, devs |-> ds] # Nothing
  BY DEF Nothing
<1> QED
  BY <1>1, <1>2, Zenon

\* Two sound devices are rebuilt as two devices with their BARs in order.
LEMMA DevicesSupported ==
  ASSUME NEW d, DevicesSound(d)
  PROVE  LET ds == [i \in 1..2 |-> MaterializeDevice(d[i])] IN
         /\ \A i \in 1..2 : /\ ds[i] = MaterializeDevice(d[i]) /\ ds[i] # Nothing
                            /\ TokenFields(ds[i], d[i]) /\ ds[i].notify = FALSE
         /\ OrderedBars(ds)
<1> DEFINE ds == [i \in 1..2 |-> MaterializeDevice(d[i])]
<1>1. \A i \in 1..2 : ds[i] = MaterializeDevice(d[i])
  OBVIOUS
<1> HIDE DEF ds
<1>2. \A i \in 1..2 : ds[i] # Nothing /\ TokenFields(ds[i], d[i]) /\ ds[i].notify = FALSE
  <2> TAKE i \in 1..2
  <2>1. ValidDevice(d[i])
    BY Zenon DEF DevicesSound
  <2>2. LET m == MaterializeDevice(d[i]) IN m # Nothing /\ TokenFields(m, d[i]) /\ m.notify = FALSE
    BY <2>1, DeviceSupported, Zenon
  <2> QED
    BY <1>1, <2>2, Zenon
<1>3. d[1].bar0 \in Nat /\ d[2].bar0 \in Nat
  BY DEF DevicesSound, States
<1>4. d[1].bar0 < d[2].bar0
  BY DEF DevicesSound, ValidBars, Bars
<1>5. 1 \in 1..2 /\ 2 \in 1..2
  OBVIOUS
<1>6. ds[1].bar0 = d[1].bar0 /\ ds[2].bar0 = d[2].bar0
  BY <1>2, <1>5, Zenon DEF TokenFields
<1> QED
  BY <1>1, <1>2, <1>3, <1>4, <1>6, Zenon DEF OrderedBars, ds

\* What materialize of MHVFBLK gives.
LEMMA BlkSupported ==
  ASSUME NEW c, NEW h, BlkSound(c), MsrsOffered(c.ctl.guest.vcpu.msrs, h)
  PROVE  LET d == MaterializeDevice(c.dev) IN
         /\ MaterializeBlk(c, h) = [ctl |-> c.ctl, bar0 |-> d.bar0, dev |-> d]
         /\ MaterializeBlk(c, h) # Nothing
<1> DEFINE d == MaterializeDevice(c.dev)
<1>1. MaterializeFull(c.ctl, h) = c.ctl /\ c.ctl # Nothing
  BY FullSupported, Zenon DEF BlkSound
<1>2. d # Nothing
  BY DeviceSupported, Zenon DEF BlkSound
<1>3. MaterializeBlk(c, h) = [ctl |-> c.ctl, bar0 |-> d.bar0, dev |-> d]
  BY <1>1, <1>2, Zenon DEF MaterializeBlk
<1>4. [ctl |-> c.ctl, bar0 |-> d.bar0, dev |-> d] # Nothing
  BY DEF Nothing
<1> QED
  BY <1>3, <1>4, Zenon

\* What materialize of MHV2BLK gives.
LEMMA TwoBlkSupported ==
  ASSUME NEW c, NEW h, FullSound(c.ctl), DevicesSound(c.devs), MsrsOffered(c.ctl.guest.vcpu.msrs, h)
  PROVE  /\ MaterializeTwoBlk(c, h) = [ctl |-> c.ctl, devs |-> [i \in 1..2 |-> MaterializeDevice(c.devs[i])]]
         /\ MaterializeTwoBlk(c, h) # Nothing
<1> DEFINE ds == [i \in 1..2 |-> MaterializeDevice(c.devs[i])]
<1>1. MaterializeFull(c.ctl, h) = c.ctl /\ c.ctl # Nothing
  BY FullSupported, Zenon
<1>2. \A i \in 1..2 : ds[i] # Nothing
  BY DevicesSupported, Zenon
<1>3. MaterializeTwoBlk(c, h) = Captured(c.ctl, ds)
  BY <1>1, Zenon DEF MaterializeTwoBlk, DevicesSound
<1> HIDE DEF ds
<1>4. Captured(c.ctl, ds) = [ctl |-> c.ctl, devs |-> ds] /\ Captured(c.ctl, ds) # Nothing
  BY <1>1, <1>2, CapturedIs, Zenon
<1> QED
  BY <1>3, <1>4, Zenon DEF ds

\* What materialize of MHV2V2B gives.
LEMMA SmpBlkSupported ==
  ASSUME NEW c, NEW h, SmpSound(c.ctl), DevicesSound(c.devs),
         MsrsOffered(c.ctl.primary.vcpu.msrs, h), MsrsOffered(c.ctl.secondary.msrs, h)
  PROVE  /\ MaterializeSmpBlk(c, h) = [ctl |-> c.ctl, devs |-> [i \in 1..2 |-> MaterializeDevice(c.devs[i])]]
         /\ MaterializeSmpBlk(c, h) # Nothing
<1> DEFINE ds == [i \in 1..2 |-> MaterializeDevice(c.devs[i])]
<1>1. MaterializeSmp(c.ctl, h) = c.ctl /\ c.ctl # Nothing
  BY SmpSupported, Zenon
<1>2. \A i \in 1..2 : ds[i] # Nothing
  BY DevicesSupported, Zenon
<1>3. MaterializeSmpBlk(c, h) = Captured(c.ctl, ds)
  BY <1>1, Zenon DEF MaterializeSmpBlk, DevicesSound
<1> HIDE DEF ds
<1>4. Captured(c.ctl, ds) = [ctl |-> c.ctl, devs |-> ds] /\ Captured(c.ctl, ds) # Nothing
  BY <1>1, <1>2, CapturedIs, Zenon
<1> QED
  BY <1>3, <1>4, Zenon DEF ds

\* What a token says of a state it says of the device rebuilt from it.
LEMMA TokenKept ==
  ASSUME NEW t, NEW s, NEW d, TokenFields(d, s)
  PROVE  /\ t = TokenOf(s) => t = TokenOf(d) /\ t.bar0 = d.bar0 /\ t.avail = d.avail /\ t.used = d.used
         /\ CompletionInState(t, s) /\ CompletionParts(t) /\ d.notify = FALSE => CompletionOnDevice(t, d)
         /\ NotificationInState(t, s) /\ NotificationParts(t) /\ d.notify = TRUE => NotificationOnDevice(t, d)
<1>1. TokenOf(s) = TokenOf(d)
  BY Zenon DEF TokenFields, TokenOf
<1>2. TokenOf(d).bar0 = d.bar0 /\ TokenOf(d).avail = d.avail /\ TokenOf(d).used = d.used
  BY DEF TokenOf
<1>3. d.isr = s.isr
  BY Zenon DEF TokenFields
<1>4. CompletionInState(t, s) /\ CompletionParts(t) /\ d.notify = FALSE => CompletionOnDevice(t, d)
  BY <1>1, <1>2, <1>3, Zenon DEF CompletionInState, CompletionParts, CompletionOnDevice
<1>5. NotificationInState(t, s) /\ NotificationParts(t) /\ d.notify = TRUE => NotificationOnDevice(t, d)
  BY <1>1, <1>2, <1>3, Zenon DEF NotificationInState, NotificationParts, NotificationOnDevice
<1> QED
  BY <1>1, <1>2, <1>4, <1>5, Zenon

\* What materialize of MHV2V2T, version 2, gives: the token is still that of
\* the device it names.
LEMMA CompletionTxSupported ==
  ASSUME NEW b, NEW p, NEW t, NEW h, SmpSound(b.ctl), DevicesSound(b.devs),
         MsrsOffered(b.ctl.primary.vcpu.msrs, h), MsrsOffered(b.ctl.secondary.msrs, h),
         ValidTx([cp |-> b, regs |-> p, token |-> t]), CompletionParts(t), CompletionValid(b, t)
  PROVE  LET x == [cp |-> b, regs |-> p, token |-> t]
             ds == [i \in 1..2 |-> MaterializeDevice(b.devs[i])] IN
         MaterializeCompletionTx(x, h) = [cp |-> [ctl |-> b.ctl, devs |-> ds], regs |-> p, token |-> t]
<1> DEFINE x == [cp |-> b, regs |-> p, token |-> t]
           ds == [i \in 1..2 |-> MaterializeDevice(b.devs[i])]
           m == [ctl |-> b.ctl, devs |-> ds]
           r == [cp |-> m, regs |-> p, token |-> t]
<1>1. x.cp = b /\ x.token = t /\ m.devs = ds /\ [x EXCEPT !.cp = m] = r
  OBVIOUS
<1>2. MaterializeSmpBlk(b, h) = m /\ MaterializeSmpBlk(b, h) # Nothing
  BY SmpBlkSupported, Zenon
<1>3. /\ \A i \in 1..2 : TokenFields(ds[i], b.devs[i]) /\ ds[i].notify = FALSE
      /\ OrderedBars(ds)
  BY DevicesSupported, Zenon
<1> HIDE DEF ds, m, r, x
<1>4. PICK i \in 1..2 : CompletionInState(t, b.devs[i])
  BY Zenon DEF CompletionValid
<1>5. CompletionOnDevice(t, ds[i]) /\ NamedBy(t, ds[i])
  BY <1>3, <1>4, TokenKept, ZenonT(60) DEF CompletionInState, NamedBy
<1>6. DeviceNamed(ds, t) = ds[i] /\ Names(t, ds)
  BY <1>3, <1>5, NamedDevice, Zenon
<1>7. ValidTx(x)
  BY Zenon DEF x
<1>8. MaterializeCompletionTx(x, h) = [x EXCEPT !.cp = m]
  BY <1>1, <1>2, <1>5, <1>6, <1>7, Zenon DEF MaterializeCompletionTx
<1> QED
  BY <1>1, <1>8, Zenon DEF x, ds, m, r

\* The device a notification token names is rebuilt with its notification
\* pending.
LEMMA NotifiedDevice ==
  ASSUME NEW s, ValidDevice(s), NEW t, NotificationInState(t, s), NotificationParts(t)
  PROVE  LET d == [MaterializeDevice(s) EXCEPT !.notify = TRUE] IN
         /\ MaterializeNotified(s, t) = d /\ d # Nothing
         /\ TokenFields(d, s) /\ d.notify = TRUE /\ NotificationOnDevice(t, d)
<1> DEFINE m == MaterializeDevice(s)
           d == [m EXCEPT !.notify = TRUE]
<1>1. /\ m # Nothing /\ TokenFields(m, s)
      /\ m = [f \in StateFields \cup {"notify", "external"} |-> IF f \in StateFields THEN s[f] ELSE FALSE]
  BY DeviceSupported, Zenon
<1>2. DOMAIN m = StateFields \cup {"notify", "external"}
  BY <1>1
<1> HIDE DEF m
<1>3. d.notify = TRUE /\ d.bar0 = m.bar0 /\ d.isr = m.isr /\ d.avail = m.avail /\ d.used = m.used
  BY <1>2 DEF StateFields
<1>4. DOMAIN d # DOMAIN Nothing
  BY <1>2 DEF StateFields, Nothing
<1>5. TokenFields(d, s)
  BY <1>1, <1>3, Zenon DEF TokenFields
<1> HIDE DEF d
<1>6. NotificationOnDevice(t, d)
  BY <1>3, <1>5, TokenKept, Zenon
<1>7. MaterializeNotified(s, t) = d
  BY <1>1, <1>6, Zenon DEF MaterializeNotified, d, m
<1> QED
  BY <1>3, <1>4, <1>5, <1>6, <1>7, Zenon DEF d, m

\* What materialize of MHV2V2T, version 3, gives: the notification is pending
\* again on the device the token names, and on no other.
LEMMA NotificationTxSupported ==
  ASSUME NEW b, NEW p, NEW t, NEW h, SmpSound(b.ctl), DevicesSound(b.devs),
         MsrsOffered(b.ctl.primary.vcpu.msrs, h), MsrsOffered(b.ctl.secondary.msrs, h),
         ValidTx([cp |-> b, regs |-> p, token |-> t]), NotificationParts(t),
         NEW k \in 1..2, NotificationInState(t, b.devs[k])
  PROVE  LET x == [cp |-> b, regs |-> p, token |-> t] IN
         MaterializeNotificationTx(x, h)
           = [cp |-> [ctl |-> b.ctl, devs |-> Notified(b.devs, k)], regs |-> p, token |-> t]
<1> DEFINE x == [cp |-> b, regs |-> p, token |-> t]
           ms == [i \in 1..2 |-> MaterializeDevice(b.devs[i])]
           ds == [i \in 1..2 |-> IF i = k THEN [MaterializeDevice(b.devs[i]) EXCEPT !.notify = TRUE]
                                 ELSE MaterializeDevice(b.devs[i])]
           es == [i \in 1..2 |-> IF t.bar0 = b.devs[i].bar0 THEN MaterializeNotified(b.devs[i], t)
                                 ELSE MaterializeDevice(b.devs[i])]
           m == [ctl |-> b.ctl, devs |-> ds]
           r == [cp |-> m, regs |-> p, token |-> t]
<1>2. MaterializeSmp(b.ctl, h) = b.ctl /\ b.ctl # Nothing
  BY SmpSupported, Zenon
<1>3. /\ \A i \in 1..2 : ms[i] # Nothing /\ TokenFields(ms[i], b.devs[i]) /\ ms[i] = MaterializeDevice(b.devs[i])
      /\ OrderedBars(ms)
  BY DevicesSupported, Zenon
<1>4. LET d == [MaterializeDevice(b.devs[k]) EXCEPT !.notify = TRUE] IN
      /\ MaterializeNotified(b.devs[k], t) = d /\ d # Nothing
      /\ TokenFields(d, b.devs[k]) /\ NotificationOnDevice(t, d)
  <2>1. ValidDevice(b.devs[k])
    BY Zenon DEF DevicesSound
  <2> QED
    BY <2>1, NotifiedDevice, Zenon
<1> HIDE DEF ms
<1>5. \A i \in 1..2 : t.bar0 = b.devs[i].bar0 <=> i = k
  <2>1. NamedBy(t, ms[k])
    BY <1>3, TokenKept, Zenon DEF NotificationInState, NamedBy
  <2>2. \A i \in 1..2 : NamedBy(t, ms[i]) => i = k
    BY <1>3, <2>1, NamedDevice, Zenon
  <2>3. \A i \in 1..2 : ms[i].bar0 = b.devs[i].bar0
    BY <1>3, Zenon DEF TokenFields
  <2> QED
    BY <2>1, <2>2, <2>3, Zenon DEF NamedBy
<1>6. es = ds
  BY <1>4, <1>5, Zenon
<1>7. \A i \in 1..2 : ds[i] = IF i = k THEN [MaterializeDevice(b.devs[i]) EXCEPT !.notify = TRUE]
                              ELSE MaterializeDevice(b.devs[i])
  OBVIOUS
<1> HIDE DEF ds
<1>1. x.cp = b /\ x.token = t /\ m.devs = ds /\ [x EXCEPT !.cp = m] = r
  OBVIOUS
<1>8. \A i \in 1..2 : ds[i] # Nothing /\ TokenFields(ds[i], b.devs[i])
  BY <1>3, <1>4, <1>7, Zenon
<1>9. NotificationOnDevice(t, ds[k]) /\ ds[k] # Nothing
  BY <1>4, <1>7, Zenon
<1>10. OrderedBars(ds) /\ NamedBy(t, ds[k])
  <2>1. 1 \in 1..2 /\ 2 \in 1..2
    OBVIOUS
  <2>2. ds[1].bar0 = ms[1].bar0 /\ ds[2].bar0 = ms[2].bar0
    BY <1>3, <1>8, <2>1, ZenonT(60) DEF TokenFields
  <2>3. t.bar0 = ds[k].bar0
    BY <1>5, <1>8, Zenon DEF TokenFields
  <2> QED
    BY <1>3, <2>2, <2>3, Zenon DEF OrderedBars, NamedBy
<1>11. DeviceNamed(ds, t) = ds[k] /\ Names(t, ds)
  BY <1>10, NamedDevice, Zenon
<1>12. Captured(b.ctl, ds) = m /\ Captured(b.ctl, ds) # Nothing
  BY <1>2, <1>8, CapturedIs, Zenon
<1>13. MaterializeSmpBlkNotified(b, h, t) = Captured(b.ctl, es)
  <2>1. NotificationValid(b, t) /\ ValidBars(Bars(b.devs))
    BY Zenon DEF NotificationValid, DevicesSound
  <2> QED
    BY <1>2, <2>1, Zenon DEF MaterializeSmpBlkNotified
<1> HIDE DEF x, m, r, es
<1>14. ValidTx(x)
  BY Zenon DEF x
<1>15. MaterializeNotificationTx(x, h) = [x EXCEPT !.cp = m]
  BY <1>1, <1>6, <1>9, <1>11, <1>12, <1>13, <1>14, Zenon DEF MaterializeNotificationTx
<1> QED
  BY <1>1, <1>15, Zenon DEF Notified, x, ds, m, r

\* What materialize of MHVTXN gives.
LEMMA TxSupported ==
  ASSUME NEW x, NEW h, BlkSound(x.cp), MsrsOffered(x.cp.ctl.guest.vcpu.msrs, h)
  PROVE  /\ MaterializeTx(x, h) = [cp |-> MaterializeBlk(x.cp, h), regs |-> x.regs]
         /\ MaterializeTx(x, h) # Nothing
<1>1. MaterializeBlk(x.cp, h) # Nothing
  BY BlkSupported, Zenon
<1>2. MaterializeTx(x, h) = [cp |-> MaterializeBlk(x.cp, h), regs |-> x.regs]
  BY <1>1, Zenon DEF MaterializeTx
<1>3. [cp |-> MaterializeBlk(x.cp, h), regs |-> x.regs] # Nothing
  BY DEF Nothing
<1> QED
  BY <1>2, <1>3, Zenon

\* What materialize of MHV2TXN gives.
LEMMA TwoTxSupported ==
  ASSUME NEW x, NEW h, FullSound(x.cp.ctl), DevicesSound(x.cp.devs), ValidPair(x.regs),
         MsrsOffered(x.cp.ctl.guest.vcpu.msrs, h)
  PROVE  /\ MaterializeTwoTx(x, h) = [cp |-> MaterializeTwoBlk(x.cp, h), regs |-> x.regs]
         /\ MaterializeTwoTx(x, h) # Nothing
<1>1. MaterializeTwoBlk(x.cp, h) # Nothing
  BY TwoBlkSupported, Zenon
<1>2. MaterializeTwoTx(x, h) = [cp |-> MaterializeTwoBlk(x.cp, h), regs |-> x.regs]
  BY <1>1, Zenon DEF MaterializeTwoTx
<1>3. [cp |-> MaterializeTwoBlk(x.cp, h), regs |-> x.regs] # Nothing
  BY DEF Nothing
<1> QED
  BY <1>2, <1>3, Zenon

\* What materialize of MHV2V2T, version 1, gives.
LEMMA SmpTxSupported ==
  ASSUME NEW x, NEW h, SmpSound(x.cp.ctl), DevicesSound(x.cp.devs), ValidTx(x),
         MsrsOffered(x.cp.ctl.primary.vcpu.msrs, h), MsrsOffered(x.cp.ctl.secondary.msrs, h)
  PROVE  /\ MaterializeSmpTx(x, h) = [cp |-> MaterializeSmpBlk(x.cp, h), regs |-> x.regs]
         /\ MaterializeSmpTx(x, h) # Nothing
<1>1. MaterializeSmpBlk(x.cp, h) # Nothing
  BY SmpBlkSupported, Zenon
<1>2. MaterializeSmpTx(x, h) = [cp |-> MaterializeSmpBlk(x.cp, h), regs |-> x.regs]
  BY <1>1, Zenon DEF MaterializeSmpTx
<1>3. [cp |-> MaterializeSmpBlk(x.cp, h), regs |-> x.regs] # Nothing
  BY DEF Nothing
<1> QED
  BY <1>2, <1>3, Zenon

-----------------------------------------------------------------------------
\* What from_checkpoint keeps

\* s is a versioned form of the captured v: sound, with the same contents.
VcpuMatches(s, v) == s \in Vcpus /\ VcpuSound(s) /\ Alike(VcpuContents(s), VcpuContents(v))
PageMatches(s, c) == s \in PageSets /\ PageSound(s) /\ Alike(PageContents(s), PageContents(c))
FullMatches(s, c) == s \in Fulls /\ FullSound(s) /\ Alike(FullContents(s), FullContents(c))
SmpMatches(s, c)  ==
  s \in OwnSmps /\ SmpSound(s) /\ Alike(SmpContents(s), SmpContents(c))

\* from_checkpoint keeps what the format carries, and refuses the rest.
VcpuKept(v) ==
  (VcpuCarried(v) => VcpuMatches(FromVcpu(v), v)) /\ (~VcpuCarried(v) => FromVcpu(v) = Nothing)
PageKept(c) ==
  (PageCarried(c) => PageMatches(FromPage(c), c)) /\ (~PageCarried(c) => FromPage(c) = Nothing)
FullKept(c) ==
  (FullCarried(c) => FullMatches(FromFull(c), c)) /\ (~FullCarried(c) => FromFull(c) = Nothing)
SmpKept(c) ==
  (SmpCarried(c) => SmpMatches(FromSmp(c), c)) /\ (~SmpCarried(c) => FromSmp(c) = Nothing)

\* The MSRs of one vCPU: from_checkpoint sorts them, and refuses them exactly
\* when they are too many or one is there twice.
LEMMA VcpuFromCheckpoint ==
  ASSUME NEW v \in Vcpus
  PROVE  VcpuKept(v)
<1> DEFINE m == SortedMsrs(v.msrs)
           s == [v EXCEPT !.msrs = m]
<1>1. v = [regs |-> v.regs, sregs |-> v.sregs, msrs |-> v.msrs] /\ v.msrs \in Msrs
  <2> DEFINE M == Seq([index : Nat, value : Nat])
             G == [Range(RegisterOrder) -> Nat]
  <2>1. v \in [regs : G, sregs : Specials, msrs : M]
    BY Zenon DEF Vcpus
  <2> HIDE DEF M, G
  <2>2. v = [regs |-> v.regs, sregs |-> v.sregs, msrs |-> v.msrs] /\ v.msrs \in M
    BY <2>1
  <2> QED
    BY <2>2, Zenon DEF M, Msrs
<1>2. m \in Msrs /\ Len(m) = Len(v.msrs)
  BY <1>1, Places, Zenon
<1>3. /\ MsrSet(m) = MsrSet(v.msrs)
      /\ Ascending(Indices(m)) <=> \A i, j \in DOMAIN v.msrs : v.msrs[i].index = v.msrs[j].index => i = j
  BY <1>1, Sorted, Zenon
<1>4. ValidMsrs(m) <=> VcpuCarried(v)
  BY <1>2, <1>3, Zenon DEF ValidMsrs, VcpuCarried
<1>5. FromVcpu(v) = IF ValidMsrs(m) THEN s ELSE Nothing
  BY Zenon DEF FromVcpu
<1> HIDE DEF m
<1>6. s = [regs |-> v.regs, sregs |-> v.sregs, msrs |-> m]
  BY <1>1
<1>7. s.msrs = m /\ s # Nothing
  BY <1>6 DEF Nothing
<1>8. s \in Vcpus
  <2> DEFINE G == [Range(RegisterOrder) -> Nat]
             M == Seq([index : Nat, value : Nat])
  <2>1. v \in [regs : G, sregs : Specials, msrs : M] /\ m \in M
    BY <1>2, Zenon DEF Vcpus, Msrs
  <2> HIDE DEF M, G
  <2>2. s \in [regs : G, sregs : Specials, msrs : M]
    BY <1>6, <2>1
  <2> QED
    BY <2>2, Zenon DEF M, G, Vcpus
<1> HIDE DEF s
<1>9. Alike(VcpuContents(s), VcpuContents(v))
  <2>1. VcpuContents(s) = [regs |-> v.regs, sregs |-> v.sregs, msrs |-> MsrSet(m)]
    BY <1>6 DEF VcpuContents
  <2>2. VcpuContents(v) = [regs |-> v.regs, sregs |-> v.sregs, msrs |-> MsrSet(v.msrs)]
    BY <1>1 DEF VcpuContents
  <2> QED
    BY <1>3, <2>1, <2>2, Zenon DEF Alike
<1> QED
  BY <1>4, <1>5, <1>7, <1>8, <1>9, Zenon DEF VcpuKept, VcpuMatches, VcpuSound

\* Pages and one vCPU.
LEMMA PageFromCheckpoint ==
  ASSUME NEW c \in PageSets
  PROVE  PageKept(c)
<1> VcpuKept(c.vcpu)
  <2>1. c.vcpu \in Vcpus
    BY DEF PageSets
  <2> QED
    BY <2>1, VcpuFromCheckpoint, Zenon
<1> DEFINE v == FromVcpu(c.vcpu)
           s == [c EXCEPT !.vcpu = v]
<1>1. c = [pages |-> c.pages, vcpu |-> c.vcpu] /\ c.pages \in Seq([addr : Nat, bytes : Nat])
  BY DEF PageSets
<1> HIDE DEF v
<1>2. s = [pages |-> c.pages, vcpu |-> v]
  BY <1>1
<1>3. s.pages = c.pages /\ s.vcpu = v
  BY <1>2
<1>4. s # Nothing
  BY <1>2 DEF Nothing
<1>5. v \in Vcpus => s \in PageSets
  BY <1>1, <1>2 DEF PageSets
<1> HIDE DEF s
<1>6. Alike(VcpuContents(v), VcpuContents(c.vcpu)) => PageContents(s) = PageContents(c)
  <2>1. PageContents(c) = [pages |-> c.pages, vcpu |-> VcpuContents(c.vcpu)]
    BY <1>1 DEF PageContents
  <2>2. PageContents(s) = [pages |-> c.pages, vcpu |-> VcpuContents(v)]
    BY <1>2, <1>3 DEF PageContents
  <2> QED
    BY <2>1, <2>2, Zenon DEF Alike
<1>7. FromPage(c) = IF ValidPages(c.pages) /\ v # Nothing THEN s ELSE Nothing
  BY Zenon DEF FromPage, v, s
<1>8. CASE PageCarried(c)
  <2>1. ValidPages(c.pages) /\ v \in Vcpus /\ VcpuSound(v) /\ Alike(VcpuContents(v), VcpuContents(c.vcpu))
    BY <1>8, Zenon DEF PageCarried, VcpuKept, VcpuMatches, v
  <2>2. FromPage(c) = s
    BY <1>7, <2>1, Zenon DEF VcpuSound
  <2>3. PageSound(s)
    BY <1>3, <1>4, <2>1, Zenon DEF PageSound
  <2> QED
    BY <1>5, <1>6, <1>8, <2>1, <2>2, <2>3, Zenon DEF PageKept, PageMatches, Alike
<1>9. CASE ~PageCarried(c)
  <2>1. ~ValidPages(c.pages) \/ v = Nothing
    BY <1>9, Zenon DEF PageCarried, VcpuKept, v
  <2> QED
    BY <1>7, <1>9, <2>1, Zenon DEF PageKept
<1> QED
  BY <1>8, <1>9, Zenon

\* The controllers around one vCPU.
LEMMA FullFromCheckpoint ==
  ASSUME NEW c \in Fulls
  PROVE  FullKept(c)
<1> PageKept(c.guest)
  <2>1. c.guest \in PageSets
    BY DEF Fulls
  <2> QED
    BY <2>1, PageFromCheckpoint, Zenon
<1> DEFINE g == FromPage(c.guest)
           s == [c EXCEPT !.guest = g]
<1>1. /\ c = [guest |-> c.guest, master |-> c.master, slave |-> c.slave, ioapic |-> c.ioapic, lapic |-> c.lapic]
      /\ c.master \in Nat /\ c.slave \in Nat /\ c.ioapic \in Ioapics /\ c.lapic \in Nat
  BY DEF Fulls
<1> HIDE DEF g
<1>2. s = [guest |-> g, master |-> c.master, slave |-> c.slave, ioapic |-> c.ioapic, lapic |-> c.lapic]
  BY <1>1
<1>3. s.guest = g /\ s.ioapic = c.ioapic
  BY <1>2
<1>4. s # Nothing
  BY <1>2 DEF Nothing
<1>5. g \in PageSets => s \in Fulls
  BY <1>1, <1>2 DEF Fulls
<1> HIDE DEF s
<1>6. Alike(PageContents(g), PageContents(c.guest)) => FullContents(s) = FullContents(c)
  <2>1. FullContents(c) = [guest |-> PageContents(c.guest), master |-> c.master, slave |-> c.slave,
                           ioapic |-> c.ioapic, lapic |-> c.lapic]
    BY <1>1 DEF FullContents
  <2>2. FullContents(s) = [guest |-> PageContents(g), master |-> c.master, slave |-> c.slave,
                           ioapic |-> c.ioapic, lapic |-> c.lapic]
    BY <1>2, <1>3 DEF FullContents
  <2> QED
    BY <2>1, <2>2, Zenon DEF Alike
<1>7. FromFull(c) = IF g # Nothing /\ c.ioapic.pad = 0 THEN s ELSE Nothing
  BY Zenon DEF FromFull, g, s
<1>8. CASE FullCarried(c)
  <2>1. c.ioapic.pad = 0 /\ g \in PageSets /\ PageSound(g) /\ Alike(PageContents(g), PageContents(c.guest))
    BY <1>8, Zenon DEF FullCarried, PageKept, PageMatches, g
  <2>2. FromFull(c) = s
    BY <1>7, <2>1, Zenon DEF PageSound
  <2>3. FullSound(s)
    BY <1>3, <1>4, <2>1, Zenon DEF FullSound
  <2> QED
    BY <1>5, <1>6, <1>8, <2>1, <2>2, <2>3, Zenon DEF FullKept, FullMatches, Alike
<1>9. CASE ~FullCarried(c)
  <2>1. c.ioapic.pad # 0 \/ g = Nothing
    BY <1>9, Zenon DEF FullCarried, PageKept, g
  <2> QED
    BY <1>7, <1>9, <2>1, Zenon DEF FullKept
<1> QED
  BY <1>8, <1>9, Zenon

\* Two vCPUs.
LEMMA SmpFromCheckpoint ==
  ASSUME NEW c \in Smps
  PROVE  SmpKept(c)
<1> PageKept(c.primary) /\ VcpuKept(c.secondary)
  <2>1. c.primary \in PageSets /\ c.secondary \in Vcpus
    BY DEF Smps
  <2> QED
    BY <2>1, PageFromCheckpoint, VcpuFromCheckpoint, Zenon
<1> DEFINE p == FromPage(c.primary)
           v == FromVcpu(c.secondary)
           s == [c EXCEPT !.primary = p, !.secondary = v]
<1>1. /\ c = [primary |-> c.primary, secondary |-> c.secondary, ids |-> c.ids, owners |-> c.owners, mps |-> c.mps,
              master |-> c.master, slave |-> c.slave, ioapic |-> c.ioapic, lapics |-> c.lapics]
      /\ c.ids \in TwoNats /\ c.owners \in TwoNats \X TwoNats /\ c.mps \in TwoNats
      /\ c.master \in Nat /\ c.slave \in Nat /\ c.ioapic \in Ioapics /\ c.lapics \in TwoNats
  BY DEF Smps
<1> HIDE DEF p, v
<1>2. s = [primary |-> p, secondary |-> v, ids |-> c.ids, owners |-> c.owners, mps |-> c.mps,
           master |-> c.master, slave |-> c.slave, ioapic |-> c.ioapic, lapics |-> c.lapics]
  <2>1. s = [[c EXCEPT !.primary = p] EXCEPT !.secondary = v]
    OBVIOUS
  <2>2. [c EXCEPT !.primary = p] =
          [primary |-> p, secondary |-> c.secondary, ids |-> c.ids, owners |-> c.owners, mps |-> c.mps,
           master |-> c.master, slave |-> c.slave, ioapic |-> c.ioapic, lapics |-> c.lapics]
    BY <1>1
  <2> HIDE DEF s
  <2> QED
    BY <2>1, <2>2
<1>3. /\ s.primary = p /\ s.secondary = v /\ s.ioapic = c.ioapic
      /\ s.ids = c.ids /\ s.owners = c.owners /\ s.mps = c.mps
  BY <1>2
<1>4. s # Nothing
  BY <1>2 DEF Nothing
<1>5. p \in PageSets /\ v \in Vcpus => s \in Smps
  BY <1>1, <1>2 DEF Smps
<1> HIDE DEF s
<1>6. Alike(PageContents(p), PageContents(c.primary)) /\ Alike(VcpuContents(v), VcpuContents(c.secondary))
        => SmpContents(s) = SmpContents(c)
  <2> DEFINE With(a, b) ==
               [primary |-> a, secondary |-> b, ids |-> c.ids, owners |-> c.owners, mps |-> c.mps,
                master |-> c.master, slave |-> c.slave, ioapic |-> c.ioapic, lapics |-> c.lapics]
  <2>0. \A x : SmpContents(x) = [[x EXCEPT !.primary = PageContents(x.primary)]
                                    EXCEPT !.secondary = VcpuContents(x.secondary)]
    BY DEF SmpContents
  <2>1. \A x, a, b, g : Alike(x, With(a, b)) => Alike([x EXCEPT !.primary = g], With(g, b))
    BY DEF Alike
  <2>4. \A x, a, b, u : Alike(x, With(a, b)) => Alike([x EXCEPT !.secondary = u], With(a, u))
    BY DEF Alike
  <2>2. Alike(c, With(c.primary, c.secondary)) /\ Alike(s, With(p, v))
    BY <1>1, <1>2, Zenon DEF Alike
  <2> HIDE DEF With
  <2>3. Alike(SmpContents(c), With(PageContents(c.primary), VcpuContents(c.secondary)))
    BY <2>0, <2>1, <2>2, <2>4, Zenon
  <2>5. Alike(SmpContents(s), With(PageContents(p), VcpuContents(v)))
    BY <1>3, <2>0, <2>1, <2>2, <2>4, Zenon
  <2> QED
    BY <2>3, <2>5, Zenon DEF Alike
<1>7. FromSmp(c) = IF ValidSmp(c) /\ c.owners = <<c.ids, c.ids>> /\ p # Nothing /\ v # Nothing
                   THEN s ELSE Nothing
  BY Zenon DEF FromSmp, p, v, s
<1>8. CASE SmpCarried(c)
  <2>1. /\ ValidSmp(c) /\ c.owners = <<c.ids, c.ids>>
        /\ p \in PageSets /\ PageSound(p) /\ Alike(PageContents(p), PageContents(c.primary))
        /\ v \in Vcpus /\ VcpuSound(v) /\ Alike(VcpuContents(v), VcpuContents(c.secondary))
    BY <1>8, Zenon DEF SmpCarried, PageKept, PageMatches, VcpuKept, VcpuMatches, p, v
  <2>2. FromSmp(c) = s
    BY <1>7, <2>1, Zenon DEF PageSound, VcpuSound
  <2>3. SmpSound(s) /\ s.owners = <<s.ids, s.ids>>
    BY <1>3, <1>4, <2>1, Zenon DEF SmpSound, ValidSmp
  <2> QED
    BY <1>5, <1>6, <1>8, <2>1, <2>2, <2>3, Zenon DEF SmpKept, SmpMatches, Alike, OwnSmps
<1>9. CASE ~SmpCarried(c)
  <2>1. ~ValidSmp(c) \/ c.owners # <<c.ids, c.ids>> \/ p = Nothing \/ v = Nothing
    BY <1>9, Zenon DEF SmpCarried, PageKept, VcpuKept, p, v
  <2> QED
    BY <1>7, <1>9, <2>1, Zenon DEF SmpKept
<1> QED
  BY <1>8, <1>9, Zenon

-----------------------------------------------------------------------------
\* Devices

\* s is the state of device d, from which the device is rebuilt.
StateOf(s, d) ==
  /\ s \in States /\ s # Nothing /\ ValidDevice(s) /\ TokenFields(d, s)
  /\ MaterializeDevice(s) = [d EXCEPT !.notify = FALSE]

\* The state of a memory-backed, valid device is captured; of no other.
LEMMA CaptureSemanticIs ==
  ASSUME NEW d \in Devices
  PROVE  /\ DeviceCarried(d) => StateOf(CaptureSemantic(d), d)
         /\ ~DeviceCarried(d) => CaptureSemantic(d) = Nothing
<1> DEFINE s == [f \in StateFields |-> d[f]]
           m == [f \in StateFields \cup {"notify", "external"} |-> IF f \in StateFields THEN s[f] ELSE FALSE]
<1>1. /\ s = [bar0 |-> d.bar0, dfsel |-> d.dfsel, gfsel |-> d.gfsel, features |-> d.features,
              status |-> d.status, enabled |-> d.enabled, isr |-> d.isr, qsel |-> d.qsel,
              qsize |-> d.qsize, avail |-> d.avail, used |-> d.used, desc |-> d.desc,
              driver |-> d.driver, device |-> d.device, backing |-> d.backing]
  BY DEF StateFields
<1>2. s \in States
  BY <1>1 DEF Devices, States
<1>3. s # Nothing
  BY <1>1 DEF Nothing
<1>4. /\ s.bar0 = d.bar0 /\ s.features = d.features /\ s.status = d.status /\ s.enabled = d.enabled
      /\ s.isr = d.isr /\ s.qsize = d.qsize /\ s.avail = d.avail /\ s.used = d.used /\ s.desc = d.desc
      /\ s.driver = d.driver /\ s.device = d.device
  BY DEF StateFields
<1>5. ~d.external => m = [d EXCEPT !.notify = FALSE]
  BY DEF Devices, StateFields
<1>6. CaptureSemantic(d) = IF ~d.external /\ ValidDevice(s) THEN s ELSE Nothing
  BY Zenon DEF CaptureSemantic
<1>7. ValidDevice(s) => MaterializeDevice(s) = m
  BY DeviceSupported, Zenon
<1> HIDE DEF s, m
<1>8. ValidDevice(s) <=> ValidDevice(d)
  BY <1>4, ZenonT(60) DEF ValidDevice, ValidStatus
<1>9. TokenFields(d, s)
  BY <1>4, Zenon DEF TokenFields
<1> QED
  BY <1>2, <1>3, <1>5, <1>6, <1>7, <1>8, <1>9, Zenon DEF DeviceCarried, StateOf

\* A device put back with the notification it had is the device it was.
LEMMA NotifyKept ==
  ASSUME NEW d \in Devices
  PROVE  /\ d.notify = FALSE => [d EXCEPT !.notify = FALSE] = d
         /\ d.notify = TRUE => [[d EXCEPT !.notify = FALSE] EXCEPT !.notify = TRUE] = d
         /\ d.notify \in BOOLEAN /\ d.external \in BOOLEAN
BY DEF Devices

\* What is captured of a device with nothing pending, of one with a
\* completion pending and of one with a notification pending.
LEMMA IdleIs ==
  ASSUME NEW d \in Devices
  PROVE  /\ Idle(d) => StateOf(Capture(d), d) /\ MaterializeDevice(Capture(d)) = d
         /\ ~Idle(d) => Capture(d) = Nothing
<1>1. Capture(d) = IF ~d.external /\ ~d.notify /\ d.isr = 0 THEN CaptureSemantic(d) ELSE Nothing
  BY Zenon DEF Capture
<1>2. Idle(d) => /\ ~d.external /\ d.notify = FALSE /\ d.isr = 0
                 /\ StateOf(CaptureSemantic(d), d)
  BY CaptureSemanticIs, NotifyKept, Zenon DEF Idle, DeviceCarried
<1>3. ~Idle(d) => d.external \/ d.notify \/ d.isr # 0 \/ CaptureSemantic(d) = Nothing
  BY CaptureSemanticIs, Zenon DEF Idle, DeviceCarried
<1> QED
  BY <1>1, <1>2, <1>3, NotifyKept, Zenon DEF StateOf

\* The same for a completion.
LEMMA CompletionIs ==
  ASSUME NEW d \in Devices, NEW t
  PROVE  LET s == CaptureCompletion(d, t) IN
         /\ CompletionPending(d, t) =>
              StateOf(s, d) /\ CompletionInState(t, s) /\ MaterializeDevice(s) = d
         /\ ~CompletionPending(d, t) => s = Nothing
<1> DEFINE s == CaptureSemantic(d)
           own == TokenOf(d)
<1>1. CaptureCompletion(d, t) =
        IF /\ CompletionParts(own) /\ CompletionOnDevice(own, d) /\ s # Nothing
           /\ own = t /\ CompletionInState(own, s)
        THEN s ELSE Nothing
  BY Zenon DEF CaptureCompletion
<1>2. /\ DeviceCarried(d) => StateOf(s, d)
      /\ ~DeviceCarried(d) => s = Nothing
  BY CaptureSemanticIs, Zenon
<1>3. StateOf(s, d) => TokenOf(s) = own /\ s.isr = d.isr
  BY Zenon DEF StateOf, TokenFields, TokenOf
<1> HIDE DEF s, own
<1>4. CASE CompletionPending(d, t)
  <2>1. /\ t = own /\ CompletionParts(own) /\ CompletionOnDevice(own, d) /\ StateOf(s, d)
        /\ d.isr = 1 /\ d.notify = FALSE
    BY <1>2, <1>4, NotifyKept, Zenon DEF CompletionPending, CompletionOnDevice, own
  <2>2. CompletionInState(t, s) /\ s # Nothing
    BY <1>3, <2>1, Zenon DEF CompletionInState, StateOf
  <2>3. CaptureCompletion(d, t) = s
    BY <1>1, <2>1, <2>2, Zenon
  <2> QED
    BY <1>4, <2>1, <2>2, <2>3, NotifyKept, Zenon DEF StateOf
<1>5. CASE ~CompletionPending(d, t)
  BY <1>1, <1>2, <1>5, Zenon DEF CompletionPending
<1> QED
  BY <1>4, <1>5, Zenon

\* The same for a notification, which is put back when the device is rebuilt.
LEMMA NotificationIs ==
  ASSUME NEW d \in Devices, NEW t
  PROVE  LET s == CaptureNotification(d, t) IN
         /\ NotificationPending(d, t) =>
              /\ StateOf(s, d) /\ NotificationInState(t, s)
              /\ [MaterializeDevice(s) EXCEPT !.notify = TRUE] = d
         /\ ~NotificationPending(d, t) => s = Nothing
<1> DEFINE s == CaptureSemantic(d)
           own == TokenOf(d)
<1>1. CaptureNotification(d, t) =
        IF /\ NotificationParts(own) /\ NotificationOnDevice(own, d) /\ s # Nothing
           /\ own = t /\ NotificationInState(own, s)
        THEN s ELSE Nothing
  BY Zenon DEF CaptureNotification
<1>2. /\ DeviceCarried(d) => StateOf(s, d)
      /\ ~DeviceCarried(d) => s = Nothing
  BY CaptureSemanticIs, Zenon
<1>3. StateOf(s, d) => TokenOf(s) = own /\ s.isr = d.isr
  BY Zenon DEF StateOf, TokenFields, TokenOf
<1> HIDE DEF s, own
<1>4. CASE NotificationPending(d, t)
  <2>1. /\ t = own /\ NotificationParts(own) /\ NotificationOnDevice(own, d) /\ StateOf(s, d)
        /\ d.isr = 0 /\ d.notify = TRUE
    BY <1>2, <1>4, NotifyKept, Zenon DEF NotificationPending, NotificationOnDevice, own
  <2>2. NotificationInState(t, s) /\ s # Nothing
    BY <1>3, <2>1, Zenon DEF NotificationInState, StateOf
  <2>3. CaptureNotification(d, t) = s
    BY <1>1, <2>1, <2>2, Zenon
  <2> QED
    BY <1>4, <2>1, <2>2, <2>3, NotifyKept, Zenon DEF StateOf
<1>5. CASE ~NotificationPending(d, t)
  BY <1>1, <1>2, <1>5, Zenon DEF NotificationPending
<1> QED
  BY <1>4, <1>5, Zenon

-----------------------------------------------------------------------------
\* Checkpoints with devices

StatesOf(st, devs) == st = [i \in 1..2 |-> st[i]] /\ \A i \in 1..2 : StateOf(st[i], devs[i])
SameBars(st, devs) == \A i \in 1..2 : st[i].bar0 = devs[i].bar0
Rebuilt(st, devs)  == [i \in 1..2 |-> MaterializeDevice(st[i])] = devs

\* s is the versioned form of the captured c.
BlkMatches(s, c) ==
  /\ s \in BlkStates /\ s # Nothing /\ BlkSound(s) /\ Alike(FullContents(s.ctl), FullContents(c.ctl))
  /\ MaterializeDevice(s.dev) = c.dev /\ c.bar0 = c.dev.bar0
TwoBlkMatches(s, c) ==
  /\ s \in TwoBlkStates /\ s # Nothing /\ FullSound(s.ctl) /\ DevicesSound(s.devs)
  /\ Alike(FullContents(s.ctl), FullContents(c.ctl)) /\ Rebuilt(s.devs, c.devs)
SmpBlkMatches(s, c) ==
  /\ s \in SmpBlkStates /\ s # Nothing /\ SmpBlkSound(s)
  /\ Alike(SmpContents(s.ctl), SmpContents(c.ctl)) /\ SameBars(s.devs, c.devs)

BlkKept(c) ==
  (BlkCarried(c) => BlkMatches(FromBlk(c), c)) /\ (~BlkCarried(c) => FromBlk(c) = Nothing)
TwoBlkKept(c) ==
  (TwoBlkCarried(c) => TwoBlkMatches(FromTwoBlk(c), c)) /\ (~TwoBlkCarried(c) => FromTwoBlk(c) = Nothing)
SmpBlkKept(c) ==
  /\ SmpBlkCarried(c) => SmpBlkMatches(FromSmpBlk(c), c) /\ Rebuilt(FromSmpBlk(c).devs, c.devs)
  /\ ~SmpBlkCarried(c) => FromSmpBlk(c) = Nothing
CompletionKept(c, t) ==
  LET b == FromSmpBlkCompletion(c, t) IN
  /\ SmpBlkPending(c, t, CompletionPending) =>
       SmpBlkMatches(b, c) /\ CompletionParts(t) /\ CompletionValid(b, t) /\ Rebuilt(b.devs, c.devs)
  /\ ~SmpBlkPending(c, t, CompletionPending) => b = Nothing
NotificationKept(c, t) ==
  LET b == FromSmpBlkNotification(c, t) IN
  /\ SmpBlkPending(c, t, NotificationPending) =>
       /\ SmpBlkMatches(b, c) /\ NotificationParts(t)
       /\ \E k \in 1..2 : NotificationInState(t, b.devs[k]) /\ Notified(b.devs, k) = c.devs
  /\ ~SmpBlkPending(c, t, NotificationPending) => b = Nothing

\* One device.
LEMMA BlkFromCheckpoint ==
  ASSUME NEW c \in Blks
  PROVE  BlkKept(c)
<1> FullKept(c.ctl)
  <2>1. c.ctl \in Fulls
    BY DEF Blks
  <2> QED
    BY <2>1, FullFromCheckpoint, Zenon
<1> DEFINE f == FromFull(c.ctl)
           s == Capture(c.dev)
           b == [ctl |-> f, dev |-> s]
<1>1. c.dev \in Devices
  BY DEF Blks
<1>2. /\ Idle(c.dev) => StateOf(s, c.dev) /\ MaterializeDevice(s) = c.dev
      /\ ~Idle(c.dev) => s = Nothing
  BY <1>1, IdleIs, Zenon
<1>3. FromBlk(c) = IF f # Nothing /\ s # Nothing /\ c.bar0 = c.dev.bar0 THEN b ELSE Nothing
  BY Zenon DEF FromBlk
<1> HIDE DEF f, s
<1>4. b.ctl = f /\ b.dev = s /\ b # Nothing
  BY DEF Nothing
<1>5. f \in Fulls /\ s \in States => b \in BlkStates
  BY DEF BlkStates
<1> HIDE DEF b
<1>6. CASE BlkCarried(c)
  <2>1. f \in Fulls /\ FullSound(f) /\ Alike(FullContents(f), FullContents(c.ctl)) /\ f # Nothing
    BY <1>6, Zenon DEF BlkCarried, FullKept, FullMatches, FullSound, f
  <2>2. s \in States /\ ValidDevice(s) /\ s # Nothing /\ MaterializeDevice(s) = c.dev /\ c.bar0 = c.dev.bar0
    BY <1>2, <1>6, Zenon DEF BlkCarried, StateOf
  <2>3. FromBlk(c) = b
    BY <1>3, <2>1, <2>2, Zenon
  <2> QED
    BY <1>4, <1>5, <1>6, <2>1, <2>2, <2>3, Zenon DEF BlkKept, BlkMatches, BlkSound
<1>7. CASE ~BlkCarried(c)
  <2>1. f = Nothing \/ s = Nothing \/ c.bar0 # c.dev.bar0
    BY <1>2, <1>7, Zenon DEF BlkCarried, FullKept, f
  <2> QED
    BY <1>3, <1>7, <2>1, Zenon DEF BlkKept
<1> QED
  BY <1>6, <1>7, Zenon

\* The states of two devices, captured with the controllers around them.
CapturedAs(b, ctl, st, devs) ==
  /\ b.ctl = ctl /\ b.devs = st /\ b # Nothing
  /\ DevicesSound(st) /\ SameBars(st, devs)
  /\ ctl \in Fulls => b \in TwoBlkStates
  /\ ctl \in OwnSmps => b \in SmpBlkStates

\* That is what Captured makes of them.
LEMMA CapturedTwo ==
  ASSUME NEW ctl, ctl # Nothing, NEW devs, ValidBars(Bars(devs)),
         NEW st, StatesOf(st, devs)
  PROVE  CapturedAs(Captured(ctl, st), ctl, st, devs)
<1> DEFINE b == [ctl |-> ctl, devs |-> st]
<1>1. \A i \in 1..2 : st[i] # Nothing /\ st[i] \in States /\ ValidDevice(st[i]) /\ devs[i].bar0 = st[i].bar0
  BY Zenon DEF StatesOf, StateOf, TokenFields
<1>2. Captured(ctl, st) = b /\ b # Nothing
  BY <1>1, CapturedIs, Zenon
<1>3. st \in [1..2 -> States]
  BY <1>1 DEF StatesOf
<1>4. 1 \in 1..2 /\ 2 \in 1..2
  OBVIOUS
<1>5. Bars(st) = Bars(devs)
  BY <1>1, <1>4, Zenon DEF Bars
<1>6. b.ctl = ctl /\ b.devs = st
  OBVIOUS
<1>7. (ctl \in Fulls => b \in TwoBlkStates) /\ (ctl \in OwnSmps => b \in SmpBlkStates)
  BY <1>3 DEF TwoBlkStates, SmpBlkStates
<1> HIDE DEF b
<1>8. DevicesSound(st) /\ SameBars(st, devs)
  BY <1>1, <1>3, <1>5, Zenon DEF DevicesSound, SameBars
<1> QED
  BY <1>2, <1>6, <1>7, <1>8, Zenon DEF CapturedAs

\* Two devices that were idle are rebuilt as they were.
LEMMA IdleRebuilt ==
  ASSUME NEW devs \in Devices \X Devices
  PROVE  LET st == [i \in 1..2 |-> Capture(devs[i])] IN
         /\ (\A i \in 1..2 : Idle(devs[i])) => StatesOf(st, devs) /\ Rebuilt(st, devs)
         /\ ~(\A i \in 1..2 : Idle(devs[i])) => \E i \in 1..2 : st[i] = Nothing
<1> DEFINE st == [i \in 1..2 |-> Capture(devs[i])]
<1>1. devs[1] \in Devices /\ devs[2] \in Devices /\ devs = [i \in 1..2 |-> devs[i]]
  OBVIOUS
<1>2. \A i \in 1..2 : devs[i] \in Devices
  BY <1>1
<1>3. st = [i \in 1..2 |-> st[i]] /\ \A i \in 1..2 : st[i] = Capture(devs[i])
  OBVIOUS
<1> HIDE DEF st
<1>4. \A i \in 1..2 :
        /\ Idle(devs[i]) => StateOf(st[i], devs[i]) /\ MaterializeDevice(st[i]) = devs[i]
        /\ ~Idle(devs[i]) => st[i] = Nothing
  BY <1>2, <1>3, IdleIs, Zenon
<1>5. (\A i \in 1..2 : MaterializeDevice(st[i]) = devs[i]) => Rebuilt(st, devs)
  BY <1>1 DEF Rebuilt
<1> QED
  BY <1>3, <1>4, <1>5, Zenon DEF StatesOf, st

\* Two devices around one vCPU.
LEMMA TwoBlkFromCheckpoint ==
  ASSUME NEW c \in TwoBlks
  PROVE  TwoBlkKept(c)
<1> FullKept(c.ctl)
  <2>1. c.ctl \in Fulls
    BY DEF TwoBlks
  <2> QED
    BY <2>1, FullFromCheckpoint, Zenon
<1> DEFINE f == FromFull(c.ctl)
           st == [i \in 1..2 |-> Capture(c.devs[i])]
           b == Captured(f, st)
<1>1. c.devs \in Devices \X Devices
  BY DEF TwoBlks
<1>2. /\ (\A i \in 1..2 : Idle(c.devs[i])) => StatesOf(st, c.devs) /\ Rebuilt(st, c.devs)
      /\ ~(\A i \in 1..2 : Idle(c.devs[i])) => \E i \in 1..2 : st[i] = Nothing
  BY <1>1, IdleRebuilt, Zenon
<1>3. FromTwoBlk(c) = IF ValidBars(Bars(c.devs)) THEN Captured(f, st) ELSE Nothing
  BY Zenon DEF FromTwoBlk
<1> HIDE DEF f, st
<1>4. CASE TwoBlkCarried(c)
  <2>1. f \in Fulls /\ FullSound(f) /\ Alike(FullContents(f), FullContents(c.ctl)) /\ f # Nothing
    BY <1>4, Zenon DEF TwoBlkCarried, FullKept, FullMatches, FullSound, f
  <2>2. ValidBars(Bars(c.devs)) /\ StatesOf(st, c.devs) /\ Rebuilt(st, c.devs)
    BY <1>2, <1>4, Zenon DEF TwoBlkCarried
  <2>3. CapturedAs(b, f, st, c.devs)
    BY <2>1, <2>2, CapturedTwo, Zenon
  <2> HIDE DEF b
  <2>4. FromTwoBlk(c) = b
    BY <1>3, <2>2, Zenon DEF b
  <2> QED
    BY <1>4, <2>1, <2>2, <2>3, <2>4, Zenon DEF TwoBlkKept, TwoBlkMatches, CapturedAs
<1>5. CASE ~TwoBlkCarried(c)
  <2>1. ~ValidBars(Bars(c.devs)) \/ f = Nothing \/ \E i \in 1..2 : st[i] = Nothing
    BY <1>2, <1>5, Zenon DEF TwoBlkCarried, FullKept, f
  <2> QED
    BY <1>3, <1>5, <2>1, Zenon DEF TwoBlkKept, Captured
<1> QED
  BY <1>4, <1>5, Zenon

\* Two idle devices around two vCPUs.
LEMMA SmpBlkFromCheckpoint ==
  ASSUME NEW c \in SmpBlks
  PROVE  SmpBlkKept(c)
<1> SmpKept(c.ctl)
  <2>1. c.ctl \in Smps
    BY DEF SmpBlks
  <2> QED
    BY <2>1, SmpFromCheckpoint, Zenon
<1> DEFINE f == FromSmp(c.ctl)
           st == [i \in 1..2 |-> Capture(c.devs[i])]
           b == Captured(f, st)
<1>1. c.devs \in Devices \X Devices
  BY DEF SmpBlks
<1>2. /\ (\A i \in 1..2 : Idle(c.devs[i])) => StatesOf(st, c.devs) /\ Rebuilt(st, c.devs)
      /\ ~(\A i \in 1..2 : Idle(c.devs[i])) => \E i \in 1..2 : st[i] = Nothing
  BY <1>1, IdleRebuilt, Zenon
<1>3. FromSmpBlk(c) = IF ValidBars(Bars(c.devs)) THEN Captured(f, st) ELSE Nothing
  BY Zenon DEF FromSmpBlk
<1> HIDE DEF f, st
<1>4. CASE SmpBlkCarried(c)
  <2>1. f \in OwnSmps /\ SmpSound(f) /\ Alike(SmpContents(f), SmpContents(c.ctl)) /\ f # Nothing
    BY <1>4, Zenon DEF SmpBlkCarried, SmpKept, SmpMatches, SmpSound, f
  <2>2. ValidBars(Bars(c.devs)) /\ StatesOf(st, c.devs) /\ Rebuilt(st, c.devs)
    BY <1>2, <1>4, Zenon DEF SmpBlkCarried
  <2>3. CapturedAs(b, f, st, c.devs)
    BY <2>1, <2>2, CapturedTwo, Zenon
  <2> HIDE DEF b
  <2>4. FromSmpBlk(c) = b
    BY <1>3, <2>2, Zenon DEF b
  <2> QED
    BY <1>4, <2>1, <2>2, <2>3, <2>4, Zenon DEF SmpBlkKept, SmpBlkMatches, SmpBlkSound, CapturedAs
<1>5. CASE ~SmpBlkCarried(c)
  <2>1. ~ValidBars(Bars(c.devs)) \/ f = Nothing \/ \E i \in 1..2 : st[i] = Nothing
    BY <1>2, <1>5, Zenon DEF SmpBlkCarried, SmpKept, f
  <2> QED
    BY <1>3, <1>5, <2>1, Zenon DEF SmpBlkKept, Captured
<1> QED
  BY <1>4, <1>5, Zenon

\* Two devices of which one has a completion pending, rebuilt as they were.
LEMMA CompletionRebuilt ==
  ASSUME NEW devs \in Devices \X Devices, ValidBars(Bars(devs)), NEW t
  PROVE  LET st == [i \in 1..2 |-> IF t.bar0 = devs[i].bar0 THEN CaptureCompletion(devs[i], t)
                                   ELSE Capture(devs[i])]
             pending == \E i \in 1..2 : CompletionPending(devs[i], t) /\ Idle(devs[3 - i]) IN
         /\ pending => Names(t, devs) /\ StatesOf(st, devs) /\ CompletionParts(t) /\ Rebuilt(st, devs)
                    /\ \E i \in 1..2 : CompletionInState(t, st[i])
         /\ Names(t, devs) /\ ~pending => \E i \in 1..2 : st[i] = Nothing
<1> DEFINE st == [i \in 1..2 |-> IF t.bar0 = devs[i].bar0 THEN CaptureCompletion(devs[i], t)
                                 ELSE Capture(devs[i])]
           pending == \E i \in 1..2 : CompletionPending(devs[i], t) /\ Idle(devs[3 - i])
<1>1. /\ st = [i \in 1..2 |-> st[i]]
      /\ \A i \in 1..2 : st[i] = IF NamedBy(t, devs[i]) THEN CaptureCompletion(devs[i], t) ELSE Capture(devs[i])
  BY DEF NamedBy
<1> HIDE DEF st
<1>2. devs \in [1..2 -> Devices] /\ OrderedBars(devs)
  BY DEF Devices, ValidBars, Bars, OrderedBars
<1>3. \A i \in 1..2 : 3 - i \in 1..2 /\ 3 - i # i /\ \A k \in 1..2 : k = i \/ k = 3 - i
  OBVIOUS
<1>4. \A i \in 1..2 : NamedBy(t, devs[i]) => ~NamedBy(t, devs[3 - i])
  BY <1>2, <1>3, NamedDevice, Zenon
<1>5. \A i \in 1..2 : devs[i] \in Devices
  BY <1>2
<1>6. \A i \in 1..2 : NamedBy(t, devs[i]) =>
        /\ CompletionPending(devs[i], t) =>
             StateOf(st[i], devs[i]) /\ CompletionInState(t, st[i]) /\ MaterializeDevice(st[i]) = devs[i]
        /\ ~CompletionPending(devs[i], t) => st[i] = Nothing
  <2>1. \A i \in 1..2 : NamedBy(t, devs[i]) => st[i] = CaptureCompletion(devs[i], t)
    BY <1>1, Zenon
  <2>2. \A i \in 1..2 :
          LET s == CaptureCompletion(devs[i], t) IN
          /\ CompletionPending(devs[i], t) =>
               StateOf(s, devs[i]) /\ CompletionInState(t, s) /\ MaterializeDevice(s) = devs[i]
          /\ ~CompletionPending(devs[i], t) => s = Nothing
    BY <1>5, CompletionIs, Zenon
  <2> QED
    BY <2>1, <2>2, Zenon
<1>7. \A i \in 1..2 : ~NamedBy(t, devs[i]) =>
        /\ Idle(devs[i]) => StateOf(st[i], devs[i]) /\ MaterializeDevice(st[i]) = devs[i]
        /\ ~Idle(devs[i]) => st[i] = Nothing
  BY <1>1, <1>5, IdleIs, Zenon
<1>8. ASSUME pending
      PROVE  Names(t, devs) /\ StatesOf(st, devs) /\ CompletionParts(t) /\ Rebuilt(st, devs)
                    /\ \E i \in 1..2 : CompletionInState(t, st[i])
  <2>1. PICK i \in 1..2 : CompletionPending(devs[i], t) /\ Idle(devs[3 - i])
    BY <1>8, Zenon
  <2>2. CompletionParts(t) /\ NamedBy(t, devs[i])
    <3>1. t = TokenOf(devs[i]) /\ CompletionParts(t)
      BY <2>1, Zenon DEF CompletionPending, CompletionOnDevice
    <3>2. TokenOf(devs[i]).bar0 = devs[i].bar0
      BY DEF TokenOf
    <3> QED
      BY <3>1, <3>2, Zenon DEF NamedBy
  <2>3. /\ StateOf(st[i], devs[i]) /\ CompletionInState(t, st[i]) /\ MaterializeDevice(st[i]) = devs[i]
        /\ StateOf(st[3 - i], devs[3 - i]) /\ MaterializeDevice(st[3 - i]) = devs[3 - i]
    BY <1>3, <1>4, <1>6, <1>7, <2>1, <2>2, Zenon
  <2>4. StatesOf(st, devs)
    BY <1>1, <1>3, <2>3, Zenon DEF StatesOf
  <2>5. Names(t, devs)
    BY <2>2, Zenon DEF NamedBy, Names
  <2>6. \A k \in 1..2 : MaterializeDevice(st[k]) = devs[k]
    BY <1>3, <2>3, Zenon
  <2>7. Rebuilt(st, devs)
    BY <1>2, <2>6 DEF Rebuilt
  <2> QED
    BY <2>2, <2>3, <2>4, <2>5, <2>7, Zenon
<1>9. ASSUME Names(t, devs), ~pending
      PROVE  \E i \in 1..2 : st[i] = Nothing
  <2>1. PICK i \in 1..2 : NamedBy(t, devs[i])
    BY <1>9, Zenon DEF Names, NamedBy
  <2> QED
    BY <1>3, <1>4, <1>6, <1>7, <1>9, <2>1, Zenon
<1> QED
  BY <1>8, <1>9, Zenon DEF st

\* Two devices of which one has a notification pending, rebuilt with it.
LEMMA NotificationRebuilt ==
  ASSUME NEW devs \in Devices \X Devices, ValidBars(Bars(devs)), NEW t
  PROVE  LET st == [i \in 1..2 |-> IF t.bar0 = devs[i].bar0 THEN CaptureNotification(devs[i], t)
                                   ELSE Capture(devs[i])]
             pending == \E i \in 1..2 : NotificationPending(devs[i], t) /\ Idle(devs[3 - i]) IN
         /\ pending => Names(t, devs) /\ StatesOf(st, devs) /\ NotificationParts(t) /\ \E k \in 1..2 : NotificationInState(t, st[k]) /\ Notified(st, k) = devs
         /\ Names(t, devs) /\ ~pending => \E i \in 1..2 : st[i] = Nothing
<1> DEFINE st == [i \in 1..2 |-> IF t.bar0 = devs[i].bar0 THEN CaptureNotification(devs[i], t)
                                 ELSE Capture(devs[i])]
           pending == \E i \in 1..2 : NotificationPending(devs[i], t) /\ Idle(devs[3 - i])
<1>1. /\ st = [i \in 1..2 |-> st[i]]
      /\ \A i \in 1..2 : st[i] = IF NamedBy(t, devs[i]) THEN CaptureNotification(devs[i], t) ELSE Capture(devs[i])
  BY DEF NamedBy
<1> HIDE DEF st
<1>2. devs \in [1..2 -> Devices] /\ OrderedBars(devs)
  BY DEF Devices, ValidBars, Bars, OrderedBars
<1>3. \A i \in 1..2 : 3 - i \in 1..2 /\ 3 - i # i /\ \A k \in 1..2 : k = i \/ k = 3 - i
  OBVIOUS
<1>4. \A i \in 1..2 : NamedBy(t, devs[i]) => ~NamedBy(t, devs[3 - i])
  BY <1>2, <1>3, NamedDevice, Zenon
<1>5. \A i \in 1..2 : devs[i] \in Devices
  BY <1>2
<1>6. \A i \in 1..2 : NamedBy(t, devs[i]) =>
        /\ NotificationPending(devs[i], t) =>
             StateOf(st[i], devs[i]) /\ NotificationInState(t, st[i])
               /\ [MaterializeDevice(st[i]) EXCEPT !.notify = TRUE] = devs[i]
        /\ ~NotificationPending(devs[i], t) => st[i] = Nothing
  <2>1. \A i \in 1..2 : NamedBy(t, devs[i]) => st[i] = CaptureNotification(devs[i], t)
    BY <1>1, Zenon
  <2>2. \A i \in 1..2 :
          LET s == CaptureNotification(devs[i], t) IN
          /\ NotificationPending(devs[i], t) =>
               StateOf(s, devs[i]) /\ NotificationInState(t, s) /\ [MaterializeDevice(s) EXCEPT !.notify = TRUE] = devs[i]
          /\ ~NotificationPending(devs[i], t) => s = Nothing
    BY <1>5, NotificationIs, Zenon
  <2> QED
    BY <2>1, <2>2, Zenon
<1>7. \A i \in 1..2 : ~NamedBy(t, devs[i]) =>
        /\ Idle(devs[i]) => StateOf(st[i], devs[i]) /\ MaterializeDevice(st[i]) = devs[i]
        /\ ~Idle(devs[i]) => st[i] = Nothing
  BY <1>1, <1>5, IdleIs, Zenon
<1>8. ASSUME pending
      PROVE  Names(t, devs) /\ StatesOf(st, devs) /\ NotificationParts(t) /\ \E k \in 1..2 : NotificationInState(t, st[k]) /\ Notified(st, k) = devs
  <2>1. PICK i \in 1..2 : NotificationPending(devs[i], t) /\ Idle(devs[3 - i])
    BY <1>8, Zenon
  <2>2. NotificationParts(t) /\ NamedBy(t, devs[i])
    <3>1. t = TokenOf(devs[i]) /\ NotificationParts(t)
      BY <2>1, Zenon DEF NotificationPending, NotificationOnDevice
    <3>2. TokenOf(devs[i]).bar0 = devs[i].bar0
      BY DEF TokenOf
    <3> QED
      BY <3>1, <3>2, Zenon DEF NamedBy
  <2>3. /\ StateOf(st[i], devs[i]) /\ NotificationInState(t, st[i]) /\ [MaterializeDevice(st[i]) EXCEPT !.notify = TRUE] = devs[i]
        /\ StateOf(st[3 - i], devs[3 - i]) /\ MaterializeDevice(st[3 - i]) = devs[3 - i]
    BY <1>3, <1>4, <1>6, <1>7, <2>1, <2>2, Zenon
  <2>4. StatesOf(st, devs)
    BY <1>1, <1>3, <2>3, Zenon DEF StatesOf
  <2>5. Names(t, devs)
    BY <2>2, Zenon DEF NamedBy, Names
  <2>6. \A k \in 1..2 : devs[k] = IF k = i THEN [MaterializeDevice(st[k]) EXCEPT !.notify = TRUE]
                                   ELSE MaterializeDevice(st[k])
    BY <1>3, <2>3, Zenon
  <2>7. Notified(st, i) = devs
    BY <1>2, <2>6 DEF Notified
  <2> QED
    BY <2>2, <2>3, <2>4, <2>5, <2>7, Zenon
<1>9. ASSUME Names(t, devs), ~pending
      PROVE  \E i \in 1..2 : st[i] = Nothing
  <2>1. PICK i \in 1..2 : NamedBy(t, devs[i])
    BY <1>9, Zenon DEF Names, NamedBy
  <2> QED
    BY <1>3, <1>4, <1>6, <1>7, <1>9, <2>1, Zenon
<1> QED
  BY <1>8, <1>9, Zenon DEF st

\* Two devices around two vCPUs, one of them with a completion pending.
LEMMA CompletionFromCheckpoint ==
  ASSUME NEW c \in SmpBlks, NEW t
  PROVE  CompletionKept(c, t)
<1> SmpKept(c.ctl)
  <2>1. c.ctl \in Smps
    BY DEF SmpBlks
  <2> QED
    BY <2>1, SmpFromCheckpoint, Zenon
<1> DEFINE f == FromSmp(c.ctl)
           st == [i \in 1..2 |-> IF t.bar0 = c.devs[i].bar0 THEN CaptureCompletion(c.devs[i], t)
                                 ELSE Capture(c.devs[i])]
           b == Captured(f, st)
           pending == \E i \in 1..2 : CompletionPending(c.devs[i], t) /\ Idle(c.devs[3 - i])
<1>1. c.devs \in Devices \X Devices
  BY DEF SmpBlks
<1>2. ValidBars(Bars(c.devs)) =>
        /\ pending => Names(t, c.devs) /\ StatesOf(st, c.devs) /\ CompletionParts(t)
                     /\ Rebuilt(st, c.devs) /\ \E i \in 1..2 : CompletionInState(t, st[i])
        /\ Names(t, c.devs) /\ ~pending => \E i \in 1..2 : st[i] = Nothing
  BY <1>1, CompletionRebuilt, SMTT(60)
<1>3. FromSmpBlkCompletion(c, t) =
        IF ValidBars(Bars(c.devs)) /\ Names(t, c.devs) THEN Captured(f, st) ELSE Nothing
  BY Zenon DEF FromSmpBlkCompletion
<1>4. SmpBlkPending(c, t, CompletionPending) <=> SmpCarried(c.ctl) /\ ValidBars(Bars(c.devs)) /\ pending
  BY Zenon DEF SmpBlkPending
<1> HIDE DEF f, st, pending
<1>5. CASE SmpBlkPending(c, t, CompletionPending)
  <2>1. f \in OwnSmps /\ SmpSound(f) /\ Alike(SmpContents(f), SmpContents(c.ctl)) /\ f # Nothing
    BY <1>4, <1>5, Zenon DEF SmpKept, SmpMatches, SmpSound, f
  <2>2. ValidBars(Bars(c.devs)) /\ Names(t, c.devs) /\ StatesOf(st, c.devs)
    BY <1>2, <1>4, <1>5, Zenon
  <2>3. CapturedAs(b, f, st, c.devs)
    BY <2>1, <2>2, CapturedTwo, Zenon
  <2> HIDE DEF b
  <2>4. FromSmpBlkCompletion(c, t) = b
    BY <1>3, <2>2, Zenon DEF b
  <2>5. SmpBlkMatches(b, c) /\ b.devs = st
    BY <2>1, <2>3, Zenon DEF SmpBlkMatches, SmpBlkSound, CapturedAs
  <2>6. CompletionParts(t) /\ Rebuilt(st, c.devs) /\ \E i \in 1..2 : CompletionInState(t, st[i])
    BY <1>2, <1>4, <1>5, Zenon
  <2> QED
    BY <1>5, <2>4, <2>5, <2>6, Zenon DEF CompletionKept, CompletionValid
<1>6. CASE ~SmpBlkPending(c, t, CompletionPending)
  <2>1. ~(ValidBars(Bars(c.devs)) /\ Names(t, c.devs)) \/ f = Nothing \/ \E i \in 1..2 : st[i] = Nothing
    BY <1>2, <1>4, <1>6, Zenon DEF SmpKept, f
  <2> QED
    BY <1>3, <1>6, <2>1, Zenon DEF CompletionKept, Captured
<1> QED
  BY <1>5, <1>6, Zenon

\* Two devices around two vCPUs, one of them with a notification pending.
LEMMA NotificationFromCheckpoint ==
  ASSUME NEW c \in SmpBlks, NEW t
  PROVE  NotificationKept(c, t)
<1> SmpKept(c.ctl)
  <2>1. c.ctl \in Smps
    BY DEF SmpBlks
  <2> QED
    BY <2>1, SmpFromCheckpoint, Zenon
<1> DEFINE f == FromSmp(c.ctl)
           st == [i \in 1..2 |-> IF t.bar0 = c.devs[i].bar0 THEN CaptureNotification(c.devs[i], t)
                                 ELSE Capture(c.devs[i])]
           b == Captured(f, st)
           pending == \E i \in 1..2 : NotificationPending(c.devs[i], t) /\ Idle(c.devs[3 - i])
<1>1. c.devs \in Devices \X Devices
  BY DEF SmpBlks
<1>2. ValidBars(Bars(c.devs)) =>
        /\ pending => Names(t, c.devs) /\ StatesOf(st, c.devs) /\ NotificationParts(t)
                     /\ \E k \in 1..2 : NotificationInState(t, st[k]) /\ Notified(st, k) = c.devs
        /\ Names(t, c.devs) /\ ~pending => \E i \in 1..2 : st[i] = Nothing
  BY <1>1, NotificationRebuilt, SMTT(60)
<1>3. FromSmpBlkNotification(c, t) =
        IF ValidBars(Bars(c.devs)) /\ Names(t, c.devs) THEN Captured(f, st) ELSE Nothing
  BY Zenon DEF FromSmpBlkNotification
<1>4. SmpBlkPending(c, t, NotificationPending) <=> SmpCarried(c.ctl) /\ ValidBars(Bars(c.devs)) /\ pending
  BY Zenon DEF SmpBlkPending
<1> HIDE DEF f, st, pending
<1>5. CASE SmpBlkPending(c, t, NotificationPending)
  <2>1. f \in OwnSmps /\ SmpSound(f) /\ Alike(SmpContents(f), SmpContents(c.ctl)) /\ f # Nothing
    BY <1>4, <1>5, Zenon DEF SmpKept, SmpMatches, SmpSound, f
  <2>2. ValidBars(Bars(c.devs)) /\ Names(t, c.devs) /\ StatesOf(st, c.devs)
    BY <1>2, <1>4, <1>5, Zenon
  <2>3. CapturedAs(b, f, st, c.devs)
    BY <2>1, <2>2, CapturedTwo, Zenon
  <2> HIDE DEF b
  <2>4. FromSmpBlkNotification(c, t) = b
    BY <1>3, <2>2, Zenon DEF b
  <2>5. SmpBlkMatches(b, c) /\ b.devs = st
    BY <2>1, <2>3, Zenon DEF SmpBlkMatches, SmpBlkSound, CapturedAs
  <2>6. NotificationParts(t) /\ \E k \in 1..2 : NotificationInState(t, st[k]) /\ Notified(st, k) = c.devs
    BY <1>2, <1>4, <1>5, Zenon
  <2> QED
    BY <1>5, <2>4, <2>5, <2>6, Zenon DEF NotificationKept
<1>6. CASE ~SmpBlkPending(c, t, NotificationPending)
  <2>1. ~(ValidBars(Bars(c.devs)) /\ Names(t, c.devs)) \/ f = Nothing \/ \E i \in 1..2 : st[i] = Nothing
    BY <1>2, <1>4, <1>6, Zenon DEF SmpKept, f
  <2> QED
    BY <1>3, <1>6, <2>1, Zenon DEF NotificationKept, Captured
<1> QED
  BY <1>5, <1>6, Zenon

-----------------------------------------------------------------------------
\* What materialize makes of what from_checkpoint kept

\* What materialize accepts, the host offers the MSRs of.
LEMMA OfferedFull ==
  ASSUME NEW h
  PROVE  /\ \A v : MaterializeVcpu(v, h) # Nothing => MaterializeVcpu(v, h) = v /\ MsrsOffered(v.msrs, h)
         /\ \A c : MaterializePage(c, h) # Nothing => MaterializePage(c, h) = c /\ MsrsOffered(c.vcpu.msrs, h)
         /\ \A c : MaterializeFull(c, h) # Nothing => MaterializeFull(c, h) = c /\ MsrsOffered(c.guest.vcpu.msrs, h)
         /\ \A c : MaterializeSmp(c, h) # Nothing =>
              /\ MaterializeSmp(c, h) = c
              /\ MsrsOffered(c.primary.vcpu.msrs, h) /\ MsrsOffered(c.secondary.msrs, h)
<1>1. \A v : MaterializeVcpu(v, h) # Nothing => MaterializeVcpu(v, h) = v /\ MsrsOffered(v.msrs, h)
  BY Zenon DEF MaterializeVcpu
<1>2. \A c : MaterializePage(c, h) # Nothing => MaterializePage(c, h) = c /\ MsrsOffered(c.vcpu.msrs, h)
  BY <1>1, Zenon DEF MaterializePage
<1>3. \A c : MaterializeFull(c, h) # Nothing => MaterializeFull(c, h) = c /\ MsrsOffered(c.guest.vcpu.msrs, h)
  BY <1>2, Zenon DEF MaterializeFull
<1>4. \A c : MaterializeSmp(c, h) # Nothing =>
        /\ MaterializeSmp(c, h) = c
        /\ MsrsOffered(c.primary.vcpu.msrs, h) /\ MsrsOffered(c.secondary.msrs, h)
  BY <1>1, <1>2, Zenon DEF MaterializeSmp
<1> QED
  BY <1>1, <1>2, <1>3, <1>4, Zenon

\* The same with devices.
LEMMA OfferedBlk ==
  ASSUME NEW h, NEW c
  PROVE  /\ MaterializeBlk(c, h) # Nothing \/ MaterializeTwoBlk(c, h) # Nothing =>
              MsrsOffered(c.ctl.guest.vcpu.msrs, h)
         /\ MaterializeSmpBlk(c, h) # Nothing \/ (\E t : MaterializeSmpBlkNotified(c, h, t) # Nothing) =>
              MsrsOffered(c.ctl.primary.vcpu.msrs, h) /\ MsrsOffered(c.ctl.secondary.msrs, h)
<1>1. MaterializeBlk(c, h) # Nothing => MaterializeFull(c.ctl, h) # Nothing
  BY Zenon DEF MaterializeBlk
<1>2. MaterializeTwoBlk(c, h) # Nothing => MaterializeFull(c.ctl, h) # Nothing
  BY Zenon DEF MaterializeTwoBlk, Captured
<1>3. MaterializeSmpBlk(c, h) # Nothing => MaterializeSmp(c.ctl, h) # Nothing
  BY Zenon DEF MaterializeSmpBlk, Captured
<1>4. \A t : MaterializeSmpBlkNotified(c, h, t) # Nothing => MaterializeSmp(c.ctl, h) # Nothing
  BY Zenon DEF MaterializeSmpBlkNotified, Captured
<1> QED
  BY <1>1, <1>2, <1>3, <1>4, OfferedFull, Zenon

\* A device and the controllers around it come back as they were captured.
LEMMA BlkReturns ==
  ASSUME NEW c, NEW s, BlkMatches(s, c), NEW h, MaterializeBlk(s, h) # Nothing
  PROVE  MaterializeBlk(s, h) = [ctl |-> s.ctl, bar0 |-> c.bar0, dev |-> c.dev]
<1>1. BlkSound(s) /\ MsrsOffered(s.ctl.guest.vcpu.msrs, h)
  BY OfferedBlk, Zenon DEF BlkMatches
<1>2. MaterializeBlk(s, h) = [ctl |-> s.ctl, bar0 |-> MaterializeDevice(s.dev).bar0, dev |-> MaterializeDevice(s.dev)]
  BY <1>1, BlkSupported, Zenon
<1>3. MaterializeDevice(s.dev) = c.dev /\ MaterializeDevice(s.dev).bar0 = c.bar0
  BY Zenon DEF BlkMatches
<1> QED
  BY <1>2, <1>3, Zenon

\* Two devices and the controllers around one vCPU.
LEMMA TwoBlkReturns ==
  ASSUME NEW c, NEW s, TwoBlkMatches(s, c), NEW h, MaterializeTwoBlk(s, h) # Nothing
  PROVE  MaterializeTwoBlk(s, h) = [ctl |-> s.ctl, devs |-> c.devs]
<1>1. FullSound(s.ctl) /\ DevicesSound(s.devs) /\ MsrsOffered(s.ctl.guest.vcpu.msrs, h)
  BY OfferedBlk, Zenon DEF TwoBlkMatches
<1>2. MaterializeTwoBlk(s, h) = [ctl |-> s.ctl, devs |-> [i \in 1..2 |-> MaterializeDevice(s.devs[i])]]
  BY <1>1, TwoBlkSupported, Zenon
<1> QED
  BY <1>2, Zenon DEF TwoBlkMatches, Rebuilt

\* Two devices and the controllers around two vCPUs.
LEMMA SmpBlkReturns ==
  ASSUME NEW c, NEW s, SmpBlkMatches(s, c), Rebuilt(s.devs, c.devs), NEW h, MaterializeSmpBlk(s, h) # Nothing
  PROVE  MaterializeSmpBlk(s, h) = [ctl |-> s.ctl, devs |-> c.devs]
<1>1. /\ SmpSound(s.ctl) /\ DevicesSound(s.devs)
      /\ MsrsOffered(s.ctl.primary.vcpu.msrs, h) /\ MsrsOffered(s.ctl.secondary.msrs, h)
  BY OfferedBlk, Zenon DEF SmpBlkMatches, SmpBlkSound
<1>2. MaterializeSmpBlk(s, h) = [ctl |-> s.ctl, devs |-> [i \in 1..2 |-> MaterializeDevice(s.devs[i])]]
  BY <1>1, SmpBlkSupported, Zenon
<1> QED
  BY <1>2, Zenon DEF Rebuilt

\* The devices of the versioned form are at the doorbells of the captured ones.
LEMMA StillBound ==
  ASSUME NEW c, NEW s, SameBars(s, c), NEW p
  PROVE  Bound(s, p) <=> Bound(c, p)
BY Zenon DEF Bound, SameBars
\* A transaction whose completion is pending comes back as it was captured.
LEMMA CompletionReturns ==
  ASSUME NEW c, NEW b, NEW p, NEW t, SmpBlkMatches(b, c), Rebuilt(b.devs, c.devs), Bound(c.devs, p), p \in Pairs,
         CompletionParts(t), CompletionValid(b, t),
         NEW h, MaterializeCompletionTx([cp |-> b, regs |-> p, token |-> t], h) # Nothing
  PROVE  MaterializeCompletionTx([cp |-> b, regs |-> p, token |-> t], h)
           = [cp |-> [ctl |-> b.ctl, devs |-> c.devs], regs |-> p, token |-> t]
<1> DEFINE x == [cp |-> b, regs |-> p, token |-> t]
           ds == [i \in 1..2 |-> MaterializeDevice(b.devs[i])]
<1>1. x.cp = b /\ x.regs = p
  OBVIOUS
<1>2. ValidTx(x)
  <2>1. ValidPair(p) /\ Bound(b.devs, p)
    BY StillBound, Zenon DEF Pairs, SmpBlkMatches
  <2> HIDE DEF x
  <2> QED
    BY <1>1, <2>1, Zenon DEF ValidTx
<1>3. MaterializeSmpBlk(b, h) # Nothing
  <2>1. MaterializeSmpBlk(x.cp, h) = Nothing => MaterializeCompletionTx(x, h) = Nothing
    BY Zenon DEF MaterializeCompletionTx
  <2> HIDE DEF x
  <2> QED
    BY <1>1, <2>1, Zenon DEF x
<1>4. /\ SmpSound(b.ctl) /\ DevicesSound(b.devs)
      /\ MsrsOffered(b.ctl.primary.vcpu.msrs, h) /\ MsrsOffered(b.ctl.secondary.msrs, h)
  BY <1>3, OfferedBlk, Zenon DEF SmpBlkMatches, SmpBlkSound
<1>5. MaterializeCompletionTx([cp |-> b, regs |-> p, token |-> t], h)
        = [cp |-> [ctl |-> b.ctl, devs |-> ds], regs |-> p, token |-> t]
  BY <1>2, <1>4, CompletionTxSupported, Zenon
<1> QED
  BY <1>5, Zenon DEF Rebuilt

\* A transaction with a notification pending comes back as it was captured,
\* the notification included.
LEMMA NotificationReturns ==
  ASSUME NEW c, NEW b, NEW p, NEW t, SmpBlkMatches(b, c), Bound(c.devs, p), p \in Pairs, NotificationParts(t),
         NEW k \in 1..2, NotificationInState(t, b.devs[k]), Alike(Notified(b.devs, k), c.devs),
         NEW h, MaterializeNotificationTx([cp |-> b, regs |-> p, token |-> t], h) # Nothing
  PROVE  MaterializeNotificationTx([cp |-> b, regs |-> p, token |-> t], h)
           = [cp |-> [ctl |-> b.ctl, devs |-> c.devs], regs |-> p, token |-> t]
<1> DEFINE x == [cp |-> b, regs |-> p, token |-> t]
<1>1. x.cp = b /\ x.regs = p
  OBVIOUS
<1>2. ValidTx(x)
  <2>1. ValidPair(p) /\ Bound(b.devs, p)
    BY StillBound, Zenon DEF Pairs, SmpBlkMatches
  <2> HIDE DEF x
  <2> QED
    BY <1>1, <2>1, Zenon DEF ValidTx
<1>3. MaterializeSmpBlkNotified(b, h, x.token) # Nothing
  <2>1. MaterializeSmpBlkNotified(x.cp, h, x.token) = Nothing => MaterializeNotificationTx(x, h) = Nothing
    BY Zenon DEF MaterializeNotificationTx
  <2> HIDE DEF x
  <2> QED
    BY <1>1, <2>1, Zenon DEF x
<1>4. /\ SmpSound(b.ctl) /\ DevicesSound(b.devs)
      /\ MsrsOffered(b.ctl.primary.vcpu.msrs, h) /\ MsrsOffered(b.ctl.secondary.msrs, h)
  BY <1>3, OfferedBlk, Zenon DEF SmpBlkMatches, SmpBlkSound
<1>5. MaterializeNotificationTx([cp |-> b, regs |-> p, token |-> t], h)
        = [cp |-> [ctl |-> b.ctl, devs |-> Notified(b.devs, k)], regs |-> p, token |-> t]
  BY <1>2, <1>4, NotificationTxSupported, ZenonT(60)
<1> QED
  BY <1>5, Zenon DEF Alike

-----------------------------------------------------------------------------
\* Every format

\* from_checkpoint of each format.
LEMMA VersionedIs ==
  ASSUME NEW x
  PROVE  /\ Versioned("vcpu", x) = FromVcpu(x)
         /\ Versioned("page", x) = FromPage(x)
         /\ Versioned("full", x) = FromFull(x)
         /\ Versioned("smp", x) = FromSmp(x)
         /\ Versioned("blk", x) = FromBlk(x)
         /\ Versioned("twoBlk", x) = FromTwoBlk(x)
         /\ Versioned("smpBlk", x) = FromSmpBlk(x)
         /\ Versioned("pair", x) = x
         /\ Versioned("tx", x) = FromTx(x.cp, x.regs[1])
         /\ Versioned("twoTx", x) = FromTwoTx(x.cp, x.regs)
         /\ Versioned("smpTx", x) = FromSmpTx(x.cp, x.regs)
         /\ Versioned("smpTx2", x) = FromCompletionTx(x.cp, x.regs, x.token)
         /\ Versioned("smpTx3", x) = FromNotificationTx(x.cp, x.regs, x.token)
BY DEF Versioned

\* materialize of each format.
LEMMA MaterializeIs ==
  ASSUME NEW x, NEW h
  PROVE  /\ Materialize("vcpu", x, h) = MaterializeVcpu(x, h)
         /\ Materialize("page", x, h) = MaterializePage(x, h)
         /\ Materialize("full", x, h) = MaterializeFull(x, h)
         /\ Materialize("smp", x, h) = MaterializeSmp(x, h)
         /\ Materialize("blk", x, h) = MaterializeBlk(x, h)
         /\ Materialize("twoBlk", x, h) = MaterializeTwoBlk(x, h)
         /\ Materialize("smpBlk", x, h) = MaterializeSmpBlk(x, h)
         /\ Materialize("tx", x, h) = MaterializeTx(x, h)
         /\ Materialize("twoTx", x, h) = MaterializeTwoTx(x, h)
         /\ Materialize("smpTx", x, h) = MaterializeSmpTx(x, h)
         /\ Materialize("smpTx2", x, h) = MaterializeCompletionTx(x, h)
         /\ Materialize("smpTx3", x, h) = MaterializeNotificationTx(x, h)
         /\ Materialize("pair", x, h) = IF ValidPair(x.regs) THEN x ELSE Nothing
BY DEF Materialize

\* The captured checkpoints of each format.
LEMMA CapturesIs ==
  /\ Captures("vcpu") = Vcpus /\ Captures("page") = PageSets /\ Captures("full") = Fulls /\ Captures("smp") = Smps
  /\ Captures("blk") = Blks /\ Captures("twoBlk") = TwoBlks /\ Captures("smpBlk") = SmpBlks
  /\ Captures("pair") = [regs : Pairs]
  /\ Captures("tx") = [cp : Blks, regs : [1..1 -> Specs]]
  /\ Captures("twoTx") = [cp : TwoBlks, regs : Pairs]
  /\ Captures("smpTx") = [cp : SmpBlks, regs : Pairs]
  /\ Captures("smpTx2") = [cp : SmpBlks, regs : Pairs, token : Tokens]
  /\ Captures("smpTx3") = [cp : SmpBlks, regs : Pairs, token : Tokens]
BY DEF Captures

\* The versioned checkpoints of each format.
LEMMA VersionsIs ==
  /\ Versions("vcpu") = Vcpus /\ Versions("page") = PageSets /\ Versions("full") = Fulls /\ Versions("smp") = OwnSmps
  /\ Versions("blk") = BlkStates /\ Versions("twoBlk") = TwoBlkStates /\ Versions("smpBlk") = SmpBlkStates
  /\ Versions("pair") = [regs : Pairs]
  /\ Versions("tx") = [cp : BlkStates, regs : [1..1 -> Specs]]
  /\ Versions("twoTx") = [cp : TwoBlkStates, regs : Pairs]
  /\ Versions("smpTx") = [cp : SmpBlkStates, regs : Pairs]
  /\ Versions("smpTx2") = [cp : SmpBlkStates, regs : Pairs, token : Tokens]
  /\ Versions("smpTx3") = [cp : SmpBlkStates, regs : Pairs, token : Tokens]
BY DEF Versions

\* What each format carries.
LEMMA CarriedIs ==
  ASSUME NEW x
  PROVE  /\ Carried("vcpu", x) <=> VcpuCarried(x)
         /\ Carried("page", x) <=> PageCarried(x)
         /\ Carried("full", x) <=> FullCarried(x)
         /\ Carried("smp", x) <=> SmpCarried(x)
         /\ Carried("blk", x) <=> BlkCarried(x)
         /\ Carried("twoBlk", x) <=> TwoBlkCarried(x)
         /\ Carried("smpBlk", x) <=> SmpBlkCarried(x)
         /\ Carried("pair", x)
         /\ Carried("tx", x) <=> BlkCarried(x.cp)
         /\ Carried("twoTx", x) <=> TwoBlkCarried(x.cp)
         /\ Carried("smpTx", x) <=> SmpBlkCarried(x.cp) /\ Bound(x.cp.devs, x.regs)
         /\ Carried("smpTx2", x) <=> SmpBlkPending(x.cp, x.token, CompletionPending) /\ Bound(x.cp.devs, x.regs)
         /\ Carried("smpTx3", x) <=> SmpBlkPending(x.cp, x.token, NotificationPending) /\ Bound(x.cp.devs, x.regs)
BY DEF Carried

\* What decode of each format makes sure of.
LEMMA SoundIs ==
  ASSUME NEW x
  PROVE  /\ Sound("vcpu", x) <=> VcpuSound(x)
         /\ Sound("page", x) <=> PageSound(x)
         /\ Sound("full", x) <=> FullSound(x)
         /\ Sound("smp", x) <=> SmpSound(x)
         /\ Sound("blk", x) <=> BlkSound(x)
         /\ Sound("twoBlk", x) <=> TwoBlkSound(x)
         /\ Sound("smpBlk", x) <=> SmpBlkSound(x)
         /\ Sound("pair", x) <=> ValidPair(x.regs)
         /\ Sound("tx", x) <=> BlkSound(x.cp)
         /\ Sound("twoTx", x) <=> TwoBlkSound(x.cp) /\ ValidPair(x.regs)
         /\ Sound("smpTx", x) <=> SmpBlkSound(x.cp) /\ ValidTx(x)
         /\ Sound("smpTx2", x) <=> SmpBlkSound(x.cp) /\ ValidTx(x) /\ IsTokenTx(x) /\ CompletionSound(x)
         /\ Sound("smpTx3", x) <=> SmpBlkSound(x.cp) /\ ValidTx(x) /\ IsTokenTx(x) /\ NotificationSound(x)
BY DEF Sound
\* What decode makes sure of is all that materialize checks, the MSRs of the
\* host apart (materialize of every format).
THEOREM Supported ==
  ASSUME NEW f \in Formats, NEW x, x # Nothing, Sound(f, x), NEW h, MsrsNeeded(f, x) \subseteq h
  PROVE  Materialize(f, x, h) # Nothing
<1> DEFINE Goal(g) == Sound(g, x) /\ MsrsNeeded(g, x) \subseteq h => Materialize(g, x, h) # Nothing
<1>1. Goal("vcpu")
  <2> SUFFICES ASSUME Sound("vcpu", x), MsrsNeeded("vcpu", x) \subseteq h
               PROVE  MaterializeVcpu(x, h) # Nothing
    BY MaterializeIs, Zenon
  <2>1. VcpuSound(x)
    BY SoundIs, Zenon
  <2>2. MsrsOffered(x.msrs, h)
    BY NeededIs, Zenon
  <2> QED
    BY <2>1, <2>2, VcpuSupported, Zenon
<1>2. Goal("page")
  <2> SUFFICES ASSUME Sound("page", x), MsrsNeeded("page", x) \subseteq h
               PROVE  MaterializePage(x, h) # Nothing
    BY MaterializeIs, Zenon
  <2>1. PageSound(x)
    BY SoundIs, Zenon
  <2>2. MsrsOffered(x.vcpu.msrs, h)
    BY NeededIs, Zenon
  <2> QED
    BY <2>1, <2>2, PageSupported, Zenon
<1>3. Goal("full")
  <2> SUFFICES ASSUME Sound("full", x), MsrsNeeded("full", x) \subseteq h
               PROVE  MaterializeFull(x, h) # Nothing
    BY MaterializeIs, Zenon
  <2>1. FullSound(x)
    BY SoundIs, Zenon
  <2>2. MsrsOffered(x.guest.vcpu.msrs, h)
    BY NeededIs, Zenon
  <2> QED
    BY <2>1, <2>2, FullSupported, Zenon
<1>4. Goal("smp")
  <2> SUFFICES ASSUME Sound("smp", x), MsrsNeeded("smp", x) \subseteq h
               PROVE  MaterializeSmp(x, h) # Nothing
    BY MaterializeIs, Zenon
  <2>1. SmpSound(x)
    BY SoundIs, Zenon
  <2>2. MsrsOffered(x.primary.vcpu.msrs, h) /\ MsrsOffered(x.secondary.msrs, h)
    BY NeededIs, Zenon
  <2> QED
    BY <2>1, <2>2, SmpSupported, Zenon
<1>5. Goal("blk")
  <2> SUFFICES ASSUME Sound("blk", x), MsrsNeeded("blk", x) \subseteq h
               PROVE  MaterializeBlk(x, h) # Nothing
    BY MaterializeIs, Zenon
  <2>1. BlkSound(x)
    BY SoundIs, Zenon
  <2>2. MsrsOffered(x.ctl.guest.vcpu.msrs, h)
    BY NeededIs, Zenon
  <2> QED
    BY <2>1, <2>2, BlkSupported, Zenon
<1>6. Goal("twoBlk")
  <2> SUFFICES ASSUME Sound("twoBlk", x), MsrsNeeded("twoBlk", x) \subseteq h
               PROVE  MaterializeTwoBlk(x, h) # Nothing
    BY MaterializeIs, Zenon
  <2>1. FullSound(x.ctl) /\ DevicesSound(x.devs)
    BY SoundIs, Zenon DEF TwoBlkSound
  <2>2. MsrsOffered(x.ctl.guest.vcpu.msrs, h)
    BY NeededIs, Zenon
  <2> QED
    BY <2>1, <2>2, TwoBlkSupported, Zenon
<1>7. Goal("smpBlk")
  <2> SUFFICES ASSUME Sound("smpBlk", x), MsrsNeeded("smpBlk", x) \subseteq h
               PROVE  MaterializeSmpBlk(x, h) # Nothing
    BY MaterializeIs, Zenon
  <2>1. SmpSound(x.ctl) /\ DevicesSound(x.devs)
    BY SoundIs, Zenon DEF SmpBlkSound
  <2>2. MsrsOffered(x.ctl.primary.vcpu.msrs, h) /\ MsrsOffered(x.ctl.secondary.msrs, h)
    BY NeededIs, Zenon
  <2> QED
    BY <2>1, <2>2, SmpBlkSupported, Zenon
<1>8. Goal("tx")
  <2> SUFFICES ASSUME Sound("tx", x), MsrsNeeded("tx", x) \subseteq h
               PROVE  MaterializeTx(x, h) # Nothing
    BY MaterializeIs, Zenon
  <2>1. BlkSound(x.cp)
    BY SoundIs, Zenon
  <2>2. MsrsOffered(x.cp.ctl.guest.vcpu.msrs, h)
    BY NeededIs, Zenon
  <2> QED
    BY <2>1, <2>2, TxSupported, Zenon
<1>9. Goal("twoTx")
  <2> SUFFICES ASSUME Sound("twoTx", x), MsrsNeeded("twoTx", x) \subseteq h
               PROVE  MaterializeTwoTx(x, h) # Nothing
    BY MaterializeIs, Zenon
  <2>1. FullSound(x.cp.ctl) /\ DevicesSound(x.cp.devs) /\ ValidPair(x.regs)
    BY SoundIs, Zenon DEF TwoBlkSound
  <2>2. MsrsOffered(x.cp.ctl.guest.vcpu.msrs, h)
    BY NeededIs, Zenon
  <2> QED
    BY <2>1, <2>2, TwoTxSupported, Zenon
<1>10. Goal("smpTx")
  <2> SUFFICES ASSUME Sound("smpTx", x), MsrsNeeded("smpTx", x) \subseteq h
               PROVE  MaterializeSmpTx(x, h) # Nothing
    BY MaterializeIs, Zenon
  <2>1. SmpSound(x.cp.ctl) /\ DevicesSound(x.cp.devs) /\ ValidTx(x)
    BY SoundIs, Zenon DEF SmpBlkSound
  <2>2. MsrsOffered(x.cp.ctl.primary.vcpu.msrs, h) /\ MsrsOffered(x.cp.ctl.secondary.msrs, h)
    BY NeededIs, Zenon
  <2> QED
    BY <2>1, <2>2, SmpTxSupported, Zenon
<1>11. Goal("smpTx2")
  <2> SUFFICES ASSUME Sound("smpTx2", x), MsrsNeeded("smpTx2", x) \subseteq h
               PROVE  MaterializeCompletionTx(x, h) # Nothing
    BY MaterializeIs, Zenon
  <2> DEFINE b == x.cp
             p == x.regs
             t == x.token
             ds == [i \in 1..2 |-> MaterializeDevice(b.devs[i])]
  <2>1. SmpBlkSound(b) /\ ValidTx(x) /\ IsTokenTx(x) /\ CompletionParts(t) /\ CompletionValid(b, t)
    BY SoundIs, Zenon DEF CompletionSound
  <2>2. MsrsOffered(b.ctl.primary.vcpu.msrs, h) /\ MsrsOffered(b.ctl.secondary.msrs, h)
    BY NeededIs, Zenon
  <2>3. Alike(x, [cp |-> b, regs |-> p, token |-> t])
    BY <2>1, Zenon DEF IsTokenTx, Alike
  <2> HIDE DEF b, p, t
  <2>4. ValidTx([cp |-> b, regs |-> p, token |-> t])
    BY <2>1, <2>3, Zenon DEF Alike
  <2>5. SmpSound(b.ctl) /\ DevicesSound(b.devs)
    BY <2>1, Zenon DEF SmpBlkSound
  <2>6. MaterializeCompletionTx([cp |-> b, regs |-> p, token |-> t], h)
          = [cp |-> [ctl |-> b.ctl, devs |-> ds], regs |-> p, token |-> t]
    BY <2>1, <2>2, <2>4, <2>5, CompletionTxSupported, Zenon
  <2>7. [cp |-> [ctl |-> b.ctl, devs |-> ds], regs |-> p, token |-> t] # Nothing
    BY DEF Nothing
  <2> QED
    BY <2>3, <2>6, <2>7, Zenon DEF Alike
<1>12. Goal("smpTx3")
  <2> SUFFICES ASSUME Sound("smpTx3", x), MsrsNeeded("smpTx3", x) \subseteq h
               PROVE  MaterializeNotificationTx(x, h) # Nothing
    BY MaterializeIs, Zenon
  <2> DEFINE b == x.cp
             p == x.regs
             t == x.token
  <2>1. SmpBlkSound(b) /\ ValidTx(x) /\ IsTokenTx(x) /\ NotificationParts(t) /\ NotificationValid(b, t)
    BY SoundIs, Zenon DEF NotificationSound
  <2>2. MsrsOffered(b.ctl.primary.vcpu.msrs, h) /\ MsrsOffered(b.ctl.secondary.msrs, h)
    BY NeededIs, Zenon
  <2>3. Alike(x, [cp |-> b, regs |-> p, token |-> t])
    BY <2>1, Zenon DEF IsTokenTx, Alike
  <2> HIDE DEF b, p, t
  <2>4. ValidTx([cp |-> b, regs |-> p, token |-> t])
    BY <2>1, <2>3, Zenon DEF Alike
  <2>5. SmpSound(b.ctl) /\ DevicesSound(b.devs)
    BY <2>1, Zenon DEF SmpBlkSound
  <2>6. PICK k \in 1..2 : NotificationInState(t, b.devs[k])
    BY <2>1, Zenon DEF NotificationValid
  <2>7. MaterializeNotificationTx([cp |-> b, regs |-> p, token |-> t], h)
          = [cp |-> [ctl |-> b.ctl, devs |-> Notified(b.devs, k)], regs |-> p, token |-> t]
    BY <2>1, <2>2, <2>4, <2>5, <2>6, NotificationTxSupported, Zenon
  <2>8. [cp |-> [ctl |-> b.ctl, devs |-> Notified(b.devs, k)], regs |-> p, token |-> t] # Nothing
    BY DEF Nothing
  <2> QED
    BY <2>3, <2>7, <2>8, Zenon DEF Alike
<1>13. Goal("pair")
  <2>1. Sound("pair", x) => Materialize("pair", x, h) = x
    BY SoundIs, MaterializeIs, Zenon
  <2> QED
    BY <2>1, SoundIs, Zenon
<1> HIDE DEF Goal
<1>14. Goal(f)
  BY <1>1, <1>2, <1>3, <1>4, <1>5, <1>6, <1>7, <1>8, <1>9, <1>10, <1>11, <1>12, <1>13, Zenon DEF Formats
<1> QED
  BY <1>14, Zenon DEF Goal
\* The contents of each format, part by part.
LEMMA ContentsIs ==
  /\ \A x : /\ Contents("vcpu", x) = VcpuContents(x) /\ Contents("page", x) = PageContents(x)
            /\ Contents("full", x) = FullContents(x) /\ Contents("smp", x) = SmpContents(x)
            /\ Contents("pair", x) = x
  /\ \A a, b, d : Contents("blk", [ctl |-> a, bar0 |-> b, dev |-> d]) = [ctl |-> FullContents(a), bar0 |-> b, dev |-> d]
  /\ \A a, d : /\ Contents("twoBlk", [ctl |-> a, devs |-> d]) = [ctl |-> FullContents(a), devs |-> d]
               /\ Contents("smpBlk", [ctl |-> a, devs |-> d]) = [ctl |-> SmpContents(a), devs |-> d]
  /\ \A a, b, d, r : Contents("tx", [cp |-> [ctl |-> a, bar0 |-> b, dev |-> d], regs |-> r])
                       = [cp |-> [ctl |-> FullContents(a), bar0 |-> b, dev |-> d], regs |-> r]
  /\ \A a, d, r : /\ Contents("twoTx", [cp |-> [ctl |-> a, devs |-> d], regs |-> r])
                       = [cp |-> [ctl |-> FullContents(a), devs |-> d], regs |-> r]
                  /\ Contents("smpTx", [cp |-> [ctl |-> a, devs |-> d], regs |-> r])
                       = [cp |-> [ctl |-> SmpContents(a), devs |-> d], regs |-> r]
  /\ \A a, d, r, t, f : f \in {"smpTx2", "smpTx3"} =>
       Contents(f, [cp |-> [ctl |-> a, devs |-> d], regs |-> r, token |-> t])
         = [cp |-> [ctl |-> SmpContents(a), devs |-> d], regs |-> r, token |-> t]
<1>1. \A x : /\ Contents("vcpu", x) = VcpuContents(x) /\ Contents("page", x) = PageContents(x)
             /\ Contents("full", x) = FullContents(x) /\ Contents("smp", x) = SmpContents(x)
             /\ Contents("pair", x) = x
  BY DEF Contents
<1>2. \A x : /\ Contents("blk", x) = [x EXCEPT !.ctl = FullContents(x.ctl)]
             /\ Contents("twoBlk", x) = [x EXCEPT !.ctl = FullContents(x.ctl)]
             /\ Contents("smpBlk", x) = [x EXCEPT !.ctl = SmpContents(x.ctl)]
             /\ Contents("tx", x) = [x EXCEPT !.cp = [x.cp EXCEPT !.ctl = FullContents(x.cp.ctl)]]
             /\ Contents("twoTx", x) = [x EXCEPT !.cp = [x.cp EXCEPT !.ctl = FullContents(x.cp.ctl)]]
             /\ \A f \in {"smpTx", "smpTx2", "smpTx3"} :
                  Contents(f, x) = [x EXCEPT !.cp = [x.cp EXCEPT !.ctl = SmpContents(x.cp.ctl)]]
  BY DEF Contents
<1>3. \A a, b, d : Contents("blk", [ctl |-> a, bar0 |-> b, dev |-> d]) = [ctl |-> FullContents(a), bar0 |-> b, dev |-> d]
  <2> TAKE a, b, d
  <2> DEFINE x == [ctl |-> a, bar0 |-> b, dev |-> d]
  <2>1. x.ctl = a /\ \A g : [x EXCEPT !.ctl = g] = [ctl |-> g, bar0 |-> b, dev |-> d]
    OBVIOUS
  <2> HIDE DEF x
  <2>2. Contents("blk", x) = [ctl |-> FullContents(a), bar0 |-> b, dev |-> d]
    BY <1>2, <2>1, Zenon
  <2> QED
    BY <2>2, Zenon DEF x
<1>4. \A a, d : /\ Contents("twoBlk", [ctl |-> a, devs |-> d]) = [ctl |-> FullContents(a), devs |-> d]
                /\ Contents("smpBlk", [ctl |-> a, devs |-> d]) = [ctl |-> SmpContents(a), devs |-> d]
  <2> TAKE a, d
  <2> DEFINE x == [ctl |-> a, devs |-> d]
  <2>1. x.ctl = a /\ \A g : [x EXCEPT !.ctl = g] = [ctl |-> g, devs |-> d]
    OBVIOUS
  <2> HIDE DEF x
  <2>2. Contents("twoBlk", x) = [ctl |-> FullContents(a), devs |-> d] /\ Contents("smpBlk", x) = [ctl |-> SmpContents(a), devs |-> d]
    BY <1>2, <2>1, Zenon
  <2> QED
    BY <2>2, Zenon DEF x
<1>5. \A a, b, d, r : Contents("tx", [cp |-> [ctl |-> a, bar0 |-> b, dev |-> d], regs |-> r])
                        = [cp |-> [ctl |-> FullContents(a), bar0 |-> b, dev |-> d], regs |-> r]
  <2> TAKE a, b, d, r
  <2> DEFINE c == [ctl |-> a, bar0 |-> b, dev |-> d]
             x == [cp |-> c, regs |-> r]
  <2>1. c.ctl = a /\ \A g : [c EXCEPT !.ctl = g] = [ctl |-> g, bar0 |-> b, dev |-> d]
    OBVIOUS
  <2> HIDE DEF c
  <2>2. x.cp = c /\ \A g : [x EXCEPT !.cp = g] = [cp |-> g, regs |-> r]
    OBVIOUS
  <2> HIDE DEF x
  <2>3. Contents("tx", x) = [x EXCEPT !.cp = [c EXCEPT !.ctl = FullContents(c.ctl)]]
    BY <1>2, <2>2, Zenon
  <2>4. Contents("tx", x) = [cp |-> [ctl |-> FullContents(a), bar0 |-> b, dev |-> d], regs |-> r]
    BY <2>1, <2>2, <2>3, Zenon
  <2> QED
    BY <2>4, Zenon DEF c, x
<1>6. \A a, d, r : /\ Contents("twoTx", [cp |-> [ctl |-> a, devs |-> d], regs |-> r])
                        = [cp |-> [ctl |-> FullContents(a), devs |-> d], regs |-> r]
                   /\ Contents("smpTx", [cp |-> [ctl |-> a, devs |-> d], regs |-> r])
                        = [cp |-> [ctl |-> SmpContents(a), devs |-> d], regs |-> r]
  <2> TAKE a, d, r
  <2> DEFINE c == [ctl |-> a, devs |-> d]
             x == [cp |-> c, regs |-> r]
  <2>1. c.ctl = a /\ \A g : [c EXCEPT !.ctl = g] = [ctl |-> g, devs |-> d]
    OBVIOUS
  <2> HIDE DEF c
  <2>2. x.cp = c /\ \A g : [x EXCEPT !.cp = g] = [cp |-> g, regs |-> r]
    OBVIOUS
  <2> HIDE DEF x
  <2>3. /\ Contents("twoTx", x) = [x EXCEPT !.cp = [c EXCEPT !.ctl = FullContents(c.ctl)]]
        /\ Contents("smpTx", x) = [x EXCEPT !.cp = [c EXCEPT !.ctl = SmpContents(c.ctl)]]
    BY <1>2, <2>2, Zenon
  <2>4. /\ Contents("twoTx", x) = [cp |-> [ctl |-> FullContents(a), devs |-> d], regs |-> r]
        /\ Contents("smpTx", x) = [cp |-> [ctl |-> SmpContents(a), devs |-> d], regs |-> r]
    BY <2>1, <2>2, <2>3, Zenon
  <2> QED
    BY <2>4, Zenon DEF c, x
<1>7. \A a, d, r, t, f : f \in {"smpTx2", "smpTx3"} =>
        Contents(f, [cp |-> [ctl |-> a, devs |-> d], regs |-> r, token |-> t])
          = [cp |-> [ctl |-> SmpContents(a), devs |-> d], regs |-> r, token |-> t]
  <2> TAKE a, d, r, t, f
  <2> DEFINE c == [ctl |-> a, devs |-> d]
             x == [cp |-> c, regs |-> r, token |-> t]
  <2>1. c.ctl = a /\ \A g : [c EXCEPT !.ctl = g] = [ctl |-> g, devs |-> d]
    OBVIOUS
  <2> HIDE DEF c
  <2>2. x.cp = c /\ \A g : [x EXCEPT !.cp = g] = [cp |-> g, regs |-> r, token |-> t]
    OBVIOUS
  <2> HIDE DEF x
  <2>3. f \in {"smpTx2", "smpTx3"} => Contents(f, x) = [x EXCEPT !.cp = [c EXCEPT !.ctl = SmpContents(c.ctl)]]
    BY <1>2, <2>2, Zenon
  <2>4. f \in {"smpTx2", "smpTx3"} =>
          Contents(f, x) = [cp |-> [ctl |-> SmpContents(a), devs |-> d], regs |-> r, token |-> t]
    BY <2>1, <2>2, <2>3, Zenon
  <2> QED
    BY <2>4, Zenon DEF c, x
<1> QED
  BY <1>1, <1>3, <1>4, <1>5, <1>6, <1>7

\* A checkpoint x that format f carries is kept whole: its versioned form is
\* sound and comes back with the contents of x; any other is refused.
Kept(f, x) ==
  LET s == Versioned(f, x) IN
  /\ Carried(f, x) =>
       /\ s # Nothing /\ s \in Versions(f) /\ Sound(f, s)
       /\ \A h : Materialize(f, s, h) # Nothing => Alike(Contents(f, Materialize(f, s, h)), Contents(f, x))
  /\ ~Carried(f, x) => s = Nothing

\* One vCPU.
LEMMA KeptVcpu ==
  ASSUME NEW x \in Vcpus
  PROVE  Kept("vcpu", x)
<1> DEFINE s == FromVcpu(x)
<1>1. VcpuKept(x)
  BY VcpuFromCheckpoint, Zenon
<1>2. Versioned("vcpu", x) = s /\ (Carried("vcpu", x) <=> VcpuCarried(x))
  BY VersionedIs, CarriedIs, Zenon
<1>3. VcpuCarried(x) => s # Nothing /\ s \in Versions("vcpu") /\ Sound("vcpu", s) /\ Alike(VcpuContents(s), VcpuContents(x))
  BY <1>1, VersionsIs, SoundIs, Zenon DEF VcpuKept, VcpuMatches, VcpuSound
<1> HIDE DEF s
<1>4. ASSUME VcpuCarried(x), NEW h, Materialize("vcpu", s, h) # Nothing
      PROVE  Alike(Contents("vcpu", Materialize("vcpu", s, h)), Contents("vcpu", x))
  <2>1. Materialize("vcpu", s, h) = MaterializeVcpu(s, h)
    BY MaterializeIs, Zenon
  <2>2. MaterializeVcpu(s, h) = s
    BY <1>4, <2>1, OfferedFull, Zenon
  <2>3. Contents("vcpu", s) = VcpuContents(s) /\ Contents("vcpu", x) = VcpuContents(x)
    BY ContentsIs, Zenon
  <2> QED
    BY <1>3, <1>4, <2>1, <2>2, <2>3, Zenon DEF Alike
<1>5. ~VcpuCarried(x) => s = Nothing
  BY <1>1, Zenon DEF VcpuKept, s
<1> QED
  BY <1>2, <1>3, <1>4, <1>5, Zenon DEF Kept

\* Pages and one vCPU.
LEMMA KeptPage ==
  ASSUME NEW x \in PageSets
  PROVE  Kept("page", x)
<1> DEFINE s == FromPage(x)
<1>1. PageKept(x)
  BY PageFromCheckpoint, Zenon
<1>2. Versioned("page", x) = s /\ (Carried("page", x) <=> PageCarried(x))
  BY VersionedIs, CarriedIs, Zenon
<1>3. PageCarried(x) => s # Nothing /\ s \in Versions("page") /\ Sound("page", s) /\ Alike(PageContents(s), PageContents(x))
  BY <1>1, VersionsIs, SoundIs, Zenon DEF PageKept, PageMatches, PageSound
<1> HIDE DEF s
<1>4. ASSUME PageCarried(x), NEW h, Materialize("page", s, h) # Nothing
      PROVE  Alike(Contents("page", Materialize("page", s, h)), Contents("page", x))
  <2>1. Materialize("page", s, h) = MaterializePage(s, h)
    BY MaterializeIs, Zenon
  <2>2. MaterializePage(s, h) = s
    BY <1>4, <2>1, OfferedFull, Zenon
  <2>3. Contents("page", s) = PageContents(s) /\ Contents("page", x) = PageContents(x)
    BY ContentsIs, Zenon
  <2> QED
    BY <1>3, <1>4, <2>1, <2>2, <2>3, Zenon DEF Alike
<1>5. ~PageCarried(x) => s = Nothing
  BY <1>1, Zenon DEF PageKept, s
<1> QED
  BY <1>2, <1>3, <1>4, <1>5, Zenon DEF Kept

\* One vCPU and the controllers around it.
LEMMA KeptFull ==
  ASSUME NEW x \in Fulls
  PROVE  Kept("full", x)
<1> DEFINE s == FromFull(x)
<1>1. FullKept(x)
  BY FullFromCheckpoint, Zenon
<1>2. Versioned("full", x) = s /\ (Carried("full", x) <=> FullCarried(x))
  BY VersionedIs, CarriedIs, Zenon
<1>3. FullCarried(x) => s # Nothing /\ s \in Versions("full") /\ Sound("full", s) /\ Alike(FullContents(s), FullContents(x))
  BY <1>1, VersionsIs, SoundIs, Zenon DEF FullKept, FullMatches, FullSound
<1> HIDE DEF s
<1>4. ASSUME FullCarried(x), NEW h, Materialize("full", s, h) # Nothing
      PROVE  Alike(Contents("full", Materialize("full", s, h)), Contents("full", x))
  <2>1. Materialize("full", s, h) = MaterializeFull(s, h)
    BY MaterializeIs, Zenon
  <2>2. MaterializeFull(s, h) = s
    BY <1>4, <2>1, OfferedFull, Zenon
  <2>3. Contents("full", s) = FullContents(s) /\ Contents("full", x) = FullContents(x)
    BY ContentsIs, Zenon
  <2> QED
    BY <1>3, <1>4, <2>1, <2>2, <2>3, Zenon DEF Alike
<1>5. ~FullCarried(x) => s = Nothing
  BY <1>1, Zenon DEF FullKept, s
<1> QED
  BY <1>2, <1>3, <1>4, <1>5, Zenon DEF Kept

\* Two vCPUs and the controllers around them.
LEMMA KeptSmp ==
  ASSUME NEW x \in Smps
  PROVE  Kept("smp", x)
<1> DEFINE s == FromSmp(x)
<1>1. SmpKept(x)
  BY SmpFromCheckpoint, Zenon
<1>2. Versioned("smp", x) = s /\ (Carried("smp", x) <=> SmpCarried(x))
  BY VersionedIs, CarriedIs, Zenon
<1>3. SmpCarried(x) => s # Nothing /\ s \in Versions("smp") /\ Sound("smp", s) /\ Alike(SmpContents(s), SmpContents(x))
  BY <1>1, VersionsIs, SoundIs, Zenon DEF SmpKept, SmpMatches, SmpSound
<1> HIDE DEF s
<1>4. ASSUME SmpCarried(x), NEW h, Materialize("smp", s, h) # Nothing
      PROVE  Alike(Contents("smp", Materialize("smp", s, h)), Contents("smp", x))
  <2>1. Materialize("smp", s, h) = MaterializeSmp(s, h)
    BY MaterializeIs, Zenon
  <2>2. MaterializeSmp(s, h) = s
    BY <1>4, <2>1, OfferedFull, Zenon
  <2>3. Contents("smp", s) = SmpContents(s) /\ Contents("smp", x) = SmpContents(x)
    BY ContentsIs, Zenon
  <2> QED
    BY <1>3, <1>4, <2>1, <2>2, <2>3, Zenon DEF Alike
<1>5. ~SmpCarried(x) => s = Nothing
  BY <1>1, Zenon DEF SmpKept, s
<1> QED
  BY <1>2, <1>3, <1>4, <1>5, Zenon DEF Kept

\* One device.
LEMMA KeptBlk ==
  ASSUME NEW x \in Blks
  PROVE  Kept("blk", x)
<1> DEFINE s == FromBlk(x)
<1>1. BlkKept(x)
  BY BlkFromCheckpoint, Zenon
<1>2. Versioned("blk", x) = s /\ (Carried("blk", x) <=> BlkCarried(x))
  BY VersionedIs, CarriedIs, Zenon
<1>3. BlkCarried(x) => BlkMatches(s, x)
  BY <1>1, Zenon DEF BlkKept
<1>4. BlkCarried(x) => s # Nothing /\ s \in Versions("blk") /\ Sound("blk", s) /\ Alike(FullContents(s.ctl), FullContents(x.ctl))
  BY <1>3, VersionsIs, SoundIs, Zenon DEF BlkMatches
<1>5. Alike(x, [ctl |-> x.ctl, bar0 |-> x.bar0, dev |-> x.dev])
  BY DEF Blks, Alike
<1>6. ASSUME BlkCarried(x), NEW h, Materialize("blk", s, h) # Nothing
      PROVE  Alike(Contents("blk", Materialize("blk", s, h)), Contents("blk", x))
  <2>1. MaterializeBlk(s, h) # Nothing /\ Materialize("blk", s, h) = MaterializeBlk(s, h)
    BY <1>6, MaterializeIs, Zenon
  <2> HIDE DEF s
  <2>2. MaterializeBlk(s, h) = [ctl |-> s.ctl, bar0 |-> x.bar0, dev |-> x.dev]
    BY <1>3, <1>6, <2>1, BlkReturns, Zenon
  <2>3. Contents("blk", [ctl |-> s.ctl, bar0 |-> x.bar0, dev |-> x.dev]) = [ctl |-> FullContents(s.ctl), bar0 |-> x.bar0, dev |-> x.dev]
    BY ContentsIs, SMTT(30)
  <2>4. Contents("blk", [ctl |-> x.ctl, bar0 |-> x.bar0, dev |-> x.dev]) = [ctl |-> FullContents(x.ctl), bar0 |-> x.bar0, dev |-> x.dev]
    BY ContentsIs, SMTT(30)
  <2> QED
    BY <1>4, <1>5, <1>6, <2>1, <2>2, <2>3, <2>4, Zenon DEF Alike
<1>7. ~BlkCarried(x) => s = Nothing
  BY <1>1, Zenon DEF BlkKept
<1> HIDE DEF s
<1> QED
  BY <1>2, <1>4, <1>6, <1>7, Zenon DEF Kept

\* Two devices and one vCPU.
LEMMA KeptTwoBlk ==
  ASSUME NEW x \in TwoBlks
  PROVE  Kept("twoBlk", x)
<1> DEFINE s == FromTwoBlk(x)
<1>1. TwoBlkKept(x)
  BY TwoBlkFromCheckpoint, Zenon
<1>2. Versioned("twoBlk", x) = s /\ (Carried("twoBlk", x) <=> TwoBlkCarried(x))
  BY VersionedIs, CarriedIs, Zenon
<1>3. TwoBlkCarried(x) => TwoBlkMatches(s, x)
  BY <1>1, Zenon DEF TwoBlkKept
<1>4. TwoBlkCarried(x) => s # Nothing /\ s \in Versions("twoBlk") /\ Sound("twoBlk", s) /\ Alike(FullContents(s.ctl), FullContents(x.ctl))
  BY <1>3, VersionsIs, SoundIs, Zenon DEF TwoBlkMatches, TwoBlkSound
<1>5. Alike(x, [ctl |-> x.ctl, devs |-> x.devs])
  BY DEF TwoBlks, Alike
<1>6. ASSUME TwoBlkCarried(x), NEW h, Materialize("twoBlk", s, h) # Nothing
      PROVE  Alike(Contents("twoBlk", Materialize("twoBlk", s, h)), Contents("twoBlk", x))
  <2>1. MaterializeTwoBlk(s, h) # Nothing /\ Materialize("twoBlk", s, h) = MaterializeTwoBlk(s, h)
    BY <1>6, MaterializeIs, Zenon
  <2> HIDE DEF s
  <2>2. MaterializeTwoBlk(s, h) = [ctl |-> s.ctl, devs |-> x.devs]
    BY <1>3, <1>6, <2>1, TwoBlkReturns, Zenon
  <2>3. Contents("twoBlk", [ctl |-> s.ctl, devs |-> x.devs]) = [ctl |-> FullContents(s.ctl), devs |-> x.devs]
    BY ContentsIs, SMTT(30)
  <2>4. Contents("twoBlk", [ctl |-> x.ctl, devs |-> x.devs]) = [ctl |-> FullContents(x.ctl), devs |-> x.devs]
    BY ContentsIs, SMTT(30)
  <2> QED
    BY <1>4, <1>5, <1>6, <2>1, <2>2, <2>3, <2>4, Zenon DEF Alike
<1>7. ~TwoBlkCarried(x) => s = Nothing
  BY <1>1, Zenon DEF TwoBlkKept
<1> HIDE DEF s
<1> QED
  BY <1>2, <1>4, <1>6, <1>7, Zenon DEF Kept

\* Two devices and two vCPUs.
LEMMA KeptSmpBlk ==
  ASSUME NEW x \in SmpBlks
  PROVE  Kept("smpBlk", x)
<1> DEFINE s == FromSmpBlk(x)
<1>1. SmpBlkKept(x)
  BY SmpBlkFromCheckpoint, Zenon
<1>2. Versioned("smpBlk", x) = s /\ (Carried("smpBlk", x) <=> SmpBlkCarried(x))
  BY VersionedIs, CarriedIs, Zenon
<1>3. SmpBlkCarried(x) => SmpBlkMatches(s, x) /\ Rebuilt(s.devs, x.devs)
  BY <1>1, Zenon DEF SmpBlkKept
<1>4. SmpBlkCarried(x) => s # Nothing /\ s \in Versions("smpBlk") /\ Sound("smpBlk", s) /\ Alike(SmpContents(s.ctl), SmpContents(x.ctl))
  BY <1>3, VersionsIs, SoundIs, Zenon DEF SmpBlkMatches
<1>5. Alike(x, [ctl |-> x.ctl, devs |-> x.devs])
  BY DEF SmpBlks, Alike
<1>6. ASSUME SmpBlkCarried(x), NEW h, Materialize("smpBlk", s, h) # Nothing
      PROVE  Alike(Contents("smpBlk", Materialize("smpBlk", s, h)), Contents("smpBlk", x))
  <2>1. MaterializeSmpBlk(s, h) # Nothing /\ Materialize("smpBlk", s, h) = MaterializeSmpBlk(s, h)
    BY <1>6, MaterializeIs, Zenon
  <2> HIDE DEF s
  <2>2. MaterializeSmpBlk(s, h) = [ctl |-> s.ctl, devs |-> x.devs]
    BY <1>3, <1>6, <2>1, SmpBlkReturns, Zenon
  <2>3. Contents("smpBlk", [ctl |-> s.ctl, devs |-> x.devs]) = [ctl |-> SmpContents(s.ctl), devs |-> x.devs]
    BY ContentsIs, SMTT(30)
  <2>4. Contents("smpBlk", [ctl |-> x.ctl, devs |-> x.devs]) = [ctl |-> SmpContents(x.ctl), devs |-> x.devs]
    BY ContentsIs, SMTT(30)
  <2> QED
    BY <1>4, <1>5, <1>6, <2>1, <2>2, <2>3, <2>4, Zenon DEF Alike
<1>7. ~SmpBlkCarried(x) => s = Nothing
  BY <1>1, Zenon DEF SmpBlkKept
<1> HIDE DEF s
<1> QED
  BY <1>2, <1>4, <1>6, <1>7, Zenon DEF Kept

\* Two registrations.
LEMMA KeptPair ==
  ASSUME NEW x \in [regs : Pairs]
  PROVE  Kept("pair", x)
<1>1. x.regs \in Pairs /\ x # Nothing
  BY DEF Nothing
<1>2. ValidPair(x.regs)
  BY <1>1, Zenon DEF Pairs
<1>3. Versioned("pair", x) = x /\ x \in Versions("pair") /\ Sound("pair", x) /\ Carried("pair", x)
  BY <1>2, VersionedIs, VersionsIs, SoundIs, CarriedIs, Zenon
<1>4. \A h : Materialize("pair", x, h) = x
  BY <1>2, MaterializeIs, Zenon
<1> QED
  BY <1>1, <1>3, <1>4, Zenon DEF Kept, Alike

\* A transaction of one device.
LEMMA KeptTx ==
  ASSUME NEW x \in [cp : Blks, regs : [1..1 -> Specs]]
  PROVE  Kept("tx", x)
<1> DEFINE b == FromBlk(x.cp)
           s == [cp |-> b, regs |-> <<x.regs[1]>>]
<1>1. x.cp \in Blks /\ Alike(x.regs, <<x.regs[1]>>) /\ <<x.regs[1]>> \in [1..1 -> Specs] /\ Alike(x, [cp |-> x.cp, regs |-> <<x.regs[1]>>])
  BY DEF Alike
<1>2. BlkKept(x.cp)
  BY <1>1, BlkFromCheckpoint, Zenon
<1>3. /\ Versioned("tx", x) = IF b = Nothing THEN Nothing ELSE s
      /\ Carried("tx", x) <=> BlkCarried(x.cp)
  BY <1>1, VersionedIs, CarriedIs, Zenon DEF FromTx, Alike
<1>4. BlkCarried(x.cp) => BlkMatches(b, x.cp)
  BY <1>2, Zenon DEF BlkKept
<1>5. BlkCarried(x.cp) => b # Nothing /\ b \in BlkStates /\ BlkSound(b) /\ Alike(FullContents(b.ctl), FullContents(x.cp.ctl))
  BY <1>4, Zenon DEF BlkMatches
<1>6. ~BlkCarried(x.cp) => b = Nothing
  BY <1>2, Zenon DEF BlkKept
<1> HIDE DEF b
<1>7. s.cp = b /\ s.regs = <<x.regs[1]>> /\ s # Nothing /\ (b \in BlkStates => s \in [cp : BlkStates, regs : [1..1 -> Specs]])
  BY <1>1 DEF Nothing
<1> HIDE DEF s
<1>8. Carried("tx", x) => s \in Versions("tx") /\ Sound("tx", s)
  BY <1>3, <1>5, <1>7, VersionsIs, SoundIs, Zenon
<1>9. ASSUME Carried("tx", x), NEW h, Materialize("tx", s, h) # Nothing
      PROVE  Alike(Contents("tx", Materialize("tx", s, h)), Contents("tx", x))
  <2>1. BlkMatches(b, x.cp)
    BY <1>3, <1>4, <1>9, Zenon
  <2>2. MaterializeTx(s, h) # Nothing /\ Materialize("tx", s, h) = MaterializeTx(s, h)
    BY <1>9, MaterializeIs, Zenon
  <2>3. MaterializeBlk(b, h) # Nothing /\ MaterializeTx(s, h) = [cp |-> MaterializeBlk(b, h), regs |-> <<x.regs[1]>>]
    BY <1>7, <2>2, Zenon DEF MaterializeTx
  <2>4. MaterializeBlk(b, h) = [ctl |-> b.ctl, bar0 |-> x.cp.bar0, dev |-> x.cp.dev]
    BY <2>1, <2>3, BlkReturns, Zenon
  <2>5. Alike(x.cp, [ctl |-> x.cp.ctl, bar0 |-> x.cp.bar0, dev |-> x.cp.dev])
    BY <1>1 DEF Blks, Alike
  <2>6. Contents("tx", [cp |-> [ctl |-> b.ctl, bar0 |-> x.cp.bar0, dev |-> x.cp.dev], regs |-> <<x.regs[1]>>])
          = [cp |-> [ctl |-> FullContents(b.ctl), bar0 |-> x.cp.bar0, dev |-> x.cp.dev], regs |-> <<x.regs[1]>>]
    BY ContentsIs, SMTT(30)
  <2>7. Contents("tx", [cp |-> [ctl |-> x.cp.ctl, bar0 |-> x.cp.bar0, dev |-> x.cp.dev], regs |-> <<x.regs[1]>>])
          = [cp |-> [ctl |-> FullContents(x.cp.ctl), bar0 |-> x.cp.bar0, dev |-> x.cp.dev], regs |-> <<x.regs[1]>>]
    BY ContentsIs, SMTT(30)
  <2>8. Alike(x, [cp |-> [ctl |-> x.cp.ctl, bar0 |-> x.cp.bar0, dev |-> x.cp.dev], regs |-> <<x.regs[1]>>])
    BY <1>1, <2>5, Zenon DEF Alike
  <2>9. Alike(FullContents(b.ctl), FullContents(x.cp.ctl))
    BY <1>3, <1>5, <1>9, Zenon
  <2> QED
    BY <2>2, <2>3, <2>4, <2>6, <2>7, <2>8, <2>9, Zenon DEF Alike
<1> QED
  BY <1>3, <1>5, <1>6, <1>7, <1>8, <1>9, Zenon DEF Kept

\* A transaction of two devices and one vCPU.
LEMMA KeptTwoTx ==
  ASSUME NEW x \in [cp : TwoBlks, regs : Pairs]
  PROVE  Kept("twoTx", x)
<1> DEFINE b == FromTwoBlk(x.cp)
           s == [cp |-> b, regs |-> x.regs]
<1>1. x.cp \in TwoBlks /\ Alike(x.regs, x.regs) /\ x.regs \in Pairs /\ Alike(x, [cp |-> x.cp, regs |-> x.regs])
  BY DEF Alike
<1>2. TwoBlkKept(x.cp)
  BY <1>1, TwoBlkFromCheckpoint, Zenon
<1>3. /\ Versioned("twoTx", x) = IF b = Nothing THEN Nothing ELSE s
      /\ Carried("twoTx", x) <=> TwoBlkCarried(x.cp)
  BY <1>1, VersionedIs, CarriedIs, Zenon DEF FromTwoTx, Alike
<1>4. TwoBlkCarried(x.cp) => TwoBlkMatches(b, x.cp)
  BY <1>2, Zenon DEF TwoBlkKept
<1>5. TwoBlkCarried(x.cp) => b # Nothing /\ b \in TwoBlkStates /\ TwoBlkSound(b) /\ Alike(FullContents(b.ctl), FullContents(x.cp.ctl))
  BY <1>4, Zenon DEF TwoBlkMatches, TwoBlkSound
<1>6. ~TwoBlkCarried(x.cp) => b = Nothing
  BY <1>2, Zenon DEF TwoBlkKept
<1> HIDE DEF b
<1>7. s.cp = b /\ s.regs = x.regs /\ s # Nothing /\ (b \in TwoBlkStates => s \in [cp : TwoBlkStates, regs : Pairs])
  BY <1>1 DEF Nothing
<1> HIDE DEF s
<1>8. Carried("twoTx", x) => s \in Versions("twoTx") /\ Sound("twoTx", s)
  <2>1. ValidPair(x.regs)
    BY <1>1, Zenon DEF Pairs
  <2> QED
    BY <1>3, <1>5, <1>7, <2>1, VersionsIs, SoundIs, Zenon
<1>9. ASSUME Carried("twoTx", x), NEW h, Materialize("twoTx", s, h) # Nothing
      PROVE  Alike(Contents("twoTx", Materialize("twoTx", s, h)), Contents("twoTx", x))
  <2>1. TwoBlkMatches(b, x.cp)
    BY <1>3, <1>4, <1>9, Zenon
  <2>2. MaterializeTwoTx(s, h) # Nothing /\ Materialize("twoTx", s, h) = MaterializeTwoTx(s, h)
    BY <1>9, MaterializeIs, Zenon
  <2>3. MaterializeTwoBlk(b, h) # Nothing /\ MaterializeTwoTx(s, h) = [cp |-> MaterializeTwoBlk(b, h), regs |-> x.regs]
    BY <1>7, <2>2, Zenon DEF MaterializeTwoTx
  <2>4. MaterializeTwoBlk(b, h) = [ctl |-> b.ctl, devs |-> x.cp.devs]
    BY <2>1, <2>3, TwoBlkReturns, Zenon
  <2>5. Alike(x.cp, [ctl |-> x.cp.ctl, devs |-> x.cp.devs])
    BY <1>1 DEF TwoBlks, Alike
  <2>6. Contents("twoTx", [cp |-> [ctl |-> b.ctl, devs |-> x.cp.devs], regs |-> x.regs])
          = [cp |-> [ctl |-> FullContents(b.ctl), devs |-> x.cp.devs], regs |-> x.regs]
    BY ContentsIs, SMTT(30)
  <2>7. Contents("twoTx", [cp |-> [ctl |-> x.cp.ctl, devs |-> x.cp.devs], regs |-> x.regs])
          = [cp |-> [ctl |-> FullContents(x.cp.ctl), devs |-> x.cp.devs], regs |-> x.regs]
    BY ContentsIs, SMTT(30)
  <2>8. Alike(x, [cp |-> [ctl |-> x.cp.ctl, devs |-> x.cp.devs], regs |-> x.regs])
    BY <1>1, <2>5, Zenon DEF Alike
  <2>9. Alike(FullContents(b.ctl), FullContents(x.cp.ctl))
    BY <1>3, <1>5, <1>9, Zenon
  <2> QED
    BY <2>2, <2>3, <2>4, <2>6, <2>7, <2>8, <2>9, Zenon DEF Alike
<1> QED
  BY <1>3, <1>5, <1>6, <1>7, <1>8, <1>9, Zenon DEF Kept

\* A transaction of two devices and two vCPUs.
LEMMA KeptSmpTx ==
  ASSUME NEW x \in [cp : SmpBlks, regs : Pairs]
  PROVE  Kept("smpTx", x)
<1> DEFINE b == FromSmpBlk(x.cp)
           s == [cp |-> b, regs |-> x.regs]
<1>1. x.cp \in SmpBlks /\ Alike(x.regs, x.regs) /\ x.regs \in Pairs /\ Alike(x, [cp |-> x.cp, regs |-> x.regs])
  BY DEF Alike
<1>2. SmpBlkKept(x.cp)
  BY <1>1, SmpBlkFromCheckpoint, Zenon
<1>3. /\ Versioned("smpTx", x) = IF Bound(x.cp.devs, x.regs) /\ b # Nothing THEN s ELSE Nothing
      /\ Carried("smpTx", x) <=> SmpBlkCarried(x.cp) /\ Bound(x.cp.devs, x.regs)
  BY <1>1, VersionedIs, CarriedIs, Zenon DEF FromSmpTx, Alike
<1>4. SmpBlkCarried(x.cp) => SmpBlkMatches(b, x.cp) /\ Rebuilt(b.devs, x.cp.devs)
  BY <1>2, Zenon DEF SmpBlkKept
<1>5. SmpBlkCarried(x.cp) => b # Nothing /\ b \in SmpBlkStates /\ SmpBlkSound(b) /\ Alike(SmpContents(b.ctl), SmpContents(x.cp.ctl))
  BY <1>4, Zenon DEF SmpBlkMatches
<1>6. ~SmpBlkCarried(x.cp) => b = Nothing
  BY <1>2, Zenon DEF SmpBlkKept
<1> HIDE DEF b
<1>7. s.cp = b /\ s.regs = x.regs /\ s # Nothing /\ (b \in SmpBlkStates => s \in [cp : SmpBlkStates, regs : Pairs])
  BY <1>1 DEF Nothing
<1> HIDE DEF s
<1>8. Carried("smpTx", x) => s \in Versions("smpTx") /\ Sound("smpTx", s)
  <2>1. ValidPair(x.regs)
    BY <1>1, Zenon DEF Pairs
  <2>2. SmpBlkCarried(x.cp) => SameBars(b.devs, x.cp.devs)
    BY <1>4, Zenon DEF SmpBlkMatches
  <2>3. SmpBlkCarried(x.cp) /\ Bound(x.cp.devs, x.regs) => Bound(b.devs, x.regs)
    BY <2>2, StillBound, Zenon
  <2>4. SmpBlkCarried(x.cp) /\ Bound(x.cp.devs, x.regs) => ValidTx(s)
    BY <1>7, <2>1, <2>3, Zenon DEF ValidTx
  <2> QED
    BY <1>3, <1>5, <1>7, <2>4, VersionsIs, SoundIs, Zenon
<1>9. ASSUME Carried("smpTx", x), NEW h, Materialize("smpTx", s, h) # Nothing
      PROVE  Alike(Contents("smpTx", Materialize("smpTx", s, h)), Contents("smpTx", x))
  <2>1. SmpBlkMatches(b, x.cp) /\ Rebuilt(b.devs, x.cp.devs)
    BY <1>3, <1>4, <1>9, Zenon
  <2>2. MaterializeSmpTx(s, h) # Nothing /\ Materialize("smpTx", s, h) = MaterializeSmpTx(s, h)
    BY <1>9, MaterializeIs, Zenon
  <2>3. MaterializeSmpBlk(b, h) # Nothing /\ MaterializeSmpTx(s, h) = [cp |-> MaterializeSmpBlk(b, h), regs |-> x.regs]
    BY <1>7, <2>2, Zenon DEF MaterializeSmpTx
  <2>4. MaterializeSmpBlk(b, h) = [ctl |-> b.ctl, devs |-> x.cp.devs]
    BY <2>1, <2>3, SmpBlkReturns, Zenon
  <2>5. Alike(x.cp, [ctl |-> x.cp.ctl, devs |-> x.cp.devs])
    BY <1>1 DEF SmpBlks, Alike
  <2>6. Contents("smpTx", [cp |-> [ctl |-> b.ctl, devs |-> x.cp.devs], regs |-> x.regs])
          = [cp |-> [ctl |-> SmpContents(b.ctl), devs |-> x.cp.devs], regs |-> x.regs]
    BY ContentsIs, SMTT(30)
  <2>7. Contents("smpTx", [cp |-> [ctl |-> x.cp.ctl, devs |-> x.cp.devs], regs |-> x.regs])
          = [cp |-> [ctl |-> SmpContents(x.cp.ctl), devs |-> x.cp.devs], regs |-> x.regs]
    BY ContentsIs, SMTT(30)
  <2>8. Alike(x, [cp |-> [ctl |-> x.cp.ctl, devs |-> x.cp.devs], regs |-> x.regs])
    BY <1>1, <2>5, Zenon DEF Alike
  <2>9. Alike(SmpContents(b.ctl), SmpContents(x.cp.ctl))
    BY <1>3, <1>5, <1>9, Zenon
  <2> QED
    BY <2>2, <2>3, <2>4, <2>6, <2>7, <2>8, <2>9, Zenon DEF Alike
<1> QED
  BY <1>3, <1>5, <1>6, <1>7, <1>8, <1>9, Zenon DEF Kept
\* A transaction with a completion pending.
LEMMA KeptCompletionTx ==
  ASSUME NEW x \in [cp : SmpBlks, regs : Pairs, token : Tokens]
  PROVE  Kept("smpTx2", x)
<1> DEFINE b == FromSmpBlkCompletion(x.cp, x.token)
           s == [cp |-> b, regs |-> x.regs, token |-> x.token]
           carried == SmpBlkPending(x.cp, x.token, CompletionPending)
<1>1. /\ x.cp \in SmpBlks /\ x.regs \in Pairs /\ x.token \in Tokens
      /\ Alike(x, [cp |-> x.cp, regs |-> x.regs, token |-> x.token])
  BY DEF Alike
<1>2. CompletionKept(x.cp, x.token)
  BY <1>1, CompletionFromCheckpoint, Zenon
<1>3. /\ Versioned("smpTx2", x) = IF Bound(x.cp.devs, x.regs) /\ b # Nothing THEN s ELSE Nothing
      /\ Carried("smpTx2", x) <=> carried /\ Bound(x.cp.devs, x.regs)
  BY VersionedIs, CarriedIs, Zenon DEF FromCompletionTx
<1>4. carried => SmpBlkMatches(b, x.cp) /\ CompletionParts(x.token) /\ CompletionValid(b, x.token) /\ Rebuilt(b.devs, x.cp.devs)
  BY <1>2, Zenon DEF CompletionKept
<1>5. ~carried => b = Nothing
  BY <1>2, Zenon DEF CompletionKept
<1> HIDE DEF carried
<1>6. carried => b # Nothing /\ b \in SmpBlkStates /\ SmpBlkSound(b) /\ Alike(SmpContents(b.ctl), SmpContents(x.cp.ctl))
                /\ SameBars(b.devs, x.cp.devs)
  BY <1>4, Zenon DEF SmpBlkMatches
<1> HIDE DEF b
<1>7. /\ s.cp = b /\ s.regs = x.regs /\ s.token = x.token /\ s # Nothing
      /\ b \in SmpBlkStates => s \in [cp : SmpBlkStates, regs : Pairs, token : Tokens]
  BY <1>1 DEF Nothing
<1>8. Carried("smpTx2", x) => s \in Versions("smpTx2") /\ Sound("smpTx2", s)
  <2>1. ValidPair(x.regs)
    BY <1>1, Zenon DEF Pairs
  <2>2. carried /\ Bound(x.cp.devs, x.regs) => Bound(b.devs, x.regs)
    BY <1>6, StillBound, Zenon
  <2>3. IsTokenTx(s)
    BY <1>7, Zenon DEF IsTokenTx
  <2> HIDE DEF s
  <2>4. carried /\ Bound(x.cp.devs, x.regs) => ValidTx(s)
    BY <1>7, <2>1, <2>2, Zenon DEF ValidTx
  <2>5. carried => CompletionParts(x.token) /\ CompletionValid(b, x.token)
    BY <1>4, Zenon
  <2>6. carried => CompletionSound(s)
    BY <1>7, <2>5, Zenon DEF CompletionSound
  <2> QED
    BY <1>3, <1>6, <1>7, <2>3, <2>4, <2>6, VersionsIs, SoundIs, Zenon
<1>9. ASSUME Carried("smpTx2", x), NEW h, Materialize("smpTx2", s, h) # Nothing
      PROVE  Alike(Contents("smpTx2", Materialize("smpTx2", s, h)), Contents("smpTx2", x))
  <2>1. /\ SmpBlkMatches(b, x.cp) /\ CompletionParts(x.token) /\ CompletionValid(b, x.token) /\ Rebuilt(b.devs, x.cp.devs)
        /\ Bound(x.cp.devs, x.regs) /\ Alike(SmpContents(b.ctl), SmpContents(x.cp.ctl))
    BY <1>3, <1>4, <1>6, <1>9, Zenon
  <2>2. Materialize("smpTx2", s, h) = MaterializeCompletionTx([cp |-> b, regs |-> x.regs, token |-> x.token], h)
    BY MaterializeIs, Zenon
  <2>3. MaterializeCompletionTx([cp |-> b, regs |-> x.regs, token |-> x.token], h) # Nothing
    BY <1>9, <2>2, Zenon
  <2>4. MaterializeCompletionTx([cp |-> b, regs |-> x.regs, token |-> x.token], h)
          = [cp |-> [ctl |-> b.ctl, devs |-> x.cp.devs], regs |-> x.regs, token |-> x.token]
    <3> DEFINE c == x.cp
               p == x.regs
               t == x.token
    <3>1. /\ SmpBlkMatches(b, c) /\ Rebuilt(b.devs, c.devs) /\ Bound(c.devs, p) /\ p \in Pairs
          /\ CompletionParts(t) /\ CompletionValid(b, t)
          /\ MaterializeCompletionTx([cp |-> b, regs |-> p, token |-> t], h) # Nothing
      BY <1>1, <2>1, <2>3, Zenon
    <3> HIDE DEF c, p, t
    <3>2. MaterializeCompletionTx([cp |-> b, regs |-> p, token |-> t], h)
            = [cp |-> [ctl |-> b.ctl, devs |-> c.devs], regs |-> p, token |-> t]
      BY <3>1, CompletionReturns, Zenon
    <3> QED
      BY <3>2, Zenon DEF c, p, t
  <2>5. Alike(x.cp, [ctl |-> x.cp.ctl, devs |-> x.cp.devs])
    BY <1>1 DEF SmpBlks, Alike
  <2>6. Contents("smpTx2", [cp |-> [ctl |-> b.ctl, devs |-> x.cp.devs], regs |-> x.regs, token |-> x.token])
          = [cp |-> [ctl |-> SmpContents(b.ctl), devs |-> x.cp.devs], regs |-> x.regs, token |-> x.token]
    BY ContentsIs, SMTT(30)
  <2>7. Contents("smpTx2", [cp |-> [ctl |-> x.cp.ctl, devs |-> x.cp.devs], regs |-> x.regs, token |-> x.token])
          = [cp |-> [ctl |-> SmpContents(x.cp.ctl), devs |-> x.cp.devs], regs |-> x.regs, token |-> x.token]
    BY ContentsIs, SMTT(30)
  <2>8. Alike(x, [cp |-> [ctl |-> x.cp.ctl, devs |-> x.cp.devs], regs |-> x.regs, token |-> x.token])
    BY <1>1, <2>5, Zenon DEF Alike
  <2> HIDE DEF s
  <2> QED
    BY <2>1, <2>2, <2>4, <2>6, <2>7, <2>8, Zenon DEF Alike
<1>10. Carried("smpTx2", x) => Versioned("smpTx2", x) = s
  BY <1>3, <1>6, Zenon
<1>11. ~Carried("smpTx2", x) => Versioned("smpTx2", x) = Nothing
  BY <1>3, <1>5, Zenon
<1>12. s # Nothing
  BY <1>7, Zenon
<1> HIDE DEF s
<1> QED
  BY <1>8, <1>9, <1>10, <1>11, <1>12, Zenon DEF Kept

\* A transaction with a notification pending.
LEMMA KeptNotificationTx ==
  ASSUME NEW x \in [cp : SmpBlks, regs : Pairs, token : Tokens]
  PROVE  Kept("smpTx3", x)
<1> DEFINE b == FromSmpBlkNotification(x.cp, x.token)
           s == [cp |-> b, regs |-> x.regs, token |-> x.token]
           carried == SmpBlkPending(x.cp, x.token, NotificationPending)
<1>1. /\ x.cp \in SmpBlks /\ x.regs \in Pairs /\ x.token \in Tokens
      /\ Alike(x, [cp |-> x.cp, regs |-> x.regs, token |-> x.token])
  BY DEF Alike
<1>2. NotificationKept(x.cp, x.token)
  BY <1>1, NotificationFromCheckpoint, Zenon
<1>3. /\ Versioned("smpTx3", x) = IF Bound(x.cp.devs, x.regs) /\ b # Nothing THEN s ELSE Nothing
      /\ Carried("smpTx3", x) <=> carried /\ Bound(x.cp.devs, x.regs)
  BY VersionedIs, CarriedIs, Zenon DEF FromNotificationTx
<1>4. carried => SmpBlkMatches(b, x.cp) /\ NotificationParts(x.token)
           /\ \E k \in 1..2 : NotificationInState(x.token, b.devs[k]) /\ Alike(Notified(b.devs, k), x.cp.devs)
  BY <1>2, Zenon DEF NotificationKept, Alike
<1>5. ~carried => b = Nothing
  BY <1>2, Zenon DEF NotificationKept
<1> HIDE DEF carried
<1>6. carried => b # Nothing /\ b \in SmpBlkStates /\ SmpBlkSound(b) /\ Alike(SmpContents(b.ctl), SmpContents(x.cp.ctl))
                /\ SameBars(b.devs, x.cp.devs)
  BY <1>4, Zenon DEF SmpBlkMatches
<1> HIDE DEF b
<1>7. /\ s.cp = b /\ s.regs = x.regs /\ s.token = x.token /\ s # Nothing
      /\ b \in SmpBlkStates => s \in [cp : SmpBlkStates, regs : Pairs, token : Tokens]
  BY <1>1 DEF Nothing
<1>8. Carried("smpTx3", x) => s \in Versions("smpTx3") /\ Sound("smpTx3", s)
  <2>1. ValidPair(x.regs)
    BY <1>1, Zenon DEF Pairs
  <2>2. carried /\ Bound(x.cp.devs, x.regs) => Bound(b.devs, x.regs)
    BY <1>6, StillBound, Zenon
  <2>3. IsTokenTx(s)
    BY <1>7, Zenon DEF IsTokenTx
  <2> HIDE DEF s
  <2>4. carried /\ Bound(x.cp.devs, x.regs) => ValidTx(s)
    BY <1>7, <2>1, <2>2, Zenon DEF ValidTx
  <2>5. carried => NotificationParts(x.token) /\ NotificationValid(b, x.token)
    BY <1>4, Zenon DEF NotificationValid
  <2>6. carried => NotificationSound(s)
    BY <1>7, <2>5, Zenon DEF NotificationSound
  <2> QED
    BY <1>3, <1>6, <1>7, <2>3, <2>4, <2>6, VersionsIs, SoundIs, Zenon
<1>9. ASSUME Carried("smpTx3", x), NEW h, Materialize("smpTx3", s, h) # Nothing
      PROVE  Alike(Contents("smpTx3", Materialize("smpTx3", s, h)), Contents("smpTx3", x))
  <2>1. /\ SmpBlkMatches(b, x.cp) /\ NotificationParts(x.token)
        /\ \E k \in 1..2 : NotificationInState(x.token, b.devs[k]) /\ Alike(Notified(b.devs, k), x.cp.devs)
        /\ Bound(x.cp.devs, x.regs) /\ Alike(SmpContents(b.ctl), SmpContents(x.cp.ctl))
    BY <1>3, <1>4, <1>6, <1>9, Zenon
  <2>2. Materialize("smpTx3", s, h) = MaterializeNotificationTx([cp |-> b, regs |-> x.regs, token |-> x.token], h)
    BY MaterializeIs, Zenon
  <2>3. MaterializeNotificationTx([cp |-> b, regs |-> x.regs, token |-> x.token], h) # Nothing
    BY <1>9, <2>2, Zenon
  <2>4. MaterializeNotificationTx([cp |-> b, regs |-> x.regs, token |-> x.token], h)
          = [cp |-> [ctl |-> b.ctl, devs |-> x.cp.devs], regs |-> x.regs, token |-> x.token]
    <3> DEFINE c == x.cp
               p == x.regs
               t == x.token
    <3>1. PICK k \in 1..2 : NotificationInState(t, b.devs[k]) /\ Alike(Notified(b.devs, k), c.devs)
      BY <2>1, Zenon
    <3>2. /\ SmpBlkMatches(b, c) /\ Bound(c.devs, p) /\ p \in Pairs /\ NotificationParts(t)
          /\ MaterializeNotificationTx([cp |-> b, regs |-> p, token |-> t], h) # Nothing
      BY <1>1, <2>1, <2>3, Zenon
    <3> HIDE DEF c, p, t
    <3>3. MaterializeNotificationTx([cp |-> b, regs |-> p, token |-> t], h)
            = [cp |-> [ctl |-> b.ctl, devs |-> c.devs], regs |-> p, token |-> t]
      BY <3>1, <3>2, NotificationReturns, Zenon
    <3> QED
      BY <3>3, Zenon DEF c, p, t
  <2>5. Alike(x.cp, [ctl |-> x.cp.ctl, devs |-> x.cp.devs])
    BY <1>1 DEF SmpBlks, Alike
  <2>6. Contents("smpTx3", [cp |-> [ctl |-> b.ctl, devs |-> x.cp.devs], regs |-> x.regs, token |-> x.token])
          = [cp |-> [ctl |-> SmpContents(b.ctl), devs |-> x.cp.devs], regs |-> x.regs, token |-> x.token]
    BY ContentsIs, SMTT(30)
  <2>7. Contents("smpTx3", [cp |-> [ctl |-> x.cp.ctl, devs |-> x.cp.devs], regs |-> x.regs, token |-> x.token])
          = [cp |-> [ctl |-> SmpContents(x.cp.ctl), devs |-> x.cp.devs], regs |-> x.regs, token |-> x.token]
    BY ContentsIs, SMTT(30)
  <2>8. Alike(x, [cp |-> [ctl |-> x.cp.ctl, devs |-> x.cp.devs], regs |-> x.regs, token |-> x.token])
    BY <1>1, <2>5, Zenon DEF Alike
  <2> HIDE DEF s
  <2> QED
    BY <2>1, <2>2, <2>4, <2>6, <2>7, <2>8, Zenon DEF Alike
<1>10. Carried("smpTx3", x) => Versioned("smpTx3", x) = s
  BY <1>3, <1>6, Zenon
<1>11. ~Carried("smpTx3", x) => Versioned("smpTx3", x) = Nothing
  BY <1>3, <1>5, Zenon
<1>12. s # Nothing
  BY <1>7, Zenon
<1> HIDE DEF s
<1> QED
  BY <1>8, <1>9, <1>10, <1>11, <1>12, Zenon DEF Kept

\* A captured checkpoint that a format carries is kept whole by
\* from_checkpoint and given back whole by materialize, and one that it does
\* not carry is refused (from_checkpoint and materialize of every format).
THEOREM FromCheckpoint ==
  ASSUME NEW f \in Formats, NEW x \in Captures(f)
  PROVE  Kept(f, x)
<1> DEFINE Goal(g) == x \in Captures(g) => Kept(g, x)
<1>1. Goal("vcpu") /\ Goal("page") /\ Goal("full") /\ Goal("smp")
  BY CapturesIs, KeptVcpu, KeptPage, KeptFull, KeptSmp, Zenon
<1>2. Goal("blk") /\ Goal("twoBlk") /\ Goal("smpBlk") /\ Goal("pair")
  BY CapturesIs, KeptBlk, KeptTwoBlk, KeptSmpBlk, KeptPair, Zenon
<1>3. Goal("tx") /\ Goal("twoTx") /\ Goal("smpTx")
  BY CapturesIs, KeptTx, KeptTwoTx, KeptSmpTx, Zenon
<1>4. Goal("smpTx2") /\ Goal("smpTx3")
  BY CapturesIs, KeptCompletionTx, KeptNotificationTx, Zenon
<1> HIDE DEF Goal
<1>5. Goal(f)
  BY <1>1, <1>2, <1>3, <1>4, Zenon DEF Formats
<1> QED
  BY <1>5, Zenon DEF Goal
=============================================================================
