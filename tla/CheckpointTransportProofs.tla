---------------------- MODULE CheckpointTransportProofs ---------------------
(***************************************************************************)
(* The transport of a checkpoint through its stored image, for every       *)
(* format, every image, any number of faults and every host: FormatProofs  *)
(* tells what encode and decode do to words, CaptureProofs what            *)
(* from_checkpoint and materialize do to states, and the inductive         *)
(* invariant Inv says that the stages of the transport are these four      *)
(* functions one after the other.                                          *)
(***************************************************************************)
EXTENDS CaptureProofs, FormatProofs

\* decode of each format.
LEMMA DecodeIs ==
  ASSUME NEW w
  PROVE  /\ Decode("vcpu", w) = DecodeVcpu(w)
         /\ Decode("page", w) = DecodePage(w)
         /\ Decode("full", w) = DecodeFull(w)
         /\ Decode("smp", w) = DecodeSmp(w)
         /\ Decode("blk", w) = DecodeBlk(w)
         /\ Decode("twoBlk", w) = DecodeTwoBlk(w)
         /\ Decode("smpBlk", w) = DecodeSmpBlk(w)
         /\ Decode("tx", w) = DecodeTx(w)
         /\ Decode("twoTx", w) = DecodeTwoTx(w)
         /\ Decode("smpTx", w) = DecodeSmpTx(w)
         /\ Decode("smpTx2", w) = DecodeCompletionTx(w)
         /\ Decode("smpTx3", w) = DecodeNotificationTx(w)
         /\ Decode("pair", w) = IF DecodePair(w) = NoPair THEN Nothing ELSE [regs |-> DecodePair(w)]
BY DEF Decode

\* encode of each format.
LEMMA EncodeIs ==
  ASSUME NEW x
  PROVE  /\ Encode("vcpu", x) = EncodeVcpu(x)
         /\ Encode("page", x) = EncodePage(x)
         /\ Encode("full", x) = EncodeFull(x)
         /\ Encode("smp", x) = EncodeSmp(x)
         /\ Encode("blk", x) = EncodeBlk(x)
         /\ Encode("twoBlk", x) = EncodeTwoBlk(x)
         /\ Encode("smpBlk", x) = EncodeSmpBlk(x)
         /\ Encode("tx", x) = EncodeTx(x)
         /\ Encode("twoTx", x) = EncodeTwoTx(x)
         /\ Encode("smpTx", x) = EncodeSmpTx(x)
         /\ Encode("smpTx2", x) = EncodeCompletionTx(x)
         /\ Encode("smpTx3", x) = EncodeNotificationTx(x)
         /\ Encode("pair", x) = EncodePair(x.regs)
BY DEF Encode

\* Whatever words are stored: if decode of a format accepts them, encode
\* gives the same words again, and what materialize checks again holds
\* (decode and encode of every format).
THEOREM Decoded ==
  ASSUME NEW f \in Formats, NEW w \in Words, Decode(f, w) # Nothing
  PROVE  Encode(f, Decode(f, w)) = w /\ Sound(f, Decode(f, w))
<1> DEFINE Goal(g) == Decode(g, w) # Nothing => Same(Encode(g, Decode(g, w)), w) /\ Sound(g, Decode(g, w))
<1>1. Goal("vcpu")
  <2> DEFINE x == DecodeVcpu(w)
  <2>1. Decode("vcpu", w) = x /\ Encode("vcpu", x) = EncodeVcpu(x)
    BY DecodeIs, EncodeIs, Zenon
  <2>2. x # Nothing => Same(EncodeVcpu(x), w) /\ VcpuSound(x)
    BY VcpuDecoded, Zenon DEF VcpuSound
  <2> HIDE DEF x
  <2> QED
    BY <2>1, <2>2, SoundIs, Zenon
<1>2. Goal("page")
  <2> DEFINE x == DecodePage(w)
  <2>1. Decode("page", w) = x /\ Encode("page", x) = EncodePage(x)
    BY DecodeIs, EncodeIs, Zenon
  <2>2. x # Nothing => Same(EncodePage(x), w) /\ PageSound(x)
    BY PageDecoded, Zenon
  <2> HIDE DEF x
  <2> QED
    BY <2>1, <2>2, SoundIs, Zenon
<1>3. Goal("full")
  <2> DEFINE x == DecodeFull(w)
  <2>1. Decode("full", w) = x /\ Encode("full", x) = EncodeFull(x)
    BY DecodeIs, EncodeIs, Zenon
  <2>2. x # Nothing => Same(EncodeFull(x), w) /\ FullSound(x)
    BY FullDecoded, Zenon
  <2> HIDE DEF x
  <2> QED
    BY <2>1, <2>2, SoundIs, Zenon
<1>4. Goal("smp")
  <2> DEFINE x == DecodeSmp(w)
  <2>1. Decode("smp", w) = x /\ Encode("smp", x) = EncodeSmp(x)
    BY DecodeIs, EncodeIs, Zenon
  <2>2. x # Nothing => Same(EncodeSmp(x), w) /\ SmpSound(x)
    BY SmpDecoded, Zenon
  <2> HIDE DEF x
  <2> QED
    BY <2>1, <2>2, SoundIs, Zenon
<1>5. Goal("blk")
  <2> DEFINE x == DecodeBlk(w)
  <2>1. Decode("blk", w) = x /\ Encode("blk", x) = EncodeBlk(x)
    BY DecodeIs, EncodeIs, Zenon
  <2>2. x # Nothing => Same(EncodeBlk(x), w) /\ BlkSound(x)
    BY BlkDecoded, Zenon
  <2> HIDE DEF x
  <2> QED
    BY <2>1, <2>2, SoundIs, Zenon
<1>6. Goal("twoBlk")
  <2> DEFINE x == DecodeTwoBlk(w)
  <2>1. Decode("twoBlk", w) = x /\ Encode("twoBlk", x) = EncodeTwoBlk(x)
    BY DecodeIs, EncodeIs, Zenon
  <2>2. x # Nothing => Same(EncodeTwoBlk(x), w) /\ TwoBlkSound(x)
    BY TwoBlkDecoded, Zenon DEF TwoBlkSound
  <2> HIDE DEF x
  <2> QED
    BY <2>1, <2>2, SoundIs, Zenon
<1>7. Goal("smpBlk")
  <2> DEFINE x == DecodeSmpBlk(w)
  <2>1. Decode("smpBlk", w) = x /\ Encode("smpBlk", x) = EncodeSmpBlk(x)
    BY DecodeIs, EncodeIs, Zenon
  <2>2. x # Nothing => Same(EncodeSmpBlk(x), w) /\ SmpBlkSound(x)
    BY SmpBlkDecoded, Zenon DEF SmpBlkSound
  <2> HIDE DEF x
  <2> QED
    BY <2>1, <2>2, SoundIs, Zenon
<1>8. Goal("tx")
  <2> DEFINE x == DecodeTx(w)
  <2>1. Decode("tx", w) = x /\ Encode("tx", x) = EncodeTx(x)
    BY DecodeIs, EncodeIs, Zenon
  <2>2. x # Nothing => Same(EncodeTx(x), w) /\ BlkSound(x.cp)
    BY TxDecoded, Zenon
  <2> HIDE DEF x
  <2> QED
    BY <2>1, <2>2, SoundIs, Zenon
<1>9. Goal("twoTx")
  <2> DEFINE x == DecodeTwoTx(w)
  <2>1. Decode("twoTx", w) = x /\ Encode("twoTx", x) = EncodeTwoTx(x)
    BY DecodeIs, EncodeIs, Zenon
  <2>2. x # Nothing => Same(EncodeTwoTx(x), w) /\ TwoBlkSound(x.cp) /\ ValidPair(x.regs)
    BY TwoTxDecoded, Zenon DEF TwoBlkSound, Pairs
  <2> HIDE DEF x
  <2> QED
    BY <2>1, <2>2, SoundIs, Zenon
<1>10. Goal("smpTx")
  <2> DEFINE x == DecodeSmpTx(w)
  <2>1. Decode("smpTx", w) = x /\ Encode("smpTx", x) = EncodeSmpTx(x)
    BY DecodeIs, EncodeIs, Zenon
  <2>2. x # Nothing => Same(EncodeSmpTx(x), w) /\ SmpBlkSound(x.cp) /\ ValidTx(x)
    BY SmpTxDecoded, Zenon DEF SmpBlkSound
  <2> HIDE DEF x
  <2> QED
    BY <2>1, <2>2, SoundIs, Zenon
<1>11. Goal("smpTx2")
  <2> DEFINE x == DecodeCompletionTx(w)
  <2>1. Decode("smpTx2", w) = x /\ Encode("smpTx2", x) = EncodeCompletionTx(x)
    BY DecodeIs, EncodeIs, Zenon
  <2>2. x # Nothing => Same(EncodeCompletionTx(x), w) /\ SmpBlkSound(x.cp) /\ ValidTx(x) /\ IsTokenTx(x) /\ CompletionSound(x)
    BY CompletionTxDecoded, Zenon DEF SmpBlkSound, CompletionSound
  <2> HIDE DEF x
  <2> QED
    BY <2>1, <2>2, SoundIs, Zenon
<1>12. Goal("smpTx3")
  <2> DEFINE x == DecodeNotificationTx(w)
  <2>1. Decode("smpTx3", w) = x /\ Encode("smpTx3", x) = EncodeNotificationTx(x)
    BY DecodeIs, EncodeIs, Zenon
  <2>2. x # Nothing => Same(EncodeNotificationTx(x), w) /\ SmpBlkSound(x.cp) /\ ValidTx(x) /\ IsTokenTx(x) /\ NotificationSound(x)
    BY NotificationTxDecoded, Zenon DEF SmpBlkSound, NotificationSound
  <2> HIDE DEF x
  <2> QED
    BY <2>1, <2>2, SoundIs, Zenon
<1>13. Goal("pair")
  <2> DEFINE x == [regs |-> DecodePair(w)]
  <2> SUFFICES ASSUME Decode("pair", w) # Nothing
               PROVE  Same(Encode("pair", Decode("pair", w)), w) /\ Sound("pair", Decode("pair", w))
    OBVIOUS
  <2>1. DecodePair(w) # NoPair /\ Decode("pair", w) = x
    BY DecodeIs, Zenon
  <2>2. x.regs = DecodePair(w)
    OBVIOUS
  <2>3. Same(EncodePair(DecodePair(w)), w) /\ ValidPair(DecodePair(w))
    BY <2>1, PairDecoded, Zenon DEF Pairs
  <2> HIDE DEF x
  <2> QED
    BY <2>1, <2>2, <2>3, EncodeIs, SoundIs, Zenon
<1> HIDE DEF Goal
<1>14. Goal(f)
  BY <1>1, <1>2, <1>3, <1>4, <1>5, <1>6, <1>7, <1>8, <1>9, <1>10, <1>11, <1>12, <1>13, Zenon DEF Formats
<1> QED
  BY <1>14, Zenon DEF Goal, Same

\* A versioned checkpoint is stored as an image that decode reads back: no
\* field of it is left out or changed (encode and decode of every format).
THEOREM Stored ==
  ASSUME NEW f \in Formats, NEW x \in Versions(f), Sound(f, x)
  PROVE  Image(Encode(f, x)) /\ Decode(f, Encode(f, x)) = x
<1> DEFINE Back(g) == Image(Encode(g, x)) /\ Decode(g, Encode(g, x)) = x
           Goal(g) == x \in Versions(g) /\ Sound(g, x) => Back(g)
<1>1. Goal("vcpu")
  <2> SUFFICES ASSUME x \in Versions("vcpu"), Sound("vcpu", x)
               PROVE  Back("vcpu")
    OBVIOUS
  <2>1. x \in Vcpus /\ ValidMsrs(x.msrs)
    BY VersionsIs, SoundIs, Zenon DEF VcpuSound
  <2> QED
    BY <2>1, DecodeIs, EncodeIs, VcpuStored, Zenon
<1>2. Goal("page")
  <2> SUFFICES ASSUME x \in Versions("page"), Sound("page", x)
               PROVE  Back("page")
    OBVIOUS
  <2>1. x \in PageSets /\ ValidPages(x.pages) /\ ValidMsrs(x.vcpu.msrs)
    BY VersionsIs, SoundIs, Zenon DEF PageSound, VcpuSound
  <2> QED
    BY <2>1, DecodeIs, EncodeIs, PageStored, Zenon
<1>3. Goal("full")
  <2> SUFFICES ASSUME x \in Versions("full"), Sound("full", x)
               PROVE  Back("full")
    OBVIOUS
  <2>1. x \in Fulls /\ FullSound(x)
    BY VersionsIs, SoundIs, Zenon
  <2> QED
    BY <2>1, DecodeIs, EncodeIs, FullStored, Zenon
<1>4. Goal("smp")
  <2> SUFFICES ASSUME x \in Versions("smp"), Sound("smp", x)
               PROVE  Back("smp")
    OBVIOUS
  <2>1. x \in Smps /\ SmpSound(x) /\ x.owners = <<x.ids, x.ids>>
    BY VersionsIs, SoundIs, Zenon DEF OwnSmps
  <2> QED
    BY <2>1, DecodeIs, EncodeIs, SmpStored, Zenon
<1>5. Goal("blk")
  <2> SUFFICES ASSUME x \in Versions("blk"), Sound("blk", x)
               PROVE  Back("blk")
    OBVIOUS
  <2>1. x \in BlkStates /\ BlkSound(x)
    BY VersionsIs, SoundIs, Zenon
  <2> QED
    BY <2>1, DecodeIs, EncodeIs, BlkStored, Zenon
<1>6. Goal("twoBlk")
  <2> SUFFICES ASSUME x \in Versions("twoBlk"), Sound("twoBlk", x)
               PROVE  Back("twoBlk")
    OBVIOUS
  <2>1. x \in TwoBlkStates /\ FullSound(x.ctl) /\ DevicesSound(x.devs)
    BY VersionsIs, SoundIs, Zenon DEF TwoBlkSound
  <2> QED
    BY <2>1, DecodeIs, EncodeIs, TwoBlkStored, Zenon
<1>7. Goal("smpBlk")
  <2> SUFFICES ASSUME x \in Versions("smpBlk"), Sound("smpBlk", x)
               PROVE  Back("smpBlk")
    OBVIOUS
  <2>1. x \in SmpBlkStates /\ SmpBlkSound(x)
    BY VersionsIs, SoundIs, Zenon
  <2> QED
    BY <2>1, DecodeIs, EncodeIs, SmpBlkStored, Zenon
<1>8. Goal("tx")
  <2> SUFFICES ASSUME x \in Versions("tx"), Sound("tx", x)
               PROVE  Back("tx")
    OBVIOUS
  <2> DEFINE b == x.cp
             r == x.regs[1]
             c == [cp |-> b, regs |-> <<r>>]
  <2>0. x \in [cp : BlkStates, regs : [1..1 -> Specs]]
    BY VersionsIs, Zenon
  <2>1. b \in BlkStates /\ r \in Specs /\ Same(x, c)
    BY <2>0 DEF Same
  <2>2. BlkSound(b)
    BY SoundIs, Zenon
  <2> HIDE DEF b, r
  <2>3. Image(EncodeTx(c)) /\ DecodeTx(EncodeTx(c)) = c
    BY <2>1, <2>2, TxStored, Zenon
  <2> HIDE DEF c
  <2> QED
    BY <2>1, <2>3, DecodeIs, EncodeIs, Zenon DEF Same
<1>9. Goal("twoTx")
  <2> SUFFICES ASSUME x \in Versions("twoTx"), Sound("twoTx", x)
               PROVE  Back("twoTx")
    OBVIOUS
  <2> DEFINE b == x.cp
             r == x.regs
             c == [cp |-> b, regs |-> r]
  <2>0. x \in [cp : TwoBlkStates, regs : Pairs]
    BY VersionsIs, Zenon
  <2>1. b \in TwoBlkStates /\ r \in Pairs /\ Same(x, c)
    BY <2>0 DEF Same
  <2>2. FullSound(b.ctl) /\ DevicesSound(b.devs)
    BY SoundIs, Zenon DEF TwoBlkSound
  <2> HIDE DEF b, r
  <2>3. Image(EncodeTwoTx(c)) /\ DecodeTwoTx(EncodeTwoTx(c)) = c
    BY <2>1, <2>2, TwoTxStored, Zenon
  <2> HIDE DEF c
  <2> QED
    BY <2>1, <2>3, DecodeIs, EncodeIs, Zenon DEF Same
<1>10. Goal("smpTx")
  <2> SUFFICES ASSUME x \in Versions("smpTx"), Sound("smpTx", x)
               PROVE  Back("smpTx")
    OBVIOUS
  <2> DEFINE b == x.cp
             r == x.regs
             c == [cp |-> b, regs |-> r]
  <2>0. x \in [cp : SmpBlkStates, regs : Pairs]
    BY VersionsIs, Zenon
  <2>1. b \in SmpBlkStates /\ r \in Pairs /\ Same(x, c)
    BY <2>0 DEF Same
  <2>2. SmpBlkSound(b) /\ Bound(b.devs, r)
    BY SoundIs, Zenon DEF ValidTx
  <2> HIDE DEF b, r
  <2>3. Image(EncodeSmpTx(c)) /\ DecodeSmpTx(EncodeSmpTx(c)) = c
    BY <2>1, <2>2, SmpTxStored, Zenon
  <2> HIDE DEF c
  <2> QED
    BY <2>1, <2>3, DecodeIs, EncodeIs, Zenon DEF Same
<1>11. Goal("smpTx2")
  <2> SUFFICES ASSUME x \in Versions("smpTx2"), Sound("smpTx2", x)
               PROVE  Back("smpTx2")
    OBVIOUS
  <2> DEFINE b == x.cp
             r == x.regs
             t == x.token
             c == [cp |-> b, regs |-> r, token |-> t]
  <2>0. x \in [cp : SmpBlkStates, regs : Pairs, token : Tokens]
    BY VersionsIs, Zenon
  <2>1. b \in SmpBlkStates /\ r \in Pairs /\ t \in Tokens /\ Same(x, c)
    BY <2>0 DEF Same
  <2>2. SmpBlkSound(b) /\ Bound(b.devs, r) /\ CompletionParts(t) /\ CompletionValid(b, t)
    BY SoundIs, Zenon DEF ValidTx, CompletionSound
  <2> HIDE DEF b, r, t
  <2>3. Image(EncodeCompletionTx(c)) /\ DecodeCompletionTx(EncodeCompletionTx(c)) = c
    BY <2>1, <2>2, CompletionTxStored, Zenon
  <2> HIDE DEF c
  <2> QED
    BY <2>1, <2>3, DecodeIs, EncodeIs, Zenon DEF Same
<1>12. Goal("smpTx3")
  <2> SUFFICES ASSUME x \in Versions("smpTx3"), Sound("smpTx3", x)
               PROVE  Back("smpTx3")
    OBVIOUS
  <2> DEFINE b == x.cp
             r == x.regs
             t == x.token
             c == [cp |-> b, regs |-> r, token |-> t]
  <2>0. x \in [cp : SmpBlkStates, regs : Pairs, token : Tokens]
    BY VersionsIs, Zenon
  <2>1. b \in SmpBlkStates /\ r \in Pairs /\ t \in Tokens /\ Same(x, c)
    BY <2>0 DEF Same
  <2>2. SmpBlkSound(b) /\ Bound(b.devs, r) /\ NotificationParts(t) /\ NotificationValid(b, t)
    BY SoundIs, Zenon DEF ValidTx, NotificationSound
  <2> HIDE DEF b, r, t
  <2>3. Image(EncodeNotificationTx(c)) /\ DecodeNotificationTx(EncodeNotificationTx(c)) = c
    BY <2>1, <2>2, NotificationTxStored, Zenon
  <2> HIDE DEF c
  <2> QED
    BY <2>1, <2>3, DecodeIs, EncodeIs, Zenon DEF Same
<1>13. Goal("pair")
  <2> SUFFICES ASSUME x \in Versions("pair"), Sound("pair", x)
               PROVE  Back("pair")
    OBVIOUS
  <2> DEFINE p == x.regs
             w == EncodePair(p)
  <2>0. x \in [regs : Pairs]
    BY VersionsIs, Zenon
  <2>1. p \in Pairs /\ Same(x, [regs |-> p])
    BY <2>0 DEF Same
  <2> HIDE DEF p
  <2>2. Image(w) /\ DecodePair(w) = p /\ p # NoPair
    BY <2>1, PairImage, Zenon
  <2>3. Encode("pair", x) = w
    BY EncodeIs, Zenon DEF p
  <2> HIDE DEF w
  <2>4. Decode("pair", w) = [regs |-> p]
    BY <2>2, DecodeIs, Zenon
  <2> QED
    BY <2>1, <2>2, <2>3, <2>4, Zenon DEF Same
<1> HIDE DEF Goal
<1>14. Goal(f)
  BY <1>1, <1>2, <1>3, <1>4, <1>5, <1>6, <1>7, <1>8, <1>9, <1>10, <1>11, <1>12, <1>13, Zenon DEF Formats
<1> QED
  BY <1>14, Zenon DEF Goal

-----------------------------------------------------------------------------
\* The transport

\* A damaged image is words still.
LEMMA DamagedWords ==
  ASSUME NEW w \in Words, NEW u \in Damaged(w)
  PROVE  u \in Words
<1>1. PICK i \in DOMAIN w : u \in {WithWord(w, i, v) : v \in ({0, w[i] + 1, w[i] - 1} \cap Nat) \ {w[i]}}
                                   \cup {WithoutWord(w, i), WithTwice(w, i)}
  BY Zenon DEF Damaged
<1>2. i \in 1..Len(w) /\ Len(w) \in Nat /\ w \in Seq(Nat)
  BY DEF Words
<1>3. CASE \E v \in Nat : u = WithWord(w, i, v)
  BY <1>2, <1>3 DEF WithWord, Words
<1>4. /\ SubSeq(w, 1, i - 1) \in Words /\ SubSeq(w, i + 1, Len(w)) \in Words
      /\ SubSeq(w, 1, i) \in Words /\ SubSeq(w, i, Len(w)) \in Words
  <2>1. ASSUME NEW a \in Nat \ {0}, NEW b \in Nat, b <= Len(w)
        PROVE  SubSeq(w, a, b) \in Seq(Nat)
    BY <1>2, <2>1
  <2>2. /\ 1 \in Nat \ {0} /\ i \in Nat \ {0} /\ i + 1 \in Nat \ {0} /\ i \in Nat /\ i - 1 \in Nat
        /\ i - 1 <= Len(w) /\ i <= Len(w) /\ Len(w) <= Len(w)
    BY <1>2
  <2> QED
    BY <1>2, <2>1, <2>2, Zenon DEF Words
<1>5. WithoutWord(w, i) \in Words /\ WithTwice(w, i) \in Words
  BY <1>4, ConcatIs, Zenon DEF WithoutWord, WithTwice
<1> QED
  BY <1>1, <1>3, <1>5, Zenon

\* An image to be carried is stored, and any other is not.
LEMMA Images ==
  ASSUME NEW f \in DOMAIN Restorable, NEW x
  PROVE  LET s == Versioned(f, x) IN
         /\ f \in Formats
         /\ x \in Restorable[f] =>
              /\ s # Nothing /\ Encode(f, s) \in Words /\ Encode(f, s) # <<>> /\ Decode(f, Encode(f, s)) = s
              /\ \A h : Materialize(f, s, h) # Nothing => Alike(Contents(f, Materialize(f, s, h)), Contents(f, x))
         /\ x \in Unrestorable[f] => s = Nothing
<1> DEFINE s == Versioned(f, x)
<1>1. f \in Formats
  BY ImagesAssumption, Zenon
<1>2. CASE x \in Restorable[f]
  <2>1. x \in Captures(f) /\ Carried(f, x) /\ ~(x \in Unrestorable[f])
    BY <1>2, ImagesAssumption, Zenon
  <2>2. Kept(f, x)
    BY <1>1, <2>1, FromCheckpoint, Zenon
  <2>3. /\ s # Nothing /\ s \in Versions(f) /\ Sound(f, s)
        /\ \A h : Materialize(f, s, h) # Nothing => Alike(Contents(f, Materialize(f, s, h)), Contents(f, x))
    BY <2>1, <2>2, Zenon DEF Kept
  <2> HIDE DEF s
  <2>4. Image(Encode(f, s)) /\ Decode(f, Encode(f, s)) = s
    BY <1>1, <2>3, Stored, Zenon
  <2>5. Encode(f, s) \in Words /\ Encode(f, s) # <<>>
    BY <2>4 DEF Image, Words
  <2> QED
    BY <1>1, <2>1, <2>3, <2>4, <2>5, Zenon DEF s
<1>3. CASE ~(x \in Restorable[f])
  <2>1. x \in Unrestorable[f] => x \in Captures(f) /\ ~Carried(f, x)
    BY ImagesAssumption, Zenon
  <2>2. x \in Unrestorable[f] => Kept(f, x)
    BY <1>1, <2>1, FromCheckpoint, Zenon
  <2> QED
    BY <1>1, <1>3, <2>1, <2>2, Zenon DEF Kept
<1> QED
  BY <1>2, <1>3, Zenon

\* The invariant holds from the capture on, whatever happens to the image.
LEMMA InvHolds == Spec => []Inv
<1>1. Init => Inv
  BY DEF Init, Inv
<1>2. Inv /\ [Next]_vars => Inv'
  <2> SUFFICES ASSUME Inv, [Next]_vars
               PROVE  Inv'
    OBVIOUS
  <2> DEFINE Held == /\ format \in DOMAIN Restorable
                     /\ image \in Restorable[format] \cup Unrestorable[format] /\ faults \in Nat
  <2>1. Held
    BY Zenon DEF Inv
  <2>2. CASE Store
    <3> DEFINE v == Versioned(format, image)
               w == Encode(format, v)
    <3>1. /\ image \in Restorable[format] => v # Nothing /\ w \in Words /\ w # <<>>
          /\ image \in Unrestorable[format] => v = Nothing
      BY <2>1, Images, Zenon
    <3>2. /\ stage = "captured" /\ faults = 0
          /\ words' = IF v = Nothing THEN <<>> ELSE w
          /\ stage' = IF words' = <<>> THEN "unstored" ELSE "stored"
          /\ UNCHANGED <<format, image, faults, decoded, host, result>>
      BY <2>2 DEF Store, Inv
    <3>3. CASE image \in Restorable[format]
      <4>1. words' = w /\ w \in Seq(Nat) /\ stage' = "stored"
        BY <3>1, <3>2, <3>3, Zenon DEF Words
      <4> HIDE DEF w, v
      <4>2. w' = w
        BY <3>2, Zenon DEF w, v
      <4> QED
        BY <2>1, <3>2, <3>3, <4>1, Zenon DEF Inv, w, v
    <3>4. CASE image \in Unrestorable[format]
      <4>1. words' = <<>> /\ stage' = "unstored"
        BY <3>1, <3>2, <3>4, Zenon
      <4> HIDE DEF w, v
      <4> QED
        BY <2>1, <3>2, <3>4, <4>1, Zenon DEF Inv
    <3> QED
      BY <2>1, <3>3, <3>4, Zenon
  <2>3. CASE Damage
    <3>1. /\ stage = "stored" /\ words' \in Damaged(words) /\ faults' = faults + 1
          /\ UNCHANGED <<format, image, decoded, host, result, stage>>
      BY <2>3, Zenon DEF Damage
    <3>2. image \in Restorable[format] /\ words \in Words
      BY <3>1, Zenon DEF Inv, Words
    <3>3. words' \in Seq(Nat)
      BY <3>1, <3>2, DamagedWords, Zenon DEF Words
    <3>4. faults' \in Nat /\ faults' # 0
      BY <2>1, <3>1
    <3> QED
      BY <2>1, <3>1, <3>2, <3>3, <3>4, Zenon DEF Inv
  <2>4. CASE Load
    BY <2>4, Zenon DEF Inv, Load
  <2>5. CASE Rebuild
    BY <2>5, Zenon DEF Inv, Rebuild
  <2>6. CASE UNCHANGED vars
    BY <2>6, Zenon DEF Inv, vars
  <2> QED
    BY <2>2, <2>3, <2>4, <2>5, <2>6, Zenon DEF Next
<1> QED
  BY <1>1, <1>2, PTL DEF Spec

\* Whatever images are captured, and whatever happens to them in store: what
\* the formats promise to carry is stored and comes back whole, and nothing
\* else is stored (from_checkpoint, encode, decode and materialize).
THEOREM StoredWhole == Spec => []StoredReturnsWhole
<1>1. Inv => StoredReturnsWhole
  <2> SUFFICES ASSUME Inv
               PROVE  StoredReturnsWhole
    OBVIOUS
  <2> DEFINE s == Versioned(format, image)
  <2>1. (stage = "unstored" => image \in Unrestorable[format]) /\ (stage = "stored" => image \in Restorable[format])
    BY Zenon DEF Inv
  <2>2. ASSUME faults = 0, stage \in {"rejected", "done"}
        PROVE  /\ s # Nothing /\ Decode(format, words) = s
               /\ \A h : Materialize(format, s, h) # Nothing =>
                    Alike(Contents(format, Materialize(format, s, h)), Contents(format, image))
    <3>1. format \in DOMAIN Restorable /\ image \in Restorable[format] /\ words = Encode(format, s)
      BY <2>2, Zenon DEF Inv
    <3> QED
      BY <3>1, Images, Zenon
  <2> HIDE DEF s
  <2>3. faults = 0 => stage # "rejected"
    BY <2>2, Zenon DEF Inv
  <2>4. ASSUME faults = 0, stage = "done"
        PROVE  Contents(format, result) = Contents(format, image)
    <3>1. decoded = Decode(format, words) /\ result = Materialize(format, decoded, host) /\ result # Nothing
      BY <2>4, Zenon DEF Inv
    <3> QED
      BY <2>2, <2>4, <3>1, Zenon DEF Alike
  <2> QED
    BY <2>1, <2>3, <2>4, Zenon DEF StoredReturnsWhole
<1> QED
  BY <1>1, InvHolds, PTL

\* Whatever happened to a stored image, encoding what decode made of it gives
\* the very same words again: decode ignores no word (decode and encode).
THEOREM Canonical == Spec => []AcceptedIsCanonical
<1>1. Inv => AcceptedIsCanonical
  <2> SUFFICES ASSUME Inv, stage \in {"loaded", "unsupported", "done"}
               PROVE  Encode(format, decoded) = words
    BY Zenon DEF AcceptedIsCanonical
  <2>1. format \in DOMAIN Restorable /\ words \in Words /\ decoded = Decode(format, words) /\ decoded # Nothing
    BY DEF Inv, Words
  <2>2. format \in Formats
    BY <2>1, ImagesAssumption, Zenon
  <2> QED
    BY <2>1, <2>2, Decoded, Zenon
<1> QED
  BY <1>1, InvHolds, PTL

\* Whatever happened to a stored image, what decode accepted is refused later
\* only for an MSR that the host does not offer (decode and materialize).
THEOREM RefusedForMsrs == Spec => []RefusedOnlyForMsrs
<1>1. Inv => RefusedOnlyForMsrs
  <2> SUFFICES ASSUME Inv, stage = "unsupported", MsrsNeeded(format, decoded) \subseteq host
               PROVE  FALSE
    BY Zenon DEF RefusedOnlyForMsrs
  <2>1. /\ format \in DOMAIN Restorable /\ words \in Words /\ decoded = Decode(format, words) /\ decoded # Nothing
        /\ Materialize(format, decoded, host) = Nothing
    BY DEF Inv, Words
  <2>2. format \in Formats
    BY <2>1, ImagesAssumption, Zenon
  <2>3. Sound(format, decoded)
    BY <2>1, <2>2, Decoded, Zenon
  <2> QED
    BY <2>1, <2>2, <2>3, Supported, Zenon
<1> QED
  BY <1>1, InvHolds, PTL
=============================================================================
