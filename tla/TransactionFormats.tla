------------------------- MODULE TransactionFormats -------------------------
(***************************************************************************)
(* The versioned formats of checkpoint transactions: a checkpoint, the     *)
(* host registrations that go with it and, in versions 2 and 3 of the      *)
(* two-vCPU format, the token of what was pending when it was taken        *)
(* (checkpoint_transaction_schema_v1.rs,                                   *)
(* two_device_checkpoint_transaction_schema_v1.rs and                      *)
(* two_vcpu_two_device_transaction_schema_v1.rs).                          *)
(***************************************************************************)
EXTENDS DeviceFormats

\* The layout all of them share: lengths of the parts, flags, reserved.
SealTx(magic, cp, regs) ==
  IF cp = <<>> THEN <<>> ELSE Sealed(magic, 1, <<Len(cp), Len(regs), 0, 0>>, cp \o regs)
\* The words of the parts that come before part i.
WordsBefore(w, i) == CASE i = 1 -> 0 [] i = 2 -> w[6] [] i = 3 -> w[6] + w[7] [] i = 4 -> w[6] + w[7] + w[8]
OpensTx(w, magic, version, n) ==
  /\ Opens(w, magic, version, 7 + n)
  /\ w[6 + n] = 0 /\ w[7 + n] = 0 /\ w[6] # 0 /\ w[7] # 0
  /\ Len(w) = 7 + n + WordsBefore(w, n + 1)
PartOf(w, n, i) == From(w, 8 + n + WordsBefore(w, i), w[5 + i])

-----------------------------------------------------------------------------
\* MHVTXN: one vCPU, one device, one registration

FromTx(c, r) ==
  LET b == FromBlk(c) IN IF b = Nothing THEN Nothing ELSE [cp |-> b, regs |-> <<r>>]
EncodeTx(x) == SealTx(TxMagic, EncodeBlk(x.cp), EncodeSpec(x.regs[1]))
DecodeTx(w) ==
  IF ~OpensTx(w, TxMagic, 1, 2) THEN Nothing
  ELSE LET b == DecodeBlk(PartOf(w, 2, 1))  r == DecodeSpec(PartOf(w, 2, 2)) IN
       IF b = Nothing \/ r = Nothing THEN Nothing ELSE [cp |-> b, regs |-> <<r>>]
MaterializeTx(x, host) ==
  LET b == MaterializeBlk(x.cp, host) IN IF b = Nothing THEN Nothing ELSE [cp |-> b, regs |-> x.regs]

-----------------------------------------------------------------------------
\* MHV2TXN: one vCPU, two devices, two registrations

FromTwoTx(c, p) ==
  LET b == FromTwoBlk(c) IN IF b = Nothing THEN Nothing ELSE [cp |-> b, regs |-> p]
EncodeTwoTx(x) == SealTx(TwoTxMagic, EncodeTwoBlk(x.cp), EncodePair(x.regs))
DecodeTwoTx(w) ==
  IF ~(OpensTx(w, TwoTxMagic, 1, 2) /\ w[7] = PairLen) THEN Nothing
  ELSE LET b == DecodeTwoBlk(PartOf(w, 2, 1))  p == DecodePair(PartOf(w, 2, 2)) IN
       IF b = Nothing \/ p = NoPair THEN Nothing ELSE [cp |-> b, regs |-> p]
MaterializeTwoTx(x, host) ==
  LET b == MaterializeTwoBlk(x.cp, host) IN
  IF b = Nothing \/ ~ValidPair(x.regs) THEN Nothing ELSE [cp |-> b, regs |-> x.regs]

-----------------------------------------------------------------------------
\* MHV2V2T: two vCPUs, two devices, two registrations bound to the devices

\* require_registration_pair_matches_devices
Bound(devs, p) ==
  \A i \in 1..2 :
    /\ devs[i].bar0 + NotifyOffset < AddressLimit
    /\ p[i].addr = devs[i].bar0 + NotifyOffset /\ p[i].len = 2 /\ p[i].match = 0

\* What encode, decode and materialize of every version check.
ValidTx(x) == ValidPair(x.regs) /\ Bound(x.cp.devs, x.regs)

FromSmpTx(c, p) ==
  LET b == FromSmpBlk(c) IN
  IF Bound(c.devs, p) /\ b # Nothing THEN [cp |-> b, regs |-> p] ELSE Nothing
EncodeSmpTx(x) ==
  IF ~ValidTx(x) THEN <<>> ELSE SealTx(SmpTxMagic, EncodeSmpBlk(x.cp), EncodePair(x.regs))
DecodeSmpTx(w) ==
  IF ~(OpensTx(w, SmpTxMagic, 1, 2) /\ w[7] = PairLen) THEN Nothing
  ELSE LET b == DecodeSmpBlk(PartOf(w, 2, 1))  p == DecodePair(PartOf(w, 2, 2)) IN
       IF b = Nothing \/ p = NoPair THEN Nothing
       ELSE LET x == [cp |-> b, regs |-> p] IN IF ValidTx(x) THEN x ELSE Nothing
MaterializeSmpTx(x, host) ==
  LET b == MaterializeSmpBlk(x.cp, host) IN
  IF b = Nothing \/ ~ValidTx(x) THEN Nothing ELSE [cp |-> b, regs |-> x.regs]

\* Versions 2 and 3: the same and a token.
SealTokenTx(version, x) ==
  LET cp == EncodeSmpBlk(x.cp)  regs == EncodePair(x.regs)  token == EncodeToken(x.token) IN
  IF cp = <<>> THEN <<>>
  ELSE Sealed(SmpTxMagic, version, <<Len(cp), Len(regs), Len(token), 0, 0>>, cp \o regs \o token)
OpensTokenTx(w, version) == OpensTx(w, SmpTxMagic, version, 3) /\ w[8] = TokenLen /\ w[7] = PairLen
OpenedTokenTx(w, token) ==
  LET b == DecodeSmpBlk(PartOf(w, 3, 1))  p == DecodePair(PartOf(w, 3, 2)) IN
  IF b = Nothing \/ p = NoPair \/ token = Nothing THEN Nothing
  ELSE LET x == [cp |-> b, regs |-> p, token |-> token] IN IF ValidTx(x) THEN x ELSE Nothing
IsTokenTx(x) == x = [cp |-> x.cp, regs |-> x.regs, token |-> x.token]
DeviceNamed(devs, t) == CHOOSE d \in {devs[1], devs[2]} : d.bar0 = t.bar0

FromCompletionTx(c, p, t) ==
  LET b == FromSmpBlkCompletion(c, t) IN
  IF Bound(c.devs, p) /\ b # Nothing THEN [cp |-> b, regs |-> p, token |-> t] ELSE Nothing
EncodeCompletionTx(x) == IF ValidTx(x) /\ CompletionValid(x.cp, x.token) THEN SealTokenTx(2, x) ELSE <<>>
DecodeCompletionTx(w) ==
  IF ~OpensTokenTx(w, 2) THEN Nothing
  ELSE LET x == OpenedTokenTx(w, DecodeCompletion(PartOf(w, 3, 3))) IN
       IF x = Nothing THEN Nothing ELSE IF CompletionValid(x.cp, x.token) THEN x ELSE Nothing
MaterializeCompletionTx(x, host) ==
  LET b == MaterializeSmpBlk(x.cp, host) IN
  IF b = Nothing \/ ~ValidTx(x) THEN Nothing
  ELSE IF Names(x.token, b.devs) /\ CompletionOnDevice(x.token, DeviceNamed(b.devs, x.token))
       THEN [x EXCEPT !.cp = b] ELSE Nothing

FromNotificationTx(c, p, t) ==
  LET b == FromSmpBlkNotification(c, t) IN
  IF Bound(c.devs, p) /\ b # Nothing THEN [cp |-> b, regs |-> p, token |-> t] ELSE Nothing
EncodeNotificationTx(x) == IF ValidTx(x) /\ NotificationValid(x.cp, x.token) THEN SealTokenTx(3, x) ELSE <<>>
DecodeNotificationTx(w) ==
  IF ~OpensTokenTx(w, 3) THEN Nothing
  ELSE LET x == OpenedTokenTx(w, DecodeNotification(PartOf(w, 3, 3))) IN
       IF x = Nothing THEN Nothing ELSE IF NotificationValid(x.cp, x.token) THEN x ELSE Nothing
MaterializeNotificationTx(x, host) ==
  LET b == MaterializeSmpBlkNotified(x.cp, host, x.token) IN
  IF b = Nothing \/ ~ValidTx(x) THEN Nothing
  ELSE IF Names(x.token, b.devs) /\ NotificationOnDevice(x.token, DeviceNamed(b.devs, x.token))
       THEN [x EXCEPT !.cp = b] ELSE Nothing
=============================================================================
