----------------------------- MODULE ByteDevice -----------------------------
(***************************************************************************)
(* The one-register MMIO devices of mmio.rs as pure operators: what an     *)
(* access does to a device, and which event the host takes from it next.   *)
(* An access is [off, dir, val]; a device is one of the three modes of     *)
(* ByteMmioDeviceMode.  Values are whatever the fixtures write.            *)
(***************************************************************************)
EXTENDS Integers, Sequences

Ack     == "1"     \* LEVEL_INTERRUPT_ACK_VALUE, and the pending STATUS value
Idle    == "0"     \* the STATUS value of a device with nothing pending

NewDevice(mode, read) ==
  [mode |-> mode, read |-> read, writes |-> <<>>, pending |-> FALSE, asserted |-> FALSE]

\* The offsets a device answers at: COMMAND, STATUS and ACK of a level device.
Registers(d) == IF d.mode = "level" THEN 0..2 ELSE {0}

Accepts(d, a) ==
  \/ d.mode # "level"
  \/ <<a.off, a.dir>> = <<0, "write">>
  \/ <<a.off, a.dir>> = <<1, "read">>
  \/ <<a.off, a.dir>> = <<2, "write">> /\ a.val = Ack

\* A device after an accepted access.  A write raises the interrupt of an
\* edge device and of a level device's COMMAND; ACK takes the latter back.
Access(d, a) ==
  IF a.dir = "read" THEN d
  ELSE [d EXCEPT !.writes = Append(@, a.val),
                 !.pending = (d.mode = "edge") \/ (d.mode = "level" /\ a.off = 0)]

Response(d, a) ==
  IF d.mode = "level" THEN (IF d.pending THEN Ack ELSE Idle) ELSE d.read

\* The event the next poll of this device returns.
Event(d) ==
  CASE d.mode = "edge" /\ d.pending                     -> "request"
    [] d.mode = "level" /\ d.pending /\ ~d.asserted     -> "assert"
    [] d.mode = "level" /\ ~d.pending /\ d.asserted     -> "deassert"
    [] OTHER                                            -> "none"

\* The device once that event was taken.
Taken(d) ==
  CASE Event(d) = "request"  -> [d EXCEPT !.pending = FALSE]
    [] Event(d) = "assert"   -> [d EXCEPT !.asserted = TRUE]
    [] Event(d) = "deassert" -> [d EXCEPT !.asserted = FALSE]
    [] OTHER                 -> d
=============================================================================
