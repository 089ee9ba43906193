-------------------------- MODULE MCVirtioBlkQueue --------------------------
(* Small instances of VirtioBlkQueue: two sectors, two payloads, a queue of   *)
(* two chains, ring indices that wrap after four.                           *)
EXTENDS VirtioBlkQueue

TwoValues == {"a", "b"}
AllA == [s \in Sectors |-> "a"]
AllB == [s \in Sectors |-> "b"]
Mixed == [s \in Sectors |-> IF s = 0 THEN "b" ELSE "a"]
TwoPayloads == {Mixed, AllB}
OnePayload == {AllB}

Req(kind, first, count) == [kind |-> kind, first |-> first, count |-> count,
                            data_mapped |-> TRUE, status_mapped |-> TRUE]

\* Whole-disk and single-sector requests.
GoodRequests == {Req("IN", 0, 2), Req("OUT", 0, 2), Req("OUT", 1, 1)}

\* The same and what the services refuse: another type, no data, a range past the end,
\* a status byte or a data buffer outside guest memory.
AllRequests ==
    {Req("IN", 0, 2), Req("OUT", 1, 1), Req("OTHER", 0, 1), Req("OUT", 1, 2),
     [Req("IN", 0, 1) EXCEPT !.status_mapped = FALSE],
     [Req("OUT", 0, 1) EXCEPT !.data_mapped = FALSE]}
=============================================================================
