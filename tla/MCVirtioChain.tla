--------------------------- MODULE MCVirtioChain ---------------------------
(* A ring of three slots with two more of guest memory behind it.  Slot 0   *)
(* is a plain descriptor or the descriptor of an indirect table at slot 1;  *)
(* slots 1 to 3 hold anything, with lengths around the header, status and   *)
(* sector thresholds; slot 4 would pass as a status.  An index of one past  *)
(* the table of four leaves guest memory.                                   *)
EXTENDS VirtioChain

Buffers ==
    [flags : {{"NEXT"}}, length : {1, 2}] \cup [flags : {{"NEXT", "WRITE"}}, length : {0, 2, 4}]
    \cup [flags : {{"WRITE"}}, length : {0, 1}] \cup [flags : {{"INDIRECT"}}, length : {2}]

At1(b, n) == [flags |-> b.flags, length |-> b.length, next |-> n, address |-> 1]

MCDescriptors == {At1(b, n) : b \in Buffers, n \in 0 .. 3}

MCDriver(first, head, negotiated, request) ==
    [placed |-> [i \in {0, 4} |->
                    IF i = 0 THEN first ELSE At1([flags |-> {"WRITE"}, length |-> 2], 0)],
     head |-> head, negotiated |-> negotiated, request |-> request]

Plain == At1([flags |-> {"NEXT", "WRITE"}, length |-> 2], 2)
Table(flags, length) == At1([flags |-> flags, length |-> length], 1)

MCRequest(type, reserved, sector) ==
    [readable |-> TRUE, type |-> type, reserved |-> reserved, sector |-> sector]
Good == {MCRequest("IN", 0, 0), MCRequest("OUT", 0, 0)}
Bad == {MCRequest("other", 0, 0), MCRequest("IN", 1, 0), MCRequest("IN", 0, 2),
        [readable |-> FALSE, type |-> "IN", reserved |-> 0, sector |-> 0]}

MCDrivers ==
    {MCDriver(Plain, 1, TRUE, r) : r \in Good}
    \cup {MCDriver(Plain, 3, TRUE, MCRequest("IN", 0, 0))}
    \cup {MCDriver(Table({"INDIRECT"}, n), 0, TRUE, r) : n \in {4, 6, 7, 8, 10}, r \in Good}
    \cup {MCDriver(Table({"INDIRECT"}, 6), 0, TRUE, r) : r \in Bad \cup {MCRequest("IN", 0, 1)}}
    \cup {MCDriver(Table({"INDIRECT", "NEXT"}, 6), 0, TRUE, MCRequest("IN", 0, 0)),
          MCDriver(Table({"INDIRECT"}, 6), 0, FALSE, MCRequest("IN", 0, 0))}
=============================================================================
