-------------------------- MODULE MCExecutionLoop --------------------------
(* A budget of three exits on a mapping of eight bytes. *)
EXTENDS ExecutionLoop

Io(dir, size, count, offset, port) ==
    [reason |-> "io", dir |-> dir, size |-> size, count |-> count, offset |-> offset,
     port |-> port]

\* Well-formed accesses at both ends of the mapping, one byte past it, with a wrong size,
\* count, direction or port.
MCIoExits ==
    {Io("out", 1, 1, 4, "debug"), Io("in", 1, 1, 7, "debug"), Io("in", 1, 1, 8, "debug"),
     Io("in", 1, 2, 4, "debug"), Io("bad", 1, 1, 4, "debug"), Io("in", 4, 1, 4, "pci"),
     Io("in", 4, 1, 5, "pci"), Io("in", 2, 1, 4, "pci"), Io("out", 1, 1, 4, "other")}

MCMmioExits ==
    [reason : {"mmio"}, dir : {"read", "write"}, length : {0, 1, 8, 9}, handled : {TRUE}]
        \cup [reason : {"mmio"}, dir : {"bad", "read"}, length : {1}, handled : {FALSE}]
=============================================================================
