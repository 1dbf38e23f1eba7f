----------------------------- MODULE MCPcapCopy -----------------------------
(* Every capture of up to MaxRecords records.                              *)
EXTENDS PcapCopy

CONSTANT MaxRecords

MCCaptures ==
    UNION {[1 .. n -> {"frame", "rejected", "corrupt"}] : n \in 0 .. MaxRecords}
=============================================================================
