---------------------------- MODULE MCIpChecksum ----------------------------
(* ip::checksum with one-bit bytes: a u16 has 4 values and a u32 has 16,   *)
(* so that inputs of up to MaxBytes overflow the accumulator.              *)
EXTENDS IpChecksum

CONSTANT MaxBytes

MCInputs == UNION {[1 .. n -> 0 .. B - 1] : n \in 0 .. MaxBytes}
=============================================================================
