------------------------------ MODULE ByteSums ------------------------------
(***************************************************************************)
(* The sum of the bytes of a frame, which the checksums of the SEGA        *)
(* protocol and of the PN532 are made of.                                  *)
(***************************************************************************)
EXTENDS Naturals, Sequences

\* The running sums of the loop.
PartialSums(bytes) ==
    LET sum[n \in 0 .. Len(bytes)] == IF n = 0 THEN 0 ELSE sum[n - 1] + bytes[n]
    IN sum

ByteSum(bytes) == PartialSums(bytes)[Len(bytes)]
=============================================================================
