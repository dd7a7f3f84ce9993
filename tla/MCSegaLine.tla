----------------------------- MODULE MCSegaLine -----------------------------
(* SegaLine with 16 byte values.  ESCAPE is the length of a request with one *)
(* byte of payload, and the payloads are the bytes escapes are about.        *)
EXTENDS SegaLine

Nfc == 0
MCRequests ==
    {<<5, Nfc, 1, 2, 0>>, <<7, Nfc, 9, 2, 2, 15, 5>>}
        \cup {<<6, Nfc, 1, 2, 1, b>> : b \in {SYNC, ESCAPE}}
=============================================================================
