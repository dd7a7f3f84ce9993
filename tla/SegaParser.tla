----------------------------- MODULE SegaParser -----------------------------
(***************************************************************************)
(* The byte parser of the SEGA protocol, impl/firmware/main/sega.c: frames *)
(* start with SYNC, the bytes SYNC and ESCAPE are sent as ESCAPE and the   *)
(* byte minus one, the first byte is the number of bytes before the        *)
(* checksum.  Its state survives from one CDC message to the next, so a    *)
(* step is the loop body of sega_receive for one byte, whatever messages   *)
(* the bytes came in, and the input may be any bytes at all.               *)
(***************************************************************************)
EXTENDS Naturals, Sequences, ByteSums

CONSTANTS
    ByteMod,    \* number of byte values (256 in the code)
    SYNC,       \* 0xE0 in the code
    ESCAPE,     \* 0xD0 in the code
    Capacity,   \* size of parser.bytes (257 in the code)
    Addresses   \* the addresses that are dispatched, NFC and LED

Byte == 0 .. (ByteMod - 1)

ASSUME ByteAssumption ==
    /\ ByteMod \in Nat \ {0}
    /\ SYNC \in Byte /\ ESCAPE \in Byte /\ SYNC # ESCAPE
    /\ Capacity \in Nat /\ ByteMod < Capacity

VARIABLES
    synchronized,  \* parser.synchronized
    escaped,       \* parser.escaped
    bytes,         \* parser.bytes up to parser.size
    request        \* the request that the last byte handed to dispatch, or <<>>

parser == <<synchronized, escaped, bytes, request>>

\* The sum of the bytes before the checksum, in 8 bits.
Checksum(frame) == ByteSum(frame) % ByteMod

\* reset_parser
reset_parser ==
    /\ synchronized' = FALSE
    /\ escaped' = FALSE
    /\ bytes' = <<>>

\* dispatch: the length and the payload length must agree and somebody must
\* have the address.
dispatch(frame) ==
    /\ Len(frame) >= 5
    /\ frame[1] = Len(frame)
    /\ frame[5] = Len(frame) - 5
    /\ frame[2] \in Addresses

ParserInit ==
    /\ synchronized = FALSE
    /\ escaped = FALSE
    /\ bytes = <<>>
    /\ request = <<>>

\* Between frames everything up to SYNC is skipped.
Unsynchronized(byte) ==
    /\ ~synchronized
    /\ synchronized' = (byte = SYNC)
    /\ bytes' = IF byte = SYNC THEN <<>> ELSE bytes
    /\ request' = <<>>
    /\ UNCHANGED escaped

\* A parser that takes a SYNC inside a frame for line noise.
Resynchronize_Ignored(byte) ==
    /\ synchronized /\ ~escaped
    /\ byte = SYNC
    /\ request' = <<>>
    /\ UNCHANGED <<synchronized, escaped, bytes>>

\* A SYNC inside a frame starts a new one.
Resynchronize(byte) ==
    /\ synchronized /\ ~escaped
    /\ byte = SYNC
    /\ bytes' = <<>>
    /\ request' = <<>>
    /\ UNCHANGED <<synchronized, escaped>>

Escape(byte) ==
    /\ synchronized /\ ~escaped
    /\ byte = ESCAPE
    /\ escaped' = TRUE
    /\ request' = <<>>
    /\ UNCHANGED <<synchronized, bytes>>

\* An unescaped byte that is kept in a wider integer.
Decoded_Wide(byte) == IF escaped THEN byte + 1 ELSE byte

\* byte++ of an escaped byte, in 8 bits.
Decoded(byte) == IF escaped THEN (byte + 1) % ByteMod ELSE byte

\* A parser that keeps a frame whose checksum is wrong.
Store_KeepsBadFrame(byte) ==
    LET collected == Append(bytes, Decoded(byte))
        expected == collected[1] + 1
        good == Checksum(bytes) = Decoded(byte)
    IN /\ synchronized
       /\ escaped \/ byte \notin {SYNC, ESCAPE}
       /\ IF Len(collected) > expected \/ (Len(collected) = expected /\ good)
          THEN reset_parser
          ELSE bytes' = collected /\ escaped' = FALSE /\ UNCHANGED synchronized
       /\ request' = IF Len(collected) = expected /\ good /\ dispatch(bytes)
                     THEN bytes ELSE <<>>

\* A byte of the frame.  The last one is the checksum: a frame is dispatched if
\* it agrees, and the parser starts over either way.
Store(byte) ==
    LET collected == Append(bytes, Decoded(byte))
        expected == collected[1] + 1
    IN /\ synchronized
       /\ escaped \/ byte \notin {SYNC, ESCAPE}
       /\ IF Len(bytes) >= Capacity \/ Len(collected) >= expected
          THEN reset_parser
          ELSE bytes' = collected /\ escaped' = FALSE /\ UNCHANGED synchronized
       /\ request' = IF /\ Len(bytes) < Capacity
                        /\ Len(collected) = expected
                        /\ Checksum(bytes) = Decoded(byte)
                        /\ dispatch(bytes)
                     THEN bytes ELSE <<>>

\* The loop body of sega_receive.
sega_receive(byte) ==
    Unsynchronized(byte) \/ Resynchronize(byte) \/ Escape(byte) \/ Store(byte)

ParserNext == \E byte \in Byte : sega_receive(byte)

ParserSpec == ParserInit /\ [][ParserNext]_parser

-----------------------------------------------------------------------------
\* The parser's flags and bytes; no byte is wider than 8 bits.
ParserTypeOK ==
    /\ synchronized \in BOOLEAN /\ escaped \in BOOLEAN
    /\ bytes \in Seq(Byte)
    /\ request \in Seq(Byte)

\* Whatever bytes arrive, parser.bytes is never overrun: a frame in progress is
\* never longer than its own first byte says, so that the checksum still fits and
\* the two resets for frames that are too long are never needed; and an escape is
\* only ever pending inside a frame.
FrameFits ==
    /\ bytes # <<>> => Len(bytes) <= bytes[1]
    /\ Len(bytes) + 1 < Capacity
    /\ ~synchronized => ~escaped /\ bytes = <<>>
=============================================================================
