------------------------------ MODULE SegaLine ------------------------------
(***************************************************************************)
(* The SEGA parser at the end of a line that loses data: a host writes     *)
(* framed requests, the CDC callback drops what does not fit into the      *)
(* message queue (impl/firmware/main/usb_device.c), anywhere in the stream,*)
(* and the parser has to find its way back.                                *)
(***************************************************************************)
EXTENDS SegaParser, SequencesExt

CONSTANTS
    Requests,    \* what the host may ask, without SYNC, escapes and checksum
    MaxRequests, \* bound on the requests the host writes
    MaxLosses    \* bound on the losses

ASSUME RequestAssumption ==
    /\ \A r \in Requests : r \in Seq(Byte) /\ dispatch(r)
    /\ MaxRequests \in Nat /\ MaxLosses \in Nat

VARIABLES
    line,        \* the bytes on their way to sega_receive
    losses,      \* how often bytes were lost
    written,     \* history: requests written
    since,       \* history: requests written after the last loss
    dispatched   \* history: requests dispatched

vars == <<parser, line, losses, written, since, dispatched>>

\* An encoder that forgets to escape ESCAPE itself.
encode_byte_SyncOnly(byte) == IF byte = SYNC THEN <<ESCAPE, byte - 1>> ELSE <<byte>>

\* encode_byte, in 8 bits.
encode_byte(byte) ==
    IF byte \in {SYNC, ESCAPE} THEN <<ESCAPE, (byte + ByteMod - 1) % ByteMod>> ELSE <<byte>>

\* The frame of send_response; hosts frame their requests in the same way.
Frame(content) ==
    LET plain == Append(content, Checksum(content))
    IN <<SYNC>> \o FlattenSeq([i \in DOMAIN plain |-> encode_byte(plain[i])])

Init ==
    /\ ParserInit
    /\ line = <<>> /\ losses = 0
    /\ written = <<>> /\ since = <<>> /\ dispatched = <<>>

\* The host writes a request.
Write(r) ==
    /\ Len(written) < MaxRequests
    /\ line' = line \o Frame(r)
    /\ written' = Append(written, r)
    /\ since' = Append(since, r)
    /\ UNCHANGED <<parser, losses, dispatched>>

\* A full message queue: the next bytes of the stream are dropped.
Lose ==
    /\ losses < MaxLosses
    /\ losses' = losses + 1
    /\ \E n \in 1 .. Len(line) : line' = SubSeq(line, n + 1, Len(line))
    /\ since' = <<>>
    /\ UNCHANGED <<parser, written, dispatched>>

\* sega_receive of the next byte.
Receive ==
    /\ line # <<>>
    /\ line' = Tail(line)
    /\ sega_receive(Head(line))
    /\ dispatched' = IF request' = <<>> THEN dispatched ELSE Append(dispatched, request')
    /\ UNCHANGED <<losses, written, since>>

Next == (\E r \in Requests : Write(r)) \/ Lose \/ Receive

Spec == Init /\ [][Next]_vars

-----------------------------------------------------------------------------
\* The parser's state and the bytes on the line.
TypeOK ==
    /\ ParserTypeOK
    /\ line \in Seq(Byte)
    /\ losses \in 0 .. MaxLosses

\* On a line that loses nothing the requests are dispatched as they were written,
\* each once and in order, whichever of their bytes, length and checksum included,
\* have to be escaped.
ExactWithoutLoss ==
    losses = 0 =>
        /\ IsPrefix(dispatched, written)
        /\ line = <<>> => dispatched = written

\* After a loss at most one request goes astray: the parser may be inside a frame
\* and even behind an ESCAPE, which takes the next SYNC for data, but every request
\* after the next one is dispatched.
Recovers ==
    line = <<>> /\ since # <<>> => IsSuffix(Tail(since), dispatched)
=============================================================================
