-------------------------- MODULE SegaLine_proofs --------------------------
(***************************************************************************)
(* Proofs about modules SegaParser and SegaLine, for any number of byte    *)
(* values, any SYNC and ESCAPE, any buffer that holds one byte more than   *)
(* the largest length byte, any requests, and losses anywhere.             *)
(***************************************************************************)
EXTENDS SegaLine, ByteSums_proofs

-----------------------------------------------------------------------------
(* The parser on any input.                                                *)

\* FrameFits is inductive once the bytes have their 8-bit types.
ParserInv == ParserTypeOK /\ FrameFits

\* What Append does to the bytes collected so far.
LEMMA Collect ==
    ASSUME NEW s \in Seq(Byte), NEW b \in Byte
    PROVE  /\ Append(s, b) \in Seq(Byte)
           /\ Len(s) \in Nat /\ Len(Append(s, b)) = Len(s) + 1
           /\ s = <<>> => Append(s, b)[1] = b
           /\ s # <<>> => Append(s, b)[1] = s[1] /\ s[1] \in Byte
           /\ Append(s, b) # <<>>
<1>1. /\ Append(s, b) \in Seq(Byte) /\ Append(s, b) # <<>>
      /\ Len(s) \in Nat /\ Len(Append(s, b)) = Len(s) + 1
  BY AppendProperties, LenProperties
<1>2. ASSUME s = <<>> PROVE Append(s, b)[1] = b
  BY <1>2
<1>3. ASSUME s # <<>> PROVE Append(s, b)[1] = s[1] /\ s[1] \in Byte
  <2>1. Len(s) # 0
    BY <1>3, EmptySeq
  <2>2. 1 \in 1 .. Len(s)
    BY <1>1, <2>1
  <2>3. QED
    BY <2>2, AppendProperties, ElementOfSeq
<1>4. QED
  BY <1>1, <1>2, <1>3

\* An unescaped byte is a byte.
LEMMA DecodedByte ==
    ASSUME ParserInv, NEW byte \in Byte
    PROVE  Decoded(byte) \in Byte
BY ByteAssumption DEF ParserInv, ParserTypeOK, Decoded, Byte

\* The parser starts empty.
LEMMA ParserInvInit == ParserInit => ParserInv
<1> SUFFICES ASSUME ParserInit PROVE ParserInv
  OBVIOUS
<1>1. <<>> \in Seq(Byte) /\ Len(<<>>) = 0
  OBVIOUS
<1>2. 1 < Capacity
  BY ByteAssumption
<1>3. ParserTypeOK
  BY <1>1 DEF ParserInit, ParserTypeOK
<1>4. FrameFits
  BY <1>1, <1>2 DEF ParserInit, FrameFits
<1>5. QED
  BY <1>3, <1>4 DEF ParserInv

\* An empty buffer fits.
LEMMA EmptyFits ==
    ASSUME bytes' = <<>>, synchronized' \in BOOLEAN, escaped' \in BOOLEAN,
           request' \in Seq(Byte), synchronized' \/ ~escaped'
    PROVE  ParserInv'
<1>1. <<>> \in Seq(Byte) /\ Len(<<>>) = 0
  OBVIOUS
<1>2. 1 < Capacity
  BY ByteAssumption
<1>3. QED
  BY <1>1, <1>2 DEF ParserInv, ParserTypeOK, FrameFits

\* Skipping to SYNC keeps the buffer empty.
LEMMA UnsynchronizedStep ==
    ASSUME ParserInv, NEW byte \in Byte, Unsynchronized(byte)
    PROVE  ParserInv'
<1>1. request' \in Seq(Byte)
  BY DEF Unsynchronized
<1>2. synchronized' \in BOOLEAN /\ escaped' = FALSE /\ bytes' = <<>>
  BY DEF Unsynchronized, ParserInv, ParserTypeOK, FrameFits
<1>3. QED
  BY <1>1, <1>2, EmptyFits DEF Unsynchronized

\* A SYNC empties the buffer.
LEMMA ResynchronizeStep ==
    ASSUME ParserInv, NEW byte \in Byte, Resynchronize(byte)
    PROVE  ParserInv'
<1>1. request' \in Seq(Byte)
  BY DEF Resynchronize
<1>2. QED
  BY <1>1, EmptyFits DEF Resynchronize, ParserInv, ParserTypeOK

\* An ESCAPE leaves the buffer alone, inside a frame.
LEMMA EscapeStep ==
    ASSUME ParserInv, NEW byte \in Byte, Escape(byte)
    PROVE  ParserInv'
<1>1. request' \in Seq(Byte)
  BY DEF Escape
<1>2. QED
  BY <1>1 DEF Escape, ParserInv, ParserTypeOK, FrameFits

\* A stored byte completes the frame or leaves room for the checksum.
LEMMA StoreStep ==
    ASSUME ParserInv, NEW byte \in Byte, Store(byte)
    PROVE  ParserInv'
<1> DEFINE b == Decoded(byte)
           collected == Append(bytes, b)
<1>1. b \in Byte
  BY DecodedByte
<1>2. bytes \in Seq(Byte)
  BY DEF ParserInv, ParserTypeOK
<1>3. request' \in Seq(Byte)
  <2>1. <<>> \in Seq(Byte)
    OBVIOUS
  <2>2. QED
    BY <1>2, <2>1 DEF Store
<1>4. CASE reset_parser
  BY <1>3, <1>4, EmptyFits DEF reset_parser
<1>5. CASE ~(Len(bytes) >= Capacity \/ Len(collected) >= collected[1] + 1)
  <2>1. bytes' = collected /\ escaped' = FALSE /\ synchronized' = synchronized
    BY <1>5 DEF Store
  <2>2. collected \in Seq(Byte) /\ collected[1] \in Byte /\ Len(collected) \in Nat
    BY <1>1, <1>2, Collect
  <2>3. Len(collected) <= collected[1]
    BY <1>5, <2>2 DEF Byte
  <2>4. Len(collected) + 1 < Capacity
    BY <2>2, <2>3, ByteAssumption DEF Byte
  <2>5. synchronized /\ synchronized \in BOOLEAN
    BY DEF Store, ParserInv, ParserTypeOK
  <2> HIDE DEF collected
  <2>6. QED
    BY <1>3, <2>1, <2>2, <2>3, <2>4, <2>5 DEF ParserInv, ParserTypeOK, FrameFits
<1>6. QED
  BY <1>4, <1>5 DEF Store

\* Every byte of input keeps the invariant.
LEMMA ParserInvNext == ParserInv /\ [ParserNext]_parser => ParserInv'
<1> SUFFICES ASSUME ParserInv, [ParserNext]_parser PROVE ParserInv'
  OBVIOUS
<1>1. CASE ParserNext
  BY <1>1, UnsynchronizedStep, ResynchronizeStep, EscapeStep, StoreStep
     DEF ParserNext, sega_receive
<1>2. CASE UNCHANGED parser
  BY <1>2 DEF parser, ParserInv, ParserTypeOK, FrameFits
<1>3. QED
  BY <1>1, <1>2

\* The parser's bytes and flags keep their types on any input.
THEOREM ParserTypeCorrect == ParserSpec => []ParserTypeOK
<1>1. ParserInv => ParserTypeOK
  BY DEF ParserInv
<1>2. QED
  BY <1>1, ParserInvInit, ParserInvNext, PTL DEF ParserSpec

\* parser.bytes is never overrun, whatever bytes the line delivers:
\* for 256 byte values and a buffer of 257, and for every other size.
THEOREM NeverOverrun == ParserSpec => []FrameFits
<1>1. ParserInv => FrameFits
  BY DEF ParserInv
<1>2. QED
  BY <1>1, ParserInvInit, ParserInvNext, PTL DEF ParserSpec

-----------------------------------------------------------------------------
(* Sequences that are put together from pieces: piece i of n starts where  *)
(* t[i] does, and t[n + 1] is what follows.                                *)

Chain(t, pieces, n) ==
    /\ n \in Nat /\ t \in [1 .. (n + 1) -> Seq(Byte)]
    /\ \A i \in 1 .. n : pieces[i] \in Seq(Byte) /\ t[i] = pieces[i] \o t[i + 1]

\* Concatenation of bytes is associative.
LEMMA Associative ==
    ASSUME NEW a \in Seq(Byte), NEW b \in Seq(Byte), NEW c \in Seq(Byte)
    PROVE  (a \o b) \o c = a \o (b \o c)
  BY ConcatAssociative

\* What is written behind the last piece.
LEMMA ChainAppend ==
    ASSUME NEW t, NEW pieces, NEW n, Chain(t, pieces, n), NEW s \in Seq(Byte)
    PROVE  Chain([i \in 1 .. (n + 1) |-> t[i] \o s], pieces, n)
<1>1. /\ n \in Nat /\ \A i \in 1 .. (n + 1) : t[i] \in Seq(Byte)
      /\ \A i \in 1 .. n : pieces[i] \in Seq(Byte) /\ t[i] = pieces[i] \o t[i + 1]
  BY DEF Chain
<1> DEFINE u == [i \in 1 .. (n + 1) |-> t[i] \o s]
<1>2. u \in [1 .. (n + 1) -> Seq(Byte)]
  BY <1>1, ConcatProperties
<1>3. ASSUME NEW i \in 1 .. n PROVE u[i] = pieces[i] \o u[i + 1]
  <2>1. i \in 1 .. (n + 1) /\ i + 1 \in 1 .. (n + 1)
    BY <1>1
  <2>2. u[i] = (pieces[i] \o t[i + 1]) \o s /\ u[i + 1] = t[i + 1] \o s
    BY <1>1, <2>1
  <2>3. pieces[i] \in Seq(Byte) /\ t[i + 1] \in Seq(Byte)
    BY <1>1, <2>1
  <2>4. (pieces[i] \o t[i + 1]) \o s = pieces[i] \o (t[i + 1] \o s)
    <3> HIDE DEF u
    <3> QED
      BY <2>3, Associative
  <2> HIDE DEF u
  <2> QED
    BY <2>2, <2>4
<1> QED
  BY <1>1, <1>2, <1>3 DEF Chain

\* What follows is itself one more piece.
LEMMA ChainLonger ==
    ASSUME NEW t, NEW pieces, NEW n, Chain(t, pieces, n),
           pieces[n + 1] \in Seq(Byte), t[n + 1] = pieces[n + 1]
    PROVE  Chain([i \in 1 .. (n + 2) |-> IF i = n + 2 THEN <<>> ELSE t[i]], pieces, n + 1)
<1>1. /\ n \in Nat /\ \A i \in 1 .. (n + 1) : t[i] \in Seq(Byte)
      /\ \A i \in 1 .. n : pieces[i] \in Seq(Byte) /\ t[i] = pieces[i] \o t[i + 1]
      /\ n + 1 \in Nat /\ (n + 1) + 1 = n + 2
  <2>1. n \in Nat
    BY DEF Chain
  <2>2. n + 1 \in Nat /\ (n + 1) + 1 = n + 2
    BY <2>1
  <2> QED
    BY <2>1, <2>2 DEF Chain
<1> DEFINE u == [i \in 1 .. (n + 2) |-> IF i = n + 2 THEN <<>> ELSE t[i]]
<1>2. u \in [1 .. (n + 2) -> Seq(Byte)]
  BY <1>1
<1>3. ASSUME NEW i \in 1 .. (n + 1)
      PROVE  pieces[i] \in Seq(Byte) /\ u[i] = pieces[i] \o u[i + 1]
  <2>1. i \in 1 .. (n + 2) /\ i + 1 \in 1 .. (n + 2) /\ i # n + 2
    BY <1>1
  <2>2. u[i] = t[i]
    BY <2>1
  <2>3. CASE i = n + 1
    <3>1. u[i + 1] = <<>> /\ u[i] = pieces[i] /\ pieces[i] \in Seq(Byte)
      BY <1>1, <2>1, <2>2, <2>3
    <3> HIDE DEF u
    <3> QED
      BY <3>1, ConcatEmptySeq
  <2>4. CASE i # n + 1
    <3>1. i \in 1 .. n /\ i + 1 # n + 2
      BY <1>1, <2>4
    <3>2. u[i + 1] = t[i + 1]
      BY <2>1, <3>1
    <3> HIDE DEF u
    <3> QED
      BY <1>1, <2>2, <3>1, <3>2
  <2> QED
    BY <2>3, <2>4
<1> HIDE DEF u
<1>4. Chain(u, pieces, n + 1)
  BY <1>1, <1>2, <1>3 DEF Chain
<1> QED
  BY <1>4 DEF u

\* The same pieces under another name.
LEMMA ChainSame ==
    ASSUME NEW t, NEW pieces, NEW n, Chain(t, pieces, n), NEW others,
           \A i \in 1 .. n : others[i] = pieces[i]
    PROVE  Chain(t, others, n)
  BY DEF Chain

\* FlattenSeq puts its pieces together: its recursive definition defines a function.
Flattened(f, pieces, n) ==
    /\ f \in [1 .. n -> Seq(Byte)]
    /\ \A i \in 1 .. n : f[i] = IF i = 1 THEN pieces[i] ELSE f[i - 1] \o pieces[i]

\* The function that FlattenSeq defines by recursion exists.
LEMMA FlattenDefined ==
    ASSUME NEW pieces \in Seq(Seq(Byte)), pieces # <<>>
    PROVE  \E f : Flattened(f, pieces, Len(pieces)) /\ FlattenSeq(pieces) = f[Len(pieces)]
<1>0. Len(pieces) \in Nat \ {0} /\ \A i \in 1 .. Len(pieces) : pieces[i] \in Seq(Byte)
  BY EmptySeq, ElementOfSeq
<1> DEFINE T == {n \in Nat : n <= Len(pieces) => \E f : Flattened(f, pieces, n)}
<1>1. 0 \in T
  <2>1. Flattened([i \in 1 .. 0 |-> <<>>], pieces, 0)
    BY DEF Flattened
  <2> QED
    BY <2>1
<1>2. ASSUME NEW n \in Nat, n \in T PROVE n + 1 \in T
  <2> SUFFICES ASSUME n + 1 <= Len(pieces) PROVE \E f : Flattened(f, pieces, n + 1)
    BY <1>0
  <2>1. PICK f : Flattened(f, pieces, n)
    BY <1>0, <1>2
  <2> DEFINE next == IF n = 0 THEN pieces[1] ELSE f[n] \o pieces[n + 1]
             g == [i \in 1 .. (n + 1) |-> IF i = n + 1 THEN next ELSE f[i]]
  <2>2. next \in Seq(Byte)
    <3>1. pieces[n + 1] \in Seq(Byte) /\ pieces[1] \in Seq(Byte) /\ (n # 0 => f[n] \in Seq(Byte))
      BY <1>0, <2>1 DEF Flattened
    <3> QED
      BY <3>1, ConcatProperties
  <2>3. g \in [1 .. (n + 1) -> Seq(Byte)]
    <3> HIDE DEF next
    <3> QED
      BY <2>1, <2>2 DEF Flattened
  <2>4. ASSUME NEW i \in 1 .. (n + 1)
        PROVE  g[i] = IF i = 1 THEN pieces[i] ELSE g[i - 1] \o pieces[i]
    <3>1. i # 1 => i - 1 \in 1 .. n /\ g[i - 1] = f[i - 1]
      BY DEF g
    <3>2. CASE i = n + 1
      <4>1. g[i] = next
        BY <3>2
      <4>2. (n = 0 <=> i = 1) /\ i - 1 = n
        BY <3>2
      <4> QED
        BY <3>1, <3>2, <4>1, <4>2
    <3>3. CASE i # n + 1
      <4>1. i \in 1 .. n /\ g[i] = f[i]
        BY <3>3
      <4> QED
        BY <2>1, <3>1, <4>1 DEF Flattened
    <3> QED
      BY <3>2, <3>3
  <2>5. Flattened(g, pieces, n + 1)
    BY <2>3, <2>4 DEF Flattened
  <2> QED
    BY <2>5
<1>3. PICK f : Flattened(f, pieces, Len(pieces))
  <2>1. \A n \in Nat : n \in T
    <3> HIDE DEF T
    <3> QED
      BY <1>1, <1>2, Induction
  <2> QED
    BY <1>0, <2>1
<1> DEFINE Rec(h) == h = [i \in 1 .. Len(pieces) |-> IF i = 1 THEN pieces[i] ELSE h[i - 1] \o pieces[i]]
           flatten == CHOOSE h : Rec(h)
<1>4. Rec(f)
  BY <1>0, <1>3 DEF Flattened
<1>5. FlattenSeq(pieces) = flatten[Len(pieces)]
  BY <1>0 DEF FlattenSeq
<1>6. Rec(flatten)
  BY <1>4
<1> HIDE DEF flatten
<1>7. /\ DOMAIN flatten = 1 .. Len(pieces)
      /\ \A i \in 1 .. Len(pieces) :
            flatten[i] = IF i = 1 THEN pieces[i] ELSE flatten[i - 1] \o pieces[i]
  BY <1>6
<1>8. \A n \in Nat : n \in {k \in Nat : k \in 1 .. Len(pieces) => flatten[k] \in Seq(Byte)}
  <2> DEFINE V == {k \in Nat : k \in 1 .. Len(pieces) => flatten[k] \in Seq(Byte)}
  <2>1. 0 \in V
    BY <1>0
  <2>2. ASSUME NEW n \in Nat, n \in V PROVE n + 1 \in V
    <3> SUFFICES ASSUME n + 1 \in 1 .. Len(pieces) PROVE flatten[n + 1] \in Seq(Byte)
      OBVIOUS
    <3>1. pieces[n + 1] \in Seq(Byte)
      BY <1>0
    <3>2. CASE n = 0
      <4>1. n + 1 = 1 /\ 1 \in 1 .. Len(pieces)
        BY <1>0, <3>2
      <4>2. flatten[1] = pieces[1]
        BY <1>7, <4>1
      <4> QED
        BY <3>1, <4>1, <4>2
    <3>3. CASE n # 0
      <4>1. flatten[n] \in Seq(Byte) /\ (n + 1) - 1 = n /\ n + 1 # 1
        BY <1>0, <2>2, <3>3
      <4>2. flatten[n + 1] = flatten[n] \o pieces[n + 1]
        BY <1>7, <4>1
      <4> QED
        BY <3>1, <4>1, <4>2, ConcatProperties
    <3> QED
      BY <3>2, <3>3
  <2> HIDE DEF V
  <2>3. \A n \in Nat : n \in V
    BY <2>1, <2>2, Induction
  <2> QED
    BY <2>3 DEF V
<1>9. flatten \in [1 .. Len(pieces) -> Seq(Byte)]
  <2>1. flatten = [i \in 1 .. Len(pieces) |-> flatten[i]]
    BY <1>6
  <2>2. \A n \in 1 .. Len(pieces) : flatten[n] \in Seq(Byte)
    BY <1>0, <1>8
  <2> QED
    BY <2>1, <2>2
<1>10. Flattened(flatten, pieces, Len(pieces))
  BY <1>7, <1>9 DEF Flattened
<1> QED
  BY <1>5, <1>10

\* FlattenSeq is a chain of its pieces with nothing behind them.
LEMMA FlattenChain ==
    ASSUME NEW pieces \in Seq(Seq(Byte)), pieces # <<>>
    PROVE  /\ FlattenSeq(pieces) \in Seq(Byte)
           /\ \E t : /\ Chain(t, pieces, Len(pieces)) /\ t[Len(pieces) + 1] = <<>>
                     /\ t[1] = FlattenSeq(pieces)
<1>0. Len(pieces) \in Nat \ {0} /\ \A i \in 1 .. Len(pieces) : pieces[i] \in Seq(Byte)
  BY EmptySeq, ElementOfSeq
<1>1. PICK f : Flattened(f, pieces, Len(pieces)) /\ FlattenSeq(pieces) = f[Len(pieces)]
  BY FlattenDefined
<1> DEFINE Ends(n) == \E t : Chain(t, pieces, n) /\ t[n + 1] = <<>> /\ t[1] = f[n]
           T == {n \in Nat : n + 1 <= Len(pieces) => Ends(n + 1)}
<1>2. 0 \in T
  <2> DEFINE t == [i \in 1 .. 2 |-> IF i = 1 THEN pieces[1] ELSE <<>>]
  <2>1. pieces[1] \in Seq(Byte) /\ f[1] = pieces[1]
    <3>1. 1 \in 1 .. Len(pieces)
      BY <1>0
    <3> QED
      BY <1>0, <1>1, <3>1 DEF Flattened
  <2>2. t[1] = pieces[1] /\ t[2] = <<>> /\ t \in [1 .. 2 -> Seq(Byte)]
    BY <2>1
  <2> HIDE DEF t
  <2>3. t[1] = pieces[1] \o t[2]
    BY <2>1, <2>2, ConcatEmptySeq
  <2>4. Chain(t, pieces, 1)
    <3>1. \A i \in 1 .. 1 : i = 1
      OBVIOUS
    <3>2. 1 \in Nat /\ 1 + 1 = 2
      OBVIOUS
    <3> QED
      BY <2>1, <2>2, <2>3, <3>1, <3>2 DEF Chain
  <2>5. Ends(1)
    <3>1. t[1 + 1] = <<>> /\ t[1] = f[1]
      BY <2>1, <2>2
    <3> QED
      BY <2>4, <3>1
  <2> QED
    BY <2>5
<1>3. ASSUME NEW n \in Nat, n \in T PROVE n + 1 \in T
  <2> SUFFICES ASSUME (n + 1) + 1 <= Len(pieces) PROVE Ends((n + 1) + 1)
    OBVIOUS
  <2> DEFINE m == n + 1
  <2>1. Ends(m) /\ m \in Nat \ {0} /\ m + 1 \in 1 .. Len(pieces) /\ m + 1 # 1 /\ (m + 1) - 1 = m
    BY <1>0, <1>3
  <2> HIDE DEF m
  <2>2. PICK t : Chain(t, pieces, m) /\ t[m + 1] = <<>> /\ t[1] = f[m]
    BY <2>1
  <2> DEFINE next == pieces[m + 1]
             u == [i \in 1 .. (m + 1) |-> t[i] \o next]
             v == [i \in 1 .. (m + 2) |-> IF i = m + 2 THEN <<>> ELSE u[i]]
  <2>3. next \in Seq(Byte)
    BY <1>0, <2>1
  <2>4. Chain(u, pieces, m)
    BY <2>2, <2>3, ChainAppend
  <2>5. u[m + 1] = next
    <3>1. u[m + 1] = <<>> \o next
      <4>1. m + 1 \in 1 .. (m + 1)
        BY <2>1
      <4> QED
        BY <2>2, <4>1
    <3> HIDE DEF u, next
    <3> QED
      BY <2>3, <3>1, ConcatEmptySeq
  <2>6. u[1] = f[m] \o next
    <3>1. 1 \in 1 .. (m + 1)
      BY <2>1
    <3> QED
      BY <2>2, <3>1
  <2> HIDE DEF u
  <2>7. Chain(v, pieces, m + 1)
    BY <2>3, <2>4, <2>5, ChainLonger
  <2>8. v[(m + 1) + 1] = <<>> /\ v[1] = u[1]
    BY <2>1
  <2>9. f[m + 1] = f[m] \o next
    BY <1>1, <2>1 DEF Flattened
  <2> HIDE DEF v, next
  <2>10. Ends(m + 1)
    BY <2>6, <2>7, <2>8, <2>9
  <2> QED
    BY <2>10 DEF m
<1>4. Ends(Len(pieces))
  <2>1. \A n \in Nat : n \in T
    <3> HIDE DEF T
    <3> QED
      BY <1>2, <1>3, Induction
  <2>2. Len(pieces) - 1 \in Nat /\ (Len(pieces) - 1) + 1 = Len(pieces) /\ Len(pieces) <= Len(pieces)
    BY <1>0
  <2>3. Len(pieces) - 1 \in T
    BY <2>1, <2>2
  <2> HIDE DEF Ends
  <2> QED
    BY <2>2, <2>3
<1>5. f[Len(pieces)] \in Seq(Byte)
  BY <1>0, <1>1 DEF Flattened
<1> QED
  BY <1>1, <1>4, <1>5

-----------------------------------------------------------------------------
(* Frames on the line.                                                     *)

Pred(byte) == (byte + ByteMod - 1) % ByteMod

\* What is framed, and how each byte of it is sent.
Plain(r) == Append(r, Checksum(r))
Units(r) == [i \in DOMAIN Plain(r) |-> encode_byte(Plain(r)[i])]

\* Taking one from a byte and adding it again, in 8 bits.
LEMMA PredFacts ==
    ASSUME NEW byte \in Byte
    PROVE  Pred(byte) \in Byte /\ (Pred(byte) + 1) % ByteMod = byte
<1>1. ByteMod \in Nat \ {0} /\ byte \in Nat /\ byte <= ByteMod - 1
  BY ByteAssumption DEF Byte
<1>2. CASE byte = 0
  <2>1. (byte + ByteMod - 1) % ByteMod = ByteMod - 1
    BY <1>1, <1>2
  <2>2. ((ByteMod - 1) + 1) % ByteMod = 0
    BY <1>1
  <2> QED
    BY <1>1, <1>2, <2>1, <2>2 DEF Pred, Byte
<1>3. CASE byte # 0
  <2>1. (byte + ByteMod - 1) % ByteMod = byte - 1
    <3>1. ByteMod % ByteMod = 0 /\ byte - 1 \in 0 .. (ByteMod - 1) /\ ByteMod \in Nat
          /\ byte + ByteMod - 1 = ByteMod + (byte - 1)
      BY <1>1, <1>3
    <3>2. (ByteMod + (byte - 1)) % ByteMod = byte - 1
      BY <1>1, <3>1, ModShift, Zenon
    <3> QED
      BY <3>1, <3>2
  <2>2. ((byte - 1) + 1) % ByteMod = byte
    BY <1>1, <1>3
  <2> QED
    BY <1>1, <1>3, <2>1, <2>2 DEF Pred, Byte
<1> QED
  BY <1>2, <1>3

\* The two forms of encode_byte.
LEMMA EncodeFacts ==
    ASSUME NEW byte \in Byte
    PROVE  /\ encode_byte(byte) \in Seq(Byte)
           /\ byte \in {SYNC, ESCAPE} => encode_byte(byte) = <<ESCAPE, Pred(byte)>>
           /\ byte \notin {SYNC, ESCAPE} => encode_byte(byte) = <<byte>>
<1>1. /\ byte \in {SYNC, ESCAPE} => encode_byte(byte) = <<ESCAPE, Pred(byte)>>
      /\ byte \notin {SYNC, ESCAPE} => encode_byte(byte) = <<byte>>
  BY DEF encode_byte, Pred
<1>2. <<byte>> \in Seq(Byte) /\ <<ESCAPE, Pred(byte)>> \in Seq(Byte)
  BY ByteAssumption, PredFacts
<1> QED
  BY <1>1, <1>2

\* What dispatch insists on, and the request with its checksum.
LEMMA RequestFacts ==
    ASSUME NEW r \in Requests
    PROVE  /\ r \in Seq(Byte) /\ Len(r) \in Nat /\ Len(r) >= 5 /\ r # <<>>
           /\ r[1] = Len(r) /\ Len(r) < ByteMod /\ dispatch(r)
           /\ Checksum(r) \in Byte
           /\ Plain(r) \in Seq(Byte) /\ Len(Plain(r)) = Len(r) + 1
           /\ \A i \in 1 .. Len(r) : Plain(r)[i] = r[i]
           /\ Plain(r)[Len(r) + 1] = Checksum(r)
           /\ \A i \in 1 .. (Len(r) + 1) : Plain(r)[i] \in Byte
<1>1. r \in Seq(Byte) /\ dispatch(r)
  BY RequestAssumption
<1>2. Len(r) \in Nat /\ Len(r) >= 5 /\ r[1] = Len(r)
  BY <1>1 DEF dispatch
<1>3. r # <<>> /\ r[1] \in Byte
  BY <1>1, <1>2
<1>4. Len(r) < ByteMod
  BY <1>2, <1>3, ByteAssumption DEF Byte
<1>5. Checksum(r) \in Byte
  <2>1. r \in Seq(Nat)
    <3>1. Byte \subseteq Nat
      BY DEF Byte
    <3> QED
      BY <1>1, <3>1, SeqMonotonic
  <2>2. ByteSum(r) \in Nat
    BY <2>1, SumNat
  <2> QED
    BY <2>2, ByteAssumption DEF Checksum, Byte
<1>6. /\ Plain(r) \in Seq(Byte) /\ Len(Plain(r)) = Len(r) + 1
      /\ \A i \in 1 .. Len(r) : Plain(r)[i] = r[i]
      /\ Plain(r)[Len(r) + 1] = Checksum(r)
  BY <1>1, <1>5, AppendProperties DEF Plain
<1>7. \A i \in 1 .. (Len(r) + 1) : Plain(r)[i] \in Byte
  BY <1>6, ElementOfSeq
<1> QED
  BY <1>1, <1>2, <1>3, <1>4, <1>5, <1>6, <1>7

\* A frame and what follows it on the line, as SYNC and the chain of its bytes.
LEMMA FrameChain ==
    ASSUME NEW r \in Requests, NEW rest \in Seq(Byte)
    PROVE  /\ Frame(r) \in Seq(Byte)
           /\ \E t : /\ Chain(t, Units(r), Len(r) + 1) /\ t[Len(r) + 2] = rest
                     /\ Frame(r) \o rest = <<SYNC>> \o t[1]
<1> DEFINE pieces == Units(r)
           n == Len(r) + 1
<1>1. pieces \in Seq(Seq(Byte)) /\ Len(pieces) = n /\ pieces # <<>> /\ n \in Nat \ {0}
  <2>1. DOMAIN Plain(r) = 1 .. n /\ n \in Nat \ {0}
    BY RequestFacts, LenProperties
  <2>2. \A i \in 1 .. n : encode_byte(Plain(r)[i]) \in Seq(Byte)
    BY RequestFacts, EncodeFacts
  <2>3. pieces = [i \in 1 .. n |-> encode_byte(Plain(r)[i])]
    BY <2>1 DEF Units
  <2>4. pieces \in [1 .. n -> Seq(Byte)]
    BY <2>2, <2>3
  <2> HIDE DEF pieces, n
  <2>5. pieces \in Seq(Seq(Byte)) /\ Len(pieces) = n
    BY <2>1, <2>4
  <2> QED
    BY <2>1, <2>5
<1>2. Frame(r) = <<SYNC>> \o FlattenSeq(pieces)
  BY DEF Frame, Units, Plain
<1>3. n + 1 = Len(r) + 2
  BY RequestFacts
<1> HIDE DEF pieces
<1>4. FlattenSeq(pieces) \in Seq(Byte)
  BY <1>1, FlattenChain
<1>5. PICK t : Chain(t, pieces, n) /\ t[n + 1] = <<>> /\ t[1] = FlattenSeq(pieces)
  BY <1>1, FlattenChain
<1>6. <<SYNC>> \in Seq(Byte)
  BY ByteAssumption
<1>7. Frame(r) \in Seq(Byte)
  BY <1>2, <1>4, <1>6, ConcatProperties
<1> DEFINE u == [i \in 1 .. (n + 1) |-> t[i] \o rest]
<1>8. Chain(u, pieces, n)
  BY <1>5, ChainAppend
<1>9. u[n + 1] = rest /\ u[1] = FlattenSeq(pieces) \o rest
  <2>1. 1 \in 1 .. (n + 1) /\ n + 1 \in 1 .. (n + 1)
    BY <1>1
  <2>2. u[n + 1] = <<>> \o rest /\ u[1] = FlattenSeq(pieces) \o rest
    BY <1>5, <2>1
  <2>3. <<>> \o rest = rest
    BY ConcatEmptySeq
  <2> QED
    BY <2>2, <2>3
<1> HIDE DEF u
<1>10. Frame(r) \o rest = <<SYNC>> \o u[1]
  BY <1>2, <1>4, <1>6, <1>9, Associative
<1> HIDE DEF n
<1>11. Chain(u, Units(r), Len(r) + 1) /\ u[Len(r) + 2] = rest
  BY <1>3, <1>8, <1>9 DEF n, pieces
<1> QED
  BY <1>7, <1>10, <1>11

\* The requests that are still on the line, one frame after the other.
Sent(rs) == [i \in 1 .. Len(rs) |-> Frame(rs[i])]
Stream(T, rs) == Chain(T, Sent(rs), Len(rs)) /\ T[Len(rs) + 1] = <<>>

\* Nothing written, nothing on the line.
LEMMA StreamEmpty == Stream([i \in 1 .. 1 |-> <<>>], <<>>)
<1>1. Len(<<>>) = 0 /\ 0 + 1 = 1 /\ 0 \in Nat /\ 1 .. 0 = {} /\ <<>> \in Seq(Byte)
  OBVIOUS
<1> DEFINE T == [i \in 1 .. 1 |-> <<>>]
<1>2. T \in [1 .. 1 -> Seq(Byte)] /\ T[1] = <<>>
  BY <1>1
<1> HIDE DEF T
<1>3. Stream(T, <<>>)
  BY <1>1, <1>2 DEF Stream, Chain
<1> QED
  BY <1>3 DEF T

\* One more request is written.
LEMMA StreamAppend ==
    ASSUME NEW rs \in Seq(Requests), NEW r \in Requests, NEW T, Stream(T, rs)
    PROVE  Stream([i \in 1 .. (Len(rs) + 2) |-> IF i = Len(rs) + 2 THEN <<>> ELSE T[i] \o Frame(r)],
                  Append(rs, r))
<1> DEFINE n == Len(rs)
           more == Append(rs, r)
           U == [i \in 1 .. (n + 1) |-> T[i] \o Frame(r)]
           V == [i \in 1 .. (n + 2) |-> IF i = n + 2 THEN <<>> ELSE U[i]]
<1>1. Chain(T, Sent(rs), n) /\ T[n + 1] = <<>> /\ n \in Nat
  BY DEF Stream
<1>2. Frame(r) \in Seq(Byte)
  <2>1. <<>> \in Seq(Byte)
    OBVIOUS
  <2> QED
    BY <2>1, FrameChain
<1>3. /\ Len(more) = n + 1 /\ more[n + 1] = r /\ \A i \in 1 .. n : more[i] = rs[i]
  BY AppendProperties
<1>4. /\ \A i \in 1 .. n : Sent(more)[i] = Sent(rs)[i]
      /\ Sent(more)[n + 1] = Frame(r)
  <2>1. n + 1 \in 1 .. (n + 1) /\ \A i \in 1 .. n : i \in 1 .. (n + 1)
    BY <1>1
  <2> HIDE DEF more
  <2> QED
    BY <1>3, <2>1 DEF Sent
<1> HIDE DEF more
<1>5. Chain(T, Sent(more), n)
  BY <1>1, <1>4, ChainSame
<1>6. Chain(U, Sent(more), n)
  BY <1>2, <1>5, ChainAppend
<1>7. U[n + 1] = Frame(r)
  <2>1. n + 1 \in 1 .. (n + 1)
    BY <1>1
  <2>2. U[n + 1] = <<>> \o Frame(r)
    BY <1>1, <2>1
  <2> HIDE DEF U
  <2> QED
    BY <1>2, <2>2, ConcatEmptySeq
<1>8. V = [i \in 1 .. (Len(rs) + 2) |-> IF i = Len(rs) + 2 THEN <<>> ELSE T[i] \o Frame(r)]
  <2>1. \A i \in 1 .. (n + 2) : i # n + 2 => i \in 1 .. (n + 1)
    BY <1>1
  <2>2. \A i \in 1 .. (n + 2) : i # n + 2 => U[i] = T[i] \o Frame(r)
    BY <2>1
  <2> HIDE DEF U
  <2> QED
    BY <2>2
<1> HIDE DEF U
<1>9. Chain(V, Sent(more), n + 1)
  BY <1>2, <1>4, <1>6, <1>7, ChainLonger
<1>10. V[(n + 1) + 1] = <<>>
  BY <1>1
<1> HIDE DEF V
<1>11. Stream(V, more)
  BY <1>3, <1>9, <1>10 DEF Stream
<1> QED
  BY <1>8, <1>11 DEF more

\* Where a request begins there is a SYNC and then its bytes.
LEMMA StreamHead ==
    ASSUME NEW rs \in Seq(Requests), NEW T, Stream(T, rs), NEW j \in 1 .. Len(rs)
    PROVE  /\ rs[j] \in Requests /\ T[j + 1] \in Seq(Byte)
           /\ \E t : /\ Chain(t, Units(rs[j]), Len(rs[j]) + 1) /\ t[Len(rs[j]) + 2] = T[j + 1]
                     /\ T[j] = <<SYNC>> \o t[1]
<1>1. /\ Len(rs) \in Nat /\ T \in [1 .. (Len(rs) + 1) -> Seq(Byte)]
      /\ \A i \in 1 .. Len(rs) : T[i] = Sent(rs)[i] \o T[i + 1]
  BY DEF Stream, Chain
<1>2. rs[j] \in Requests
  BY ElementOfSeq
<1>3. j + 1 \in 1 .. (Len(rs) + 1)
  BY <1>1
<1>4. T[j + 1] \in Seq(Byte) /\ T[j] = Frame(rs[j]) \o T[j + 1]
  BY <1>1, <1>3 DEF Sent
<1> DEFINE r == rs[j]
           rest == T[j + 1]
<1>5. r \in Requests /\ rest \in Seq(Byte) /\ T[j] = Frame(r) \o rest
  BY <1>2, <1>4
<1> HIDE DEF r, rest
<1>6. PICK t : /\ Chain(t, Units(r), Len(r) + 1) /\ t[Len(r) + 2] = rest
               /\ Frame(r) \o rest = <<SYNC>> \o t[1]
  BY <1>5, FrameChain, Zenon
<1>7. T[j] = <<SYNC>> \o t[1]
  BY <1>5, <1>6, Zenon
<1> QED
  BY <1>5, <1>6, <1>7, Zenon DEF r, rest

-----------------------------------------------------------------------------
(* The parser inside a frame.                                              *)

\* The parser is to receive byte k of request r, or the second half of its escape;
\* t[k] is where that byte begins on the line and rest follows the frame.
Place(t, k, r, rest) ==
    /\ Chain(t, Units(r), Len(r) + 1) /\ t[Len(r) + 2] = rest
    /\ k \in 1 .. (Len(r) + 1)

Position(t, k, r, rest) ==
    /\ Place(t, k, r, rest)
    /\ \/ line = t[k] /\ ~escaped
       \/ /\ Plain(r)[k] \in {SYNC, ESCAPE}
          /\ line = <<Pred(Plain(r)[k])>> \o t[k + 1]
          /\ synchronized => escaped

\* It does so with all bytes before it collected, or in whatever state.
Inside(r, rest) ==
    \E t, k : Position(t, k, r, rest) /\ synchronized /\ bytes = SubSeq(Plain(r), 1, k - 1)

Astray(r, rest) == \E t, k : Position(t, k, r, rest)

\* The first of one or two bytes put before others.
LEMMA HeadOne ==
    ASSUME NEW b \in Byte, NEW s \in Seq(Byte)
    PROVE  /\ <<b>> \o s \in Seq(Byte) /\ <<b>> \o s # <<>>
           /\ Head(<<b>> \o s) = b /\ Tail(<<b>> \o s) = s
  OBVIOUS

LEMMA HeadTwo ==
    ASSUME NEW a \in Byte, NEW b \in Byte, NEW s \in Seq(Byte)
    PROVE  /\ <<a, b>> \o s # <<>>
           /\ Head(<<a, b>> \o s) = a /\ Tail(<<a, b>> \o s) = <<b>> \o s
  OBVIOUS

\* What is on the line then.
LEMMA UnitLine ==
    ASSUME NEW r \in Requests, NEW rest, NEW t, NEW k, Position(t, k, r, rest)
    PROVE  /\ line # <<>> /\ Plain(r)[k] \in Byte
           /\ \/ /\ Plain(r)[k] \notin {SYNC, ESCAPE} /\ ~escaped
                 /\ Head(line) = Plain(r)[k] /\ Tail(line) = t[k + 1]
              \/ /\ Plain(r)[k] \in {SYNC, ESCAPE} /\ ~escaped
                 /\ Head(line) = ESCAPE /\ Tail(line) = <<Pred(Plain(r)[k])>> \o t[k + 1]
              \/ /\ Plain(r)[k] \in {SYNC, ESCAPE} /\ (synchronized => escaped)
                 /\ Head(line) = Pred(Plain(r)[k]) /\ Tail(line) = t[k + 1]
<1> DEFINE p == Plain(r)[k]
           s == t[k + 1]
<1>1. Len(r) \in Nat /\ k \in 1 .. (Len(r) + 1) /\ Chain(t, Units(r), Len(r) + 1)
  BY RequestFacts DEF Position, Place
<1>2. p \in Byte
  BY <1>1, RequestFacts
<1>3. Units(r)[k] = encode_byte(p)
  <2>1. DOMAIN Plain(r) = 1 .. (Len(r) + 1)
    BY RequestFacts, LenProperties
  <2> QED
    BY <1>1, <2>1 DEF Units
<1>4. s \in Seq(Byte) /\ t[k] = encode_byte(p) \o s
  <2>1. k + 1 \in 1 .. ((Len(r) + 1) + 1)
    BY <1>1
  <2>2. t[k + 1] \in Seq(Byte) /\ t[k] = Units(r)[k] \o t[k + 1]
    BY <1>1, <2>1 DEF Chain
  <2> QED
    BY <1>3, <2>2
<1>5. \/ line = t[k] /\ ~escaped
      \/ p \in {SYNC, ESCAPE} /\ line = <<Pred(p)>> \o s /\ (synchronized => escaped)
  BY DEF Position
<1>6. ESCAPE \in Byte /\ Pred(p) \in Byte
  BY <1>2, ByteAssumption, PredFacts
<1> HIDE DEF p, s
<1>7. CASE line = t[k] /\ ~escaped /\ p \notin {SYNC, ESCAPE}
  <2>1. line = <<p>> \o s
    BY <1>2, <1>4, <1>7, EncodeFacts
  <2>2. line # <<>> /\ Head(line) = p /\ Tail(line) = s
    BY <1>2, <1>4, <2>1, HeadOne
  <2> QED
    BY <1>2, <1>7, <2>2 DEF p, s
<1>8. CASE line = t[k] /\ ~escaped /\ p \in {SYNC, ESCAPE}
  <2>1. line = <<ESCAPE, Pred(p)>> \o s
    BY <1>2, <1>4, <1>8, EncodeFacts
  <2>2. line # <<>> /\ Head(line) = ESCAPE /\ Tail(line) = <<Pred(p)>> \o s
    BY <1>4, <1>6, <2>1, HeadTwo
  <2> QED
    BY <1>2, <1>8, <2>2 DEF p, s
<1>9. CASE p \in {SYNC, ESCAPE} /\ line = <<Pred(p)>> \o s /\ (synchronized => escaped)
  <2>1. line # <<>> /\ Head(line) = Pred(p) /\ Tail(line) = s
    BY <1>4, <1>6, <1>9, HeadOne
  <2> QED
    BY <1>2, <1>9, <2>1 DEF p, s
<1> QED
  BY <1>5, <1>7, <1>8, <1>9

\* After byte k comes byte k + 1, or the end of the frame.
LEMMA UnitDone ==
    ASSUME NEW r \in Requests, NEW rest, NEW t, NEW k, Place(t, k, r, rest),
           line' = t[k + 1], ~escaped'
    PROVE  \/ k = Len(r) + 1 /\ line' = rest
           \/ k \in 1 .. Len(r) /\ Position(t, k + 1, r, rest)'
<1>1. Len(r) \in Nat /\ k \in 1 .. (Len(r) + 1) /\ t[Len(r) + 2] = rest
  BY RequestFacts DEF Place
<1>2. CASE k = Len(r) + 1
  <2>1. k + 1 = Len(r) + 2
    BY <1>1, <1>2
  <2> QED
    BY <1>1, <1>2, <2>1
<1>3. CASE k # Len(r) + 1
  <2>1. k \in 1 .. Len(r) /\ k + 1 \in 1 .. (Len(r) + 1)
    BY <1>1, <1>3
  <2> QED
    BY <2>1 DEF Position, Place
<1> QED
  BY <1>2, <1>3

\* A parser that is astray gets through the frame and has no escape pending then.
LEMMA AstrayStep ==
    ASSUME ParserInv, Receive, NEW r \in Requests, NEW rest, Astray(r, rest)
    PROVE  Astray(r, rest)' \/ (line' = rest /\ ~escaped')
<1>1. PICK t, k : Position(t, k, r, rest)
  BY DEF Astray
<1> DEFINE p == Plain(r)[k]
           byte == Head(line)
<1>2. /\ line' = Tail(line) /\ sega_receive(byte) /\ Place(t, k, r, rest)
  BY <1>1 DEF Receive, Position
<1>3. (~synchronized => ~escaped) /\ escaped \in BOOLEAN /\ SYNC # ESCAPE
  BY ByteAssumption DEF ParserInv, ParserTypeOK, FrameFits
<1>4. ASSUME line' = t[k + 1], ~escaped'
      PROVE  Astray(r, rest)' \/ (line' = rest /\ ~escaped')
  <2>1. \/ k = Len(r) + 1 /\ line' = rest
        \/ k \in 1 .. Len(r) /\ Position(t, k + 1, r, rest)'
    BY <1>2, <1>4, UnitDone
  <2> QED
    BY <1>4, <2>1 DEF Astray
<1>5. CASE p \notin {SYNC, ESCAPE} /\ ~escaped /\ byte = p /\ Tail(line) = t[k + 1]
  <2>1. ~escaped'
    BY <1>2, <1>3, <1>5
    DEF sega_receive, Unsynchronized, Resynchronize, Escape, Store, reset_parser
  <2> QED
    BY <1>2, <1>4, <1>5, <2>1
<1>6. CASE /\ p \in {SYNC, ESCAPE} /\ ~escaped
           /\ byte = ESCAPE /\ Tail(line) = <<Pred(p)>> \o t[k + 1]
  <2>1. synchronized' => escaped'
    BY <1>2, <1>3, <1>6 DEF sega_receive, Unsynchronized, Resynchronize, Escape, Store
  <2>2. Position(t, k, r, rest)'
    BY <1>2, <1>6, <2>1 DEF Position, Place
  <2> QED
    BY <2>2 DEF Astray
<1>7. CASE /\ p \in {SYNC, ESCAPE} /\ (synchronized => escaped)
           /\ byte = Pred(p) /\ Tail(line) = t[k + 1]
  <2>1. ~escaped'
    BY <1>2, <1>3, <1>7
    DEF sega_receive, Unsynchronized, Resynchronize, Escape, Store, reset_parser
  <2> QED
    BY <1>2, <1>4, <1>7, <2>1
<1> QED
  BY <1>1, <1>5, <1>6, <1>7, UnitLine

\* A byte of the request is stored, and the checksum completes it.
LEMMA StoreUnit ==
    ASSUME NEW r \in Requests, NEW k \in 1 .. (Len(r) + 1), NEW byte,
           bytes = SubSeq(Plain(r), 1, k - 1), Decoded(byte) = Plain(r)[k], Store(byte)
    PROVE  /\ ~escaped'
           /\ k <= Len(r) => synchronized' /\ bytes' = SubSeq(Plain(r), 1, k) /\ request' = <<>>
           /\ k = Len(r) + 1 => request' = r
<1> DEFINE plain == Plain(r)
           collected == Append(bytes, Decoded(byte))
           n == Len(r)
<1>1. /\ plain \in Seq(Byte) /\ Len(plain) = n + 1 /\ n \in Nat /\ n >= 5 /\ n < ByteMod
      /\ plain[1] = n /\ n < Capacity /\ k \in Nat /\ k >= 1 /\ k <= n + 1
  <2>1. /\ plain \in Seq(Byte) /\ Len(plain) = n + 1 /\ n \in Nat /\ n >= 5 /\ n < ByteMod
        /\ r[1] = n /\ \A i \in 1 .. n : plain[i] = r[i]
    BY RequestFacts
  <2>2. 1 \in 1 .. n /\ n < Capacity /\ k \in Nat /\ k >= 1 /\ k <= n + 1
    BY <2>1, ByteAssumption
  <2> QED
    BY <2>1, <2>2
<1>2. collected = SubSeq(plain, 1, k)
  <2>1. SubSeq(plain, 1, k) = SubSeq(plain, 1, k - 1) \o <<plain[k]>>
    <3>1. 1 \in 1 .. Len(plain) /\ k \in 1 .. Len(plain)
      BY <1>1
    <3> QED
      BY <1>1, <3>1, SubSeqRecursiveSecond
  <2>2. SubSeq(plain, 1, k - 1) \in Seq(Byte) /\ plain[k] \in Byte
    <3>1. \A i \in 1 .. (k - 1) : plain[i] \in Byte
      BY <1>1
    <3> QED
      BY <1>1, <3>1, SubSeqProperties
  <2>3. Append(SubSeq(plain, 1, k - 1), plain[k]) = SubSeq(plain, 1, k - 1) \o <<plain[k]>>
    BY <2>2, AppendIsConcat
  <2> QED
    BY <2>1, <2>3
<1>3. /\ Len(collected) = k /\ collected[1] = n /\ Len(bytes) = k - 1
  <2>1. \A i \in 1 .. k : plain[i] \in Byte
    BY <1>1
  <2>2. Len(SubSeq(plain, 1, k)) = k /\ SubSeq(plain, 1, k)[1] = plain[1]
    BY <1>1, <2>1, SubSeqProperties
  <2>3. Len(SubSeq(plain, 1, k - 1)) = k - 1
    <3>1. \A i \in 1 .. (k - 1) : plain[i] \in Byte
      BY <1>1
    <3> QED
      BY <1>1, <3>1, SubSeqProperties
  <2> QED
    BY <1>1, <1>2, <2>2, <2>3
<1>4. ~(Len(bytes) >= Capacity) /\ Len(bytes) < Capacity
  <2>1. k - 1 < Capacity /\ ~(k - 1 >= Capacity)
    <3>1. Capacity \in Nat
      BY ByteAssumption
    <3> HIDE DEF n
    <3> QED
      BY <1>1, <3>1
  <2> QED
    BY <1>3, <2>1, Zenon
<1>5. /\ IF Len(bytes) >= Capacity \/ Len(collected) >= collected[1] + 1
         THEN reset_parser
         ELSE bytes' = collected /\ escaped' = FALSE /\ UNCHANGED synchronized
      /\ request' = IF /\ Len(bytes) < Capacity
                       /\ Len(collected) = collected[1] + 1
                       /\ Checksum(bytes) = Decoded(byte)
                       /\ dispatch(bytes)
                    THEN bytes ELSE <<>>
      /\ synchronized
  BY DEF Store
<1> HIDE DEF collected, plain, n
<1>6. ~escaped'
  BY <1>5 DEF reset_parser
<1>7. ASSUME k <= n
      PROVE  synchronized' /\ bytes' = SubSeq(plain, 1, k) /\ request' = <<>>
  <2>1. ~(k >= n + 1) /\ k # n + 1
    BY <1>1, <1>7
  <2> QED
    BY <1>2, <1>3, <1>4, <1>5, <2>1
<1>8. ASSUME k = n + 1
      PROVE  request' = r
  <2>1. bytes = r
    <3>1. r \in Seq(Byte) /\ Len(r) = n /\ k - 1 = n /\ \A i \in 1 .. n : plain[i] = r[i]
      BY <1>1, <1>8, RequestFacts DEF plain, n
    <3>2. bytes \in Seq(Byte) /\ Len(bytes) = n /\ \A i \in 1 .. n : bytes[i] = plain[i]
      <4>1. \A i \in 1 .. n : plain[i] \in Byte
        BY <1>1
      <4>2. bytes = SubSeq(plain, 1, n)
        BY <3>1 DEF plain
      <4> QED
        BY <1>1, <4>1, <4>2, SubSeqProperties
    <3> QED
      BY <3>1, <3>2, SeqEqual
  <2>2. Checksum(bytes) = Decoded(byte) /\ dispatch(bytes)
    BY <1>8, <2>1, RequestFacts DEF n
  <2> QED
    BY <1>3, <1>4, <1>5, <1>8, <2>1, <2>2
<1> QED
  BY <1>6, <1>7, <1>8 DEF plain, n

\* A parser inside a frame collects it and hands it on.
LEMMA InsideStep ==
    ASSUME ParserInv, Receive, NEW r \in Requests, NEW rest, Inside(r, rest)
    PROVE  \/ Inside(r, rest)' /\ request' = <<>>
           \/ line' = rest /\ ~escaped' /\ request' = r
<1>1. PICK t, k : Position(t, k, r, rest) /\ synchronized /\ bytes = SubSeq(Plain(r), 1, k - 1)
  BY DEF Inside
<1> DEFINE p == Plain(r)[k]
           byte == Head(line)
<1>2. /\ line' = Tail(line) /\ sega_receive(byte) /\ Place(t, k, r, rest)
      /\ k \in 1 .. (Len(r) + 1)
  BY <1>1 DEF Receive, Position, Place
<1>3. escaped \in BOOLEAN /\ SYNC # ESCAPE /\ p \in Byte
  BY <1>1, ByteAssumption, UnitLine DEF ParserInv, ParserTypeOK
<1>4. ASSUME line' = t[k + 1], Store(byte), Decoded(byte) = p
      PROVE  \/ Inside(r, rest)' /\ request' = <<>>
             \/ line' = rest /\ ~escaped' /\ request' = r
  <2>1. /\ ~escaped'
        /\ k <= Len(r) => synchronized' /\ bytes' = SubSeq(Plain(r), 1, k) /\ request' = <<>>
        /\ k = Len(r) + 1 => request' = r
    <3> HIDE DEF byte
    <3> QED
      BY <1>1, <1>2, <1>4, StoreUnit
  <2>2. \/ k = Len(r) + 1 /\ line' = rest
        \/ k \in 1 .. Len(r) /\ Position(t, k + 1, r, rest)'
    BY <1>2, <1>4, <2>1, UnitDone
  <2>3. CASE k = Len(r) + 1 /\ line' = rest
    BY <2>1, <2>3
  <2>4. CASE k \in 1 .. Len(r) /\ Position(t, k + 1, r, rest)'
    <3>1. (k + 1) - 1 = k /\ k <= Len(r)
      BY <2>4, RequestFacts
    <3>2. synchronized' /\ bytes' = SubSeq(Plain(r), 1, (k + 1) - 1) /\ request' = <<>>
      BY <2>1, <3>1
    <3> QED
      BY <2>4, <3>2 DEF Inside
  <2> QED
    BY <2>2, <2>3, <2>4
<1>5. CASE p \notin {SYNC, ESCAPE} /\ ~escaped /\ byte = p /\ Tail(line) = t[k + 1]
  <2>1. Store(byte)
    BY <1>1, <1>2, <1>5 DEF sega_receive, Unsynchronized, Resynchronize, Escape
  <2>2. Decoded(byte) = p
    BY <1>5 DEF Decoded
  <2> QED
    BY <1>2, <1>4, <1>5, <2>1, <2>2
<1>6. CASE /\ p \in {SYNC, ESCAPE} /\ ~escaped
           /\ byte = ESCAPE /\ Tail(line) = <<Pred(p)>> \o t[k + 1]
  <2>1. Escape(byte)
    BY <1>1, <1>2, <1>3, <1>6 DEF sega_receive, Unsynchronized, Resynchronize, Store
  <2>2. escaped' /\ synchronized' /\ bytes' = bytes /\ request' = <<>>
    BY <1>1, <2>1 DEF Escape
  <2>3. Position(t, k, r, rest)'
    BY <1>2, <1>6, <2>2 DEF Position, Place
  <2> QED
    BY <1>1, <2>2, <2>3 DEF Inside
<1>7. CASE /\ p \in {SYNC, ESCAPE} /\ (synchronized => escaped)
           /\ byte = Pred(p) /\ Tail(line) = t[k + 1]
  <2>1. Store(byte) /\ escaped
    BY <1>1, <1>2, <1>7 DEF sega_receive, Unsynchronized, Resynchronize, Escape
  <2>2. Decoded(byte) = p
    BY <1>3, <1>7, <2>1, PredFacts DEF Decoded
  <2> QED
    BY <1>2, <1>4, <1>7, <2>1, <2>2
<1> QED
  BY <1>1, <1>5, <1>6, <1>7, UnitLine

\* A SYNC that finds no escape pending starts a frame, in or between frames; one
\* that does goes astray.
LEMMA SyncStep ==
    ASSUME ParserInv, Receive, NEW rs \in Seq(Requests), NEW T, Stream(T, rs),
           NEW j \in 1 .. Len(rs), line = T[j]
    PROVE  /\ ~escaped => Inside(rs[j], T[j + 1])' /\ request' = <<>>
           /\ escaped => Astray(rs[j], T[j + 1])'
<1> DEFINE r == rs[j]
           rest == T[j + 1]
<1>1. /\ r \in Requests
      /\ \E t : /\ Chain(t, Units(r), Len(r) + 1) /\ t[Len(r) + 2] = rest
                /\ T[j] = <<SYNC>> \o t[1]
  BY StreamHead, Zenon
<1>2. PICK t : /\ Chain(t, Units(r), Len(r) + 1) /\ t[Len(r) + 2] = rest
               /\ line = <<SYNC>> \o t[1]
  BY <1>1, Zenon
<1> HIDE DEF r, rest
<1>3. t[1] \in Seq(Byte) /\ Len(r) \in Nat /\ 1 \in 1 .. (Len(r) + 1)
  <2>1. Len(r) \in Nat /\ 1 \in 1 .. (Len(r) + 1) /\ 1 \in 1 .. ((Len(r) + 1) + 1)
    BY <1>1, RequestFacts
  <2> QED
    BY <1>2, <2>1 DEF Chain
<1>4. Head(line) = SYNC /\ line' = t[1] /\ sega_receive(SYNC)
  <2>1. Head(line) = SYNC /\ Tail(line) = t[1]
    BY <1>2, <1>3, ByteAssumption, HeadOne
  <2> QED
    BY <2>1 DEF Receive
<1>5. (~synchronized => ~escaped) /\ escaped \in BOOLEAN /\ SYNC # ESCAPE
  BY ByteAssumption DEF ParserInv, ParserTypeOK, FrameFits
<1>6. Place(t, 1, r, rest)
  BY <1>2, <1>3 DEF Place
<1>7. ASSUME ~escaped PROVE Inside(r, rest)' /\ request' = <<>>
  <2>1. synchronized' /\ ~escaped' /\ bytes' = <<>> /\ request' = <<>>
    <3>1. ~Escape(SYNC) /\ ~Store(SYNC)
      BY <1>5, <1>7 DEF Escape, Store
    <3>2. CASE Unsynchronized(SYNC)
      BY <1>7, <3>2 DEF Unsynchronized
    <3>3. CASE Resynchronize(SYNC)
      BY <1>7, <3>3 DEF Resynchronize
    <3> QED
      BY <1>4, <3>1, <3>2, <3>3 DEF sega_receive
  <2>2. Position(t, 1, r, rest)'
    BY <1>4, <1>6, <2>1 DEF Position, Place
  <2>3. SubSeq(Plain(r), 1, 1 - 1) = <<>>
    BY SubSeqEmpty
  <2> QED
    BY <2>1, <2>2, <2>3 DEF Inside
<1>8. ASSUME escaped PROVE Astray(r, rest)'
  <2>1. ~escaped'
    BY <1>4, <1>5, <1>8
    DEF sega_receive, Unsynchronized, Resynchronize, Escape, Store, reset_parser
  <2>2. Position(t, 1, r, rest)'
    BY <1>4, <1>6, <2>1 DEF Position, Place
  <2> QED
    BY <2>2 DEF Astray
<1> QED
  BY <1>7, <1>8 DEF r, rest

-----------------------------------------------------------------------------
(* Sequences of requests.                                                  *)

\* Appending does not disturb what is in front.
LEMMA SubSeqStays ==
    ASSUME NEW S, NEW s \in Seq(S), NEW e \in S, NEW a \in {1, 2}, NEW m \in Nat, m <= Len(s)
    PROVE  SubSeq(Append(s, e), a, m) = SubSeq(s, a, m)
<1>1. Len(s) \in Nat /\ \A i \in 1 .. Len(s) : s[i] \in S /\ Append(s, e)[i] = s[i]
  BY AppendProperties, ElementOfSeq
<1>2. \A i \in a .. m : i \in 1 .. Len(s)
  BY <1>1
<1>3. \A i \in a .. m : s[i] \in S /\ Append(s, e)[i] \in S
  BY <1>1, <1>2
<1> DEFINE old == SubSeq(s, a, m)
           new == SubSeq(Append(s, e), a, m)
<1>4. /\ old \in Seq(S) /\ new \in Seq(S) /\ Len(old) = Len(new)
      /\ Len(old) = IF a <= m THEN m - a + 1 ELSE 0
      /\ \A i \in 1 .. (m - a + 1) : old[i] = s[a + i - 1] /\ new[i] = Append(s, e)[a + i - 1]
  <2>1. a \in Int /\ m \in Int
    OBVIOUS
  <2> QED
    BY <1>3, <2>1, SubSeqProperties
<1>5. \A i \in 1 .. Len(old) : i \in 1 .. (m - a + 1) /\ a + i - 1 \in 1 .. Len(s)
  BY <1>1, <1>4
<1>6. \A i \in 1 .. Len(old) : old[i] = new[i]
  BY <1>1, <1>4, <1>5
<1> HIDE DEF old, new
<1>7. old = new
  BY <1>4, <1>6, SeqEqual
<1> QED
  BY <1>7 DEF old, new

\* One more element.
LEMMA SubSeqGrows ==
    ASSUME NEW S, NEW s \in Seq(S), NEW m \in 1 .. Len(s), NEW a \in 1 .. m
    PROVE  /\ SubSeq(s, a, m - 1) \in Seq(S)
           /\ SubSeq(s, a, m) = Append(SubSeq(s, a, m - 1), s[m])
<1>1. Len(s) \in Nat /\ s[m] \in S /\ \A i \in a .. (m - 1) : s[i] \in S
  BY ElementOfSeq
<1>2. a \in 1 .. Len(s) /\ m \in a .. Len(s) /\ a \in Int /\ m - 1 \in Int
  BY <1>1
<1>3. SubSeq(s, a, m - 1) \in Seq(S)
  BY <1>1, <1>2, SubSeqProperties
<1>4. SubSeq(s, a, m) = SubSeq(s, a, m - 1) \o <<s[m]>>
  BY <1>2, SubSeqRecursiveSecond
<1>5. Append(SubSeq(s, a, m - 1), s[m]) = SubSeq(s, a, m - 1) \o <<s[m]>>
  BY <1>1, <1>3, AppendIsConcat
<1> QED
  BY <1>3, <1>4, <1>5

\* IsSuffix compares reversed sequences.
LEMMA SuffixOfConcat ==
    ASSUME NEW S, NEW u \in Seq(S), NEW s \in Seq(S)
    PROVE  IsSuffix(s, u \o s)
<1> DEFINE d == u \o s
           rs == Reverse(s)
           rd == Reverse(d)
           n == Len(s)
           m == Len(u)
<1>1. /\ d \in Seq(S) /\ Len(d) = m + n /\ m \in Nat /\ n \in Nat
      /\ \A i \in 1 .. n : d[m + i] = s[i]
  <2>1. /\ d \in Seq(S) /\ Len(d) = m + n /\ m \in Nat /\ n \in Nat
        /\ \A i \in 1 .. (m + n) : d[i] = IF i <= m THEN u[i] ELSE s[i - m]
    BY ConcatProperties
  <2>2. ASSUME NEW i \in 1 .. n PROVE d[m + i] = s[i]
    <3> HIDE DEF m, n, d
    <3>1. m + i \in 1 .. (m + n) /\ ~(m + i <= m) /\ (m + i) - m = i
      BY <2>1
    <3> QED
      BY <2>1, <3>1
  <2> QED
    BY <2>1, <2>2
<1> HIDE DEF d, m
<1>2. /\ \A i \in 1 .. n : s[i] \in S
      /\ \A i \in 1 .. (m + n) : d[i] \in S
  BY <1>1, ElementOfSeq
<1>3. rs = [i \in 1 .. n |-> s[(n - i) + 1]] /\ rd = [i \in 1 .. (m + n) |-> d[((m + n) - i) + 1]]
  BY <1>1 DEF Reverse
<1> HIDE DEF n, rs, rd
<1>4. \A i \in 1 .. n : (n - i) + 1 \in 1 .. n /\ i \in 1 .. (m + n)
  BY <1>1
<1>5. \A i \in 1 .. (m + n) : ((m + n) - i) + 1 \in 1 .. (m + n)
  BY <1>1
<1>6. rs \in [1 .. n -> S] /\ rd \in [1 .. (m + n) -> S]
  BY <1>2, <1>3, <1>4, <1>5
<1>7. rs \in Seq(S) /\ Len(rs) = n /\ rd \in Seq(S) /\ Len(rd) = m + n
  <2>1. m + n \in Nat
    BY <1>1
  <2> QED
    BY <1>1, <1>6, <2>1
<1>8. \A i \in 1 .. n : rs[i] = rd[i]
  <2> SUFFICES ASSUME NEW i \in 1 .. n PROVE rs[i] = rd[i]
    OBVIOUS
  <2>1. ((m + n) - i) + 1 = m + ((n - i) + 1)
    BY <1>1
  <2>2. d[m + ((n - i) + 1)] = s[(n - i) + 1]
    BY <1>1, <1>4
  <2>3. rs[i] = s[(n - i) + 1] /\ rd[i] = d[((m + n) - i) + 1]
    BY <1>3, <1>4
  <2> QED
    BY <2>1, <2>2, <2>3
<1>9. SubSeq(rd, 1, n) = SubSeq(rs, 1, n)
  <2>1. \A i \in 1 .. n : rd[i] \in S /\ rs[i] \in S
    BY <1>4, <1>6
  <2>2. /\ SubSeq(rd, 1, n) \in Seq(S) /\ SubSeq(rs, 1, n) \in Seq(S)
        /\ Len(SubSeq(rd, 1, n)) = n /\ Len(SubSeq(rs, 1, n)) = n
        /\ \A i \in 1 .. n : SubSeq(rd, 1, n)[i] = rd[i] /\ SubSeq(rs, 1, n)[i] = rs[i]
    BY <1>1, <2>1, SubSeqProperties
  <2> QED
    BY <1>8, <2>2, SeqEqual
<1>10. n <= m + n
  BY <1>1
<1>11. IsPrefix(rs, rd)
  BY <1>7, <1>9, <1>10 DEF IsPrefix
<1> QED
  BY <1>11 DEF IsSuffix, rs, rd, d

\* What is cut off behind.
LEMMA SubSeqIsPrefix ==
    ASSUME NEW S, NEW s \in Seq(S), NEW m \in Nat, m <= Len(s)
    PROVE  IsPrefix(SubSeq(s, 1, m), s)
<1>1. Len(s) \in Nat /\ \A i \in 1 .. m : s[i] \in S
  BY ElementOfSeq
<1>2. SubSeq(s, 1, m) \in Seq(S) /\ Len(SubSeq(s, 1, m)) = m
  BY <1>1, SubSeqProperties
<1>3. SubSeq(SubSeq(s, 1, m), 1, m) = SubSeq(s, 1, m)
  BY <1>2, SubSeqFull
<1> QED
  BY <1>2, <1>3 DEF IsPrefix

-----------------------------------------------------------------------------
(* The invariant.                                                          *)

\* The requests after the first one since the last loss have been dispatched up to
\* request j - 1, and without a loss the first one too.
Delivered(rs, j) ==
    /\ \E u \in Seq(Seq(Byte)) : dispatched = u \o SubSeq(rs, 2, j - 1)
    /\ losses = 0 => rs = written /\ dispatched = SubSeq(rs, 1, j - 1)

\* The parser is to receive the SYNC of request j, or is at the end of the line.
Between(T, rs, j) ==
    j \in 1 .. (Len(rs) + 1) /\ Delivered(rs, j) /\ ~escaped /\ line = T[j]

\* It has received the SYNC of request j.
Within(T, rs, j) ==
    j \in 1 .. Len(rs) /\ Delivered(rs, j) /\ Inside(rs[j], T[j + 1])

\* After a loss it is to receive what is left of the requests before it, or has
\* taken the SYNC of the first request since for data.
Lost(T, rs) ==
    /\ losses # 0
    /\ \/ \E junk \in Seq(Byte) : line = junk \o T[1]
       \/ 1 \in 1 .. Len(rs) /\ Astray(rs[1], T[2])

Reading(T, rs) == Lost(T, rs) \/ \E j : Between(T, rs, j) \/ Within(T, rs, j)

LineTypes ==
    /\ TypeOK /\ ParserInv
    /\ since \in Seq(Requests) /\ dispatched \in Seq(Seq(Byte))

IInv == LineTypes /\ \E T : Stream(T, since) /\ Reading(T, since)

\* Requests are sequences of bytes.
LEMMA RequestsAreSeqs == Seq(Requests) \subseteq Seq(Seq(Byte))
<1>1. Requests \subseteq Seq(Byte)
  BY RequestAssumption
<1> QED
  BY <1>1, SeqMonotonic

\* Every rest of the stream is made of bytes.
LEMMA StreamTypes ==
    ASSUME NEW rs \in Seq(Requests), NEW T, Stream(T, rs)
    PROVE  Len(rs) \in Nat /\ \A i \in 1 .. (Len(rs) + 1) : T[i] \in Seq(Byte)
  BY DEF Stream, Chain

\* The types hold initially.
LEMMA TypesInit == Init => LineTypes
<1> SUFFICES ASSUME Init PROVE LineTypes
  OBVIOUS
<1>1. /\ <<>> \in Seq(Byte) /\ <<>> \in Seq(Requests) /\ <<>> \in Seq(Seq(Byte))
      /\ 0 \in 0 .. MaxLosses
  BY RequestAssumption
<1>2. ParserInv
  BY ParserInvInit DEF Init
<1> QED
  BY <1>1, <1>2 DEF Init, LineTypes, TypeOK, ParserInv

\* Every step keeps the types.
LEMMA TypesNext == LineTypes /\ [Next]_vars => LineTypes'
<1> SUFFICES ASSUME LineTypes, [Next]_vars PROVE LineTypes'
  OBVIOUS
<1>1. /\ line \in Seq(Byte) /\ losses \in 0 .. MaxLosses /\ ParserInv
      /\ since \in Seq(Requests) /\ dispatched \in Seq(Seq(Byte)) /\ MaxLosses \in Nat
  BY RequestAssumption DEF LineTypes, TypeOK
<1>2. ASSUME UNCHANGED parser PROVE ParserInv'
  BY <1>1, <1>2, ParserInvNext
<1>3. CASE UNCHANGED vars
  <2>1. ParserInv'
    BY <1>2, <1>3 DEF vars
  <2> QED
    BY <1>1, <1>3, <2>1 DEF vars, LineTypes, TypeOK, ParserInv
<1>4. ASSUME NEW r \in Requests, Write(r) PROVE LineTypes'
  <2>1. ParserInv'
    BY <1>2, <1>4 DEF Write
  <2>2. line' \in Seq(Byte)
    <3>1. Frame(r) \in Seq(Byte)
      BY <1>1, FrameChain
    <3>2. line' = line \o Frame(r)
      BY <1>4 DEF Write
    <3> QED
      BY <1>1, <3>1, <3>2, ConcatProperties
  <2>3. since' \in Seq(Requests)
    BY <1>1, <1>4, AppendProperties DEF Write
  <2> QED
    BY <1>1, <1>4, <2>1, <2>2, <2>3 DEF Write, LineTypes, TypeOK, ParserInv
<1>5. CASE Lose
  <2>1. ParserInv'
    BY <1>2, <1>5 DEF Lose
  <2>2. line' \in Seq(Byte)
    <3>1. PICK n \in 1 .. Len(line) : line' = SubSeq(line, n + 1, Len(line))
      BY <1>5 DEF Lose
    <3>2. Len(line) \in Nat /\ \A i \in (n + 1) .. Len(line) : line[i] \in Byte
      BY <1>1, ElementOfSeq
    <3> QED
      BY <3>1, <3>2, SubSeqProperties
  <2>3. losses' \in 0 .. MaxLosses
    BY <1>1, <1>5 DEF Lose
  <2>4. since' \in Seq(Requests) /\ dispatched' = dispatched
    BY <1>5 DEF Lose
  <2> QED
    BY <1>1, <2>1, <2>2, <2>3, <2>4 DEF LineTypes, TypeOK, ParserInv
<1>6. CASE Receive
  <2>1. Head(line) \in Byte /\ Tail(line) \in Seq(Byte)
    BY <1>1, <1>6, HeadTailProperties DEF Receive
  <2>2. ParserInv'
    BY <1>1, <1>6, <2>1, ParserInvNext DEF Receive, ParserNext
  <2>3. dispatched' \in Seq(Seq(Byte))
    <3>1. request' \in Seq(Byte)
      BY <2>2 DEF ParserInv, ParserTypeOK
    <3> QED
      BY <1>1, <1>6, <3>1, AppendProperties DEF Receive
  <2>4. line' = Tail(line) /\ losses' = losses /\ since' = since
    BY <1>6 DEF Receive
  <2> QED
    BY <1>1, <2>1, <2>2, <2>3, <2>4 DEF LineTypes, TypeOK, ParserInv
<1> QED
  BY <1>3, <1>4, <1>5, <1>6 DEF Next

\* Append and concatenation.
LEMMA AppendConcat ==
    ASSUME NEW a \in Seq(Seq(Byte)), NEW b \in Seq(Seq(Byte)), NEW e \in Seq(Byte)
    PROVE  Append(a \o b, e) = a \o Append(b, e)
<1> DEFINE c == <<e>>
<1>1. c \in Seq(Seq(Byte)) /\ a \o b \in Seq(Seq(Byte))
  BY ConcatProperties
<1>2. Append(b, e) = b \o c /\ Append(a \o b, e) = (a \o b) \o c
  BY <1>1, AppendIsConcat
<1> HIDE DEF c
<1>3. (a \o b) \o c = a \o (b \o c)
  BY <1>1, ConcatAssociative
<1> QED
  BY <1>2, <1>3

\* Nothing is dispatched yet.
LEMMA DeliveredNone ==
    ASSUME NEW rs, NEW j \in {1, 2}, losses' # 0, dispatched' \in Seq(Seq(Byte))
    PROVE  Delivered(rs, j)'
<1>1. SubSeq(rs, 2, j - 1) = <<>>
  BY SubSeqEmpty
<1>2. dispatched' = dispatched' \o <<>>
  BY ConcatEmptySeq
<1> QED
  BY <1>1, <1>2 DEF Delivered

\* Request j is dispatched.
LEMMA DeliveredNext ==
    ASSUME NEW rs \in Seq(Requests), NEW j \in 1 .. Len(rs), Delivered(rs, j),
           dispatched \in Seq(Seq(Byte)),
           dispatched' = Append(dispatched, rs[j]), losses' = losses, written' = written
    PROVE  Delivered(rs, j + 1)'
<1>1. Len(rs) \in Nat /\ (j + 1) - 1 = j /\ 1 \in 1 .. j /\ rs \in Seq(Seq(Byte))
      /\ rs[j] \in Seq(Byte)
  BY RequestsAreSeqs, RequestAssumption, ElementOfSeq
<1>2. ASSUME losses = 0 PROVE rs = written /\ dispatched' = SubSeq(rs, 1, (j + 1) - 1)
  BY <1>1, <1>2, SubSeqGrows DEF Delivered
<1>3. \E u \in Seq(Seq(Byte)) : dispatched' = u \o SubSeq(rs, 2, (j + 1) - 1)
  <2>1. PICK u \in Seq(Seq(Byte)) : dispatched = u \o SubSeq(rs, 2, j - 1)
    BY DEF Delivered
  <2>2. CASE j = 1
    <3>1. SubSeq(rs, 2, (j + 1) - 1) = <<>>
      BY <1>1, <2>2, SubSeqEmpty
    <3>2. dispatched' \in Seq(Seq(Byte))
      BY <1>1, AppendProperties
    <3>3. dispatched' = dispatched' \o <<>>
      BY <3>2, ConcatEmptySeq
    <3> QED
      BY <3>1, <3>2, <3>3, Zenon
  <2>3. CASE j # 1
    <3>1. 2 \in 1 .. j
      BY <1>1, <2>3
    <3> DEFINE s == SubSeq(rs, 2, j - 1)
    <3>2. s \in Seq(Seq(Byte)) /\ SubSeq(rs, 2, j) = Append(s, rs[j])
      BY <1>1, <3>1, SubSeqGrows
    <3>3. Append(u \o s, rs[j]) = u \o Append(s, rs[j])
      <4> HIDE DEF s
      <4> QED
        BY <1>1, <2>1, <3>2, AppendConcat
    <3>4. dispatched' = u \o SubSeq(rs, 2, (j + 1) - 1)
      BY <1>1, <2>1, <3>2, <3>3
    <3> QED
      BY <3>4
  <2> QED
    BY <2>2, <2>3
<1> QED
  BY <1>2, <1>3 DEF Delivered

\* Nothing is dispatched.
LEMMA DeliveredSame ==
    ASSUME NEW rs, NEW j, Delivered(rs, j),
           dispatched' = dispatched, losses' = losses, written' = written
    PROVE  Delivered(rs, j)'
  BY DEF Delivered

\* A request is written behind the others.
LEMMA DeliveredWrite ==
    ASSUME NEW rs \in Seq(Requests), NEW r \in Requests, NEW j \in 1 .. (Len(rs) + 1),
           Delivered(rs, j),
           dispatched' = dispatched, losses' = losses, written' = Append(written, r)
    PROVE  Delivered(Append(rs, r), j)'
<1>1. Len(rs) \in Nat /\ j - 1 \in Nat /\ j - 1 <= Len(rs)
  OBVIOUS
<1>2. /\ SubSeq(Append(rs, r), 1, j - 1) = SubSeq(rs, 1, j - 1)
      /\ SubSeq(Append(rs, r), 2, j - 1) = SubSeq(rs, 2, j - 1)
  BY <1>1, SubSeqStays
<1> QED
  BY <1>2 DEF Delivered

-----------------------------------------------------------------------------
(* The steps.                                                              *)

\* What the host writes does not disturb what is on the line.
LEMMA PositionWrite ==
    ASSUME NEW r \in Requests, NEW rest, NEW t, NEW k, Position(t, k, r, rest),
           NEW s \in Seq(Byte), line' = line \o s, UNCHANGED parser
    PROVE  Position([i \in 1 .. (Len(r) + 2) |-> t[i] \o s], k, r, rest \o s)'
<1> DEFINE n == Len(r) + 1
           u == [i \in 1 .. (Len(r) + 2) |-> t[i] \o s]
<1>1. /\ Len(r) \in Nat /\ n + 1 = Len(r) + 2 /\ k \in 1 .. n /\ Chain(t, Units(r), n)
      /\ t[Len(r) + 2] = rest
  BY RequestFacts DEF Position, Place
<1>2. Chain(u, Units(r), n)
  <2>1. u = [i \in 1 .. (n + 1) |-> t[i] \o s]
    BY <1>1
  <2> HIDE DEF u, n
  <2> QED
    BY <1>1, <2>1, ChainAppend
<1>3. /\ k \in 1 .. (Len(r) + 2) /\ k + 1 \in 1 .. (Len(r) + 2)
      /\ Len(r) + 2 \in 1 .. (Len(r) + 2)
  BY <1>1
<1>4. u[k] = t[k] \o s /\ u[k + 1] = t[k + 1] \o s /\ u[Len(r) + 2] = rest \o s
  BY <1>1, <1>3
<1> HIDE DEF u
<1>5. Place(u, k, r, rest \o s)
  BY <1>1, <1>2, <1>4 DEF Place
<1>6. escaped' = escaped /\ synchronized' = synchronized
  BY DEF parser
<1>7. CASE line = t[k] /\ ~escaped
  <2>1. line' = u[k] /\ ~escaped'
    BY <1>4, <1>6, <1>7
  <2> QED
    BY <1>5, <2>1 DEF Position, Place, u
<1>8. CASE /\ Plain(r)[k] \in {SYNC, ESCAPE}
           /\ line = <<Pred(Plain(r)[k])>> \o t[k + 1]
           /\ synchronized => escaped
  <2> DEFINE b == <<Pred(Plain(r)[k])>>
  <2>1. b \in Seq(Byte) /\ t[k + 1] \in Seq(Byte)
    <3>1. Plain(r)[k] \in Byte
      BY <1>1, RequestFacts
    <3>2. t[k + 1] \in Seq(Byte)
      BY <1>1, <1>3 DEF Chain
    <3> QED
      BY <3>1, <3>2, PredFacts
  <2>2. line = b \o t[k + 1]
    BY <1>8
  <2> HIDE DEF b
  <2>3. line' = b \o u[k + 1]
    <3>1. (b \o t[k + 1]) \o s = b \o (t[k + 1] \o s)
      BY <2>1, Associative, Zenon
    <3> QED
      BY <1>4, <2>2, <3>1, Zenon
  <2>4. /\ Plain(r)[k] \in {SYNC, ESCAPE}
        /\ line' = <<Pred(Plain(r)[k])>> \o u[k + 1]
        /\ synchronized' => escaped'
    BY <1>6, <1>8, <2>3 DEF b
  <2> QED
    BY <1>5, <2>4 DEF Position, Place, u
<1> QED
  BY <1>7, <1>8 DEF Position

\* The initial line is empty.
LEMMA IInvInit == Init => IInv
<1> SUFFICES ASSUME Init PROVE IInv
  OBVIOUS
<1>1. LineTypes
  BY TypesInit
<1> DEFINE T == [i \in 1 .. 1 |-> <<>>]
<1>2. Stream(T, since)
  BY StreamEmpty DEF Init
<1>3. T[1] = <<>> /\ Len(since) = 0 /\ 1 \in 1 .. (0 + 1)
  BY DEF Init
<1>4. Delivered(since, 1)
  <2>1. SubSeq(since, 2, 1 - 1) = <<>> /\ SubSeq(since, 1, 1 - 1) = <<>>
    BY SubSeqEmpty
  <2>2. <<>> \in Seq(Seq(Byte)) /\ <<>> = <<>> \o <<>>
    OBVIOUS
  <2>3. dispatched = <<>> /\ since = written
    BY DEF Init
  <2> QED
    BY <2>1, <2>2, <2>3 DEF Delivered
<1> HIDE DEF T
<1>5. Between(T, since, 1)
  BY <1>3, <1>4 DEF Between, Init, ParserInit
<1> QED
  BY <1>1, <1>2, <1>5 DEF IInv, Reading

\* A request is written.
LEMMA WriteStep ==
    ASSUME LineTypes, NEW rs \in Seq(Requests), NEW T, Stream(T, rs), Reading(T, rs),
           NEW r \in Requests, Write(r)
    PROVE  \E U : Stream(U, Append(rs, r)) /\ Reading(U, Append(rs, r))'
<1> DEFINE n == Len(rs)
           s == Frame(r)
           more == Append(rs, r)
           U == [i \in 1 .. (n + 2) |-> IF i = n + 2 THEN <<>> ELSE T[i] \o s]
<1>1. Stream(U, more)
  BY StreamAppend
<1>2. /\ n \in Nat /\ s \in Seq(Byte) /\ \A i \in 1 .. (n + 1) : T[i] \in Seq(Byte)
  <2>1. <<>> \in Seq(Byte)
    OBVIOUS
  <2> QED
    BY <2>1, StreamTypes, FrameChain
<1>3. \A i \in 1 .. (n + 1) : U[i] = T[i] \o s
  <2>1. \A i \in 1 .. (n + 1) : i \in 1 .. (n + 2) /\ i # n + 2
    BY <1>2
  <2> HIDE DEF n, s
  <2> QED
    BY <2>1
<1>4. Len(more) = n + 1 /\ \A i \in 1 .. n : more[i] = rs[i] /\ rs[i] \in Requests
  BY AppendProperties, ElementOfSeq
<1>5. /\ line' = line \o s /\ UNCHANGED parser /\ losses' = losses
      /\ dispatched' = dispatched /\ written' = Append(written, r)
  BY DEF Write
<1> HIDE DEF U, s, more, n
<1>6. CASE Lost(T, rs)
  <2>1. losses' # 0
    BY <1>5, <1>6 DEF Lost
  <2>2. CASE \E junk \in Seq(Byte) : line = junk \o T[1]
    <3>1. PICK junk \in Seq(Byte) : line = junk \o T[1]
      BY <2>2
    <3>2. 1 \in 1 .. (n + 1)
      BY <1>2
    <3>3. line' = junk \o U[1]
      <4>1. U[1] = T[1] \o s /\ T[1] \in Seq(Byte)
        BY <1>2, <1>3, <3>2
      <4>2. (junk \o T[1]) \o s = junk \o (T[1] \o s)
        BY <1>2, <4>1, Associative, Zenon
      <4> QED
        BY <1>5, <3>1, <4>1, <4>2, Zenon
    <3>4. Lost(U, more)'
      BY <2>1, <3>3 DEF Lost
    <3> QED
      BY <1>1, <3>4 DEF Reading, more
  <2>3. CASE 1 \in 1 .. Len(rs) /\ Astray(rs[1], T[2])
    <3>1. PICK t, k : Position(t, k, rs[1], T[2])
      BY <2>3 DEF Astray
    <3>2. rs[1] \in Requests /\ more[1] = rs[1] /\ U[2] = T[2] \o s /\ 1 \in 1 .. Len(more)
      <4>1. 1 \in 1 .. n /\ 2 \in 1 .. (n + 1) /\ 1 \in 1 .. (n + 1)
        BY <1>2, <2>3 DEF n
      <4> QED
        BY <1>3, <1>4, <4>1
    <3> DEFINE first == rs[1]
               rest == T[2]
    <3>3. first \in Requests /\ Position(t, k, first, rest)
      BY <3>1, <3>2
    <3> HIDE DEF first, rest
    <3>4. Position([i \in 1 .. (Len(first) + 2) |-> t[i] \o s], k, first, rest \o s)'
      BY <1>2, <1>5, <3>3, PositionWrite
    <3>5. Astray(first, rest \o s)'
      BY <3>4 DEF Astray
    <3>6. Astray(more[1], U[2])'
      BY <3>2, <3>5 DEF first, rest
    <3>7. Lost(U, more)'
      BY <2>1, <3>2, <3>6 DEF Lost
    <3> QED
      BY <1>1, <3>7 DEF Reading, more
  <2> QED
    BY <1>6, <2>2, <2>3 DEF Lost
<1>7. ASSUME NEW j, Between(T, rs, j) PROVE Between(U, more, j)'
  <2>1. j \in 1 .. (n + 1) /\ j \in 1 .. (Len(more) + 1)
    BY <1>2, <1>4, <1>7 DEF Between, n
  <2>2. Delivered(more, j)'
    BY <1>5, <1>7, <2>1, DeliveredWrite DEF Between, n, more
  <2>3. line' = U[j]
    BY <1>3, <1>5, <1>7, <2>1 DEF Between
  <2>4. ~escaped'
    BY <1>5, <1>7 DEF Between, parser
  <2> QED
    BY <2>1, <2>2, <2>3, <2>4 DEF Between
<1>8. ASSUME NEW j, Within(T, rs, j) PROVE Within(U, more, j)'
  <2>1. j \in 1 .. n /\ j \in 1 .. Len(more) /\ j + 1 \in 1 .. (n + 1) /\ j \in 1 .. (n + 1)
    BY <1>2, <1>4, <1>8 DEF Within, n
  <2>2. Delivered(more, j)'
    BY <1>5, <1>8, <2>1, DeliveredWrite DEF Within, n, more
  <2> DEFINE q == rs[j]
             rest == T[j + 1]
  <2>3. q \in Requests /\ Inside(q, rest) /\ more[j] = q /\ U[j + 1] = rest \o s
    BY <1>3, <1>4, <1>8, <2>1 DEF Within
  <2> HIDE DEF q, rest
  <2>4. PICK t, k : Position(t, k, q, rest) /\ synchronized /\ bytes = SubSeq(Plain(q), 1, k - 1)
    BY <2>3 DEF Inside
  <2>5. Position([i \in 1 .. (Len(q) + 2) |-> t[i] \o s], k, q, rest \o s)'
    BY <1>2, <1>5, <2>3, <2>4, PositionWrite
  <2>6. synchronized' /\ bytes' = SubSeq(Plain(q), 1, k - 1)
    BY <1>5, <2>4 DEF parser
  <2>7. Inside(q, rest \o s)'
    BY <2>5, <2>6 DEF Inside
  <2>8. Inside(more[j], U[j + 1])'
    BY <2>3, <2>7
  <2> QED
    BY <2>1, <2>2, <2>8 DEF Within
<1>9. CASE ~Lost(T, rs)
  <2>1. PICK j : Between(T, rs, j) \/ Within(T, rs, j)
    BY <1>9 DEF Reading
  <2>2. Reading(U, more)'
    BY <1>7, <1>8, <2>1 DEF Reading
  <2> QED
    BY <1>1, <2>2 DEF more
<1> QED
  BY <1>6, <1>9

\* Bytes are lost: whatever is left belongs to requests before the next one.
LEMMA LoseStep ==
    ASSUME LineTypes, LineTypes', Lose
    PROVE  \E U : Stream(U, <<>>) /\ Reading(U, <<>>)'
<1> DEFINE U == [i \in 1 .. 1 |-> <<>>]
<1>1. Stream(U, <<>>) /\ U[1] = <<>>
  BY StreamEmpty
<1> HIDE DEF U
<1>2. line' \in Seq(Byte) /\ losses' # 0
  BY DEF LineTypes, TypeOK, Lose
<1>3. line' = line' \o U[1]
  BY <1>1, <1>2, ConcatEmptySeq
<1>4. Lost(U, <<>>)'
  BY <1>2, <1>3 DEF Lost
<1> QED
  BY <1>1, <1>4 DEF Reading

\* A byte is received.
LEMMA ReceiveStep ==
    ASSUME LineTypes, LineTypes', NEW rs \in Seq(Requests), NEW T, Stream(T, rs),
           Reading(T, rs), Receive
    PROVE  Reading(T, rs)'
<1> DEFINE n == Len(rs)
<1>1. /\ ParserInv /\ line \in Seq(Byte) /\ dispatched \in Seq(Seq(Byte))
      /\ dispatched' \in Seq(Seq(Byte)) /\ escaped \in BOOLEAN
  BY DEF LineTypes, TypeOK, ParserTypeOK
<1>2. /\ line # <<>> /\ line' = Tail(line)
      /\ losses' = losses /\ written' = written
      /\ dispatched' = IF request' = <<>> THEN dispatched ELSE Append(dispatched, request')
  BY DEF Receive
<1>3. n \in Nat /\ (\A i \in 1 .. (n + 1) : T[i] \in Seq(Byte)) /\ T[n + 1] = <<>>
  BY StreamTypes DEF Stream
<1>4. \A i \in 1 .. n : rs[i] \in Requests /\ i + 1 \in 1 .. (n + 1) /\ i \in 1 .. (n + 1)
  BY <1>3, ElementOfSeq
<1> HIDE DEF n
\* At the SYNC of a request, with nothing escaped.
<1>5. ASSUME NEW j, Between(T, rs, j) PROVE Within(T, rs, j)'
  <2>1. j \in 1 .. (n + 1) /\ Delivered(rs, j) /\ ~escaped /\ line = T[j]
    BY <1>5 DEF Between, n
  <2>2. j \in 1 .. n
    <3>1. j # n + 1
      BY <1>2, <1>3, <2>1
    <3> QED
      BY <1>3, <2>1, <3>1
  <2>3. Inside(rs[j], T[j + 1])' /\ request' = <<>>
    BY <1>1, <2>1, <2>2, SyncStep DEF n
  <2>4. Delivered(rs, j)'
    BY <1>2, <2>1, <2>3, DeliveredSame
  <2> QED
    BY <2>2, <2>3, <2>4 DEF Within, n
\* Inside a request.
<1>6. ASSUME NEW j, Within(T, rs, j) PROVE Within(T, rs, j)' \/ Between(T, rs, j + 1)'
  <2>1. j \in 1 .. n /\ Delivered(rs, j) /\ Inside(rs[j], T[j + 1]) /\ rs[j] \in Requests
    BY <1>4, <1>6 DEF Within, n
  <2>2. \/ Inside(rs[j], T[j + 1])' /\ request' = <<>>
        \/ line' = T[j + 1] /\ ~escaped' /\ request' = rs[j]
    BY <1>1, <2>1, InsideStep
  <2>3. CASE Inside(rs[j], T[j + 1])' /\ request' = <<>>
    <3>1. Delivered(rs, j)'
      BY <1>2, <2>1, <2>3, DeliveredSame
    <3> QED
      BY <2>1, <2>3, <3>1 DEF Within, n
  <2>4. CASE line' = T[j + 1] /\ ~escaped' /\ request' = rs[j]
    <3>1. rs[j] # <<>>
      BY <2>1, RequestFacts
    <3>2. dispatched' = Append(dispatched, rs[j])
      BY <1>2, <2>4, <3>1
    <3>3. Delivered(rs, j + 1)'
      BY <1>1, <1>2, <2>1, <3>2, DeliveredNext DEF n
    <3>4. j + 1 \in 1 .. (n + 1)
      BY <1>4, <2>1
    <3> QED
      BY <2>4, <3>3, <3>4 DEF Between, n
  <2> QED
    BY <2>2, <2>3, <2>4
\* After a loss.
<1>7. CASE Lost(T, rs)
  <2>1. losses' # 0
    BY <1>2, <1>7 DEF Lost
  <2>2. 1 \in 1 .. (n + 1) /\ T[1] \in Seq(Byte)
    BY <1>3
  <2>3. CASE 1 \in 1 .. n /\ Astray(rs[1], T[2])
    <3>1. rs[1] \in Requests
      BY <1>4, <2>3
    <3>2. Astray(rs[1], T[2])' \/ (line' = T[2] /\ ~escaped')
      BY <1>1, <2>3, <3>1, AstrayStep
    <3>3. CASE Astray(rs[1], T[2])'
      BY <2>1, <2>3, <3>3 DEF Lost, Reading, n
    <3>4. CASE line' = T[2] /\ ~escaped'
      <4>1. Delivered(rs, 2)'
        BY <1>1, <2>1, DeliveredNone
      <4>2. 2 \in 1 .. (n + 1)
        BY <1>3, <2>3
      <4>3. Between(T, rs, 2)'
        BY <3>4, <4>1, <4>2 DEF Between, n
      <4> QED
        BY <4>3 DEF Reading
    <3> QED
      BY <3>2, <3>3, <3>4
  <2>4. ASSUME NEW junk \in Seq(Byte), line = junk \o T[1] PROVE Reading(T, rs)'
    <3>1. CASE junk # <<>>
      <4>1. Tail(junk) \in Seq(Byte) /\ line' = Tail(junk) \o T[1]
        BY <1>2, <2>2, <2>4, <3>1
      <4> QED
        BY <2>1, <4>1 DEF Lost, Reading
    <3>2. CASE junk = <<>>
      <4>1. line = T[1]
        BY <2>2, <2>4, <3>2, ConcatEmptySeq
      <4>2. 1 \in 1 .. n
        <5>1. n # 0
          BY <1>2, <1>3, <4>1
        <5> QED
          BY <1>3, <5>1
      <4>3. /\ ~escaped => Inside(rs[1], T[1 + 1])' /\ request' = <<>>
            /\ escaped => Astray(rs[1], T[1 + 1])'
        BY <1>1, <4>1, <4>2, SyncStep DEF n
      <4>4. CASE escaped
        <5>1. Lost(T, rs)'
          <6>1. 1 + 1 = 2
            OBVIOUS
          <6>2. Astray(rs[1], T[2])'
            BY <4>3, <4>4, <6>1
          <6> QED
            BY <2>1, <4>2, <6>2 DEF Lost, n
        <5> QED
          BY <5>1 DEF Reading
      <4>5. CASE ~escaped
        <5>1. Delivered(rs, 1)'
          BY <1>1, <2>1, DeliveredNone
        <5>2. Within(T, rs, 1)'
          BY <4>2, <4>3, <4>5, <5>1 DEF Within, n
        <5> QED
          BY <5>2 DEF Reading
      <4> QED
        BY <1>1, <4>4, <4>5
    <3> QED
      BY <3>1, <3>2
  <2> QED
    BY <1>7, <2>3, <2>4 DEF Lost, n
<1>8. CASE ~Lost(T, rs)
  <2>1. PICK j : Between(T, rs, j) \/ Within(T, rs, j)
    BY <1>8 DEF Reading
  <2>2. Within(T, rs, j)' \/ Between(T, rs, j + 1)'
    BY <1>5, <1>6, <2>1
  <2> QED
    BY <2>2 DEF Reading
<1> QED
  BY <1>7, <1>8

\* Every step keeps the invariant.
LEMMA IInvNext == IInv /\ [Next]_vars => IInv'
<1> SUFFICES ASSUME IInv, [Next]_vars PROVE IInv'
  OBVIOUS
<1>1. LineTypes /\ LineTypes'
  BY TypesNext DEF IInv
<1>2. PICK rs : rs = since
  OBVIOUS
<1>3. PICK T : Stream(T, rs) /\ Reading(T, rs)
  BY <1>2 DEF IInv
<1>4. rs \in Seq(Requests)
  BY <1>1, <1>2 DEF LineTypes
<1>5. ASSUME NEW more, NEW U, since' = more, Stream(U, more), Reading(U, more)'
      PROVE  IInv'
  <2>1. (Stream(U, more) /\ Reading(U, more))'
    BY <1>5 DEF Stream, Chain, Sent
  <2>2. (\E V : Stream(V, since) /\ Reading(V, since))'
    BY <1>5, <2>1
  <2> QED
    BY <1>1, <2>2 DEF IInv
<1>6. ASSUME NEW r \in Requests, Write(r) PROVE IInv'
  <2>1. PICK U : Stream(U, Append(rs, r)) /\ Reading(U, Append(rs, r))'
    BY <1>1, <1>3, <1>4, <1>6, WriteStep
  <2>2. since' = Append(rs, r)
    BY <1>2, <1>6 DEF Write
  <2> QED
    BY <1>5, <2>1, <2>2
<1>7. CASE Lose
  <2>1. PICK U : Stream(U, <<>>) /\ Reading(U, <<>>)'
    BY <1>1, <1>7, LoseStep
  <2> QED
    BY <1>5, <1>7, <2>1 DEF Lose
<1>8. CASE Receive
  <2>1. Reading(T, rs)'
    BY <1>1, <1>3, <1>4, <1>8, ReceiveStep
  <2> QED
    BY <1>2, <1>3, <1>5, <1>8, <2>1 DEF Receive
<1>9. CASE UNCHANGED vars
  <2>1. Reading(T, rs)'
    <3>1. /\ line' = line /\ losses' = losses /\ written' = written /\ since' = since
          /\ dispatched' = dispatched /\ synchronized' = synchronized /\ escaped' = escaped
          /\ bytes' = bytes
      BY <1>9 DEF vars, parser
    <3> QED
      BY <1>3, <3>1
      DEF Reading, Lost, Between, Within, Delivered, Inside, Astray, Position, Place
  <2> QED
    BY <1>2, <1>3, <1>5, <1>9, <2>1 DEF vars
<1> QED
  BY <1>6, <1>7, <1>8, <1>9 DEF Next

\* At the end of the line every request since the last loss has been read.
LEMMA EndOfLine ==
    ASSUME IInv, line = <<>>, losses = 0 \/ since # <<>>
    PROVE  Delivered(since, Len(since) + 1)
<1> DEFINE n == Len(since)
<1>1. since \in Seq(Requests) /\ n \in Nat
  BY DEF IInv, LineTypes
<1>2. PICK T : Stream(T, since) /\ Reading(T, since)
  BY DEF IInv
<1>3. ASSUME NEW j \in 1 .. n PROVE T[j] # <<>> /\ T[j] \in Seq(Byte) /\ since[j] \in Requests
  <2>1. PICK t : /\ Chain(t, Units(since[j]), Len(since[j]) + 1)
                 /\ T[j] = <<SYNC>> \o t[1]
    <3>1. j \in 1 .. Len(since)
      OBVIOUS
    <3>2. \E t : /\ Chain(t, Units(since[j]), Len(since[j]) + 1) /\ t[Len(since[j]) + 2] = T[j + 1]
                 /\ T[j] = <<SYNC>> \o t[1]
      BY <1>1, <1>2, <3>1, StreamHead, Zenon
    <3> QED
      BY <3>2, Zenon
  <2>2. since[j] \in Requests
    BY <1>1, ElementOfSeq
  <2>3. t[1] \in Seq(Byte)
    <3>1. 1 \in 1 .. ((Len(since[j]) + 1) + 1)
      BY <2>2, RequestFacts
    <3> QED
      BY <2>1, <3>1 DEF Chain
  <2> QED
    BY <2>1, <2>2, <2>3, ByteAssumption, HeadOne
<1>4. ASSUME NEW r \in Requests, NEW rest, Astray(r, rest) PROVE FALSE
  BY <1>4, UnitLine DEF Astray
<1>5. ~Lost(T, since)
  <2> SUFFICES ASSUME Lost(T, since) PROVE FALSE
    OBVIOUS
  <2>1. since # <<>>
    BY DEF Lost
  <2>2. 1 \in 1 .. n
    BY <1>1, <2>1, EmptySeq
  <2>3. T[1] # <<>> /\ T[1] \in Seq(Byte) /\ since[1] \in Requests
    BY <1>3, <2>2
  <2>4. ASSUME NEW junk \in Seq(Byte), line = junk \o T[1] PROVE FALSE
    <3>1. Len(line) = Len(junk) + Len(T[1]) /\ Len(junk) \in Nat /\ Len(T[1]) \in Nat \ {0}
      BY <2>3, <2>4, ConcatProperties, EmptySeq
    <3>2. Len(line) = 0
      OBVIOUS
    <3> QED
      BY <3>1, <3>2
  <2> QED
    BY <1>4, <2>3, <2>4 DEF Lost
<1>6. PICK j : Between(T, since, j) \/ Within(T, since, j)
  BY <1>2, <1>5 DEF Reading
<1>7. ~Within(T, since, j)
  <2> SUFFICES ASSUME Within(T, since, j) PROVE FALSE
    OBVIOUS
  <2>1. j \in 1 .. n /\ Inside(since[j], T[j + 1])
    BY DEF Within
  <2>2. since[j] \in Requests /\ Astray(since[j], T[j + 1])
    BY <1>3, <2>1 DEF Inside, Astray
  <2> QED
    BY <1>4, <2>2
<1>8. j \in 1 .. (n + 1) /\ line = T[j] /\ Delivered(since, j)
  BY <1>6, <1>7 DEF Between
<1>9. j = n + 1
  <2>1. j \notin 1 .. n
    BY <1>3, <1>8
  <2> QED
    BY <1>1, <1>8, <2>1
<1> QED
  BY <1>8, <1>9

\* The invariant implies the two properties.
LEMMA IInvExact == IInv => ExactWithoutLoss
<1> SUFFICES ASSUME IInv, losses = 0
             PROVE  IsPrefix(dispatched, written) /\ (line = <<>> => dispatched = written)
  BY DEF ExactWithoutLoss
<1>1. since \in Seq(Requests) /\ Len(since) \in Nat
  BY DEF IInv, LineTypes
<1>2. PICK T, j : Between(T, since, j) \/ Within(T, since, j)
  BY DEF IInv, Reading, Lost
<1>3. j \in 1 .. (Len(since) + 1) /\ since = written /\ dispatched = SubSeq(since, 1, j - 1)
  BY <1>1, <1>2 DEF Between, Within, Delivered
<1>4. j - 1 \in Nat /\ j - 1 <= Len(since)
  BY <1>1, <1>3
<1>5. IsPrefix(dispatched, written)
  BY <1>1, <1>3, <1>4, SubSeqIsPrefix
<1>6. ASSUME line = <<>> PROVE dispatched = written
  <2>1. Delivered(since, Len(since) + 1)
    BY <1>6, EndOfLine
  <2>2. (Len(since) + 1) - 1 = Len(since)
    BY <1>1
  <2>3. dispatched = SubSeq(since, 1, Len(since))
    BY <2>1, <2>2 DEF Delivered
  <2> QED
    BY <1>1, <1>3, <2>3, SubSeqFull
<1> QED
  BY <1>5, <1>6

LEMMA IInvRecovers == IInv => Recovers
<1> SUFFICES ASSUME IInv, line = <<>>, since # <<>> PROVE IsSuffix(Tail(since), dispatched)
  BY DEF Recovers
<1>1. since \in Seq(Requests) /\ Len(since) \in Nat /\ since \in Seq(Seq(Byte))
  BY RequestsAreSeqs DEF IInv, LineTypes
<1>2. Delivered(since, Len(since) + 1)
  BY EndOfLine
<1>3. (Len(since) + 1) - 1 = Len(since)
  BY <1>1
<1>4. PICK u \in Seq(Seq(Byte)) : dispatched = u \o SubSeq(since, 2, Len(since))
  BY <1>2, <1>3 DEF Delivered
<1>5. Tail(since) = SubSeq(since, 2, Len(since)) /\ Tail(since) \in Seq(Seq(Byte))
  BY <1>1, TailIsSubSeq, HeadTailProperties
<1> QED
  BY <1>4, <1>5, SuffixOfConcat

\* The parser and the line keep their types.
THEOREM TypeCorrect == Spec => []TypeOK
<1>1. IInv => TypeOK
  BY DEF IInv, LineTypes
<1> QED
  BY <1>1, IInvInit, IInvNext, PTL DEF Spec

\* parser.bytes is not overrun on a line that loses bytes either.
THEOREM NeverOverrunOnTheLine == Spec => []FrameFits
<1>1. IInv => FrameFits
  BY DEF IInv, LineTypes, ParserInv
<1> QED
  BY <1>1, IInvInit, IInvNext, PTL DEF Spec

\* What send_response frames sega_receive unframes: on a line that loses nothing
\* every request is dispatched, once and in order, whichever bytes are escaped.
THEOREM ExactDelivery == Spec => []ExactWithoutLoss
<1> QED
  BY IInvExact, IInvInit, IInvNext, PTL DEF Spec

\* However often the message queue overflows and whatever bytes it drops, the
\* parser loses at most the first request that is written after it.
THEOREM Recovery == Spec => []Recovers
<1> QED
  BY IInvRecovers, IInvInit, IInvNext, PTL DEF Spec
=============================================================================
