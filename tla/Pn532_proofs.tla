---------------------------- MODULE Pn532_proofs ----------------------------
(***************************************************************************)
(* Proofs about module Pn532, for any number of byte values, any command   *)
(* codes, any requests and any answers of the chip.                        *)
(***************************************************************************)
EXTENDS Pn532, ByteSums_proofs

(* Bytes and functions.                                                    *)

LEMMA ByteFacts ==
    /\ Byte \subseteq Nat /\ {0, 1, ByteMod - 1} \subseteq Byte
    /\ \A n \in Nat : Minus(n) \in Byte
  BY SizeAssumption DEF Byte, Minus

LEMMA CodeFacts ==
    /\ PN532_HOST_TO_PN532 \in Byte /\ PN532_PN532_TO_HOST \in Byte
    /\ \A f \in DriverFunctions : Code(f) \in Byte /\ Code(f) + 1 \in Byte
  BY SizeAssumption DEF CommandCodes, Code

LEMMA FunctionFacts ==
    /\ "init_sam" \in DriverFunctions /\ "none" \notin DriverFunctions
    /\ \A f \in DriverFunctions : ResponseCapacity(f) \in Nat /\ CallerCapacity(f) \in Nat
<1>1. Range(InitFunctions) = {"init_sam", "init_retries"}
  BY DEF Range, InitFunctions
<1> QED
  BY <1>1 DEF DriverFunctions, Polls, Exchanges, ResponseCapacity, CallerCapacity

-----------------------------------------------------------------------------
(* Frames.                                                                 *)

\* The bytes of the frame of a payload.
FrameOf(frame, direction, code, bytes) ==
    /\ frame \in Seq(Byte) /\ Len(frame) = Len(bytes) + 9
    /\ frame[1] = 0 /\ frame[2] = 0 /\ frame[3] = ByteMod - 1
    /\ frame[4] = Len(bytes) + 2 /\ frame[5] = Minus(Len(bytes) + 2)
    /\ frame[6] = direction /\ frame[7] = code
    /\ \A i \in 1 .. Len(bytes) : frame[7 + i] = bytes[i]
    /\ ByteSum(SubSeq(frame, 6, Len(bytes) + 8)) % ByteMod = 0
    /\ frame[Len(bytes) + 9] = 0

LEMMA FrameFacts ==
    ASSUME NEW direction \in Byte, NEW code \in Byte, NEW bytes \in Seq(Byte),
           Len(bytes) + 4 <= ByteMod
    PROVE  FrameOf(Frame(direction, code, bytes), direction, code, bytes)
<1> DEFINE data == <<direction, code>> \o bytes
           size == Len(bytes) + 2
           last == Minus(ByteSum(data))
           head == <<0, 0, ByteMod - 1, size, Minus(size)>>
           frame == head \o data \o <<last, 0>>
<1>1. /\ data \in Seq(Byte) /\ Len(data) = size /\ data[1] = direction /\ data[2] = code
      /\ \A i \in 1 .. Len(bytes) : data[i + 2] = bytes[i]
      /\ size \in Byte /\ size \in Nat /\ Len(bytes) \in Nat
  BY SizeAssumption DEF Byte
<1>2. ByteSum(data) \in Nat /\ last \in Byte /\ data \in Seq(Nat) /\ last \in Nat
  <2>1. data \in Seq(Nat)
    BY <1>1, ByteFacts, SeqMonotonic
  <2> QED
    BY <2>1, ByteFacts, SumNat
<1>3. head \in Seq(Byte) /\ Len(head) = 5 /\ <<last, 0>> \in Seq(Byte) /\ Len(<<last, 0>>) = 2
  BY <1>1, <1>2, ByteFacts
<1>4. /\ frame \in Seq(Byte) /\ Len(frame) = size + 7
      /\ \A i \in 1 .. 5 : frame[i] = head[i]
      /\ \A i \in 1 .. size : frame[5 + i] = data[i]
      /\ frame[size + 6] = last /\ frame[size + 7] = 0
  BY <1>1, <1>3
<1>5. Frame(direction, code, bytes) = frame
  BY <1>1 DEF Frame
<1>6. ByteSum(SubSeq(frame, 6, Len(bytes) + 8)) % ByteMod = 0
  <2> DEFINE body == SubSeq(frame, 6, Len(bytes) + 8)
             sum == data \o <<last>>
  <2>1. sum \in Seq(Byte) /\ Len(sum) = size + 1 /\ sum[size + 1] = last
        /\ \A i \in 1 .. size : sum[i] = data[i]
    <3> HIDE DEF data, size, last
    <3> QED
      BY <1>1, <1>2
  <2>2. body \in Seq(Byte) /\ Len(body) = size + 1 /\ \A i \in 1 .. (size + 1) : body[i] = frame[5 + i]
    <3>1. \A i \in 6 .. (Len(bytes) + 8) : frame[i] \in Byte
      BY <1>1, <1>4
    <3>2. /\ body \in Seq(Byte) /\ Len(body) = (Len(bytes) + 8) - 6 + 1
          /\ \A i \in 1 .. ((Len(bytes) + 8) - 6 + 1) : body[i] = frame[6 + i - 1]
      BY <1>1, <3>1, SubSeqProperties
    <3> QED
      BY <1>1, <3>2
  <2>3. body = sum
    <3>1. \A i \in 1 .. Len(body) : body[i] = sum[i]
      BY <1>1, <1>4, <2>1, <2>2
    <3> QED
      BY <2>1, <2>2, <3>1, SeqEqual
  <2>4. ByteSum(sum) = ByteSum(data) + last
    <3>1. <<last>> \in Seq(Nat) /\ ByteSum(<<last>>) = last
      <4> HIDE DEF last
      <4> QED
        BY <1>2, SumSingle
    <3> HIDE DEF data, last
    <3> QED
      BY <1>2, <3>1, SumConcat
  <2>5. (ByteSum(data) + last) % ByteMod = 0
    BY <1>2, SizeAssumption, Complement DEF Minus
  <2> QED
    BY <2>3, <2>4, <2>5
<1>7. /\ frame[1] = 0 /\ frame[2] = 0 /\ frame[3] = ByteMod - 1 /\ frame[4] = size
      /\ frame[5] = Minus(size) /\ frame[6] = direction /\ frame[7] = code
      /\ \A i \in 1 .. Len(bytes) : frame[7 + i] = bytes[i]
      /\ frame[Len(bytes) + 9] = 0 /\ Len(frame) = Len(bytes) + 9
  BY <1>1, <1>4
<1> HIDE DEF frame
<1> QED
  BY <1>4, <1>5, <1>6, <1>7 DEF FrameOf

\* What is read into the buffer of the driver.
LEMMA BufferFacts ==
    ASSUME NEW frame \in Seq(Byte), Len(frame) <= FrameCapacity
    PROVE  /\ Buffer(frame) \in [1 .. FrameCapacity -> Byte]
           /\ \A i \in 1 .. Len(frame) : Buffer(frame)[i] = frame[i]
<1>1. \A i \in 1 .. Len(frame) : frame[i] \in Byte
  BY ElementOfSeq
<1>2. Len(frame) \in Nat /\ FrameCapacity \in Nat
  BY SizeAssumption
<1> QED
  BY <1>1, <1>2, ByteFacts DEF Buffer

\* A part of the buffer.
LEMMA BufferPart ==
    ASSUME NEW frame \in [1 .. FrameCapacity -> Byte], NEW m \in Nat \ {0}, NEW n \in Nat,
           n <= FrameCapacity
    PROVE  /\ SubSeq(frame, m, n) \in Seq(Byte)
           /\ Len(SubSeq(frame, m, n)) = IF m <= n THEN n - m + 1 ELSE 0
           /\ \A i \in 1 .. (n - m + 1) : SubSeq(frame, m, n)[i] = frame[m + i - 1]
<1>1. \A i \in m .. n : frame[i] \in Byte
  BY SizeAssumption
<1> QED
  BY <1>1, SubSeqProperties

\* The chip and the driver take an undamaged frame whose payload fits, and its payload.
LEMMA UndamagedFrame ==
    ASSUME NEW frame, NEW direction, NEW code, NEW bytes \in Seq(Byte), NEW capacity \in Nat,
           FrameOf(frame, direction, code, bytes), Len(bytes) + 4 <= ByteMod
    PROVE  /\ Valid(Buffer(frame), direction, code, capacity) <=> Len(bytes) <= capacity
           /\ Payload(Buffer(frame)) = bytes
<1> DEFINE buffer == Buffer(frame)
           size == Len(bytes) + 2
<1>1. /\ frame \in Seq(Byte) /\ Len(frame) = size + 7 /\ Len(frame) <= FrameCapacity
      /\ size \in Nat /\ size >= 2 /\ size <= ByteMod - 2 /\ Len(bytes) \in Nat
      /\ ByteMod \in Nat /\ FrameCapacity \in Nat
  BY SizeAssumption DEF FrameOf
<1>2. /\ buffer \in [1 .. FrameCapacity -> Byte]
      /\ \A i \in 1 .. (size + 7) : buffer[i] = frame[i]
  BY <1>1, BufferFacts
<1> HIDE DEF buffer
<1>3. buffer[4] = size /\ buffer[5] = Minus(size) /\ buffer[6] = direction /\ buffer[7] = code
      /\ buffer[7 + size] = 0
  BY <1>1, <1>2 DEF FrameOf
<1>4. SubSeq(buffer, 1, 3) = <<0, 0, ByteMod - 1>>
  <2>1. /\ SubSeq(buffer, 1, 3) \in Seq(Byte) /\ Len(SubSeq(buffer, 1, 3)) = 3
        /\ \A i \in 1 .. 3 : SubSeq(buffer, 1, 3)[i] = buffer[i]
    BY <1>1, <1>2, BufferPart
  <2>2. buffer[1] = 0 /\ buffer[2] = 0 /\ buffer[3] = ByteMod - 1
    BY <1>1, <1>2 DEF FrameOf
  <2>3. <<0, 0, ByteMod - 1>> \in Seq(Byte) /\ Len(<<0, 0, ByteMod - 1>>) = 3
    BY ByteFacts
  <2>4. \A i \in 1 .. 3 : SubSeq(buffer, 1, 3)[i] = <<0, 0, ByteMod - 1>>[i]
    BY <2>1, <2>2
  <2> QED
    BY <2>1, <2>3, <2>4, SeqEqual
<1>5. (size + Minus(size)) % ByteMod = 0
  BY <1>1, SizeAssumption, Complement DEF Minus
<1>6. SubSeq(buffer, 6, 6 + size) = SubSeq(frame, 6, Len(bytes) + 8)
  <2>0. 6 + size = Len(bytes) + 8 /\ 6 + size <= FrameCapacity
    BY <1>1
  <2>1. /\ SubSeq(buffer, 6, 6 + size) \in Seq(Byte) /\ Len(SubSeq(buffer, 6, 6 + size)) = size + 1
        /\ \A i \in 1 .. (size + 1) : SubSeq(buffer, 6, 6 + size)[i] = buffer[5 + i]
    BY <1>1, <1>2, <2>0, BufferPart
  <2>2. /\ SubSeq(frame, 6, 6 + size) \in Seq(Byte) /\ Len(SubSeq(frame, 6, 6 + size)) = size + 1
        /\ \A i \in 1 .. (size + 1) : SubSeq(frame, 6, 6 + size)[i] = frame[5 + i]
    <3>1. \A i \in 6 .. (6 + size) : frame[i] \in Byte
      BY <1>1
    <3> QED
      BY <1>1, <3>1, SubSeqProperties
  <2>3. \A i \in 1 .. (size + 1) : buffer[5 + i] = frame[5 + i]
    BY <1>1, <1>2
  <2>4. SubSeq(buffer, 6, 6 + size) = SubSeq(frame, 6, 6 + size)
    <3> DEFINE s == SubSeq(buffer, 6, 6 + size)
               t == SubSeq(frame, 6, 6 + size)
    <3>1. s \in Seq(Byte) /\ t \in Seq(Byte) /\ Len(s) = Len(t) /\ \A i \in 1 .. Len(s) : s[i] = t[i]
      BY <2>1, <2>2, <2>3
    <3> HIDE DEF s, t
    <3>2. s = t
      BY <3>1, SeqEqual
    <3> QED
      BY <3>2 DEF s, t
  <2> QED
    BY <2>0, <2>4
<1>7. Valid(buffer, direction, code, capacity) <=> Len(bytes) <= capacity
  <2>1. ByteSum(SubSeq(buffer, 6, 6 + size)) % ByteMod = 0
    BY <1>6 DEF FrameOf
  <2>2. size # ByteMod - 1 /\ 5 + size + 2 <= FrameCapacity /\ size - 2 = Len(bytes)
    BY <1>1
  <2> QED
    BY <1>1, <1>3, <1>4, <1>5, <2>1, <2>2 DEF Valid
<1>8. Payload(buffer) = bytes
  <2>1. Payload(buffer) = SubSeq(buffer, 8, 5 + size)
    BY <1>3 DEF Payload
  <2>2. /\ SubSeq(buffer, 8, 5 + size) \in Seq(Byte)
        /\ Len(SubSeq(buffer, 8, 5 + size)) = Len(bytes)
        /\ \A i \in 1 .. Len(bytes) : SubSeq(buffer, 8, 5 + size)[i] = buffer[7 + i]
    BY <1>1, <1>2, BufferPart
  <2>3. \A i \in 1 .. Len(bytes) : buffer[7 + i] = bytes[i]
    BY <1>1, <1>2 DEF FrameOf
  <2> QED
    BY <2>1, <2>2, <2>3, SeqEqual
<1> QED
  BY <1>7, <1>8 DEF buffer

\* A frame with one wrong byte, wherever it is, is taken for no frame at all.
THEOREM DamagedFrame ==
    ASSUME NEW frame, NEW direction, NEW code, NEW bytes \in Seq(Byte),
           FrameOf(frame, direction, code, bytes), Len(bytes) + 4 <= ByteMod,
           NEW i \in 1 .. Len(frame), NEW b \in Byte, b # frame[i],
           NEW direction2, NEW code2, NEW capacity
    PROVE  ~Valid([Buffer(frame) EXCEPT ![i] = b], direction2, code2, capacity)
<1> DEFINE damaged == [Buffer(frame) EXCEPT ![i] = b]
           size == Len(bytes) + 2
<1>1. /\ frame \in Seq(Byte) /\ Len(frame) = size + 7 /\ Len(frame) <= FrameCapacity
      /\ size \in Nat /\ size >= 2 /\ size <= ByteMod - 2 /\ Len(bytes) \in Nat
      /\ ByteMod \in Nat \ {0} /\ FrameCapacity \in Nat
  BY SizeAssumption DEF FrameOf
<1>2. /\ damaged \in [1 .. FrameCapacity -> Byte] /\ damaged[i] = b
      /\ \A j \in 1 .. (size + 7) : j # i => damaged[j] = frame[j]
  <2>1. /\ Buffer(frame) \in [1 .. FrameCapacity -> Byte] /\ i \in 1 .. FrameCapacity
        /\ \A j \in 1 .. (size + 7) : Buffer(frame)[j] = frame[j] /\ j \in 1 .. FrameCapacity
    BY <1>1, BufferFacts
  <2> QED
    BY <2>1
<1>3. /\ frame[1] = 0 /\ frame[2] = 0 /\ frame[3] = ByteMod - 1
      /\ frame[4] = size /\ frame[5] = Minus(size) /\ frame[7 + size] = 0
      /\ ByteSum(SubSeq(frame, 6, 6 + size)) % ByteMod = 0
  <2>1. 6 + size = Len(bytes) + 8 /\ 7 + size = Len(bytes) + 9
    BY <1>1
  <2> QED
    BY <2>1 DEF FrameOf
<1>4. (size + Minus(size)) % ByteMod = 0 /\ Minus(size) \in Byte
  BY <1>1, Complement, ByteFacts DEF Minus
<1>5. /\ b \in 0 .. (ByteMod - 1) /\ Minus(size) \in 0 .. (ByteMod - 1)
      /\ size \in 0 .. (ByteMod - 1)
  <2>1. Byte = 0 .. (ByteMod - 1)
    BY DEF Byte
  <2>2. b \in 0 .. (ByteMod - 1) /\ Minus(size) \in 0 .. (ByteMod - 1)
    BY <1>4, <2>1
  <2> QED
    BY <1>1, <2>2
<1> SUFFICES ASSUME Valid(damaged, direction2, code2, capacity) PROVE FALSE
  OBVIOUS
<1> HIDE DEF damaged
<1>6. CASE i \in 1 .. 3
  <2>1. SubSeq(damaged, 1, 3) = <<0, 0, ByteMod - 1>>
    BY DEF Valid
  <2>2. \A j \in 1 .. 3 : SubSeq(damaged, 1, 3)[j] = damaged[j]
    BY <1>1, <1>2, BufferPart
  <2>3. damaged[1] = 0 /\ damaged[2] = 0 /\ damaged[3] = ByteMod - 1
    <3>1. <<0, 0, ByteMod - 1>>[1] = 0 /\ <<0, 0, ByteMod - 1>>[2] = 0
          /\ <<0, 0, ByteMod - 1>>[3] = ByteMod - 1
      OBVIOUS
    <3>2. 1 \in 1 .. 3 /\ 2 \in 1 .. 3 /\ 3 \in 1 .. 3
      OBVIOUS
    <3> QED
      BY <2>1, <2>2, <3>1, <3>2, Zenon
  <2> QED
    BY <1>2, <1>3, <1>6, <2>3
<1>7. CASE i = 4
  <2>1. damaged[4] = b /\ damaged[5] = Minus(size)
    BY <1>1, <1>2, <1>3, <1>7
  <2>2. (b + Minus(size)) % ByteMod = 0
    BY <2>1 DEF Valid
  <2>3. /\ (b + Minus(size)) + size = (size + Minus(size)) + b
        /\ b + Minus(size) \in Nat /\ size + Minus(size) \in Nat
    <3>1. \A x, y, z \in Nat : (x + y) + z = (z + y) + x /\ x + y \in Nat /\ z + y \in Nat
      OBVIOUS
    <3>2. b \in Nat /\ Minus(size) \in Nat /\ size \in Nat
      BY <1>5
    <3> QED
      BY <3>1, <3>2, Zenon
  <2>4. size = b
    BY <1>1, <1>4, <1>5, <2>2, <2>3, ModSame, Zenon
  <2> QED
    BY <1>3, <1>7, <2>4
<1>8. CASE i # 4
  <2>0. damaged[4] = size
    BY <1>1, <1>2, <1>3, <1>8
  <2>1. CASE i = 5
    <3>1. (size + b) % ByteMod = 0
      BY <1>2, <2>0, <2>1 DEF Valid
    <3>2. /\ (size + b) + Minus(size) = (size + Minus(size)) + b
          /\ size + b \in Nat /\ size + Minus(size) \in Nat
      <4>1. \A x, y, z \in Nat : (x + y) + z = (x + z) + y /\ x + y \in Nat /\ x + z \in Nat
        OBVIOUS
      <4>2. b \in Nat /\ Minus(size) \in Nat /\ size \in Nat
        BY <1>5
      <4> QED
        BY <4>1, <4>2, Zenon
    <3>3. Minus(size) = b
      BY <1>1, <1>4, <1>5, <3>1, <3>2, ModSame, Zenon
    <3> QED
      BY <1>3, <2>1, <3>3
  <2>2. CASE i = size + 7
    <3>1. damaged[7 + size] = 0
      BY <2>0 DEF Valid
    <3> QED
      BY <1>1, <1>2, <1>3, <2>2, <3>1
  <2>3. CASE i \in 6 .. (size + 6)
    <3> DEFINE s == SubSeq(frame, 6, 6 + size)
               t == SubSeq(damaged, 6, 6 + size)
               k == i - 5
    <3>1. s \in Seq(Byte) /\ Len(s) = size + 1 /\ \A j \in 1 .. (size + 1) : s[j] = frame[5 + j]
      <4>1. \A j \in 6 .. (6 + size) : frame[j] \in Byte
        BY <1>1
      <4> QED
        BY <1>1, <4>1, SubSeqProperties
    <3>2. t \in Seq(Byte) /\ Len(t) = size + 1 /\ \A j \in 1 .. (size + 1) : t[j] = damaged[5 + j]
      BY <1>1, <1>2, BufferPart
    <3>3. k \in 1 .. (size + 1) /\ 5 + k = i
      BY <1>1, <2>3
    <3>4. s[k] = frame[i] /\ t[k] = b
      BY <1>2, <3>1, <3>2, <3>3
    <3>5. \A j \in 1 .. (size + 1) : j # k => t[j] = s[j]
      BY <1>1, <1>2, <3>1, <3>2, <3>3
    <3>6. ByteSum(s) % ByteMod = 0 /\ ByteSum(t) % ByteMod = 0
      BY <1>3, <2>0 DEF Valid
    <3> HIDE DEF s, t, k
    <3>7. s \in Seq(Nat) /\ t \in Seq(Nat)
      BY <3>1, <3>2, ByteFacts, SeqMonotonic
    <3>8. ByteSum(s) \in Nat /\ ByteSum(t) \in Nat
      BY <3>7, SumNat
    <3>9. ByteSum(t) + s[k] = ByteSum(s) + t[k]
      <4>1. Len(t) = Len(s) /\ k \in 1 .. Len(s) /\ \A j \in 1 .. Len(s) : j # k => t[j] = s[j]
        BY <3>1, <3>2, <3>3, <3>5, Zenon
      <4> QED
        BY <3>7, <4>1, SumUpdate, Zenon
    <3>10. s[k] \in 0 .. (ByteMod - 1) /\ t[k] \in 0 .. (ByteMod - 1)
      <4>1. frame[i] \in Byte
        BY <1>1, ElementOfSeq
      <4> QED
        BY <1>5, <3>4, <4>1, Zenon DEF Byte
    <3>11. s[k] = t[k]
      BY <1>1, <3>6, <3>8, <3>9, <3>10, ModSame, Zenon
    <3> QED
      BY <3>4, <3>11
  <2>4. i \in 1 .. (size + 7)
    BY <1>1
  <2> QED
    BY <1>1, <1>6, <1>8, <2>1, <2>2, <2>3, <2>4
<1> QED
  BY <1>7, <1>8

\* The frame by which the chip refuses a command is none, damaged or not.
LEMMA RefusedFrame ==
    ASSUME NEW frame \in {Buffer(ErrorFrame)} \cup Misread(ErrorFrame),
           NEW direction, NEW code, NEW capacity
    PROVE  ~Valid(frame, direction, code, capacity)
<1>1. /\ ErrorFrame \in Seq(Byte) /\ Len(ErrorFrame) = 8 /\ DOMAIN ErrorFrame = 1 .. 8
      /\ ErrorFrame[4] = 1 /\ ErrorFrame[5] = ByteMod - 1
  BY ByteFacts DEF ErrorFrame
<1>2. ByteMod \in Nat /\ ByteMod >= 4 /\ FrameCapacity \in Nat /\ FrameCapacity >= 9
  BY SizeAssumption
<1> DEFINE buffer == Buffer(ErrorFrame)
<1>3. buffer[4] = 1 /\ buffer[5] = ByteMod - 1 /\ DOMAIN buffer = 1 .. FrameCapacity
  BY <1>1, <1>2 DEF Buffer
<1> HIDE DEF buffer
<1>4. frame[4] = 1 \/ (frame[5] = ByteMod - 1 /\ frame[4] \in Byte)
  <2>1. CASE frame = buffer
    BY <1>3, <2>1
  <2>2. CASE frame \in Misread(ErrorFrame)
    <3>1. PICK i \in 1 .. 8, b \in Byte : frame = [buffer EXCEPT ![i] = b]
      BY <1>1, <2>2 DEF Misread, buffer
    <3>2. 4 \in 1 .. FrameCapacity /\ 5 \in 1 .. FrameCapacity
      BY <1>2
    <3> QED
      BY <1>3, <3>1, <3>2
  <2> QED
    BY <2>1, <2>2 DEF buffer
<1> SUFFICES ASSUME Valid(frame, direction, code, capacity) PROVE FALSE
  OBVIOUS
<1>5. frame[4] >= 2 /\ (frame[4] + frame[5]) % ByteMod = 0
  BY DEF Valid
<1>6. CASE frame[4] = 1
  BY <1>5, <1>6
<1>7. CASE frame[5] = ByteMod - 1 /\ frame[4] \in Byte
  <2> DEFINE size == frame[4]
  <2>1. size \in 0 .. (ByteMod - 1) /\ (size + (ByteMod - 1)) % ByteMod = 0
    BY <1>5, <1>7 DEF Byte
  <2> HIDE DEF size
  <2>2. /\ 1 + (ByteMod - 1) = ByteMod /\ ByteMod % ByteMod = 0 /\ 1 \in 0 .. (ByteMod - 1)
        /\ (size + (ByteMod - 1)) + 1 = ByteMod + size /\ size + (ByteMod - 1) \in Nat
        /\ ByteMod \in Nat \ {0}
    BY <1>2, <2>1
  <2>3. 1 = size
    BY <2>1, <2>2, ModSame, Zenon
  <2> QED
    BY <1>5, <2>3 DEF size
<1> QED
  BY <1>4, <1>6, <1>7

-----------------------------------------------------------------------------
(* The inductive invariant.                                                *)

\* The chip's answers say what the driver reads in them, when it has room for them.
Faithful ==
    \A f \in DriverFunctions : \A a \in Answers[f] :
        a.meant = IF Len(a.payload) <= ResponseCapacity(f) THEN Decoded(f, a.payload) ELSE Error

AnswerFrame(f, a) == Frame(PN532_PN532_TO_HOST, Code(f) + 1, a.payload)

AckWait == {"awaitAck", "readAck"}
ResponseWait == {"awaitResponse", "readResponse"}

\* What the chip may offer, and when.
ChipInv ==
    /\ acking => job # "none" /\ offer = <<>>
    /\ \/ offer \in {<<>>, Ack}
       \/ job = "none" /\ offer = ErrorFrame
       \/ job = "none" /\ \E f \in DriverFunctions : \E a \in Answers[f] : offer = AnswerFrame(f, a)

\* Where the current command is.
DriverInv ==
    /\ pc # "idle" => outcome = Pending
    /\ pc = "write" => ~own /\ ~garbled /\ meant = Pending
    /\ pc \in AckWait \cup ResponseWait => ~Oversized /\ (garbled \/ own)
    /\ garbled => fault /\ ~own
    /\ pc \in {"readAck", "readResponse"} => offer # <<>>

\* How far the chip is with the current command.
OwnInv ==
    own =>
        /\ pc \in AckWait => job = fn /\ (acking \/ offer = Ack)
        /\ pc \in ResponseWait =>
            \/ job = fn /\ ~acking /\ offer = <<>>
            \/ job = "none" /\ offer = ErrorFrame /\ fault
            \/ job = "none" /\ \E a \in Answers[fn] : offer = AnswerFrame(fn, a) /\ meant = a.meant

\* A command that ended, with an answer or without a fault, is over for the chip.
EndInv ==
    pc = "idle" /\ outcome # Pending /\ (outcome.ok \/ ~fault) /\ own => job = "none"

TypeInv == TypeOK /\ ChipInv /\ DriverInv /\ OwnInv /\ EndInv

IInv == TypeInv /\ AnswersAreOwn /\ NoPoisoning

\* What the driver hands out, whatever the response is.
LEMMA DecodedFacts ==
    ASSUME NEW f \in DriverFunctions, NEW response \in Seq(Byte)
    PROVE  /\ Decoded(f, response) \in Outcome
           /\ Decoded(f, response).ok => Len(Decoded(f, response).data) <= CallerCapacity(f)
<1> DEFINE Fits(o) == o \in Outcome /\ (o.ok => Len(o.data) <= CallerCapacity(f))
<1>1. \A n \in 1 .. Len(response) : response[n] \in Nat
  BY ByteFacts, ElementOfSeq
<1>2. \A data \in Seq(Byte) : Len(data) <= CallerCapacity(f) => Fits(Ok(data))
  BY DEF Ok, Outcome
<1>3. Fits(Error)
  BY DEF Error, Outcome
<1>4. <<>> \in Seq(Byte) /\ Len(<<>>) = 0 /\ CallerCapacity(f) \in Nat
  BY FunctionFacts
<1>5. \A m, n \in Nat : m # 0 /\ n <= Len(response) /\ m <= n =>
        SubSeq(response, m, n) \in Seq(Byte) /\ Len(SubSeq(response, m, n)) = n - m + 1
  <2> TAKE m, n \in Nat
  <2> HAVE m # 0 /\ n <= Len(response) /\ m <= n
  <2>1. \A i \in m .. n : response[i] \in Byte
    OBVIOUS
  <2> QED
    BY <2>1, SubSeqProperties
<1> SUFFICES Fits(Decoded(f, response))
  OBVIOUS
<1> HIDE DEF Fits
<1>6. Fits(Ok(<<>>))
  <2>1. Len(<<>>) <= CallerCapacity(f)
    BY <1>4
  <2> QED
    BY <1>2, <1>4, <2>1, Zenon
<1>7. CASE f = "poll_type_a"
  <2> DEFINE uid == SubSeq(response, 7, 6 + response[6])
  <2>1. Decoded(f, response) = pn532_poll_type_a(response) /\ CallerCapacity(f) = 10
    BY <1>7 DEF Decoded, CallerCapacity, Exchanges
  <2>2. \/ pn532_poll_type_a(response) = Ok(<<>>) \/ pn532_poll_type_a(response) = Error
        \/ /\ ~(Len(response) < 6 \/ response[6] > 10 \/ Len(response) < 6 + response[6])
           /\ pn532_poll_type_a(response) = Ok(uid)
    BY DEF pn532_poll_type_a
  <2>3. ASSUME ~(Len(response) < 6 \/ response[6] > 10 \/ Len(response) < 6 + response[6])
        PROVE  Fits(Ok(uid))
    <3>1. Len(response) \in Nat /\ 6 \in 1 .. Len(response)
      BY <2>3
    <3>2. response[6] \in Nat /\ response[6] <= 10 /\ 6 + response[6] <= Len(response)
      BY <1>1, <2>3, <3>1
    <3>3. CASE response[6] = 0
      <4>1. uid = <<>>
        BY <3>3
      <4> QED
        BY <1>6, <4>1
    <3>4. CASE response[6] > 0
      <4>1. uid \in Seq(Byte) /\ Len(uid) <= 10
        BY <1>5, <3>2, <3>4
      <4> QED
        BY <1>2, <2>1, <4>1
    <3> QED
      BY <3>2, <3>3, <3>4
  <2> QED
    BY <1>3, <1>6, <2>1, <2>2, <2>3, Zenon
<1>8. CASE f = "poll_felica"
  <2> DEFINE ids == SubSeq(response, 5, 20)
  <2>1. Decoded(f, response) = pn532_poll_felica(response) /\ CallerCapacity(f) = 16
    BY <1>8 DEF Decoded, CallerCapacity, Exchanges
  <2>2. \/ pn532_poll_felica(response) = Ok(<<>>) \/ pn532_poll_felica(response) = Error
        \/ ~(Len(response) < 21) /\ pn532_poll_felica(response) = Ok(ids)
    BY DEF pn532_poll_felica
  <2>3. ~(Len(response) < 21) => Fits(Ok(ids))
    <3>1. ~(Len(response) < 21) => ids \in Seq(Byte) /\ Len(ids) <= 16
      BY <1>5
    <3> QED
      BY <1>2, <2>1, <3>1
  <2> QED
    BY <1>3, <1>6, <2>1, <2>2, <2>3, Zenon
<1>9. CASE f \in Exchanges
  <2>1. Decoded(f, response) = DataExchange(f, response)
    BY <1>9 DEF Decoded, Exchanges
  <2>2. CASE response = <<>> \/ response[1] # 0
    BY <1>3, <2>1, <2>2 DEF DataExchange
  <2>3. CASE ~(response = <<>> \/ response[1] # 0) /\ f = "mifare_authenticate"
    <3>1. Decoded(f, response) = Ok(<<>>)
      BY <2>1, <2>3 DEF DataExchange
    <3> QED
      BY <1>6, <3>1
  <2>4. CASE ~(response = <<>> \/ response[1] # 0) /\ f = "mifare_read_block"
    <3> DEFINE block == SubSeq(response, 2, 17)
    <3>1. CallerCapacity(f) = 16
      BY <2>4 DEF CallerCapacity
    <3>2. ~(Len(response) < 17) => block \in Seq(Byte) /\ Len(block) <= 16
      BY <1>5
    <3>3. ~(Len(response) < 17) => Fits(Ok(block))
      BY <1>2, <3>1, <3>2
    <3>4. \/ Decoded(f, response) = Error
          \/ ~(Len(response) < 17) /\ Decoded(f, response) = Ok(block)
      BY <2>1, <2>4 DEF DataExchange
    <3> QED
      BY <1>3, <3>3, <3>4, Zenon
  <2>5. CASE ~(response = <<>> \/ response[1] # 0) /\ f = "felica_transact"
    <3>1. Tail(response) \in Seq(Byte) /\ Len(Tail(response)) = Len(response) - 1
      BY <2>5
    <3>2. ~(Len(response) - 1 > CallerCapacity(f)) => Fits(Ok(Tail(response)))
      <4>1. ~(Len(response) - 1 > CallerCapacity(f)) => Len(Tail(response)) <= CallerCapacity(f)
        BY <1>4, <3>1
      <4> QED
        BY <1>2, <3>1, <4>1, Zenon
    <3>3. \/ Decoded(f, response) = Error
          \/ ~(Len(response) - 1 > CallerCapacity(f)) /\ Decoded(f, response) = Ok(Tail(response))
      BY <2>1, <2>5 DEF DataExchange
    <3> QED
      BY <1>3, <3>2, <3>3, Zenon
  <2> QED
    BY <1>9, <2>2, <2>3, <2>4, <2>5 DEF Exchanges
<1>10. CASE f \notin Exchanges \cup {"poll_type_a", "poll_felica"}
  <2>1. Decoded(f, response) = Ok(<<>>)
    BY <1>10 DEF Decoded
  <2> QED
    BY <1>6, <2>1
<1> QED
  BY <1>7, <1>8, <1>9, <1>10

\* The frame that is read, and its payload.
LEMMA ReadFacts ==
    ASSUME NEW bytes \in Seq(Byte), Len(bytes) <= FrameCapacity,
           NEW frame \in {Buffer(bytes)} \cup Misread(bytes)
    PROVE  /\ frame \in [1 .. FrameCapacity -> Byte]
           /\ \A direction, code, capacity :
                Valid(frame, direction, code, capacity) => Payload(frame) \in Seq(Byte)
<1>1. frame \in [1 .. FrameCapacity -> Byte]
  <2>1. Buffer(bytes) \in [1 .. FrameCapacity -> Byte]
    BY BufferFacts
  <2>2. frame = Buffer(bytes) \/ \E i \in DOMAIN bytes, b \in Byte : frame = [Buffer(bytes) EXCEPT ![i] = b]
    BY DEF Misread
  <2> QED
    BY <2>1, <2>2
<1>2. ASSUME NEW direction, NEW code, NEW capacity, Valid(frame, direction, code, capacity)
      PROVE  Payload(frame) \in Seq(Byte)
  <2>1. frame[4] >= 2 /\ 5 + frame[4] + 2 <= FrameCapacity
    BY <1>2 DEF Valid
  <2>2. frame[4] \in Nat /\ FrameCapacity \in Nat
    <3>1. FrameCapacity \in Nat /\ 4 \in 1 .. FrameCapacity
      BY SizeAssumption
    <3>2. frame[4] \in Byte
      BY <1>1, <3>1
    <3> QED
      BY <3>1, <3>2, ByteFacts
  <2>3. 5 + frame[4] \in Nat /\ 5 + frame[4] <= FrameCapacity
    BY <2>1, <2>2
  <2>4. SubSeq(frame, 8, 5 + frame[4]) \in Seq(Byte)
    <3> DEFINE n == 5 + frame[4]
    <3>1. n \in Nat /\ n <= FrameCapacity /\ 8 \in Nat \ {0}
      BY <2>3
    <3> HIDE DEF n
    <3>2. SubSeq(frame, 8, n) \in Seq(Byte)
      BY <1>1, <3>1, BufferPart, Zenon
    <3> QED
      BY <3>2 DEF n
  <2> QED
    BY <2>4 DEF Payload
<1> QED
  BY <1>1, <1>2

\* The frames of the chip.
LEMMA ChipFrames ==
    /\ Ack \in Seq(Byte) /\ Len(Ack) <= FrameCapacity /\ Ack # <<>>
    /\ ErrorFrame \in Seq(Byte) /\ Len(ErrorFrame) <= FrameCapacity /\ ErrorFrame # <<>>
    /\ \A f \in DriverFunctions : \A a \in Answers[f] :
        /\ AnswerFrame(f, a) \in Seq(Byte) /\ Len(AnswerFrame(f, a)) <= FrameCapacity
        /\ AnswerFrame(f, a) # <<>>
        /\ FrameOf(AnswerFrame(f, a), PN532_PN532_TO_HOST, Code(f) + 1, a.payload)
        /\ a.payload \in Seq(Byte) /\ Len(a.payload) + 4 <= ByteMod /\ a.meant \in Outcome
    /\ SubSeq(Buffer(Ack), 1, 6) = Ack
<1>1. FrameCapacity \in Nat /\ FrameCapacity >= 9 /\ FrameCapacity >= ByteMod + 5 /\ ByteMod \in Nat
  BY SizeAssumption
<1>2. Ack \in Seq(Byte) /\ Len(Ack) = 6 /\ Ack # <<>>
  BY ByteFacts DEF Ack
<1>3. ErrorFrame \in Seq(Byte) /\ Len(ErrorFrame) = 8 /\ ErrorFrame # <<>>
  BY ByteFacts DEF ErrorFrame
<1>4. ASSUME NEW f \in DriverFunctions, NEW a \in Answers[f]
      PROVE  /\ AnswerFrame(f, a) \in Seq(Byte) /\ Len(AnswerFrame(f, a)) <= FrameCapacity
             /\ AnswerFrame(f, a) # <<>>
             /\ FrameOf(AnswerFrame(f, a), PN532_PN532_TO_HOST, Code(f) + 1, a.payload)
             /\ a.payload \in Seq(Byte) /\ Len(a.payload) + 4 <= ByteMod /\ a.meant \in Outcome
  <2>1. a.payload \in Seq(Byte) /\ Len(a.payload) + 4 <= ByteMod /\ a.meant \in Outcome
    BY FunctionAssumption
  <2>2. FrameOf(AnswerFrame(f, a), PN532_PN532_TO_HOST, Code(f) + 1, a.payload)
    BY <2>1, CodeFacts, FrameFacts DEF AnswerFrame
  <2>3. AnswerFrame(f, a) \in Seq(Byte) /\ Len(AnswerFrame(f, a)) = Len(a.payload) + 9
    BY <2>2 DEF FrameOf
  <2>4. Len(a.payload) \in Nat
    BY <2>1
  <2>5. AnswerFrame(f, a) # <<>> /\ Len(AnswerFrame(f, a)) <= FrameCapacity
    BY <1>1, <2>1, <2>3, <2>4
  <2> QED
    BY <2>1, <2>2, <2>3, <2>5
<1>5. SubSeq(Buffer(Ack), 1, 6) = Ack
  <2>1. /\ Buffer(Ack) \in [1 .. FrameCapacity -> Byte]
        /\ \A i \in 1 .. 6 : Buffer(Ack)[i] = Ack[i]
    <3>1. Len(Ack) <= FrameCapacity
      BY <1>1, <1>2
    <3> QED
      BY <1>2, <3>1, BufferFacts
  <2>2. /\ SubSeq(Buffer(Ack), 1, 6) \in Seq(Byte) /\ Len(SubSeq(Buffer(Ack), 1, 6)) = 6
        /\ \A i \in 1 .. 6 : SubSeq(Buffer(Ack), 1, 6)[i] = Buffer(Ack)[i]
    BY <1>1, <2>1, BufferPart
  <2>3. \A i \in 1 .. 6 : SubSeq(Buffer(Ack), 1, 6)[i] = Ack[i]
    BY <2>1, <2>2
  <2> QED
    BY <1>2, <2>2, <2>3, SeqEqual
<1> QED
  BY <1>1, <1>2, <1>3, <1>4, <1>5

-----------------------------------------------------------------------------
(* The induction.                                                           *)

\* A command that is not too long reaches the chip as it is.
LEMMA CommandReceived ==
    ASSUME TypeOK, ~Oversized
    PROVE  Valid(Buffer(Frame(PN532_HOST_TO_PN532, Code(fn), payload)),
                 PN532_HOST_TO_PN532, Code(fn), ByteMod)
<1>1. payload \in Seq(Byte) /\ fn \in DriverFunctions
  <2>1. fn \in DriverFunctions /\ payload \in Requests[fn] \cup {<<>>}
    BY DEF TypeOK
  <2>2. Requests[fn] \subseteq Seq(Byte) /\ <<>> \in Seq(Byte)
    BY <2>1, FunctionAssumption
  <2> QED
    BY <2>1, <2>2
<1>2. Len(payload) + 4 <= ByteMod /\ ByteMod \in Nat /\ Len(payload) <= ByteMod
  BY <1>1, SizeAssumption DEF Oversized
<1>3. FrameOf(Frame(PN532_HOST_TO_PN532, Code(fn), payload), PN532_HOST_TO_PN532, Code(fn), payload)
  BY <1>1, <1>2, CodeFacts, FrameFacts
<1> QED
  BY <1>1, <1>2, <1>3, UndamagedFrame

\* What a function returns when it has read the response.
LEMMA ResponseReturned ==
    ASSUME TypeInv, pc = "readResponse", ReadResponse
    PROVE  /\ \E o \in Outcome : Return(o) /\ (o.ok => Len(o.data) <= CallerCapacity(fn))
           /\ offer' \in {offer, <<>>}
           /\ fault' = fault \/ (~calm /\ fault' = TRUE)
<1>1. fn \in DriverFunctions /\ offer \in Seq(Byte) /\ Len(offer) <= FrameCapacity
  BY DEF TypeInv, TypeOK
<1>2. Error \in Outcome /\ ~Error.ok
  BY DEF Error, Outcome
<1>3. CASE Faulty /\ offer' \in {offer, <<>>} /\ Return(Error)
  BY <1>2, <1>3 DEF Faulty
<1>4. ASSUME NEW frame \in {Buffer(offer)} \cup Misread(offer), offer' = <<>>,
             IF frame = Buffer(offer) THEN UNCHANGED fault ELSE Faulty,
             IF Valid(frame, PN532_PN532_TO_HOST, Code(fn) + 1, ResponseCapacity(fn))
             THEN Return(Decoded(fn, Payload(frame))) ELSE Return(Error)
      PROVE  /\ \E o \in Outcome : Return(o) /\ (o.ok => Len(o.data) <= CallerCapacity(fn))
             /\ offer' \in {offer, <<>>}
             /\ fault' = fault \/ (~calm /\ fault' = TRUE)
  <2>1. offer' \in {offer, <<>>} /\ (fault' = fault \/ (~calm /\ fault' = TRUE))
    BY <1>4 DEF Faulty
  <2>2. CASE Valid(frame, PN532_PN532_TO_HOST, Code(fn) + 1, ResponseCapacity(fn))
    <3>1. Payload(frame) \in Seq(Byte)
      BY <1>1, <2>2, ReadFacts
    <3> QED
      BY <1>1, <1>4, <2>1, <2>2, <3>1, DecodedFacts
  <2>3. CASE ~Valid(frame, PN532_PN532_TO_HOST, Code(fn) + 1, ResponseCapacity(fn))
    BY <1>2, <1>4, <2>1, <2>3
  <2> QED
    BY <2>2, <2>3
<1> QED
  BY <1>3, <1>4 DEF ReadResponse

\* The two halves of TypeOK.
DriverTypeOK ==
    /\ pc \in {"idle", "write", "awaitAck", "readAck", "awaitResponse", "readResponse"}
    /\ booted \in 0 .. 2
    /\ fn \in DriverFunctions /\ payload \in Requests[fn] \cup {<<>>}
    /\ outcome \in Outcome
    /\ outcome.ok => Len(outcome.data) <= CallerCapacity(fn)

ChipTypeOK ==
    /\ meant \in Outcome
    /\ offer \in Seq(Byte) /\ Len(offer) <= FrameCapacity
    /\ job \in DriverFunctions \cup {"none"}
    /\ {acking, own, fault, garbled, calm} \subseteq BOOLEAN

LEMMA TypeHalves == TypeOK <=> DriverTypeOK /\ ChipTypeOK
  BY DEF TypeOK, DriverTypeOK, ChipTypeOK

\* The driver's variables when the function returns.
LEMMA Returned ==
    ASSUME TypeOK, NEW o \in Outcome, o.ok => Len(o.data) <= CallerCapacity(fn), Return(o)
    PROVE  DriverTypeOK'
<1>1. booted' \in 0 .. 2
  BY DEF TypeOK, Return
<1>2. fn' = fn /\ payload' = payload /\ outcome' = o /\ pc' = "idle"
  BY DEF Return
<1> QED
  BY <1>1, <1>2 DEF TypeOK, DriverTypeOK

LEMMA TypeInvInit == Init => TypeInv
<1> SUFFICES ASSUME Init PROVE TypeInv
  OBVIOUS
<1>1. Pending \in Outcome /\ ~Pending.ok /\ <<>> \in Seq(Byte) /\ Len(<<>>) = 0
  BY ByteFacts DEF Pending, Outcome
<1>2. Len(<<>>) <= FrameCapacity
  BY <1>1, SizeAssumption
<1>3. TypeOK
  <2>1. DriverTypeOK
    BY <1>1, FunctionFacts DEF Init, DriverTypeOK
  <2>2. ChipTypeOK
    BY <1>1, <1>2, Zenon DEF Init, ChipTypeOK
  <2> QED
    BY <2>1, <2>2, TypeHalves
<1>4. ChipInv /\ DriverInv /\ OwnInv /\ EndInv
  BY DEF Init, ChipInv, DriverInv, OwnInv, EndInv, AckWait, ResponseWait
<1> QED
  BY <1>3, <1>4 DEF TypeInv

LEMMA TypeInvNext == TypeInv /\ [Next]_vars => TypeInv'
<1> SUFFICES ASSUME TypeInv, [Next]_vars PROVE TypeInv'
  OBVIOUS
<1>1. /\ Pending \in Outcome /\ ~Pending.ok /\ Error \in Outcome /\ ~Error.ok /\ Error # Pending
      /\ <<>> \in Seq(Byte) /\ Len(<<>>) <= FrameCapacity
  <2>1. <<>> \in Seq(Byte) /\ Len(<<>>) = 0 /\ <<0>> \in Seq(Byte) /\ <<0>> # <<>>
    BY ByteFacts
  <2>2. Pending \in Outcome /\ ~Pending.ok /\ Error \in Outcome /\ ~Error.ok /\ Error # Pending
    BY <2>1 DEF Pending, Error, Outcome
  <2> QED
    BY <2>1, <2>2, SizeAssumption
<1>2. TypeOK /\ ChipInv /\ DriverInv /\ OwnInv /\ EndInv
  BY DEF TypeInv
<1>3. ASSUME NEW f \in DriverFunctions, Call(f) PROVE TypeInv'
  <2>1. TypeOK'
    BY <1>1, <1>2, <1>3 DEF Call, TypeOK, chip
  <2>2. ChipInv' /\ DriverInv' /\ OwnInv' /\ EndInv'
    BY <1>2, <1>3
    DEF Call, chip, ChipInv, DriverInv, OwnInv, EndInv, AckWait, ResponseWait
  <2> QED
    BY <2>1, <2>2 DEF TypeInv
<1>4. CASE BusFails
  <2>1. TypeOK'
    BY <1>1, <1>2, <1>4, FunctionFacts DEF BusFails, Faulty, TypeOK, chip
  <2>2. ChipInv' /\ DriverInv' /\ OwnInv' /\ EndInv'
    BY <1>1, <1>2, <1>4
    DEF BusFails, Faulty, chip, ChipInv, DriverInv, OwnInv, EndInv, AckWait, ResponseWait
  <2> QED
    BY <2>1, <2>2 DEF TypeInv
<1>5. CASE Write
  <2> DEFINE frame == Frame(PN532_HOST_TO_PN532, Code(fn), payload)
  <2>1. ~Oversized /\ ChipReceives(frame) =>
            job' = fn /\ acking' = TRUE /\ offer' = <<>> /\ own' = TRUE
    BY <1>2, CommandReceived DEF ChipReceives
  <2> HIDE DEF frame
  <2>2. /\ pc = "write" /\ UNCHANGED <<meant, calm>>
        /\ \/ Oversized /\ Return(Error) /\ UNCHANGED <<chip, own, fault, garbled>>
           \/ ~Oversized /\ ChipReceives(frame) /\ Goto("awaitAck") /\ UNCHANGED <<fault, garbled>>
           \/ /\ ~Oversized /\ Faulty /\ Return(Error) /\ UNCHANGED garbled
              /\ ChipReceives(frame) \/ UNCHANGED <<chip, own>>
           \/ /\ ~Oversized /\ Faulty /\ garbled' = TRUE /\ Goto("awaitAck")
              /\ UNCHANGED <<chip, own>>
    BY <1>5 DEF Write, frame
  <2>3. CASE Oversized /\ Return(Error) /\ UNCHANGED <<chip, own, fault, garbled>>
    <3>1. TypeOK'
      BY <1>1, <1>2, <2>2, <2>3 DEF Return, chip, TypeOK
    <3>2. ChipInv' /\ DriverInv' /\ OwnInv' /\ EndInv'
      BY <1>1, <1>2, <2>2, <2>3
      DEF Return, chip, ChipInv, DriverInv, OwnInv, EndInv, AckWait, ResponseWait
    <3> QED
      BY <3>1, <3>2 DEF TypeInv
  <2>4. CASE ~Oversized /\ ChipReceives(frame) /\ Goto("awaitAck") /\ UNCHANGED <<fault, garbled>>
    <3>1. TypeOK'
      BY <1>1, <1>2, <2>1, <2>2, <2>4 DEF Goto, TypeOK
    <3>2. ChipInv' /\ DriverInv' /\ OwnInv' /\ EndInv'
      <4>1. fn # "none" /\ ~Oversized'
        BY <1>2, <2>4, FunctionFacts DEF TypeOK, Goto, Oversized
      <4> QED
        BY <1>2, <2>1, <2>2, <2>4, <4>1
        DEF Goto, ChipInv, DriverInv, OwnInv, EndInv, AckWait, ResponseWait
    <3> QED
      BY <3>1, <3>2 DEF TypeInv
  <2>5. CASE /\ ~Oversized /\ Faulty /\ Return(Error) /\ UNCHANGED garbled
             /\ ChipReceives(frame) \/ UNCHANGED <<chip, own>>
    <3>1. TypeOK'
      <4>1. DriverTypeOK'
        BY <1>1, <1>2, <2>5, Returned
      <4>2. ChipTypeOK'
        <5>1. \/ offer' = <<>> /\ job' = fn /\ acking' = TRUE /\ own' = TRUE
              \/ UNCHANGED <<chip, own>>
          BY <2>1, <2>5
        <5>2. ChipTypeOK /\ fn \in DriverFunctions
          BY <1>2, TypeHalves DEF DriverTypeOK
        <5>3. fault' = TRUE /\ UNCHANGED <<meant, calm, garbled>>
          BY <2>2, <2>5 DEF Faulty
        <5>4. CASE offer' = <<>> /\ job' = fn /\ acking' = TRUE /\ own' = TRUE
          BY <1>1, <5>2, <5>3, <5>4, Zenon DEF ChipTypeOK
        <5>5. CASE UNCHANGED <<chip, own>>
          BY <5>2, <5>3, <5>5 DEF ChipTypeOK, chip
        <5> QED
          BY <5>1, <5>4, <5>5
      <4> QED
        BY <4>1, <4>2 DEF TypeOK, DriverTypeOK, ChipTypeOK
    <3>2. ChipInv' /\ DriverInv' /\ OwnInv' /\ EndInv'
      <4>1. fn # "none"
        BY <1>2, FunctionFacts DEF TypeOK
      <4> QED
        BY <1>1, <1>2, <2>1, <2>2, <2>5, <4>1
        DEF Faulty, Return, chip, ChipInv, DriverInv, OwnInv, EndInv, AckWait, ResponseWait
    <3> QED
      BY <3>1, <3>2 DEF TypeInv
  <2>6. CASE /\ ~Oversized /\ Faulty /\ garbled' = TRUE /\ Goto("awaitAck")
             /\ UNCHANGED <<chip, own>>
    <3>1. TypeOK'
      BY <1>1, <1>2, <2>2, <2>6 DEF Faulty, Goto, TypeOK, chip
    <3>2. ChipInv' /\ DriverInv' /\ OwnInv' /\ EndInv'
      <4>1. ~Oversized'
        BY <2>6 DEF Goto, Oversized
      <4> QED
        BY <1>2, <2>2, <2>6, <4>1
        DEF Faulty, Goto, chip, ChipInv, DriverInv, OwnInv, EndInv, AckWait, ResponseWait
    <3> QED
      BY <3>1, <3>2 DEF TypeInv
  <2> QED
    BY <2>2, <2>3, <2>4, <2>5, <2>6
<1>6. CASE AwaitAck \/ AwaitResponse
  <2>1. PICK label \in {"awaitAck", "awaitResponse"} :
            wait_ready(label, IF label = "awaitAck" THEN "readAck" ELSE "readResponse")
    BY <1>6 DEF AwaitAck, AwaitResponse
  <2> DEFINE next == IF label = "awaitAck" THEN "readAck" ELSE "readResponse"
  <2>2. CASE pc = label /\ offer # <<>> /\ Goto(next)
             /\ UNCHANGED <<fault, chip, own, meant, garbled, calm>>
    <3>1. TypeOK'
      BY <1>2, <2>2 DEF Goto, TypeOK, chip
    <3>2. ~Oversized => ~Oversized'
      BY <2>2 DEF Goto, Oversized
    <3>3. ChipInv' /\ DriverInv' /\ OwnInv' /\ EndInv'
      BY <1>2, <2>2, <3>2
      DEF Goto, chip, ChipInv, DriverInv, OwnInv, EndInv, AckWait, ResponseWait
    <3> QED
      BY <3>1, <3>3 DEF TypeInv
  <2>3. CASE /\ pc = label /\ Return(Error) /\ UNCHANGED <<chip, own, meant, garbled, calm>>
             /\ Faulty \/ (offer = <<>> /\ job = "none" /\ UNCHANGED fault)
    <3>1. TypeOK'
      <4>1. DriverTypeOK'
        BY <1>1, <1>2, <2>3, Returned
      <4>2. ChipTypeOK'
        BY <1>1, <1>2, <2>3, TypeHalves DEF Faulty, ChipTypeOK, chip
      <4> QED
        BY <4>1, <4>2 DEF TypeOK, DriverTypeOK, ChipTypeOK
    <3>2. own => fault'
      BY <1>2, <2>3, ChipFrames, FunctionFacts
      DEF Faulty, ChipInv, DriverInv, OwnInv, AckWait, ResponseWait, TypeOK
    <3>3. ChipInv' /\ DriverInv' /\ OwnInv' /\ EndInv'
      BY <1>1, <1>2, <2>3, <3>2
      DEF Faulty, Return, chip, ChipInv, DriverInv, OwnInv, EndInv, AckWait, ResponseWait
    <3> QED
      BY <3>1, <3>3 DEF TypeInv
  <2> QED
    BY <2>1, <2>2, <2>3 DEF wait_ready
<1>7. CASE ReadAck
  <2>1. CASE pc = "readAck" /\ offer = Ack /\ offer' = <<>> /\ Goto("awaitResponse")
             /\ UNCHANGED <<fault, job, acking, own, meant, garbled, calm>>
    <3>1. TypeOK'
      BY <1>1, <1>2, <2>1 DEF Goto, TypeOK
    <3>2. (~Oversized => ~Oversized') /\ ~acking
      BY <1>2, <2>1, ChipFrames DEF Goto, Oversized, ChipInv
    <3>3. ChipInv' /\ DriverInv' /\ OwnInv' /\ EndInv'
      BY <1>2, <2>1, <3>2
      DEF Goto, ChipInv, DriverInv, OwnInv, EndInv, AckWait, ResponseWait
    <3> QED
      BY <3>1, <3>3 DEF TypeInv
  <2>2. CASE /\ pc = "readAck"
             /\ (SubSeq(Buffer(offer), 1, 6) # Ack /\ UNCHANGED fault) \/ Faulty
             /\ offer' \in {offer, <<>>} /\ Return(Error)
             /\ UNCHANGED <<job, acking, own, meant, garbled, calm>>
    <3>1. TypeOK'
      <4>1. DriverTypeOK'
        BY <1>1, <1>2, <2>2, Returned
      <4>2. ChipTypeOK'
        BY <1>1, <1>2, <2>2, TypeHalves, Zenon DEF Faulty, ChipTypeOK
      <4> QED
        BY <4>1, <4>2 DEF TypeOK, DriverTypeOK, ChipTypeOK
    <3>2. own => fault'
      BY <1>2, <2>2, ChipFrames DEF Faulty, ChipInv, DriverInv, OwnInv, AckWait
    <3>3. ChipInv' /\ DriverInv' /\ OwnInv' /\ EndInv'
      BY <1>1, <1>2, <2>2, <3>2
      DEF Faulty, Return, ChipInv, DriverInv, OwnInv, EndInv, AckWait, ResponseWait
    <3> QED
      BY <3>1, <3>3 DEF TypeInv
  <2> QED
    BY <1>7, <2>1, <2>2 DEF ReadAck
<1>8. CASE ReadResponse
  <2>1. /\ pc = "readResponse" /\ offer' \in {offer, <<>>}
        /\ fault' = fault \/ (~calm /\ fault' = TRUE)
        /\ UNCHANGED <<job, acking, own, meant, garbled, calm>>
    BY <1>8, ResponseReturned DEF ReadResponse
  <2>2. PICK o \in Outcome : Return(o) /\ (o.ok => Len(o.data) <= CallerCapacity(fn))
    BY <1>8, <2>1, ResponseReturned
  <2>3. TypeOK'
    <3>1. DriverTypeOK'
      BY <1>2, <2>2, Returned
    <3>2. ChipTypeOK'
      BY <1>1, <1>2, <2>1, TypeHalves, Zenon DEF ChipTypeOK
    <3> QED
      BY <3>1, <3>2 DEF TypeOK, DriverTypeOK, ChipTypeOK
  <2>4. own => job = "none"
    BY <1>2, <2>1 DEF DriverInv, OwnInv, ResponseWait
  <2>5. ChipInv' /\ DriverInv' /\ OwnInv' /\ EndInv'
    BY <1>2, <2>1, <2>2, <2>4
    DEF Return, ChipInv, DriverInv, OwnInv, EndInv, AckWait, ResponseWait
  <2> QED
    BY <2>3, <2>5 DEF TypeInv
<1>9. CASE Reboot
  <2>1. TypeOK'
    BY <1>1, <1>2, <1>9 DEF Reboot, TypeOK, chip, history
  <2>2. ChipInv' /\ DriverInv' /\ OwnInv' /\ EndInv'
    BY <1>2, <1>9
    DEF Reboot, chip, history, ChipInv, DriverInv, OwnInv, EndInv, AckWait, ResponseWait
  <2> QED
    BY <2>1, <2>2 DEF TypeInv
<1>10. CASE ChipAck
  <2>1. TypeOK'
    BY <1>2, <1>10, ChipFrames DEF ChipAck, TypeOK, driver, history
  <2>2. ChipInv' /\ DriverInv' /\ OwnInv' /\ EndInv'
    <3>1. UNCHANGED Oversized
      BY <1>10 DEF ChipAck, driver, Oversized
    <3> QED
      BY <1>2, <1>10, <3>1
      DEF ChipAck, driver, history, ChipInv, DriverInv, OwnInv, EndInv, AckWait, ResponseWait
  <2> QED
    BY <2>1, <2>2 DEF TypeInv
<1>11. CASE ChipAnswer
  <2>1. PICK a \in Answers[job] :
            /\ offer' = AnswerFrame(job, a)
            /\ meant' = IF own THEN a.meant ELSE meant
    BY <1>11 DEF ChipAnswer, AnswerFrame
  <2>2. /\ job \in DriverFunctions /\ job # "none" /\ ~acking /\ offer = <<>> /\ job' = "none"
        /\ UNCHANGED <<driver, acking, own, fault, garbled, calm>>
    BY <1>2, <1>11 DEF ChipAnswer, TypeOK
  <2>3. a.meant \in Outcome /\ offer' \in Seq(Byte) /\ Len(offer') <= FrameCapacity /\ offer' # <<>>
    BY <2>1, <2>2, ChipFrames
  <2>4. TypeOK'
    BY <1>2, <2>1, <2>2, <2>3 DEF TypeOK, driver
  <2>5. ChipInv'
    BY <2>1, <2>2 DEF ChipInv, AnswerFrame
  <2>6. UNCHANGED Oversized
    BY <2>2 DEF driver, Oversized
  <2>7. DriverInv' /\ EndInv'
    BY <1>2, <2>1, <2>2, <2>3, <2>6
    DEF driver, DriverInv, EndInv, AckWait, ResponseWait
  <2>8. OwnInv'
    <3>1. own /\ pc \in AckWait => FALSE
      BY <1>2, <2>2, ChipFrames DEF OwnInv
    <3>2. own /\ pc \in ResponseWait => job = fn
      BY <1>2, <2>2 DEF OwnInv
    <3> QED
      BY <2>1, <2>2, <3>1, <3>2 DEF driver, OwnInv, AnswerFrame
  <2> QED
    BY <2>4, <2>5, <2>7, <2>8 DEF TypeInv
<1>12. CASE ChipError
  <2>1. TypeOK'
    BY <1>2, <1>12, ChipFrames DEF ChipError, Faulty, TypeOK, driver
  <2>2. UNCHANGED Oversized /\ Ack # <<>> /\ ErrorFrame # <<>>
    BY <1>12, ChipFrames DEF ChipError, driver, Oversized
  <2>3. ChipInv' /\ DriverInv' /\ OwnInv' /\ EndInv'
    BY <1>2, <1>12, <2>2
    DEF ChipError, Faulty, driver, ChipInv, DriverInv, OwnInv, EndInv, AckWait, ResponseWait
  <2> QED
    BY <2>1, <2>3 DEF TypeInv
<1>13. CASE Calm \/ UNCHANGED vars
  <2>1. UNCHANGED <<driver, chip, history>> /\ calm' \in BOOLEAN
    BY <1>2, <1>13 DEF Calm, vars, TypeOK
  <2>2. TypeOK'
    BY <1>2, <2>1 DEF driver, chip, history, TypeOK
  <2>3. ChipInv' /\ DriverInv' /\ OwnInv' /\ EndInv'
    <3>1. UNCHANGED Oversized
      BY <2>1 DEF driver, Oversized
    <3> QED
      BY <1>2, <2>1, <3>1
      DEF driver, chip, history, ChipInv, DriverInv, OwnInv, EndInv, AckWait, ResponseWait
  <2> QED
    BY <2>2, <2>3 DEF TypeInv
<1> QED
  BY <1>3, <1>4, <1>5, <1>6, <1>7, <1>8, <1>9, <1>10, <1>11, <1>12, <1>13
  DEF Next, command, chipStep

\* The driver reads the answer of its own command as it was meant, or fails with a fault.
LEMMA OwnResponse ==
    ASSUME TypeInv, Faithful, ReadResponse, own
    PROVE  outcome' = meant \/ (outcome' = Error /\ fault' = TRUE)
<1>1. /\ fn \in DriverFunctions /\ offer \in Seq(Byte) /\ Len(offer) <= FrameCapacity
      /\ pc = "readResponse" /\ offer # <<>> /\ fault \in BOOLEAN
  BY DEF TypeInv, TypeOK, DriverInv, ReadResponse
<1>2. CASE Faulty /\ Return(Error)
  BY <1>2 DEF Faulty, Return
<1>3. ASSUME NEW frame \in {Buffer(offer)} \cup Misread(offer),
             IF frame = Buffer(offer) THEN UNCHANGED fault ELSE Faulty,
             IF Valid(frame, PN532_PN532_TO_HOST, Code(fn) + 1, ResponseCapacity(fn))
             THEN Return(Decoded(fn, Payload(frame))) ELSE Return(Error)
      PROVE  outcome' = meant \/ (outcome' = Error /\ fault' = TRUE)
  <2>1. \/ offer = ErrorFrame /\ fault
        \/ \E a \in Answers[fn] : offer = AnswerFrame(fn, a) /\ meant = a.meant
    BY <1>1 DEF TypeInv, OwnInv, ResponseWait
  <2>2. CASE offer = ErrorFrame /\ fault
    <3>1. ~Valid(frame, PN532_PN532_TO_HOST, Code(fn) + 1, ResponseCapacity(fn))
      BY <2>2, RefusedFrame
    <3> QED
      BY <1>1, <1>3, <2>2, <3>1 DEF Faulty, Return
  <2>3. ASSUME NEW a \in Answers[fn], offer = AnswerFrame(fn, a), meant = a.meant
        PROVE  outcome' = meant \/ (outcome' = Error /\ fault' = TRUE)
    <3>1. /\ FrameOf(offer, PN532_PN532_TO_HOST, Code(fn) + 1, a.payload)
          /\ a.payload \in Seq(Byte) /\ Len(a.payload) + 4 <= ByteMod
      BY <1>1, <2>3, ChipFrames
    <3>2. ResponseCapacity(fn) \in Nat
      BY <1>1, FunctionFacts
    <3>3. CASE frame = Buffer(offer)
      <4>1. /\ Valid(frame, PN532_PN532_TO_HOST, Code(fn) + 1, ResponseCapacity(fn))
                  <=> Len(a.payload) <= ResponseCapacity(fn)
            /\ Payload(frame) = a.payload
        BY <3>1, <3>2, <3>3, UndamagedFrame
      <4>2. meant = IF Len(a.payload) <= ResponseCapacity(fn) THEN Decoded(fn, a.payload) ELSE Error
        BY <1>1, <2>3 DEF Faithful
      <4>3. outcome' = meant
        BY <1>3, <4>1, <4>2 DEF Return
      <4> QED
        BY <4>3
    <3>4. CASE frame # Buffer(offer)
      <4>1. PICK i \in DOMAIN offer, b \in Byte : frame = [Buffer(offer) EXCEPT ![i] = b]
        BY <3>4 DEF Misread
      <4>2. i \in 1 .. Len(offer) /\ Buffer(offer)[i] = offer[i]
        BY <1>1, BufferFacts
      <4>3. b # offer[i]
        <5>1. Buffer(offer) = [Buffer(offer) EXCEPT ![i] = Buffer(offer)[i]]
          BY <1>1, BufferFacts
        <5> QED
          BY <3>4, <4>1, <4>2, <5>1
      <4>4. ~Valid(frame, PN532_PN532_TO_HOST, Code(fn) + 1, ResponseCapacity(fn))
        BY <3>1, <4>1, <4>2, <4>3, DamagedFrame
      <4> QED
        BY <1>3, <3>4, <4>4 DEF Faulty, Return
    <3> QED
      BY <3>3, <3>4
  <2> QED
    BY <2>1, <2>2, <2>3
<1> QED
  BY <1>2, <1>3 DEF ReadResponse

\* Own answers only, and no poisoning: one step.
LEMMA SafetyNext ==
    ASSUME Faithful, TypeInv, AnswersAreOwn, NoPoisoning, [Next]_vars
    PROVE  AnswersAreOwn' /\ NoPoisoning'
<1>1. /\ ~Pending.ok /\ ~Error.ok
      /\ TypeOK /\ ChipInv /\ DriverInv /\ OwnInv /\ EndInv
  BY DEF Pending, Error, TypeInv
<1>2. \/ \E f \in DriverFunctions : Call(f)
      \/ BusFails
      \/ Reboot
  => AnswersAreOwn' /\ NoPoisoning'
  BY <1>1 DEF Call, BusFails, Faulty, Reboot, AnswersAreOwn, NoPoisoning
<1>3. CASE Write
  <2>1. CASE Oversized /\ Return(Error) /\ UNCHANGED <<chip, own, fault, garbled, meant, calm>>
    <3>1. Oversized'
      BY <2>1 DEF Return, Oversized
    <3> QED
      BY <1>1, <2>1, <3>1 DEF Return, AnswersAreOwn, NoPoisoning
  <2>2. CASE Faulty /\ Return(Error)
    BY <1>1, <2>2 DEF Faulty, Return, AnswersAreOwn, NoPoisoning
  <2>3. CASE pc = "write" /\ Goto("awaitAck")
    BY <1>1, <2>3 DEF Goto, DriverInv, AnswersAreOwn, NoPoisoning
  <2> QED
    BY <1>3, <2>1, <2>2, <2>3 DEF Write
<1> DEFINE Onward == outcome' = outcome /\ pc' # "idle"
           Failed == outcome' = Error /\ fault' = TRUE
<1>4. pc \in AckWait \cup ResponseWait /\ (Onward \/ Failed) => AnswersAreOwn' /\ NoPoisoning'
  BY <1>1 DEF DriverInv, AnswersAreOwn, NoPoisoning, AckWait, ResponseWait
<1> HIDE DEF Onward, Failed
<1>5. CASE AwaitAck \/ AwaitResponse
  <2>1. PICK label \in {"awaitAck", "awaitResponse"} :
            wait_ready(label, IF label = "awaitAck" THEN "readAck" ELSE "readResponse")
    BY <1>5 DEF AwaitAck, AwaitResponse
  <2>2. label \in AckWait \cup ResponseWait /\ pc = label
    BY <2>1 DEF AckWait, ResponseWait, wait_ready
  <2>3. Onward \/ Failed
    <3>1. (own /\ offer = <<>> => job # "none") /\ (~own => fault = TRUE)
      BY <1>1, <2>2, ChipFrames, FunctionFacts
      DEF DriverInv, OwnInv, AckWait, ResponseWait, TypeOK
    <3> QED
      BY <2>1, <3>1 DEF wait_ready, Faulty, Goto, Return, Onward, Failed
  <2> QED
    BY <1>4, <2>2, <2>3
<1>6. CASE ReadAck
  <2>1. (own => SubSeq(Buffer(offer), 1, 6) = Ack) /\ (~own => fault = TRUE)
    BY <1>1, <1>6, ChipFrames DEF ReadAck, DriverInv, OwnInv, ChipInv, AckWait, TypeOK
  <2>2. Onward \/ Failed
    BY <1>6, <2>1 DEF ReadAck, Faulty, Goto, Return, Onward, Failed
  <2>3. pc \in AckWait \cup ResponseWait
    BY <1>6 DEF ReadAck, AckWait
  <2> QED
    BY <1>4, <2>2, <2>3
<1>7. CASE ReadResponse
  <2>1. /\ pc = "readResponse" /\ UNCHANGED <<own, meant, garbled>>
        /\ fault' = fault \/ fault' = TRUE
    BY <1>7, ResponseReturned DEF ReadResponse
  <2>2. (garbled \/ own) /\ ~Oversized /\ (garbled => fault)
    BY <1>1, <2>1 DEF DriverInv, ResponseWait
  <2>3. PICK o : Return(o)
    BY <1>7, <2>1, ResponseReturned
  <2>4. ~Oversized'
    BY <2>2, <2>3 DEF Return, Oversized
  <2>5. CASE own
    <3>1. outcome' = meant \/ (outcome' = Error /\ fault' = TRUE)
      BY <1>7, <2>5, OwnResponse
    <3> QED
      BY <1>1, <2>1, <2>4, <2>5, <3>1 DEF AnswersAreOwn, NoPoisoning
  <2>6. CASE garbled
    BY <2>1, <2>2, <2>6 DEF AnswersAreOwn, NoPoisoning
  <2> QED
    BY <2>2, <2>5, <2>6
<1>8. CASE ChipAck \/ ChipError \/ Calm \/ UNCHANGED vars
  <2>1. /\ UNCHANGED <<driver, own, meant, garbled>>
        /\ fault' = fault \/ fault' = TRUE
    BY <1>8 DEF ChipAck, ChipError, Faulty, Calm, vars, history
  <2>2. UNCHANGED Oversized
    BY <2>1 DEF driver, Oversized
  <2> QED
    BY <2>1, <2>2 DEF driver, AnswersAreOwn, NoPoisoning
<1>9. CASE ChipAnswer
  <2>1. job # "none" /\ UNCHANGED <<driver, own, fault, garbled>> /\ (~own => meant' = meant)
    BY <1>9 DEF ChipAnswer
  <2>2. UNCHANGED Oversized
    BY <2>1 DEF driver, Oversized
  <2>3. CASE ~own
    BY <2>1, <2>2, <2>3 DEF driver, AnswersAreOwn, NoPoisoning
  <2>4. CASE own
    <3>1. ~outcome.ok /\ ~(pc = "idle" /\ outcome # Pending /\ ~fault)
      BY <1>1, <2>1, <2>4 DEF DriverInv, EndInv
    <3> QED
      BY <2>1, <3>1 DEF driver, AnswersAreOwn, NoPoisoning
  <2> QED
    BY <2>3, <2>4
<1> QED
  BY <1>2, <1>3, <1>5, <1>6, <1>7, <1>8, <1>9 DEF Next, command, chipStep

-----------------------------------------------------------------------------
(* The theorems.                                                           *)

\* The variables of the driver and of the chip keep their types, and what a
\* function of pn532.c hands out fits into its caller's buffer, whatever the
\* chip answers and whatever happens to the bytes on the bus.
THEOREM TypeCorrect == Spec => []TypeOK
<1>1. TypeInv => TypeOK
  BY DEF TypeInv
<1> QED
  BY <1>1, TypeInvInit, TypeInvNext, PTL DEF Spec

LEMMA Invariance == Faithful => (Spec => []IInv)
<1> SUFFICES ASSUME Faithful PROVE Spec => []IInv
  OBVIOUS
<1>1. Init => IInv
  <2>1. Init => AnswersAreOwn /\ NoPoisoning
    BY DEF Init, Pending, AnswersAreOwn, NoPoisoning
  <2> QED
    BY <2>1, TypeInvInit DEF IInv
<1>2. IInv /\ [Next]_vars => IInv'
  BY TypeInvNext, SafetyNext DEF IInv
<1> QED
  BY <1>1, <1>2, PTL DEF Spec

\* A function of pn532.c that returns ESP_OK returns what the chip answered to
\* this command: no late answer, no answer from before a reboot, and no byte
\* that changed on the bus, for any answers that say what the driver decodes.
THEOREM OwnAnswers == Faithful => (Spec => []AnswersAreOwn)
<1>1. IInv => AnswersAreOwn
  BY DEF IInv
<1> QED
  BY <1>1, Invariance, PTL

\* Whatever a failed command left in the chip, the next one that meets no fault
\* of its own returns what the chip meant.
THEOREM NeverPoisoned == Faithful => (Spec => []NoPoisoning)
<1>1. IInv => NoPoisoning
  BY DEF IInv
<1> QED
  BY <1>1, Invariance, PTL
=============================================================================
