------------------------------- MODULE Pn532 -------------------------------
(***************************************************************************)
(* The PN532 driver, impl/firmware/main/pn532.c: one command at a time is  *)
(* written to the chip, acknowledged, and answered.  A command that fails  *)
(* is given up where it stands; nothing tells the chip so, and the next    *)
(* command, or the next boot, meets a chip that may still work on the old  *)
(* one or offer its acknowledgement or its answer.                         *)
(*                                                                         *)
(* Frames are modelled byte by byte in a small byte size: start, length,   *)
(* length checksum, data, data checksum, postamble.                        *)
(*                                                                         *)
(* The chip is external, as the driver uses it: it offers one frame at a   *)
(* time, which stays until it is read; the answer follows once the         *)
(* acknowledgement is read; a command frame that it understands ends what  *)
(* it was doing and what it was offering.                                  *)
(***************************************************************************)
EXTENDS Naturals, Sequences, Functions, ByteSums

CONSTANTS
    ByteMod,        \* number of byte values (256 in the code)
    FrameCapacity,  \* PN532_FRAME_CAPACITY (280 in the code)
    PN532_HOST_TO_PN532, PN532_PN532_TO_HOST,
    SAM_CONFIGURATION, RF_CONFIGURATION, IN_DATA_EXCHANGE, IN_LIST_PASSIVE_TARGET,
    Requests,       \* per driver function, the payloads it is asked to send
    Answers         \* per driver function, the chip's answers: a payload and
                    \* what it says, see Outcome

Byte == 0 .. (ByteMod - 1)

\* The driver's functions; pn532_init is two commands.
InitFunctions == <<"init_sam", "init_retries">>
Polls == {"poll_type_a", "poll_felica"}
Exchanges == {"mifare_authenticate", "mifare_read_block", "felica_transact"}
DriverFunctions == Range(InitFunctions) \cup {"set_radio"} \cup Polls \cup Exchanges

\* The command code of a function, and the room it has for the response.
Code(f) ==
    CASE f = "init_sam" -> SAM_CONFIGURATION
      [] f \in Polls -> IN_LIST_PASSIVE_TARGET
      [] f \in Exchanges -> IN_DATA_EXCHANGE
      [] OTHER -> RF_CONFIGURATION

ResponseCapacity(f) ==
    CASE f \in Polls -> 64
      [] f = "mifare_read_block" -> 20
      [] f = "felica_transact" -> 255
      [] OTHER -> 8

\* What a function returns: an error, or ESP_OK with the bytes its caller gets:
\* a UID, an IDm, a block, a FeliCa response, or none.
Error == [ok |-> FALSE, data |-> <<>>]
Ok(data) == [ok |-> TRUE, data |-> data]
Outcome == [ok : BOOLEAN, data : Seq(Byte)]

\* The room its caller has for them.
CallerCapacity(f) ==
    CASE f = "poll_type_a" -> 10
      [] f \in {"poll_felica", "mifare_read_block"} -> 16
      [] f = "felica_transact" -> 250
      [] OTHER -> 0

\* While a function runs it has returned nothing.
Pending == [ok |-> FALSE, data |-> <<0>>]

CommandCodes == {SAM_CONFIGURATION, RF_CONFIGURATION, IN_DATA_EXCHANGE, IN_LIST_PASSIVE_TARGET}

\* The smallest command has two bytes, and the code of an answer is that of its
\* command plus one.
ASSUME SizeAssumption ==
    /\ ByteMod \in Nat /\ ByteMod >= 4 /\ FrameCapacity \in Nat /\ FrameCapacity >= ByteMod + 5
    /\ {PN532_HOST_TO_PN532, PN532_PN532_TO_HOST} \subseteq Byte
    /\ \A code \in CommandCodes : {code, code + 1} \subseteq Byte

\* An answer fits into a normal frame.
ASSUME FunctionAssumption ==
    /\ DOMAIN Requests = DriverFunctions /\ DOMAIN Answers = DriverFunctions
    /\ \A f \in DriverFunctions :
        /\ Requests[f] \subseteq Seq(Byte)
        /\ \A a \in Answers[f] : a.payload \in Seq(Byte) /\ a.meant \in Outcome
                                   /\ Len(a.payload) + 4 <= ByteMod

VARIABLES
    pc,        \* where command() is, "idle" between two commands
    booted,    \* how many commands of pn532_init have succeeded
    fn,        \* the function that issued the command
    payload,   \* its payload
    outcome,   \* what the last function returned
    offer,     \* chip: the frame it offers, or <<>>
    job,       \* chip: the function whose command it works on, or "none"
    acking,    \* chip: the acknowledgement of job is still to come
    own,       \* history: job and offer belong to the current command
    meant,     \* history: what the chip answered the current command
    fault,     \* history: a fault hit the current command
    garbled,   \* history: the chip did not understand the current command
    calm       \* from now on there are no faults

driver == <<pc, booted, fn, payload, outcome>>
chip == <<offer, job, acking>>
history == <<own, meant, fault, garbled>>
vars == <<driver, chip, history, calm>>

-----------------------------------------------------------------------------
(* Frames.                                                                 *)

Minus(n) == (ByteMod - (n % ByteMod)) % ByteMod

\* write_frame, and the chip's frames, which differ in the direction byte.
Frame(direction, code, bytes) ==
    LET data == <<direction, code>> \o bytes
    IN <<0, 0, ByteMod - 1, Len(data), Minus(Len(data))>> \o data
          \o <<Minus(ByteSum(data)), 0>>

Ack == <<0, 0, ByteMod - 1, 0, ByteMod - 1, 0>>

\* The frame of the chip for a command that it cannot execute.
ErrorFrame == <<0, 0, ByteMod - 1, 1, ByteMod - 1, 1, ByteMod - 1, 0>>

\* read_data of a whole frame: what is not sent reads as zero.
Buffer(frame) == [i \in 1 .. FrameCapacity |-> IF i <= Len(frame) THEN frame[i] ELSE 0]

\* A data checksum that is not looked at.
Valid_NoChecksum(frame, direction, code, capacity) ==
    LET size == frame[4]
    IN /\ SubSeq(frame, 1, 3) = <<0, 0, ByteMod - 1>>
       /\ size >= 2 /\ size # ByteMod - 1 /\ (size + frame[5]) % ByteMod = 0
       /\ 5 + size + 2 <= FrameCapacity
       /\ frame[6] = direction /\ frame[7] = code
       /\ size - 2 <= capacity

\* The checks of command() on the frame it has read.
Valid(frame, direction, code, capacity) ==
    LET size == frame[4]
    IN /\ SubSeq(frame, 1, 3) = <<0, 0, ByteMod - 1>>
       /\ size >= 2 /\ size # ByteMod - 1 /\ (size + frame[5]) % ByteMod = 0
       /\ 5 + size + 2 <= FrameCapacity
       /\ ByteSum(SubSeq(frame, 6, 6 + size)) % ByteMod = 0 /\ frame[7 + size] = 0
       /\ frame[6] = direction /\ frame[7] = code
       /\ size - 2 <= capacity

\* The payload of a valid frame.
Payload(frame) == SubSeq(frame, 8, 5 + frame[4])

\* A UID that is taken whatever its size.
pn532_poll_type_a_Unbounded(response) ==
    IF response = <<>> \/ response[1] = 0 THEN Ok(<<>>)
    ELSE IF Len(response) < 6 \/ Len(response) < 6 + response[6] THEN Error
    ELSE Ok(SubSeq(response, 7, 6 + response[6]))

\* pn532_poll_type_a: a target's UID, or no target.
pn532_poll_type_a(response) ==
    IF response = <<>> \/ response[1] = 0 THEN Ok(<<>>)
    ELSE IF Len(response) < 6 \/ response[6] > 10 \/ Len(response) < 6 + response[6] THEN Error
    ELSE Ok(SubSeq(response, 7, 6 + response[6]))

\* pn532_poll_felica: a target's IDm and PMm, or no target.
pn532_poll_felica(response) ==
    IF response = <<>> \/ response[1] = 0 THEN Ok(<<>>)
    ELSE IF Len(response) < 21 \/ response[3] < 18 THEN Error
    ELSE Ok(SubSeq(response, 5, 20))

\* pn532_mifare_authenticate, pn532_mifare_read_block and pn532_felica_transact:
\* a status byte and then the data, of which a block has 16 bytes and a FeliCa
\* response at most the 250 that sega.c has room for.
DataExchange(f, response) ==
    IF response = <<>> \/ response[1] # 0 THEN Error
    ELSE CASE f = "mifare_authenticate" -> Ok(<<>>)
           [] f = "mifare_read_block" ->
                  IF Len(response) < 17 THEN Error ELSE Ok(SubSeq(response, 2, 17))
           [] f = "felica_transact" ->
                  IF Len(response) - 1 > CallerCapacity(f) THEN Error ELSE Ok(Tail(response))

\* The outcome of function f when its command succeeded.
Decoded(f, response) ==
    CASE f = "poll_type_a" -> pn532_poll_type_a(response)
      [] f = "poll_felica" -> pn532_poll_felica(response)
      [] f \in Exchanges -> DataExchange(f, response)
      [] OTHER -> Ok(<<>>)

-----------------------------------------------------------------------------
Init ==
    /\ pc = "idle" /\ booted = 0 /\ fn = "init_sam" /\ payload = <<>> /\ outcome = Pending
    /\ offer = <<>> /\ job = "none" /\ acking = FALSE
    /\ own = FALSE /\ meant = Pending /\ fault = FALSE /\ garbled = FALSE
    /\ calm = FALSE

\* A fault hits the current command.
Faulty == ~calm /\ fault' = TRUE

\* The firmware calls a function of the driver; pn532_init comes first.
Call(f) ==
    /\ pc = "idle"
    /\ IF booted < 2 THEN f = InitFunctions[booted + 1] ELSE f \notin Range(InitFunctions)
    /\ pc' = "write"
    /\ fn' = f
    /\ payload' \in Requests[f]
    /\ outcome' = Pending
    /\ own' = FALSE /\ meant' = Pending /\ fault' = FALSE /\ garbled' = FALSE
    /\ UNCHANGED <<booted, chip, calm>>

\* The function returns.  An error of pn532_init aborts (ESP_ERROR_CHECK) and
\* the ESP32 boots again.
Return(o) ==
    /\ pc' = "idle"
    /\ outcome' = o
    /\ booted' = IF booted = 2 THEN 2 ELSE IF o.ok THEN booted + 1 ELSE 0
    /\ UNCHANGED <<fn, payload>>

\* pn532_init cannot set up the bus or does not find the PN532 there.
BusFails ==
    /\ pc = "idle" /\ booted = 0
    /\ Faulty
    /\ fn' = "init_sam" /\ payload' = <<>> /\ outcome' = Error
    /\ UNCHANGED <<pc, booted, chip, own, meant, garbled, calm>>

\* The driver goes on inside command().
Goto(label) == pc' = label /\ UNCHANGED <<booted, fn, payload, outcome>>

\* The chip receives a frame, and takes it for a command if it is one.
ChipReceives(frame) ==
    IF Valid(Buffer(frame), PN532_HOST_TO_PN532, Code(fn), ByteMod)
    THEN job' = fn /\ acking' = TRUE /\ offer' = <<>> /\ own' = TRUE
    ELSE UNCHANGED <<chip, own>>

\* A limit that is off by one.
Oversized_OffByOne == Len(payload) + 2 > ByteMod - 1

Oversized == Len(payload) + 2 > ByteMod - 2

\* A command that goes on although its frame could not be transmitted.
Write_ErrorIgnored ==
    /\ pc = "write" /\ ~Oversized
    /\ LET frame == Frame(PN532_HOST_TO_PN532, Code(fn), payload)
       IN \/ ChipReceives(frame) /\ Goto("awaitAck") /\ UNCHANGED <<fault, garbled>>
          \/ Faulty /\ UNCHANGED <<chip, own, garbled>> /\ Goto("awaitAck")
    /\ UNCHANGED <<meant, calm>>

\* write_frame.  The transfer succeeds; or it fails, before or after the chip
\* had the whole frame; or a bit flips on the way.
Write ==
    /\ pc = "write"
    /\ LET frame == Frame(PN532_HOST_TO_PN532, Code(fn), payload)
       IN \/ /\ Oversized
             /\ Return(Error)
             /\ UNCHANGED <<chip, own, fault, garbled>>
          \/ /\ ~Oversized
             /\ ChipReceives(frame)
             /\ Goto("awaitAck")
             /\ UNCHANGED <<fault, garbled>>
          \/ /\ ~Oversized /\ Faulty
             /\ ChipReceives(frame) \/ UNCHANGED <<chip, own>>
             /\ Return(Error)
             /\ UNCHANGED garbled
          \/ /\ ~Oversized /\ Faulty
             /\ garbled' = TRUE
             /\ Goto("awaitAck")
             /\ UNCHANGED <<chip, own>>
    /\ UNCHANGED <<meant, calm>>

\* wait_ready: the chip is ready, or its deadline passes, or the bus fails.  A
\* chip that has nothing to say lets the deadline pass.
wait_ready(label, next) ==
    /\ pc = label
    /\ \/ offer # <<>> /\ Goto(next) /\ UNCHANGED fault
       \/ Faulty /\ Return(Error)
       \/ offer = <<>> /\ job = "none" /\ Return(Error) /\ UNCHANGED fault
    /\ UNCHANGED <<chip, own, meant, garbled, calm>>

AwaitAck == wait_ready("awaitAck", "readAck")
AwaitResponse == wait_ready("awaitResponse", "readResponse")

\* A driver that does not fetch the acknowledgement.
ReadAck_Skipped ==
    /\ pc = "readAck"
    /\ Goto("awaitResponse")
    /\ UNCHANGED <<chip, history, calm>>

\* read_ack: anything else is an error, and the chip may then still offer it.
ReadAck ==
    /\ pc = "readAck"
    /\ \/ /\ offer = Ack
          /\ offer' = <<>>
          /\ Goto("awaitResponse")
          /\ UNCHANGED fault
       \/ /\ (SubSeq(Buffer(offer), 1, 6) # Ack /\ UNCHANGED fault) \/ Faulty
          /\ offer' \in {offer, <<>>}
          /\ Return(Error)
    /\ UNCHANGED <<job, acking, own, meant, garbled, calm>>

\* The bytes that arrive when at most one of them is wrong.
Misread(frame) ==
    {[Buffer(frame) EXCEPT ![i] = b] : i \in DOMAIN frame, b \in Byte} \ {Buffer(frame)}

\* read_data of the response and the checks on it.
ReadResponse ==
    /\ pc = "readResponse"
    /\ \/ /\ offer' = <<>>
          /\ \E frame \in {Buffer(offer)} \cup Misread(offer) :
              /\ IF frame = Buffer(offer) THEN UNCHANGED fault ELSE Faulty
              /\ IF Valid(frame, PN532_PN532_TO_HOST, Code(fn) + 1, ResponseCapacity(fn))
                 THEN Return(Decoded(fn, Payload(frame)))
                 ELSE Return(Error)
       \/ /\ Faulty
          /\ offer' \in {offer, <<>>}
          /\ Return(Error)
    /\ UNCHANGED <<job, acking, own, meant, garbled, calm>>

\* The ESP32 restarts; the PN532 does not notice.
Reboot ==
    /\ ~calm
    /\ pc' = "idle" /\ booted' = 0 /\ outcome' = Pending
    /\ UNCHANGED <<fn, payload, chip, history, calm>>

command == Write \/ AwaitAck \/ ReadAck \/ AwaitResponse \/ ReadResponse

-----------------------------------------------------------------------------
(* The chip.                                                               *)

ChipAck ==
    /\ job # "none" /\ acking /\ offer = <<>>
    /\ offer' = Ack
    /\ acking' = FALSE
    /\ UNCHANGED <<driver, job, history, calm>>

ChipAnswer ==
    /\ job # "none" /\ ~acking /\ offer = <<>>
    /\ \E a \in Answers[job] :
        /\ offer' = Frame(PN532_PN532_TO_HOST, Code(job) + 1, a.payload)
        /\ meant' = IF own THEN a.meant ELSE meant
    /\ job' = "none"
    /\ UNCHANGED <<driver, acking, own, fault, garbled, calm>>

\* The chip refuses the command.
ChipError ==
    /\ job # "none" /\ ~acking /\ offer = <<>>
    /\ Faulty
    /\ offer' = ErrorFrame
    /\ job' = "none"
    /\ UNCHANGED <<driver, acking, own, meant, garbled, calm>>

\* From here on nothing goes wrong.
Calm ==
    /\ ~calm
    /\ calm' = TRUE
    /\ UNCHANGED <<driver, chip, history>>

chipStep == ChipAck \/ ChipAnswer \/ ChipError

Next == (\E f \in DriverFunctions : Call(f)) \/ BusFails \/ command \/ Reboot \/ chipStep \/ Calm

(* app_main calls the driver over and over and the chip answers.           *)
Fairness ==
    /\ \A f \in DriverFunctions : WF_vars(Call(f))
    /\ WF_vars(command)
    /\ WF_vars(chipStep)

Spec == Init /\ [][Next]_vars /\ Fairness

-----------------------------------------------------------------------------
(* Properties.                                                             *)

\* The driver's and the chip's variables; what a function hands out fits into the
\* buffer of its caller.
TypeOK ==
    /\ pc \in {"idle", "write", "awaitAck", "readAck", "awaitResponse", "readResponse"}
    /\ booted \in 0 .. 2
    /\ fn \in DriverFunctions /\ payload \in Requests[fn] \cup {<<>>}
    /\ {outcome, meant} \subseteq Outcome
    /\ outcome.ok => Len(outcome.data) <= CallerCapacity(fn)
    /\ offer \in Seq(Byte) /\ Len(offer) <= FrameCapacity
    /\ job \in DriverFunctions \cup {"none"}
    /\ {acking, own, fault, garbled, calm} \subseteq BOOLEAN

\* A function that returns ESP_OK returns what the chip answered to this very
\* command: neither the late answer to a command that was given up, or that was
\* running when the ESP32 restarted, nor bytes that changed on the bus.  The
\* exception is a command frame that the chip did not understand.
AnswersAreOwn ==
    outcome.ok /\ ~garbled => own /\ outcome = meant

\* What was left in the chip never spoils the next command: a function that
\* meets no fault itself returns what the chip meant, whatever failed before.
NoPoisoning ==
    pc = "idle" /\ outcome # Pending /\ ~fault => outcome = IF Oversized THEN Error ELSE meant

\* pn532_init, repeated by the reboots its failures cause, succeeds once the
\* faults are over.
Boots == <>[]calm => <>[](booted = 2)
=============================================================================
