-------------------------- MODULE SegaReader_proofs --------------------------
(***************************************************************************)
(* Proofs about module SegaReader, for any set of tags and any requests.   *)
(***************************************************************************)
EXTENDS SegaReader, SequenceTheorems, TLAPS

(* The inductive invariant.                                                *)

\* The chip's target is on the antenna, and what is on the antenna while a request
\* is served counts as present.
ChipInv ==
    /\ listed \in {NoTag, field}
    /\ pc # "idle" => field \in present

\* With the radio off the chip has no target, and nothing polls.
RadioInv == ~radio => listed = NoTag /\ pc \notin {"poll_felica", "poll_type_a"}

\* Which request is in service at each PN532 command.  READ_BLOCK authenticates and
\* reads the card it names, though scans may have changed active_mifare before.
RequestInv ==
    /\ pc = "set_radio" => request.command \in {"RADIO_ON", "RADIO_OFF"}
    /\ pc \in {"poll_felica", "poll_type_a"} => request.command \in {"POLL", "SCAN"}
    /\ pc \in {"authenticate", "read"} => request.command = "READ_BLOCK"
    /\ pc = "authenticate" => active_mifare = request.uid
    /\ pc = "read" => listed \in {NoTag, request.uid}
    /\ pc = "transact" => request.command = "FELICA_ENCAP"

\* Nothing is answered before the end.
AnswerInv == pc # "idle" => answers = <<>>

IInv ==
    /\ TypeOK /\ ChipInv /\ RadioInv /\ RequestInv /\ AnswerInv
    /\ AnswersAreOfTheCard /\ OneAnswer

-----------------------------------------------------------------------------
(* Requests and answers.                                                   *)

\* Each request has the arguments of its command.
LEMMA RequestFacts ==
    ASSUME NEW r \in Requests
    PROVE  /\ r \in Request /\ r.command # "SCAN"
           /\ r.command \in {"SELECT_TAG", "READ_BLOCK"} => r.uid \in Tags \cup {NoTag}
           /\ r.command \in {"SET_KEY", "AUTHENTICATE"} => r.key \in Keys
           /\ r.command = "SET_KEY" => r.sized \in BOOLEAN
           /\ r.command = "FELICA_ENCAP" => r.reply \in Nat
           /\ r.command \in DOMAIN PlainStatus => PlainStatus[r.command] \in {0, 1, 3, 32}
<1>1. r \in Request
  BY RequestAssumption
<1>2. DOMAIN PlainStatus =
        {"NFC_RESET", "GET_FW_VERSION", "GET_HW_VERSION", "TO_UPDATE_MODE", "SEND_HEX_DATA",
         "SEND_HEX_DATA_2B", "NFC_UNKNOWN", "LED_RESET", "LED_GET_INFO", "LED_UNKNOWN"}
  BY DEF PlainStatus
<1>3. \A x \in DOMAIN PlainStatus : PlainStatus[x] \in {0, 1, 3, 32}
  BY <1>2 DEF PlainStatus
<1> QED
  BY <1>1, <1>2, <1>3 DEF Request

\* A request in service is one that was taken.
LEMMA ServedFacts ==
    ASSUME TypeOK
    PROVE  /\ request.command = "READ_BLOCK" => request.uid \in Tags \cup {NoTag}
           /\ request.command = "FELICA_ENCAP" => request.reply \in Nat
           /\ request = Scanning <=> request.command = "SCAN"
<1>1. DOMAIN PlainStatus =
        {"NFC_RESET", "GET_FW_VERSION", "GET_HW_VERSION", "TO_UPDATE_MODE", "SEND_HEX_DATA",
         "SEND_HEX_DATA_2B", "NFC_UNKNOWN", "LED_RESET", "LED_GET_INFO", "LED_UNKNOWN"}
  BY DEF PlainStatus
<1> QED
  BY <1>1 DEF TypeOK, Request, Scanning

\* A response about card.
Response(card, sent) ==
    \E status \in {0, 1, 3, 32}, size \in 0 .. 249 :
        sent = <<[status |-> status, card |-> card, size |-> size]>>

\* send_response sends one response, if its payload fits.
LEMMA SentResponse ==
    ASSUME NEW status \in {0, 1, 3, 32}, NEW card, NEW size \in Nat
    PROVE  /\ size <= 249 => Response(card, send_response(status, card, size))
           /\ size > 249 => send_response(status, card, size) = <<>>
<1>1. ASSUME size <= 249 PROVE Response(card, send_response(status, card, size))
  <2>1. size \in 0 .. 249 /\ ~(size > 249)
    BY <1>1
  <2>2. send_response(status, card, size) = <<[status |-> status, card |-> card, size |-> size]>>
    BY <2>1 DEF send_response
  <2> QED
    BY <2>1, <2>2, Zenon DEF Response
<1>2. size > 249 => send_response(status, card, size) = <<>>
  BY DEF send_response
<1> QED
  BY <1>1, <1>2

LEMMA ResponseType ==
    ASSUME NEW card \in Tags \cup {NoTag}, NEW sent, Response(card, sent)
    PROVE  /\ sent \in Seq(Answer) /\ Len(sent) = 1
           /\ \A i \in DOMAIN sent : sent[i].card = card
<1>1. PICK a \in Answer : sent = <<a>> /\ a.card = card
  BY DEF Response, Answer
<1> QED
  BY <1>1

\* A status without a card.
LEMMA StatusResponse ==
    ASSUME NEW ok \in BOOLEAN
    PROVE  Response(NoTag, Status(ok))
  BY SentResponse DEF Status

-----------------------------------------------------------------------------
(* A request is taken: it is answered at once, or a PN532 command follows. *)

LEMMA Answered ==
    ASSUME IInv, NEW r \in Requests, NEW sent,
           Take(r, "idle", sent),
           Response(NoTag, sent) \/ (sent = <<>> /\ r.command = "LED_SET_COLOR"),
           keys' \subseteq Keys, active_key_type' \in Keys,
           UNCHANGED <<radio, active_mifare, active_felica>>
    PROVE  IInv'
<1>1. /\ sent \in Seq(Answer)
      /\ \A i \in DOMAIN sent : sent[i].card = NoTag
      /\ Len(sent) = 1 \/ (sent = <<>> /\ r.command = "LED_SET_COLOR")
  <2>1. CASE Response(NoTag, sent)
    BY <2>1, ResponseType
  <2>2. CASE sent = <<>> /\ r.command = "LED_SET_COLOR"
    BY <2>2, EmptySeq
  <2> QED
    BY <2>1, <2>2
<1>2. /\ pc' = "idle" /\ request' = r /\ answers' = sent /\ present' = {field}
      /\ UNCHANGED <<listed, field, calm>>
  BY DEF Take
<1>3. TypeOK'
  BY <1>1, <1>2, RequestFacts DEF IInv, TypeOK
<1>4. ChipInv' /\ RadioInv' /\ RequestInv' /\ AnswerInv'
  BY <1>2 DEF IInv, ChipInv, RadioInv, RequestInv, AnswerInv
<1>5. AnswersAreOfTheCard' /\ OneAnswer'
  BY <1>1, <1>2 DEF AnswersAreOfTheCard, OneAnswer
<1> QED
  BY <1>3, <1>4, <1>5 DEF IInv

LEMMA Dispatched ==
    ASSUME IInv, NEW r \in Requests, NEW label,
           Take(r, label, <<>>), UNCHANGED reader,
           \/ label = "set_radio" /\ r.command \in {"RADIO_ON", "RADIO_OFF"}
           \/ label = "poll_felica" /\ r.command = "POLL" /\ radio
           \/ label = "authenticate" /\ r.command = "READ_BLOCK" /\ active_mifare = r.uid
           \/ label = "transact" /\ r.command = "FELICA_ENCAP"
    PROVE  IInv'
<1>1. /\ pc' = label /\ label # "idle" /\ request' = r /\ answers' = <<>> /\ present' = {field}
      /\ UNCHANGED <<listed, field, calm, reader>>
  BY DEF Take
<1>2. TypeOK'
  BY <1>1, RequestFacts, EmptySeq DEF IInv, TypeOK, reader
<1>3. ChipInv' /\ RadioInv' /\ RequestInv' /\ AnswerInv'
  BY <1>1 DEF IInv, ChipInv, RadioInv, RequestInv, AnswerInv, reader
<1>4. AnswersAreOfTheCard' /\ OneAnswer'
  BY <1>1 DEF AnswersAreOfTheCard, OneAnswer
<1> QED
  BY <1>2, <1>3, <1>4 DEF IInv

LEMMA DispatchStep ==
    ASSUME IInv, NEW r \in Requests, dispatch(r)
    PROVE  IInv'
<1>0. keys \subseteq Keys /\ active_key_type \in Keys
  BY DEF IInv, TypeOK
<1>1. CASE SetColor(r)
  BY <1>0, <1>1, Answered DEF SetColor, reader
<1>2. CASE Plain(r)
  <2>1. Response(NoTag, send_response(PlainStatus[r.command], NoTag, 0))
    BY <1>2, RequestFacts, SentResponse DEF Plain
  <2> QED
    BY <1>0, <1>2, <2>1, Answered DEF Plain, reader
<1>3. CASE SelectTag(r)
  <2>1. Response(NoTag, Status(reader_mifare_select(r.uid)))
    BY StatusResponse DEF reader_mifare_select
  <2> QED
    BY <1>0, <1>3, <2>1, Answered DEF SelectTag, reader
<1>4. CASE SetKey(r)
  <2>1. Response(NoTag, Status(r.sized)) /\ keys' \subseteq Keys
    BY <1>0, <1>4, RequestFacts, StatusResponse DEF SetKey
  <2> QED
    BY <1>0, <1>4, <2>1, Answered DEF SetKey
<1>5. CASE Authenticate(r)
  <2>1. Response(NoTag, Status(TRUE)) /\ active_key_type' \in Keys
    BY <1>5, RequestFacts, StatusResponse DEF Authenticate
  <2> QED
    BY <1>0, <1>5, <2>1, Answered DEF Authenticate
<1>6. CASE Radio(r)
  BY <1>6, Dispatched DEF Radio
<1>7. CASE Poll(r)
  <2>1. Response(NoTag, send_response(0, NoTag, 1))
    BY SentResponse
  <2> QED
    BY <1>0, <1>7, <2>1, Answered, Dispatched DEF Poll, reader
<1>8. CASE ReadBlock(r)
  <2>1. Response(NoTag, Status(FALSE))
    BY StatusResponse
  <2>2. reader_mifare_select(r.uid) => active_mifare = r.uid
    BY DEF reader_mifare_select
  <2> QED
    BY <1>0, <1>8, <2>1, <2>2, Answered, Dispatched DEF ReadBlock, reader
<1>9. CASE Encap(r)
  <2>1. Response(NoTag, Status(FALSE))
    BY StatusResponse
  <2> QED
    BY <1>0, <1>9, <2>1, Answered, Dispatched DEF Encap, reader
<1> QED
  BY <1>1, <1>2, <1>3, <1>4, <1>5, <1>6, <1>7, <1>8, <1>9 DEF dispatch

-----------------------------------------------------------------------------
(* One PN532 command: the request is served, or goes on to the next one.   *)

LEMMA Served ==
    ASSUME IInv, NEW card \in Tags \cup {NoTag}, NEW sent,
           pc # "idle", Done(sent), Frame,
           \/ Response(card, sent)
           \/ sent = <<>> /\ request.command = "FELICA_ENCAP" /\ request.reply = 250,
           card \in {NoTag, field},
           request.command = "READ_BLOCK" => card \in {NoTag, request.uid},
           listed' \in {NoTag, field}, radio' \in BOOLEAN, ~radio' => listed' = NoTag,
           {active_mifare', active_felica'} \subseteq Tags \cup {NoTag},
           UNCHANGED <<keys, active_key_type>>
    PROVE  IInv'
<1>1. /\ sent \in Seq(Answer)
      /\ \A i \in DOMAIN sent : sent[i].card = card
      /\ \/ Len(sent) = 1
         \/ sent = <<>> /\ request.command = "FELICA_ENCAP" /\ request.reply = 250
  <2>1. CASE Response(card, sent)
    BY <2>1, ResponseType
  <2>2. CASE sent = <<>> /\ request.command = "FELICA_ENCAP" /\ request.reply = 250
    BY <2>2, EmptySeq
  <2> QED
    BY <2>1, <2>2
<1>2. /\ pc' = "idle" /\ answers' = IF request = Scanning THEN <<>> ELSE sent
      /\ UNCHANGED <<request, field, calm, present>>
  BY DEF Done, Frame
<1>3. answers' \in Seq(Answer)
  BY <1>1, <1>2, EmptySeq
<1>4. TypeOK'
  BY <1>2, <1>3 DEF IInv, TypeOK
<1>5. ChipInv' /\ RadioInv' /\ RequestInv' /\ AnswerInv'
  BY <1>2 DEF IInv, ChipInv, RadioInv, RequestInv, AnswerInv
<1>6. field \in present
  BY DEF IInv, ChipInv
<1>7. AnswersAreOfTheCard'
  BY <1>1, <1>2, <1>6 DEF AnswersAreOfTheCard
<1>8. OneAnswer'
  BY <1>1, <1>2 DEF OneAnswer
<1> QED
  BY <1>4, <1>5, <1>7, <1>8 DEF IInv

LEMMA Continued ==
    ASSUME IInv, NEW label,
           pc # "idle", Goto(label), Frame,
           listed' \in {NoTag, field}, ~radio => listed' = NoTag, UNCHANGED reader,
           \/ label = "poll_type_a" /\ pc = "poll_felica"
           \/ label = "read" /\ pc = "authenticate" /\ listed' = active_mifare
    PROVE  IInv'
<1>1. /\ pc' = label /\ label # "idle"
      /\ UNCHANGED <<request, field, calm, present, answers, reader>>
  BY DEF Goto, Frame
<1>2. TypeOK'
  BY <1>1 DEF IInv, TypeOK, reader
<1>3. ChipInv' /\ RadioInv' /\ RequestInv' /\ AnswerInv'
  BY <1>1 DEF IInv, ChipInv, RadioInv, RequestInv, AnswerInv, reader
<1>4. AnswersAreOfTheCard' /\ OneAnswer'
  BY <1>1 DEF IInv, AnswersAreOfTheCard, OneAnswer
<1> QED
  BY <1>2, <1>3, <1>4 DEF IInv

LEMMA SetRadioStep ==
    ASSUME IInv, SetRadio
    PROVE  IInv'
<1> DEFINE on == request.command = "RADIO_ON"
           switched == IF on THEN listed ELSE NoTag
<1>1. listed \in {NoTag, field} /\ (~radio => listed = NoTag) /\ radio \in BOOLEAN
  BY DEF IInv, TypeOK, ChipInv, RadioInv
<1>2. PICK ok \in BOOLEAN :
        /\ Done(Status(ok)) /\ listed' \in {listed, switched}
        /\ (radio' = on /\ listed' = switched) \/ radio' = radio
  BY DEF SetRadio
<1>3. Response(NoTag, Status(ok))
  BY StatusResponse
<1>4. /\ pc # "idle" /\ Frame /\ request.command # "READ_BLOCK"
      /\ {active_mifare', active_felica'} \subseteq Tags \cup {NoTag}
      /\ UNCHANGED <<keys, active_key_type>>
  BY DEF SetRadio, IInv, TypeOK, RequestInv
<1>5. listed' \in {NoTag, field} /\ (~radio' => listed' = NoTag) /\ radio' \in BOOLEAN
  <2>1. CASE radio' = on /\ listed' = switched
    BY <1>1, <2>1
  <2>2. CASE radio' = radio
    BY <1>1, <1>2, <2>2
  <2> QED
    BY <1>2, <2>1, <2>2
<1> QED
  BY <1>2, <1>3, <1>4, <1>5, Served

\* A FeliCa poll answers with the card on the antenna or goes on to Type A.
LEMMA PollFelicaStep ==
    ASSUME IInv, PollFelica
    PROVE  IInv'
<1>0. /\ pc = "poll_felica" /\ radio /\ listed \in {NoTag, field} /\ field \in Tags \cup {NoTag}
      /\ Frame /\ request.command # "READ_BLOCK"
      /\ UNCHANGED <<radio, keys, active_key_type, active_mifare>>
  BY DEF PollFelica, IInv, TypeOK, ChipInv, RadioInv, RequestInv
<1>1. CASE listed' = field /\ active_felica' = field /\ Done(send_response(0, field, 19))
  <2>1. Response(field, send_response(0, field, 19))
    BY <1>0, SentResponse
  <2>2. {active_mifare', active_felica'} \subseteq Tags \cup {NoTag} /\ radio' \in BOOLEAN
    BY <1>0, <1>1 DEF IInv, TypeOK
  <2> QED
    BY <1>0, <1>1, <2>1, <2>2, Served
<1>2. CASE Goto("poll_type_a") /\ UNCHANGED active_felica /\ listed' \in {listed, NoTag, field}
  BY <1>0, <1>2, Continued DEF reader
<1> QED
  BY <1>1, <1>2 DEF PollFelica

\* A Type A poll answers with the card on the antenna, if it is one.
LEMMA PollTypeAStep ==
    ASSUME IInv, PollTypeA
    PROVE  IInv'
<1>0. /\ pc = "poll_type_a" /\ radio /\ listed \in {NoTag, field} /\ field \in Tags \cup {NoTag}
      /\ Frame /\ request.command # "READ_BLOCK"
      /\ UNCHANGED <<radio, keys, active_key_type, active_felica>>
  BY DEF PollTypeA, IInv, TypeOK, ChipInv, RadioInv, RequestInv
<1>1. {active_mifare, active_felica, field} \subseteq Tags \cup {NoTag} /\ radio \in BOOLEAN
  BY DEF IInv, TypeOK
<1>2. /\ Response(NoTag, send_response(0, NoTag, 1)) /\ Response(field, send_response(0, field, 7))
      /\ Response(NoTag, Status(FALSE))
  <2>1. Response(NoTag, send_response(0, NoTag, 1)) /\ Response(field, send_response(0, field, 7))
    BY SentResponse
  <2> QED
    BY <2>1, StatusResponse
<1>3. CASE \/ listed' = field /\ active_mifare' = field /\ Done(send_response(0, NoTag, 1))
           \/ listed' = NoTag /\ UNCHANGED active_mifare /\ Done(send_response(0, NoTag, 1))
  <2>1. {active_mifare', active_felica'} \subseteq Tags \cup {NoTag} /\ radio' \in BOOLEAN
    BY <1>0, <1>1, <1>3
  <2> QED
    BY <1>0, <1>2, <1>3, <2>1, Served
<1>4. CASE listed' = field /\ active_mifare' = field /\ Done(send_response(0, field, 7))
  <2>1. {active_mifare', active_felica'} \subseteq Tags \cup {NoTag} /\ radio' \in BOOLEAN
    BY <1>0, <1>1, <1>4
  <2> QED
    BY <1>0, <1>2, <1>4, <2>1, Served
<1>5. CASE listed' \in {listed, NoTag, field} /\ UNCHANGED active_mifare /\ Done(Status(FALSE))
  <2>1. {active_mifare', active_felica'} \subseteq Tags \cup {NoTag} /\ radio' \in BOOLEAN
    BY <1>0, <1>1, <1>5
  <2> QED
    BY <1>0, <1>2, <1>5, <2>1, Served
<1> QED
  BY <1>3, <1>4, <1>5 DEF PollTypeA

\* The three exchanges with the chip's target leave the reader alone.
LEMMA ExchangeFrame ==
    ASSUME IInv, NEW card \in {NoTag, listed}, NEW sent,
           pc \in {"authenticate", "read", "transact"}, Done(sent), Frame,
           UNCHANGED <<reader, listed>>,
           \/ Response(card, sent)
           \/ sent = <<>> /\ request.command = "FELICA_ENCAP" /\ request.reply = 250,
           pc = "authenticate" => card = NoTag
    PROVE  IInv'
<1>1. /\ {listed, active_mifare, active_felica} \subseteq Tags \cup {NoTag} /\ radio \in BOOLEAN
      /\ listed \in {NoTag, field} /\ (~radio => listed = NoTag)
      /\ request.command = "READ_BLOCK" => card \in {NoTag, request.uid}
  BY DEF IInv, TypeOK, ChipInv, RadioInv, RequestInv
<1>2. card \in Tags \cup {NoTag} /\ card \in {NoTag, field} /\ pc # "idle"
  BY <1>1
<1>3. /\ listed' \in {NoTag, field} /\ radio' \in BOOLEAN /\ (~radio' => listed' = NoTag)
      /\ {active_mifare', active_felica'} \subseteq Tags \cup {NoTag}
      /\ UNCHANGED <<keys, active_key_type>>
  BY <1>1 DEF reader
<1> QED
  BY <1>1, <1>2, <1>3, Served

LEMMA ExchangeFails ==
    ASSUME IInv, pc \in {"authenticate", "read", "transact"}, Done(Status(FALSE)), Frame,
           UNCHANGED <<reader, listed>>
    PROVE  IInv'
<1> DEFINE sent == Status(FALSE)
<1>1. Response(NoTag, sent)
  BY StatusResponse
<1>2. Done(sent) /\ NoTag \in {NoTag, listed}
  OBVIOUS
<1> HIDE DEF sent
<1> QED
  BY <1>1, <1>2, ExchangeFrame

\* The card that accepts the key is active_mifare, the card of the request.
LEMMA AuthenticateStep ==
    ASSUME IInv, AuthenticateBlock
    PROVE  IInv'
<1>0. pc = "authenticate" /\ Frame /\ UNCHANGED <<reader, listed>>
  BY DEF AuthenticateBlock
<1>1. listed \in {NoTag, field} /\ (~radio => listed = NoTag)
  BY DEF IInv, ChipInv, RadioInv
<1>2. CASE listed = active_mifare /\ Goto("read")
  BY <1>0, <1>1, <1>2, Continued
<1>3. CASE Done(Status(FALSE))
  BY <1>0, <1>3, ExchangeFails
<1> QED
  BY <1>2, <1>3 DEF AuthenticateBlock

LEMMA ReadBlockStep ==
    ASSUME IInv, ReadBlockData
    PROVE  IInv'
<1>0. pc = "read" /\ Frame /\ UNCHANGED <<reader, listed>>
  BY DEF ReadBlockData
<1>1. Response(listed, send_response(0, listed, 16))
  BY SentResponse
<1>2. CASE Done(send_response(0, listed, 16))
  BY <1>0, <1>1, <1>2, ExchangeFrame
<1>3. CASE Done(Status(FALSE))
  BY <1>0, <1>3, ExchangeFails
<1> QED
  BY <1>2, <1>3 DEF ReadBlockData

\* A reply of 250 bytes fits the buffer of FELICA_ENCAP and no response.
LEMMA TransactStep ==
    ASSUME IInv, Transact
    PROVE  IInv'
<1>0. pc = "transact" /\ Frame /\ UNCHANGED <<reader, listed>>
  BY DEF Transact
<1>1. request.command = "FELICA_ENCAP" /\ request.reply \in Nat
  BY <1>0, ServedFacts DEF IInv, RequestInv
<1>2. CASE Done(Status(FALSE))
  BY <1>0, <1>2, ExchangeFails
<1>3. CASE request.reply <= 250 /\ Done(send_response(0, listed, request.reply))
  <2>1. \/ Response(listed, send_response(0, listed, request.reply))
        \/ send_response(0, listed, request.reply) = <<>> /\ request.reply = 250
    <3>1. CASE request.reply <= 249
      BY <1>1, <3>1, SentResponse
    <3>2. CASE request.reply > 249
      BY <1>1, <1>3, <3>2, SentResponse
    <3> QED
      BY <1>1, <3>1, <3>2
  <2> QED
    BY <1>0, <1>1, <1>3, <2>1, ExchangeFrame
<1> QED
  <2>1. \/ Done(Status(FALSE))
        \/ Done(IF request.reply > 250 THEN Status(FALSE)
                                       ELSE send_response(0, listed, request.reply))
    BY DEF Transact
  <2>2. request.reply > 250 \/ request.reply <= 250
    BY <1>1
  <2> QED
    BY <1>1, <1>2, <1>3, <2>1, <2>2

-----------------------------------------------------------------------------
(* The scans and the antenna.                                              *)

LEMMA ScanStep ==
    ASSUME IInv, Scan
    PROVE  IInv'
<1>1. /\ pc' = "poll_felica" /\ radio /\ request' = Scanning /\ answers' = <<>>
      /\ present' = {field} /\ UNCHANGED <<listed, field, calm, reader>>
  BY DEF Scan
<1>2. TypeOK'
  BY <1>1, EmptySeq DEF IInv, TypeOK, reader
<1>3. ChipInv' /\ RadioInv' /\ RequestInv' /\ AnswerInv'
  BY <1>1 DEF IInv, ChipInv, RadioInv, RequestInv, AnswerInv, Scanning, reader
<1>4. AnswersAreOfTheCard' /\ OneAnswer'
  BY <1>1 DEF AnswersAreOfTheCard, OneAnswer
<1> QED
  BY <1>2, <1>3, <1>4 DEF IInv

\* A tag that is moved is lost to the chip, and the request sees the next one.
LEMMA AntennaStep ==
    ASSUME IInv, MoveTag \/ Calm
    PROVE  IInv'
<1>1. CASE MoveTag
  <2>1. PICK t \in Tags \cup {NoTag} : field' = t /\ present' = present \cup {t}
    BY <1>1 DEF MoveTag
  <2>2. listed' = NoTag /\ UNCHANGED <<pc, request, answers, reader, calm>>
    BY <1>1 DEF MoveTag
  <2>3. TypeOK'
    BY <2>1, <2>2 DEF IInv, TypeOK, reader
  <2>4. ChipInv' /\ RadioInv' /\ RequestInv' /\ AnswerInv'
    BY <2>1, <2>2 DEF IInv, ChipInv, RadioInv, RequestInv, AnswerInv, reader
  <2>5. AnswersAreOfTheCard' /\ OneAnswer'
    BY <2>1, <2>2 DEF IInv, AnswersAreOfTheCard, OneAnswer
  <2> QED
    BY <2>3, <2>4, <2>5 DEF IInv
<1>2. CASE Calm
  BY <1>2 DEF Calm, IInv, TypeOK, ChipInv, RadioInv, RequestInv, AnswerInv,
      AnswersAreOfTheCard, OneAnswer, reader
<1> QED
  BY <1>1, <1>2

-----------------------------------------------------------------------------
(* The theorems.                                                           *)

LEMMA NextStep ==
    ASSUME IInv, [Next]_vars
    PROVE  IInv'
<1>1. CASE Next
  BY <1>1, DispatchStep, ScanStep, SetRadioStep, PollFelicaStep, PollTypeAStep, AuthenticateStep,
      ReadBlockStep, TransactStep, AntennaStep DEF Next, pn532
<1>2. CASE UNCHANGED vars
  BY <1>2 DEF vars, world, IInv, TypeOK, ChipInv, RadioInv, RequestInv, AnswerInv,
      AnswersAreOfTheCard, OneAnswer, reader
<1> QED
  BY <1>1, <1>2

\* IInv is an inductive invariant of the SEGA commands over the reader layer.
THEOREM Invariance == Spec => []IInv
<1>1. Init => IInv
  <2> SUFFICES ASSUME Init PROVE IInv
    OBVIOUS
  <2>1. TypeOK
    BY EmptySeq DEF Init, TypeOK, Keys
  <2> QED
    BY <2>1 DEF Init, IInv, ChipInv, RadioInv, RequestInv, AnswerInv, AnswersAreOfTheCard,
        OneAnswer, Scanning
<1>2. IInv /\ [Next]_vars => IInv'
  BY NextStep
<1> QED
  BY <1>1, <1>2, PTL DEF Spec

\* The variables keep their types; every response fits into a frame, whatever a
\* FeliCa card replies.
THEOREM TypeCorrect == Spec => []TypeOK
  BY Invariance, PTL DEF IInv

\* A card in an answer was on the antenna while the request was served, and the
\* answer to READ_BLOCK is a block of the card it names.
THEOREM AnswersOfTheCard == Spec => []AnswersAreOfTheCard
  BY Invariance, PTL DEF IInv

\* Every request is answered once, but for SET_COLOR and a FeliCa reply of 250 bytes.
THEOREM AnsweredOnce == Spec => []OneAnswer
  BY Invariance, PTL DEF IInv

\* With the radio off no command sends a response about a card: the chip has no
\* target then, which READ_BLOCK and FELICA_ENCAP rely on.
THEOREM RadioOffSilent == Spec => RadioOffServesNoCard
<1> DEFINE NoCard(sent) == \A i \in DOMAIN sent : sent[i].card = NoTag
<1>1. ASSUME NEW sent, Response(NoTag, sent)
      PROVE  NoCard(sent)
  BY <1>1, ResponseType
<1>2. NoCard(<<>>)
  OBVIOUS
<1>3. Response(NoTag, Status(TRUE)) /\ Response(NoTag, Status(FALSE))
  BY StatusResponse
<1>4. ASSUME IInv, Next, ~radio, answers' # answers
      PROVE  NoCard(answers')
  <2>1. listed = NoTag /\ pc \notin {"poll_felica", "poll_type_a"}
    BY <1>4 DEF IInv, RadioInv
  <2>2. ASSUME NEW r \in Requests, dispatch(r)
        PROVE  NoCard(answers')
    <3>1. PICK label : \/ Take(r, label, <<>>)
                       \/ \E ok \in BOOLEAN : Take(r, label, Status(ok))
                       \/ Take(r, label, send_response(0, NoTag, 1))
                       \/ /\ r.command \in DOMAIN PlainStatus
                          /\ Take(r, label, send_response(PlainStatus[r.command], NoTag, 0))
      BY <2>2, RequestFacts DEF dispatch, SetColor, Plain, SelectTag, SetKey, Authenticate, Radio,
          Poll, ReadBlock, Encap, reader_mifare_select
    <3>2. answers' = <<>> \/ Response(NoTag, answers')
      BY <3>1, RequestFacts, SentResponse, StatusResponse DEF Take
    <3> QED
      BY <3>2, <1>1, <1>2
  <2>3. CASE Scan
    BY <2>3, <1>2 DEF Scan
  <2>4. CASE SetRadio
    BY <2>4, <1>1, <1>2, <1>3 DEF SetRadio, Done
  <2>5. CASE AuthenticateBlock
    BY <2>5, <1>1, <1>2, <1>3, <1>4 DEF AuthenticateBlock, Done, Goto
  <2>6. CASE ReadBlockData
    BY <2>1, <2>6, <1>1, <1>2, <1>3 DEF ReadBlockData, Done
  <2>7. CASE Transact
    BY <2>1, <2>7, <1>1, <1>2, <1>3 DEF Transact, Done, KindOf
  <2>8. CASE MoveTag \/ Calm
    BY <2>8, <1>4 DEF MoveTag, Calm
  <2>9. ~PollFelica /\ ~PollTypeA
    BY <2>1 DEF PollFelica, PollTypeA
  <2> QED
    BY <1>4, <2>2, <2>3, <2>4, <2>5, <2>6, <2>7, <2>8, <2>9 DEF Next, pn532
<1>5. IInv /\ [Next]_vars => [~radio /\ answers' # answers => NoCard(answers')]_vars
  BY <1>4
<1> QED
  BY <1>5, Invariance, PTL DEF Spec, RadioOffServesNoCard
=============================================================================
