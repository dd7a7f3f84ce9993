----------------------------- MODULE SegaReader -----------------------------
(***************************************************************************)
(* The SEGA commands of impl/firmware/main/sega.c over the reader layer of *)
(* reader.c: POLL, SELECT_TAG, SET_KEY, AUTHENTICATE, READ_BLOCK and       *)
(* FELICA_ENCAP share active_mifare, active_felica, active_key_type and the*)
(* target list of the PN532 with the scans that app_main runs between two  *)
(* commands.  The driver remembers a target, the chip remembers another,   *)
(* and the tag on the antenna is a third: it is swapped at any time, and a *)
(* poll may fail before or after the chip has replaced its list.           *)
(*                                                                         *)
(* One step is one PN532 command.  What a scan reads from a tag it has     *)
(* found (see Firmware) changes nothing here and is left out.  The PN532 is*)
(* external: a poll replaces the listed target, an exchange needs that     *)
(* target on the antenna since then, MIFARE authentication also the UID and*)
(* the key of the card, and switching the radio off loses the target.      *)
(***************************************************************************)
EXTENDS Naturals, Sequences

CONSTANTS
    Tags,       \* the physical cards
    Kind,       \* what each tag is, see Kinds
    NoTag,      \* no card, and a UID or key of the wrong size in a request
    Requests    \* the requests of the SEGA host, see Request

\* FeliCa; Type A with a 4-byte UID, readable with the Aime or the Banapass key or
\* neither; Type A with a longer UID.
Keys == {"aime", "bana"}
MifareKinds == Keys \cup {"unsupported"}
Kinds == {"felica", "longUid"} \cup MifareKinds

KindOf(t) == IF t = NoTag THEN "none" ELSE Kind[t]

\* The status of a command that is answered without looking at the reader.
\* SEND_HEX_DATA depends on the size of its payload.
PlainStatus ==
    [NFC_RESET |-> 3, GET_FW_VERSION |-> 0, GET_HW_VERSION |-> 0, TO_UPDATE_MODE |-> 0,
     SEND_HEX_DATA |-> 0, SEND_HEX_DATA_2B |-> 32, NFC_UNKNOWN |-> 1,
     LED_RESET |-> 0, LED_GET_INFO |-> 0, LED_UNKNOWN |-> 1]

\* SET_KEY stores the key that such cards carry, or another one; both it and
\* AUTHENTICATE are two commands of the protocol.  FELICA_ENCAP asks a card for a
\* reply of that many bytes.
Request ==
    [command : DOMAIN PlainStatus \cup {"LED_SET_COLOR", "RADIO_ON", "RADIO_OFF", "POLL"}]
        \cup [command : {"SELECT_TAG", "READ_BLOCK"}, uid : Tags \cup {NoTag}]
        \cup [command : {"SET_KEY"}, key : Keys, right : BOOLEAN, sized : BOOLEAN]
        \cup [command : {"AUTHENTICATE"}, key : Keys]
        \cup [command : {"FELICA_ENCAP"}, sized : BOOLEAN, reply : Nat]

ASSUME TagAssumption == NoTag \notin Tags /\ Kind \in [Tags -> Kinds]
ASSUME RequestAssumption == \A r \in Requests : r \in Request

VARIABLES
    pc,        \* the main task: "idle" or the PN532 command it is about to give
    request,   \* the request in service or served last, Scanning in a scan
    answers,   \* the responses sent to it
    radio,     \* radio_enabled
    keys,      \* the mifare_keys that are the keys such cards carry
    active_key_type,
    active_mifare, active_felica,
    listed,    \* chip: its target, if that is still on the antenna
    field,     \* the tag on the antenna
    calm,      \* from now on no fault and no swap
    present    \* history: tags on the antenna since the request came

reader == <<radio, keys, active_key_type, active_mifare, active_felica>>
world == <<listed, field, calm, present>>
vars == <<pc, request, answers, reader, world>>

Scanning == [command |-> "SCAN"]

\* A limit that is off by one, and none at all.
send_response_OffByOne(status, card, size) ==
    IF size >= 249 THEN <<>> ELSE <<[status |-> status, card |-> card, size |-> size]>>

send_response_Unbounded(status, card, size) ==
    <<[status |-> status, card |-> card, size |-> size]>>

\* send_response: a payload that is too long is dropped, and so is the answer.
send_response(status, card, size) ==
    IF size > 249 THEN <<>> ELSE <<[status |-> status, card |-> card, size |-> size]>>

Init ==
    /\ pc = "idle" /\ request = Scanning /\ answers = <<>>
    /\ radio = TRUE /\ keys = Keys /\ active_key_type = "aime"
    /\ active_mifare = NoTag /\ active_felica = NoTag
    /\ listed = NoTag /\ field = NoTag /\ calm = FALSE /\ present = {}

-----------------------------------------------------------------------------
(* dispatch_led and dispatch_nfc: the commands that need no PN532 command. *)

\* A request is taken from the queue and dispatched to the next PN532 command,
\* or answered at once.
Take(r, label, sent) ==
    /\ pc = "idle"
    /\ r \in Requests
    /\ request' = r
    /\ pc' = label
    /\ answers' = sent
    /\ present' = {field}
    /\ UNCHANGED <<listed, field, calm>>

Status(ok) == send_response(IF ok THEN 0 ELSE 1, NoTag, 0)

\* SG_LED_SET_COLOR has no answer.
SetColor(r) ==
    /\ r.command = "LED_SET_COLOR"
    /\ Take(r, "idle", <<>>)
    /\ UNCHANGED reader

Plain(r) ==
    /\ r.command \in DOMAIN PlainStatus
    /\ Take(r, "idle", send_response(PlainStatus[r.command], NoTag, 0))
    /\ UNCHANGED reader

\* A reader that takes any UID for the one of its target.
reader_mifare_select_Any(uid) == KindOf(active_mifare) \in MifareKinds /\ uid # NoTag

\* active_mifare has a 4-byte UID, and this one.
reader_mifare_select(uid) ==
    uid # NoTag /\ KindOf(active_mifare) \in MifareKinds /\ active_mifare = uid

SelectTag(r) ==
    /\ r.command = "SELECT_TAG"
    /\ Take(r, "idle", Status(reader_mifare_select(r.uid)))
    /\ UNCHANGED reader

\* reader_mifare_set_key, of a key of 6 bytes.
SetKey(r) ==
    /\ r.command = "SET_KEY"
    /\ keys' = IF ~r.sized THEN keys ELSE IF r.right THEN keys \cup {r.key} ELSE keys \ {r.key}
    /\ Take(r, "idle", Status(r.sized))
    /\ UNCHANGED <<radio, active_key_type, active_mifare, active_felica>>

\* reader_mifare_authenticate only remembers which key READ_BLOCK is to use.
Authenticate(r) ==
    /\ r.command = "AUTHENTICATE"
    /\ active_key_type' = r.key
    /\ Take(r, "idle", Status(TRUE))
    /\ UNCHANGED <<radio, keys, active_mifare, active_felica>>

(* And the commands that do.                                               *)

Radio(r) ==
    /\ r.command \in {"RADIO_ON", "RADIO_OFF"}
    /\ Take(r, "set_radio", <<>>)
    /\ UNCHANGED reader

\* SG_NFC_POLL runs reader_read_card, which finds nothing with the radio off.
Poll(r) ==
    /\ r.command = "POLL"
    /\ IF radio THEN Take(r, "poll_felica", <<>>)
                ELSE Take(r, "idle", send_response(0, NoTag, 1))
    /\ UNCHANGED reader

ReadBlock(r) ==
    /\ r.command = "READ_BLOCK"
    /\ IF reader_mifare_select(r.uid) THEN Take(r, "authenticate", <<>>)
                                      ELSE Take(r, "idle", Status(FALSE))
    /\ UNCHANGED reader

Encap(r) ==
    /\ r.command = "FELICA_ENCAP"
    /\ IF r.sized THEN Take(r, "transact", <<>>) ELSE Take(r, "idle", Status(FALSE))
    /\ UNCHANGED reader

dispatch(r) ==
    \/ SetColor(r) \/ Plain(r) \/ SelectTag(r) \/ SetKey(r) \/ Authenticate(r)
    \/ Radio(r) \/ Poll(r) \/ ReadBlock(r) \/ Encap(r)

\* app_main's own observation is due; with the radio off it polls nothing.
Scan ==
    /\ pc = "idle" /\ radio
    /\ pc' = "poll_felica"
    /\ request' = Scanning /\ answers' = <<>> /\ present' = {field}
    /\ UNCHANGED <<reader, listed, field, calm>>

-----------------------------------------------------------------------------
(* One PN532 command each; the last one of a request sends the response.   *)

Done(sent) == pc' = "idle" /\ answers' = IF request = Scanning THEN <<>> ELSE sent
Goto(label) == pc' = label /\ UNCHANGED answers
Frame == UNCHANGED <<request, field, calm, present>>

\* A reader that believes the radio is off although the PN532 was not told.
SetRadio_ErrorIgnored ==
    /\ pc = "set_radio"
    /\ LET on == request.command = "RADIO_ON"
       IN /\ radio' = on
          /\ listed' \in {listed, IF on \/ calm THEN listed ELSE NoTag}
    /\ Done(Status(TRUE))
    /\ UNCHANGED <<keys, active_key_type, active_mifare, active_felica>>
    /\ Frame

\* reader_radio_set: radio_enabled follows only if pn532_set_radio succeeded.
SetRadio ==
    /\ pc = "set_radio"
    /\ LET on == request.command = "RADIO_ON"
           switched == IF on THEN listed ELSE NoTag
       IN \/ radio' = on /\ listed' = switched /\ Done(Status(TRUE))
          \/ ~calm /\ listed' \in {listed, switched} /\ Done(Status(FALSE)) /\ UNCHANGED radio
    /\ UNCHANGED <<keys, active_key_type, active_mifare, active_felica>>
    /\ Frame

\* pn532_poll_felica.  A card that has not the system code asked for does not
\* answer.
PollFelica ==
    /\ pc = "poll_felica"
    /\ LET seen == KindOf(field) = "felica"
       IN \/ /\ seen
             /\ listed' = field /\ active_felica' = field
             /\ Done(send_response(0, field, 19))
          \/ /\ listed' = NoTag
             /\ Goto("poll_type_a")
             /\ UNCHANGED active_felica
          \/ /\ ~calm
             /\ listed' \in {listed, NoTag} \cup (IF seen THEN {field} ELSE {})
             /\ Goto("poll_type_a")
             /\ UNCHANGED active_felica
    /\ UNCHANGED <<radio, keys, active_key_type, active_mifare>>
    /\ Frame

\* A reader that polls for Type A only while it knows no target.
PollTypeA_Once ==
    /\ pc = "poll_type_a"
    /\ LET found == KindOf(field) \in MifareKinds \cup {"longUid"} /\ active_mifare = NoTag
       IN /\ listed' = IF found THEN field ELSE listed
          /\ active_mifare' = IF found THEN field ELSE active_mifare
          /\ Done(send_response(0, active_mifare', 7))
    /\ UNCHANGED <<radio, keys, active_key_type, active_felica>>
    /\ Frame

\* pn532_poll_type_a and the rest of reader_read_card.  A target that is not
\* found leaves active_mifare alone; a longer UID replaces it and is no card.
\* The block reads that follow (Firmware!Authenticate and after) are no part of the
\* answer and do not touch active_mifare; they are assumed to leave the chip its
\* target, as the code does when it tries one key after the other.
PollTypeA ==
    /\ pc = "poll_type_a"
    /\ LET seen == KindOf(field) \in MifareKinds \cup {"longUid"}
       IN \/ /\ seen
             /\ listed' = field /\ active_mifare' = field
             /\ Done(IF KindOf(field) = "longUid" THEN send_response(0, NoTag, 1)
                                                  ELSE send_response(0, field, 7))
          \/ /\ ~seen
             /\ listed' = NoTag
             /\ Done(send_response(0, NoTag, 1))
             /\ UNCHANGED active_mifare
          \/ /\ ~calm
             /\ listed' \in {listed, NoTag} \cup (IF seen THEN {field} ELSE {})
             /\ Done(Status(FALSE))
             /\ UNCHANGED active_mifare
    /\ UNCHANGED <<radio, keys, active_key_type, active_felica>>
    /\ Frame

\* pn532_mifare_authenticate with active_mifare's UID and the key of
\* active_key_type.
AuthenticateBlock ==
    /\ pc = "authenticate"
    /\ LET accepted == /\ listed # NoTag /\ listed = active_mifare
                       /\ Kind[listed] = active_key_type /\ active_key_type \in keys
       IN \/ accepted /\ Goto("read")
          \/ (~accepted \/ ~calm) /\ Done(Status(FALSE))
    /\ UNCHANGED <<reader, listed>>
    /\ Frame

\* pn532_mifare_read_block
ReadBlockData ==
    /\ pc = "read"
    /\ \/ listed # NoTag /\ Done(send_response(0, listed, 16))
       \/ (listed = NoTag \/ ~calm) /\ Done(Status(FALSE))
    /\ UNCHANGED <<reader, listed>>
    /\ Frame

\* pn532_felica_transact with active_felica's target number and room for 250 bytes.
\* The IDm in the request is not looked at.
Transact ==
    /\ pc = "transact"
    /\ LET answered == KindOf(listed) = "felica" /\ active_felica # NoTag
       IN \/ /\ answered
             /\ Done(IF request.reply > 250 THEN Status(FALSE)
                                            ELSE send_response(0, listed, request.reply))
          \/ (~answered \/ ~calm) /\ Done(Status(FALSE))
    /\ UNCHANGED <<reader, listed>>
    /\ Frame

pn532 == SetRadio \/ PollFelica \/ PollTypeA \/ AuthenticateBlock \/ ReadBlockData \/ Transact

-----------------------------------------------------------------------------
\* A tag is put on the antenna, removed, or swapped for another one.
MoveTag ==
    /\ ~calm
    /\ \E t \in (Tags \cup {NoTag}) \ {field} : field' = t /\ present' = present \cup {t}
    /\ listed' = NoTag
    /\ UNCHANGED <<pc, request, answers, reader, calm>>

\* From here on nothing goes wrong.
Calm ==
    /\ ~calm
    /\ calm' = TRUE
    /\ UNCHANGED <<pc, request, answers, reader, listed, field, present>>

Next == (\E r \in Requests : dispatch(r)) \/ Scan \/ pn532 \/ MoveTag \/ Calm

(* PN532 commands end, and a scan that is due is not starved by requests   *)
(* (Firmware!ScansAreNotStarved).                                          *)
Fairness == WF_vars(pn532) /\ SF_vars(Scan)

Spec == Init /\ [][Next]_vars /\ Fairness

-----------------------------------------------------------------------------
(* Properties.                                                             *)

Answer == [status : {0, 1, 3, 32}, card : Tags \cup {NoTag}, size : 0 .. 249]

\* The variables; a response fits into the 256 bytes of a frame.
TypeOK ==
    /\ pc \in {"idle", "set_radio", "poll_felica", "poll_type_a", "authenticate", "read",
               "transact"}
    /\ request \in Request \cup {Scanning}
    /\ answers \in Seq(Answer)
    /\ {radio, calm} \subseteq BOOLEAN /\ keys \subseteq Keys /\ active_key_type \in Keys
    /\ {active_mifare, active_felica, listed, field} \cup present \subseteq Tags \cup {NoTag}

\* A card in an answer was on the antenna while the request was served, and a
\* block is a block of the card the host asked for: SELECT_TAG and AUTHENTICATE
\* may have been answered for a card that is gone, scans may have replaced the
\* driver's target or, with a failed poll, only the chip's.
AnswersAreOfTheCard ==
    \A i \in DOMAIN answers :
        answers[i].card # NoTag =>
            /\ answers[i].card \in present
            /\ request.command = "READ_BLOCK" => answers[i].card = request.uid

\* Every request is answered once, with two exceptions: SET_COLOR, and a FeliCa
\* response of 250 bytes, which FELICA_ENCAP accepts and send_response drops.
OneAnswer ==
    pc = "idle" /\ request # Scanning =>
        \/ Len(answers) = 1
        \/ answers = <<>> /\ request.command = "LED_SET_COLOR"
        \/ answers = <<>> /\ request.command = "FELICA_ENCAP" /\ request.reply = 250

\* With the radio off no command finds, reads or reaches a card, though READ_BLOCK
\* and FELICA_ENCAP do not look at radio_enabled.
RadioOffServesNoCard ==
    [][~radio /\ answers' # answers => \A i \in DOMAIN answers' : answers'[i].card = NoTag]_vars

\* A card that stays on the antenna becomes and stays readable for the SEGA host,
\* whatever failed before and however scans and polls go on.
HeldCardIsReadable ==
    <>[](/\ calm /\ radio /\ KindOf(field) = active_key_type /\ keys = Keys) =>
        <>[](pc = "idle" /\ request.command = "READ_BLOCK" /\ request.uid = field
                => answers = send_response(0, field, 16))
=============================================================================
