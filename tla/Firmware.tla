------------------------------ MODULE Firmware ------------------------------
(***************************************************************************)
(* The ESP32 firmware: the main task (impl/firmware/main/app_main.c), the  *)
(* card observation it runs (reader.c over the polls of pn532.c), what it  *)
(* publishes and answers (prhp.c, cardio.c, the NFC commands of sega.c     *)
(* that change the reader), and the TinyUSB callbacks and endpoints it     *)
(* shares with the USB task (usb_device.c).                                *)
(*                                                                         *)
(* Two tasks run: the main task, alone in reader.c, and the USB task, which*)
(* only puts messages into a bounded queue and empties the IN endpoints.   *)
(* Tags come, go and are swapped at any time, between two PN532 commands of*)
(* one observation too; a PN532 command may fail.  PN532 and TinyUSB are   *)
(* external: a poll answers for the tag in the field; an authentication    *)
(* opens the tag in the field if it has the UID and the key of the command,*)
(* and a block read returns a block of that tag until it leaves the field. *)
(* A CDC message carries at most one complete SEGA command.                *)
(***************************************************************************)
EXTENDS Naturals, Sequences

CONSTANTS
    Tags,         \* the physical cards
    Kind,         \* what each tag is, see Kinds
    NoTag,        \* an empty field
    Incoming,     \* the messages hosts send, see Message
    QueueCap      \* capacity of the queue messages (16 in the code)

\* "transit" and "felica" are FeliCa cards that do and do not answer system code
\* 0x0003; the others are Type A: readable with the Aime or the Banapass key,
\* with neither, or with a UID that is not 4 bytes long.
FelicaKinds == {"transit", "felica"}
MifareKinds == {"aime", "bana", "unsupported"}
Kinds == FelicaKinds \cup MifareKinds \cup {"longUid"}

\* A PRHP report, and the SEGA commands that act on the reader.  SET_KEY
\* replaces an Aime or Banapass key by the one such cards carry, or another.
PrhpMessage ==
    [type : {"REQUEST", "RESPONSE", "SIGNAL"},
     opcode : {"GET_VERSION", "CARD_STATE", "SET_LED", "RESERVED"},
     sequence : Nat, status : {0, 1}]
Keys == {"aime", "bana"}
SegaCommand ==
    [command : {"RADIO_ON", "RADIO_OFF", "POLL"}]
        \cup [command : {"SET_KEY"}, key : Keys, right : BOOLEAN]

\* usb_message_t
Message == [type : {"HID"}, data : PrhpMessage] \cup [type : {"CDC"}, data : SegaCommand]

ASSUME TagAssumption == NoTag \notin Tags /\ Kind \in [Tags -> Kinds]
ASSUME MessageAssumption == \A m \in Incoming : m \in Message
ASSUME QueueAssumption == QueueCap \in Nat \ {0}

VARIABLES
    pc,          \* the main task
    caller,      \* who called reader_read_card: app_main ("scan") or "sega"
    due,         \* now >= next_scan
    observed,    \* the reader_card_t being filled
    trying,      \* the key that read_mifare_with_key is called with
    current,     \* app_main's current
    reply,       \* the PRHP response being sent
    radio,       \* radio_enabled
    keys,        \* the mifare_keys that are the keys such cards carry
    systemCode,  \* felica_system_code: "transit" or "wildcard"
    messages,    \* the FreeRTOS queue
    endpoint,    \* per HID interface, the report waiting in its IN endpoint
    mounted,     \* tud_mounted()
    field,       \* the tag on the antenna
    link,        \* the tag in the field: "selected" by a Type A poll, "open" for reads
    calm,        \* from now on no fault, no swap, no unplugging
    host,        \* the card the PRHP host holds
    missed,      \* history: the host was not told of the current card
    present,     \* history: tags in the field since the scan under way began
    failed,      \* history: what failed in this scan of a held tag, "felica" poll or "read"
    held         \* history: since the scan that gave current, only that tag was present

task == <<pc, caller, due, observed, trying, current, reply>>
readerState == <<radio, keys, systemCode>>
usb == <<messages, endpoint, mounted>>
nfc == <<field, link>>
history == <<missed, present, failed, held>>
vars == <<task, readerState, usb, nfc, calm, host, history>>

Interfaces == {"PRHP", "CARDIO"}

\* A reader_card_t: the tag its identity is of, and the tags that its two blocks and
\* its LUID were read from.  NoTag stands for zeroed bytes.
NoCard == [tag |-> NoTag, block1 |-> NoTag, block2 |-> NoTag, has_blocks |-> FALSE,
           luid |-> NoTag]
Card(tag) == [NoCard EXCEPT !.tag = tag]

Mifare(card) == card.tag # NoTag /\ Kind[card.tag] \in MifareKinds

\* prhp_publish_card_state: a MIFARE card without blocks is NONE, one with them is its
\* LUID and blocks, a FeliCa card its IDm.
CardState(card) ==
    CASE Mifare(card) /\ ~card.has_blocks -> NoCard
      [] Mifare(card) /\ card.has_blocks -> card
      [] OTHER -> Card(card.tag)

Signal(card) == [kind |-> "signal", card |-> CardState(card)]

\* cardio_publish_card_state: the identity of the tag alone, MIFARE or FeliCa.
CardioReport(card) == [kind |-> "cardio", tag |-> card.tag]

NoReply == [kind |-> "none"]

\* prhp_dispatch: what it answers.
Reply(m) ==
    LET Answer(status) == [kind |-> "response", opcode |-> m.opcode,
                           sequence |-> m.sequence, status |-> status]
    IN CASE m.type # "REQUEST" \/ m.sequence = 0 -> NoReply
         [] m.status # 0 -> Answer("INVALID_MESSAGE")
         [] m.opcode = "GET_VERSION" -> Answer("SUCCESS")
         [] OTHER -> Answer("UNKNOWN_OPCODE")

Init ==
    /\ pc = "receive" /\ caller = "scan" /\ due = TRUE
    /\ observed = NoCard /\ trying = "aime" /\ current = NoCard /\ reply = NoReply
    /\ radio = TRUE /\ keys = Keys /\ systemCode = "transit"
    /\ messages = <<>> /\ endpoint = [i \in Interfaces |-> <<>>] /\ mounted = FALSE
    /\ field = NoTag /\ link = "none"
    /\ calm = FALSE
    /\ host = NoCard
    /\ missed = FALSE /\ present = {} /\ failed = {} /\ held = FALSE

-----------------------------------------------------------------------------
(* app_main's loop: one message, then the observation if it is due.        *)

\* A reader that resets the card field by field and forgets the LUID: what the stack
\* holds there is the card of an earlier observation.
ReadCard_KeepsLuid(who) ==
    /\ pc' = "felica"
    /\ caller' = who
    /\ observed' = [NoCard EXCEPT !.luid = current.luid]
    /\ present' = IF who = "scan" THEN {field} ELSE {}

\* reader_read_card is called; an observation begins and the card is zeroed.
ReadCard(who) ==
    /\ pc' = "felica"
    /\ caller' = who
    /\ observed' = NoCard
    /\ present' = IF who = "scan" THEN {field} ELSE {}

\* prhp_dispatch of the message at the head of the queue.
ReceiveHid ==
    /\ pc = "receive" /\ messages # <<>>
    /\ Head(messages).type = "HID"
    /\ messages' = Tail(messages)
    /\ reply' = Reply(Head(messages).data)
    /\ pc' = IF reply' = NoReply THEN "clock" ELSE "reply"
    /\ UNCHANGED <<caller, due, observed, trying, current, readerState, endpoint, mounted, nfc,
                   calm, host, history>>

\* reader_radio_set: the PN532 command may fail and then radio_enabled is kept.
reader_radio_set(enabled) ==
    \/ radio' = enabled
    \/ ~calm /\ UNCHANGED radio

\* reader_mifare_set_key
reader_mifare_set_key(key, right) ==
    keys' = IF right THEN keys \cup {key} ELSE keys \ {key}

\* sega_receive of SG_NFC_RADIO_ON or SG_NFC_RADIO_OFF.
ReceiveRadio ==
    /\ pc = "receive" /\ messages # <<>>
    /\ Head(messages).type = "CDC"
    /\ Head(messages).data.command \in {"RADIO_ON", "RADIO_OFF"}
    /\ messages' = Tail(messages)
    /\ reader_radio_set(Head(messages).data.command = "RADIO_ON")
    /\ pc' = "clock"
    /\ UNCHANGED <<caller, due, observed, trying, current, reply, keys, systemCode, endpoint,
                   mounted, nfc, calm, host, history>>

\* sega_receive of SG_NFC_MIFARE_SET_KEY_AIME or SG_NFC_MIFARE_SET_KEY_BANA.
ReceiveSetKey ==
    /\ pc = "receive" /\ messages # <<>>
    /\ Head(messages).type = "CDC" /\ Head(messages).data.command = "SET_KEY"
    /\ messages' = Tail(messages)
    /\ reader_mifare_set_key(Head(messages).data.key, Head(messages).data.right)
    /\ pc' = "clock"
    /\ UNCHANGED <<caller, due, observed, trying, current, reply, radio, systemCode, endpoint,
                   mounted, nfc, calm, host, history>>

\* sega_receive: SG_NFC_POLL runs an observation of its own.
ReceivePoll ==
    /\ pc = "receive" /\ messages # <<>>
    /\ Head(messages).type = "CDC" /\ Head(messages).data.command = "POLL"
    /\ messages' = Tail(messages)
    /\ ReadCard("sega")
    /\ UNCHANGED <<due, trying, current, reply, readerState, endpoint, mounted, nfc, calm,
                   host, missed, failed, held>>

\* usb_device_receive timed out after 50 ms.
ReceiveTimeout ==
    /\ pc = "receive" /\ messages = <<>>
    /\ pc' = "clock"
    /\ UNCHANGED <<caller, due, observed, trying, current, reply, readerState, usb, nfc, calm,
                   host, history>>

\* A loop that looks at the clock only when no message is waiting.
Clock_MessagesFirst ==
    /\ pc = "clock"
    /\ \/ /\ due /\ messages = <<>>
          /\ due' = FALSE
          /\ ReadCard("scan")
       \/ /\ ~due \/ messages # <<>>
          /\ pc' = "receive"
          /\ UNCHANGED <<caller, due, observed, present>>
    /\ UNCHANGED <<trying, current, reply, readerState, usb, nfc, calm, host, missed, failed,
                   held>>

\* if (now < next_scan) continue; next_scan = now + CARD_SCAN_INTERVAL_US
Clock ==
    /\ pc = "clock"
    /\ \/ /\ due
          /\ due' = FALSE
          /\ ReadCard("scan")
       \/ /\ ~due
          /\ pc' = "receive"
          /\ UNCHANGED <<caller, due, observed, present>>
    /\ UNCHANGED <<trying, current, reply, readerState, usb, nfc, calm, host, missed, failed,
                   held>>

\* 200 ms have passed.
Tick ==
    /\ ~due
    /\ due' = TRUE
    /\ UNCHANGED <<pc, caller, observed, trying, current, reply, readerState, usb, nfc, calm,
                   host, history>>

\* A comparison of the identities alone.
Compare_TagOnly ==
    /\ pc = "compare"
    /\ current' = observed
    /\ pc' = IF observed.tag = current.tag THEN "receive" ELSE "publishPrhp"
    /\ observed' = NoCard /\ present' = {} /\ failed' = {}
    /\ held' = (present = {observed.tag})
    /\ UNCHANGED <<caller, due, trying, reply, readerState, usb, nfc, calm, host, missed>>

\* The observation differs from current: replace it and publish.
Compare ==
    /\ pc = "compare"
    /\ current' = observed
    /\ pc' = IF observed = current THEN "receive" ELSE "publishPrhp"
    /\ observed' = NoCard /\ present' = {} /\ failed' = {}
    /\ held' = (present = {observed.tag})
    /\ UNCHANGED <<caller, due, trying, reply, readerState, usb, nfc, calm, host, missed>>

-----------------------------------------------------------------------------
(* reader_read_card, one step per PN532 command.                           *)

\* A PN532 command leaves all of this alone.
ReaderFrame ==
    UNCHANGED <<due, current, reply, radio, keys, usb, field, calm, host, missed, held>>

\* A command of a scan of a held tag failed.
Failure(what) == failed' = IF caller = "scan" /\ held THEN failed \cup {what} ELSE failed

\* reader_read_card returns ESP_OK: app_main compares, the SEGA handler answers.
Return(card) ==
    /\ link' = "none" /\ trying' = "aime"
    /\ IF caller = "scan"
       THEN pc' = "compare" /\ observed' = card
       ELSE pc' = "clock" /\ observed' = NoCard
    /\ caller' = "scan"
    /\ UNCHANGED present
    /\ ReaderFrame

\* It goes on to the next command.
Continue(label, card) ==
    /\ pc' = label
    /\ observed' = card
    /\ UNCHANGED <<caller, present>>
    /\ ReaderFrame

\* if (!radio_enabled) return ESP_OK
RadioOff ==
    /\ pc = "felica" /\ ~radio
    /\ Return(observed)
    /\ UNCHANGED <<systemCode, failed>>

\* The tag in the field answers a FeliCa poll with the current system code.
Answers ==
    /\ field # NoTag
    /\ Kind[field] = "transit" \/ (Kind[field] = "felica" /\ systemCode = "wildcard")

FelicaFound ==
    /\ pc = "felica" /\ radio /\ Answers
    /\ Return([observed EXCEPT !.tag = field])
    /\ UNCHANGED <<systemCode, failed>>

\* A reader that stays with the transit system code.
FelicaNotFound_NoAlternation ==
    /\ pc = "felica" /\ radio /\ ~Answers
    /\ Continue("typeA", observed)
    /\ UNCHANGED <<systemCode, link, trying, failed>>

\* No target: the next FeliCa poll uses the other system code.
FelicaNotFound ==
    /\ pc = "felica" /\ radio /\ ~Answers
    /\ systemCode' = IF systemCode = "transit" THEN "wildcard" ELSE "transit"
    /\ Continue("typeA", observed)
    /\ UNCHANGED <<link, trying, failed>>

\* The FeliCa poll failed: the system code is kept and Type A is tried.
FelicaError ==
    /\ pc = "felica" /\ radio /\ ~calm
    /\ Continue("typeA", observed)
    /\ Failure("felica")
    /\ UNCHANGED <<systemCode, link, trying>>

\* A reader that takes a failing Type A poll for one that found nothing.
TypeAError_NotFound ==
    /\ pc = "typeA" /\ ~calm
    /\ Return(observed)
    /\ UNCHANGED <<systemCode, failed>>

\* The Type A poll failed and so does the observation: app_main skips the
\* comparison and keeps current.
TypeAError ==
    /\ pc = "typeA" /\ ~calm
    /\ pc' = IF caller = "scan" THEN "receive" ELSE "clock"
    /\ caller' = "scan" /\ observed' = NoCard /\ present' = {} /\ failed' = {}
    /\ UNCHANGED <<systemCode, link, trying>>
    /\ ReaderFrame

TypeA == field # NoTag /\ Kind[field] \notin FelicaKinds

\* A reader that takes the previous target for the one it did not find.
TypeANotFound_Stale ==
    /\ pc = "typeA" /\ ~TypeA
    /\ Return([observed EXCEPT !.tag = current.tag])
    /\ UNCHANGED <<systemCode, failed>>

TypeANotFound ==
    /\ pc = "typeA" /\ ~TypeA
    /\ Return(observed)
    /\ UNCHANGED <<systemCode, failed>>

\* A tag whose UID is not 4 bytes long is no card.
TypeAFound ==
    /\ pc = "typeA" /\ TypeA
    /\ IF Kind[field] = "longUid"
       THEN Return(observed)
       ELSE /\ Continue("authenticate", [observed EXCEPT !.tag = field])
            /\ link' = "selected" /\ trying' = "aime"
    /\ UNCHANGED <<systemCode, failed>>

-----------------------------------------------------------------------------
(* read_mifare_with_key: authenticate, block 1, block 2.                   *)

\* The tag in the field has the UID and the key of the command.
Authenticates(key, uid) == field = uid /\ Kind[uid] = key /\ key \in keys

\* A command of read_mifare_with_key failed.  After the Aime key the blocks are
\* cleared and the Banapass key is tried; after that the error is ignored, and the
\* block that may have been read stays.
ReadFailed ==
    IF trying = "aime"
    THEN /\ Continue("authenticate", [observed EXCEPT !.block1 = NoTag, !.block2 = NoTag,
                                                      !.has_blocks = FALSE])
         /\ trying' = "bana"
         /\ link' = IF link = "none" THEN "none" ELSE "selected"
    ELSE Return(observed)

\* pn532_mifare_authenticate with the UID of the target.  A tag that has left the field
\* and come back has not been polled since and may refuse.
Authenticate ==
    /\ pc = "authenticate"
    /\ \/ /\ Authenticates(trying, observed.tag)
          /\ Continue("block1", observed)
          /\ link' = "open"
          /\ UNCHANGED <<trying, failed>>
       \/ /\ Authenticates(trying, observed.tag) /\ (~calm \/ link = "none")
          /\ ReadFailed
          /\ Failure("read")
       \/ /\ ~Authenticates(trying, observed.tag)
          /\ ReadFailed
          /\ UNCHANGED failed
    /\ UNCHANGED systemCode

\* pn532_mifare_read_block failed: a fault, or the tag has left.
BlockFails ==
    /\ ~calm \/ link # "open"
    /\ ReadFailed
    /\ Failure("read")

\* pn532_mifare_read_block of block 1.
ReadBlock1 ==
    /\ pc = "block1"
    /\ \/ /\ link = "open"
          /\ Continue("block2", [observed EXCEPT !.block1 = field])
          /\ UNCHANGED <<link, trying, failed>>
       \/ BlockFails
    /\ UNCHANGED systemCode

\* pn532_mifare_read_block of block 2: the card has its blocks, and behind the Aime
\* key its LUID, which is a part of block 2.
ReadBlock2 ==
    /\ pc = "block2"
    /\ \/ /\ link = "open"
          /\ Return([observed EXCEPT !.block2 = field, !.has_blocks = TRUE,
                                     !.luid = IF trying = "aime" THEN field ELSE @])
          /\ UNCHANGED failed
       \/ BlockFails
    /\ UNCHANGED systemCode

reader_read_card ==
    \/ RadioOff \/ FelicaFound \/ FelicaNotFound \/ FelicaError
    \/ TypeAError \/ TypeANotFound \/ TypeAFound
    \/ Authenticate \/ ReadBlock1 \/ ReadBlock2

-----------------------------------------------------------------------------
(* send_hid: wait for the endpoint for 100 ms, then give up.  Its result   *)
(* is ignored by every caller.                                             *)

SendLabel(i, report) ==
    IF report.kind = "response" THEN "clock"
    ELSE IF i = "PRHP" THEN "publishCardio" ELSE "receive"

\* The report is in the endpoint.
Sent(i, report) ==
    /\ mounted /\ endpoint[i] = <<>>
    /\ endpoint' = [endpoint EXCEPT ![i] = <<report>>]
    /\ IF report.kind = "signal"
       THEN missed' = FALSE
       ELSE UNCHANGED missed

\* What the host holds once it has fetched the PRHP endpoint.
HostWillHold ==
    IF endpoint["PRHP"] # <<>> /\ Head(endpoint["PRHP"]).kind = "signal"
    THEN Head(endpoint["PRHP"]).card
    ELSE host

\* Not mounted, no room within 100 ms, or TinyUSB refused the report.
Lost(i, report) ==
    /\ ~mounted \/ ~calm
    /\ missed' = IF report.kind = "signal" THEN CardState(current) # HostWillHold ELSE missed
    /\ UNCHANGED endpoint

send_hid(i, report) ==
    /\ Sent(i, report) \/ Lost(i, report)
    /\ pc' = SendLabel(i, report)
    /\ reply' = NoReply
    /\ UNCHANGED <<caller, due, observed, trying, current, readerState, messages, mounted,
                   nfc, calm, host, present, failed, held>>

SendReply == pc = "reply" /\ send_hid("PRHP", reply)
PublishPrhp == pc = "publishPrhp" /\ send_hid("PRHP", Signal(current))
PublishCardio == pc = "publishCardio" /\ send_hid("CARDIO", CardioReport(current))

mainTask ==
    \/ ReceiveHid \/ ReceiveRadio \/ ReceiveSetKey \/ ReceivePoll \/ ReceiveTimeout
    \/ Clock \/ Compare \/ reader_read_card
    \/ SendReply \/ PublishPrhp \/ PublishCardio

-----------------------------------------------------------------------------
(* The USB task and the world outside.                                     *)

\* tud_hid_set_report_cb and cdc_receive_callback: a full queue drops.
UsbReceive ==
    /\ mounted
    /\ Len(messages) < QueueCap
    /\ \E m \in Incoming : messages' = Append(messages, m)
    /\ UNCHANGED <<task, readerState, endpoint, mounted, nfc, calm, host, history>>

\* The host fetches the report of an IN endpoint; Session.latest follows PRHP.
HostFetch(i) ==
    /\ mounted /\ endpoint[i] # <<>>
    /\ endpoint' = [endpoint EXCEPT ![i] = <<>>]
    /\ host' = IF Head(endpoint[i]).kind = "signal" THEN Head(endpoint[i]).card ELSE host
    /\ UNCHANGED <<task, readerState, messages, mounted, nfc, calm, history>>

Mount ==
    /\ ~mounted
    /\ mounted' = TRUE
    /\ UNCHANGED <<task, readerState, messages, endpoint, nfc, calm, host, history>>

\* The endpoints are reset and the host's session ends: its card is NONE.
Unmount ==
    /\ mounted /\ ~calm
    /\ mounted' = FALSE
    /\ endpoint' = [i \in Interfaces |-> <<>>]
    /\ host' = NoCard
    /\ missed' = (CardState(current) # NoCard)
    /\ UNCHANGED <<task, readerState, messages, nfc, calm, present, failed, held>>

\* The service of the host gives its session up, after an error or a timeout or because
\* it was started anew, and the next session begins with no card.
HostRestart ==
    /\ mounted /\ ~calm /\ host # NoCard
    /\ host' = NoCard
    /\ UNCHANGED <<task, readerState, usb, nfc, calm, present, failed, held>>
    /\ missed' = (CardState(current) # HostWillHold')

ReadLabels == {"authenticate", "block1", "block2"}
ObservationLabels == {"felica", "typeA", "compare"} \cup ReadLabels

\* A tag is put on the antenna, removed, or swapped for another one.
MoveTag ==
    /\ ~calm
    /\ \E t \in (Tags \cup {NoTag}) \ {field} :
        /\ field' = t
        /\ present' = IF pc \in ObservationLabels /\ caller = "scan"
                      THEN present \cup {t} ELSE {}
    /\ link' = "none"
    /\ held' = FALSE /\ failed' = {}
    /\ UNCHANGED <<task, readerState, usb, calm, host, missed>>

\* From here on nothing outside goes wrong.
Calm ==
    /\ ~calm
    /\ calm' = TRUE
    /\ UNCHANGED <<task, readerState, usb, nfc, host, history>>

environment ==
    \/ Tick \/ UsbReceive \/ Mount \/ Unmount \/ HostRestart \/ MoveTag \/ Calm
    \/ \E i \in Interfaces : HostFetch(i)

Next == mainTask \/ environment

(* The main task always runs on, time passes, and once the world is calm the *)
(* cable is plugged in and the host fetches what the endpoints hold.  No     *)
(* message ever has to arrive, and a stream of them may never end.           *)
Fairness ==
    /\ WF_vars(mainTask)
    /\ WF_vars(Tick)
    /\ WF_vars(calm /\ Mount)
    /\ \A i \in Interfaces : WF_vars(calm /\ HostFetch(i))

Spec == Init /\ [][Next]_vars /\ Fairness

-----------------------------------------------------------------------------
(* Properties.                                                             *)

Source == Tags \cup {NoTag}
CardType == [tag : Source, block1 : Source, block2 : Source, has_blocks : BOOLEAN,
             luid : Source]

\* The variables of the main task, the reader layer and the USB queue.
TypeOK ==
    /\ pc \in {"receive", "reply", "clock", "publishPrhp", "publishCardio"} \cup ObservationLabels
    /\ caller \in {"scan", "sega"}
    /\ {due, radio, mounted, calm, missed, held} \subseteq BOOLEAN
    /\ trying \in Keys /\ link \in {"none", "selected", "open"}
    /\ failed \subseteq {"felica", "read"}
    /\ {observed, current, host} \subseteq CardType
    /\ keys \subseteq Keys
    /\ systemCode \in {"transit", "wildcard"}
    /\ messages \in Seq(Incoming) /\ Len(messages) <= QueueCap
    /\ {field} \cup present \subseteq Source
    /\ \A i \in Interfaces : Len(endpoint[i]) <= 1
    /\ reply = NoReply \/ reply.kind = "response"

\* A card the firmware publishes was on the antenna during the observation
\* that found it: a stale target of an earlier poll is never reported, though
\* tags are swapped between the commands of one observation.
NoStaleCard ==
    pc = "compare" /\ observed.tag # NoTag => observed.tag \in present

\* Blocks and LUID are of the tag whose identity the card shows, and a card has both
\* blocks or is not said to have any: a tag swapped for another one, even of the same
\* kind, between two of the five or more commands of an observation, a read that fails
\* half way, or an earlier observation leave nothing in it.
BlocksAreTheCards ==
    \A card \in {observed, current, host} :
        /\ {card.block1, card.block2, card.luid} \subseteq {card.tag, NoTag}
        /\ card.has_blocks => card.block1 = card.tag /\ card.block2 = card.tag
        /\ card.luid # NoTag => card.has_blocks

\* A tag that has stayed on the antenna since current was observed, alone, is observed
\* again: a failing Type A poll does not end in an observation that lacks it, and a
\* failing FeliCa poll loses it only if it is a FeliCa card.  Its blocks, if it had
\* them, are missing or different only if one of this scan's own reads failed.  An
\* empty antenna stays empty.
HeldCardIsKept ==
    pc = "compare" /\ held /\ radio =>
        /\ \/ observed.tag = current.tag
           \/ "felica" \in failed /\ Kind[current.tag] \in FelicaKinds
        /\ current.has_blocks /\ Kind[current.tag] \in keys =>
               observed = current \/ "read" \in failed

\* Every transition reaches the host unless a send failed or the host
\* reconnected since: the card the host holds, or will hold when it has
\* fetched the endpoint, is the firmware's current card.
NoSilentDivergence ==
    ~missed /\ pc # "publishPrhp" => HostWillHold = CardState(current)

\* What an observation of the field yields when nothing goes wrong.
Expected ==
    LET read == [tag |-> field, block1 |-> field, block2 |-> field, has_blocks |-> TRUE,
                 luid |-> IF Kind[field] = "aime" THEN field ELSE NoTag]
    IN CASE field = NoTag \/ Kind[field] = "longUid" -> NoCard
         [] field # NoTag /\ Kind[field] \in FelicaKinds \cup {"unsupported"} -> Card(field)
         [] OTHER -> read

\* A tag that stays on the antenna is found and stays found, whatever SEGA
\* polls run in between (they share felica_system_code with the scans), and the
\* host ends up with it, if no report was lost.
HeldCardIsDelivered ==
    <>[](calm /\ radio /\ keys = Keys /\ ~missed) => <>[](host = CardState(Expected))

\* A scan that is due runs, though the message queue may never be empty.
ScansAreNotStarved == due ~> (pc = "felica" /\ caller = "scan")

\* "card removal is sent once as an empty state", "a newly observed card is
\* sent once" (README.md): when the world is calm the PRHP host gets to hold
\* what the firmware observes.
HostLearns == <>[](calm /\ radio /\ keys = Keys) => <>[](host = CardState(Expected))
=============================================================================
