--------------------------- MODULE Firmware_proofs ---------------------------
(***************************************************************************)
(* Proofs about module Firmware, for any set of tags, any messages of the  *)
(* hosts and any capacity of the queue.                                    *)
(***************************************************************************)
EXTENDS Firmware, SequenceTheorems, TLAPS

(* The inductive invariant.                                                *)

\* What the IN endpoint of each interface may hold.
Signals == [kind : {"signal"}, card : CardType]
Report(i, report) ==
    IF i = "PRHP" THEN report.kind = "response" \/ report \in Signals
                  ELSE report.kind = "cardio"

EndpointInv ==
    /\ DOMAIN endpoint = Interfaces
    /\ \A i \in Interfaces :
        endpoint[i] # <<>> => Len(endpoint[i]) = 1 /\ Report(i, Head(endpoint[i]))

\* A reply is at hand where it is sent.
ReplyInv == pc = "reply" => reply # NoReply

\* A card of which block 1 has been read.
Half(tag) == [Card(tag) EXCEPT !.block1 = tag]

\* What an observation under way has got so far: the tag it has seen in the field, and
\* of that tag's blocks exactly those it has read.  Otherwise nothing is left over.
ObservationInv ==
    /\ pc \in ObservationLabels /\ caller = "scan" => field \in present
    /\ pc = "compare" => caller = "scan"
    /\ pc \notin ReadLabels \cup {"compare"} => observed = NoCard
    /\ pc \in ReadLabels =>
        /\ observed.tag \in Tags /\ Kind[observed.tag] \in MifareKinds
        /\ caller = "scan" => observed.tag \in present
    /\ pc \in {"authenticate", "block1"} => observed = Card(observed.tag)
    /\ pc = "block2" => observed = Half(observed.tag)
    /\ pc = "compare" /\ observed.tag # NoTag /\ Kind[observed.tag] = "felica"
        => systemCode = "wildcard"

\* While blocks can be read they are those of the observed tag, opened with its key.
LinkInv ==
    link = "open" /\ pc \in {"block1", "block2"} => field = observed.tag /\ Kind[field] = trying

\* A held tag is in the field and answers the system code in use, so that the FeliCa poll
\* finds it unless it fails; a scan that has come to the Banapass key, though the tag has
\* the Aime key, has had a failure.
HeldInv ==
    /\ held => field = current.tag
    /\ held /\ field # NoTag /\ Kind[field] = "felica" => systemCode = "wildcard"
    /\ held /\ caller = "scan" /\ pc = "typeA" /\ field # NoTag /\ Kind[field] \in FelicaKinds
        => "felica" \in failed
    /\ held /\ caller = "scan" /\ pc \in ReadLabels =>
        /\ observed.tag = field
        /\ trying = "bana" /\ Kind[field] = "aime" /\ "aime" \in keys => "read" \in failed

\* A card that has its blocks, and what else is known of any card.
Full(tag) == [tag |-> tag, block1 |-> tag, block2 |-> tag, has_blocks |-> TRUE,
              luid |-> IF Kind[tag] = "aime" THEN tag ELSE NoTag]
CardInv(card) ==
    /\ card.tag # NoTag => Kind[card.tag] # "longUid"
    /\ card.has_blocks => card.tag \in Tags /\ card = Full(card.tag)

\* HeldCardIsKept for a card that an observation with these failures yields.
Kept(card, failures) ==
    /\ \/ card.tag = current.tag
       \/ "felica" \in failures /\ Kind[current.tag] \in FelicaKinds
    /\ current.has_blocks /\ Kind[current.tag] \in keys => card = current \/ "read" \in failures

\* The data of a card is of its tag, as BlocksAreTheCards has it.
OwnData(card) ==
    /\ {card.block1, card.block2, card.luid} \subseteq {card.tag, NoTag}
    /\ card.has_blocks => card.block1 = card.tag /\ card.block2 = card.tag
    /\ card.luid # NoTag => card.has_blocks

\* And so it is for the card on its way to the host.
SignalInv ==
    endpoint["PRHP"] # <<>> /\ Head(endpoint["PRHP"]).kind = "signal"
        => OwnData(Head(endpoint["PRHP"]).card)

UsbInv == EndpointInv /\ SignalInv /\ NoSilentDivergence

ScanInv ==
    /\ ObservationInv /\ LinkInv /\ HeldInv /\ CardInv(observed) /\ CardInv(current)
    /\ NoStaleCard /\ HeldCardIsKept

IInv == TypeOK /\ ReplyInv /\ ScanInv /\ BlocksAreTheCards /\ UsbInv

-----------------------------------------------------------------------------
(* Cards, messages and reports.                                            *)

LEMMA NoCardFacts ==
    /\ NoCard \in CardType /\ NoCard.tag = NoTag /\ ~NoCard.has_blocks
    /\ OwnData(NoCard) /\ CardInv(NoCard)
  BY DEF NoCard, CardType, Source, OwnData, CardInv

\* A card that loses its blocks, or gets its second one.
Cleared(card) == [card EXCEPT !.block1 = NoTag, !.block2 = NoTag, !.has_blocks = FALSE]
Completed(card, tag, luid) ==
    [card EXCEPT !.block2 = tag, !.has_blocks = TRUE, !.luid = luid]

LEMMA SameCard ==
    ASSUME NEW c \in CardType, NEW d \in CardType, c.tag = d.tag, c.block1 = d.block1,
           c.block2 = d.block2, c.has_blocks = d.has_blocks, c.luid = d.luid
    PROVE  c = d
  BY DEF CardType

LEMMA CardFacts ==
    ASSUME NEW tag \in Source
    PROVE  /\ Card(tag) \in CardType /\ Card(tag).tag = tag /\ OwnData(Card(tag))
           /\ ~Card(tag).has_blocks /\ Cleared(Card(tag)) = Card(tag)
<1>1. /\ Card(tag) \in CardType /\ Card(tag).tag = tag /\ Card(tag).block1 = NoTag
      /\ Card(tag).block2 = NoTag /\ Card(tag).has_blocks = FALSE /\ Card(tag).luid = NoTag
  BY NoCardFacts DEF Card, NoCard, CardType
<1>2. NoTag \in Source
  BY DEF Source
<1>3. Cleared(Card(tag)) = Card(tag)
  BY <1>1, <1>2, SameCard DEF Cleared, CardType
<1> QED
  BY <1>1, <1>3 DEF OwnData

LEMMA HalfFacts ==
    ASSUME NEW tag \in Source
    PROVE  /\ Half(tag) \in CardType /\ Half(tag).tag = tag /\ OwnData(Half(tag))
           /\ ~Half(tag).has_blocks /\ Half(tag).luid = NoTag /\ Cleared(Half(tag)) = Card(tag)
<1>1. /\ Card(tag) \in CardType /\ Card(tag).tag = tag /\ Card(tag).block1 = NoTag
      /\ Card(tag).block2 = NoTag /\ Card(tag).has_blocks = FALSE /\ Card(tag).luid = NoTag
  BY NoCardFacts DEF Card, NoCard, CardType
<1>2. /\ Half(tag) \in CardType /\ Half(tag).tag = tag /\ Half(tag).block1 = tag
      /\ Half(tag).block2 = NoTag /\ Half(tag).has_blocks = FALSE /\ Half(tag).luid = NoTag
  BY <1>1 DEF Half, CardType
<1>3. NoTag \in Source
  BY DEF Source
<1>4. Cleared(Half(tag)) = Card(tag)
  BY <1>1, <1>2, <1>3, SameCard DEF Cleared, CardType
<1> QED
  BY <1>2, <1>4 DEF OwnData

LEMMA FullFacts ==
    ASSUME NEW tag \in Tags
    PROVE  /\ Full(tag) \in CardType /\ Full(tag).tag = tag /\ OwnData(Full(tag))
           /\ Full(tag) = Completed(Half(tag), tag, IF Kind[tag] = "aime" THEN tag ELSE NoTag)
<1>1. tag \in Source /\ NoTag \in Source
  BY DEF Source
<1>2. /\ Half(tag) \in CardType /\ Half(tag).tag = tag /\ Half(tag).block1 = tag
  <2>1. Card(tag) \in CardType /\ Card(tag).tag = tag
    BY <1>1, CardFacts
  <2> QED
    BY <1>1, <2>1 DEF Half, CardType
<1>3. Full(tag) \in CardType /\ Full(tag).tag = tag /\ OwnData(Full(tag))
  BY <1>1 DEF Full, CardType, OwnData
<1>4. ASSUME NEW luid \in Source
      PROVE  LET card == Completed(Half(tag), tag, luid)
             IN  /\ card \in CardType /\ card.tag = tag /\ card.block1 = tag
                 /\ card.block2 = tag /\ card.has_blocks = TRUE /\ card.luid = luid
  BY <1>1, <1>2 DEF Completed, CardType
<1>5. Full(tag) = Completed(Half(tag), tag, IF Kind[tag] = "aime" THEN tag ELSE NoTag)
  <2> DEFINE luid == IF Kind[tag] = "aime" THEN tag ELSE NoTag
  <2>1. luid \in Source /\ Full(tag).luid = luid
    BY <1>1 DEF Full
  <2>2. /\ Full(tag).block1 = tag /\ Full(tag).block2 = tag /\ Full(tag).has_blocks = TRUE
    BY DEF Full
  <2> HIDE DEF luid
  <2>3. Full(tag) = Completed(Half(tag), tag, luid)
    <3> DEFINE card == Completed(Half(tag), tag, luid)
    <3>1. /\ card \in CardType /\ card.tag = tag /\ card.block1 = tag
          /\ card.block2 = tag /\ card.has_blocks = TRUE /\ card.luid = luid
      BY <1>4, <2>1
    <3> HIDE DEF card
    <3>2. Full(tag) = card
      BY <1>3, <2>1, <2>2, <3>1, SameCard
    <3> QED
      BY <3>2 DEF card
  <2> QED
    BY <2>3 DEF luid
<1> QED
  BY <1>3, <1>5

\* prhp_publish_card_state publishes the card, its identity, or NONE.
LEMMA CardStateFacts ==
    ASSUME NEW card \in CardType, OwnData(card)
    PROVE  CardState(card) \in CardType /\ OwnData(CardState(card))
<1>1. card.tag \in Source
  BY DEF CardType
<1>2. CASE Mifare(card) /\ ~card.has_blocks
  BY <1>2, NoCardFacts DEF CardState
<1>3. CASE Mifare(card) /\ card.has_blocks
  BY <1>3 DEF CardState
<1>4. CASE ~Mifare(card)
  BY <1>1, <1>4, CardFacts DEF CardState
<1> QED
  BY <1>2, <1>3, <1>4

\* The message at the head of the queue.
LEMMA QueueHead ==
    ASSUME TypeOK, messages # <<>>
    PROVE  /\ Head(messages) \in Message
           /\ Tail(messages) \in Seq(Incoming) /\ Len(Tail(messages)) <= QueueCap
<1>1. messages \in Seq(Incoming) /\ Len(messages) <= QueueCap
  BY DEF TypeOK
<1>2. Head(messages) \in Incoming /\ Tail(messages) \in Seq(Incoming)
      /\ Len(Tail(messages)) = Len(messages) - 1
  BY <1>1
<1>3. Len(messages) \in Nat /\ QueueCap \in Nat
  BY <1>1, QueueAssumption
<1> QED
  BY <1>1, <1>2, <1>3, MessageAssumption

LEMMA SetKeyFacts ==
    ASSUME NEW m \in Message, m.type = "CDC", m.data.command = "SET_KEY"
    PROVE  m.data.key \in Keys
  BY DEF Message, SegaCommand

LEMMA ReplyFacts ==
    ASSUME NEW m
    PROVE  Reply(m) = NoReply \/ (Reply(m) # NoReply /\ Reply(m).kind = "response")
  BY DEF Reply, NoReply

-----------------------------------------------------------------------------
(* The parts of the state: a step that leaves the endpoints, the cards or  *)
(* the observation alone keeps what is said of them.                       *)

LEMMA UsbFrame ==
    ASSUME UsbInv, UNCHANGED <<endpoint, host, current, missed>>,
           pc # "publishPrhp", pc' # "publishPrhp"
    PROVE  UsbInv'
  BY DEF UsbInv, EndpointInv, SignalInv, NoSilentDivergence, HostWillHold

LEMMA ScanFrame ==
    ASSUME ScanInv, UNCHANGED <<observed, current, systemCode, field, held>>,
           pc \notin ObservationLabels, pc' \notin ObservationLabels
    PROVE  ScanInv'
<1>1. ObservationInv' /\ LinkInv' /\ NoStaleCard' /\ HeldCardIsKept'
  BY DEF ScanInv, ObservationInv, LinkInv, NoStaleCard, HeldCardIsKept, ObservationLabels,
      ReadLabels
<1>2. HeldInv'
  BY DEF ScanInv, HeldInv, ObservationLabels, ReadLabels
<1>3. CardInv(observed)' /\ CardInv(current)'
  BY DEF ScanInv, CardInv, Full
<1> QED
  BY <1>1, <1>2, <1>3 DEF ScanInv

LEMMA BlocksFrame ==
    ASSUME BlocksAreTheCards, UNCHANGED <<current, host>>,
           observed' = observed \/ OwnData(observed')
    PROVE  BlocksAreTheCards'
  BY DEF BlocksAreTheCards, OwnData

LEMMA CardsKept ==
    ASSUME CardInv(current), current' = current
    PROVE  CardInv(current)'
  BY DEF CardInv, Full

-----------------------------------------------------------------------------
(* app_main's loop.                                                        *)

\* An observation begins.
LEMMA ReadCardStep ==
    ASSUME IInv, NEW who \in {"scan", "sega"}, ReadCard(who),
           pc \in {"receive", "clock"},
           messages' \in Seq(Incoming), Len(messages') <= QueueCap, due' \in BOOLEAN,
           UNCHANGED <<trying, current, reply, readerState, endpoint, mounted, nfc, calm, host,
                       missed, failed, held>>
    PROVE  IInv'
<1>1. /\ pc' = "felica" /\ caller' = who /\ observed' = NoCard
      /\ present' = IF who = "scan" THEN {field} ELSE {}
  BY DEF ReadCard
<1>2. TypeOK'
  BY <1>1, NoCardFacts DEF IInv, TypeOK, readerState, nfc, ObservationLabels
<1>3. ReplyInv' /\ ObservationInv' /\ LinkInv' /\ NoStaleCard' /\ HeldCardIsKept'
  BY <1>1 DEF ReplyInv, ObservationInv, LinkInv, NoStaleCard, HeldCardIsKept, ReadLabels, nfc
<1>4. HeldInv'
  BY <1>1 DEF IInv, ScanInv, HeldInv, ReadLabels, nfc, readerState
<1>5. CardInv(observed)' /\ CardInv(current)'
  <2>1. CardInv(current)'
    BY CardsKept DEF IInv, ScanInv
  <2> QED
    BY <1>1, <2>1 DEF CardInv, NoCard
<1>6. UsbInv'
  BY <1>1, UsbFrame DEF IInv
<1>7. BlocksAreTheCards'
  BY <1>1, NoCardFacts, BlocksFrame DEF IInv
<1> QED
  BY <1>2, <1>3, <1>4, <1>5, <1>6, <1>7 DEF IInv, ScanInv

\* A message is handled, or none has come, or no observation is due.
LEMMA ReceiveStep ==
    ASSUME IInv, pc \in {"receive", "clock"}, pc' \in {"receive", "clock", "reply"},
           messages' \in Seq(Incoming), Len(messages') <= QueueCap,
           reply' = NoReply \/ reply'.kind = "response", pc' = "reply" => reply' # NoReply,
           radio' \in BOOLEAN, keys' \subseteq Keys,
           UNCHANGED <<caller, due, observed, trying, current, systemCode, endpoint, mounted, nfc,
                       calm, host, history>>
    PROVE  IInv'
<1>1. TypeOK'
  BY DEF IInv, TypeOK, nfc, history
<1>2. ReplyInv'
  BY DEF ReplyInv
<1>3. ScanInv'
  BY ScanFrame DEF IInv, nfc, history, ObservationLabels, ReadLabels
<1>4. UsbInv'
  BY UsbFrame DEF IInv, history
<1>5. BlocksAreTheCards'
  BY BlocksFrame DEF IInv
<1> QED
  BY <1>1, <1>2, <1>3, <1>4, <1>5 DEF IInv

LEMMA LoopStep ==
    ASSUME IInv,
           ReceiveHid \/ ReceiveRadio \/ ReceiveSetKey \/ ReceivePoll \/ ReceiveTimeout \/ Clock
    PROVE  IInv'
<1>0. /\ TypeOK /\ messages \in Seq(Incoming) /\ Len(messages) <= QueueCap
      /\ due \in BOOLEAN /\ radio \in BOOLEAN /\ keys \subseteq Keys
      /\ reply = NoReply \/ reply.kind = "response"
  BY DEF IInv, TypeOK
<1>1. CASE ReceiveHid
  <2>1. \/ reply' = NoReply
        \/ reply' # NoReply /\ reply'.kind = "response"
    BY <1>1, ReplyFacts DEF ReceiveHid
  <2> QED
    BY <1>0, <1>1, <2>1, QueueHead, ReceiveStep DEF ReceiveHid, readerState
<1>2. CASE ReceiveRadio
  <2>1. radio' \in BOOLEAN
    BY <1>0, <1>2 DEF ReceiveRadio, reader_radio_set
  <2> QED
    BY <1>0, <1>2, <2>1, QueueHead, ReceiveStep DEF ReceiveRadio
<1>3. CASE ReceiveSetKey
  <2>1. keys' \subseteq Keys
    BY <1>0, <1>3, QueueHead, SetKeyFacts DEF ReceiveSetKey, reader_mifare_set_key
  <2> QED
    BY <1>0, <1>3, <2>1, QueueHead, ReceiveStep DEF ReceiveSetKey
<1>4. CASE ReceivePoll
  BY <1>0, <1>4, QueueHead, ReadCardStep DEF ReceivePoll
<1>5. CASE ReceiveTimeout
  BY <1>0, <1>5, ReceiveStep DEF ReceiveTimeout, readerState, usb
<1>6. CASE Clock
  <2>1. CASE due' = FALSE /\ ReadCard("scan")
    BY <1>0, <1>6, <2>1, ReadCardStep DEF Clock, usb
  <2>2. CASE pc' = "receive" /\ UNCHANGED <<caller, due, observed, present>>
    BY <1>0, <1>6, <2>2, ReceiveStep DEF Clock, usb, readerState, history
  <2> QED
    BY <1>6, <2>1, <2>2 DEF Clock
<1> QED
  BY <1>1, <1>2, <1>3, <1>4, <1>5, <1>6

\* The observation is compared with current: one that differs is to be published.
LEMMA CompareStep ==
    ASSUME IInv, Compare
    PROVE  IInv'
<1>1. /\ pc = "compare" /\ pc' = IF observed = current THEN "receive" ELSE "publishPrhp"
      /\ current' = observed /\ observed' = NoCard /\ present' = {} /\ failed' = {}
      /\ held' = (present = {observed.tag})
      /\ UNCHANGED <<caller, due, trying, reply, readerState, usb, nfc, calm, host, missed>>
  BY DEF Compare
<1>2. TypeOK'
  BY <1>1, NoCardFacts DEF IInv, TypeOK, readerState, usb, nfc, ObservationLabels
<1>3. ReplyInv' /\ ObservationInv' /\ LinkInv' /\ NoStaleCard' /\ HeldCardIsKept'
  BY <1>1 DEF ReplyInv, ObservationInv, LinkInv, NoStaleCard, HeldCardIsKept,
      ObservationLabels, ReadLabels
<1>4. HeldInv'
  <2>1. field \in present /\ (observed.tag # NoTag /\ Kind[observed.tag] = "felica"
                                => systemCode = "wildcard")
    BY <1>1 DEF IInv, ScanInv, ObservationInv, ObservationLabels
  <2>2. held' => field = observed.tag
    BY <1>1, <2>1
  <2> QED
    BY <1>1, <2>1, <2>2 DEF HeldInv, ReadLabels, nfc, readerState
<1>5. CardInv(observed)' /\ CardInv(current)'
  BY <1>1 DEF IInv, ScanInv, CardInv, Full, NoCard
<1>6. EndpointInv' /\ SignalInv'
  BY <1>1 DEF IInv, UsbInv, EndpointInv, SignalInv, usb
<1>7. NoSilentDivergence'
  BY <1>1 DEF IInv, UsbInv, NoSilentDivergence, HostWillHold, usb
<1>8. BlocksAreTheCards'
  BY <1>1, NoCardFacts DEF IInv, BlocksAreTheCards, OwnData
<1> QED
  BY <1>2, <1>3, <1>4, <1>5, <1>6, <1>7, <1>8 DEF IInv, ScanInv, UsbInv

-----------------------------------------------------------------------------
(* reader_read_card.                                                       *)

\* The labels at which a PN532 command of an observation is given.
CommandLabels == {"felica", "typeA"} \cup ReadLabels

LEMMA Returned ==
    ASSUME IInv, NEW card \in CardType, Return(card), OwnData(card), CardInv(card),
           caller = "scan" /\ card.tag # NoTag => card.tag \in present,
           card.tag # NoTag /\ Kind[card.tag] = "felica" => systemCode = "wildcard",
           caller = "scan" /\ held /\ radio => Kept(card, failed'),
           failed' \subseteq {"felica", "read"}, systemCode' = systemCode,
           pc \in CommandLabels
    PROVE  IInv'
<1>1. /\ link' = "none" /\ trying' = "aime" /\ caller' = "scan" /\ present' = present
      /\ \/ caller = "scan" /\ pc' = "compare" /\ observed' = card
         \/ pc' = "clock" /\ observed' = NoCard
      /\ UNCHANGED <<due, current, reply, radio, keys, usb, field, calm, host, missed, held>>
  BY DEF Return, ReaderFrame
<1>2. TypeOK'
  BY <1>1, NoCardFacts DEF IInv, TypeOK, usb, Keys, ObservationLabels
<1>3. ReplyInv' /\ LinkInv'
  BY <1>1 DEF ReplyInv, LinkInv
<1>4. ObservationInv' /\ NoStaleCard'
  BY <1>1 DEF IInv, ScanInv, ObservationInv, NoStaleCard, CommandLabels, ObservationLabels,
      ReadLabels
<1>5. HeldInv'
  BY <1>1 DEF IInv, ScanInv, HeldInv, ReadLabels
<1>6. HeldCardIsKept'
  BY <1>1 DEF HeldCardIsKept, Kept
<1>7. CardInv(observed)' /\ CardInv(current)'
  <2>1. CardInv(current)'
    BY <1>1, CardsKept DEF IInv, ScanInv
  <2>2. CardInv(observed')
    BY <1>1, NoCardFacts
  <2> QED
    BY <2>1, <2>2 DEF CardInv, Full
<1>8. UsbInv'
  BY <1>1, UsbFrame DEF IInv, usb, CommandLabels, ReadLabels
<1>9. BlocksAreTheCards'
  BY <1>1, NoCardFacts, BlocksFrame DEF IInv
<1> QED
  BY <1>2, <1>3, <1>4, <1>5, <1>6, <1>7, <1>8, <1>9 DEF IInv, ScanInv

LEMMA Continued ==
    ASSUME IInv, NEW label \in CommandLabels, NEW card \in CardType, Continue(label, card),
           OwnData(card), CardInv(card), ObservationInv', LinkInv', HeldInv',
           systemCode' \in {"transit", "wildcard"}, link' \in {"none", "selected", "open"},
           trying' \in Keys, failed' \subseteq {"felica", "read"},
           pc \in CommandLabels
    PROVE  IInv'
<1>1. /\ pc' = label /\ observed' = card
      /\ UNCHANGED <<caller, present, due, current, reply, radio, keys, usb, field, calm, host,
                     missed, held>>
  BY DEF Continue, ReaderFrame
<1>2. TypeOK'
  BY <1>1 DEF IInv, TypeOK, usb, CommandLabels, ObservationLabels
<1>3. ReplyInv' /\ NoStaleCard' /\ HeldCardIsKept'
  BY <1>1 DEF ReplyInv, NoStaleCard, HeldCardIsKept, CommandLabels, ReadLabels
<1>4. CardInv(observed)' /\ CardInv(current)'
  <2>1. CardInv(current)'
    BY <1>1, CardsKept DEF IInv, ScanInv
  <2> QED
    BY <1>1, <2>1 DEF CardInv, Full
<1>5. UsbInv'
  BY <1>1, UsbFrame DEF IInv, usb, CommandLabels, ReadLabels
<1>6. BlocksAreTheCards'
  BY <1>1, BlocksFrame DEF IInv
<1> QED
  BY <1>2, <1>3, <1>4, <1>5, <1>6 DEF IInv, ScanInv

\* A held card that has its blocks is read with its own key.
LEMMA HeldBlocks ==
    ASSUME IInv, current.has_blocks, Kind[current.tag] \in keys
    PROVE  /\ current.tag \in Tags /\ current.tag # NoTag /\ current = Full(current.tag)
           /\ Kind[current.tag] \in {"aime", "bana"}
  BY TagAssumption DEF IInv, TypeOK, Keys, ScanInv, CardInv

\* FeliCa cards have no blocks.
LEMMA HeldFelica ==
    ASSUME IInv, held, field # NoTag => Kind[field] \in FelicaKinds \cup {"longUid"}
    PROVE  ~(current.has_blocks /\ Kind[current.tag] \in keys)
<1>1. field = current.tag
  BY DEF IInv, ScanInv, HeldInv
<1> QED
  BY <1>1, HeldBlocks DEF FelicaKinds

LEMMA PollStep ==
    ASSUME IInv, \/ RadioOff \/ FelicaFound \/ FelicaNotFound \/ FelicaError
                 \/ TypeAError \/ TypeANotFound \/ TypeAFound
    PROVE  IInv'
<1>0. /\ systemCode \in {"transit", "wildcard"} /\ link \in {"none", "selected", "open"}
      /\ trying \in Keys /\ failed \subseteq {"felica", "read"} /\ field \in Source
  BY DEF IInv, TypeOK
<1>a. pc \in {"felica", "typeA"} /\ pc \in CommandLabels
  BY DEF RadioOff, FelicaFound, FelicaNotFound, FelicaError, TypeAError, TypeANotFound,
      TypeAFound, CommandLabels
<1>b. observed = NoCard /\ (caller = "scan" => field \in present)
  BY <1>a DEF IInv, ScanInv, ObservationInv, ReadLabels, ObservationLabels
<1>c. held => field = current.tag
  BY DEF IInv, ScanInv, HeldInv
<1>d. [observed EXCEPT !.tag = field] = Card(field)
  BY <1>b DEF Card
<1>e. FelicaKinds = {"transit", "felica"} /\ MifareKinds = {"aime", "bana", "unsupported"}
  BY DEF FelicaKinds, MifareKinds
<1>1. CASE RadioOff
  BY <1>0, <1>a, <1>b, <1>1, NoCardFacts, Returned DEF RadioOff
<1>2. CASE FelicaFound
  <2> DEFINE card == Card(field)
  <2>1. /\ field # NoTag /\ Kind[field] \in FelicaKinds
        /\ Kind[field] = "felica" => systemCode = "wildcard"
    BY <1>2, <1>e DEF FelicaFound, Answers
  <2>2. card \in CardType /\ card.tag = field /\ OwnData(card) /\ CardInv(card)
    BY <1>0, <1>e, <2>1, CardFacts DEF CardInv
  <2>3. held => Kept(card, failed')
    BY <1>c, <2>1, <2>2, HeldFelica DEF Kept
  <2>4. Return(card) /\ systemCode' = systemCode /\ failed' = failed
    BY <1>2, <1>d DEF FelicaFound
  <2> HIDE DEF card
  <2> QED
    BY <1>0, <1>a, <1>b, <2>1, <2>2, <2>3, <2>4, Returned
<1>3. CASE FelicaNotFound \/ FelicaError
  <2>1. /\ pc = "felica" /\ Continue("typeA", NoCard) /\ link' = link /\ trying' = trying
        /\ failed' \subseteq {"felica", "read"} /\ systemCode' \in {"transit", "wildcard"}
    BY <1>0, <1>3, <1>b DEF FelicaNotFound, FelicaError, Failure
  <2>2. /\ pc' = "typeA" /\ observed' = NoCard
        /\ UNCHANGED <<caller, present, due, current, reply, radio, keys, usb, field, calm, host,
                       missed, held>>
    BY <2>1 DEF Continue, ReaderFrame
  <2>3. ObservationInv' /\ LinkInv'
    BY <1>b, <2>2 DEF ObservationInv, LinkInv, ReadLabels
  <2>4. HeldInv'
    <3>1. CASE FelicaNotFound
      <4>1. ~(held /\ field # NoTag /\ Kind[field] \in FelicaKinds)
        BY <3>1, <1>e DEF FelicaNotFound, Answers, IInv, ScanInv, HeldInv
      <4> QED
        BY <1>c, <1>e, <2>2, <4>1 DEF HeldInv, ReadLabels
    <3>2. CASE FelicaError
      <4>1. systemCode' = systemCode /\ (caller = "scan" /\ held => "felica" \in failed')
        BY <3>2 DEF FelicaError, Failure
      <4> QED
        BY <2>2, <4>1 DEF IInv, ScanInv, HeldInv, ReadLabels
    <3> QED
      BY <1>3, <3>1, <3>2
  <2>5. "typeA" \in CommandLabels
    BY DEF CommandLabels
  <2> QED
    BY <1>0, <1>a, <2>1, <2>3, <2>4, <2>5, NoCardFacts, Continued
<1>5. CASE TypeAError
  <2>1. /\ pc = "typeA" /\ pc' \in {"receive", "clock"} /\ caller' = "scan"
        /\ observed' = NoCard /\ present' = {} /\ failed' = {}
        /\ UNCHANGED <<systemCode, link, trying, due, current, reply, radio, keys, usb, field,
                       calm, host, missed, held>>
    BY <1>5 DEF TypeAError, ReaderFrame
  <2>2. TypeOK'
    BY <2>1, NoCardFacts DEF IInv, TypeOK, usb
  <2>3. ReplyInv' /\ ObservationInv' /\ LinkInv' /\ NoStaleCard' /\ HeldCardIsKept'
    BY <2>1 DEF ReplyInv, ObservationInv, LinkInv, NoStaleCard, HeldCardIsKept,
        ObservationLabels, ReadLabels
  <2>4. HeldInv'
    BY <2>1 DEF IInv, ScanInv, HeldInv, ReadLabels
  <2>5. CardInv(observed)' /\ CardInv(current)'
    <3>1. CardInv(current)'
      BY <2>1, CardsKept DEF IInv, ScanInv
    <3> QED
      BY <2>1, <3>1 DEF CardInv, NoCard
  <2>6. UsbInv'
    BY <2>1, UsbFrame DEF IInv, usb
  <2>7. BlocksAreTheCards'
    BY <2>1, NoCardFacts, BlocksFrame DEF IInv
  <2> QED
    BY <2>2, <2>3, <2>4, <2>5, <2>6, <2>7 DEF IInv, ScanInv
<1>6. CASE TypeANotFound \/ (TypeAFound /\ Kind[field] = "longUid")
  <2>1. /\ pc = "typeA" /\ Return(NoCard) /\ systemCode' = systemCode /\ failed' = failed
        /\ field # NoTag => Kind[field] \in FelicaKinds \cup {"longUid"}
    BY <1>6, <1>b DEF TypeANotFound, TypeAFound, TypeA
  <2>2. caller = "scan" /\ held => Kept(NoCard, failed')
    <3>1. held => ~(current.has_blocks /\ Kind[current.tag] \in keys)
      BY <2>1, HeldFelica
    <3>2. held /\ field # NoTag => Kind[field] # "longUid"
      BY <1>c DEF IInv, ScanInv, CardInv
    <3>3. caller = "scan" /\ held /\ field # NoTag => "felica" \in failed
      BY <2>1, <3>2 DEF IInv, ScanInv, HeldInv
    <3> QED
      BY <1>c, <2>1, <3>1, <3>2, <3>3, NoCardFacts DEF Kept
  <2> QED
    BY <1>0, <1>a, <2>1, <2>2, NoCardFacts, Returned
<1>7. CASE TypeAFound /\ Kind[field] # "longUid"
  <2> DEFINE card == Card(field)
  <2>1. /\ pc = "typeA" /\ Continue("authenticate", card) /\ link' = "selected"
        /\ trying' = "aime" /\ systemCode' = systemCode /\ failed' = failed
        /\ field # NoTag /\ Kind[field] \notin FelicaKinds
    BY <1>7, <1>d DEF TypeAFound, TypeA
  <2>2. /\ card \in CardType /\ card.tag = field /\ OwnData(card) /\ CardInv(card)
        /\ card = Card(card.tag)
    BY <1>0, <1>7, CardFacts DEF CardInv
  <2>3. field \in Tags /\ Kind[field] \in MifareKinds
    BY <1>0, <1>7, <2>1, TagAssumption DEF Source, Kinds
  <2>4. "authenticate" \in CommandLabels
    BY DEF CommandLabels, ReadLabels
  <2> HIDE DEF card
  <2>5. /\ pc' = "authenticate" /\ observed' = card
        /\ UNCHANGED <<caller, present, due, current, reply, radio, keys, usb, field, calm, host,
                       missed, held>>
    BY <2>1 DEF Continue, ReaderFrame
  <2>6. ObservationInv'
    BY <1>b, <2>2, <2>3, <2>5 DEF ObservationInv, ReadLabels, Card, NoCard
  <2>7. LinkInv' /\ HeldInv'
    BY <2>1, <2>2, <2>5 DEF IInv, ScanInv, LinkInv, HeldInv, ReadLabels
  <2> QED
    BY <1>0, <1>a, <2>1, <2>2, <2>4, <2>6, <2>7, Continued DEF Keys
<1> QED
  BY <1>1, <1>2, <1>3, <1>5, <1>6, <1>7

\* What is known where a command of read_mifare_with_key is given.
LEMMA Reading ==
    ASSUME IInv, pc \in ReadLabels
    PROVE  /\ observed \in CardType /\ OwnData(observed) /\ CardInv(observed)
           /\ observed.tag \in Tags /\ observed.tag \in Source /\ observed.tag # NoTag
           /\ Kind[observed.tag] \in {"aime", "bana", "unsupported"}
           /\ pc \in CommandLabels /\ systemCode \in {"transit", "wildcard"}
           /\ link \in {"none", "selected", "open"} /\ trying \in {"aime", "bana"}
           /\ failed \subseteq {"felica", "read"} /\ keys \subseteq {"aime", "bana"}
           /\ caller = "scan" => observed.tag \in present /\ field \in present
           /\ held => field = current.tag
           /\ held /\ caller = "scan" => observed.tag = field
           /\ \/ observed = Card(observed.tag)
              \/ observed = Half(observed.tag)
<1>1. TypeOK /\ ObservationInv /\ HeldInv /\ CardInv(observed) /\ BlocksAreTheCards
  BY DEF IInv, ScanInv
<1>2. OwnData(observed)
  BY <1>1 DEF BlocksAreTheCards, OwnData
<1>3. observed \in CardType /\ pc \in CommandLabels
  BY <1>1 DEF TypeOK, CommandLabels
<1>4. /\ systemCode \in {"transit", "wildcard"}
      /\ link \in {"none", "selected", "open"} /\ trying \in {"aime", "bana"}
      /\ failed \subseteq {"felica", "read"} /\ keys \subseteq {"aime", "bana"}
  BY <1>1 DEF TypeOK, Keys
<1>5. /\ observed.tag \in Tags /\ Kind[observed.tag] \in MifareKinds
      /\ caller = "scan" => observed.tag \in present /\ field \in present
      /\ \/ observed = Card(observed.tag)
         \/ observed = Half(observed.tag)
  BY <1>1 DEF ObservationInv, ReadLabels, ObservationLabels
<1>6. (held => field = current.tag) /\ (held /\ caller = "scan" => observed.tag = field)
  BY <1>1 DEF HeldInv
<1> QED
  BY <1>1, <1>2, <1>3, <1>4, <1>5, <1>6, TagAssumption DEF MifareKinds, Source

\* read_mifare_with_key fails: because of a fault, which is recorded, or because the tag
\* does not have the key.
LEMMA ReadFailedStep ==
    ASSUME IInv, pc \in ReadLabels, ReadFailed, systemCode' = systemCode,
           Failure("read") \/ (failed' = failed /\ ~Authenticates(trying, observed.tag))
    PROVE  IInv'
<1>0. failed' \subseteq {"felica", "read"} /\ failed \subseteq failed'
  BY Reading DEF Failure
<1>1. ASSUME caller = "scan", held
      PROVE  \/ "read" \in failed'
             \/ failed' = failed /\ (Kind[field] # trying \/ trying \notin keys)
  BY <1>1, Reading DEF Failure, Authenticates
<1>2. CASE trying = "aime"
  <2> DEFINE card == Card(observed.tag)
  <2>1. [observed EXCEPT !.block1 = NoTag, !.block2 = NoTag, !.has_blocks = FALSE] = card
    BY Reading, CardFacts, HalfFacts DEF Cleared
  <2>2. /\ Continue("authenticate", card) /\ trying' = "bana"
        /\ link' = IF link = "none" THEN "none" ELSE "selected"
    BY <1>2, <2>1 DEF ReadFailed
  <2>3. card \in CardType /\ card.tag = observed.tag /\ OwnData(card) /\ CardInv(card)
    BY Reading, CardFacts DEF CardInv
  <2>4. "authenticate" \in CommandLabels /\ "bana" \in Keys
    BY DEF CommandLabels, ReadLabels, Keys
  <2>5. /\ pc' = "authenticate" /\ observed' = card
        /\ UNCHANGED <<caller, present, due, current, reply, radio, keys, usb, field, calm, host,
                       missed, held>>
    BY <2>2 DEF Continue, ReaderFrame
  <2>6. ObservationInv'
    <3>1. observed'.tag = observed.tag /\ observed' = Card(observed'.tag)
      BY <2>3, <2>5
    <3> HIDE DEF card
    <3> QED
      BY <2>5, <3>1, Reading DEF ObservationInv, ReadLabels, ObservationLabels, MifareKinds
  <2> HIDE DEF card
  <2>7. LinkInv' /\ HeldInv'
    <3>1. LinkInv'
      BY <2>5 DEF LinkInv
    <3>2. caller = "scan" /\ held /\ Kind[field] = "aime" /\ "aime" \in keys => "read" \in failed'
      BY <1>1, <1>2
    <3>3. HeldInv'
      BY <2>3, <2>5, <3>2, Reading DEF IInv, ScanInv, HeldInv, ReadLabels
    <3> QED
      BY <3>1, <3>3
  <2> QED
    BY <1>0, <2>2, <2>3, <2>4, <2>6, <2>7, Reading, Continued
<1>3. CASE trying = "bana"
  <2>1. Return(observed)
    BY <1>3 DEF ReadFailed
  <2>2. caller = "scan" /\ held => Kept(observed, failed')
    <3> SUFFICES ASSUME caller = "scan", held PROVE Kept(observed, failed')
      OBVIOUS
    <3>1. observed.tag = current.tag
      BY Reading
    <3>2. ASSUME current.has_blocks, Kind[current.tag] \in keys PROVE "read" \in failed'
      <4>1. Kind[field] \in {"aime", "bana"} /\ field = current.tag
        BY <3>2, HeldBlocks, Reading
      <4>2. Kind[field] = "aime" => "read" \in failed
        BY <1>3, <3>2, <4>1 DEF IInv, ScanInv, HeldInv
      <4> QED
        BY <1>0, <1>1, <1>3, <3>2, <4>1, <4>2
    <3> QED
      BY <3>1, <3>2 DEF Kept
  <2> QED
    BY <1>0, <2>1, <2>2, Reading, Returned
<1> QED
  BY <1>2, <1>3, Reading

LEMMA ReadStep ==
    ASSUME IInv, Authenticate \/ ReadBlock1 \/ ReadBlock2
    PROVE  IInv'
<1>0. pc \in ReadLabels /\ systemCode' = systemCode
  BY DEF Authenticate, ReadBlock1, ReadBlock2, ReadLabels
<1>1. CASE BlockFails
  BY <1>0, <1>1, ReadFailedStep DEF BlockFails
<1>2. CASE Authenticate
  <2>1. CASE \/ ReadFailed /\ Failure("read")
             \/ ReadFailed /\ failed' = failed /\ ~Authenticates(trying, observed.tag)
    BY <1>0, <2>1, ReadFailedStep
  <2>2. CASE /\ Authenticates(trying, observed.tag) /\ Continue("block1", observed)
             /\ link' = "open" /\ UNCHANGED <<trying, failed>>
    <3>1. /\ pc = "authenticate" /\ pc' = "block1" /\ observed' = observed
          /\ UNCHANGED <<caller, present, due, current, reply, radio, keys, usb, field, calm, host,
                         missed, held>>
      BY <1>2, <2>2 DEF Authenticate, Continue, ReaderFrame
    <3>2. ObservationInv'
      BY <3>1, <1>0 DEF IInv, ScanInv, ObservationInv, ReadLabels, ObservationLabels
    <3>3. LinkInv' /\ HeldInv'
      BY <1>0, <2>2, <3>1 DEF IInv, ScanInv, LinkInv, HeldInv, ReadLabels, Authenticates
    <3>4. "block1" \in CommandLabels
      BY DEF CommandLabels, ReadLabels
    <3> QED
      BY <1>0, <2>2, <3>2, <3>3, <3>4, Reading, Continued DEF Keys
  <2> QED
    BY <1>2, <2>1, <2>2 DEF Authenticate
<1>3. CASE ReadBlock1 /\ ~BlockFails
  <2> DEFINE card == Half(observed.tag)
  <2>1. /\ pc = "block1" /\ link = "open" /\ observed = Card(observed.tag)
        /\ Continue("block2", [observed EXCEPT !.block1 = field])
        /\ UNCHANGED <<link, trying, failed>> /\ field = observed.tag /\ Kind[field] = trying
    BY <1>3 DEF ReadBlock1, IInv, ScanInv, ObservationInv, LinkInv
  <2>2. Continue("block2", card)
    BY <2>1 DEF Half
  <2>3. card \in CardType /\ card.tag = observed.tag /\ OwnData(card) /\ CardInv(card)
    BY <1>0, Reading, HalfFacts DEF CardInv
  <2>4. card = Half(card.tag)
    BY <2>3
  <2> HIDE DEF card
  <2>5. /\ pc' = "block2" /\ observed' = card
        /\ UNCHANGED <<caller, present, due, current, reply, radio, keys, usb, field, calm, host,
                       missed, held>>
    BY <2>2 DEF Continue, ReaderFrame
  <2>6. ObservationInv'
    BY <1>0, <2>3, <2>4, <2>5, Reading DEF ObservationInv, ReadLabels, ObservationLabels,
        MifareKinds
  <2>7. LinkInv' /\ HeldInv'
    BY <1>0, <2>1, <2>3, <2>5 DEF IInv, ScanInv, LinkInv, HeldInv, ReadLabels
  <2>8. "block2" \in CommandLabels
    BY DEF CommandLabels, ReadLabels
  <2> QED
    BY <1>0, <2>1, <2>2, <2>3, <2>6, <2>7, <2>8, Reading, Continued DEF Keys
<1>4. CASE ReadBlock2 /\ ~BlockFails
  <2> DEFINE card == Full(observed.tag)
  <2>1. /\ pc = "block2" /\ link = "open" /\ failed' = failed
        /\ observed = Half(observed.tag)
        /\ Return([observed EXCEPT !.block2 = field, !.has_blocks = TRUE,
                                   !.luid = IF trying = "aime" THEN field ELSE @])
        /\ field = observed.tag /\ Kind[field] = trying
    BY <1>4 DEF ReadBlock2, IInv, ScanInv, ObservationInv, LinkInv
  <2>2. observed.luid = NoTag
    BY <1>0, <2>1, Reading, HalfFacts
  <2>3. card = [observed EXCEPT !.block2 = field, !.has_blocks = TRUE,
                                !.luid = IF trying = "aime" THEN field ELSE @]
    <3>1. card = Completed(observed, field, IF trying = "aime" THEN field ELSE NoTag)
      BY <1>0, <2>1, Reading, FullFacts
    <3> QED
      BY <2>2, <3>1 DEF Completed
  <2>4. /\ card \in CardType /\ card.tag = observed.tag /\ OwnData(card) /\ CardInv(card)
    BY <1>0, Reading, FullFacts DEF CardInv
  <2>5. caller = "scan" /\ held => Kept(card, failed')
    BY <1>0, <2>4, Reading, HeldBlocks DEF Kept
  <2> HIDE DEF card
  <2>6. Return(card)
    BY <2>1, <2>3
  <2> QED
    BY <1>0, <2>1, <2>4, <2>5, <2>6, Reading, Returned
<1> QED
  BY <1>1, <1>2, <1>3, <1>4

-----------------------------------------------------------------------------
(* send_hid.                                                               *)

\* A report is put into the endpoint of its interface, or lost.
LEMMA SendStep ==
    ASSUME IInv, NEW i \in Interfaces, NEW report, send_hid(i, report),
           Report(i, report), report.kind = "signal" => report = Signal(current),
           pc \in {"reply", "publishPrhp", "publishCardio"},
           pc = "publishPrhp" <=> report.kind = "signal"
    PROVE  IInv'
<1>1. /\ pc' \in {"clock", "publishCardio", "receive"} /\ reply' = NoReply
      /\ UNCHANGED <<caller, due, observed, trying, current, readerState, messages, mounted,
                     nfc, calm, host, present, failed, held>>
  BY DEF send_hid, SendLabel
<1>2. CardState(current) \in CardType /\ OwnData(CardState(current))
  <2>1. current \in CardType /\ OwnData(current)
    BY DEF IInv, TypeOK, BlocksAreTheCards, OwnData
  <2> QED
    BY <2>1, CardStateFacts
<1>3. ReplyInv' /\ ScanInv'
  <2>1. ReplyInv'
    BY <1>1 DEF ReplyInv
  <2>2. ScanInv'
    BY <1>1, ScanFrame DEF IInv, ObservationLabels, ReadLabels, nfc, readerState
  <2> QED
    BY <2>1, <2>2
<1>4. BlocksAreTheCards'
  BY <1>1, BlocksFrame DEF IInv
<1>5. missed' \in BOOLEAN
  BY DEF send_hid, Sent, Lost, IInv, TypeOK
<1>6. CASE Sent(i, report)
  <2>1. /\ endpoint[i] = <<>> /\ endpoint' = [endpoint EXCEPT ![i] = <<report>>]
        /\ DOMAIN endpoint = Interfaces
    BY <1>6 DEF Sent, IInv, UsbInv, EndpointInv
  <2>2. /\ DOMAIN endpoint' = Interfaces /\ endpoint'[i] = <<report>>
        /\ \A j \in Interfaces \ {i} : endpoint'[j] = endpoint[j]
    BY <2>1
  <2>3. <<report>> # <<>> /\ Len(<<report>>) = 1 /\ Head(<<report>>) = report
    OBVIOUS
  <2>4. EndpointInv'
    BY <2>2, <2>3 DEF IInv, UsbInv, EndpointInv, Report, Signals
  <2>5. TypeOK'
    <3>1. ASSUME NEW j \in Interfaces PROVE Len(endpoint'[j]) <= 1
      <4>1. CASE j = i
        <5>1. Len(endpoint'[j]) = 1
          BY <2>2, <2>3, <4>1, Zenon
        <5> QED
          BY <5>1
      <4>2. CASE j # i
        BY <2>2, <4>2 DEF IInv, TypeOK
      <4> QED
        BY <4>1, <4>2
    <3> QED
      BY <1>1, <1>5, <3>1 DEF IInv, TypeOK, readerState, nfc
  <2>6. SignalInv'
    BY <1>2, <2>2, <2>3 DEF IInv, UsbInv, SignalInv, Signal, Interfaces
  <2>7. NoSilentDivergence'
    <3>1. CASE report.kind = "signal"
      <4>1. i = "PRHP" /\ report.card = CardState(current)
        BY <3>1 DEF Report, Signal
      <4> QED
        BY <1>1, <2>2, <2>3, <3>1, <4>1 DEF NoSilentDivergence, HostWillHold, CardState, Mifare
    <3>2. CASE report.kind # "signal"
      <4>1. pc # "publishPrhp" /\ missed' = missed
        BY <1>6, <3>2 DEF Sent
      <4>2. HostWillHold' = HostWillHold
        BY <1>1, <2>1, <2>2, <2>3, <3>2 DEF HostWillHold, Interfaces
      <4> QED
        BY <1>1, <4>1, <4>2 DEF IInv, UsbInv, NoSilentDivergence, CardState, Mifare
    <3> QED
      BY <3>1, <3>2
  <2> QED
    BY <1>3, <1>4, <2>4, <2>5, <2>6, <2>7 DEF IInv, UsbInv
<1>7. CASE Lost(i, report)
  <2>1. /\ endpoint' = endpoint
        /\ missed' = IF report.kind = "signal" THEN CardState(current) # HostWillHold ELSE missed
    BY <1>7 DEF Lost
  <2>2. TypeOK'
    BY <1>1, <1>5, <2>1 DEF IInv, TypeOK, readerState, nfc
  <2>3. EndpointInv' /\ SignalInv'
    BY <2>1 DEF IInv, UsbInv, EndpointInv, SignalInv
  <2>4. NoSilentDivergence'
    BY <1>1, <2>1 DEF IInv, UsbInv, NoSilentDivergence, HostWillHold
  <2> QED
    BY <1>3, <1>4, <2>2, <2>3, <2>4 DEF IInv, UsbInv
<1> QED
  BY <1>6, <1>7 DEF send_hid

LEMMA PublishStep ==
    ASSUME IInv, SendReply \/ PublishPrhp \/ PublishCardio
    PROVE  IInv'
<1>0. "PRHP" \in Interfaces /\ "CARDIO" \in Interfaces
  BY DEF Interfaces
<1>1. CASE SendReply
  <2>1. Report("PRHP", reply) /\ reply.kind # "signal"
    BY <1>1 DEF SendReply, IInv, TypeOK, ReplyInv, Report
  <2> QED
    BY <1>0, <1>1, <2>1, SendStep DEF SendReply
<1>2. CASE PublishPrhp
  <2>1. current \in CardType /\ OwnData(current)
    BY DEF IInv, TypeOK, BlocksAreTheCards, OwnData
  <2>2. Report("PRHP", Signal(current)) /\ Signal(current).kind = "signal"
    BY <2>1, CardStateFacts DEF Report, Signal, Signals
  <2> QED
    BY <1>0, <1>2, <2>2, SendStep DEF PublishPrhp
<1>3. CASE PublishCardio
  <2>1. Report("CARDIO", CardioReport(current)) /\ CardioReport(current).kind # "signal"
    BY DEF Report, CardioReport
  <2> QED
    BY <1>0, <1>3, <2>1, SendStep DEF PublishCardio
<1> QED
  BY <1>1, <1>2, <1>3

-----------------------------------------------------------------------------
(* The USB task and the world outside.                                     *)

\* A step of neither the main task nor the antenna.
LEMMA OutsideStep ==
    ASSUME IInv, TypeOK', UsbInv', BlocksAreTheCards',
           UNCHANGED <<pc, caller, observed, trying, current, reply, readerState, nfc, present,
                       failed, held>>
    PROVE  IInv'
<1>1. ReplyInv'
  BY DEF IInv, ReplyInv
<1>2. ObservationInv' /\ LinkInv' /\ NoStaleCard' /\ HeldCardIsKept'
  BY DEF IInv, ScanInv, ObservationInv, LinkInv, NoStaleCard, HeldCardIsKept, readerState, nfc
<1>3. HeldInv'
  BY DEF IInv, ScanInv, HeldInv, readerState, nfc
<1>4. CardInv(observed)' /\ CardInv(current)'
  BY DEF IInv, ScanInv, CardInv, Full
<1> QED
  BY <1>1, <1>2, <1>3, <1>4 DEF IInv, ScanInv

LEMMA FetchStep ==
    ASSUME IInv, NEW i \in Interfaces, HostFetch(i)
    PROVE  IInv'
<1>1. /\ endpoint[i] # <<>> /\ endpoint' = [endpoint EXCEPT ![i] = <<>>]
      /\ host' = IF Head(endpoint[i]).kind = "signal" THEN Head(endpoint[i]).card ELSE host
      /\ UNCHANGED <<task, readerState, messages, mounted, nfc, calm, history>>
      /\ DOMAIN endpoint = Interfaces
  BY DEF HostFetch, IInv, UsbInv, EndpointInv
<1>2. /\ DOMAIN endpoint' = Interfaces /\ endpoint'[i] = <<>>
      /\ \A j \in Interfaces \ {i} : endpoint'[j] = endpoint[j]
  BY <1>1
<1>3. /\ i = "PRHP" /\ Head(endpoint[i]).kind = "signal"
           => Head(endpoint[i]).card \in CardType /\ OwnData(Head(endpoint[i]).card)
      /\ i # "PRHP" => Head(endpoint[i]).kind # "signal"
  BY <1>1 DEF IInv, UsbInv, EndpointInv, SignalInv, Report, Signals
<1>4. host' \in CardType /\ (host' = host \/ OwnData(host'))
  BY <1>1, <1>3 DEF IInv, TypeOK
<1>5. TypeOK'
  <2>1. \A j \in Interfaces : Len(endpoint'[j]) <= 1
    BY <1>2 DEF IInv, TypeOK
  <2> QED
    BY <1>1, <1>4, <2>1 DEF IInv, TypeOK, task, readerState, nfc, history
<1>6. EndpointInv' /\ SignalInv'
  BY <1>2 DEF IInv, UsbInv, EndpointInv, SignalInv, Interfaces
<1>7. NoSilentDivergence'
  <2>1. HostWillHold' = HostWillHold
    BY <1>1, <1>2, <1>3 DEF HostWillHold, Interfaces
  <2> QED
    BY <1>1, <2>1 DEF IInv, UsbInv, NoSilentDivergence, task, history, CardState, Mifare
<1>8. BlocksAreTheCards'
  BY <1>1, <1>4 DEF IInv, BlocksAreTheCards, OwnData, task
<1> QED
  BY <1>1, <1>5, <1>6, <1>7, <1>8, OutsideStep DEF UsbInv, task, history

\* A tag is moved: an observation under way sees the next one.
LEMMA MoveStep ==
    ASSUME IInv, MoveTag
    PROVE  IInv'
<1>1. PICK t \in Tags \cup {NoTag} :
        /\ field' = t
        /\ present' = IF pc \in ObservationLabels /\ caller = "scan" THEN present \cup {t} ELSE {}
        /\ link' = "none" /\ held' = FALSE /\ failed' = {}
        /\ UNCHANGED <<task, readerState, usb, calm, host, missed>>
  BY DEF MoveTag
<1>2. TypeOK'
  BY <1>1 DEF IInv, TypeOK, task, readerState, usb, Source
<1>3. ReplyInv' /\ ObservationInv' /\ NoStaleCard'
  BY <1>1 DEF IInv, ScanInv, ReplyInv, ObservationInv, NoStaleCard, ObservationLabels,
      ReadLabels, task, readerState
<1>6. LinkInv' /\ HeldInv' /\ HeldCardIsKept'
  BY <1>1 DEF LinkInv, HeldInv, HeldCardIsKept
<1>7. CardInv(observed)' /\ CardInv(current)'
  BY <1>1 DEF IInv, ScanInv, CardInv, Full, task
<1>4. UsbInv'
  BY <1>1 DEF IInv, UsbInv, EndpointInv, SignalInv, NoSilentDivergence, HostWillHold, usb, task
<1>5. BlocksAreTheCards'
  BY <1>1, BlocksFrame DEF IInv, task
<1> QED
  BY <1>2, <1>3, <1>4, <1>5, <1>6, <1>7 DEF IInv, ScanInv

\* The session of the host ends, and with it what was on its way.
LEMMA UnmountStep ==
    ASSUME IInv, Unmount
    PROVE  IInv'
<1>1. /\ mounted' = FALSE /\ endpoint' = [i \in Interfaces |-> <<>>] /\ host' = NoCard
      /\ missed' = (CardState(current) # NoCard)
      /\ UNCHANGED <<task, readerState, messages, nfc, calm, present, failed, held>>
  BY DEF Unmount
<1>2. TypeOK'
  <2>1. \A j \in Interfaces : Len(endpoint'[j]) <= 1
    BY <1>1
  <2>2. missed' \in BOOLEAN
    BY <1>1
  <2> QED
    BY <1>1, <2>1, <2>2, NoCardFacts DEF IInv, TypeOK, task, readerState, nfc
<1>3. EndpointInv' /\ SignalInv'
  BY <1>1 DEF EndpointInv, SignalInv, Interfaces
<1>4. NoSilentDivergence'
  BY <1>1 DEF NoSilentDivergence, HostWillHold, Interfaces, task, CardState, Mifare
<1>5. BlocksAreTheCards'
  BY <1>1, NoCardFacts DEF IInv, BlocksAreTheCards, OwnData, task
<1> QED
  BY <1>1, <1>2, <1>3, <1>4, <1>5, OutsideStep DEF UsbInv, task

\* The host begins a new session over the same endpoints.
LEMMA RestartStep ==
    ASSUME IInv, HostRestart
    PROVE  IInv'
<1>1. /\ host' = NoCard /\ missed' = (CardState(current) # HostWillHold')
      /\ UNCHANGED <<task, readerState, usb, nfc, calm, present, failed, held>>
  BY DEF HostRestart
<1>2. TypeOK'
  <2>1. missed' \in BOOLEAN
    BY <1>1
  <2> QED
    BY <1>1, <2>1, NoCardFacts DEF IInv, TypeOK, task, readerState, usb, nfc
<1>3. EndpointInv' /\ SignalInv'
  BY <1>1 DEF IInv, UsbInv, EndpointInv, SignalInv, usb
<1>4. NoSilentDivergence'
  BY <1>1 DEF NoSilentDivergence, task, CardState, Mifare
<1>5. BlocksAreTheCards'
  BY <1>1, NoCardFacts DEF IInv, BlocksAreTheCards, OwnData, task
<1> QED
  BY <1>1, <1>2, <1>3, <1>4, <1>5, OutsideStep DEF UsbInv, task

\* The clock, the queue, the cable and the end of all faults.
LEMMA QuietStep ==
    ASSUME IInv, Tick \/ UsbReceive \/ Mount \/ Calm
    PROVE  IInv'
<1>1. UNCHANGED <<pc, caller, observed, trying, current, reply, readerState, endpoint, nfc, host,
                  missed, present, failed, held>>
  BY DEF Tick, UsbReceive, Mount, Calm, task, usb, nfc, history
<1>2. TypeOK'
  <2>1. CASE UsbReceive
    <3>1. PICK m \in Incoming : messages' = Append(messages, m)
      BY <2>1 DEF UsbReceive
    <3>2. messages' \in Seq(Incoming) /\ Len(messages') <= QueueCap
      BY <2>1, <3>1, QueueAssumption DEF UsbReceive, IInv, TypeOK
    <3> QED
      BY <2>1, <3>2 DEF UsbReceive, IInv, TypeOK, task, readerState, nfc, history
  <2>2. CASE Tick
    BY <2>2 DEF Tick, IInv, TypeOK, readerState, usb, nfc, history
  <2>3. CASE Mount
    BY <2>3 DEF Mount, IInv, TypeOK, task, readerState, nfc, history
  <2>4. CASE Calm
    BY <2>4 DEF Calm, IInv, TypeOK, task, readerState, usb, nfc, history
  <2> QED
    BY <2>1, <2>2, <2>3, <2>4
<1>3. UsbInv'
  BY <1>1 DEF IInv, UsbInv, EndpointInv, SignalInv, NoSilentDivergence, HostWillHold
<1>4. BlocksAreTheCards'
  BY <1>1, BlocksFrame DEF IInv
<1> QED
  BY <1>1, <1>2, <1>3, <1>4, OutsideStep

-----------------------------------------------------------------------------
(* The theorems.                                                           *)

LEMMA NextStep ==
    ASSUME IInv, [Next]_vars
    PROVE  IInv'
<1>1. CASE mainTask
  BY <1>1, LoopStep, CompareStep, PollStep, ReadStep, PublishStep DEF mainTask, reader_read_card
<1>2. CASE environment
  BY <1>2, QuietStep, UnmountStep, RestartStep, MoveStep, FetchStep DEF environment
<1>3. CASE UNCHANGED vars
  <2>1. TypeOK' /\ BlocksAreTheCards'
    BY <1>3 DEF IInv, TypeOK, BlocksAreTheCards, vars, task, readerState, usb, nfc, history
  <2>2. UsbInv'
    BY <1>3 DEF IInv, UsbInv, EndpointInv, SignalInv, NoSilentDivergence, HostWillHold, vars,
        task, usb, history
  <2> QED
    BY <1>3, <2>1, <2>2, OutsideStep DEF vars, task, history
<1> QED
  BY <1>1, <1>2, <1>3 DEF Next

\* IInv is an inductive invariant of the firmware.
THEOREM Invariance == Spec => []IInv
<1>1. Init => IInv
  <2> SUFFICES ASSUME Init PROVE IInv
    OBVIOUS
  <2>1. TypeOK
    <3>1. \A i \in Interfaces : Len(endpoint[i]) <= 1
      BY DEF Init
    <3>2. messages \in Seq(Incoming) /\ Len(messages) <= QueueCap
      BY QueueAssumption, EmptySeq DEF Init
    <3> QED
      BY <3>1, <3>2, NoCardFacts DEF Init, TypeOK, Keys, Source
  <2>2. EndpointInv /\ SignalInv /\ NoSilentDivergence
    BY NoCardFacts DEF Init, EndpointInv, SignalInv, NoSilentDivergence, HostWillHold, CardState,
        Mifare, Card, NoCard, Interfaces
  <2>3. ReplyInv /\ ScanInv
    BY NoCardFacts DEF Init, ReplyInv, ScanInv, ObservationInv, LinkInv, HeldInv, NoStaleCard,
        HeldCardIsKept, ObservationLabels, ReadLabels
  <2>4. BlocksAreTheCards
    BY NoCardFacts DEF Init, BlocksAreTheCards, OwnData
  <2> QED
    BY <2>1, <2>2, <2>3, <2>4 DEF IInv, UsbInv
<1>2. IInv /\ [Next]_vars => IInv'
  BY NextStep
<1> QED
  BY <1>1, <1>2, PTL DEF Spec

\* The variables keep their types: the queue is never overrun, an endpoint never
\* holds more than one report, and a reply at hand is a response.
THEOREM TypeCorrect == Spec => []TypeOK
  BY Invariance, PTL DEF IInv

\* A card the firmware publishes was on the antenna during the observation that
\* found it, however tags are swapped between its PN532 commands.
THEOREM NoStaleTarget == Spec => []NoStaleCard
  BY Invariance, PTL DEF IInv, ScanInv

\* A tag that stays on the antenna is found by every scan, with its blocks, unless the scan
\* met a failure of its own that explains what is missing.
THEOREM HeldIsKept == Spec => []HeldCardIsKept
  BY Invariance, PTL DEF IInv, ScanInv

\* The blocks and the LUID of a card were read from the tag whose identity it shows, both
\* blocks or none, however tags of any kinds are swapped between two commands.
THEOREM OwnBlocksOnly == Spec => []BlocksAreTheCards
  BY Invariance, PTL DEF IInv

\* While no report was lost and no session of the host has ended, the host holds, or
\* will hold when it has fetched the endpoint, the firmware's current card.
THEOREM HostFollows == Spec => []NoSilentDivergence
  BY Invariance, PTL DEF IInv, UsbInv
=============================================================================
