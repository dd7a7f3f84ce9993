# A TLA+ model of PA Reader

PA Reader is a USB card reader (ESP32-S3 and PN532, `src/impl/firmware`) and the
Go software on the host that makes it look like an AimeIO device
(`src/impl/dll`).  The two speak PRHP (`src/spec/rfc-0001-prhp.md`) over a
64-byte HID interface.  This directory holds TLA+ models of both sides, the TLC
configurations that check them, and TLAPS proofs: every safety property that a run checks is
also a theorem, for every value of the constants, and so is the refinement.

## The system and its parts

| Part | State it keeps | Operations | What makes it correct |
|---|---|---|---|
| HID transport, `hid/device.go` | hidapi handle, channel `writes`, flags `stopping`, `closed`, channels `done`, `writerDone` | `Read`, `Write`, `writeLoop`, `Close` | nothing is closed twice, nothing is written to a closed handle, order is kept, nobody blocks for ever |
| Session, `aimeio/session.go` | `latest`, `readErr`, `done`, a `Caller` | `newSession`, `readLoop`, `VerifyVersion`, `Close` | the card is cleared and the cause stored before `done` is closed |
| Service, `aimeio/service.go` | `active`, `deviceInfo`, `lastErr`, context, `stopped` | `run`, `waitRetry`, the getters, `Close` | one device at a time, it reconnects, `Close` ends everything, getters are consistent |
| Router and Caller, `hid/router.go`, `hid/caller.go` | pending calls by sequence, handlers by opcode | `ReadLoop`, `Dispatch`, `Allocate`, `Consume` | a response reaches the call it answers |
| PRHP codec of the host, `protocol/*.go` | none | encode, decode | the inverse of `prhp.c` |
| DLL exports, `cmd/aimeio` | `activeService` | `aime_io_*` | one service |
| TUI, `cmd/reader`; `config`, `errcode`, `open_*.go` | a snapshot; none | refresh; parsing | |
| Main loop, `app_main.c` | `current`, `next_scan` | receive, dispatch, scan, compare, publish | publishes exactly the transitions, is never starved |
| Reader layer, `reader.c` | keys, `radio_enabled`, `felica_system_code`, active targets | `reader_read_card` and the SEGA helpers | the card reported is the card on the antenna |
| PRHP and CardIO endpoints, `prhp.c`, `cardio.c` | none | dispatch, publish | one answer per request |
| USB, `usb_device.c` | queue of 16 messages, endpoints | callbacks, `send_hid` | full queue and busy endpoint only lose what they must |
| SEGA protocol, `sega.c` | parser | parse, dispatch, answer | resynchronises, one answer per frame |
| PN532 driver, `pn532.c` | none beyond the chip | command exchange | an answer belongs to its command |

The host has no mutex: the supervisor goroutine, one read loop and one write
loop per session, the game's polling thread and any number of closers meet in
atomic pointers and channels.  The firmware has two tasks: the main task, the
only one that touches the reader, and the USB task, which fills the queue and
drains the endpoints.  Cards move, cables are unplugged and PN532 commands fail at
any time.  What is hard: shutdown from several sides at once, a
card pointer read in two steps while the session changes, a timeout racing a
late answer, retries that must not leak, and transitions that are
published only once over a link that may drop them.

## Modules

| Module | Models | State | Actions |
|---|---|---|---|
| `HidDevice` | `device.go` | the struct's fields under their names; `pc` per goroutine | one per atomic operation, channel operation or hidapi call |
| `HidDevice_proofs` | | | TLAPS proofs about `HidDevice` |
| `CardRegister` | the promise of `Service` to its callers (abstract) | `connected`, `card`, the calls in progress | connect, report, disconnect, begin and end of a read |
| `HostService` | `service.go`, `session.go`, the read loop and dispatch of `router.go`, the single call of `caller.go` | the atomic pointers; per session its handle, read loop, `latest`, `readErr`, call | `Run*` are the statements of `run`, `Reader*` those of `readLoop`, `Poll*` the two loads of a getter, `Close*` those of `Service.Close` |
| `HostService_proofs` | | | TLAPS proofs about `HostService`, and that it implements `CardRegister` |
| `Firmware` | `app_main.c`, `reader_read_card`, what `prhp.c` and `cardio.c` answer and publish, `usb_device.c`, the reader-changing commands of `sega.c`, the outcomes of `pn532.c` | `current`, `observed`, keys, radio, system code, queue, endpoints, the field | one per message, PN532 command or send |
| `Firmware_proofs` | | | TLAPS proofs about `Firmware` |
| `ByteSums` | the loops of `sega.c` and `pn532.c` that sum bytes up for a checksum | none | none |
| `ByteSums_proofs` | | | induction, and lemmas about sums of any length |
| `SegaParser` | `reset_parser`, `sega_receive` and the checks of `dispatch` in `sega.c` | `synchronized`, `escaped`, `bytes`, the request handed on | one per branch of the loop over the received bytes |
| `SegaLine` | `SegaParser` behind `cdc_receive_callback`, with a host that frames as `send_response` does | the bytes on the line | the host writes, the callback drops, the parser receives |
| `SegaLine_proofs` | | | TLAPS proofs about `SegaParser` and `SegaLine` |
| `SegaReader` | `dispatch_nfc`, `dispatch_led` and `send_response` of `sega.c` over `reader.c` | `active_mifare`, `active_felica`, `active_key_type`, keys, radio; the chip's target; the field; the request and its answers | one per command, then one per PN532 command it gives; the scan |
| `SegaReader_proofs` | | | TLAPS proofs about `SegaReader` |
| `Pn532` | `pn532.c` | where `command()` is, its request, what the last function returned; the chip's frame on offer and its job | one per I2C exchange; the chip; a restart of the ESP32 |
| `Pn532_proofs` | | | TLAPS proofs about `Pn532` and about damaged frames |
| `Caller` | `caller.go` | the counter, the cache, `consumed` and the channel of each call, `pc` per goroutine | one per operation on one of these |
| `Caller_proofs` | | | TLAPS proofs about `Caller` |
| `MCHidDevice`, `MCHostService`, `MCFirmware`, `MCSegaLine`, `MCSegaReader`, `MCPn532`, `MCCaller` | | constants for TLC | |

`HostService` uses `HidDevice` through its result only: `Device.Close` is
"the first closer is in `hid_close` for a while, the others return", which is what
`HidDevice` shows.  `Firmware` has the host reduced to the card it holds, which is
what `HostService` does with a CARD_STATE.  `Firmware` and `SegaReader` use a PN532 command
as its result, own answer or error, which is what `Pn532` shows; `Firmware` follows an
observation to the hosts, `SegaReader` follows what it leaves in the reader for the next SEGA
command.

History variables (`calls`, `accepted`, `sent`, `faults`; `origin`, `seen`;
`missed`, `present`, `failed`, `held`; `own`, `meant`, `fault`, `garbled`; `evicted`, `raced`) record what a property needs and are never read by a guard,
except that `calls` enforces `MaxWrites`.
Each definition whose name contains an underscore and a fault (`StopSwap_NoCAS`,
`ReaderClear_Forgotten`...) is a plausible bug, used in place of the action below it
to show that a property notices it; no specification refers to it.

### Abstractions

- A report is a number in `HidDevice`; a card is a model value in `HostService`;
  a `reader_card_t` in `Firmware` is the tag whose identity it shows and the tags that its two
  blocks and its LUID were read from, with `NoTag` for zeroed bytes.  So data of one card under
  the identity of another is a state of the model, also for two cards of the same kind.  The
  CARD_STATE of a MIFARE card has no UID; its `tag` stands for the card its blocks are of.
  The LUID of an Aime card is taken to be valid (`valid_luid`).
- `Tags` of `Firmware` have a kind, a key is right or wrong for such cards.  A FeliCa
  tag answers its own system code or the wildcard, as the alternation in `reader.c`
  presumes.  An authentication opens the tag in the field if it has the UID and the key of the
  command; a block read returns a block of that tag until the tag leaves, and a tag that
  returns has to be polled and opened again.  A failed authentication does not keep the PN532
  from trying the next key on the same target.
- `Pn532` keeps the bytes of every frame, with 32 byte values instead of 256: the layouts of
  the responses are the real ones, the largest frame is 30 bytes of data instead of 254.  The
  chip offers one frame at a time, keeps it until it is read, sends the answer after the
  acknowledgement, and forgets all that when it receives a new command; a read that fails may
  or may not have taken the frame.  On the bus at most one byte of a frame changes, or a
  command does not arrive at all.
- In `SegaReader` a UID is the tag that has it and an answer is its status, its card and its
  size.  The chip authenticates a card only with the UID and the key of that card; a card that
  left the antenna must be polled again, and so must all cards when the radio was off.
- `Caller` has sequences modulo a small number, and its cache drops any entry when it is full
  where freelru drops the least recent one.  `Allocate` with a timeout that is not positive
  fails before it touches the state and is a stutter.  `NotOvertaken` excludes an `Allocate` that
  stands still between drawing a sequence and storing it while all 65535 others are drawn.
- In `Firmware` a CDC message carries one complete SEGA command; how bytes become
  commands is the subject of `SegaParser`, whose state does not depend on where one message
  ends and the next begins.
- A rejected report (wrong size, unknown signal) changes nothing and is a stutter, and so
  is a message dropped by a full queue.
- Session slots are reused when nothing refers to them any more, as the garbage
  collector would.
- `Stabilise` and `Calm` mark the moment from which the environment behaves; they
  exist for the liveness properties and may never happen.

## Runs

| Run | Bounds | Shows |
|---|---|---|
| `hid_device` | 2 writers, 2 closers, queue 2, 4 writes | `ShutdownOnce`, `WriterOwnsHandle`, `QueueOrder`, `NothingSentAfterClose`, `CloseReturns`, `WritersReleased`, `LoopsEnd`, types |
| `host_service` | 2 session slots, 2 cards, 1 poller, 2 closers, 1 request in the reader | `OneDevice`, `ShownIsLive`, `GettersAreRegular`, `CauseIsKept`, `CloseReleases`, `ImplementsRegister`, types |
| `host_live` | 2 slots, no card, 2 closers, no symmetry | `CloseReturns`, `Reconnects`, `LostIsRemoved` |
| `firmware` | a Banapass, a FeliCa and a long-UID tag; GET_VERSION, SEGA polls, radio and key commands; queue 1 | `HeldCardIsKept`, `NoSilentDivergence` |
| `firmware_swap` | two Aime tags, a Banapass and a FeliCa tag; no messages | `NoStaleCard`, `BlocksAreTheCards` |
| `firmware_live` | a FeliCa tag that needs the wildcard code and an Aime tag; SET_LED and SEGA polls | `HeldCardIsDelivered`, `ScansAreNotStarved` |
| `sega_line` | 16 byte values, buffer of 17, 4 requests to choose from, 3 written, 2 losses | `FrameFits`, `ExactWithoutLoss`, `Recovers`, types |
| `sega_reader` | Aime, Banapass, FeliCa and long-UID tags; every command; FeliCa replies of 12, 249, 250 and 251 bytes | `AnswersAreOfTheCard`, `OneAnswer`, `RadioOffServesNoCard`, `HeldCardIsReadable`, types |
| `pn532` | 32 byte values; the longest frame and one more; good, short and oversized answers of each kind | `AnswersAreOwn`, `NoPoisoning`, `Boots`, types |
| `caller` | 4 calls, 3 sequences, cache of 2, 2 consumers | `AtMostOneResponse`, `StaysRegistered`, types |
| `host_stale_response` | 2 slots | violated: `ExpiredIsIgnored` |
| `firmware_lost_signal` | one Aime tag | violated: `HostLearns` |

Why the bounds are enough.  For the safety properties and the refinement the theorems below
hold without any bound; for liveness, and for the two disagreements, this is why the small
instances contain the interesting cases.  Two closers and two loops are all the pairs that can meet
in `stop` and `closeHandle`.  A queue of one or two fills up, and four writes refill it
after it drained.  Two session slots hold the session a getter still points to and the
one that replaced it; a third would need two stale pointers at once, and `run` has
ended a session before it opens the next.  One request in the reader is enough for an answer
that comes a session late.  In `Firmware` all tags may be swapped for each other at any
step.  What is taken from the wrong card can come from one of another kind or from a second one
of the same kind, whose key opens both: `firmware_swap` has both, and messages play no part in
it.  What a held card is lost by does not depend on a second card of its kind, so `firmware` has
one of each with the messages that interfere.  The steps of the Aime key are those of the
Banapass key with the LUID added; each key is the one that reads the card in one of the runs.
The liveness of `Service.Close` and of the supervisor does not depend on which card is shown.
In `SegaLine` the buffer holds one byte more than the largest length, as 257 does for 8-bit
bytes; ESCAPE is the length of the requests with one byte of payload, so that lengths,
payloads and checksums all get escaped; a loss may begin anywhere and take any number of
bytes, and three requests are the one that is cut, the one that may go astray and one that
must not.
In `SegaReader` every request can follow every other, with any number of scans, swaps and
failures in between, since nothing but the reader's own state is remembered.
In `Pn532` a command depends on earlier ones only through what the chip still offers or works
on, and every function with every answer can be that earlier one.
In `Caller` four calls on three sequences wrap the counter and skip zero, and the third
pushes a call out of a cache of two.

Slots, cards, calls and consumers are symmetric and are declared so in `host_service` and
`caller`, and so are the two Aime tags in `firmware_swap`; no liveness property is checked with symmetry.

Deadlock is not checked for the host, which really ends when it is closed.  It is checked
for everything else except `SegaLine`, whose host stops at its bound.

What the modules about hidden state show:

- An observation is up to eight PN532 commands with nothing that ties them together but the UID
  in the authentication.  `BlocksAreTheCards` shows that this is enough: after any swap the
  next command fails, and what had been read is zeroed before the second key is tried or the
  card is left without `has_blocks`.
- `HeldCardIsKept` shows which failures a held card survives.  A failing Type A poll ends the
  observation and costs nothing.  A failing FeliCa poll does not: `reader_read_card` goes on to
  Type A, finds nothing there and returns success, so that a FeliCa card held still is published
  as removed and then as new.  A failing block read does the same to a MIFARE card on PRHP.  Both
  exceptions of the property are needed.

- The driver has no way to tell the chip that it gave up.  `AnswersAreOwn` and `NoPoisoning`
  show that it needs none: a new command ends the old one, and the acknowledgement that
  `read_ack` insists on separates an old answer from the new command's.  The exception
  in `AnswersAreOwn` is a command frame that does not reach the chip: then an old
  acknowledgement and answer, to a command with the same code, are taken for its own.
- SELECT_TAG and AUTHENTICATE promise nothing about the antenna, and after a failed poll the
  driver and the chip may hold different targets.  A block is still one of the card that was
  asked for, because the UID goes into the authentication.  FELICA_ENCAP has no such
  protection: the IDm of the request is not looked at, and whichever FeliCa card is listed
  answers.
- A waiting call loses its registration only if 1024 newer calls push it out, or if `Consume`
  found the expired call that had its sequence before and removes, by sequence, the newer one.
  Both exceptions in `StaysRegistered` are needed.  A session makes one call, so neither happens
  in this program.

### The two disagreements

- `host_stale_response`: RFC 0001 section 4.2 has an expired sequence ignored.  Each
  session has a `Caller` of its own that starts at 1, so the late answer to the
  GET_VERSION of a session that timed out verifies the next one.  With a
  reader that answers every GET_VERSION alike the effect is only that the wrong request is
  taken as answered.
- `firmware_lost_signal`: `current` is replaced before the report is sent and the
  result of sending is ignored; a transition met while unmounted, or with a busy
  endpoint, is never sent, and a host that reconnects while a card is held does not learn of
  it.  `NoSilentDivergence` shows that this is the only way in which the two come apart, and
  `HeldCardIsDelivered` that nothing else does in the long run.

Two more need no run.  RFC 0001 has an opcode with the wrong message type discarded, while
`prhp_dispatch` answers UNKNOWN_OPCODE to a `REQUEST SET_LED` (see `Reply`).  `usb_device_send_cdc`
takes the result of `tinyusb_cdcacm_write_queue` for an error code; if it is the number of
bytes queued, the flush never runs.  esp_tinyusb is not in the repository.

### Fairness

`HidDevice`, `HostService`: weak fairness per goroutine, the promise of the Go scheduler;
timers fire; a physical write and `hid_close` return; a read of a closed handle fails.
No caller has to call anything, a `select` may prefer any ready case, and the reader need not
send.  `Reconnects` is about a reader that stays plugged in and answers in time
(`stable`); nothing makes it so.
A host that is not calm may unplug the device, or keep it mounted and begin a session anew
(`HostRestart`), with no card either way.
`Firmware`: weak fairness of the main task and the clock; a calm host mounts the device and
fetches the endpoints.  No message has to arrive, and they may never stop.
`SegaReader`: PN532 commands end, since every wait has a deadline, and scans happen again and
again between requests (strong fairness), which is `ScansAreNotStarved` of `Firmware`.
`Pn532`: the firmware calls the driver, `command()` goes on and the chip answers; `Boots` is
about the time after the last fault.  `Caller` has no fairness and no liveness property:
`Allocate` is a bounded loop.

## Proofs

`HidDevice_proofs` proves, for every set of writers and closers, every
`QueueCap` and every `MaxWrites`, from `ThreadAssumption` (the goroutines are different) and
`BoundAssumption` (the capacity is positive):

- `TypeCorrect`: `Spec => []TypeOK`
- `ShutdownSafe`: `Spec => []ShutdownOnce`
- `WriterSafe`: `Spec => []WriterOwnsHandle`
- `OrderPreserved`: `Spec => []QueueOrder`
- `SilentAfterClose`: `Spec => NothingSentAfterClose`

All rest on `Invariance`, `Spec => []IInv`.  None of the properties is inductive: that a
second `close(done)` cannot happen depends on where every goroutine is.  `IInv`
adds `StopInv` (between the swap of `stopping` and `close(done)` there is at most one
goroutine, and `done` is still open), `HandleInv` (the same for `closed` and
`hid_close`), `WriterInv` (`writerDone` is closed exactly when the write loop is gone; nobody
swaps `closed` before its last write) and `QueueInv` (accepted = sent, in flight, queued;
nothing in flight at the select).  There is one lemma per action, and lemmas about
sequences for the steps that move a report.

`HostService_proofs` proves, for every set of session slots, cards, pollers and closers and
every `MaxWire`, from `NilAssumption` (nil is no session and no error, "no card" is no card)
and `WireAssumption`:

- `TypeCorrect`: `Spec => []TypeOK`
- `OneDeviceAtATime`: `Spec => []OneDevice`
- `ShownCardIsLive`: `Spec => []ShownIsLive`
- `RegularGetters`: `Spec => []GettersAreRegular`
- `CauseKept`: `Spec => []CauseIsKept`
- `ReleasedByClose`: `Spec => []CloseReleases`
- `RegisterRefinement`: `Spec => ImplementsRegister`

`IInv` says of each goroutine what the others rely on.  `PointerInv`: `active` and `deviceInfo`
are functions of where `run` is.  `CloserInv`: one call of `Close` won the swap, and only it
cancels.  `ReaderInv`: a read loop that is done has cleared its card and stored its failure, and
`run` has waited for that wherever it lets go of the session.  `HandleInv`: a handle that `run`
no longer holds is closed or being closed, by `run` or by the winning `Close`; this is the part
that makes `CloseReleases` inductive, since either of the two may be the one that closes.
`ErrorInv`: `run` has stored an error before it gives a session up.  `PollInv`: what a getter
that has loaded `active` is about to return has been shown since the call began.
For the refinement the mapping is `connected <- active # Nil`, `card <- Shown` and the calls as
they are.  The initial state maps to the register's, and each action to one of its steps or to a
stutter: storing `active` connects, a dispatched CARD_STATE of the active session and the
read loop's clear are reports, and `run`'s clear of `active` disconnects, with no card left to
take away (`ReaderInv`).  That nothing else changes `Shown` is `PointerInv`.

`Firmware_proofs` proves, for every set of tags, every set of messages and every capacity of
the queue (`TagAssumption`, `MessageAssumption`, `QueueAssumption`):

- `TypeCorrect`: `Spec => []TypeOK`, with the bounds of the queue and the endpoints (no run repeats it)
- `NoStaleTarget`: `Spec => []NoStaleCard`
- `HeldIsKept`: `Spec => []HeldCardIsKept`
- `OwnBlocksOnly`: `Spec => []BlocksAreTheCards`
- `HostFollows`: `Spec => []NoSilentDivergence`

`OwnBlocksOnly` rests on `LinkInv`: while the tag in the field is open for reads it is the
observed one, opened with its key, which a swap ends.  With it `ObservationInv` says at each
command exactly what has been read so far, from a tag that was in the field during this
observation, and `CardInv` that a card that has its blocks is complete.  `HeldIsKept` needs
`HeldInv`: a held tag is in the field and answers the system code in use, since the scan that
found it left the code alone and every later poll finds it, and a scan that comes to the
Banapass key with an Aime card has had a failure.  `EndpointInv` (an endpoint holds at most one
report, of its own kind), `ReplyInv` and `SignalInv` (the card on its way to the host has only
data of its own) serve the rest.  Lemmas say what a step that leaves the endpoints, the cards or
the observation alone keeps, so that an action's lemma deals only with what it changes.

`SegaReader_proofs` proves, for every set of tags and every set of requests (`TagAssumption`,
`RequestAssumption`):

- `TypeCorrect`: `Spec => []TypeOK`
- `AnswersOfTheCard`: `Spec => []AnswersAreOfTheCard`
- `AnsweredOnce`: `Spec => []OneAnswer`
- `RadioOffSilent`: `Spec => RadioOffServesNoCard`

The driver's idea of its target and the chip's may differ, so `IInv` does not relate them.  It
has `ChipInv` (the chip's target is on the antenna), `RadioInv` (with the radio off it has
none), `RequestInv` (at each PN532 command, which request is in service; at the read of a block
the chip's target, if any, is the card the request names) and `AnswerInv` (nothing is answered
before the end).

`Pn532_proofs` proves, for every number of byte values from four up, every buffer with room for
a frame, and every set of requests and answers that fit into frames (`SizeAssumption`,
`FunctionAssumption`):

- `TypeCorrect`: `Spec => []TypeOK`
- `DamagedFrame`: a frame of any payload with any one byte changed is no frame
- `OwnAnswers`: `Faithful => (Spec => []AnswersAreOwn)`
- `NeverPoisoned`: `Faithful => (Spec => []NoPoisoning)`

`Faithful` says that what the chip means by an answer is what the driver's layouts make of it:
without it "the answer the chip meant" and the answer returned are unrelated constants.
It is a hypothesis and no `ASSUME`, because `TypeCorrect` holds for answers of any content; the
answers of `MCPn532` satisfy it.  `IInv` has `ChipInv` (what the chip may offer, and that an
answer is offered only when its job is over), `DriverInv` (where `command()` is), `OwnInv` (once
the chip has understood the current command, its offer is this command's acknowledgement,
answer or error) and `EndInv` (a command that ended well has left the chip nothing to do).  A
byte that changes on the bus is the subject of `DamagedFrame`: length and complement, start
code, direction and code, data checksum and postamble leave no position uncovered.

`SegaLine_proofs` proves, for every number of byte values, every SYNC and another ESCAPE, every
buffer larger than the number of byte values (`ByteAssumption`; 257 and 256 in the code), every
set of requests that `dispatch` accepts, and any number of them and of losses
(`RequestAssumption`):

- `ParserTypeCorrect`, `NeverOverrun`: `ParserSpec => []ParserTypeOK`, `ParserSpec => []FrameFits`
- `TypeCorrect`: `Spec => []TypeOK`
- `NeverOverrunOnTheLine`: `Spec => []FrameFits`
- `ExactDelivery`: `Spec => []ExactWithoutLoss`
- `Recovery`: `Spec => []Recovers`

`FrameFits` is inductive together with the types: a byte that does not complete the frame
leaves it no longer than its first byte, which is less than the number of byte values.  It
follows that the two resets of `sega_receive` for frames that are too long are never taken.
The other two need to know where in the stream the parser is.  `Chain` describes a sequence
that is put together from pieces by the places where its pieces begin: a frame is SYNC
and a chain of encoded bytes (`FrameChain`), the line a chain of frames (`Stream`).  `IInv` says
that the parser is between two requests of the stream, or inside one with exactly its bytes
before the current one collected (`Inside`), or, after a loss only, in what is left of older
requests, or in a request whose SYNC it took for data (`Astray`); and what has been dispatched
in each case (`Delivered`).  A parser that is astray may be synchronised or not and hold any
bytes, but it has an escape pending only where the stream has one: so it meets the next SYNC
with none.  `SYNC # ESCAPE` is needed, since one byte cannot do both.

`Caller_proofs` proves, for every set of calls and consumers, every number of sequences from
two up and every capacity of the cache (`SizeAssumption`, `CallAssumption`):

- `TypeCorrect`: `Spec => []TypeOK`, which includes that no request has sequence zero
- `SingleResponse`: `Spec => []AtMostOneResponse`
- `Registered`: `Spec => []StaysRegistered`

`AtMostOneResponse` becomes inductive with `Claimed`: a response is sent, or on its way, only
if the flag is set, so the `Consume` that wins the flag finds none.  `StaysRegistered` needs
`FreeWhenAdded` (a sequence that `Get` did not find is still free at
`AddWithLifetime`), which in turn needs `DistinctSequences` (no two runs of
`Allocate` hold the same sequence, by `NotOvertaken`), and `RemovesItsOwn` (what a `Consume`
removes is the call it found or one that raced with it).

Proofs about sums and sequences of any length need induction.  The library's induction
theorems take a predicate as a parameter, which the provers cannot instantiate;
`ByteSums_proofs` proves induction for sets instead (`Induction`, from the least element of
the set of counterexamples, `LeastNatural`), and with it that the recursive functions in
`ByteSum` and `FlattenSeq` are defined and what they compute.

Only model-checked: all liveness properties (`CloseReturns`, `WritersReleased`, `LoopsEnd`,
`Reconnects`, `LostIsRemoved`, `HeldCardIsDelivered`, `ScansAreNotStarved`,
`HeldCardIsReadable`, `Boots`), since fairness and ENABLED are outside the
prover's reach, and the two disagreements, which are counterexamples.

## Not modelled

The byte level of PRHP and CardIO reports, the bytes of SEGA answers, `valid_luid`, the block reads of a scan in `SegaReader` (they are in `Firmware`), the DLL
exports, the TUI, configuration, USB descriptors.  hidapi, TinyUSB, FreeRTOS, freelru and the
PN532 appear as their callers see them.  A `hid_close` concurrent with a pending `hid_read` is
assumed to fail the read, and a MIFARE card to accept a second authentication after one that
failed, as `reader_read_card` does.  Two services started by two calls of `aime_io_init` are not
composed: to each of them the other is a device that cannot be opened.

## Plan

Done: the transport, the supervisor and its abstract register, the firmware's
observation and publication, the SEGA parser, line and commands, the PN532 driver and the
request sequences, each with the proofs of its safety properties.  In this order next:

1. `PaReader`: `Firmware` composed with `HostService`, end to end from the antenna to
   `aime_io_nfc_get_aime_id`.
2. `PrhpCodec`: host and firmware encodings as operators, round trip over small bytes.
