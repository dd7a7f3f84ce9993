----------------------------- MODULE MCFirmware -----------------------------
(* Firmware with tags of some kinds and a few host messages.               *)
EXTENDS Firmware, TLC

CONSTANTS suica, felica, aime, aime2, bana, ultralight

KindOf ==
    (suica :> "transit") @@ (felica :> "felica") @@ (aime :> "aime") @@ (aime2 :> "aime")
        @@ (bana :> "bana") @@ (ultralight :> "longUid")

SwappedTags == {aime, aime2, bana, suica}
PublishedTags == {bana, felica, ultralight}
HeldTags == {felica, aime}
AimeTag == {aime}

MCKind == [t \in Tags |-> KindOf[t]]

\* Two cards of the same kind differ in nothing else.
Twins == Permutations({aime, aime2})

Hid(type, opcode, sequence, status) ==
    [type |-> "HID", data |-> [type |-> type, opcode |-> opcode,
                               sequence |-> sequence, status |-> status]]
Cdc(command) == [type |-> "CDC", data |-> [command |-> command]]
SetKey(key, right) ==
    [type |-> "CDC", data |-> [command |-> "SET_KEY", key |-> key, right |-> right]]

GetVersion == Hid("REQUEST", "GET_VERSION", 1, 0)

NoMessages == {}
ReaderMessages ==
    {GetVersion, Cdc("POLL"), Cdc("RADIO_ON"), Cdc("RADIO_OFF"), SetKey("bana", FALSE)}
PollMessages == {Cdc("POLL"), Hid("SIGNAL", "SET_LED", 0, 0)}
=============================================================================
