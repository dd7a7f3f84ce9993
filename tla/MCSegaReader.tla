---------------------------- MODULE MCSegaReader ----------------------------
(* SegaReader with one tag of most kinds and every command.                 *)
EXTENDS SegaReader, TLC

CONSTANTS aime, bana, suica, ultralight

MCKind ==
    (aime :> "aime") @@ (bana :> "bana") @@ (suica :> "felica") @@ (ultralight :> "longUid")

Simple(command) == [command |-> command]
Of(command, uid) == [command |-> command, uid |-> uid]
Key(key, right, sized) ==
    [command |-> "SET_KEY", key |-> key, right |-> right, sized |-> sized]
Use(key) == [command |-> "AUTHENTICATE", key |-> key]
Exchange(sized, reply) == [command |-> "FELICA_ENCAP", sized |-> sized, reply |-> reply]

MCRequests ==
    {Simple(c) : c \in {"LED_SET_COLOR", "LED_RESET", "LED_UNKNOWN", "NFC_RESET",
                        "SEND_HEX_DATA_2B", "RADIO_ON", "RADIO_OFF", "POLL"}}
        \cup {Of(c, t) : c \in {"SELECT_TAG", "READ_BLOCK"}, t \in {aime, bana, NoTag}}
        \cup {Key("aime", TRUE, TRUE), Key("aime", FALSE, TRUE), Key("aime", TRUE, FALSE)}
        \cup {Use("aime"), Use("bana")}
        \cup {Exchange(FALSE, 12)} \cup {Exchange(TRUE, n) : n \in {12, 249, 250, 251}}
=============================================================================
