---------------------------- MODULE CardRegister ----------------------------
(***************************************************************************)
(* What the Service promises to the callers of its card getters, whatever  *)
(* the sessions, goroutines and pointers behind it do: one register that   *)
(* holds the card on the reader, None while no reader is connected, and    *)
(* reads that return a value the register held while they ran.             *)
(***************************************************************************)
EXTENDS Naturals

CONSTANTS
    Cards,    \* the cards a reader can report
    None,     \* "no card"
    Pollers   \* goroutines that call a card getter

VARIABLES
    connected,  \* a verified reader is connected
    card,       \* the card it reported last
    poll,       \* per poller: "idle", "running" or "returned"
    seen,       \* per poller: what card has been while its call runs
    result      \* per poller: what its call returned

vars == <<connected, card, poll, seen, result>>

\* The running calls have seen every value the register takes.
Witnessed(c) ==
    seen' = [g \in Pollers |-> IF poll[g] = "running" THEN seen[g] \cup {c} ELSE seen[g]]

Init ==
    /\ connected = FALSE
    /\ card = None
    /\ poll = [g \in Pollers |-> "idle"]
    /\ seen = [g \in Pollers |-> {}]
    /\ result = [g \in Pollers |-> None]

\* A reader is connected; it may have reported a card while it was verified.
Connect ==
    /\ connected = FALSE
    /\ connected' = TRUE
    /\ card' \in Cards \cup {None}
    /\ Witnessed(card')
    /\ UNCHANGED <<poll, result>>

\* The reader reports a card, or its removal, or is lost.
Report ==
    /\ connected
    /\ card' \in Cards \cup {None}
    /\ Witnessed(card')
    /\ UNCHANGED <<connected, poll, result>>

\* The reader goes away only after its card was cleared.
Disconnect ==
    /\ connected
    /\ card = None
    /\ connected' = FALSE
    /\ UNCHANGED <<card, poll, seen, result>>

PollBegin(g) ==
    /\ poll[g] = "idle"
    /\ poll' = [poll EXCEPT ![g] = "running"]
    /\ seen' = [seen EXCEPT ![g] = {card}]
    /\ UNCHANGED <<connected, card, result>>

\* The call returns a value the register has held since it began.
PollReturn(g) ==
    /\ poll[g] = "running"
    /\ poll' = [poll EXCEPT ![g] = "returned"]
    /\ \E v \in seen[g] : result' = [result EXCEPT ![g] = v]
    /\ UNCHANGED <<connected, card, seen>>

PollEnd(g) ==
    /\ poll[g] = "returned"
    /\ poll' = [poll EXCEPT ![g] = "idle"]
    /\ seen' = [seen EXCEPT ![g] = {}]
    /\ result' = [result EXCEPT ![g] = None]
    /\ UNCHANGED <<connected, card>>

Next ==
    \/ Connect \/ Report \/ Disconnect
    \/ \E g \in Pollers : PollBegin(g) \/ PollReturn(g) \/ PollEnd(g)

Spec == Init /\ [][Next]_vars
=============================================================================
