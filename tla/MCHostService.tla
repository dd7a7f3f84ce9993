--------------------------- MODULE MCHostService ---------------------------
(* HostService on a few session slots, cards and callers.                  *)
EXTENDS HostService, TLC

CONSTANTS s1, s2, card1, card2, poller, c1, c2

TwoSessions == {s1, s2}
OneCard == {card1}
TwoCards == {card1, card2}
NoPoller == {}
OnePoller == {poller}
NoCards == {}
OneCloser == {c1}
TwoClosers == {c1, c2}

\* Slots, cards and callers of Close are interchangeable.
Symmetry == Permutations(Sessions) \cup Permutations(Cards) \cup Permutations(Closers)
=============================================================================
