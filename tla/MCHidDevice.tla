---------------------------- MODULE MCHidDevice ----------------------------
(* HidDevice on two goroutines that call Write and two that call Close.    *)
EXTENDS HidDevice

CONSTANTS w1, w2, c1, c2

MCWriters == {w1, w2}
MCClosers == {c1, c2}
=============================================================================
