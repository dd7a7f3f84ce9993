------------------------------ MODULE MCPn532 ------------------------------
(* Pn532 with 32 byte values, which leaves room for the real layouts of the *)
(* responses, and a few requests and answers per function.                  *)
EXTENDS Pn532, TLC

Zeros(n) == [i \in 1 .. n |-> 0]
Upto(n) == [i \in 1 .. n |-> i]

\* felica_transact is asked for the longest frame there is, and for one more.
MCRequests ==
    [f \in DriverFunctions |->
        CASE f = "felica_transact" -> {Upto(ByteMod - 4), Zeros(ByteMod - 3)}
          [] f = "mifare_read_block" -> {<<1, 16, 2>>}
          [] OTHER -> {<<1, 0>>}]

Answer(bytes, says) == [payload |-> bytes, meant |-> says]
NoTarget == Answer(<<0>>, Ok(<<>>))
TypeATarget(uid) == Answer(<<1, 1, 0, 4, 8, Len(uid)>> \o uid, Ok(uid))
FelicaTarget(ids) == Answer(<<1, 1, 20, 1>> \o ids \o <<0, 3>>, Ok(ids))

MCAnswers ==
    [f \in DriverFunctions |->
        CASE f = "poll_type_a" ->
                {NoTarget, TypeATarget(Upto(4)), TypeATarget(Upto(10)),
                 Answer(<<1, 1, 0, 4, 8, 4, 1, 2, 3>>, Error),
                 Answer(<<1, 1, 0, 4, 8, 11>> \o Upto(11), Error)}
          [] f = "poll_felica" ->
                {NoTarget, FelicaTarget(Upto(16)), Answer(<<1, 1, 17>> \o Zeros(19), Error)}
          [] f = "mifare_authenticate" ->
                {Answer(<<0>>, Ok(<<>>)), Answer(<<20>>, Error), Answer(Zeros(9), Error)}
          [] f = "mifare_read_block" ->
                {Answer(<<0>> \o Upto(16), Ok(Upto(16))), Answer(<<0>> \o Upto(15), Error),
                 Answer(<<19>>, Error)}
          [] f = "felica_transact" ->
                {Answer(<<0>> \o Upto(5), Ok(Upto(5))), Answer(<<>>, Error), Answer(<<1>>, Error)}
          [] OTHER -> {Answer(<<>>, Ok(<<>>))}]
=============================================================================
