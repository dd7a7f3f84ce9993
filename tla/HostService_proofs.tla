------------------------- MODULE HostService_proofs -------------------------
(***************************************************************************)
(* Proofs about module HostService, for any number of session slots, cards,*)
(* callers of the getters and callers of Close.                            *)
(***************************************************************************)
EXTENDS HostService, SequenceTheorems, TLAPS

(* The inductive invariant.  Each part says what one goroutine may rely on.*)

\* Where run holds a session, has published its info, and has published it.
Serving == {"serve", "serveClosing", "serveWait", "clearActive"}
Informed == {"clearErr", "storeActive", "clearInfo"} \cup Serving
Holding ==
    {"verify", "await", "abandon", "abandoning", "abandonWait", "storeInfo", "storeErr",
     "lastClose", "lastClosing"} \cup Informed

\* The pointers follow the position of run, their only writer.
PointerInv ==
    /\ IF sup \in Holding THEN cur \in Sessions ELSE cur = Nil
    /\ active = IF sup \in Serving THEN cur ELSE Nil
    /\ deviceInfo = IF sup \in Informed THEN cur ELSE Nil

\* One call of Close wins the swap; only it cancels, and run ends only then.
Winning == {"cancel", "load", "close", "closing", "wait", "returned"}
CloserInv ==
    /\ \A c \in Closers : cpc[c] # "idle" => closed
    /\ \A c, d \in Closers : cpc[c] \in Winning /\ cpc[d] \in Winning => c = d
    /\ \A c \in Closers : cpc[c] \in {"load", "close", "closing", "wait", "returned"} => ctx
    /\ \A c \in Closers : cpc[c] \in {"close", "closing"} => cptr[c] \in Sessions
    /\ stopped <=> sup = "gone"
    /\ sup \in {"exit", "gone"} => ctx
    /\ \A c \in Closers : cpc[c] \in {"returned", "returnedLost"} => stopped

\* A read loop clears its card and stores its failure before it ends, and run
\* has waited for that where it lets the session go.
ReaderInv ==
    /\ \A s \in Sessions : reader[s] \in {"fail", "done", "gone"} => latest[s] = None
    /\ \A s \in Sessions \ {cur} : reader[s] = "gone"
    /\ sup \in Holding /\ reader[cur] \in {"done", "gone"} => readErr[cur]
    /\ sup \in {"clearActive", "clearInfo", "storeErr", "lastClose", "lastClosing"} => Done(cur)

\* A handle that run no longer holds is closed or being closed, by run or by the
\* Close call that cancelled it; and without a cancellation, closed.
HandleInv ==
    /\ \A s \in Sessions \ {cur} : transport[s] # "open"
    /\ sup \in {"abandoning", "abandonWait", "lastClosing"} => transport[cur] # "open"
    /\ \A s \in Sessions : transport[s] = "closing" =>
        \/ s = cur /\ sup \in {"abandoning", "serveClosing", "lastClosing"}
        \/ \E c \in Closers : cpc[c] = "closing" /\ cptr[c] = s
    /\ sup \in {"top", "open", "sleep"} => \A s \in Sessions : transport[s] = "closed"
    /\ \A c \in Closers : cpc[c] = "returned" => \A s \in Sessions : transport[s] = "closed"

\* run has stored an error when it gives a session up.
ErrorInv ==
    /\ lastErr # "disconnected"
    /\ sup \in {"abandon", "abandoning", "abandonWait", "lastClose", "lastClosing", "retry",
                "sleep"} => lastErr # Nil

\* What a getter that has loaded active is about to return.
Loaded(g) == IF ptr[g] = Nil THEN None ELSE latest[ptr[g]]

\* A getter that has loaded active will return a card that was shown since, and
\* a session it still refers to is the active one or has ended.
PollInv ==
    \A g \in Pollers :
        /\ ptr[g] # Nil => ptr[g] = active \/ Done(ptr[g])
        /\ poll[g] = "running" => {Shown, Loaded(g)} \subseteq seen[g]
        /\ poll[g] = "returned" => result[g] \in seen[g]

IInv == TypeOK /\ PointerInv /\ CloserInv /\ ReaderInv /\ HandleInv /\ ErrorInv /\ PollInv

-----------------------------------------------------------------------------
(* What each goroutine leaves alone.                                       *)

\* run writes neither the context and the flags of Close nor anything of a getter
\* but the history.
LEMMA RunFrame ==
    ASSUME run
    PROVE  UNCHANGED <<ctx, closed, poll, ptr, result, closers, stable>>
  BY DEF run, VerifyVersion, RunTop, RunOpenFail, RunOpen, RunVerify,
  RunVerifyClosed, RunVersionGood, RunVersionBad, RunVersionTimeout,
  RunVersionContext, RunVersionDone, RunAbandon, RunAbandoning, RunAbandonWait,
  RunStoreInfo, RunClearErr, RunStoreActive, RunServeDone, RunServeContext,
  RunServeClosing, RunServeWait, RunClearActive, RunClearInfo, RunStoreErr,
  RunLastClose, RunLastClosing, RunRetry, RunSleep, RunExit, VerifyFailed, service,
  pollers, environment

LEMMA ReaderFrame ==
    ASSUME NEW s \in Sessions, readLoop(s)
    PROVE  UNCHANGED <<sup, cur, service, transport, poll, ptr, result, closers, stable>>
  BY DEF readLoop, ReaderSignal, ReaderResponse, ReaderFail, ReaderClear, ReaderStoreErr,
         ReaderDone, pollers, environment

LEMMA GetterFrame ==
    ASSUME NEW g \in Pollers, CurrentCard(g)
    PROVE  UNCHANGED <<sup, cur, service, session, closers, environment>>
  BY DEF CurrentCard, PollActive, PollLatest, PollEnd

LEMMA CloseFrame ==
    ASSUME NEW c \in Closers, Close(c)
    PROVE  /\ UNCHANGED <<sup, cur, stopped, active, deviceInfo, lastErr, pollers, environment>>
           /\ UNCHANGED <<reader, latest, readErr, response, origin>>
  BY DEF Close, CloseSwap, CloseCancel, CloseLoad, CloseSession, CloseClosing, CloseStopped,
         service, session

LEMMA EnvironmentFrame ==
    ASSUME \/ \E s \in Sessions : TransportDrop(s)
           \/ WireLose \/ Stabilise
    PROVE  /\ UNCHANGED <<sup, cur, service, pollers, closers>>
           /\ UNCHANGED <<reader, latest, readErr, response, origin>>
  BY DEF TransportDrop, WireLose, Stabilise, session

-----------------------------------------------------------------------------
(* Types.                                                                  *)

\* Marking the requests of a reused slot keeps the reader's queue a queue.
LEMMA ForgottenRequests ==
    ASSUME TypeOK, NEW s \in Sessions,
           wire' = [i \in DOMAIN wire |-> IF wire[i] = s THEN Nil ELSE wire[i]]
    PROVE  wire' \in Seq(Sessions \cup {Nil}) /\ Len(wire') = Len(wire)
<1>1. DOMAIN wire = 1 .. Len(wire) /\ Len(wire) \in Nat
  BY DEF TypeOK
<1> QED
  BY <1>1, IsASeq DEF TypeOK

LEMMA SentRequest ==
    ASSUME TypeOK, NEW s \in Sessions, Len(wire) < MaxWire
    PROVE  Append(wire, s) \in Seq(Sessions \cup {Nil}) /\ Len(Append(wire, s)) <= MaxWire
<1>1. s \in Sessions \cup {Nil} /\ wire \in Seq(Sessions \cup {Nil})
  BY DEF TypeOK
<1>2. Append(wire, s) \in Seq(Sessions \cup {Nil}) /\ Len(Append(wire, s)) = Len(wire) + 1
  BY <1>1, AppendProperties
<1> QED
  BY <1>1, <1>2, WireAssumption, LenProperties

LEMMA AnsweredRequest ==
    ASSUME TypeOK, wire # <<>>
    PROVE  /\ Head(wire) \in Sessions \cup {Nil}
           /\ Tail(wire) \in Seq(Sessions \cup {Nil}) /\ Len(Tail(wire)) <= MaxWire
  BY WireAssumption, HeadTailProperties DEF TypeOK

\* The history of a getter holds cards.
LEMMA WitnessedType ==
    ASSUME TypeOK, Witnessed,
           active' \in Sessions \cup {Nil}, latest' \in [Sessions -> Cards \cup {None}]
    PROVE  seen' \in [Pollers -> SUBSET (Cards \cup {None})]
<1>1. Shown' \in Cards \cup {None}
  BY DEF Shown
<1> QED
  BY <1>1 DEF TypeOK, Witnessed

LEMMA RunTypeOK ==
    ASSUME TypeOK, PointerInv, run
    PROVE  TypeOK'
<1> USE DEF TypeOK, Errors, service, session, pollers, closers, environment
<1>1. CASE RunTop
  BY <1>1 DEF RunTop, PointerInv, Holding, Informed, Serving, SupLabels
<1>2. CASE RunOpenFail
  BY <1>2 DEF RunOpenFail, PointerInv, Holding, Informed, Serving, SupLabels
<1>3. CASE RunOpen
  <2>1. PICK s \in Sessions :
          /\ cur' = s
          /\ transport' = [transport EXCEPT ![s] = "open"]
          /\ reader' = [reader EXCEPT ![s] = "read"]
          /\ latest' = [latest EXCEPT ![s] = None]
          /\ readErr' = [readErr EXCEPT ![s] = FALSE]
          /\ response' = [response EXCEPT ![s] = "none"]
          /\ origin' = [origin EXCEPT ![s] = Nil]
          /\ wire' = [i \in DOMAIN wire |-> IF wire[i] = s THEN Nil ELSE wire[i]]
    BY <1>3 DEF RunOpen
  <2>2. wire' \in Seq(Sessions \cup {Nil}) /\ Len(wire') = Len(wire)
    BY <2>1, ForgottenRequests
  <2> QED
    BY <1>3, <2>1, <2>2 DEF RunOpen, SupLabels
<1>4. CASE RunVerify
  <2>1. cur \in Sessions
    BY <1>4 DEF RunVerify, PointerInv, Holding
  <2>2. wire' \in Seq(Sessions \cup {Nil}) /\ Len(wire') <= MaxWire
    BY <1>4, <2>1, SentRequest DEF RunVerify
  <2> QED
    BY <1>4, <2>1, <2>2 DEF RunVerify, SupLabels
<1>5. CASE RunVerifyClosed
  BY <1>5
  DEF RunVerifyClosed, VerifyFailed, PointerInv, Holding, Informed, Serving,
      SupLabels
<1>6. CASE RunVersionGood
  BY <1>6 DEF RunVersionGood, PointerInv, Holding, Informed, Serving, SupLabels
<1>7. CASE RunVersionBad
  BY <1>7
  DEF RunVersionBad, VerifyFailed, PointerInv, Holding, Informed, Serving, SupLabels
<1>8. CASE RunVersionTimeout
  BY <1>8
  DEF RunVersionTimeout, VerifyFailed, PointerInv, Holding, Informed, Serving,
      SupLabels
<1>9. CASE RunVersionContext
  BY <1>9
  DEF RunVersionContext, VerifyFailed, PointerInv, Holding, Informed, Serving,
      SupLabels
<1>10. CASE RunVersionDone
  BY <1>10
  DEF RunVersionDone, VerifyFailed, PointerInv, Holding, Informed, Serving,
      SupLabels, SessionErr
<1>11. CASE RunAbandon
  BY <1>11
  DEF RunAbandon, PointerInv, Holding, Informed, Serving, SupLabels, CloseBegin
<1>12. CASE RunAbandoning
  BY <1>12
  DEF RunAbandoning, PointerInv, Holding, Informed, Serving, SupLabels, CloseEnd
<1>13. CASE RunAbandonWait
  BY <1>13 DEF RunAbandonWait, PointerInv, Holding, Informed, Serving, SupLabels
<1>14. CASE RunStoreInfo
  BY <1>14 DEF RunStoreInfo, PointerInv, Holding, Informed, Serving, SupLabels
<1>15. CASE RunClearErr
  BY <1>15 DEF RunClearErr, PointerInv, Holding, Informed, Serving, SupLabels
<1>16. CASE RunStoreActive
  <2>1. active' \in Sessions \cup {Nil} /\ latest' = latest /\ Witnessed
    BY <1>16 DEF RunStoreActive
  <2>2. seen' \in [Pollers -> SUBSET (Cards \cup {None})]
    BY <2>1, WitnessedType
  <2> QED
    BY <1>16, <2>1, <2>2 DEF RunStoreActive, SupLabels
<1>17. CASE RunServeDone
  BY <1>17 DEF RunServeDone, PointerInv, Holding, Informed, Serving, SupLabels
<1>18. CASE RunServeContext
  BY <1>18
  DEF RunServeContext, PointerInv, Holding, Informed, Serving, SupLabels, CloseBegin
<1>19. CASE RunServeClosing
  BY <1>19
  DEF RunServeClosing, PointerInv, Holding, Informed, Serving, SupLabels, CloseEnd
<1>20. CASE RunServeWait
  BY <1>20 DEF RunServeWait, PointerInv, Holding, Informed, Serving, SupLabels
<1>21. CASE RunClearActive
  <2>1. active' \in Sessions \cup {Nil} /\ latest' = latest /\ Witnessed
    BY <1>21 DEF RunClearActive
  <2>2. seen' \in [Pollers -> SUBSET (Cards \cup {None})]
    BY <2>1, WitnessedType
  <2> QED
    BY <1>21, <2>1, <2>2 DEF RunClearActive, SupLabels
<1>22. CASE RunClearInfo
  BY <1>22 DEF RunClearInfo, PointerInv, Holding, Informed, Serving, SupLabels
<1>23. CASE RunStoreErr
  BY <1>23
  DEF RunStoreErr, PointerInv, Holding, Informed, Serving, SupLabels, SessionErr
<1>24. CASE RunLastClose
  BY <1>24
  DEF RunLastClose, PointerInv, Holding, Informed, Serving, SupLabels, CloseBegin
<1>25. CASE RunLastClosing
  BY <1>25
  DEF RunLastClosing, PointerInv, Holding, Informed, Serving, SupLabels, CloseEnd
<1>26. CASE RunRetry
  BY <1>26 DEF RunRetry, PointerInv, Holding, Informed, Serving, SupLabels
<1>27. CASE RunSleep
  BY <1>27 DEF RunSleep, PointerInv, Holding, Informed, Serving, SupLabels
<1>28. CASE RunExit
  BY <1>28 DEF RunExit, PointerInv, Holding, Informed, Serving, SupLabels
<1> QED
  BY <1>1, <1>2, <1>3, <1>4, <1>5, <1>6, <1>7, <1>8, <1>9, <1>10, <1>11, <1>12,
     <1>13, <1>14, <1>15, <1>16, <1>17, <1>18, <1>19, <1>20, <1>21, <1>22, <1>23,
     <1>24, <1>25, <1>26, <1>27, <1>28
  DEF run, VerifyVersion

LEMMA OtherTypeOK ==
    ASSUME TypeOK, CloserInv, Next, ~run
    PROVE  TypeOK'
<1> USE DEF TypeOK, service, session, pollers, closers, environment
<1>1. ASSUME NEW s \in Sessions, ReaderSignal(s) PROVE TypeOK'
  <2>1. active' \in Sessions \cup {Nil} /\ latest' \in [Sessions -> Cards \cup {None}]
    BY <1>1 DEF ReaderSignal
  <2>2. seen' \in [Pollers -> SUBSET (Cards \cup {None})]
    BY <1>1, <2>1, WitnessedType DEF ReaderSignal
  <2> QED
    BY <1>1, <2>1, <2>2 DEF ReaderSignal
<1>2. ASSUME NEW s \in Sessions, ReaderResponse(s) PROVE TypeOK'
  BY <1>2, AnsweredRequest DEF ReaderResponse
<1>3. ASSUME NEW s \in Sessions, ReaderFail(s) PROVE TypeOK'
  BY <1>3 DEF ReaderFail
<1>4. ASSUME NEW s \in Sessions, ReaderClear(s) PROVE TypeOK'
  <2>1. active' \in Sessions \cup {Nil} /\ latest' \in [Sessions -> Cards \cup {None}]
    BY <1>4 DEF ReaderClear
  <2>2. seen' \in [Pollers -> SUBSET (Cards \cup {None})]
    BY <1>4, <2>1, WitnessedType DEF ReaderClear
  <2> QED
    BY <1>4, <2>1, <2>2 DEF ReaderClear
<1>5. ASSUME NEW s \in Sessions, ReaderStoreErr(s) PROVE TypeOK'
  BY <1>5 DEF ReaderStoreErr
<1>6. ASSUME NEW s \in Sessions, ReaderDone(s) PROVE TypeOK'
  BY <1>6 DEF ReaderDone
<1>7. ASSUME NEW g \in Pollers, PollActive(g) PROVE TypeOK'
  BY <1>7 DEF PollActive, Shown
<1>8. ASSUME NEW g \in Pollers, PollLatest(g) PROVE TypeOK'
  BY <1>8 DEF PollLatest
<1>9. ASSUME NEW g \in Pollers, PollEnd(g) PROVE TypeOK'
  BY <1>9 DEF PollEnd
<1>10. ASSUME NEW c \in Closers, CloseSwap(c) PROVE TypeOK'
  BY <1>10 DEF CloseSwap
<1>11. ASSUME NEW c \in Closers, CloseCancel(c) PROVE TypeOK'
  BY <1>11 DEF CloseCancel
<1>12. ASSUME NEW c \in Closers, CloseLoad(c) PROVE TypeOK'
  BY <1>12 DEF CloseLoad
<1>13. ASSUME NEW c \in Closers, CloseSession(c) PROVE TypeOK'
  BY <1>13 DEF CloseSession, CloseBegin
<1>14. ASSUME NEW c \in Closers, CloseClosing(c) PROVE TypeOK'
  BY <1>14 DEF CloseClosing, CloseEnd
<1>15. ASSUME NEW c \in Closers, CloseStopped(c) PROVE TypeOK'
  BY <1>15 DEF CloseStopped
<1>16. ASSUME NEW s \in Sessions, TransportDrop(s) PROVE TypeOK'
  BY <1>16 DEF TransportDrop
<1>17. CASE WireLose
  BY <1>17, AnsweredRequest DEF WireLose
<1>18. CASE Stabilise
  BY <1>18 DEF Stabilise
<1> QED
  BY <1>1, <1>2, <1>3, <1>4, <1>5, <1>6, <1>7, <1>8, <1>9, <1>10, <1>11, <1>12,
     <1>13, <1>14, <1>15, <1>16, <1>17, <1>18
  DEF Next, readLoop, CurrentCard, Close

-----------------------------------------------------------------------------
(* The parts of the invariant, one lemma each.                             *)

\* Only run writes the pointers.
LEMMA PointerStep ==
    ASSUME TypeOK, PointerInv, Next
    PROVE  PointerInv'
<1>1. CASE run
  <2> USE DEF PointerInv, Holding, Informed, Serving
  <2>1. CASE RunTop
    BY <2>1 DEF RunTop, service
  <2>2. CASE RunOpenFail
    BY <2>2 DEF RunOpenFail, service
  <2>3. CASE RunOpen
    BY <2>3 DEF RunOpen, service
  <2>4. CASE RunVerify
    BY <2>4 DEF RunVerify, service
  <2>5. CASE RunVerifyClosed
    BY <2>5 DEF RunVerifyClosed, VerifyFailed, service
  <2>6. CASE RunVersionGood
    BY <2>6 DEF RunVersionGood, service
  <2>7. CASE RunVersionBad
    BY <2>7 DEF RunVersionBad, VerifyFailed, service
  <2>8. CASE RunVersionTimeout
    BY <2>8 DEF RunVersionTimeout, VerifyFailed, service
  <2>9. CASE RunVersionContext
    BY <2>9 DEF RunVersionContext, VerifyFailed, service
  <2>10. CASE RunVersionDone
    BY <2>10 DEF RunVersionDone, VerifyFailed, service
  <2>11. CASE RunAbandon
    BY <2>11 DEF RunAbandon, service, CloseBegin
  <2>12. CASE RunAbandoning
    BY <2>12 DEF RunAbandoning, service, CloseEnd
  <2>13. CASE RunAbandonWait
    BY <2>13 DEF RunAbandonWait, service
  <2>14. CASE RunStoreInfo
    BY <2>14 DEF RunStoreInfo, service
  <2>15. CASE RunClearErr
    BY <2>15 DEF RunClearErr, service
  <2>16. CASE RunStoreActive
    BY <2>16 DEF RunStoreActive, service
  <2>17. CASE RunServeDone
    BY <2>17 DEF RunServeDone, service
  <2>18. CASE RunServeContext
    BY <2>18 DEF RunServeContext, service, CloseBegin
  <2>19. CASE RunServeClosing
    BY <2>19 DEF RunServeClosing, service, CloseEnd
  <2>20. CASE RunServeWait
    BY <2>20 DEF RunServeWait, service
  <2>21. CASE RunClearActive
    BY <2>21 DEF RunClearActive, service
  <2>22. CASE RunClearInfo
    BY <2>22 DEF RunClearInfo, service
  <2>23. CASE RunStoreErr
    BY <2>23 DEF RunStoreErr, service
  <2>24. CASE RunLastClose
    BY <2>24 DEF RunLastClose, service, CloseBegin
  <2>25. CASE RunLastClosing
    BY <2>25 DEF RunLastClosing, service, CloseEnd
  <2>26. CASE RunRetry
    BY <2>26 DEF RunRetry, service
  <2>27. CASE RunSleep
    BY <2>27 DEF RunSleep, service
  <2>28. CASE RunExit
    BY <2>28 DEF RunExit, service
  <2> QED
    BY <1>1, <2>1, <2>2, <2>3, <2>4, <2>5, <2>6, <2>7, <2>8, <2>9, <2>10, <2>11,
       <2>12, <2>13, <2>14, <2>15, <2>16, <2>17, <2>18, <2>19, <2>20, <2>21, <2>22,
       <2>23, <2>24, <2>25, <2>26, <2>27, <2>28
    DEF run, VerifyVersion
<1>2. CASE ~run
  <2>1. UNCHANGED <<sup, cur, active, deviceInfo>>
    BY <1>2, ReaderFrame, GetterFrame, CloseFrame, EnvironmentFrame DEF Next, service
  <2> QED
    BY <2>1 DEF PointerInv
<1> QED
  BY <1>1, <1>2

\* The calls of Close, and run, which ends only when one of them has cancelled.
LEMMA CloserStep ==
    ASSUME TypeOK, PointerInv, CloserInv, Next
    PROVE  CloserInv'
<1>1. CASE run
  <2>1. UNCHANGED <<ctx, closed, cpc, cptr>>
    BY <1>1, RunFrame DEF closers
  <2>2. (sup' \in {"exit", "gone"} => ctx) /\ (stopped' <=> sup' = "gone") /\ ~stopped
    <3> USE DEF CloserInv
    <3>1. CASE RunTop
      BY <3>1 DEF RunTop, service
    <3>2. CASE RunOpenFail
      BY <3>2 DEF RunOpenFail, service
    <3>3. CASE RunOpen
      BY <3>3 DEF RunOpen, service
    <3>4. CASE RunVerify
      BY <3>4 DEF RunVerify, service
    <3>5. CASE RunVerifyClosed
      BY <3>5 DEF RunVerifyClosed, VerifyFailed, service
    <3>6. CASE RunVersionGood
      BY <3>6 DEF RunVersionGood, service
    <3>7. CASE RunVersionBad
      BY <3>7 DEF RunVersionBad, VerifyFailed, service
    <3>8. CASE RunVersionTimeout
      BY <3>8 DEF RunVersionTimeout, VerifyFailed, service
    <3>9. CASE RunVersionContext
      BY <3>9 DEF RunVersionContext, VerifyFailed, service
    <3>10. CASE RunVersionDone
      BY <3>10 DEF RunVersionDone, VerifyFailed, service
    <3>11. CASE RunAbandon
      BY <3>11 DEF RunAbandon, service
    <3>12. CASE RunAbandoning
      BY <3>12 DEF RunAbandoning, service
    <3>13. CASE RunAbandonWait
      BY <3>13 DEF RunAbandonWait, service
    <3>14. CASE RunStoreInfo
      BY <3>14 DEF RunStoreInfo, service
    <3>15. CASE RunClearErr
      BY <3>15 DEF RunClearErr, service
    <3>16. CASE RunStoreActive
      BY <3>16 DEF RunStoreActive, service
    <3>17. CASE RunServeDone
      BY <3>17 DEF RunServeDone, service
    <3>18. CASE RunServeContext
      BY <3>18 DEF RunServeContext, service
    <3>19. CASE RunServeClosing
      BY <3>19 DEF RunServeClosing, service
    <3>20. CASE RunServeWait
      BY <3>20 DEF RunServeWait, service
    <3>21. CASE RunClearActive
      BY <3>21 DEF RunClearActive, service
    <3>22. CASE RunClearInfo
      BY <3>22 DEF RunClearInfo, service
    <3>23. CASE RunStoreErr
      BY <3>23 DEF RunStoreErr, service
    <3>24. CASE RunLastClose
      BY <3>24 DEF RunLastClose, service
    <3>25. CASE RunLastClosing
      BY <3>25 DEF RunLastClosing, service
    <3>26. CASE RunRetry
      BY <3>26 DEF RunRetry, service
    <3>27. CASE RunSleep
      BY <3>27 DEF RunSleep, service
    <3>28. CASE RunExit
      BY <3>28 DEF RunExit, service
    <3> QED
      BY <1>1, <3>1, <3>2, <3>3, <3>4, <3>5, <3>6, <3>7, <3>8, <3>9, <3>10, <3>11,
         <3>12, <3>13, <3>14, <3>15, <3>16, <3>17, <3>18, <3>19, <3>20, <3>21, <3>22,
         <3>23, <3>24, <3>25, <3>26, <3>27, <3>28
      DEF run, VerifyVersion
  <2> QED
    BY <2>1, <2>2 DEF CloserInv
<1>2. ASSUME NEW c \in Closers, Close(c) PROVE CloserInv'
  <2>0. UNCHANGED <<sup, stopped, active>>
    BY <1>2, CloseFrame
  <2> USE DEF TypeOK, CloserInv
  <2>1. CASE CloseSwap(c)
    BY <2>1, <2>0 DEF CloseSwap, Winning, service
  <2>2. CASE CloseCancel(c)
    BY <2>2, <2>0 DEF CloseCancel, Winning, service
  <2>3. CASE CloseLoad(c)
    BY <2>3, <2>0 DEF CloseLoad, Winning, service
  <2>4. CASE CloseSession(c)
    BY <2>4, <2>0 DEF CloseSession, Winning, service
  <2>5. CASE CloseClosing(c)
    BY <2>5, <2>0 DEF CloseClosing, Winning, service
  <2>6. CASE CloseStopped(c)
    BY <2>6, <2>0 DEF CloseStopped, Winning, service
  <2> QED
    BY <1>2, <2>1, <2>2, <2>3, <2>4, <2>5, <2>6 DEF Close
<1>3. CASE ~run /\ ~(\E c \in Closers : Close(c))
  <2>1. UNCHANGED <<sup, ctx, stopped, closed, cpc, cptr>>
    BY <1>3, ReaderFrame, GetterFrame, EnvironmentFrame DEF Next, service, closers
  <2> QED
    BY <2>1 DEF CloserInv
<1> QED
  BY <1>1, <1>2, <1>3

\* run lets a session go only when its read loop has ended.
LEMMA ReaderStep ==
    ASSUME TypeOK, PointerInv, ReaderInv, Next
    PROVE  ReaderInv'
<1>1. CASE run
  <2> USE DEF TypeOK, PointerInv, ReaderInv, Holding, Informed, Serving, Done
  <2>1. CASE RunTop
    BY <2>1 DEF RunTop, session
  <2>2. CASE RunOpenFail
    BY <2>2 DEF RunOpenFail, session
  <2>3. CASE RunOpen
    BY <2>3, NilAssumption DEF RunOpen, Free
  <2>4. CASE RunVerify
    BY <2>4 DEF RunVerify, session
  <2>5. CASE RunVerifyClosed
    BY <2>5 DEF RunVerifyClosed, VerifyFailed, session
  <2>6. CASE RunVersionGood
    BY <2>6 DEF RunVersionGood, session
  <2>7. CASE RunVersionBad
    BY <2>7 DEF RunVersionBad, VerifyFailed, session
  <2>8. CASE RunVersionTimeout
    BY <2>8 DEF RunVersionTimeout, VerifyFailed, session
  <2>9. CASE RunVersionContext
    BY <2>9 DEF RunVersionContext, VerifyFailed, session
  <2>10. CASE RunVersionDone
    BY <2>10 DEF RunVersionDone, VerifyFailed, session
  <2>11. CASE RunAbandon
    BY <2>11 DEF RunAbandon, session
  <2>12. CASE RunAbandoning
    BY <2>12 DEF RunAbandoning, session
  <2>13. CASE RunAbandonWait
    BY <2>13 DEF RunAbandonWait, session
  <2>14. CASE RunStoreInfo
    BY <2>14 DEF RunStoreInfo, session
  <2>15. CASE RunClearErr
    BY <2>15 DEF RunClearErr, session
  <2>16. CASE RunStoreActive
    BY <2>16 DEF RunStoreActive, session
  <2>17. CASE RunServeDone
    BY <2>17 DEF RunServeDone, session
  <2>18. CASE RunServeContext
    BY <2>18 DEF RunServeContext, session
  <2>19. CASE RunServeClosing
    BY <2>19 DEF RunServeClosing, session
  <2>20. CASE RunServeWait
    BY <2>20 DEF RunServeWait, session
  <2>21. CASE RunClearActive
    BY <2>21 DEF RunClearActive, session
  <2>22. CASE RunClearInfo
    BY <2>22 DEF RunClearInfo, session
  <2>23. CASE RunStoreErr
    BY <2>23 DEF RunStoreErr, session
  <2>24. CASE RunLastClose
    BY <2>24 DEF RunLastClose, session
  <2>25. CASE RunLastClosing
    BY <2>25 DEF RunLastClosing, session
  <2>26. CASE RunRetry
    BY <2>26 DEF RunRetry, session
  <2>27. CASE RunSleep
    BY <2>27 DEF RunSleep, session
  <2>28. CASE RunExit
    BY <2>28 DEF RunExit, session
  <2> QED
    BY <1>1, <2>1, <2>2, <2>3, <2>4, <2>5, <2>6, <2>7, <2>8, <2>9, <2>10, <2>11,
       <2>12, <2>13, <2>14, <2>15, <2>16, <2>17, <2>18, <2>19, <2>20, <2>21, <2>22,
       <2>23, <2>24, <2>25, <2>26, <2>27, <2>28
    DEF run, VerifyVersion
<1>2. ASSUME NEW s \in Sessions, readLoop(s) PROVE ReaderInv'
  <2>0. UNCHANGED <<sup, cur>>
    BY <1>2, ReaderFrame
  <2> USE DEF TypeOK, PointerInv, ReaderInv, Done
  <2>1. CASE ReaderSignal(s)
    BY <2>1, <2>0 DEF ReaderSignal
  <2>2. CASE ReaderResponse(s)
    BY <2>2, <2>0 DEF ReaderResponse
  <2>3. CASE ReaderFail(s)
    BY <2>3, <2>0 DEF ReaderFail
  <2>4. CASE ReaderClear(s)
    BY <2>4, <2>0 DEF ReaderClear
  <2>5. CASE ReaderStoreErr(s)
    BY <2>5, <2>0 DEF ReaderStoreErr
  <2>6. CASE ReaderDone(s)
    BY <2>6, <2>0 DEF ReaderDone
  <2> QED
    BY <1>2, <2>1, <2>2, <2>3, <2>4, <2>5, <2>6 DEF readLoop
<1>3. CASE ~run /\ ~(\E s \in Sessions : readLoop(s))
  <2>1. UNCHANGED <<sup, cur, reader, latest, readErr>>
    BY <1>3, GetterFrame, CloseFrame, EnvironmentFrame DEF Next, session
  <2> QED
    BY <2>1 DEF ReaderInv, Done
<1> QED
  BY <1>1, <1>2, <1>3

\* run has stored an error where it gives up, and the read loop has stored its own
\* before run asks for it.
LEMMA ErrorStep ==
    ASSUME TypeOK, PointerInv, ReaderInv, ErrorInv, Next
    PROVE  ErrorInv'
<1>1. CASE run
  <2> USE NilAssumption DEF ErrorInv, Errors
  <2>1. CASE RunTop
    BY <2>1 DEF RunTop, service
  <2>2. CASE RunOpenFail
    BY <2>2 DEF RunOpenFail, service
  <2>3. CASE RunOpen
    BY <2>3 DEF RunOpen, service
  <2>4. CASE RunVerify
    BY <2>4 DEF RunVerify, service
  <2>5. CASE RunVerifyClosed
    BY <2>5 DEF RunVerifyClosed, VerifyFailed, service
  <2>6. CASE RunVersionGood
    BY <2>6 DEF RunVersionGood, service
  <2>7. CASE RunVersionBad
    BY <2>7 DEF RunVersionBad, VerifyFailed, service
  <2>8. CASE RunVersionTimeout
    BY <2>8 DEF RunVersionTimeout, VerifyFailed, service
  <2>9. CASE RunVersionContext
    BY <2>9 DEF RunVersionContext, VerifyFailed, service
  <2>10. CASE RunVersionDone
    BY <2>10 DEF RunVersionDone, VerifyFailed, SessionErr, Done, ReaderInv, Holding
  <2>11. CASE RunAbandon
    BY <2>11 DEF RunAbandon, service
  <2>12. CASE RunAbandoning
    BY <2>12 DEF RunAbandoning, service
  <2>13. CASE RunAbandonWait
    BY <2>13 DEF RunAbandonWait, service
  <2>14. CASE RunStoreInfo
    BY <2>14 DEF RunStoreInfo, service
  <2>15. CASE RunClearErr
    BY <2>15 DEF RunClearErr, service
  <2>16. CASE RunStoreActive
    BY <2>16 DEF RunStoreActive, service
  <2>17. CASE RunServeDone
    BY <2>17 DEF RunServeDone, service
  <2>18. CASE RunServeContext
    BY <2>18 DEF RunServeContext, service
  <2>19. CASE RunServeClosing
    BY <2>19 DEF RunServeClosing, service
  <2>20. CASE RunServeWait
    BY <2>20 DEF RunServeWait, service
  <2>21. CASE RunClearActive
    BY <2>21 DEF RunClearActive, service
  <2>22. CASE RunClearInfo
    BY <2>22 DEF RunClearInfo, service
  <2>23. CASE RunStoreErr
    BY <2>23 DEF RunStoreErr, SessionErr, Done, ReaderInv, Holding, Informed
  <2>24. CASE RunLastClose
    BY <2>24 DEF RunLastClose, service
  <2>25. CASE RunLastClosing
    BY <2>25 DEF RunLastClosing, service
  <2>26. CASE RunRetry
    BY <2>26 DEF RunRetry, service
  <2>27. CASE RunSleep
    BY <2>27 DEF RunSleep, service
  <2>28. CASE RunExit
    BY <2>28 DEF RunExit, service
  <2> QED
    BY <1>1, <2>1, <2>2, <2>3, <2>4, <2>5, <2>6, <2>7, <2>8, <2>9, <2>10, <2>11,
       <2>12, <2>13, <2>14, <2>15, <2>16, <2>17, <2>18, <2>19, <2>20, <2>21, <2>22,
       <2>23, <2>24, <2>25, <2>26, <2>27, <2>28
    DEF run, VerifyVersion
<1>2. CASE ~run
  <2>1. UNCHANGED <<sup, lastErr>>
    BY <1>2, ReaderFrame, GetterFrame, CloseFrame, EnvironmentFrame DEF Next, service
  <2> QED
    BY <2>1 DEF ErrorInv
<1> QED
  BY <1>1, <1>2

\* A handle is let go only closed, or while the Close call that cancelled run is
\* inside hid_close.
LEMMA HandleStep ==
    ASSUME TypeOK, PointerInv, CloserInv, HandleInv, Next
    PROVE  HandleInv'
<1>1. CASE run
  <2>0. UNCHANGED <<ctx, cpc, cptr>>
    BY <1>1, RunFrame DEF closers
  <2> USE DEF TypeOK, PointerInv, HandleInv, Holding, Informed, Serving
  <2>1. CASE RunTop
    BY <2>1, <2>0 DEF RunTop, session, CloserInv
  <2>2. CASE RunOpenFail
    BY <2>2, <2>0 DEF RunOpenFail, session, CloserInv
  <2>3. CASE RunOpen
    BY <2>3, <2>0, NilAssumption DEF RunOpen, Free, CloserInv
  <2>4. CASE RunVerify
    BY <2>4, <2>0 DEF RunVerify, session, CloserInv
  <2>5. CASE RunVerifyClosed
    BY <2>5, <2>0 DEF RunVerifyClosed, VerifyFailed, session, CloserInv
  <2>6. CASE RunVersionGood
    BY <2>6, <2>0 DEF RunVersionGood, session, CloserInv
  <2>7. CASE RunVersionBad
    BY <2>7, <2>0 DEF RunVersionBad, VerifyFailed, session, CloserInv
  <2>8. CASE RunVersionTimeout
    BY <2>8, <2>0 DEF RunVersionTimeout, VerifyFailed, session, CloserInv
  <2>9. CASE RunVersionContext
    BY <2>9, <2>0 DEF RunVersionContext, VerifyFailed, session, CloserInv
  <2>10. CASE RunVersionDone
    BY <2>10, <2>0 DEF RunVersionDone, VerifyFailed, session, CloserInv
  <2>11. CASE RunAbandon
    BY <2>11, <2>0 DEF RunAbandon, session, CloserInv, CloseBegin
  <2>12. CASE RunAbandoning
    BY <2>12, <2>0 DEF RunAbandoning, session, CloserInv, CloseEnd
  <2>13. CASE RunAbandonWait
    BY <2>13, <2>0 DEF RunAbandonWait, session, CloserInv
  <2>14. CASE RunStoreInfo
    BY <2>14, <2>0 DEF RunStoreInfo, session, CloserInv
  <2>15. CASE RunClearErr
    BY <2>15, <2>0 DEF RunClearErr, session, CloserInv
  <2>16. CASE RunStoreActive
    BY <2>16, <2>0 DEF RunStoreActive, session, CloserInv
  <2>17. CASE RunServeDone
    BY <2>17, <2>0 DEF RunServeDone, session, CloserInv
  <2>18. CASE RunServeContext
    BY <2>18, <2>0 DEF RunServeContext, session, CloserInv, CloseBegin
  <2>19. CASE RunServeClosing
    BY <2>19, <2>0 DEF RunServeClosing, session, CloserInv, CloseEnd
  <2>20. CASE RunServeWait
    BY <2>20, <2>0 DEF RunServeWait, session, CloserInv
  <2>21. CASE RunClearActive
    BY <2>21, <2>0 DEF RunClearActive, session, CloserInv
  <2>22. CASE RunClearInfo
    BY <2>22, <2>0 DEF RunClearInfo, session, CloserInv
  <2>23. CASE RunStoreErr
    BY <2>23, <2>0 DEF RunStoreErr, session, CloserInv
  <2>24. CASE RunLastClose
    BY <2>24, <2>0 DEF RunLastClose, session, CloserInv, CloseBegin
  <2>25. CASE RunLastClosing
    BY <2>25, <2>0 DEF RunLastClosing, session, CloserInv, CloseEnd
  <2>26. CASE RunRetry
    BY <2>26, <2>0, NilAssumption DEF RunRetry, session, CloserInv
  <2>27. CASE RunSleep
    BY <2>27, <2>0 DEF RunSleep, session, CloserInv
  <2>28. CASE RunExit
    BY <2>28, <2>0 DEF RunExit, session, CloserInv
  <2> QED
    BY <1>1, <2>1, <2>2, <2>3, <2>4, <2>5, <2>6, <2>7, <2>8, <2>9, <2>10, <2>11,
       <2>12, <2>13, <2>14, <2>15, <2>16, <2>17, <2>18, <2>19, <2>20, <2>21, <2>22,
       <2>23, <2>24, <2>25, <2>26, <2>27, <2>28
    DEF run, VerifyVersion
<1>2. ASSUME NEW c \in Closers, Close(c) PROVE HandleInv'
  <2>0. UNCHANGED <<sup, cur, stopped>>
    BY <1>2, CloseFrame
  <2> USE DEF TypeOK, HandleInv
  <2>1. CASE CloseSwap(c)
    BY <2>1, <2>0 DEF CloseSwap, session, CloserInv, Winning
  <2>2. CASE CloseCancel(c)
    BY <2>2, <2>0 DEF CloseCancel, session, CloserInv, Winning
  <2>3. CASE CloseLoad(c)
    BY <2>3, <2>0 DEF CloseLoad, session, CloserInv, Winning
  <2>4. CASE CloseSession(c)
    BY <2>4, <2>0 DEF CloseSession, session, CloserInv, Winning, CloseBegin
  <2>5. CASE CloseClosing(c)
    BY <2>5, <2>0 DEF CloseClosing, session, CloserInv, Winning, CloseEnd
  <2>6. CASE CloseStopped(c)
    <3>1. sup = "gone" /\ cur = Nil /\ transport' = transport
      BY <2>6 DEF CloseStopped, CloserInv, PointerInv, Holding, Informed, Serving, session
    <3>2. ASSUME cpc[c] = "wait", NEW s \in Sessions PROVE transport[s] = "closed"
      <4>1. s # cur
        BY <3>1, NilAssumption
      <4>2. \A d \in Closers : cpc[d] # "closing"
        BY <3>2 DEF CloserInv, Winning
      <4> QED
        BY <4>1, <4>2
    <3>3. cpc' = [cpc EXCEPT ![c] = IF @ = "wait" THEN "returned" ELSE "returnedLost"]
      BY <2>6 DEF CloseStopped
    <3>4. \A d \in Closers : cpc[d] = "closing" => cpc'[d] = "closing" /\ cptr'[d] = cptr[d]
      BY <2>6 DEF CloseStopped
    <3> QED
      BY <2>0, <3>1, <3>2, <3>3, <3>4
  <2> QED
    BY <1>2, <2>1, <2>2, <2>3, <2>4, <2>5, <2>6 DEF Close
<1>3. ASSUME NEW s \in Sessions, TransportDrop(s) PROVE HandleInv'
  BY <1>3 DEF TransportDrop, HandleInv, TypeOK, closers
<1>4. CASE /\ ~run /\ ~(\E c \in Closers : Close(c))
           /\ ~(\E s \in Sessions : TransportDrop(s))
  <2>1. UNCHANGED <<sup, cur, transport, cpc, cptr>>
    BY <1>4, ReaderFrame, GetterFrame DEF Next, WireLose, Stabilise, session, closers
  <2> QED
    BY <2>1 DEF HandleInv
<1> QED
  BY <1>1, <1>2, <1>3, <1>4

\* A step that a getter cannot see.
LEMMA PollUnseen ==
    ASSUME TypeOK, PollInv,
           UNCHANGED <<active, latest, poll, ptr, result, seen>>,
           \A s \in Sessions : Done(s) => Done(s)'
    PROVE  PollInv'
<1> SUFFICES ASSUME NEW g \in Pollers
             PROVE  /\ ptr[g] # Nil => ptr[g] = active \/ Done(ptr[g])'
                    /\ poll[g] = "running" => {Shown, Loaded(g)} \subseteq seen[g]
                    /\ poll[g] = "returned" => result[g] \in seen[g]
  BY DEF PollInv, Shown, Loaded, Done
<1> QED
  BY DEF PollInv, TypeOK

\* A session that a getter has loaded is changed only while it is the active one,
\* and then the getter has seen the change.
LEMMA PollStep ==
    ASSUME TypeOK, PointerInv, ReaderInv, PollInv, Next
    PROVE  PollInv'
<1>1. CASE RunOpen
  <2>1. PICK s \in Sessions :
          /\ Free(s)
          /\ reader' = [reader EXCEPT ![s] = "read"]
          /\ latest' = [latest EXCEPT ![s] = None]
    BY <1>1 DEF RunOpen
  <2>2. UNCHANGED <<active, poll, ptr, result, seen>>
    BY <1>1 DEF RunOpen, service, pollers
  <2> QED
    BY <2>1, <2>2 DEF Free, TypeOK, PollInv, Shown, Loaded, Done
<1>2. CASE RunStoreActive
  <2>1. /\ active = Nil /\ active' = cur /\ Witnessed
        /\ UNCHANGED <<reader, latest, poll, ptr, result>>
    BY <1>2 DEF RunStoreActive, PointerInv, Holding, Informed, Serving, session
  <2> QED
    BY <2>1 DEF TypeOK, PollInv, Witnessed, Loaded, Done
<1>3. CASE RunClearActive
  <2>1. /\ active = cur /\ active' = Nil /\ Done(cur) /\ Witnessed
        /\ UNCHANGED <<reader, latest, poll, ptr, result>>
    BY <1>3 DEF RunClearActive, PointerInv, ReaderInv, Holding, Informed, Serving, session
  <2> QED
    BY <2>1 DEF TypeOK, PollInv, Witnessed, Loaded, Done
<1>4. CASE run /\ ~RunOpen /\ ~RunStoreActive /\ ~RunClearActive
  <2>1. UNCHANGED <<active, reader, latest, poll, ptr, result, seen>>
    BY <1>4
    DEF run, VerifyVersion, RunTop, RunOpenFail, RunVerify, RunVerifyClosed,
        RunVersionGood, RunVersionBad, RunVersionTimeout, RunVersionContext,
        RunVersionDone, RunAbandon, RunAbandoning, RunAbandonWait, RunStoreInfo,
        RunClearErr, RunServeDone, RunServeContext, RunServeClosing, RunServeWait,
        RunClearInfo, RunStoreErr, RunLastClose, RunLastClosing, RunRetry, RunSleep,
        RunExit, VerifyFailed, service, session, pollers
  <2> QED
    BY <2>1, PollUnseen DEF Done
<1>5. ASSUME NEW s \in Sessions, ReaderSignal(s) \/ ReaderClear(s) PROVE PollInv'
  <2>1. /\ ~Done(s) /\ Witnessed
        /\ \A r \in Sessions \ {s} : latest'[r] = latest[r] /\ reader'[r] = reader[r]
        /\ UNCHANGED <<active, poll, ptr, result>>
    BY <1>5 DEF ReaderSignal, ReaderClear, TypeOK, Done, service
  <2> SUFFICES ASSUME NEW g \in Pollers
               PROVE  /\ ptr[g] # Nil => ptr[g] = active \/ Done(ptr[g])'
                      /\ poll[g] = "running" => {Shown', Loaded(g)'} \subseteq seen'[g]
                      /\ poll[g] = "returned" => result[g] \in seen'[g]
    BY <2>1 DEF PollInv
  <2>2. ptr[g] # Nil => ptr[g] = active \/ Done(ptr[g])'
    BY <2>1 DEF PollInv, TypeOK, Done
  <2>3. poll[g] = "running" => Shown' \in seen'[g] /\ seen[g] \subseteq seen'[g]
    BY <2>1 DEF Witnessed
  <2>4. Loaded(g)' = Shown' \/ Loaded(g)' = Loaded(g)
    BY <2>1 DEF PollInv, TypeOK, Loaded, Shown
  <2>5. poll[g] = "returned" => seen'[g] = seen[g]
    BY <2>1 DEF Witnessed
  <2> QED
    BY <2>2, <2>3, <2>4, <2>5 DEF PollInv
<1>6. ASSUME NEW s \in Sessions, readLoop(s), ~ReaderSignal(s), ~ReaderClear(s) PROVE PollInv'
  <2>1. /\ UNCHANGED <<active, latest, poll, ptr, result, seen>>
        /\ \A r \in Sessions : Done(r) => Done(r)'
    BY <1>6 DEF readLoop, ReaderResponse, ReaderFail, ReaderStoreErr, ReaderDone, TypeOK,
                Done, service, pollers
  <2> QED
    BY <2>1, PollUnseen
<1>7. ASSUME NEW g \in Pollers, CurrentCard(g) PROVE PollInv'
  <2>0. UNCHANGED <<active, latest, reader>>
    BY <1>7, GetterFrame DEF service, session
  <2> USE DEF TypeOK, PollInv, Shown, Loaded, Done
  <2>1. CASE PollActive(g)
    BY <2>1, <2>0 DEF PollActive
  <2>2. CASE PollLatest(g)
    BY <2>2, <2>0 DEF PollLatest
  <2>3. CASE PollEnd(g)
    BY <2>3, <2>0 DEF PollEnd
  <2> QED
    BY <1>7, <2>1, <2>2, <2>3 DEF CurrentCard
<1>8. CASE \/ \E c \in Closers : Close(c)
           \/ \E s \in Sessions : TransportDrop(s)
           \/ WireLose \/ Stabilise
  <2>1. UNCHANGED <<active, latest, reader, poll, ptr, result, seen>>
    BY <1>8, CloseFrame, EnvironmentFrame DEF service, pollers
  <2> QED
    BY <2>1, PollUnseen DEF Done
<1> QED
  BY <1>1, <1>2, <1>3, <1>4, <1>5, <1>6, <1>7, <1>8 DEF Next

-----------------------------------------------------------------------------
(* The theorems.                                                           *)

LEMMA Invariance == Spec => []IInv
<1>1. Init => IInv
  <2> SUFFICES ASSUME Init PROVE IInv
    OBVIOUS
  <2> USE DEF Init
  <2>1. TypeOK
    <3>1. wire \in Seq(Sessions \cup {Nil}) /\ Len(wire) <= MaxWire
      BY WireAssumption, EmptySeq
    <3>2. ptr \in [Pollers -> Sessions \cup {Nil}] /\ cptr \in [Closers -> Sessions \cup {Nil}]
      OBVIOUS
    <3> QED
      BY <3>1, <3>2 DEF TypeOK, SupLabels
  <2>2. PointerInv /\ CloserInv
    BY DEF PointerInv, CloserInv, Holding, Informed, Serving, Winning
  <2>3. ReaderInv /\ HandleInv
    BY DEF ReaderInv, HandleInv, Holding, Informed, Serving, Done
  <2>4. ErrorInv /\ PollInv
    BY NilAssumption DEF ErrorInv, PollInv, Errors
  <2> QED
    BY <2>1, <2>2, <2>3, <2>4 DEF IInv
<1>2. IInv /\ [Next]_vars => IInv'
  <2>1. ASSUME IInv, Next PROVE IInv'
    <3>1. TypeOK /\ PointerInv /\ CloserInv /\ ReaderInv /\ HandleInv /\ ErrorInv /\ PollInv
      BY <2>1 DEF IInv
    <3>2. TypeOK'
      BY <2>1, <3>1, RunTypeOK, OtherTypeOK
    <3>3. PointerInv' /\ CloserInv' /\ ReaderInv' /\ HandleInv' /\ ErrorInv' /\ PollInv'
      BY <2>1, <3>1, PointerStep, CloserStep, ReaderStep, HandleStep, ErrorStep, PollStep
    <3> QED
      BY <3>2, <3>3 DEF IInv
  <2>2. ASSUME IInv, UNCHANGED vars PROVE IInv'
    <3> USE <2>2 DEF IInv, vars, service, session, pollers, closers, environment
    <3>1. TypeOK' /\ PointerInv' /\ CloserInv'
      BY DEF TypeOK, PointerInv, CloserInv
    <3>2. ReaderInv' /\ HandleInv' /\ ErrorInv'
      BY DEF ReaderInv, HandleInv, ErrorInv, Done
    <3>3. PollInv'
      BY PollUnseen DEF Done
    <3> QED
      BY <3>1, <3>2, <3>3
  <2> QED
    BY <2>1, <2>2
<1> QED
  BY <1>1, <1>2, PTL DEF Spec

\* The state of Service and Session keeps its types; in particular no card getter
\* and no Close call ever follows a nil session.
THEOREM TypeCorrect == Spec => []TypeOK
<1>1. IInv => TypeOK
  BY DEF IInv
<1> QED
  BY <1>1, Invariance, PTL

\* run opens a device only when the handle and the read loop of every earlier
\* session are gone, on whichever path they were torn down.
THEOREM OneDeviceAtATime == Spec => []OneDevice
<1>1. IInv => OneDevice
  BY NilAssumption DEF IInv, OneDevice, HandleInv, PointerInv, ReaderInv, Done, Holding,
                       Informed, Serving
<1> QED
  BY <1>1, Invariance, PTL

\* The card shown is a card of a read loop that still runs.
THEOREM ShownCardIsLive == Spec => []ShownIsLive
<1>1. IInv => ShownIsLive
  BY NilAssumption DEF IInv, TypeOK, ShownIsLive, Shown, PointerInv, ReaderInv, Holding,
                       Informed, Serving
<1> QED
  BY <1>1, Invariance, PTL

\* The two loads of a getter give a value that was current during the call.
THEOREM RegularGetters == Spec => []GettersAreRegular
<1>1. IInv => GettersAreRegular
  BY DEF IInv, PollInv, GettersAreRegular
<1> QED
  BY <1>1, Invariance, PTL

\* The error of the read loop is never replaced by the fallback E0502.
THEOREM CauseKept == Spec => []CauseIsKept
<1>1. IInv => CauseIsKept
  BY NilAssumption DEF IInv, TypeOK, CauseIsKept, ErrorInv, PointerInv, Err, Errors, Serving
<1> QED
  BY <1>1, Invariance, PTL

\* A Close call returns to a service that has let go of everything it is said to.
THEOREM ReleasedByClose == Spec => []CloseReleases
<1>1. ASSUME IInv, sup = "gone"
      PROVE  /\ active = Nil /\ deviceInfo = Nil
             /\ \A s \in Sessions : transport[s] # "open" /\ Done(s)
  BY <1>1, NilAssumption DEF IInv, PointerInv, HandleInv, ReaderInv, Done, Holding, Informed,
                             Serving
<1>2. IInv => CloseReleases
  BY <1>1 DEF IInv, CloserInv, HandleInv, CloseReleases
<1> QED
  BY <1>2, Invariance, PTL

-----------------------------------------------------------------------------
(* The refinement: RunStoreActive connects, RunClearActive disconnects, the *)
(* stores of the active session's read loop report, the steps of a getter  *)
(* are those of a read, and every other step stutters.                     *)

\* A step that neither the register nor its readers can see.
LEMMA RegisterUnseen ==
    ASSUME UNCHANGED <<active, Shown, poll, seen, result>>
    PROVE  UNCHANGED Register!vars
  BY DEF Register!vars

\* A store that changes nothing shown has been seen before.
LEMMA WitnessedAgain ==
    ASSUME TypeOK, PollInv, Witnessed, Shown' = Shown
    PROVE  seen' = seen
<1>1. \A g \in Pollers : poll[g] = "running" => seen[g] \cup {Shown'} = seen[g]
  BY DEF PollInv
<1> QED
  BY <1>1 DEF Witnessed, TypeOK

\* Each step of the service is a step of the card register or invisible to it.
LEMMA RegisterStep ==
    ASSUME IInv, IInv', Next
    PROVE  Register!Next \/ UNCHANGED Register!vars
<1> USE DEF IInv
<1>0. Shown' \in Cards \cup {None}
  BY DEF TypeOK, Shown
<1>1. CASE RunStoreActive
  <2>1. /\ active = Nil /\ active' # Nil /\ Witnessed
        /\ UNCHANGED <<poll, result>>
    BY <1>1, NilAssumption DEF RunStoreActive, PointerInv, Holding, Informed, Serving
  <2> QED
    BY <1>0, <2>1 DEF Register!Next, Register!Connect, Register!Witnessed, Witnessed
<1>2. CASE RunClearActive
  <2>1. /\ active # Nil /\ active' = Nil /\ Shown = None /\ Shown' = None /\ Witnessed
        /\ UNCHANGED <<poll, result>>
    BY <1>2, NilAssumption DEF RunClearActive, PointerInv, ReaderInv, Done, Shown, Holding,
                               Informed, Serving
  <2>2. seen' = seen
    BY <2>1, WitnessedAgain
  <2> QED
    BY <2>1, <2>2 DEF Register!Next, Register!Disconnect
<1>3. CASE run /\ ~RunStoreActive /\ ~RunClearActive
  <2>1. UNCHANGED <<active, poll, result, seen>>
    BY <1>3
    DEF run, VerifyVersion, RunTop, RunOpenFail, RunOpen, RunVerify, RunVerifyClosed,
        RunVersionGood, RunVersionBad, RunVersionTimeout, RunVersionContext,
        RunVersionDone, RunAbandon, RunAbandoning, RunAbandonWait, RunStoreInfo,
        RunClearErr, RunServeDone, RunServeContext, RunServeClosing, RunServeWait,
        RunClearInfo, RunStoreErr, RunLastClose, RunLastClosing, RunRetry, RunSleep,
        RunExit, VerifyFailed, service, pollers
  <2>2. Shown' = Shown
    <3>1. CASE RunOpen
      BY <2>1, <3>1 DEF RunOpen, Free, TypeOK, Shown
    <3>2. CASE ~RunOpen
      <4>1. UNCHANGED latest
        BY <1>3, <3>2
        DEF run, VerifyVersion, RunTop, RunOpenFail, RunVerify, RunVerifyClosed,
            RunVersionGood, RunVersionBad, RunVersionTimeout, RunVersionContext,
            RunVersionDone, RunAbandon, RunAbandoning, RunAbandonWait, RunStoreInfo,
            RunClearErr, RunServeDone, RunServeContext, RunServeClosing,
            RunServeWait, RunClearInfo, RunStoreErr, RunLastClose, RunLastClosing,
            RunRetry, RunSleep, RunExit, VerifyFailed, session
      <4> QED
        BY <2>1, <4>1 DEF Shown
    <3> QED
      BY <3>1, <3>2
  <2> QED
    BY <2>1, <2>2, RegisterUnseen
<1>4. ASSUME NEW s \in Sessions, ReaderSignal(s) \/ ReaderClear(s)
      PROVE  Register!Next \/ UNCHANGED Register!vars
  <2>1. /\ Witnessed
        /\ \A r \in Sessions \ {s} : latest'[r] = latest[r]
        /\ UNCHANGED <<active, poll, ptr, result>>
    BY <1>4 DEF ReaderSignal, ReaderClear, TypeOK, service
  <2>2. CASE active = s
    <3>1. active # Nil /\ active' # Nil
      BY <2>1, <2>2, NilAssumption
    <3> QED
      BY <1>0, <2>1, <3>1 DEF Register!Next, Register!Report, Register!Witnessed, Witnessed
  <2>3. CASE active # s
    <3>1. Shown' = Shown
      BY <2>1, <2>3 DEF TypeOK, Shown
    <3>2. seen' = seen
      BY <2>1, <3>1, WitnessedAgain
    <3> QED
      BY <2>1, <3>1, <3>2, RegisterUnseen
  <2> QED
    BY <2>2, <2>3
<1>5. ASSUME NEW s \in Sessions, readLoop(s), ~ReaderSignal(s), ~ReaderClear(s)
      PROVE  UNCHANGED Register!vars
  <2>1. UNCHANGED <<active, latest, poll, seen, result>>
    BY <1>5 DEF readLoop, ReaderResponse, ReaderFail, ReaderStoreErr, ReaderDone, service,
                pollers
  <2> QED
    BY <2>1, RegisterUnseen DEF Shown
<1>6. ASSUME NEW g \in Pollers, CurrentCard(g) PROVE Register!Next
  <2>0. UNCHANGED <<active, Shown>>
    BY <1>6, GetterFrame DEF service, session, Shown
  <2>1. CASE PollActive(g)
    BY <2>0, <2>1 DEF PollActive, Register!Next, Register!PollBegin
  <2>2. CASE PollLatest(g)
    <3>1. Loaded(g) \in seen[g] /\ result' = [result EXCEPT ![g] = Loaded(g)]
      BY <2>2 DEF PollLatest, PollInv, Loaded
    <3> QED
      BY <2>0, <2>2, <3>1 DEF PollLatest, Register!Next, Register!PollReturn
  <2>3. CASE PollEnd(g)
    BY <2>0, <2>3 DEF PollEnd, Register!Next, Register!PollEnd
  <2> QED
    BY <1>6, <2>1, <2>2, <2>3 DEF CurrentCard
<1>7. CASE \/ \E c \in Closers : Close(c)
           \/ \E s \in Sessions : TransportDrop(s)
           \/ WireLose \/ Stabilise
  <2>1. UNCHANGED <<active, latest, poll, seen, result>>
    BY <1>7, CloseFrame, EnvironmentFrame DEF service, pollers
  <2> QED
    BY <2>1, RegisterUnseen DEF Shown
<1> QED
  BY <1>1, <1>2, <1>3, <1>4, <1>5, <1>6, <1>7 DEF Next

\* The service, with its sessions, pointers and goroutines, implements the card
\* register: to the callers of the getters it is one atomic cell.
THEOREM RegisterRefinement == Spec => ImplementsRegister
<1>1. Init => Register!Init
  BY DEF Init, Register!Init, Shown
<1>2. IInv /\ IInv' /\ [Next]_vars => [Register!Next]_(Register!vars)
  <2>1. ASSUME UNCHANGED vars PROVE UNCHANGED Register!vars
    BY <2>1, RegisterUnseen DEF vars, service, session, pollers, Shown
  <2> QED
    BY <2>1, RegisterStep
<1> QED
  BY <1>1, <1>2, Invariance, PTL DEF Spec, ImplementsRegister, Register!Spec
=============================================================================
