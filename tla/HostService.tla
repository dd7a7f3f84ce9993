---------------------------- MODULE HostService ----------------------------
(***************************************************************************)
(* The connection supervisor of the Go host: type Service of               *)
(* impl/dll/internal/aimeio/service.go with the Sessions it creates        *)
(* (session.go) and the read loop and dispatch of                          *)
(* impl/dll/internal/hid/router.go.  The goroutines are                    *)
(*   - run, the supervisor: open, verify, publish, serve, tear down, retry;*)
(*   - one readLoop per session, the only writer of its latest card;       *)
(*   - Pollers, the callers of CurrentCard, AimeID, MIFAREBlocks, FeliCaID;*)
(*   - Closers, the callers of Service.Close.                              *)
(* They share atomic pointers and closed-only channels, no mutex.  A step  *)
(* makes at most one access that another goroutine can tell apart.         *)
(*                                                                         *)
(* Sessions is a finite set of slots: newSession takes one that no         *)
(* goroutine and no pointer refers to, as the garbage collector would.     *)
(* Every session allocates exactly one sequence, the first of its own      *)
(* Caller, so all GET_VERSION requests carry sequence 1 and a response is  *)
(* identified by the request it answers only in this model.                *)
(* hidapi and the reader are the environment.                              *)
(***************************************************************************)
EXTENDS Naturals, Sequences, FiniteSets

CONSTANTS
    Sessions,  \* slots for Session objects
    Cards,     \* cards a CARD_STATE signal can carry
    None,      \* the card NONE
    Nil,       \* a nil pointer
    Pollers,   \* goroutines that call a card getter
    Closers,   \* goroutines that call Service.Close, each once
    MaxWire    \* bound on the unanswered requests held by the reader

\* The errors of Service.Err.
Errors == {"open", "closed", "version", "context", "timeout", "read", "disconnected"}

ASSUME NilAssumption == Nil \notin Sessions \cup Errors /\ None \notin Cards
ASSUME WireAssumption == MaxWire \in Nat

VARIABLES
    sup, cur,                     \* run: its position and its local session
    ctx, stopped, closed,         \* s.ctx is cancelled, s.stopped, s.closed
    active, deviceInfo, lastErr,  \* the atomic pointers of Service; an info is
                                  \* named by the session it was opened with
    transport,  \* per session, its handle: "open", "closing" or "closed"
    reader,     \* per session, its readLoop: "read", "clear", "fail", "done", "gone"
    latest,     \* per session, s.latest
    readErr,    \* per session, s.readErr is set
    response,   \* per session, its call: "none", "pending", "good", "bad"
    origin,     \* history: the session whose request the response answers
    poll, ptr, result, seen,      \* CurrentCard calls; seen is a history variable
    cpc, cptr,  \* Close calls: position, session loaded from active
    wire,       \* sessions whose GET_VERSION the reader has not answered
    stable      \* from now on the reader stays plugged in and answers in time

service == <<ctx, stopped, closed, active, deviceInfo, lastErr>>
session == <<transport, reader, latest, readErr, response, origin>>
pollers == <<poll, ptr, result, seen>>
closers == <<cpc, cptr>>
environment == <<wire, stable>>
vars == <<sup, cur, service, session, pollers, closers, environment>>

\* What a card getter would return now if it ran alone.
Shown == IF active = Nil THEN None ELSE latest[active]

\* What Service.Err returns.
Err ==
    IF active # Nil THEN Nil
    ELSE IF lastErr = Nil THEN "disconnected" ELSE lastErr

\* <-session.Done() would not block: close(s.done) is readLoop's last step.
Done(s) == reader[s] = "gone"

\* Session.Err of a session that is done.
SessionErr(s) == IF readErr[s] THEN "read" ELSE "disconnected"

\* History: a running getter has seen the card shown after this step.
Witnessed ==
    seen' = [g \in Pollers |->
                IF poll[g] = "running" THEN seen[g] \cup {Shown'} ELSE seen[g]]

Init ==
    /\ sup = "top" /\ cur = Nil
    /\ ctx = FALSE /\ stopped = FALSE /\ closed = FALSE
    /\ active = Nil /\ deviceInfo = Nil /\ lastErr = Nil
    /\ transport = [s \in Sessions |-> "closed"]
    /\ reader = [s \in Sessions |-> "gone"]
    /\ latest = [s \in Sessions |-> None]
    /\ readErr = [s \in Sessions |-> FALSE]
    /\ response = [s \in Sessions |-> "none"]
    /\ origin = [s \in Sessions |-> Nil]
    /\ poll = [g \in Pollers |-> "idle"]
    /\ ptr = [g \in Pollers |-> Nil]
    /\ result = [g \in Pollers |-> None]
    /\ seen = [g \in Pollers |-> {}]
    /\ cpc = [c \in Closers |-> "idle"]
    /\ cptr = [c \in Closers |-> Nil]
    /\ wire = <<>>
    /\ stable = FALSE

\* Nothing refers to slot s any more.
Free(s) ==
    /\ s \notin {cur, active, deviceInfo}
    /\ \A g \in Pollers : ptr[g] # s
    /\ \A c \in Closers : cptr[c] # s
    /\ reader[s] = "gone" /\ transport[s] = "closed"

-----------------------------------------------------------------------------
(* hid.Device.Close as its callers see it (module HidDevice): the first    *)
(* closer of the handle is inside hid_close for a while, a later one       *)
(* returns at once.                                                        *)

\* Device.Close up to the compare-and-swap of closeHandle.
CloseBegin(s) ==
    transport' = [transport EXCEPT ![s] = IF @ = "open" THEN "closing" ELSE @]

\* hid_close returns.
CloseEnd(s) ==
    transport' = [transport EXCEPT ![s] = IF @ = "closing" THEN "closed" ELSE @]

-----------------------------------------------------------------------------
(* run.                                                                    *)

RunTop ==
    /\ sup = "top"
    /\ sup' = IF ctx THEN "exit" ELSE "open"
    /\ UNCHANGED <<cur, service, session, pollers, closers, environment>>

\* s.open() failed: storeError(err).
RunOpenFail ==
    /\ sup = "open"
    /\ ~stable
    /\ lastErr' = "open"
    /\ sup' = "retry"
    /\ UNCHANGED <<cur, ctx, stopped, closed, active, deviceInfo, session, pollers,
                   closers, environment>>

\* A newSession that starts readLoop before it has stored a card.
RunOpen_NoCard ==
    /\ sup = "open"
    /\ \E s \in Sessions :
        /\ Free(s)
        /\ cur' = s
        /\ transport' = [transport EXCEPT ![s] = "open"]
        /\ reader' = [reader EXCEPT ![s] = "read"]
        /\ latest' = [latest EXCEPT ![s] = Nil]
        /\ readErr' = [readErr EXCEPT ![s] = FALSE]
        /\ response' = [response EXCEPT ![s] = "none"]
        /\ origin' = [origin EXCEPT ![s] = Nil]
        /\ wire' = [i \in DOMAIN wire |-> IF wire[i] = s THEN Nil ELSE wire[i]]
    /\ sup' = "verify"
    /\ UNCHANGED <<service, pollers, closers, stable>>

\* s.open() and newSession, which starts readLoop.
RunOpen ==
    /\ sup = "open"
    /\ \E s \in Sessions :
        /\ Free(s)
        /\ cur' = s
        /\ transport' = [transport EXCEPT ![s] = "open"]
        /\ reader' = [reader EXCEPT ![s] = "read"]
        /\ latest' = [latest EXCEPT ![s] = None]
        /\ readErr' = [readErr EXCEPT ![s] = FALSE]
        /\ response' = [response EXCEPT ![s] = "none"]
        /\ origin' = [origin EXCEPT ![s] = Nil]
        /\ wire' = [i \in DOMAIN wire |-> IF wire[i] = s THEN Nil ELSE wire[i]]
    /\ sup' = "verify"
    /\ UNCHANGED <<service, pollers, closers, stable>>

\* VerifyVersion: Allocate and Write.  The request reaches the reader, or is
\* lost on the way; a reader with MaxWire requests drops it.
RunVerify ==
    /\ sup = "verify"
    /\ transport[cur] = "open" /\ reader[cur] = "read"
    /\ response' = [response EXCEPT ![cur] = "pending"]
    /\ \/ Len(wire) < MaxWire /\ wire' = Append(wire, cur)
       \/ (~stable \/ Len(wire) = MaxWire) /\ UNCHANGED wire
    /\ sup' = "await"
    /\ UNCHANGED <<cur, service, transport, reader, latest, readErr, origin, pollers,
                   closers, stable>>

\* VerifyVersion failed with err: storeError(err).
VerifyFailed(err) ==
    /\ lastErr' = err
    /\ sup' = "abandon"
    /\ UNCHANGED <<cur, ctx, stopped, closed, active, deviceInfo, session, pollers,
                   closers, environment>>

\* Write returned ErrClosed: a read failure already stopped the device.
RunVerifyClosed ==
    /\ sup = "verify"
    /\ transport[cur] # "open" \/ reader[cur] # "read"
    /\ VerifyFailed("closed")

\* The select of VerifyVersion, one case per action; any ready case may win.
RunVersionBad == sup = "await" /\ response[cur] = "bad" /\ VerifyFailed("version")
RunVersionContext == sup = "await" /\ ctx /\ VerifyFailed("context")
RunVersionDone == sup = "await" /\ Done(cur) /\ VerifyFailed(SessionErr(cur))

\* The timer: a stable reader answers the requests it holds in time.
RunVersionTimeout ==
    /\ sup = "await"
    /\ stable => response[cur] = "pending" /\ wire = <<>>
    /\ VerifyFailed("timeout")

RunVersionGood ==
    /\ sup = "await"
    /\ response[cur] = "good"
    /\ sup' = "storeInfo"
    /\ UNCHANGED <<cur, service, session, pollers, closers, environment>>

\* A session that failed to verify is waited for, but not closed.
RunAbandon_NotClosed ==
    /\ sup = "abandon"
    /\ sup' = "abandonWait"
    /\ UNCHANGED <<cur, service, session, pollers, closers, environment>>

\* _ = session.Close() of a session that was not verified.
RunAbandon ==
    /\ sup = "abandon"
    /\ CloseBegin(cur)
    /\ sup' = IF transport[cur] = "open" THEN "abandoning" ELSE "abandonWait"
    /\ UNCHANGED <<cur, service, reader, latest, readErr, response, origin, pollers,
                   closers, environment>>

RunAbandoning ==
    /\ sup = "abandoning"
    /\ CloseEnd(cur)
    /\ sup' = "abandonWait"
    /\ UNCHANGED <<cur, service, reader, latest, readErr, response, origin, pollers,
                   closers, environment>>

\* A teardown that does not wait for the read loop.
RunAbandonWait_Skipped ==
    /\ sup = "abandonWait"
    /\ sup' = "retry" /\ cur' = Nil
    /\ UNCHANGED <<service, session, pollers, closers, environment>>

\* <-session.Done()
RunAbandonWait ==
    /\ sup = "abandonWait"
    /\ Done(cur)
    /\ sup' = "retry" /\ cur' = Nil
    /\ UNCHANGED <<service, session, pollers, closers, environment>>

RunStoreInfo ==
    /\ sup = "storeInfo"
    /\ deviceInfo' = cur
    /\ sup' = "clearErr"
    /\ UNCHANGED <<cur, ctx, stopped, closed, active, lastErr, session, pollers,
                   closers, environment>>

RunClearErr ==
    /\ sup = "clearErr"
    /\ lastErr' = Nil
    /\ sup' = "storeActive"
    /\ UNCHANGED <<cur, ctx, stopped, closed, active, deviceInfo, session, pollers,
                   closers, environment>>

RunStoreActive ==
    /\ sup = "storeActive"
    /\ active' = cur
    /\ sup' = "serve"
    /\ UNCHANGED <<cur, ctx, stopped, closed, deviceInfo, lastErr, session,
                   poll, ptr, result, closers, environment>>
    /\ Witnessed

\* case <-session.Done()
RunServeDone ==
    /\ sup = "serve"
    /\ Done(cur)
    /\ sup' = "clearActive"
    /\ UNCHANGED <<cur, service, session, pollers, closers, environment>>

\* case <-s.ctx.Done(): _ = session.Close()
RunServeContext ==
    /\ sup = "serve"
    /\ ctx
    /\ CloseBegin(cur)
    /\ sup' = IF transport[cur] = "open" THEN "serveClosing" ELSE "serveWait"
    /\ UNCHANGED <<cur, service, reader, latest, readErr, response, origin, pollers,
                   closers, environment>>

RunServeClosing ==
    /\ sup = "serveClosing"
    /\ CloseEnd(cur)
    /\ sup' = "serveWait"
    /\ UNCHANGED <<cur, service, reader, latest, readErr, response, origin, pollers,
                   closers, environment>>

\* A cancelled serve that removes the session while its read loop still runs.
RunServeWait_Skipped ==
    /\ sup = "serveWait"
    /\ sup' = "clearActive"
    /\ UNCHANGED <<cur, service, session, pollers, closers, environment>>

\* <-session.Done()
RunServeWait ==
    /\ sup = "serveWait"
    /\ Done(cur)
    /\ sup' = "clearActive"
    /\ UNCHANGED <<cur, service, session, pollers, closers, environment>>

\* s.active.CompareAndSwap(session, nil)
RunClearActive ==
    /\ sup = "clearActive"
    /\ active' = IF active = cur THEN Nil ELSE active
    /\ sup' = "clearInfo"
    /\ UNCHANGED <<cur, ctx, stopped, closed, deviceInfo, lastErr, session,
                   poll, ptr, result, closers, environment>>
    /\ Witnessed

RunClearInfo ==
    /\ sup = "clearInfo"
    /\ deviceInfo' = Nil
    /\ sup' = "storeErr"
    /\ UNCHANGED <<cur, ctx, stopped, closed, active, lastErr, session, pollers,
                   closers, environment>>

\* s.storeError(session.Err())
RunStoreErr ==
    /\ sup = "storeErr"
    /\ lastErr' = SessionErr(cur)
    /\ sup' = "lastClose"
    /\ UNCHANGED <<cur, ctx, stopped, closed, active, deviceInfo, session, pollers,
                   closers, environment>>

\* A disconnected session whose handle nobody closes.
RunLastClose_Leaked ==
    /\ sup = "lastClose"
    /\ sup' = "retry" /\ cur' = Nil
    /\ UNCHANGED <<service, session, pollers, closers, environment>>

\* _ = session.Close() of the session that was served.
RunLastClose ==
    /\ sup = "lastClose"
    /\ CloseBegin(cur)
    /\ IF transport[cur] = "open"
       THEN sup' = "lastClosing" /\ UNCHANGED cur
       ELSE sup' = "retry" /\ cur' = Nil
    /\ UNCHANGED <<service, reader, latest, readErr, response, origin, pollers,
                   closers, environment>>

RunLastClosing ==
    /\ sup = "lastClosing"
    /\ CloseEnd(cur)
    /\ sup' = "retry" /\ cur' = Nil
    /\ UNCHANGED <<service, reader, latest, readErr, response, origin, pollers,
                   closers, environment>>

\* waitRetry: the check of the context at its head.
RunRetry ==
    /\ sup = "retry"
    /\ sup' = IF ctx THEN "exit" ELSE "sleep"
    /\ UNCHANGED <<cur, service, session, pollers, closers, environment>>

\* waitRetry: its select between the timer and the context.
RunSleep ==
    /\ sup = "sleep"
    /\ sup' = "top" \/ (ctx /\ sup' = "exit")
    /\ UNCHANGED <<cur, service, session, pollers, closers, environment>>

\* defer close(s.stopped)
RunExit ==
    /\ sup = "exit"
    /\ stopped' = TRUE
    /\ sup' = "gone"
    /\ UNCHANGED <<cur, ctx, closed, active, deviceInfo, lastErr, session, pollers,
                   closers, environment>>

VerifyVersion ==
    \/ RunVerify \/ RunVerifyClosed
    \/ RunVersionGood \/ RunVersionBad
    \/ RunVersionTimeout \/ RunVersionContext \/ RunVersionDone

run ==
    \/ RunTop \/ RunOpenFail \/ RunOpen \/ VerifyVersion
    \/ RunAbandon \/ RunAbandoning \/ RunAbandonWait
    \/ RunStoreInfo \/ RunClearErr \/ RunStoreActive
    \/ RunServeDone \/ RunServeContext \/ RunServeClosing \/ RunServeWait
    \/ RunClearActive \/ RunClearInfo \/ RunStoreErr \/ RunLastClose \/ RunLastClosing
    \/ RunRetry \/ RunSleep \/ RunExit

-----------------------------------------------------------------------------
(* readLoop: hid.ReadLoop until Read fails, then the three stores.         *)

\* Dispatch of a CARD_STATE signal.  Read may have returned the report just
\* before the handle was closed, so only the goroutine's position matters.
\* Reports that Dispatch rejects change nothing.
ReaderSignal(s) ==
    /\ reader[s] = "read"
    /\ \E c \in Cards \cup {None} : latest' = [latest EXCEPT ![s] = c]
    /\ UNCHANGED <<sup, cur, service, transport, reader, readErr, response, origin,
                   poll, ptr, result, closers, environment>>
    /\ Witnessed

\* Dispatch of a RESPONSE with sequence 1: Consume hands it to the call that
\* is pending in this session, whoever sent the request it answers; without
\* one it is ignored.  A stable reader speaks version 0.1.
ReaderResponse(s) ==
    /\ reader[s] = "read"
    /\ wire # <<>>
    /\ wire' = Tail(wire)
    /\ \/ /\ response[s] = "pending"
          /\ \E v \in (IF stable THEN {"good"} ELSE {"good", "bad"}) :
                response' = [response EXCEPT ![s] = v]
          /\ origin' = [origin EXCEPT ![s] = Head(wire)]
       \/ response[s] # "pending" /\ UNCHANGED <<response, origin>>
    /\ UNCHANGED <<sup, cur, service, transport, reader, latest, readErr, pollers,
                   closers, stable>>

\* transport.Read failed, and stopped the device.
ReaderFail(s) ==
    /\ reader[s] = "read"
    /\ stable => transport[s] # "open"
    /\ reader' = [reader EXCEPT ![s] = "clear"]
    /\ UNCHANGED <<sup, cur, service, transport, latest, readErr, response, origin,
                   pollers, closers, environment>>

\* A read loop that ends without clearing the card.
ReaderClear_Forgotten(s) ==
    /\ reader[s] = "clear"
    /\ reader' = [reader EXCEPT ![s] = "fail"]
    /\ UNCHANGED <<sup, cur, service, transport, latest, readErr, response, origin,
                   pollers, closers, environment>>

\* s.latest.Store(NONE)
ReaderClear(s) ==
    /\ reader[s] = "clear"
    /\ latest' = [latest EXCEPT ![s] = None]
    /\ reader' = [reader EXCEPT ![s] = "fail"]
    /\ UNCHANGED <<sup, cur, service, transport, readErr, response, origin,
                   poll, ptr, result, closers, environment>>
    /\ Witnessed

\* A read loop that closes done before it stores the failure.
ReaderStoreErr_AfterDone(s) ==
    /\ reader[s] = "fail"
    /\ reader' = [reader EXCEPT ![s] = "done"]
    /\ UNCHANGED <<sup, cur, service, transport, latest, readErr, response, origin,
                   pollers, closers, environment>>

\* s.readErr.Store(...)
ReaderStoreErr(s) ==
    /\ reader[s] = "fail"
    /\ readErr' = [readErr EXCEPT ![s] = TRUE]
    /\ reader' = [reader EXCEPT ![s] = "done"]
    /\ UNCHANGED <<sup, cur, service, transport, latest, response, origin,
                   pollers, closers, environment>>

\* close(s.done)
ReaderDone(s) ==
    /\ reader[s] = "done"
    /\ reader' = [reader EXCEPT ![s] = "gone"]
    /\ UNCHANGED <<sup, cur, service, transport, latest, readErr, response, origin,
                   pollers, closers, environment>>

readLoop(s) ==
    \/ ReaderSignal(s) \/ ReaderResponse(s)
    \/ ReaderFail(s) \/ ReaderClear(s) \/ ReaderStoreErr(s) \/ ReaderDone(s)

-----------------------------------------------------------------------------
(* CurrentCard, AimeID, MIFAREBlocks, FeliCaID: load active, then latest.  *)

\* A getter of a nil session returns None at once.
PollActive(g) ==
    /\ poll[g] = "idle"
    /\ poll' = [poll EXCEPT ![g] = "running"]
    /\ ptr' = [ptr EXCEPT ![g] = active]
    /\ seen' = [seen EXCEPT ![g] = {Shown}]
    /\ UNCHANGED <<sup, cur, service, session, result, closers, environment>>

PollLatest(g) ==
    /\ poll[g] = "running"
    /\ poll' = [poll EXCEPT ![g] = "returned"]
    /\ result' = [result EXCEPT ![g] = IF ptr[g] = Nil THEN None ELSE latest[ptr[g]]]
    /\ ptr' = [ptr EXCEPT ![g] = Nil]
    /\ UNCHANGED <<sup, cur, service, session, seen, closers, environment>>

\* The caller has used the result.
PollEnd(g) ==
    /\ poll[g] = "returned"
    /\ poll' = [poll EXCEPT ![g] = "idle"]
    /\ seen' = [seen EXCEPT ![g] = {}]
    /\ result' = [result EXCEPT ![g] = None]
    /\ UNCHANGED <<sup, cur, service, session, ptr, closers, environment>>

CurrentCard(g) == PollActive(g) \/ PollLatest(g) \/ PollEnd(g)

-----------------------------------------------------------------------------
(* Service.Close.                                                          *)

\* s.closed.CompareAndSwap(false, true); only the winner cancels.
CloseSwap(c) ==
    /\ cpc[c] = "idle"
    /\ closed' = TRUE
    /\ cpc' = [cpc EXCEPT ![c] = IF closed THEN "waitLost" ELSE "cancel"]
    /\ UNCHANGED <<sup, cur, ctx, stopped, active, deviceInfo, lastErr, session, pollers,
                   cptr, environment>>

\* A Close that forgets s.cancel().
CloseCancel_Forgotten(c) ==
    /\ cpc[c] = "cancel"
    /\ cpc' = [cpc EXCEPT ![c] = "load"]
    /\ UNCHANGED <<sup, cur, service, session, pollers, cptr, environment>>

CloseCancel(c) ==
    /\ cpc[c] = "cancel"
    /\ ctx' = TRUE
    /\ cpc' = [cpc EXCEPT ![c] = "load"]
    /\ UNCHANGED <<sup, cur, stopped, closed, active, deviceInfo, lastErr, session,
                   pollers, cptr, environment>>

CloseLoad(c) ==
    /\ cpc[c] = "load"
    /\ cptr' = [cptr EXCEPT ![c] = active]
    /\ cpc' = [cpc EXCEPT ![c] = IF active = Nil THEN "wait" ELSE "close"]
    /\ UNCHANGED <<sup, cur, service, session, pollers, environment>>

\* _ = session.Close()
CloseSession(c) ==
    /\ cpc[c] = "close"
    /\ CloseBegin(cptr[c])
    /\ cpc' = [cpc EXCEPT ![c] =
                    IF transport[cptr[c]] = "open" THEN "closing" ELSE "wait"]
    /\ UNCHANGED <<sup, cur, service, reader, latest, readErr, response, origin, pollers,
                   cptr, environment>>

CloseClosing(c) ==
    /\ cpc[c] = "closing"
    /\ CloseEnd(cptr[c])
    /\ cpc' = [cpc EXCEPT ![c] = "wait"]
    /\ UNCHANGED <<sup, cur, service, reader, latest, readErr, response, origin, pollers,
                   cptr, environment>>

\* <-s.stopped, in the winner and in the calls that lost the swap.
CloseStopped(c) ==
    /\ cpc[c] \in {"wait", "waitLost"}
    /\ stopped
    /\ cpc' = [cpc EXCEPT ![c] = IF @ = "wait" THEN "returned" ELSE "returnedLost"]
    /\ cptr' = [cptr EXCEPT ![c] = Nil]
    /\ UNCHANGED <<sup, cur, service, session, pollers, environment>>

Close(c) ==
    \/ CloseSwap(c) \/ CloseCancel(c) \/ CloseLoad(c)
    \/ CloseSession(c) \/ CloseClosing(c) \/ CloseStopped(c)

-----------------------------------------------------------------------------
(* The environment.                                                        *)

\* A write (GET_VERSION, SET_LED) failed: the device's write loop stopped it
\* and closed its handle.
TransportDrop(s) ==
    /\ ~stable
    /\ transport[s] = "open"
    /\ ~(sup = "verify" /\ cur = s)
    /\ transport' = [transport EXCEPT ![s] = "closed"]
    /\ UNCHANGED <<sup, cur, service, reader, latest, readErr, response, origin, pollers,
                   closers, environment>>

\* A request or its response is lost.
WireLose ==
    /\ ~stable
    /\ wire # <<>>
    /\ wire' = Tail(wire)
    /\ UNCHANGED <<sup, cur, service, session, pollers, closers, stable>>

\* From here on the reader stays connected and answers in time.
Stabilise ==
    /\ ~stable
    /\ stable' = TRUE
    /\ UNCHANGED <<sup, cur, service, session, pollers, closers, wire>>

Next ==
    \/ run
    \/ \E s \in Sessions : readLoop(s) \/ TransportDrop(s)
    \/ \E g \in Pollers : CurrentCard(g)
    \/ \E c \in Closers : Close(c)
    \/ WireLose \/ Stabilise

(* The Go scheduler runs a goroutine that can run, timers fire, hid_close   *)
(* returns, Read fails on a handle that was closed, and a stable reader's   *)
(* responses arrive.  Nothing makes the reader stable, a caller call Close  *)
(* or a card appear.                                                        *)
Fairness ==
    /\ WF_vars(run)
    /\ \A s \in Sessions :
        /\ WF_vars(ReaderClear(s) \/ ReaderStoreErr(s) \/ ReaderDone(s))
        /\ WF_vars(transport[s] = "closed" /\ ReaderFail(s))
        /\ WF_vars(stable /\ ReaderResponse(s))
    /\ \A c \in Closers : WF_vars(cpc[c] # "idle" /\ Close(c))

Spec == Init /\ [][Next]_vars /\ Fairness

-----------------------------------------------------------------------------
(* Properties.                                                             *)

SupLabels ==
    {"top", "open", "verify", "await", "abandon", "abandoning", "abandonWait",
     "storeInfo", "clearErr", "storeActive", "serve", "serveClosing", "serveWait",
     "clearActive", "clearInfo", "storeErr", "lastClose", "lastClosing",
     "retry", "sleep", "exit", "gone"}

\* The variables of Service and Session, and the position of each goroutine.
TypeOK ==
    /\ sup \in SupLabels
    /\ {cur, active, deviceInfo} \subseteq Sessions \cup {Nil}
    /\ {ctx, stopped, closed, stable} \subseteq BOOLEAN
    /\ lastErr \in Errors \cup {Nil}
    /\ transport \in [Sessions -> {"open", "closing", "closed"}]
    /\ reader \in [Sessions -> {"read", "clear", "fail", "done", "gone"}]
    /\ latest \in [Sessions -> Cards \cup {None}]
    /\ readErr \in [Sessions -> BOOLEAN]
    /\ response \in [Sessions -> {"none", "pending", "good", "bad"}]
    /\ origin \in [Sessions -> Sessions \cup {Nil}]
    /\ poll \in [Pollers -> {"idle", "running", "returned"}]
    /\ ptr \in [Pollers -> Sessions \cup {Nil}]
    /\ result \in [Pollers -> Cards \cup {None}]
    /\ seen \in [Pollers -> SUBSET (Cards \cup {None})]
    /\ cpc \in [Closers -> {"idle", "cancel", "load", "close", "closing", "wait",
                            "waitLost", "returned", "returnedLost"}]
    /\ cptr \in [Closers -> Sessions \cup {Nil}]
    /\ wire \in Seq(Sessions \cup {Nil}) /\ Len(wire) <= MaxWire

\* The service holds at most one HID handle: when run calls s.open(), the
\* handle and the read loop of the previous session are gone, whichever of
\* the disconnect, timeout and cancellation paths tore it down.
OneDevice ==
    sup \in {"top", "open", "sleep"} =>
        \A s \in Sessions : transport[s] = "closed" /\ Done(s)

\* A card getter never shows a card of a reader whose read loop has ended, and
\* the DeviceInfo beside it is that reader's: a card cannot stay "on the
\* reader" after the reader is unplugged.
ShownIsLive ==
    /\ Shown # None => reader[active] \in {"read", "clear"}
    /\ active # Nil => deviceInfo = active

\* Every card getter returns a value that was the current card at some moment
\* of its call, though it loads active and latest in two steps and the session
\* may be torn down, or replaced, in between.
GettersAreRegular ==
    \A g \in Pollers : poll[g] = "returned" => result[g] \in seen[g]

\* Between two attempts Service.Err names the cause of the last failure: the
\* fallback E0502 never replaces the error the read loop stored, though run and
\* the read loop reach lastErr and readErr without a lock.
CauseIsKept ==
    /\ lastErr # "disconnected"
    /\ sup \in {"retry", "sleep"} => Err \notin {Nil, "disconnected"}

\* When the Close call that won the swap has returned, nothing of the service
\* is left: no open handle, no goroutine, no card.  A call that lost it may
\* return while the winner is still inside hid_close.
CloseReleases ==
    /\ \A c \in Closers : cpc[c] = "returned" =>
          \A s \in Sessions : transport[s] = "closed" /\ Done(s)
    /\ \A c \in Closers : cpc[c] = "returnedLost" =>
          \A s \in Sessions : transport[s] # "open" /\ Done(s)
    /\ stopped => active = Nil /\ deviceInfo = Nil

\* The card a getter sees, as the abstract register of module CardRegister.
Register == INSTANCE CardRegister WITH
    connected <- active # Nil,
    card <- Shown

\* The service with all its goroutines implements the card register.
ImplementsRegister == Register!Spec

\* Every Close call returns, whatever run and the read loop are doing.
CloseReturns ==
    \A c \in Closers : cpc[c] # "idle" ~> cpc[c] \in {"returned", "returnedLost"}

\* The reconnect loop: if from some point on the reader stays plugged in and
\* answers in time, the service connects to it and stays connected, unless it
\* is closed; no earlier failure leaves it stuck.
Reconnects == <>stable => (<>closed \/ <>[](active # Nil))

\* A lost reader is noticed: once its read loop fails, the session is removed
\* and its handle closed.
LostIsRemoved ==
    \A s \in Sessions : reader[s] = "clear" ~> active # s /\ transport[s] = "closed"

\* "A response for an unknown or expired sequence is ignored"
\* (spec/rfc-0001-prhp.md:118): a session is verified only by the response to
\* the request it sent itself.
ExpiredIsIgnored ==
    \A s \in Sessions : response[s] \in {"good", "bad"} => origin[s] = s
=============================================================================
