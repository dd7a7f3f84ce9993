----------------------------- MODULE HidDevice -----------------------------
(***************************************************************************)
(* The HID transport of the Go host: type Device of                        *)
(* impl/dll/internal/hid/device.go.  A Device is shared by                 *)
(*   - the session's read loop, the only goroutine that calls Read;        *)
(*   - its own writeLoop goroutine, the only one that writes to hidapi;    *)
(*   - any number of callers of Write (GET_VERSION, SET_LED);              *)
(*   - any number of callers of Close (the supervisor, Service.Close).     *)
(* There is no mutex: the goroutines meet in two atomic flags (stopping,   *)
(* closed), one bounded channel (writes) and two channels that are only    *)
(* ever closed (done, writerDone).  Every atomic operation, channel        *)
(* operation and hidapi call is a step of its own.                         *)
(*                                                                         *)
(* hidapi is external: a physical write succeeds or fails at any time, a   *)
(* pending or later Read on a closed handle fails.  A report is the number *)
(* of the Write call that carries it; all callers encode 64-byte reports,  *)
(* so the length check at the head of Write never rejects one.             *)
(***************************************************************************)
EXTENDS Naturals, Sequences

CONSTANTS
    Writers,    \* goroutines that call Write
    Closers,    \* goroutines that call Close, each once
    ReadLoop,   \* the goroutine that calls Read
    WriteLoop,  \* the goroutine that runs writeLoop
    QueueCap,   \* capacity of the channel writes (64 in the code)
    MaxWrites   \* bound on the number of Write calls explored

Stoppers == {ReadLoop, WriteLoop} \cup Closers
Threads == Stoppers \cup Writers

ASSUME ThreadAssumption ==
    /\ ReadLoop # WriteLoop
    /\ {ReadLoop, WriteLoop} \cap (Closers \cup Writers) = {}
    /\ Closers \cap Writers = {}

ASSUME BoundAssumption == QueueCap \in Nat \ {0} /\ MaxWrites \in Nat

VARIABLES
    pc,          \* where each goroutine is
    raw,         \* the report each Write call carries
    writes,      \* the channel d.writes
    done,        \* d.done is closed
    writerDone,  \* d.writerDone is closed
    stopping,    \* d.stopping
    closed,      \* d.closed
    handle,      \* the hidapi handle: "open" or "closed"
    inflight,    \* <<report>> between the receive from writes and hid_write's success
    calls,       \* history: number of Write calls that passed the stopping check
    accepted,    \* history: reports whose Write returned nil, in channel order
    sent,        \* history: reports hidapi accepted, in order
    faults       \* history: operations Go or hidapi does not survive

device == <<writes, done, writerDone, stopping, closed, handle, inflight>>
history == <<calls, accepted, sent, faults>>
vars == <<pc, raw, device, history>>

Goto(t, label) == pc' = [pc EXCEPT ![t] = label]

Init ==
    /\ pc = [t \in Threads |-> IF t = WriteLoop THEN "select" ELSE "idle"]
    /\ raw = [w \in Writers |-> 0]
    /\ writes = <<>>
    /\ done = FALSE
    /\ writerDone = FALSE
    /\ stopping = FALSE
    /\ closed = FALSE
    /\ handle = "open"
    /\ inflight = <<>>
    /\ calls = 0
    /\ accepted = <<>>
    /\ sent = <<>>
    /\ faults = {}

-----------------------------------------------------------------------------
(* stop() and closeHandle(), shared by every goroutine that shuts the      *)
(* device down.  A goroutine enters at "stop".                             *)

\* Where a goroutine continues when its call of stop returns.
AfterStop(t) ==
    CASE t = ReadLoop -> "gone"
      [] t = WriteLoop -> "closeHandle"
      [] OTHER -> "waitWriter"

\* Where a goroutine continues when its call of closeHandle returns.
AfterCloseHandle(t) == IF t = WriteLoop THEN "exit" ELSE "returned"

\* A stop whose test and set are one unguarded store: everyone closes done.
StopSwap_NoCAS(t) ==
    /\ pc[t] = "stop"
    /\ stopping' = TRUE
    /\ Goto(t, "closeDone")
    /\ UNCHANGED <<raw, writes, done, writerDone, closed, handle, inflight, history>>

\* d.stopping.CompareAndSwap(false, true)
StopSwap(t) ==
    /\ pc[t] = "stop"
    /\ stopping' = TRUE
    /\ Goto(t, IF stopping THEN AfterStop(t) ELSE "closeDone")
    /\ UNCHANGED <<raw, writes, done, writerDone, closed, handle, inflight, history>>

\* A stop that forgets to close the channel.
StopCloseDone_Forgotten(t) ==
    /\ pc[t] = "closeDone"
    /\ Goto(t, AfterStop(t))
    /\ UNCHANGED <<raw, device, history>>

\* close(d.done), which panics on a channel that is already closed.
StopCloseDone(t) ==
    /\ pc[t] = "closeDone"
    /\ done' = TRUE
    /\ faults' = faults \cup (IF done THEN {"done closed twice"} ELSE {})
    /\ Goto(t, AfterStop(t))
    /\ UNCHANGED <<raw, writes, writerDone, stopping, closed, handle, inflight,
                   calls, accepted, sent>>

\* d.closed.CompareAndSwap(false, true)
HandleSwap(t) ==
    /\ pc[t] = "closeHandle"
    /\ closed' = TRUE
    /\ Goto(t, IF closed THEN AfterCloseHandle(t) ELSE "deviceClose")
    /\ UNCHANGED <<raw, writes, done, writerDone, stopping, handle, inflight, history>>

\* d.device.Close(): a second one frees the hidapi handle twice.
DeviceClose(t) ==
    /\ pc[t] = "deviceClose"
    /\ handle' = "closed"
    /\ faults' = faults \cup (IF handle = "closed" THEN {"handle closed twice"} ELSE {})
    /\ Goto(t, AfterCloseHandle(t))
    /\ UNCHANGED <<raw, writes, done, writerDone, stopping, closed, inflight,
                   calls, accepted, sent>>

-----------------------------------------------------------------------------
(* Read, called by the read loop until it fails.                           *)

ReadCall ==
    /\ pc[ReadLoop] = "idle"
    /\ Goto(ReadLoop, "reading")
    /\ UNCHANGED <<raw, device, history>>

\* A full report arrived: the router handles it and Read is called again.
ReadReport ==
    /\ pc[ReadLoop] = "reading"
    /\ handle = "open"
    /\ Goto(ReadLoop, "idle")
    /\ UNCHANGED <<raw, device, history>>

\* hidapi failed or returned a short report: stop, and the read loop ends.
ReadError ==
    /\ pc[ReadLoop] = "reading"
    /\ Goto(ReadLoop, "stop")
    /\ UNCHANGED <<raw, device, history>>

-----------------------------------------------------------------------------
(* Write, called by any goroutine.                                         *)

\* The stopping check: the call returns ErrClosed at once when it is set.
WriteCall(w) ==
    /\ pc[w] = "idle"
    /\ ~stopping
    /\ calls < MaxWrites
    /\ calls' = calls + 1
    /\ raw' = [raw EXCEPT ![w] = calls + 1]
    /\ Goto(w, "select")
    /\ UNCHANGED <<device, accepted, sent, faults>>

\* A queue without a capacity.
WriteEnqueue_Unbounded(w) ==
    /\ pc[w] = "select"
    /\ writes' = Append(writes, raw[w])
    /\ accepted' = Append(accepted, raw[w])
    /\ Goto(w, "idle")
    /\ UNCHANGED <<raw, done, writerDone, stopping, closed, handle, inflight,
                   calls, sent, faults>>

\* A queue whose send puts the newest report in front.
WriteEnqueue_Lifo(w) ==
    /\ pc[w] = "select"
    /\ Len(writes) < QueueCap
    /\ writes' = <<raw[w]>> \o writes
    /\ accepted' = Append(accepted, raw[w])
    /\ Goto(w, "idle")
    /\ UNCHANGED <<raw, done, writerDone, stopping, closed, handle, inflight,
                   calls, sent, faults>>

\* case d.writes <- bytes.Clone(raw): return nil
WriteEnqueue(w) ==
    /\ pc[w] = "select"
    /\ Len(writes) < QueueCap
    /\ writes' = Append(writes, raw[w])
    /\ accepted' = Append(accepted, raw[w])
    /\ Goto(w, "idle")
    /\ UNCHANGED <<raw, done, writerDone, stopping, closed, handle, inflight,
                   calls, sent, faults>>

\* A Write that only waits for a slot.
WriteClosed_Blocks(w) ==
    /\ pc[w] = "select"
    /\ done
    /\ UNCHANGED vars

\* case <-d.done: return ErrClosed
WriteClosed(w) ==
    /\ pc[w] = "select"
    /\ done
    /\ Goto(w, "idle")
    /\ UNCHANGED <<raw, device, history>>

-----------------------------------------------------------------------------
(* writeLoop.  Its select picks at random when both channels are ready.    *)

\* case raw := <-d.writes
LoopReceive ==
    /\ pc[WriteLoop] = "select"
    /\ writes # <<>>
    /\ inflight' = <<Head(writes)>>
    /\ writes' = Tail(writes)
    /\ Goto(WriteLoop, "writing")
    /\ UNCHANGED <<raw, done, writerDone, stopping, closed, handle, history>>

\* writeReport succeeded.
LoopWriteOk ==
    /\ pc[WriteLoop] = "writing"
    /\ handle = "open"
    /\ sent' = sent \o inflight
    /\ inflight' = <<>>
    /\ Goto(WriteLoop, "select")
    /\ UNCHANGED <<raw, writes, done, writerDone, stopping, closed, handle,
                   calls, accepted, faults>>

\* A failing loop that returns without closing writerDone.
LoopWriteFail_Unannounced ==
    /\ pc[WriteLoop] = "writing"
    /\ Goto(WriteLoop, "gone")
    /\ UNCHANGED <<raw, device, history>>

\* writeReport failed (error or short write): the report is lost, the loop
\* stops the device, closes its handle and returns.
LoopWriteFail ==
    /\ pc[WriteLoop] = "writing"
    /\ Goto(WriteLoop, "stop")
    /\ UNCHANGED <<raw, device, history>>

\* case <-d.done: return
LoopDone ==
    /\ pc[WriteLoop] = "select"
    /\ done
    /\ Goto(WriteLoop, "exit")
    /\ UNCHANGED <<raw, device, history>>

\* defer close(d.writerDone)
LoopExit ==
    /\ pc[WriteLoop] = "exit"
    /\ writerDone' = TRUE
    /\ Goto(WriteLoop, "gone")
    /\ UNCHANGED <<raw, writes, done, stopping, closed, handle, inflight, history>>

-----------------------------------------------------------------------------
(* Close: stop(); <-d.writerDone; closeHandle().                           *)

CloseCall(c) ==
    /\ pc[c] = "idle"
    /\ Goto(c, "stop")
    /\ UNCHANGED <<raw, device, history>>

\* A Close that does not wait for the write loop.
CloseWaitWriter_Skipped(c) ==
    /\ pc[c] = "waitWriter"
    /\ Goto(c, "closeHandle")
    /\ UNCHANGED <<raw, device, history>>

CloseWaitWriter(c) ==
    /\ pc[c] = "waitWriter"
    /\ writerDone
    /\ Goto(c, "closeHandle")
    /\ UNCHANGED <<raw, device, history>>

-----------------------------------------------------------------------------
\* A goroutine inside stop or closeHandle.
Shutdown(t) == StopSwap(t) \/ StopCloseDone(t) \/ HandleSwap(t) \/ DeviceClose(t)

Read == ReadCall \/ ReadReport \/ ReadError
Write(w) == WriteCall(w) \/ WriteEnqueue(w) \/ WriteClosed(w)
writeLoop == LoopReceive \/ LoopWriteOk \/ LoopWriteFail \/ LoopDone \/ LoopExit
Close(c) == CloseCall(c) \/ CloseWaitWriter(c)

Next ==
    \/ Read
    \/ writeLoop
    \/ \E w \in Writers : Write(w)
    \/ \E c \in Closers : Close(c)
    \/ \E t \in Stoppers : Shutdown(t)

(* Fairness is the Go scheduler's: a goroutine that can run does.  hidapi   *)
(* bounds a physical write, so the write in progress ends, and fails the    *)
(* pending read of a handle that was closed.  Nothing obliges a caller to   *)
(* call Write or Close, the reader to send a report, or a write loop that   *)
(* may receive from writes to prefer done.                                  *)
Fairness ==
    /\ WF_vars(ReadCall)
    /\ WF_vars(handle = "closed" /\ ReadError)
    /\ WF_vars(writeLoop)
    /\ \A w \in Writers : WF_vars(WriteEnqueue(w) \/ WriteClosed(w))
    /\ \A c \in Closers : WF_vars(CloseWaitWriter(c))
    /\ \A t \in Stoppers : WF_vars(Shutdown(t))

Spec == Init /\ [][Next]_vars /\ Fairness

-----------------------------------------------------------------------------
(* Properties.                                                             *)

ShutdownLabels == {"stop", "closeDone", "closeHandle", "deviceClose"}
ReadLoopLabels == {"idle", "reading", "stop", "closeDone", "gone"}
WriteLoopLabels == {"select", "writing", "exit", "gone"} \cup ShutdownLabels
WriterLabels == {"idle", "select"}
CloserLabels == {"idle", "waitWriter", "returned"} \cup ShutdownLabels

AllLabels == ReadLoopLabels \cup WriteLoopLabels \cup WriterLabels \cup CloserLabels

\* Each goroutine is somewhere in its own code.
PcOK ==
    /\ pc \in [Threads -> AllLabels]
    /\ pc[ReadLoop] \in ReadLoopLabels
    /\ pc[WriteLoop] \in WriteLoopLabels
    /\ \A w \in Writers : pc[w] \in WriterLabels
    /\ \A c \in Closers : pc[c] \in CloserLabels

\* The channel holds at most QueueCap reports, the write loop at most one.
QueueOK ==
    /\ raw \in [Writers -> Nat]
    /\ calls \in Nat
    /\ writes \in Seq(Nat) /\ Len(writes) <= QueueCap
    /\ inflight \in Seq(Nat) /\ Len(inflight) <= 1
    /\ accepted \in Seq(Nat)
    /\ sent \in Seq(Nat)

\* Every variable of Device, and the position of each goroutine in its code.
TypeOK ==
    /\ PcOK
    /\ QueueOK
    /\ done \in BOOLEAN /\ writerDone \in BOOLEAN
    /\ stopping \in BOOLEAN /\ closed \in BOOLEAN
    /\ handle \in {"open", "closed"}
    /\ faults \subseteq {"done closed twice", "handle closed twice"}

\* However stop and closeHandle race in the read loop, the write loop and any
\* number of Close calls, close(d.done) never runs on a closed channel (a Go
\* panic in the host process) and hid_close never runs twice on one handle.
ShutdownOnce == faults = {}

\* hid_write is never in progress, nor about to start, on a handle that some
\* other goroutine closed: Close waits for writerDone before closeHandle.
WriterOwnsHandle == pc[WriteLoop] \in {"select", "writing"} => handle = "open"

\* Reports reach hidapi in the order in which the Write calls returned, none
\* duplicated, and only those still queued, or the one whose write failed, are
\* missing: the write loop "preserves queue order".
QueueOrder == accepted = sent \o inflight \o writes

\* Once any call of Close has returned, the host sends no further report.
NothingSentAfterClose ==
    [][(\E c \in Closers : pc[c] = "returned") => sent' = sent]_vars

\* A call of Close returns, though it waits for a write loop that may be in
\* hid_write, blocked in its select or inside stop itself.
CloseReturns == \A c \in Closers : pc[c] = "stop" ~> pc[c] = "returned"

\* A Write blocked on a full queue is released when the device is stopped by
\* anyone, a failing write or read included.
WritersReleased == \A w \in Writers : stopping ~> pc[w] = "idle"

\* A read failure, which only stops the device, ends the write loop; and once
\* Close returned, both goroutines of the device are gone: none leaks.
LoopsEnd ==
    /\ stopping ~> pc[WriteLoop] = "gone"
    /\ \A c \in Closers : pc[c] = "returned" ~> pc[ReadLoop] = "gone"
=============================================================================
