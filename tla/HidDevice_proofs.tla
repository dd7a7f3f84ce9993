-------------------------- MODULE HidDevice_proofs --------------------------
(***************************************************************************)
(* Proofs about module HidDevice, for any number of callers of Write and   *)
(* Close and any queue capacity.                                           *)
(***************************************************************************)
EXTENDS HidDevice, SequenceTheorems, TLAPS

(* The inductive invariant.  Each part protects one resource.              *)

\* One goroutine at a time is between the swap of stopping and close(done).
StopInv ==
    /\ done => stopping
    /\ \A t \in Stoppers : pc[t] = "closeDone" => stopping /\ ~done
    /\ \A t, u \in Stoppers : pc[t] = "closeDone" /\ pc[u] = "closeDone" => t = u

\* One goroutine at a time is between the swap of closed and hid_close.
HandleInv ==
    /\ handle = "closed" => closed
    /\ \A t \in Stoppers : pc[t] = "deviceClose" => closed /\ handle = "open"
    /\ \A t, u \in Stoppers : pc[t] = "deviceClose" /\ pc[u] = "deviceClose" => t = u

\* Nobody swaps closed before the write loop is past its last hid_write.
WriterInv ==
    /\ writerDone <=> pc[WriteLoop] = "gone"
    /\ closed => pc[WriteLoop] \in {"deviceClose", "exit", "gone"}
    /\ \A c \in Closers :
          pc[c] \in {"closeHandle", "deviceClose", "returned"} => writerDone

\* A report leaves writes for inflight and inflight for sent.
QueueInv ==
    /\ pc[WriteLoop] = "select" => inflight = <<>>
    /\ accepted = (sent \o inflight) \o writes

IInv == TypeOK /\ ShutdownOnce /\ StopInv /\ HandleInv /\ WriterInv /\ QueueInv

-----------------------------------------------------------------------------
\* Each goroutine of the device is none of the others.
LEMMA ThreadFacts ==
    /\ ReadLoop \in Threads /\ WriteLoop \in Threads
    /\ Stoppers \subseteq Threads /\ Writers \subseteq Threads /\ Closers \subseteq Stoppers
    /\ ReadLoop \in Stoppers /\ WriteLoop \in Stoppers
    /\ ReadLoop # WriteLoop
    /\ \A c \in Closers : c # ReadLoop /\ c # WriteLoop /\ c \notin Writers
    /\ \A w \in Writers : w # ReadLoop /\ w # WriteLoop /\ w \notin Stoppers
BY ThreadAssumption DEF Threads, Stoppers

\* Appending to the queue appends to the whole stream of reports.
LEMMA EnqueueOrder ==
    ASSUME NEW s \in Seq(Nat), NEW w \in Seq(Nat), NEW n \in Nat
    PROVE  Append(s \o w, n) = s \o Append(w, n)
<1>1. s \o w \in Seq(Nat) /\ <<n>> \in Seq(Nat)
  BY ConcatProperties
<1>2. Append(s \o w, n) = (s \o w) \o <<n>> /\ Append(w, n) = w \o <<n>>
  BY <1>1, AppendIsConcat
<1>3. (s \o w) \o <<n>> = s \o (w \o <<n>>)
  BY <1>1, ConcatAssociative
<1>4. QED
  BY <1>2, <1>3

\* Moving the head of the queue behind what was sent keeps the stream.
LEMMA ReceiveOrder ==
    ASSUME NEW s \in Seq(Nat), NEW w \in Seq(Nat), w # <<>>
    PROVE  (s \o <<>>) \o w = (s \o <<Head(w)>>) \o Tail(w)
<1>1. Head(w) \in Nat /\ Tail(w) \in Seq(Nat) /\ w = <<Head(w)>> \o Tail(w)
  BY HeadTailProperties
<1>2. s \o <<>> = s
  BY ConcatEmptySeq
<1>3. s \o (<<Head(w)>> \o Tail(w)) = (s \o <<Head(w)>>) \o Tail(w)
  BY <1>1, ConcatAssociative
<1>4. QED
  BY <1>1, <1>2, <1>3

\* Append, Tail and \o stay within the sequences of reports.
LEMMA ReportSeqs ==
    \A s \in Seq(Nat) :
        /\ Len(s) \in Nat
        /\ \A n \in Nat : Append(s, n) \in Seq(Nat) /\ Len(Append(s, n)) = Len(s) + 1
        /\ s # <<>> =>
              Head(s) \in Nat /\ Tail(s) \in Seq(Nat) /\ Len(Tail(s)) = Len(s) - 1
        /\ \A u \in Seq(Nat) : s \o u \in Seq(Nat)
BY LenProperties, AppendProperties, HeadTailProperties, ConcatProperties

\* The invariant holds when Open returns.
LEMMA InitIInv == Init => IInv
<1> SUFFICES ASSUME Init PROVE IInv
  OBVIOUS
<1> USE ThreadFacts DEF Init
<1>1. TypeOK
  <2>1. pc \in [Threads -> AllLabels]
    BY DEF AllLabels, ReadLoopLabels, WriteLoopLabels
  <2>2. pc[ReadLoop] \in ReadLoopLabels /\ pc[WriteLoop] \in WriteLoopLabels
    BY DEF ReadLoopLabels, WriteLoopLabels
  <2>3. \A w \in Writers : pc[w] \in WriterLabels
    BY DEF WriterLabels
  <2>4. \A c \in Closers : pc[c] \in CloserLabels
    BY DEF CloserLabels
  <2>5. QueueOK
    BY BoundAssumption, EmptySeq DEF QueueOK
  <2>6. QED
    BY <2>1, <2>2, <2>3, <2>4, <2>5 DEF TypeOK, PcOK
<1>2. ShutdownOnce /\ StopInv /\ HandleInv /\ WriterInv
  BY DEF ShutdownOnce, StopInv, HandleInv, WriterInv
<1>3. QueueInv
  BY DEF QueueInv
<1>4. QED
  BY <1>1, <1>2, <1>3 DEF IInv

\* Only one goroutine wins the swap of stopping, so closeDone stays unique.
LEMMA StopSwapStep ==
    ASSUME IInv, NEW t \in Stoppers, StopSwap(t)
    PROVE  IInv'
<1> USE ThreadFacts DEF IInv, StopSwap, AfterStop, Goto, device, history
<1>1. TypeOK'
  BY DEF TypeOK, PcOK, QueueOK, AllLabels, ReadLoopLabels, WriteLoopLabels,
         WriterLabels, CloserLabels, ShutdownLabels
<1>2. ShutdownOnce' /\ StopInv'
  BY DEF TypeOK, PcOK, ShutdownOnce, StopInv, HandleInv
<1>3. HandleInv'
  BY DEF TypeOK, PcOK, HandleInv, WriterInv
<1>4. WriterInv'
  BY DEF TypeOK, PcOK, WriterInv, WriteLoopLabels, ShutdownLabels
<1>5. QueueInv'
  BY DEF TypeOK, PcOK, QueueInv
<1>6. QED
  BY <1>1, <1>2, <1>3, <1>4, <1>5

\* close(done) finds the channel open and ends the window it protects.
LEMMA StopCloseDoneStep ==
    ASSUME IInv, NEW t \in Stoppers, StopCloseDone(t)
    PROVE  IInv'
<1> USE ThreadFacts DEF IInv, StopCloseDone, AfterStop, Goto, device, history
<1>1. TypeOK'
  BY DEF TypeOK, PcOK, QueueOK, AllLabels, ReadLoopLabels, WriteLoopLabels,
         WriterLabels, CloserLabels, ShutdownLabels
<1>2. ShutdownOnce' /\ StopInv'
  BY DEF TypeOK, PcOK, ShutdownOnce, StopInv, HandleInv
<1>3. HandleInv'
  BY DEF TypeOK, PcOK, HandleInv, WriterInv
<1>4. WriterInv'
  BY DEF TypeOK, PcOK, WriterInv, WriteLoopLabels, ShutdownLabels
<1>5. QueueInv'
  BY DEF TypeOK, PcOK, QueueInv
<1>6. QED
  BY <1>1, <1>2, <1>3, <1>4, <1>5

\* Only one goroutine wins the swap of closed, and only past the last hid_write.
LEMMA HandleSwapStep ==
    ASSUME IInv, NEW t \in Stoppers, HandleSwap(t)
    PROVE  IInv'
<1> USE ThreadFacts DEF IInv, HandleSwap, AfterCloseHandle, Goto, device, history
<1>1. TypeOK'
  BY DEF TypeOK, PcOK, QueueOK, AllLabels, ReadLoopLabels, WriteLoopLabels,
         WriterLabels, CloserLabels, ShutdownLabels
<1>2. ShutdownOnce' /\ StopInv'
  BY DEF TypeOK, PcOK, ShutdownOnce, StopInv, HandleInv
<1>3. HandleInv'
  BY DEF TypeOK, PcOK, HandleInv, WriterInv
<1>4. WriterInv'
  <2>1. CASE t = WriteLoop
    BY <2>1 DEF TypeOK, PcOK, WriterInv
  <2>2. CASE t \in Closers
    BY <2>2 DEF TypeOK, PcOK, WriterInv
  <2>3. t # ReadLoop
    BY DEF TypeOK, PcOK, ReadLoopLabels
  <2>4. QED
    BY <2>1, <2>2, <2>3 DEF Stoppers
<1>5. QueueInv'
  BY DEF TypeOK, PcOK, QueueInv
<1>6. QED
  BY <1>1, <1>2, <1>3, <1>4, <1>5

\* hid_close finds the handle open.
LEMMA DeviceCloseStep ==
    ASSUME IInv, NEW t \in Stoppers, DeviceClose(t)
    PROVE  IInv'
<1> USE ThreadFacts DEF IInv, DeviceClose, AfterCloseHandle, Goto, device, history
<1>1. TypeOK'
  BY DEF TypeOK, PcOK, QueueOK, AllLabels, ReadLoopLabels, WriteLoopLabels,
         WriterLabels, CloserLabels, ShutdownLabels
<1>2. ShutdownOnce' /\ StopInv'
  BY DEF TypeOK, PcOK, ShutdownOnce, StopInv, HandleInv
<1>3. HandleInv'
  BY DEF TypeOK, PcOK, HandleInv, WriterInv
<1>4. WriterInv'
  BY DEF TypeOK, PcOK, WriterInv, WriteLoopLabels, ShutdownLabels
<1>5. QueueInv'
  BY DEF TypeOK, PcOK, QueueInv
<1>6. QED
  BY <1>1, <1>2, <1>3, <1>4, <1>5

\* The read loop entering Read disturbs nothing.
LEMMA ReadCallStep ==
    ASSUME IInv, ReadCall
    PROVE  IInv'
<1> USE ThreadFacts DEF IInv, ReadCall, Goto, device, history
<1>1. TypeOK'
  BY DEF TypeOK, PcOK, QueueOK, AllLabels, ReadLoopLabels, WriteLoopLabels,
         WriterLabels, CloserLabels, ShutdownLabels
<1>2. ShutdownOnce' /\ StopInv'
  BY DEF TypeOK, PcOK, ShutdownOnce, StopInv, HandleInv
<1>3. HandleInv'
  BY DEF TypeOK, PcOK, HandleInv, WriterInv
<1>4. WriterInv'
  BY DEF TypeOK, PcOK, WriterInv, WriteLoopLabels, ShutdownLabels
<1>5. QueueInv'
  BY DEF TypeOK, PcOK, QueueInv
<1>6. QED
  BY <1>1, <1>2, <1>3, <1>4, <1>5

\* Nor does a report it returns.
LEMMA ReadReportStep ==
    ASSUME IInv, ReadReport
    PROVE  IInv'
<1> USE ThreadFacts DEF IInv, ReadReport, Goto, device, history
<1>1. TypeOK'
  BY DEF TypeOK, PcOK, QueueOK, AllLabels, ReadLoopLabels, WriteLoopLabels,
         WriterLabels, CloserLabels, ShutdownLabels
<1>2. ShutdownOnce' /\ StopInv'
  BY DEF TypeOK, PcOK, ShutdownOnce, StopInv, HandleInv
<1>3. HandleInv'
  BY DEF TypeOK, PcOK, HandleInv, WriterInv
<1>4. WriterInv'
  BY DEF TypeOK, PcOK, WriterInv, WriteLoopLabels, ShutdownLabels
<1>5. QueueInv'
  BY DEF TypeOK, PcOK, QueueInv
<1>6. QED
  BY <1>1, <1>2, <1>3, <1>4, <1>5

\* A failed Read only sends the read loop to stop.
LEMMA ReadErrorStep ==
    ASSUME IInv, ReadError
    PROVE  IInv'
<1> USE ThreadFacts DEF IInv, ReadError, Goto, device, history
<1>1. TypeOK'
  BY DEF TypeOK, PcOK, QueueOK, AllLabels, ReadLoopLabels, WriteLoopLabels,
         WriterLabels, CloserLabels, ShutdownLabels
<1>2. ShutdownOnce' /\ StopInv'
  BY DEF TypeOK, PcOK, ShutdownOnce, StopInv, HandleInv
<1>3. HandleInv'
  BY DEF TypeOK, PcOK, HandleInv, WriterInv
<1>4. WriterInv'
  BY DEF TypeOK, PcOK, WriterInv, WriteLoopLabels, ShutdownLabels
<1>5. QueueInv'
  BY DEF TypeOK, PcOK, QueueInv
<1>6. QED
  BY <1>1, <1>2, <1>3, <1>4, <1>5

\* A Write that passed the stopping check only takes a report in hand.
LEMMA WriteCallStep ==
    ASSUME IInv, NEW w \in Writers, WriteCall(w)
    PROVE  IInv'
<1> USE ThreadFacts DEF IInv, WriteCall, Goto, device, history
<1>1. TypeOK'
  <2>1. PcOK'
    BY DEF TypeOK, PcOK, AllLabels, ReadLoopLabels, WriteLoopLabels,
           WriterLabels, CloserLabels, ShutdownLabels
  <2>2. QueueOK'
    <3>1. calls \in Nat /\ raw \in [Writers -> Nat]
      BY DEF TypeOK, QueueOK
    <3>2. calls' \in Nat
      BY <3>1
    <3>3. raw' \in [Writers -> Nat]
      BY <3>1, <3>2
    <3>4. QED
      BY <3>2, <3>3 DEF TypeOK, QueueOK
  <2>3. QED
    BY <2>1, <2>2 DEF TypeOK
<1>2. ShutdownOnce' /\ StopInv'
  BY DEF TypeOK, PcOK, ShutdownOnce, StopInv, HandleInv
<1>3. HandleInv'
  BY DEF TypeOK, PcOK, HandleInv, WriterInv
<1>4. WriterInv'
  BY DEF TypeOK, PcOK, WriterInv, WriteLoopLabels, ShutdownLabels
<1>5. QueueInv'
  BY DEF TypeOK, PcOK, QueueInv
<1>6. QED
  BY <1>1, <1>2, <1>3, <1>4, <1>5

\* A queued report is behind all accepted ones.
LEMMA WriteEnqueueStep ==
    ASSUME IInv, NEW w \in Writers, WriteEnqueue(w)
    PROVE  IInv'
<1> USE ThreadFacts DEF IInv, WriteEnqueue, Goto, device, history
<1>1. TypeOK'
  <2>1. PcOK'
    BY DEF TypeOK, PcOK, AllLabels, ReadLoopLabels, WriteLoopLabels,
           WriterLabels, CloserLabels, ShutdownLabels
  <2>2. QueueOK'
    <3>1. raw[w] \in Nat /\ writes \in Seq(Nat) /\ accepted \in Seq(Nat)
      BY DEF TypeOK, QueueOK
    <3>2. writes' \in Seq(Nat) /\ accepted' \in Seq(Nat) /\ Len(writes') = Len(writes) + 1
      BY <3>1, ReportSeqs
    <3>3. Len(writes') <= QueueCap
      BY <3>1, <3>2, ReportSeqs, BoundAssumption
    <3>4. QED
      BY <3>2, <3>3 DEF TypeOK, QueueOK
  <2>3. QED
    BY <2>1, <2>2 DEF TypeOK
<1>2. ShutdownOnce' /\ StopInv'
  BY DEF TypeOK, PcOK, ShutdownOnce, StopInv, HandleInv
<1>3. HandleInv'
  BY DEF TypeOK, PcOK, HandleInv, WriterInv
<1>4. WriterInv'
  BY DEF TypeOK, PcOK, WriterInv, WriteLoopLabels, ShutdownLabels
<1>5. QueueInv'
  <2>1. raw[w] \in Nat /\ writes \in Seq(Nat) /\ sent \o inflight \in Seq(Nat)
    BY ReportSeqs DEF TypeOK, QueueOK
  <2>2. accepted' = (sent \o inflight) \o writes'
    BY <2>1, EnqueueOrder DEF QueueInv
  <2>3. QED
    BY <2>2 DEF TypeOK, PcOK, QueueInv
<1>6. QED
  BY <1>1, <1>2, <1>3, <1>4, <1>5

\* A Write that gives up changes neither queue nor flags.
LEMMA WriteClosedStep ==
    ASSUME IInv, NEW w \in Writers, WriteClosed(w)
    PROVE  IInv'
<1> USE ThreadFacts DEF IInv, WriteClosed, Goto, device, history
<1>1. TypeOK'
  BY DEF TypeOK, PcOK, QueueOK, AllLabels, ReadLoopLabels, WriteLoopLabels,
         WriterLabels, CloserLabels, ShutdownLabels
<1>2. ShutdownOnce' /\ StopInv'
  BY DEF TypeOK, PcOK, ShutdownOnce, StopInv, HandleInv
<1>3. HandleInv'
  BY DEF TypeOK, PcOK, HandleInv, WriterInv
<1>4. WriterInv'
  BY DEF TypeOK, PcOK, WriterInv, WriteLoopLabels, ShutdownLabels
<1>5. QueueInv'
  BY DEF TypeOK, PcOK, QueueInv
<1>6. QED
  BY <1>1, <1>2, <1>3, <1>4, <1>5

\* The oldest queued report becomes the one in flight.
LEMMA LoopReceiveStep ==
    ASSUME IInv, LoopReceive
    PROVE  IInv'
<1> USE ThreadFacts DEF IInv, LoopReceive, Goto, device, history
<1>1. TypeOK'
  <2>1. PcOK'
    BY DEF TypeOK, PcOK, AllLabels, ReadLoopLabels, WriteLoopLabels,
           WriterLabels, CloserLabels, ShutdownLabels
  <2>2. QueueOK'
    <3>1. writes \in Seq(Nat) /\ Len(writes) <= QueueCap
      BY DEF TypeOK, QueueOK
    <3>2. Head(writes) \in Nat /\ writes' \in Seq(Nat) /\ Len(writes') = Len(writes) - 1
      BY <3>1, ReportSeqs
    <3>3. Len(writes') <= QueueCap
      BY <3>1, <3>2, ReportSeqs, BoundAssumption
    <3>4. inflight' \in Seq(Nat) /\ Len(inflight') <= 1
      BY <3>2
    <3>5. QED
      BY <3>2, <3>3, <3>4 DEF TypeOK, QueueOK
  <2>3. QED
    BY <2>1, <2>2 DEF TypeOK
<1>2. ShutdownOnce' /\ StopInv'
  BY DEF TypeOK, PcOK, ShutdownOnce, StopInv, HandleInv
<1>3. HandleInv'
  BY DEF TypeOK, PcOK, HandleInv, WriterInv
<1>4. WriterInv'
  BY DEF TypeOK, PcOK, WriterInv, WriteLoopLabels, ShutdownLabels
<1>5. QueueInv'
  <2>1. (sent \o <<>>) \o writes = (sent \o inflight') \o writes'
    BY ReceiveOrder DEF TypeOK, QueueOK
  <2>2. QED
    BY <2>1 DEF TypeOK, PcOK, QueueInv
<1>6. QED
  BY <1>1, <1>2, <1>3, <1>4, <1>5

\* The report in flight becomes the newest one sent.
LEMMA LoopWriteOkStep ==
    ASSUME IInv, LoopWriteOk
    PROVE  IInv'
<1> USE ThreadFacts DEF IInv, LoopWriteOk, Goto, device, history
<1>1. TypeOK'
  <2>1. PcOK'
    BY DEF TypeOK, PcOK, AllLabels, ReadLoopLabels, WriteLoopLabels,
           WriterLabels, CloserLabels, ShutdownLabels
  <2>2. QueueOK'
    <3>1. sent' \in Seq(Nat)
      BY ReportSeqs DEF TypeOK, QueueOK
    <3>2. inflight' \in Seq(Nat) /\ Len(inflight') <= 1
      BY EmptySeq
    <3>3. QED
      BY <3>1, <3>2 DEF TypeOK, QueueOK
  <2>3. QED
    BY <2>1, <2>2 DEF TypeOK
<1>2. ShutdownOnce' /\ StopInv'
  BY DEF TypeOK, PcOK, ShutdownOnce, StopInv, HandleInv
<1>3. HandleInv'
  BY DEF TypeOK, PcOK, HandleInv, WriterInv
<1>4. WriterInv'
  BY DEF TypeOK, PcOK, WriterInv, WriteLoopLabels, ShutdownLabels
<1>5. QueueInv'
  <2>1. sent' \in Seq(Nat)
    BY ReportSeqs DEF TypeOK, QueueOK
  <2>2. sent' \o <<>> = sent \o inflight
    BY <2>1, ConcatEmptySeq
  <2>3. QED
    BY <2>2 DEF TypeOK, PcOK, QueueInv
<1>6. QED
  BY <1>1, <1>2, <1>3, <1>4, <1>5

\* After a failure the write loop never writes again.
LEMMA LoopWriteFailStep ==
    ASSUME IInv, LoopWriteFail
    PROVE  IInv'
<1> USE ThreadFacts DEF IInv, LoopWriteFail, Goto, device, history
<1>1. TypeOK'
  BY DEF TypeOK, PcOK, QueueOK, AllLabels, ReadLoopLabels, WriteLoopLabels,
         WriterLabels, CloserLabels, ShutdownLabels
<1>2. ShutdownOnce' /\ StopInv'
  BY DEF TypeOK, PcOK, ShutdownOnce, StopInv, HandleInv
<1>3. HandleInv'
  BY DEF TypeOK, PcOK, HandleInv, WriterInv
<1>4. WriterInv'
  BY DEF TypeOK, PcOK, WriterInv, WriteLoopLabels, ShutdownLabels
<1>5. QueueInv'
  BY DEF TypeOK, PcOK, QueueInv
<1>6. QED
  BY <1>1, <1>2, <1>3, <1>4, <1>5

\* The write loop leaves its select when done is closed.
LEMMA LoopDoneStep ==
    ASSUME IInv, LoopDone
    PROVE  IInv'
<1> USE ThreadFacts DEF IInv, LoopDone, Goto, device, history
<1>1. TypeOK'
  BY DEF TypeOK, PcOK, QueueOK, AllLabels, ReadLoopLabels, WriteLoopLabels,
         WriterLabels, CloserLabels, ShutdownLabels
<1>2. ShutdownOnce' /\ StopInv'
  BY DEF TypeOK, PcOK, ShutdownOnce, StopInv, HandleInv
<1>3. HandleInv'
  BY DEF TypeOK, PcOK, HandleInv, WriterInv
<1>4. WriterInv'
  BY DEF TypeOK, PcOK, WriterInv, WriteLoopLabels, ShutdownLabels
<1>5. QueueInv'
  BY DEF TypeOK, PcOK, QueueInv
<1>6. QED
  BY <1>1, <1>2, <1>3, <1>4, <1>5

\* writerDone is closed when the write loop is gone, not before.
LEMMA LoopExitStep ==
    ASSUME IInv, LoopExit
    PROVE  IInv'
<1> USE ThreadFacts DEF IInv, LoopExit, Goto, device, history
<1>1. TypeOK'
  BY DEF TypeOK, PcOK, QueueOK, AllLabels, ReadLoopLabels, WriteLoopLabels,
         WriterLabels, CloserLabels, ShutdownLabels
<1>2. ShutdownOnce' /\ StopInv'
  BY DEF TypeOK, PcOK, ShutdownOnce, StopInv, HandleInv
<1>3. HandleInv'
  BY DEF TypeOK, PcOK, HandleInv, WriterInv
<1>4. WriterInv'
  BY DEF TypeOK, PcOK, WriterInv, WriteLoopLabels, ShutdownLabels
<1>5. QueueInv'
  BY DEF TypeOK, PcOK, QueueInv
<1>6. QED
  BY <1>1, <1>2, <1>3, <1>4, <1>5

\* A call of Close starts at stop.
LEMMA CloseCallStep ==
    ASSUME IInv, NEW c \in Closers, CloseCall(c)
    PROVE  IInv'
<1> USE ThreadFacts DEF IInv, CloseCall, Goto, device, history
<1>1. TypeOK'
  BY DEF TypeOK, PcOK, QueueOK, AllLabels, ReadLoopLabels, WriteLoopLabels,
         WriterLabels, CloserLabels, ShutdownLabels
<1>2. ShutdownOnce' /\ StopInv'
  BY DEF TypeOK, PcOK, ShutdownOnce, StopInv, HandleInv
<1>3. HandleInv'
  BY DEF TypeOK, PcOK, HandleInv, WriterInv
<1>4. WriterInv'
  BY DEF TypeOK, PcOK, WriterInv, WriteLoopLabels, ShutdownLabels
<1>5. QueueInv'
  BY DEF TypeOK, PcOK, QueueInv
<1>6. QED
  BY <1>1, <1>2, <1>3, <1>4, <1>5

\* Close reaches closeHandle only after writerDone.
LEMMA CloseWaitWriterStep ==
    ASSUME IInv, NEW c \in Closers, CloseWaitWriter(c)
    PROVE  IInv'
<1> USE ThreadFacts DEF IInv, CloseWaitWriter, Goto, device, history
<1>1. TypeOK'
  BY DEF TypeOK, PcOK, QueueOK, AllLabels, ReadLoopLabels, WriteLoopLabels,
         WriterLabels, CloserLabels, ShutdownLabels
<1>2. ShutdownOnce' /\ StopInv'
  BY DEF TypeOK, PcOK, ShutdownOnce, StopInv, HandleInv
<1>3. HandleInv'
  BY DEF TypeOK, PcOK, HandleInv, WriterInv
<1>4. WriterInv'
  BY DEF TypeOK, PcOK, WriterInv, WriteLoopLabels, ShutdownLabels
<1>5. QueueInv'
  BY DEF TypeOK, PcOK, QueueInv
<1>6. QED
  BY <1>1, <1>2, <1>3, <1>4, <1>5

\* A stuttering step changes nothing.
LEMMA StutterStep ==
    ASSUME IInv, UNCHANGED vars
    PROVE  IInv'
<1> USE ThreadFacts DEF IInv, vars, Goto, device, history
<1>1. TypeOK'
  BY DEF TypeOK, PcOK, QueueOK, AllLabels, ReadLoopLabels, WriteLoopLabels,
         WriterLabels, CloserLabels, ShutdownLabels
<1>2. ShutdownOnce' /\ StopInv'
  BY DEF TypeOK, PcOK, ShutdownOnce, StopInv, HandleInv
<1>3. HandleInv'
  BY DEF TypeOK, PcOK, HandleInv, WriterInv
<1>4. WriterInv'
  BY DEF TypeOK, PcOK, WriterInv, WriteLoopLabels, ShutdownLabels
<1>5. QueueInv'
  BY DEF TypeOK, PcOK, QueueInv
<1>6. QED
  BY <1>1, <1>2, <1>3, <1>4, <1>5

\* Every step of Next is one of the steps above.
LEMMA NextIInv == IInv /\ [Next]_vars => IInv'
<1> SUFFICES ASSUME IInv, [Next]_vars PROVE IInv'
  OBVIOUS
<1>1. CASE Read
  BY <1>1, ReadCallStep, ReadReportStep, ReadErrorStep DEF Read
<1>2. CASE writeLoop
  BY <1>2, LoopReceiveStep, LoopWriteOkStep, LoopWriteFailStep, LoopDoneStep, LoopExitStep
     DEF writeLoop
<1>3. CASE \E w \in Writers : Write(w)
  BY <1>3, WriteCallStep, WriteEnqueueStep, WriteClosedStep DEF Write
<1>4. CASE \E c \in Closers : Close(c)
  BY <1>4, CloseCallStep, CloseWaitWriterStep DEF Close
<1>5. CASE \E t \in Stoppers : Shutdown(t)
  BY <1>5, StopSwapStep, StopCloseDoneStep, HandleSwapStep, DeviceCloseStep DEF Shutdown
<1>6. CASE UNCHANGED vars
  BY <1>6, StutterStep
<1>7. QED
  BY <1>1, <1>2, <1>3, <1>4, <1>5, <1>6 DEF Next

\* The inductive invariant holds in every state of the device's life.
THEOREM Invariance == Spec => []IInv
BY InitIInv, NextIInv, PTL DEF Spec

-----------------------------------------------------------------------------
\* Type correctness of Device, for any number of callers and any capacity.
THEOREM TypeCorrect == Spec => []TypeOK
<1>1. IInv => TypeOK
  BY DEF IInv
<1>2. QED
  BY <1>1, Invariance, PTL

\* done and the hidapi handle are closed at most once, however many goroutines
\* run stop and closeHandle at the same time.
THEOREM ShutdownSafe == Spec => []ShutdownOnce
<1>1. IInv => ShutdownOnce
  BY DEF IInv
<1>2. QED
  BY <1>1, Invariance, PTL

\* The write loop never writes to a handle that Close has closed under it.
THEOREM WriterSafe == Spec => []WriterOwnsHandle
<1>1. IInv => WriterOwnsHandle
  BY DEF IInv, TypeOK, HandleInv, WriterInv, WriterOwnsHandle
<1>2. QED
  BY <1>1, Invariance, PTL

\* Accepted reports are sent in order, none twice, for any queue capacity.
THEOREM OrderPreserved == Spec => []QueueOrder
<1>1. IInv => QueueOrder
  BY DEF IInv, QueueInv, QueueOrder
<1>2. QED
  BY <1>1, Invariance, PTL

\* No report leaves the host once a call of Close has returned.
THEOREM SilentAfterClose == Spec => NothingSentAfterClose
<1>1. ASSUME IInv, [Next]_vars, NEW c \in Closers, pc[c] = "returned"
      PROVE  sent' = sent
  <2>1. pc[WriteLoop] = "gone"
    BY <1>1 DEF IInv, WriterInv
  <2>2. ~LoopWriteOk
    BY <2>1 DEF LoopWriteOk
  <2>3. CASE UNCHANGED vars
    BY <2>3 DEF vars, history
  <2>4. CASE Read
    BY <2>4 DEF Read, ReadCall, ReadReport, ReadError, history
  <2>5. CASE writeLoop
    BY <2>2, <2>5 DEF writeLoop, LoopReceive, LoopWriteFail, LoopDone, LoopExit, history
  <2>6. CASE \E w \in Writers : Write(w)
    BY <2>6 DEF Write, WriteCall, WriteEnqueue, WriteClosed, history
  <2>7. CASE \E d \in Closers : Close(d)
    BY <2>7 DEF Close, CloseCall, CloseWaitWriter, history
  <2>8. CASE \E t \in Stoppers : Shutdown(t)
    BY <2>8 DEF Shutdown, StopSwap, StopCloseDone, HandleSwap, DeviceClose, history
  <2>9. QED
    BY <1>1, <2>3, <2>4, <2>5, <2>6, <2>7, <2>8 DEF Next
<1>2. IInv /\ [Next]_vars => [(\E c \in Closers : pc[c] = "returned") => sent' = sent]_vars
  BY <1>1
<1>3. QED
  BY <1>2, Invariance, PTL DEF Spec, NothingSentAfterClose
=============================================================================
