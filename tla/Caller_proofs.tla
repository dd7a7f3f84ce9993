--------------------------- MODULE Caller_proofs ---------------------------
(***************************************************************************)
(* Caller is correct for any number of calls, of consumers, of sequences   *)
(* and for any capacity of the cache.                                      *)
(*                                                                         *)
(* AtMostOneResponse rests on Claimed alone.  StaysRegistered rests on the *)
(* other three: a sequence is free when Add takes it (FreeWhenAdded), no   *)
(* two runs of Allocate hold the same one (DistinctSequences), and what a  *)
(* Consume removes is the call it found or a call that raced with it       *)
(* (RemovesItsOwn).                                                        *)
(***************************************************************************)
EXTENDS Caller, TLAPS

\* A call has a response, sent or on its way, only once its flag is set.
Claimed ==
    /\ \A c \in Calls : c \notin consumed => response[c] = 0
    /\ \A k \in Consumers : cpc[k] \in {"remove", "send"} => found[k] \in consumed

Responses == Claimed /\ AtMostOneResponse

\* A sequence that Get did not find is still free when Add takes it.
FreeWhenAdded == \A c \in Calls : pc[c] = "add" => calls[sequence[c]] = NoCall

\* No two runs of Allocate hold the same sequence between next.Add and Add.
DistinctSequences ==
    \A c, d \in Calls :
        /\ pc[c] \in {"get", "add"} /\ pc[d] \in {"get", "add"}
        /\ sequence[c] = sequence[d]
        => c = d

\* What is registered under the sequence that a Consume is about to remove.
RemovesItsOwn ==
    \A k \in Consumers : cpc[k] \in {"swap", "remove"} =>
        calls[asked[k]] \in {NoCall, found[k]} \cup raced

Registry == FreeWhenAdded /\ DistinctSequences /\ RemovesItsOwn /\ StaysRegistered

-----------------------------------------------------------------------------
\* The counter stays a uint16.
LEMMA NextSequence ==
    ASSUME NEW n \in Uint16
    PROVE  (n + 1) % SequenceMod \in Uint16
  BY SizeAssumption DEF Uint16

\* Get leaves a registered call or nothing, and changes only its own entry.
LEMMA GetType ==
    ASSUME TypeOK, NEW s \in Uint16
    PROVE  /\ Got(s) \in Calls \cup {NoCall}
           /\ AfterGet(s) \in [Uint16 -> Calls \cup {NoCall}]
           /\ \A t \in Uint16 : \/ AfterGet(s)[t] = calls[t]
                                \/ AfterGet(s)[t] = NoCall /\ calls[t] \in expired
           /\ AfterGet(s)[s] = Got(s)
           /\ Got(s) # NoCall => Got(s) = calls[s]
  BY DEF TypeOK, Got, AfterGet

\* The variables keep their types and no request draws sequence zero, whichever
\* goroutines run Allocate and Consume: the counter wraps and skips zero.
THEOREM TypeCorrect == Spec => []TypeOK
<1>1. Init => TypeOK
  BY SizeAssumption DEF Init, TypeOK, Uint16
<1>2. TypeOK /\ [Next]_vars => TypeOK'
  <2> SUFFICES ASSUME TypeOK, [Next]_vars PROVE TypeOK'
    OBVIOUS
  <2>1. ASSUME NEW c \in Calls, AllocateNext(c) PROVE TypeOK'
    <3>1. next' \in Uint16
      BY <2>1, NextSequence DEF TypeOK, AllocateNext
    <3>2. attempts' \in [Calls -> Uint16]
      BY <2>1, SizeAssumption DEF TypeOK, AllocateNext, Uint16
    <3> QED
      BY <2>1, <3>1, <3>2 DEF TypeOK, AllocateNext, consuming, history
  <2>2. ASSUME NEW c \in Calls, AllocateExhausted(c) PROVE TypeOK'
    BY <2>2 DEF TypeOK, AllocateExhausted, consuming, history
  <2>3. ASSUME NEW c \in Calls, AllocateGet(c) PROVE TypeOK'
    <3>1. calls' \in [Uint16 -> Calls \cup {NoCall}]
      BY <2>3, GetType DEF TypeOK, AllocateGet
    <3> QED
      BY <2>3, <3>1 DEF TypeOK, AllocateGet, consuming, history
  <2>4. ASSUME NEW c \in Calls, AllocateAdd(c) PROVE TypeOK'
    BY <2>4 DEF TypeOK, AllocateAdd, Others, consuming
  <2>5. ASSUME NEW k \in Consumers, NEW s \in Uint16, ConsumeGet(k, s) PROVE TypeOK'
    <3>1. calls' \in [Uint16 -> Calls \cup {NoCall}] /\ Got(s) \in Calls \cup {NoCall}
      BY <2>5, GetType DEF ConsumeGet
    <3> QED
      BY <2>5, <3>1 DEF TypeOK, ConsumeGet, allocating, history
  <2>6. ASSUME NEW k \in Consumers, ConsumeSwap(k) PROVE TypeOK'
    BY <2>6 DEF TypeOK, ConsumeSwap, allocating, history
  <2>7. ASSUME NEW k \in Consumers, ConsumeRemove(k) PROVE TypeOK'
    BY <2>7 DEF TypeOK, ConsumeRemove, allocating, history
  <2>8. ASSUME NEW k \in Consumers, ConsumeSend(k) PROVE TypeOK'
    BY <2>8 DEF TypeOK, ConsumeSend, allocating, history
  <2>9. ASSUME NEW c \in Calls, Expire(c) PROVE TypeOK'
    BY <2>9 DEF TypeOK, Expire, allocating, consuming, history
  <2>10. CASE UNCHANGED vars
    BY <2>10 DEF TypeOK, vars, allocating, consuming, history
  <2> QED
    BY <2>1, <2>2, <2>3, <2>4, <2>5, <2>6, <2>7, <2>8, <2>9, <2>10
    DEF Next, Allocate, Consume
<1> QED
  BY <1>1, <1>2, PTL DEF Spec

-----------------------------------------------------------------------------
\* A response is on its way only from the Consume that set the flag.
LEMMA ResponsesHold == Spec => []Responses
<1>1. Init => Responses
  BY DEF Init, Responses, Claimed, AtMostOneResponse, Sending
<1>2. TypeOK /\ Responses /\ [Next]_vars => Responses'
  <2> SUFFICES ASSUME TypeOK, Responses, [Next]_vars PROVE Responses'
    OBVIOUS
  <2>1. ASSUME UNCHANGED consuming PROVE Responses'
    BY <2>1 DEF Responses, Claimed, AtMostOneResponse, Sending, consuming
  <2>2. ASSUME NEW c \in Calls, Allocate(c) \/ Expire(c) PROVE Responses'
    BY <2>1, <2>2 DEF Allocate, AllocateNext, AllocateExhausted, AllocateGet,
                      AllocateAdd, Expire
  <2>3. ASSUME NEW k \in Consumers, NEW s \in Uint16, ConsumeGet(k, s) PROVE Responses'
    BY <2>3 DEF TypeOK, Responses, Claimed, AtMostOneResponse, Sending, ConsumeGet
  <2>4. ASSUME NEW k \in Consumers, ConsumeSwap(k) PROVE Responses'
    BY <2>4 DEF TypeOK, Responses, Claimed, AtMostOneResponse, Sending, ConsumeSwap
  <2>5. ASSUME NEW k \in Consumers, ConsumeRemove(k) PROVE Responses'
    BY <2>5 DEF TypeOK, Responses, Claimed, AtMostOneResponse, Sending, ConsumeRemove
  <2>6. ASSUME NEW k \in Consumers, ConsumeSend(k) PROVE Responses'
    BY <2>6 DEF TypeOK, Responses, Claimed, AtMostOneResponse, Sending, ConsumeSend
  <2>7. CASE UNCHANGED vars
    BY <2>1, <2>7 DEF vars
  <2> QED
    BY <2>2, <2>3, <2>4, <2>5, <2>6, <2>7 DEF Next, Consume
<1> QED
  BY <1>1, <1>2, TypeCorrect, PTL DEF Spec

\* The flag of a call is won once: however responses are duplicated and however
\* the runs of Consume interleave, the channel of a call gets one response at most.
THEOREM SingleResponse == Spec => []AtMostOneResponse
<1>1. Responses => AtMostOneResponse
  BY DEF Responses
<1> QED
  BY <1>1, ResponsesHold, PTL

-----------------------------------------------------------------------------
\* An entry that disappears, without a new one, disturbs the registry only if
\* its call has expired, was consumed or raced.
LEMMA DroppedEntries ==
    ASSUME TypeOK, TypeOK', Registry,
           UNCHANGED <<pc, sequence, history>>,
           expired \subseteq expired', consumed \subseteq consumed',
           \A t \in Uint16 : \/ calls'[t] = calls[t]
                             \/ /\ calls'[t] = NoCall
                                /\ calls[t] \in expired \cup consumed \cup raced \cup {NoCall}
    PROVE  FreeWhenAdded' /\ DistinctSequences' /\ StaysRegistered'
<1>1. FreeWhenAdded'
  BY DEF Registry, FreeWhenAdded, TypeOK
<1>2. DistinctSequences'
  BY DEF Registry, DistinctSequences
<1>3. StaysRegistered'
  BY CallAssumption DEF Registry, StaysRegistered, TypeOK, history
<1> QED
  BY <1>1, <1>2, <1>3

\* A call that waits is registered under its own sequence: it is lost, before it
\* is consumed or expires, only by a full cache or by a Consume that raced with it.
THEOREM Registered == Spec => []StaysRegistered
<1>1. Init => Registry
  BY DEF Init, Registry, FreeWhenAdded, DistinctSequences, RemovesItsOwn, StaysRegistered
<1>2. TypeOK /\ TypeOK' /\ Responses /\ Registry /\ [Next]_vars => Registry'
  <2> SUFFICES ASSUME TypeOK, TypeOK', Responses, Registry, [Next]_vars PROVE Registry'
    OBVIOUS
  <2>1. ASSUME NEW c \in Calls, AllocateNext(c) PROVE Registry'
    <3>1. FreeWhenAdded' /\ RemovesItsOwn' /\ StaysRegistered'
      BY <2>1 DEF AllocateNext, TypeOK, Registry, FreeWhenAdded, RemovesItsOwn,
                  StaysRegistered, consuming, history
    <3>2. DistinctSequences'
      BY <2>1 DEF AllocateNext, NotOvertaken, TypeOK, Registry, DistinctSequences
    <3> QED
      BY <3>1, <3>2 DEF Registry
  <2>2. ASSUME NEW c \in Calls, AllocateExhausted(c) PROVE Registry'
    BY <2>2 DEF AllocateExhausted, TypeOK, Registry, FreeWhenAdded, DistinctSequences,
                RemovesItsOwn, StaysRegistered, consuming, history
  <2>3. ASSUME NEW c \in Calls, AllocateGet(c) PROVE Registry'
    <3> DEFINE s == sequence[c]
    <3>1. s \in Uint16
      BY DEF TypeOK
    <3>2. /\ \A t \in Uint16 : calls'[t] = calls[t] \/ (calls'[t] = NoCall /\ calls[t] \in expired)
          /\ calls'[s] = Got(s)
      BY <2>3, <3>1, GetType DEF AllocateGet
    <3>3. FreeWhenAdded'
      BY <2>3, <3>1, <3>2 DEF AllocateGet, TypeOK, Registry, FreeWhenAdded
    <3>4. DistinctSequences'
      BY <2>3 DEF AllocateGet, TypeOK, Registry, DistinctSequences
    <3>5. RemovesItsOwn' /\ StaysRegistered'
      BY <2>3, <3>2 DEF AllocateGet, TypeOK, Registry, RemovesItsOwn, StaysRegistered,
                        consuming, history
    <3> QED
      BY <3>3, <3>4, <3>5 DEF Registry
  <2>4. ASSUME NEW c \in Calls, AllocateAdd(c) PROVE Registry'
    <3> DEFINE s == sequence[c]
    <3>1. /\ s \in Uint16 /\ calls[s] = NoCall
          /\ calls'[s] = c
          /\ \A t \in Uint16 \ {s} : \/ calls'[t] = calls[t]
                                     \/ calls'[t] = NoCall /\ calls[t] \in evicted'
          /\ evicted \subseteq evicted' /\ raced \subseteq raced'
          /\ pc' = [pc EXCEPT ![c] = "waiting"]
          /\ UNCHANGED <<sequence, consuming, expired>>
      BY <2>4 DEF AllocateAdd, Others, TypeOK, Registry, FreeWhenAdded
    <3>2. FreeWhenAdded' /\ DistinctSequences'
      BY <2>4, <3>1 DEF AllocateAdd, TypeOK, Registry, FreeWhenAdded, DistinctSequences
    <3>3. RemovesItsOwn'
      <4>1. \A k \in Consumers : cpc[k] \in {"swap", "remove"} /\ asked[k] = s => c \in raced'
        BY <2>4 DEF AllocateAdd
      <4> QED
        BY <3>1, <4>1 DEF TypeOK, Registry, RemovesItsOwn, consuming
    <3>4. StaysRegistered'
      BY <3>1, CallAssumption DEF TypeOK, Registry, StaysRegistered, consuming
    <3> QED
      BY <3>2, <3>3, <3>4 DEF Registry
  <2>5. ASSUME NEW k \in Consumers, NEW s \in Uint16, ConsumeGet(k, s) PROVE Registry'
    <3>1. /\ \A t \in Uint16 : calls'[t] = calls[t] \/ (calls'[t] = NoCall /\ calls[t] \in expired)
          /\ calls'[s] = Got(s)
      BY <2>5, GetType DEF ConsumeGet
    <3>2. FreeWhenAdded' /\ DistinctSequences' /\ StaysRegistered'
      BY <2>5, <3>1, DroppedEntries DEF ConsumeGet, allocating, history
    <3>3. RemovesItsOwn'
      BY <2>5, <3>1 DEF ConsumeGet, TypeOK, Registry, RemovesItsOwn, history
    <3> QED
      BY <3>2, <3>3 DEF Registry
  <2>6. ASSUME NEW k \in Consumers, ConsumeSwap(k) PROVE Registry'
    <3>1. FreeWhenAdded' /\ DistinctSequences' /\ StaysRegistered'
      BY <2>6, DroppedEntries DEF ConsumeSwap, allocating, history
    <3>2. RemovesItsOwn'
      BY <2>6 DEF ConsumeSwap, TypeOK, Registry, RemovesItsOwn, history
    <3> QED
      BY <3>1, <3>2 DEF Registry
  <2>7. ASSUME NEW k \in Consumers, ConsumeRemove(k) PROVE Registry'
    <3>1. calls[asked[k]] \in consumed \cup raced \cup {NoCall}
      BY <2>7 DEF ConsumeRemove, Responses, Claimed, Registry, RemovesItsOwn
    <3>2. \A t \in Uint16 : calls'[t] = calls[t] \/ (calls'[t] = NoCall /\ t = asked[k])
      BY <2>7 DEF ConsumeRemove, TypeOK
    <3>3. FreeWhenAdded' /\ DistinctSequences' /\ StaysRegistered'
      BY <2>7, <3>1, <3>2, DroppedEntries DEF ConsumeRemove, allocating, history
    <3>4. RemovesItsOwn'
      BY <2>7, <3>2 DEF ConsumeRemove, TypeOK, Registry, RemovesItsOwn, history
    <3> QED
      BY <3>3, <3>4 DEF Registry
  <2>8. ASSUME NEW k \in Consumers, ConsumeSend(k) PROVE Registry'
    <3>1. FreeWhenAdded' /\ DistinctSequences' /\ StaysRegistered'
      BY <2>8, DroppedEntries DEF ConsumeSend, allocating, history
    <3>2. RemovesItsOwn'
      BY <2>8 DEF ConsumeSend, TypeOK, Registry, RemovesItsOwn, history
    <3> QED
      BY <3>1, <3>2 DEF Registry
  <2>9. ASSUME NEW c \in Calls, Expire(c) PROVE Registry'
    <3>1. FreeWhenAdded' /\ DistinctSequences' /\ StaysRegistered'
      BY <2>9, DroppedEntries DEF Expire, allocating, consuming, history
    <3>2. RemovesItsOwn'
      BY <2>9 DEF Expire, Registry, RemovesItsOwn, consuming, history
    <3> QED
      BY <3>1, <3>2 DEF Registry
  <2>10. CASE UNCHANGED vars
    BY <2>10 DEF vars, allocating, consuming, history, Registry, FreeWhenAdded,
                 DistinctSequences, RemovesItsOwn, StaysRegistered
  <2> QED
    BY <2>1, <2>2, <2>3, <2>4, <2>5, <2>6, <2>7, <2>8, <2>9, <2>10
    DEF Next, Allocate, Consume
<1>3. Registry => StaysRegistered
  BY DEF Registry
<1> QED
  BY <1>1, <1>2, <1>3, TypeCorrect, ResponsesHold, PTL DEF Spec
=============================================================================
