------------------------------- MODULE Caller -------------------------------
(***************************************************************************)
(* The request sequences of the host, impl/dll/internal/hid/caller.go.     *)
(* Goroutines call Allocate, goroutines call Consume, and the entries of   *)
(* the cache calls expire; one step is one operation on the atomic counter *)
(* next, on the cache, on the flag consumed or on the channel of a call.   *)
(* Each run of Allocate is one member of Calls.  Sequences are uint16 in   *)
(* the code and smaller here, so that the counter wraps.                   *)
(*                                                                         *)
(* The cache, freelru.SyncedLRU, is external: a map that drops an entry    *)
(* when it is full (the least recent one; here, any); an expired entry is  *)
(* not found, and is removed when it is asked for.                         *)
(***************************************************************************)
EXTENDS Naturals, FiniteSets

CONSTANTS
    Calls,       \* the runs of Allocate
    Consumers,   \* the goroutines that run Consume
    NoCall,      \* no call found
    SequenceMod, \* number of sequences, zero included (65536 in the code)
    Capacity     \* callerCapacity (1024 in the code)

ASSUME SizeAssumption == SequenceMod \in Nat \ {0, 1} /\ Capacity \in Nat \ {0}
ASSUME CallAssumption == NoCall \notin Calls

VARIABLES
    next,        \* the counter, modulo SequenceMod
    calls,       \* the cache: per sequence, the call registered, or NoCall
    pc,          \* per call, where Allocate is; "waiting" once it has returned
    sequence,    \* per call
    attempts,    \* per call
    response,    \* per call, how many responses were sent to its channel
    consumed,    \* the calls whose flag is set
    expired,     \* the calls whose lifetime has passed
    cpc,         \* per consumer, where Consume is
    asked,       \* per consumer, its argument sequence
    found,       \* per consumer, the call that its Get returned
    evicted,     \* history: calls dropped because the cache was full
    raced        \* history: calls that drew a sequence that a Consume had in hand

allocating == <<next, pc, sequence, attempts>>
consuming == <<consumed, response, cpc, asked, found>>
history == <<evicted, raced>>
vars == <<allocating, consuming, calls, expired, history>>

Uint16 == 0 .. (SequenceMod - 1)

Init ==
    /\ next = 0 /\ calls = [s \in Uint16 |-> NoCall]
    /\ pc = [c \in Calls |-> "next"] /\ sequence = [c \in Calls |-> 0]
    /\ attempts = [c \in Calls |-> 0] /\ response = [c \in Calls |-> 0]
    /\ consumed = {} /\ expired = {}
    /\ cpc = [k \in Consumers |-> "idle"] /\ asked = [k \in Consumers |-> 0]
    /\ found = [k \in Consumers |-> NoCall]
    /\ evicted = {} /\ raced = {}

-----------------------------------------------------------------------------
(* The cache.                                                              *)

\* What Get returns, and the map it leaves.
Got(s) == IF calls[s] \in expired THEN NoCall ELSE calls[s]
AfterGet(s) == [calls EXCEPT ![s] = Got(s)]

\* Which entries Add(s) finds beside its own.
Others(s) == {t \in Uint16 \ {s} : calls[t] # NoCall}

-----------------------------------------------------------------------------
(* Allocate.                                                               *)

\* No Allocate stalls while all the other sequences are drawn.
NotOvertaken(s) == \A d \in Calls : pc[d] \in {"get", "add"} => sequence[d] # s

\* A counter that does not skip zero.
AllocateNext_Zero(c) ==
    /\ pc[c] = "next" /\ attempts[c] < SequenceMod - 1
    /\ next' = (next + 1) % SequenceMod
    /\ NotOvertaken(next')
    /\ attempts' = [attempts EXCEPT ![c] = @ + 1]
    /\ sequence' = [sequence EXCEPT ![c] = next']
    /\ pc' = [pc EXCEPT ![c] = "get"]
    /\ UNCHANGED <<consuming, calls, expired, history>>

\* The head of the loop: next.Add(1), again if the sequence is zero.
AllocateNext(c) ==
    /\ pc[c] = "next" /\ attempts[c] < SequenceMod - 1
    /\ next' = (next + 1) % SequenceMod
    /\ NotOvertaken(next')
    /\ attempts' = [attempts EXCEPT ![c] = @ + 1]
    /\ IF next' = 0
       THEN UNCHANGED <<pc, sequence>>
       ELSE /\ sequence' = [sequence EXCEPT ![c] = next']
            /\ pc' = [pc EXCEPT ![c] = "get"]
    /\ UNCHANGED <<consuming, calls, expired, history>>

\* The loop ends without a free sequence: ErrSequenceExhausted.
AllocateExhausted(c) ==
    /\ pc[c] = "next" /\ attempts[c] = SequenceMod - 1
    /\ pc' = [pc EXCEPT ![c] = "exhausted"]
    /\ UNCHANGED <<next, sequence, attempts, consuming, calls, expired, history>>

\* An Allocate that trusts the counter.
AllocateGet_Unchecked(c) ==
    /\ pc[c] = "get"
    /\ pc' = [pc EXCEPT ![c] = "add"]
    /\ UNCHANGED <<next, sequence, attempts, calls, consuming, expired, history>>

\* calls.Get: a sequence that is in use is not taken.
AllocateGet(c) ==
    /\ pc[c] = "get"
    /\ calls' = AfterGet(sequence[c])
    /\ pc' = [pc EXCEPT ![c] = IF Got(sequence[c]) = NoCall THEN "add" ELSE "next"]
    /\ UNCHANGED <<next, sequence, attempts, consuming, expired, history>>

\* calls.AddWithLifetime
AllocateAdd(c) ==
    /\ pc[c] = "add"
    /\ LET s == sequence[c]
       IN /\ \/ /\ Cardinality(Others(s)) < Capacity
                /\ calls' = [calls EXCEPT ![s] = c]
                /\ UNCHANGED evicted
             \/ /\ Cardinality(Others(s)) >= Capacity
                /\ \E t \in Others(s) :
                    /\ calls' = [calls EXCEPT ![t] = NoCall, ![s] = c]
                    /\ evicted' = evicted \cup {calls[t]}
          /\ raced' = IF \E k \in Consumers : cpc[k] \in {"swap", "remove"} /\ asked[k] = s
                      THEN raced \cup {c}
                      ELSE raced
    /\ pc' = [pc EXCEPT ![c] = "waiting"]
    /\ UNCHANGED <<next, sequence, attempts, consuming, expired>>

-----------------------------------------------------------------------------
(* Consume.                                                                *)

\* A response arrives, expected or not; calls.Get.
ConsumeGet(k, s) ==
    /\ cpc[k] = "idle"
    /\ asked' = [asked EXCEPT ![k] = s]
    /\ found' = [found EXCEPT ![k] = Got(s)]
    /\ calls' = AfterGet(s)
    /\ cpc' = [cpc EXCEPT ![k] = IF Got(s) = NoCall THEN "idle" ELSE "swap"]
    /\ UNCHANGED <<allocating, consumed, response, expired, history>>

\* A flag that is read and then set.
ConsumeSwap_NoCAS(k) ==
    /\ cpc[k] = "swap"
    /\ cpc' = [cpc EXCEPT ![k] = "remove"]
    /\ consumed' = consumed \cup {found[k]}
    /\ UNCHANGED <<allocating, response, asked, found, calls, expired, history>>

\* consumed.CompareAndSwap(false, true); ErrUnknownSequence if it was set.
ConsumeSwap(k) ==
    /\ cpc[k] = "swap"
    /\ cpc' = [cpc EXCEPT ![k] = IF found[k] \in consumed THEN "idle" ELSE "remove"]
    /\ consumed' = consumed \cup {found[k]}
    /\ UNCHANGED <<allocating, response, asked, found, calls, expired, history>>

\* calls.Remove, of whatever call has the sequence by now.
ConsumeRemove(k) ==
    /\ cpc[k] = "remove"
    /\ cpc' = [cpc EXCEPT ![k] = "send"]
    /\ calls' = [calls EXCEPT ![asked[k]] = NoCall]
    /\ UNCHANGED <<allocating, consumed, response, asked, found, expired, history>>

\* The send on the channel.
ConsumeSend(k) ==
    /\ cpc[k] = "send"
    /\ cpc' = [cpc EXCEPT ![k] = "idle"]
    /\ response' = [response EXCEPT ![found[k]] = @ + 1]
    /\ UNCHANGED <<allocating, consumed, asked, found, calls, expired, history>>

-----------------------------------------------------------------------------
\* The lifetime of a call has passed.
Expire(c) ==
    /\ pc[c] = "waiting" /\ c \notin expired
    /\ expired' = expired \cup {c}
    /\ UNCHANGED <<allocating, consuming, calls, history>>

Allocate(c) == AllocateNext(c) \/ AllocateExhausted(c) \/ AllocateGet(c) \/ AllocateAdd(c)
Consume(k) ==
    \/ \E s \in Uint16 : ConsumeGet(k, s)
    \/ ConsumeSwap(k) \/ ConsumeRemove(k) \/ ConsumeSend(k)

Next ==
    \/ \E c \in Calls : Allocate(c) \/ Expire(c)
    \/ \E k \in Consumers : Consume(k)

Spec == Init /\ [][Next]_vars

-----------------------------------------------------------------------------
(* Properties.                                                             *)

\* The variables; "A REQUEST has non-zero sequence" (spec/rfc-0001-prhp.md).
TypeOK ==
    /\ next \in Uint16 /\ calls \in [Uint16 -> Calls \cup {NoCall}]
    /\ pc \in [Calls -> {"next", "get", "add", "waiting", "exhausted"}]
    /\ sequence \in [Calls -> Uint16]
    /\ \A c \in Calls : pc[c] \in {"get", "add", "waiting"} => sequence[c] # 0
    /\ attempts \in [Calls -> Uint16] /\ response \in [Calls -> Nat]
    /\ consumed \cup expired \cup evicted \cup raced \subseteq Calls
    /\ cpc \in [Consumers -> {"idle", "swap", "remove", "send"}]
    /\ asked \in [Consumers -> Uint16] /\ found \in [Consumers -> Calls \cup {NoCall}]
    /\ \A k \in Consumers : cpc[k] # "idle" => found[k] \in Calls

\* Consumer k has won the call and is about to send to its channel.
Sending(k, c) == cpc[k] \in {"remove", "send"} /\ found[k] = c

\* The channel of a call has room for one response and its caller may be gone:
\* two sends would block the read loop for good.  However responses are
\* duplicated, a call gets at most one, sent or on its way.
AtMostOneResponse ==
    \A c \in Calls :
        /\ response[c] <= 1
        /\ \A k \in Consumers : Sending(k, c) =>
            /\ response[c] = 0
            /\ \A j \in Consumers : Sending(j, c) => j = k

\* "The Host keeps in-flight request sequences unique" (spec/rfc-0001-prhp.md),
\* and their responses find them: a call that waits is registered under its own
\* sequence until it is consumed or expires.  It is lost otherwise in two cases
\* only: it is pushed out of a full cache, or its sequence was drawn while a
\* Consume had just found the expired call that had it before, whose Remove then
\* hits the newer call.
StaysRegistered ==
    \A c \in Calls :
        pc[c] = "waiting" /\ c \notin expired \cup consumed \cup evicted \cup raced =>
            calls[sequence[c]] = c
=============================================================================
