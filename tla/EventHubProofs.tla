--------------------------- MODULE EventHubProofs ----------------------------
(***************************************************************************)
(* Proofs about the listener of EventHub, for any documents, partitions,   *)
(* events, keys and bounds.                                                *)
(***************************************************************************)
EXTENDS EventHub, Counting, TLAPS

(* The arithmetic part of the assumption, apart from its sets of records. *)
LEMMA Bounds ==
  /\ Timeouts \subseteq Nat /\ DefaultTimeout \in Nat /\ PollCap \in Nat
  /\ LogBound \in Nat /\ ReplayBound \in Nat
BY EventHubAssumption

(* A settled call is a call. *)
LEMMA SettledType ==
  ASSUME NEW pc \in {"idle", "warming", "suspended", "returned", "timedout"},
         NEW k \in Keys, NEW i \in Nat
  PROVE  Settled(pc, k, i) \in Calls
BY DEF Settled, Calls

(* One turn of the wait loop leaves the call and the latch well-typed. *)
LEMMA LoopBodyType ==
  ASSUME TypeOK, NEW d \in Docs, NEW k \in Keys, NEW n \in Nat, LoopBody(d, k, n)
  PROVE  call' \in [Docs -> Calls] /\ newEvent' \in BOOLEAN
<1>1. CASE Return(d, k)
  <2>1. PICK i \in DOMAIN events :
          call' = [call EXCEPT ![d] = Settled("returned", k, i)]
    BY <1>1 DEF Return
  <2>2. i \in Nat
    BY DEF TypeOK
  <2>. QED
    BY <1>1, <2>1, <2>2, SettledType DEF TypeOK, Return
<1>2. CASE GiveUp(d, k, n)
  BY <1>2, SettledType DEF TypeOK, GiveUp
<1>3. CASE Suspend(d, k, n)
  <2>1. Lesser(n, PollCap) \in Nat
    BY Bounds DEF Lesser
  <2>2. newEvent' = FALSE
    BY <1>3 DEF Suspend
  <2>3. [pc |-> "suspended", key |-> k, left |-> n, poll |-> Lesser(n, PollCap),
         woken |-> newEvent', found |-> 0] \in Calls
    BY <2>1, <2>2 DEF Calls
  <2>. QED
    BY <1>3, <2>2, <2>3 DEF TypeOK, Suspend
<1>. QED
  BY <1>1, <1>2, <1>3 DEF LoopBody

(* The initial state is well-typed. *)
LEMMA InitType == Init => TypeOK
<1> SUFFICES ASSUME Init PROVE TypeOK
  OBVIOUS
<1>1. NoKey \in Keys
  BY EventHubAssumption DEF NoKey
<1>2. Settled("idle", NoKey, 0) \in Calls
  BY <1>1, SettledType
<1>3. log \in [Partitions -> Seq(Emittable)] /\ events \in Seq(CapturedEvents)
  BY DEF Init
<1>4. \A p \in Partitions : Len(log[p]) = 0
  BY DEF Init
<1>5. call \in [Docs -> Calls]
  BY <1>2 DEF Init
<1>6. since \in [Docs -> [Partitions -> Nat]]
  BY DEF Init
<1>7. \A p \in Partitions : Len(log[p]) <= LogBound /\ read[p] <= Len(log[p])
  BY <1>4, Bounds DEF Init
<1>8. read \in [Partitions -> Nat]
  BY DEF Init
<1>9. task \in [Partitions -> {"none", "running", "ended", "closed"}]
  BY DEF Init
<1>10. watched \subseteq Docs /\ newEvent \in BOOLEAN /\ replays = 0
  BY DEF Init
<1>. QED
  BY <1>3, <1>5, <1>6, <1>7, <1>8, <1>9, <1>10, Bounds DEF TypeOK

(* Every step keeps the state well-typed. *)
LEMMA StepType == TypeOK /\ [Next]_vars => TypeOK'
<1> SUFFICES ASSUME TypeOK, [Next]_vars PROVE TypeOK'
  OBVIOUS
<1>1. ASSUME NEW p \in Partitions, NEW e \in Emittable, Emit(p, e)
      PROVE  TypeOK'
  BY <1>1, Bounds DEF TypeOK, Emit
<1>2. ASSUME NEW d \in Docs, WatchCold(d)
      PROVE  TypeOK'
  <2>1. [call[d] EXCEPT !.pc = "warming"] \in Calls
    BY DEF TypeOK, Calls
  <2>2. call' = [call EXCEPT ![d] = [call[d] EXCEPT !.pc = "warming"]]
    BY <1>2 DEF WatchCold
  <2>3. call' \in [Docs -> Calls]
    BY <2>1, <2>2 DEF TypeOK
  <2>. QED
    BY <1>2, <2>3 DEF TypeOK, WatchCold
<1>3. ASSUME NEW d \in Docs, WarmupOver(d)
      PROVE  TypeOK'
  <2>1. [call[d] EXCEPT !.pc = "idle"] \in Calls
    BY DEF TypeOK, Calls
  <2>2. call' = [call EXCEPT ![d] = [call[d] EXCEPT !.pc = "idle"]]
    BY <1>3 DEF WarmupOver
  <2>3. call' \in [Docs -> Calls]
    BY <2>1, <2>2 DEF TypeOK
  <2>. QED
    BY <1>3, <2>3 DEF TypeOK, WarmupOver, AddWatched, WithWatched
<1>4. ASSUME NEW d \in Docs, WatchWarm(d)
      PROVE  TypeOK'
  BY <1>4 DEF TypeOK, WatchWarm, AddWatched, WithWatched
<1>5. ASSUME NEW p \in Partitions, OnWatchedEvent(p)
      PROVE  TypeOK'
  <2> DEFINE e == log[p][read[p] + 1]
  <2>1. read[p] + 1 \in 1 .. Len(log[p]) /\ read[p] + 1 \in 1 .. LogBound
    BY <1>5, Bounds DEF TypeOK, OnWatchedEvent, Pending
  <2>2. e \in Emittable
    BY <2>1 DEF TypeOK
  <2>3. e.doc \in Docs
    BY <1>5 DEF OnWatchedEvent, TypeOK
  <2>4. Capture(p, e, read[p] + 1) \in CapturedEvents
    BY <2>1, <2>2, <2>3, EventHubAssumption DEF Capture, CapturedEvents
  <2>5. events' \in Seq(CapturedEvents)
    BY <1>5, <2>4 DEF OnWatchedEvent, TypeOK, Buffered
  <2>6. call' \in [Docs -> Calls]
    <3>1. ASSUME NEW d \in Docs PROVE [call[d] EXCEPT !.woken = TRUE] \in Calls
      BY DEF TypeOK, Calls
    <3>. QED
      BY <1>5, <3>1 DEF OnWatchedEvent, TypeOK, Woken
  <2>7. read' \in [Partitions -> Nat] /\ \A q \in Partitions : read'[q] <= Len(log[q])
    BY <1>5, <2>1 DEF OnWatchedEvent, TypeOK
  <2>. QED
    BY <1>5, <2>5, <2>6, <2>7 DEF OnWatchedEvent, TypeOK
<1>6. ASSUME NEW p \in Partitions, OnOtherEvent(p)
      PROVE  TypeOK'
  BY <1>6 DEF TypeOK, OnOtherEvent, Pending
<1>7. ASSUME NEW p \in Partitions, ReceiveError(p)
      PROVE  TypeOK'
  BY <1>7 DEF TypeOK, ReceiveError
<1>8. ASSUME NEW p \in Partitions, Redeliver(p)
      PROVE  TypeOK'
  BY <1>8, Bounds DEF TypeOK, Redeliver
<1>9. ASSUME NEW d \in Docs, NEW k \in Keys, NEW t \in Timeouts, Wait(d, k, t)
      PROVE  TypeOK'
  <2>1. Budget(t) \in Nat
    BY Bounds DEF Budget
  <2>. QED
    BY <1>9, <2>1, LoopBodyType DEF TypeOK, Wait
<1>10. ASSUME NEW d \in Docs, Resume(d)
       PROVE  TypeOK'
  <2>1. call[d].key \in Keys /\ call[d].left \in Nat
    BY DEF TypeOK, Calls
  <2>. QED
    BY <1>10, <2>1, LoopBodyType DEF TypeOK, Resume
<1>11. CASE Tick
  <2>1. ASSUME NEW d \in Docs
        PROVE  [call[d] EXCEPT !.left = Elapse(@), !.poll = Elapse(@)] \in Calls
    <3>1. call[d] \in Calls
      BY DEF TypeOK
    <3>2. Elapse(call[d].left) \in Nat /\ Elapse(call[d].poll) \in Nat
      BY <3>1 DEF Calls, Elapse
    <3>. QED
      BY <3>1, <3>2 DEF Calls
  <2>. QED
    BY <1>11, <2>1 DEF TypeOK, Tick, Later
<1>12. CASE Aexit
  BY <1>12 DEF TypeOK, Aexit
<1>13. CASE UNCHANGED vars
  BY <1>13 DEF TypeOK, vars
<1>. QED
  BY <1>1, <1>2, <1>3, <1>4, <1>5, <1>6, <1>7, <1>8, <1>9, <1>10, <1>11, <1>12, <1>13
  DEF Next, Azure, Listener, Client, Deliver

(* The type invariant holds of every instance of the listener. *)
THEOREM TypeCorrect == Spec => []TypeOK
BY InitType, StepType, PTL DEF Spec
-----------------------------------------------------------------------------
(* A call sleeps only about a document the listener captures events of. *)
WaitersAreWatched == \A d \in Docs : Suspended(d) => d \in watched

(* The inductive invariant: what a sleeping or answered call knows of the   *)
(* buffer, and what the buffer knows of the partitions.                     *)
ListenerInv ==
  TypeOK /\ WaitersAreWatched /\ NoLostWakeup /\ ReturnsEarliestMatch /\ DeliveredIsCaptured

(* An appended event adds at most its own index to the matches of a key. *)
LEMMA MatchesOfAppend ==
  ASSUME TypeOK, NEW c \in CapturedEvents, events' = Append(events, c),
         NEW d \in Docs, NEW k \in Keys
  PROVE  /\ MatchesAt(d, k) \subseteq MatchesAt(d, k)'
         /\ \A i \in MatchesAt(d, k)' : i \in MatchesAt(d, k) \/ i = Len(events) + 1
BY DEF TypeOK, MatchesAt, Matches, Field

(* So the earliest match stays the earliest. *)
LEMMA EarliestStays ==
  ASSUME TypeOK, NEW c \in CapturedEvents, events' = Append(events, c),
         NEW d \in Docs, NEW k \in Keys, NEW i, IsEarliest(i, MatchesAt(d, k))
  PROVE  IsEarliest(i, MatchesAt(d, k)')
<1>1. i \in 1 .. Len(events)
  BY DEF IsEarliest, MatchesAt, TypeOK
<1>2. /\ MatchesAt(d, k) \subseteq MatchesAt(d, k)'
      /\ \A j \in MatchesAt(d, k)' : j \in MatchesAt(d, k) \/ j = Len(events) + 1
  BY MatchesOfAppend
<1>3. Len(events) \in Nat
  BY DEF TypeOK
<1>4. i \in MatchesAt(d, k)'
  BY <1>2 DEF IsEarliest
<1>5. ASSUME NEW j \in MatchesAt(d, k)'
      PROVE  i <= j
  <2>1. CASE j \in MatchesAt(d, k)
    BY <2>1 DEF IsEarliest
  <2>2. CASE j = Len(events) + 1
    BY <2>2, <1>1, <1>3
  <2>. QED
    BY <2>1, <2>2, <1>2
<1>. QED
  BY <1>4, <1>5 DEF IsEarliest

(* What a turn of the wait loop tells of the call of d afterwards. *)
LEMMA LoopBodyOutcome ==
  ASSUME TypeOK, NEW d \in Docs, NEW k \in Keys, NEW n \in Nat, LoopBody(d, k, n),
         UNCHANGED events
  PROVE  /\ \A c \in Docs \ {d} : call'[c] = call[c]
         /\ call'[d].key = k
         /\ call'[d].pc = "suspended" => MatchesAt(d, k) = {}
         /\ call'[d].pc = "timedout" => MatchesAt(d, k) = {}
         /\ call'[d].pc = "returned" => IsEarliest(call'[d].found, MatchesAt(d, k))
<1>1. CASE Return(d, k)
  BY <1>1 DEF TypeOK, Return, Settled, IsFirstMatch, IsEarliest
<1>2. CASE GiveUp(d, k, n)
  BY <1>2 DEF TypeOK, GiveUp, Settled
<1>3. CASE Suspend(d, k, n)
  BY <1>3 DEF TypeOK, Suspend
<1>. QED
  BY <1>1, <1>2, <1>3 DEF LoopBody

(* A turn of the wait loop for a watched document keeps the invariant. *)
LEMMA LoopBodyKeepsInv ==
  ASSUME ListenerInv, TypeOK', NEW d \in Docs, NEW k \in Keys, NEW n \in Nat,
         d \in watched, LoopBody(d, k, n),
         UNCHANGED <<log, read, task, watched, events, replays, since>>
  PROVE  ListenerInv'
<1>1. /\ \A c \in Docs \ {d} : call'[c] = call[c]
      /\ call'[d].key = k
      /\ call'[d].pc = "suspended" => MatchesAt(d, k) = {}
      /\ call'[d].pc = "returned" => IsEarliest(call'[d].found, MatchesAt(d, k))
  BY LoopBodyOutcome DEF ListenerInv
<1>2. \A c \in Docs, q \in Keys : MatchesAt(c, q)' = MatchesAt(c, q)
  BY DEF MatchesAt, Matches, Field
<1>3. \A c \in Docs : call'[c].key \in Keys
  BY DEF TypeOK, Calls
<1>4. WaitersAreWatched'
  BY <1>1 DEF ListenerInv, WaitersAreWatched, Suspended
<1>5. NoLostWakeup'
  BY <1>1, <1>2, <1>3 DEF ListenerInv, NoLostWakeup, Suspended
<1>6. ReturnsEarliestMatch'
  BY <1>1, <1>2, <1>3 DEF ListenerInv, ReturnsEarliestMatch
<1>7. DeliveredIsCaptured'
  BY DEF ListenerInv, DeliveredIsCaptured
<1>. QED
  BY <1>4, <1>5, <1>6, <1>7 DEF ListenerInv

(* A step that leaves the buffer, the latches and keys of the sleeping and  *)
(* the answered calls alone keeps what those calls know.                    *)
LEMMA CallsUndisturbed ==
  ASSUME ListenerInv, UNCHANGED events, watched \subseteq watched',
         \A d \in Docs :
           \/ call'[d].pc \notin {"suspended", "returned"}
           \/ /\ call'[d].pc = call[d].pc /\ call'[d].key = call[d].key
              /\ call'[d].woken = call[d].woken /\ call'[d].found = call[d].found
  PROVE  WaitersAreWatched' /\ NoLostWakeup' /\ ReturnsEarliestMatch'
<1>1. \A c \in Docs : \A q : MatchesAt(c, q)' = MatchesAt(c, q)
  BY DEF MatchesAt, Matches, Field
<1>2. WaitersAreWatched'
  BY DEF ListenerInv, WaitersAreWatched, Suspended
<1>3. NoLostWakeup'
  BY <1>1 DEF ListenerInv, NoLostWakeup, Suspended
<1>4. ReturnsEarliestMatch'
  BY <1>1 DEF ListenerInv, ReturnsEarliestMatch
<1>. QED
  BY <1>2, <1>3, <1>4

(* A document enters the watched set with nothing delivered since. *)
LEMMA AddWatchedCaptures ==
  ASSUME ListenerInv, NEW d \in Docs, AddWatched(d), UNCHANGED <<log, read, events>>
  PROVE  DeliveredIsCaptured' /\ watched \subseteq watched'
<1>1. watched' = watched \cup {d}
  BY DEF AddWatched, WithWatched
<1>2. \A p \in Partitions : read[p] \in Nat
  BY DEF ListenerInv, TypeOK
<1>3. ASSUME NEW c \in watched', NEW p \in Partitions,
             NEW i \in since'[c][p] + 1 .. read[p], log[p][i].doc = c
      PROVE  \E j \in DOMAIN events : events[j] = Capture(p, log[p][i], i)
  <2>1. c \in Docs
    BY <1>1 DEF ListenerInv, TypeOK
  <2>2. CASE c \in watched
    <3>1. since'[c] = since[c]
      BY <2>1, <2>2 DEF AddWatched, ListenerInv, TypeOK
    <3>. QED
      BY <1>3, <2>2, <3>1 DEF ListenerInv, DeliveredIsCaptured
  <2>3. CASE c \notin watched
    <3>1. c = d /\ since'[c] = read
      BY <1>1, <2>1, <2>3 DEF AddWatched, ListenerInv, TypeOK
    <3>. QED
      BY <3>1, <1>2
  <2>. QED
    BY <2>2, <2>3
<1>. QED
  BY <1>1, <1>3 DEF DeliveredIsCaptured, Capture

(* What on_event appends is a captured event. *)
LEMMA OnWatchedEventCaptures ==
  ASSUME TypeOK, NEW p \in Partitions, OnWatchedEvent(p)
  PROVE  Capture(p, log[p][read[p] + 1], read[p] + 1) \in CapturedEvents
<1>1. read[p] + 1 \in 1 .. Len(log[p]) /\ read[p] + 1 \in 1 .. LogBound
  BY Bounds DEF OnWatchedEvent, Pending, TypeOK
<1>2. log[p][read[p] + 1] \in Emittable
  BY <1>1 DEF TypeOK
<1>3. log[p][read[p] + 1].doc \in Docs
  BY DEF OnWatchedEvent, TypeOK
<1>. QED
  BY <1>1, <1>2, <1>3, EventHubAssumption DEF Capture, CapturedEvents

(* The callback for a watched document's event keeps the invariant. *)
LEMMA OnWatchedEventKeepsInv ==
  ASSUME ListenerInv, TypeOK', NEW p \in Partitions, OnWatchedEvent(p)
  PROVE  ListenerInv'
<1> DEFINE n == read[p] + 1
           c == Capture(p, log[p][n], n)
<1>1. /\ events' = Append(events, c)
      /\ read' = [read EXCEPT ![p] = n]
      /\ call' = Woken
      /\ log[p][n].doc \in watched
      /\ UNCHANGED <<log, watched, since>>
  BY DEF OnWatchedEvent, Buffered
<1>2. n \in 1 .. Len(log[p]) /\ n \in 1 .. LogBound
  BY Bounds DEF OnWatchedEvent, Pending, ListenerInv, TypeOK
<1>3. c \in CapturedEvents
  BY OnWatchedEventCaptures DEF ListenerInv
<1>4. ASSUME NEW d \in Docs
      PROVE  /\ call[d].key \in Keys
             /\ call'[d].pc = call[d].pc /\ call'[d].key = call[d].key
             /\ call'[d].found = call[d].found
             /\ Suspended(d) => call'[d].woken
  <2>1. call[d] \in Calls
    BY DEF ListenerInv, TypeOK
  <2>2. call'[d] = IF Suspended(d) THEN [call[d] EXCEPT !.woken = TRUE] ELSE call[d]
    BY <1>1 DEF Woken
  <2>. QED
    BY <2>1, <2>2 DEF Calls
<1>5. WaitersAreWatched'
  BY <1>1, <1>4 DEF ListenerInv, WaitersAreWatched, Suspended
<1>6. NoLostWakeup'
  BY <1>4 DEF NoLostWakeup, Suspended
<1>7. ReturnsEarliestMatch'
  <2>1. ASSUME NEW d \in Docs, NEW k \in Keys, k = call[d].key, call'[d].pc = "returned"
        PROVE  IsEarliest(call'[d].found, MatchesAt(d, k)') /\ call'[d].key = k
    <3>1. IsEarliest(call[d].found, MatchesAt(d, k))
      BY <1>4, <2>1 DEF ListenerInv, ReturnsEarliestMatch
    <3>2. IsEarliest(call[d].found, MatchesAt(d, k)')
      BY <1>1, <1>3, <3>1, EarliestStays DEF ListenerInv
    <3>. QED
      BY <1>4, <2>1, <3>2
  <2>2. ASSUME NEW d \in Docs, call'[d].pc = "returned"
        PROVE  IsEarliest(call[d].found, MatchesAt(d, call[d].key))'
    BY <1>4, <2>1, <2>2 DEF IsEarliest, MatchesAt
  <2>. QED
    BY <2>2 DEF ReturnsEarliestMatch
<1>8. DeliveredIsCaptured'
  <2> SUFFICES ASSUME NEW d \in watched, NEW q \in Partitions,
                      NEW i \in since[d][q] + 1 .. read'[q], log[q][i].doc = d
               PROVE  \E j \in DOMAIN events' : events'[j] = Capture(q, log[q][i], i)
    BY <1>1 DEF DeliveredIsCaptured, Capture
  <2>1. DOMAIN events = 1 .. Len(events) /\ Len(events) \in Nat
    BY DEF ListenerInv, TypeOK
  <2>2. DOMAIN events' = 1 .. Len(events) + 1
    BY <1>1, <1>3, <2>1 DEF ListenerInv, TypeOK
  <2>3. CASE q = p /\ i = n
    <3>1. events'[Len(events) + 1] = c
      BY <1>1, <1>3, <2>1 DEF ListenerInv, TypeOK
    <3>. QED
      BY <2>1, <2>2, <2>3, <3>1
  <2>4. CASE ~(q = p /\ i = n)
    <3>1. i \in since[d][q] + 1 .. read[q]
      BY <1>1, <2>4 DEF ListenerInv, TypeOK
    <3>2. PICK j \in DOMAIN events : events[j] = Capture(q, log[q][i], i)
      BY <3>1 DEF ListenerInv, DeliveredIsCaptured
    <3>3. events'[j] = events[j]
      BY <1>1, <1>3, <2>1 DEF ListenerInv, TypeOK
    <3>. QED
      BY <2>1, <2>2, <3>2, <3>3
  <2>. QED
    BY <2>3, <2>4
<1>. QED
  BY <1>5, <1>6, <1>7, <1>8 DEF ListenerInv

(* The producers and the SDK keep the invariant: a log only grows, and going *)
(* back in it leaves less to have captured.                                  *)
LEMMA AzureKeepsInv ==
  ASSUME ListenerInv, TypeOK', NEW p \in Partitions,
         Redeliver(p) \/ ReceiveError(p) \/ (\E e \in Emittable : Emit(p, e))
  PROVE  ListenerInv'
<1>1. UNCHANGED <<watched, events, call, since>>
  BY DEF Redeliver, ReceiveError, Emit
<1>2. WaitersAreWatched' /\ NoLostWakeup' /\ ReturnsEarliestMatch'
  BY <1>1, CallsUndisturbed
<1>3. DeliveredIsCaptured'
  <2>1. CASE Redeliver(p)
    <3>1. PICK n \in 0 .. read[p] - 1 : read' = [read EXCEPT ![p] = n]
      BY <2>1 DEF Redeliver
    <3>2. \A q \in Partitions : read'[q] <= read[q] /\ read'[q] \in Nat /\ read[q] \in Nat
      BY <3>1 DEF ListenerInv, TypeOK
    <3>3. \A d \in watched, q \in Partitions : since[d][q] \in Nat
      BY DEF ListenerInv, TypeOK
    <3>4. \A d \in watched, q \in Partitions :
            since[d][q] + 1 .. read'[q] \subseteq since[d][q] + 1 .. read[q]
      BY <3>2, <3>3
    <3>. QED
      BY <1>1, <2>1, <3>4 DEF Redeliver, ListenerInv, DeliveredIsCaptured, Capture
  <2>2. CASE ReceiveError(p)
    BY <2>2 DEF ReceiveError, ListenerInv, DeliveredIsCaptured, Capture
  <2>3. ASSUME NEW e \in Emittable, Emit(p, e)
        PROVE  DeliveredIsCaptured'
    <3>1. ASSUME NEW q \in Partitions, NEW i \in 1 .. read[q]
          PROVE  log'[q][i] = log[q][i]
      BY <2>3 DEF Emit, ListenerInv, TypeOK
    <3>2. \A d \in watched, q \in Partitions :
            since[d][q] \in Nat /\ read[q] \in Nat
      BY DEF ListenerInv, TypeOK
    <3>3. ASSUME NEW d \in watched, NEW q \in Partitions,
                 NEW i \in since[d][q] + 1 .. read[q], log'[q][i].doc = d
          PROVE  \E j \in DOMAIN events : events[j] = Capture(q, log'[q][i], i)
      <4>1. log'[q][i] = log[q][i]
        BY <3>1, <3>2
      <4>. QED
        BY <3>3, <4>1 DEF ListenerInv, DeliveredIsCaptured
    <3>4. UNCHANGED <<read, watched, events, since>>
      BY <2>3 DEF Emit
    <3>. QED
      BY <3>3, <3>4 DEF DeliveredIsCaptured, Capture
  <2>. QED
    BY <2>1, <2>2, <2>3
<1>. QED
  BY <1>2, <1>3 DEF ListenerInv

(* The inductive invariant holds initially and is kept by every step. *)
LEMMA InitInv == Init => ListenerInv
<1> SUFFICES ASSUME Init PROVE ListenerInv
  OBVIOUS
<1>1. \A d \in Docs : call[d].pc = "idle"
  BY DEF Init, Settled
<1>. QED
  BY <1>1, InitType
  DEF Init, ListenerInv, WaitersAreWatched, NoLostWakeup, ReturnsEarliestMatch,
      DeliveredIsCaptured, Suspended

LEMMA StepInv == ListenerInv /\ [Next]_vars => ListenerInv'
<1> SUFFICES ASSUME ListenerInv, [Next]_vars PROVE ListenerInv'
  OBVIOUS
<1>1. TypeOK'
  BY StepType DEF ListenerInv
<1>2. ASSUME NEW d \in Docs, WatchCold(d)
      PROVE  ListenerInv'
  <2>1. WaitersAreWatched' /\ NoLostWakeup' /\ ReturnsEarliestMatch'
    BY <1>2, CallsUndisturbed DEF WatchCold, ListenerInv, TypeOK, Calls
  <2>2. DeliveredIsCaptured'
    BY <1>2 DEF WatchCold, ListenerInv, DeliveredIsCaptured, Capture
  <2>. QED
    BY <1>1, <2>1, <2>2 DEF ListenerInv
<1>3. ASSUME NEW d \in Docs, WarmupOver(d)
      PROVE  ListenerInv'
  <2>1. DeliveredIsCaptured' /\ watched \subseteq watched'
    BY <1>3, AddWatchedCaptures DEF WarmupOver
  <2>2. WaitersAreWatched' /\ NoLostWakeup' /\ ReturnsEarliestMatch'
    BY <1>3, <2>1, CallsUndisturbed DEF WarmupOver, ListenerInv, TypeOK, Calls
  <2>. QED
    BY <1>1, <2>1, <2>2 DEF ListenerInv
<1>4. ASSUME NEW d \in Docs, WatchWarm(d)
      PROVE  ListenerInv'
  <2>1. DeliveredIsCaptured' /\ watched \subseteq watched'
    BY <1>4, AddWatchedCaptures DEF WatchWarm
  <2>2. WaitersAreWatched' /\ NoLostWakeup' /\ ReturnsEarliestMatch'
    BY <1>4, <2>1, CallsUndisturbed DEF WatchWarm
  <2>. QED
    BY <1>1, <2>1, <2>2 DEF ListenerInv
<1>5. ASSUME NEW p \in Partitions, OnWatchedEvent(p)
      PROVE  ListenerInv'
  BY <1>1, <1>5, OnWatchedEventKeepsInv
<1>6. ASSUME NEW p \in Partitions, OnOtherEvent(p)
      PROVE  ListenerInv'
  <2>1. UNCHANGED <<log, watched, events, call, since>>
    BY <1>6 DEF OnOtherEvent
  <2>2. WaitersAreWatched' /\ NoLostWakeup' /\ ReturnsEarliestMatch'
    BY <2>1, CallsUndisturbed
  <2>3. ASSUME NEW d \in watched, NEW q \in Partitions,
               NEW i \in since[d][q] + 1 .. read'[q], log[q][i].doc = d
        PROVE  i \in since[d][q] + 1 .. read[q]
    <3>1. read' = [read EXCEPT ![p] = read[p] + 1] /\ log[p][read[p] + 1].doc # d
      BY <1>6, <2>3 DEF OnOtherEvent
    <3>. QED
      BY <2>3, <3>1 DEF ListenerInv, TypeOK
  <2>4. DeliveredIsCaptured'
    BY <2>1, <2>3 DEF ListenerInv, DeliveredIsCaptured, Capture
  <2>. QED
    BY <1>1, <2>2, <2>4 DEF ListenerInv
<1>7. ASSUME NEW p \in Partitions,
             Redeliver(p) \/ ReceiveError(p) \/ (\E e \in Emittable : Emit(p, e))
      PROVE  ListenerInv'
  BY <1>1, <1>7, AzureKeepsInv
<1>8. ASSUME NEW d \in Docs, NEW k \in Keys, NEW t \in Timeouts, Wait(d, k, t)
      PROVE  ListenerInv'
  <2>1. Budget(t) \in Nat
    BY Bounds DEF Budget
  <2>. QED
    BY <1>1, <1>8, <2>1, LoopBodyKeepsInv DEF Wait
<1>9. ASSUME NEW d \in Docs, Resume(d)
      PROVE  ListenerInv'
  <2>1. call[d].key \in Keys /\ call[d].left \in Nat
    BY DEF ListenerInv, TypeOK, Calls
  <2>2. d \in watched
    BY <1>9 DEF Resume, ListenerInv, WaitersAreWatched
  <2>. QED
    BY <1>1, <1>9, <2>1, <2>2, LoopBodyKeepsInv DEF Resume
<1>10. CASE Tick
  <2>1. ASSUME NEW d \in Docs
        PROVE  /\ call'[d].pc = call[d].pc /\ call'[d].key = call[d].key
               /\ call'[d].woken = call[d].woken /\ call'[d].found = call[d].found
    <3>1. call[d] \in Calls
      BY DEF ListenerInv, TypeOK
    <3>. QED
      BY <1>10, <3>1 DEF Tick, Later, Calls
  <2>2. WaitersAreWatched' /\ NoLostWakeup' /\ ReturnsEarliestMatch'
    BY <1>10, <2>1, CallsUndisturbed DEF Tick
  <2>3. DeliveredIsCaptured'
    BY <1>10 DEF Tick, ListenerInv, DeliveredIsCaptured, Capture
  <2>. QED
    BY <1>1, <2>2, <2>3 DEF ListenerInv
<1>11. CASE Aexit \/ UNCHANGED vars
  <2>1. UNCHANGED <<log, read, watched, events, call, since>>
    BY <1>11 DEF Aexit, vars
  <2>2. WaitersAreWatched' /\ NoLostWakeup' /\ ReturnsEarliestMatch'
    BY <2>1, CallsUndisturbed
  <2>3. DeliveredIsCaptured'
    BY <2>1 DEF ListenerInv, DeliveredIsCaptured, Capture
  <2>. QED
    BY <1>1, <2>2, <2>3 DEF ListenerInv
<1>. QED
  BY <1>2, <1>3, <1>4, <1>5, <1>6, <1>7, <1>8, <1>9, <1>10, <1>11
  DEF Next, Azure, Listener, Client, Deliver

(* The inductive invariant holds of every instance of the listener. *)
THEOREM InvCorrect == Spec => []ListenerInv
BY InitInv, StepInv, PTL DEF Spec

(* No call sleeps with its latch unset over a match in the buffer. *)
THEOREM WakeupsAreNotLost == Spec => []NoLostWakeup
<1>1. ListenerInv => NoLostWakeup
  BY DEF ListenerInv
<1>. QED
  BY <1>1, InvCorrect, PTL

(* The answer of a wait is, and stays, the earliest captured match. *)
THEOREM AnswersAreEarliest == Spec => []ReturnsEarliestMatch
<1>1. ListenerInv => ReturnsEarliestMatch
  BY DEF ListenerInv
<1>. QED
  BY <1>1, InvCorrect, PTL

(* Everything a partition delivered of a document since it was watched is   *)
(* in the buffer.                                                           *)
THEOREM DeliveredAreCaptured == Spec => []DeliveredIsCaptured
<1>1. ListenerInv => DeliveredIsCaptured
  BY DEF ListenerInv
<1>. QED
  BY <1>1, InvCorrect, PTL

(* A call that times out leaves no delivered match behind: the wait loop    *)
(* gives up only on an empty scan, and the buffer is complete.              *)
THEOREM TimeoutsAreSilent == Spec => TimeoutMeansSilence
<1> DEFINE Silent(d) ==
      \A p \in Partitions : \A i \in since[d][p] + 1 .. read[p] :
        ~Matches(log[p][i], d, call'[d].key)
<1>1. ASSUME ListenerInv, NEW d \in Docs, NEW k \in Keys, NEW n \in Nat,
             d \in watched, LoopBody(d, k, n), UNCHANGED events,
             NEW c \in Docs, call[c].pc # "timedout", call'[c].pc = "timedout"
      PROVE  Silent(c)
  <2>1. /\ c = d /\ call'[d].key = k /\ MatchesAt(d, k) = {}
    BY <1>1, LoopBodyOutcome DEF ListenerInv
  <2>2. ASSUME NEW p \in Partitions, NEW i \in since[d][p] + 1 .. read[p],
               Matches(log[p][i], d, k)
        PROVE  FALSE
    <3>1. PICK j \in DOMAIN events : events[j] = Capture(p, log[p][i], i)
      BY <1>1, <2>2 DEF ListenerInv, DeliveredIsCaptured, Matches
    <3>2. Matches(events[j], d, k)
      BY <2>2, <3>1 DEF Capture, Matches, Field
    <3>. QED
      BY <2>1, <3>1, <3>2 DEF MatchesAt
  <2>. QED
    BY <2>1, <2>2
<1>2. ASSUME ListenerInv, [Next]_vars, NEW c \in Docs,
             call[c].pc # "timedout", call'[c].pc = "timedout"
      PROVE  Silent(c)
  <2>1. ASSUME NEW d \in Docs, NEW k \in Keys, NEW t \in Timeouts, Wait(d, k, t)
        PROVE  Silent(c)
    <3>1. Budget(t) \in Nat
      BY Bounds DEF Budget
    <3>. QED
      BY <1>1, <1>2, <2>1, <3>1 DEF Wait
  <2>2. ASSUME NEW d \in Docs, Resume(d)
        PROVE  Silent(c)
    <3>1. call[d].key \in Keys /\ call[d].left \in Nat /\ d \in watched
      BY <1>2, <2>2 DEF Resume, ListenerInv, TypeOK, Calls, WaitersAreWatched
    <3>. QED
      BY <1>1, <1>2, <2>2, <3>1 DEF Resume
  <2>3. ASSUME NEW d \in Docs, WatchCold(d) \/ WarmupOver(d) PROVE FALSE
    <3>1. call[c] \in Calls /\ call[d] \in Calls /\ call \in [Docs -> Calls]
      BY <1>2 DEF ListenerInv, TypeOK
    <3>2. call'[c].pc \in {"warming", "idle", call[c].pc}
      BY <2>3, <3>1 DEF WatchCold, WarmupOver, Calls
    <3>. QED
      BY <1>2, <3>2
  <2>4. ASSUME NEW p \in Partitions, OnWatchedEvent(p) PROVE FALSE
    BY <1>2, <2>4 DEF OnWatchedEvent, Woken, ListenerInv, TypeOK, Calls
  <2>5. ~Tick
    <3>1. call[c] \in Calls
      BY <1>2 DEF ListenerInv, TypeOK
    <3>2. Tick => call'[c].pc = call[c].pc
      BY <3>1 DEF Tick, Later, Calls
    <3>. QED
      BY <1>2, <3>2
  <2>. QED
    BY <1>2, <2>1, <2>2, <2>3, <2>4, <2>5
    DEF Next, Azure, Listener, Client, Deliver, vars, Redeliver, ReceiveError, Emit,
        OnOtherEvent, WatchWarm, Aexit
<1>3. ListenerInv /\ [Next]_vars =>
        [\A d \in Docs : call[d].pc # "timedout" /\ call'[d].pc = "timedout" =>
           Silent(d)]_vars
  BY <1>2
<1>. QED
  BY <1>3, InvCorrect, PTL DEF Spec, TimeoutMeansSilence
-----------------------------------------------------------------------------
(* What the buffer holds: entries of the logs, in their order while nothing  *)
(* is redelivered, and what find_duplicates makes of it when something is.   *)

(* A captured event is an entry of its partition's log, about a document    *)
(* that is watched.                                                         *)
Entries ==
  \A j \in DOMAIN events :
    /\ events[j].doc \in watched
    /\ events[j].seq <= Len(log[events[j].part])
    /\ events[j] = Capture(events[j].part, log[events[j].part][events[j].seq],
                           events[j].seq)

(* Until the SDK goes back in a log, the buffer holds nothing a partition   *)
(* is still to deliver, and keeps the order of the log.                     *)
InOrder ==
  replays = 0 =>
    /\ \A j \in DOMAIN events : events[j].seq <= read[events[j].part]
    /\ \A i, j \in DOMAIN events :
         i < j /\ events[i].part = events[j].part => events[i].seq < events[j].seq

BufferInv == TypeOK /\ Entries /\ InOrder

(* The captured events have the fields of their type. *)
LEMMA EventFields ==
  ASSUME TypeOK, NEW j \in DOMAIN events
  PROVE  /\ events[j] \in CapturedEvents
         /\ events[j].part \in Partitions
         /\ events[j].seq \in 1 .. LogBound /\ events[j].seq \in Nat
<1>1. events[j] \in CapturedEvents
  BY DEF TypeOK
<1>. QED
  BY <1>1, Bounds DEF CapturedEvents

(* Steps that capture nothing keep the invariant, if what they do to the    *)
(* logs and to the reading positions only adds to them.                     *)
LEMMA NothingCaptured ==
  ASSUME BufferInv, TypeOK', UNCHANGED events, watched \subseteq watched',
         \A p \in Partitions :
           /\ Len(log[p]) <= Len(log'[p])
           /\ \A i \in 1 .. Len(log[p]) : log'[p][i] = log[p][i],
         replays' = 0 => replays = 0 /\ \A p \in Partitions : read[p] <= read'[p]
  PROVE  BufferInv'
<1>1. ASSUME NEW j \in DOMAIN events
      PROVE  /\ events[j].doc \in watched'
             /\ events[j].seq <= Len(log'[events[j].part])
             /\ events[j] = Capture(events[j].part, log'[events[j].part][events[j].seq],
                                    events[j].seq)
  <2> DEFINE p == events[j].part
             n == events[j].seq
  <2>1. p \in Partitions /\ n \in 1 .. Len(log[p])
    BY EventFields DEF BufferInv, Entries, TypeOK
  <2>2. log'[p][n] = log[p][n] /\ Len(log[p]) <= Len(log'[p])
    BY <2>1
  <2>3. Len(log[p]) \in Nat /\ Len(log'[p]) \in Nat
    BY <2>1 DEF BufferInv, TypeOK
  <2>. QED
    BY <2>1, <2>2, <2>3 DEF BufferInv, Entries
<1>2. ASSUME replays' = 0, NEW j \in DOMAIN events
      PROVE  events[j].seq <= read'[events[j].part]
  <2>1. /\ events[j].part \in Partitions /\ events[j].seq \in Nat
        /\ events[j].seq <= read[events[j].part]
    BY <1>2, EventFields DEF BufferInv, InOrder
  <2>2. read[events[j].part] \in Nat /\ read'[events[j].part] \in Nat
    BY <2>1 DEF BufferInv, TypeOK
  <2>. QED
    BY <1>2, <2>1, <2>2
<1>3. Entries'
  BY <1>1 DEF Entries, Capture
<1>4. InOrder'
  BY <1>2 DEF BufferInv, InOrder
<1>. QED
  BY <1>3, <1>4 DEF BufferInv

(* The captured event is the next entry of its log: it is behind every      *)
(* captured entry of the same partition.                                    *)
LEMMA CaptureKeepsOrder ==
  ASSUME BufferInv, TypeOK', NEW p \in Partitions, OnWatchedEvent(p)
  PROVE  BufferInv'
<1> DEFINE n == read[p] + 1
           c == Capture(p, log[p][n], n)
           L == Len(events)
<1>1. /\ events' = Append(events, c)
      /\ read' = [read EXCEPT ![p] = n]
      /\ log[p][n].doc \in watched
      /\ n \in 1 .. Len(log[p])
      /\ UNCHANGED <<log, watched, replays>>
  BY DEF OnWatchedEvent, Pending, Buffered, BufferInv, TypeOK
<1>2. c \in CapturedEvents
  BY OnWatchedEventCaptures DEF BufferInv
<1>3. L \in Nat /\ DOMAIN events = 1 .. L /\ DOMAIN events' = 1 .. L + 1
  BY <1>1, <1>2 DEF BufferInv, TypeOK
<1>4. events'[L + 1] = c /\ \A j \in DOMAIN events : events'[j] = events[j]
  BY <1>1, <1>2 DEF BufferInv, TypeOK
<1>5. c.doc \in watched /\ c.part = p /\ c.seq = n
  BY <1>1 DEF Capture
<1>6. Entries'
  <2>1. ASSUME NEW j \in DOMAIN events'
        PROVE  /\ events'[j].doc \in watched
               /\ events'[j].seq <= Len(log[events'[j].part])
               /\ events'[j] = Capture(events'[j].part,
                                       log[events'[j].part][events'[j].seq],
                                       events'[j].seq)
    <3>1. CASE j \in DOMAIN events
      BY <1>4, <3>1 DEF BufferInv, Entries
    <3>2. CASE j = L + 1
      BY <1>1, <1>4, <1>5, <3>2
    <3>. QED
      BY <1>3, <3>1, <3>2
  <2>. QED
    BY <1>1, <2>1, ZenonT(60) DEF Entries, Capture
<1>7. InOrder'
  <2>1. SUFFICES ASSUME replays = 0
        PROVE  /\ \A j \in DOMAIN events' : events'[j].seq <= read'[events'[j].part]
               /\ \A i, j \in DOMAIN events' :
                    i < j /\ events'[i].part = events'[j].part =>
                      events'[i].seq < events'[j].seq
    BY <1>1 DEF InOrder
  <2>2. read[p] \in Nat /\ read'[p] = read[p] + 1
        /\ \A q \in Partitions : q # p => read'[q] = read[q]
    BY <1>1 DEF BufferInv, TypeOK
  <2>3. ASSUME NEW j \in DOMAIN events
        PROVE  /\ events[j].part \in Partitions /\ events[j].seq \in Nat
               /\ events[j].seq <= read[events[j].part]
    BY <2>1, <2>3, EventFields DEF BufferInv, InOrder
  <2>4. ASSUME NEW j \in DOMAIN events'
        PROVE  events'[j].seq <= read'[events'[j].part]
    <3>1. CASE j \in DOMAIN events
      <4>1. events[j].seq <= read'[events[j].part]
        BY <2>2, <2>3, <3>1
      <4>. QED
        BY <1>4, <3>1, <4>1
    <3>2. CASE j = L + 1
      BY <1>4, <1>5, <2>2, <3>2
    <3>. QED
      BY <1>3, <3>1, <3>2
  <2>5. ASSUME NEW i \in DOMAIN events', NEW j \in DOMAIN events', i < j,
               events'[i].part = events'[j].part
        PROVE  events'[i].seq < events'[j].seq
    <3>1. i \in DOMAIN events
      BY <1>3, <2>5
    <3>2. CASE j \in DOMAIN events
      BY <1>4, <2>1, <2>5, <3>1, <3>2 DEF BufferInv, InOrder
    <3>3. CASE j = L + 1
      <4>1. events'[i] = events[i] /\ events'[j] = c
        BY <1>4, <3>1, <3>3
      <4>2. events[i].part = p /\ events'[j].seq = n
        BY <1>5, <2>5, <4>1
      <4>. QED
        BY <2>2, <2>3, <3>1, <4>1, <4>2
    <3>. QED
      BY <1>3, <3>2, <3>3
  <2>. QED
    BY <2>4, <2>5
<1>. QED
  BY <1>6, <1>7 DEF BufferInv

(* The invariant holds initially and is kept by every step. *)
LEMMA InitBuffer == Init => BufferInv
<1> SUFFICES ASSUME Init PROVE BufferInv
  OBVIOUS
<1>1. DOMAIN events = {}
  BY DEF Init
<1>. QED
  BY <1>1, InitType DEF BufferInv, Entries, InOrder

LEMMA StepBuffer == BufferInv /\ [Next]_vars => BufferInv'
<1> SUFFICES ASSUME BufferInv, [Next]_vars PROVE BufferInv'
  OBVIOUS
<1>1. TypeOK'
  BY StepType DEF BufferInv
<1>2. \A p \in Partitions : read[p] \in Nat /\ Len(log[p]) \in Nat
  BY DEF BufferInv, TypeOK
<1>3. ASSUME UNCHANGED <<log, read, events, replays>>, watched \subseteq watched'
      PROVE  BufferInv'
  BY <1>1, <1>2, <1>3, NothingCaptured
<1>4. ASSUME NEW p \in Partitions, OnWatchedEvent(p)
      PROVE  BufferInv'
  BY <1>1, <1>4, CaptureKeepsOrder
<1>5. ASSUME NEW p \in Partitions, OnOtherEvent(p)
      PROVE  BufferInv'
  <2>1. /\ UNCHANGED <<log, watched, events, replays>>
        /\ \A q \in Partitions : read[q] <= read'[q]
    BY <1>2, <1>5 DEF OnOtherEvent, BufferInv, TypeOK
  <2>. QED
    BY <1>1, <1>2, <2>1, NothingCaptured
<1>6. ASSUME NEW p \in Partitions, Redeliver(p)
      PROVE  BufferInv'
  <2>1. UNCHANGED <<log, watched, events>> /\ replays' = replays + 1
    BY <1>6 DEF Redeliver
  <2>2. replays' # 0
    BY <2>1, Bounds DEF BufferInv, TypeOK
  <2>. QED
    BY <1>1, <1>2, <2>1, <2>2, NothingCaptured
<1>7. ASSUME NEW p \in Partitions, NEW e \in Emittable, Emit(p, e)
      PROVE  BufferInv'
  <2>1. UNCHANGED <<read, watched, events, replays>>
    BY <1>7 DEF Emit
  <2>2. \A q \in Partitions :
          /\ Len(log[q]) <= Len(log'[q])
          /\ \A i \in 1 .. Len(log[q]) : log'[q][i] = log[q][i]
    BY <1>2, <1>7 DEF Emit, BufferInv, TypeOK
  <2>. QED
    BY <1>1, <1>2, <2>1, <2>2, NothingCaptured
<1>8. ASSUME NEW d \in Docs, WarmupOver(d) \/ WatchWarm(d)
      PROVE  BufferInv'
  BY <1>3, <1>8 DEF WarmupOver, WatchWarm, AddWatched, WithWatched
<1>9. CASE \E p \in Partitions : ReceiveError(p)
  BY <1>3, <1>9 DEF ReceiveError
<1>10. CASE \E d \in Docs : WatchCold(d) \/ Resume(d)
  BY <1>3, <1>10 DEF WatchCold, Resume
<1>11. CASE \E d \in Docs, k \in Keys, t \in Timeouts : Wait(d, k, t)
  BY <1>3, <1>11 DEF Wait
<1>12. CASE Tick \/ Aexit \/ UNCHANGED vars
  BY <1>3, <1>12 DEF Tick, Aexit, vars
<1>. QED
  BY <1>4, <1>5, <1>6, <1>7, <1>8, <1>9, <1>10, <1>11, <1>12
  DEF Next, Azure, Listener, Client, Deliver

(* The inductive invariant holds of every instance of the listener. *)
THEOREM BufferCorrect == Spec => []BufferInv
BY InitBuffer, StepBuffer, PTL DEF Spec

(* Nothing is in the buffer that is not in a log, and its order is that of  *)
(* the logs until something is redelivered.                                 *)
THEOREM BufferIsSound == Spec => []BufferFollowsLogs
<1>1. BufferInv => BufferFollowsLogs
  BY DEF BufferInv, Entries, InOrder, BufferFollowsLogs
<1>. QED
  BY <1>1, BufferCorrect, PTL
-----------------------------------------------------------------------------
(* Whatever is in the buffer, find_duplicates pairs the second capture of   *)
(* an entry with the first event of its key.                                *)
THEOREM RedeliveriesAreReported == Spec => []RedeliveryIsReported
<1>1. ASSUME TypeOK, NEW i \in DOMAIN events, NEW j \in DOMAIN events,
             i < j, events[i] = events[j]
      PROVE  \E h \in DOMAIN events : <<h, j>> \in Duplicates
  <2> DEFINE S == {h \in DOMAIN events : SameKey(events[h], events[j])}
  <2>1. DOMAIN events = 1 .. Len(events) /\ Len(events) \in Nat
    BY <1>1 DEF TypeOK
  <2>2. i \in S /\ S \in SUBSET Nat
    BY <1>1, <2>1 DEF SameKey
  <2>3. PICK h \in S : \A g \in S : h <= g
    <3> HIDE DEF S
    <3>. QED
      BY <2>2, LeastOf
  <2>4. h \in DOMAIN events /\ h <= i /\ SameKey(events[h], events[j])
    BY <2>2, <2>3
  <2>5. \A g \in 1 .. h - 1 : ~SameKey(events[g], events[j])
    BY <2>1, <2>3, <2>4
  <2>6. ReportedPair(h, j)
    BY <1>1, <2>1, <2>4, <2>5 DEF ReportedPair
  <2>. QED
    BY <1>1, <2>4, <2>6 DEF Duplicates
<1>2. TypeOK => RedeliveryIsReported
  BY <1>1 DEF RedeliveryIsReported
<1>. QED
  BY <1>2, TypeCorrect, PTL
=============================================================================
