-------------------------- MODULE EventFeedProofs ---------------------------
(***************************************************************************)
(* The listener of EventHub implements the feed of EventFeed, safety part: *)
(* its initial states map to initial states of the feed, and every step    *)
(* maps to a step of the feed or to a stutter.  (That open calls end is    *)
(* liveness and is model-checked.)                                         *)
(***************************************************************************)
EXTENDS EventHubProofs

(* Until the first watch has spawned the receive tasks nobody has called,   *)
(* and a suspended call remembers no earlier answer.                        *)
MappingInv ==
  /\ (\A p \in Partitions : task[p] = "none") =>
       watched = {} /\ \A d \in Docs : call[d].pc = "idle"
  /\ \A d \in Docs : Suspended(d) => call[d].found = 0

LEMMA InitMapping == Init => MappingInv
BY DEF Init, MappingInv, Settled, Suspended

(* One turn of the wait loop keeps the second half. *)
LEMMA LoopBodyMapping ==
  ASSUME TypeOK, MappingInv, NEW d \in Docs, NEW k \in Keys, NEW n \in Nat,
         LoopBody(d, k, n)
  PROVE  \A c \in Docs : call'[c].pc = "suspended" => call'[c].found = 0
<1>1. CASE Return(d, k)
  BY <1>1 DEF TypeOK, MappingInv, Return, Settled, Suspended
<1>2. CASE GiveUp(d, k, n)
  BY <1>2 DEF TypeOK, MappingInv, GiveUp, Settled, Suspended
<1>3. CASE Suspend(d, k, n)
  BY <1>3 DEF TypeOK, MappingInv, Suspend, Suspended
<1>. QED
  BY <1>1, <1>2, <1>3 DEF LoopBody

(* A new wait, of whatever timeout, and the passing of time keep both. *)
LEMMA WaitMapping ==
  ASSUME TypeOK, MappingInv, NEW d \in Docs, NEW k \in Keys, NEW t \in Nat, Wait(d, k, t)
  PROVE  MappingInv'
<1>1. Budget(t) \in Nat
  BY Bounds DEF Budget
<1>2. \A c \in Docs : call'[c].pc = "suspended" => call'[c].found = 0
  BY <1>1, LoopBodyMapping DEF Wait
<1>. QED
  BY <1>2 DEF Wait, MappingInv, Suspended

LEMMA LaterMapping ==
  ASSUME TypeOK, MappingInv, call' = Later, UNCHANGED <<task, watched>>
  PROVE  MappingInv'
<1>1. \A d \in Docs : call'[d].pc = call[d].pc /\ call'[d].found = call[d].found
  BY DEF Later, TypeOK, Calls
<1>. QED
  BY <1>1 DEF MappingInv, Suspended

LEMMA StepMapping == ListenerInv /\ MappingInv /\ [Next]_vars => MappingInv'
<1> SUFFICES ASSUME ListenerInv, MappingInv, [Next]_vars PROVE MappingInv'
  OBVIOUS
<1>1. TypeOK /\ TypeOK'
  BY StepType DEF ListenerInv
<1>2. ASSUME NEW d \in Docs, WatchCold(d) PROVE MappingInv'
  <2>1. \A c \in Docs : c # d => call'[c] = call[c]
    BY <1>1, <1>2 DEF WatchCold, TypeOK
  <2>2. call'[d].pc = "warming"
    BY <1>1, <1>2 DEF WatchCold, TypeOK, Calls
  <2>3. \A p \in Partitions : task'[p] = "running"
    BY <1>2 DEF WatchCold
  <2>. QED
    BY <2>1, <2>2, <2>3, EventHubAssumption DEF MappingInv, Suspended
<1>3. ASSUME NEW d \in Docs, WarmupOver(d) PROVE MappingInv'
  <2>1. \A c \in Docs : c # d => call'[c] = call[c]
    BY <1>1, <1>3 DEF WarmupOver, TypeOK
  <2>2. call'[d].pc = "idle"
    BY <1>1, <1>3 DEF WarmupOver, TypeOK, Calls
  <2>. QED
    BY <1>3, <2>1, <2>2 DEF WarmupOver, MappingInv, Suspended
<1>4. ASSUME NEW d \in Docs, WatchWarm(d) PROVE MappingInv'
  BY <1>4 DEF WatchWarm, MappingInv, Suspended
<1>5. ASSUME NEW p \in Partitions, OnWatchedEvent(p) PROVE MappingInv'
  <2>1. task[p] = "running" /\ UNCHANGED <<task, watched>>
    BY <1>5 DEF OnWatchedEvent, Pending
  <2>2. \A d \in Docs : call'[d].pc = call[d].pc /\ call'[d].found = call[d].found
    BY <1>1, <1>5 DEF OnWatchedEvent, Woken, TypeOK, Calls
  <2>. QED
    BY <2>1, <2>2 DEF MappingInv, Suspended
<1>6. ASSUME NEW p \in Partitions,
             \/ OnOtherEvent(p) \/ Redeliver(p) \/ ReceiveError(p)
             \/ \E e \in Emittable : Emit(p, e)
      PROVE  MappingInv'
  BY <1>1, <1>6
  DEF OnOtherEvent, Pending, Redeliver, ReceiveError, Emit, MappingInv, Suspended, TypeOK
<1>7. ASSUME NEW d \in Docs, NEW k \in Keys, NEW t \in Timeouts, Wait(d, k, t)
      PROVE  MappingInv'
  BY <1>1, <1>7, Bounds, WaitMapping
<1>8. ASSUME NEW d \in Docs, Resume(d) PROVE MappingInv'
  <2>1. call[d].key \in Keys /\ call[d].left \in Nat
    BY <1>1 DEF TypeOK, Calls
  <2>2. \A c \in Docs : call'[c].pc = "suspended" => call'[c].found = 0
    BY <1>1, <1>8, <2>1, LoopBodyMapping DEF Resume
  <2>. QED
    BY <1>8, <2>2 DEF Resume, MappingInv, Suspended
<1>9. CASE Tick
  BY <1>1, <1>9, LaterMapping DEF Tick
<1>10. CASE Aexit
  BY <1>10, EventHubAssumption DEF Aexit, MappingInv, Suspended
<1>11. CASE UNCHANGED vars
  BY <1>11 DEF vars, MappingInv, Suspended
<1>. QED
  BY <1>2, <1>3, <1>4, <1>5, <1>6, <1>7, <1>8, <1>9, <1>10, <1>11
  DEF Next, Azure, Listener, Client, Deliver
-----------------------------------------------------------------------------
(* The initial states map to initial states of the feed. *)
LEMMA InitRefines == Init => Feed!Init
<1> SUFFICES ASSUME Init PROVE Feed!Init
  OBVIOUS
<1>1. \A d \in Docs : /\ Asked[d].st = "none"
                      /\ Asked[d].key = NoKey
                      /\ Asked[d].at = 0
  BY DEF Init, Asked, AskState, Settled
<1>. QED
  BY <1>1, EventHubAssumption DEF Init, Feed!Init, Asked, NoKey

(* What a step that leaves the calls' progress alone does to the feed. *)
LEMMA SameCalls ==
  ASSUME TypeOK,
         \A d \in Docs : /\ AskState(call'[d].pc) = AskState(call[d].pc)
                         /\ call'[d].key = call[d].key /\ call'[d].found = call[d].found
  PROVE  Asked' = Asked
BY DEF Asked

(* The three outcomes of a turn of the wait loop, seen from the feed. *)
LEMMA LoopBodyRefines ==
  ASSUME TypeOK, TypeOK', NEW d \in Docs, NEW k \in Keys, NEW n \in Nat,
         LoopBody(d, k, n), UNCHANGED events
  PROVE  Feed!Got(d, k) \/ Feed!GaveUp(d, k) \/ Feed!Opened(d, k)
<1>1. Feed!FitsAt(d, k) = MatchesAt(d, k)
  BY DEF Feed!FitsAt, MatchesAt
<1>2. ASSUME NEW pc \in {"returned", "timedout", "suspended"}, NEW i,
             \A c \in Docs \ {d} : call'[c] = call[c],
             call'[d].pc = pc, call'[d].key = k, call'[d].found = i
      PROVE  Feed!Put(d, AskState(pc), k, i)
  BY <1>2 DEF Feed!Put, Asked
<1>3. CASE Return(d, k)
  <2>1. PICK i \in DOMAIN events :
          IsFirstMatch(i, d, k) /\ call' = [call EXCEPT ![d] = Settled("returned", k, i)]
    BY <1>3 DEF Return
  <2>2. \A c \in Docs \ {d} : call'[c] = call[c]
    BY <2>1 DEF TypeOK
  <2>3. call'[d].pc = "returned" /\ call'[d].key = k /\ call'[d].found = i
    BY <2>1 DEF TypeOK, Settled
  <2>4. Feed!Put(d, AskState("returned"), k, i)
    BY <1>2, <2>2, <2>3
  <2>. QED
    BY <1>1, <2>1, <2>4 DEF AskState, Feed!Got, IsFirstMatch
<1>4. CASE GiveUp(d, k, n)
  <2>1. \A c \in Docs \ {d} : call'[c] = call[c]
    BY <1>4 DEF GiveUp, TypeOK
  <2>2. call'[d].pc = "timedout" /\ call'[d].key = k /\ call'[d].found = 0
    BY <1>4 DEF GiveUp, TypeOK, Settled
  <2>3. Feed!Put(d, AskState("timedout"), k, 0)
    BY <1>2, <2>1, <2>2
  <2>. QED
    BY <1>1, <1>4, <2>3 DEF AskState, Feed!GaveUp, GiveUp
<1>5. CASE Suspend(d, k, n)
  <2>1. \A c \in Docs \ {d} : call'[c] = call[c]
    BY <1>5 DEF Suspend, TypeOK
  <2>2. call'[d].pc = "suspended" /\ call'[d].key = k /\ call'[d].found = 0
    BY <1>5 DEF Suspend, TypeOK
  <2>3. Feed!Put(d, AskState("suspended"), k, 0)
    BY <1>2, <2>1, <2>2
  <2>. QED
    BY <1>1, <1>5, <2>3 DEF AskState, Feed!Opened, Suspend
<1>. QED
  BY <1>3, <1>4, <1>5 DEF LoopBody

(* A turn that answers or gives up does so in the feed as well. *)
LEMMA LoopBodyDecides ==
  ASSUME TypeOK, TypeOK', NEW d \in Docs, NEW k \in Keys, NEW n \in Nat,
         Return(d, k) \/ GiveUp(d, k, n), UNCHANGED events
  PROVE  Feed!Got(d, k) \/ Feed!GaveUp(d, k)
<1>1. call'[d].pc # "suspended"
  BY DEF Return, GiveUp, Settled, TypeOK
<1>2. ~Feed!Opened(d, k)
  <2>1. Asked'[d].st # "open"
    BY <1>1 DEF Asked, AskState, TypeOK, Calls
  <2>2. Feed!Opened(d, k) => Asked'[d].st = "open"
    BY DEF Feed!Opened, Feed!Put, Asked
  <2>. QED
    BY <2>1, <2>2
<1>. QED
  BY <1>2, LoopBodyRefines DEF LoopBody

(* A new wait, of whatever timeout, is a new call; time is hidden. *)
LEMMA WaitRefines ==
  ASSUME TypeOK, TypeOK', NEW d \in Docs, NEW k \in Keys, NEW t \in Nat, Wait(d, k, t)
  PROVE  Feed!Ask(d, k)
<1>1. Budget(t) \in Nat
  BY Bounds DEF Budget
<1>2. Feed!Got(d, k) \/ Feed!GaveUp(d, k) \/ Feed!Opened(d, k)
  BY <1>1, LoopBodyRefines DEF Wait
<1>3. Asked[d].st # "open"
  BY DEF Wait, CanCall, Asked, AskState
<1>. QED
  BY <1>2, <1>3 DEF Feed!Ask

LEMMA LaterRefines ==
  ASSUME TypeOK, call' = Later, UNCHANGED events
  PROVE  UNCHANGED Feed!vars
<1>1. \A d \in Docs : /\ call'[d].pc = call[d].pc
                      /\ call'[d].key = call[d].key /\ call'[d].found = call[d].found
  BY DEF Later, TypeOK, Calls
<1>. QED
  BY <1>1, SameCalls DEF Feed!vars

(* Every step of the listener is a step of the feed or a stutter. *)
LEMMA StepRefines ==
  ASSUME ListenerInv, MappingInv, [Next]_vars
  PROVE  [Feed!Next]_(Feed!vars)
<1>1. TypeOK /\ TypeOK'
  BY StepType DEF ListenerInv
<1>2. ASSUME UNCHANGED events,
             \A d \in Docs : /\ AskState(call'[d].pc) = AskState(call[d].pc)
                             /\ call'[d].key = call[d].key /\ call'[d].found = call[d].found
      PROVE  UNCHANGED Feed!vars
  BY <1>1, <1>2, SameCalls DEF Feed!vars
<1>3. ASSUME NEW d \in Docs, WatchCold(d) PROVE UNCHANGED Feed!vars
  <2>1. call[d].pc = "idle"
    BY <1>3 DEF WatchCold, MappingInv
  <2>2. call'[d] = [call[d] EXCEPT !.pc = "warming"]
    BY <1>1, <1>3 DEF WatchCold, TypeOK
  <2>3. call'[d].pc = "warming" /\ call'[d].key = call[d].key /\ call'[d].found = call[d].found
    BY <1>1, <2>2 DEF TypeOK, Calls
  <2>4. \A c \in Docs \ {d} : call'[c] = call[c]
    BY <1>1, <1>3 DEF WatchCold, TypeOK
  <2>. QED
    BY <1>2, <1>3, <2>1, <2>3, <2>4 DEF WatchCold, AskState
<1>4. ASSUME NEW d \in Docs, WarmupOver(d) PROVE UNCHANGED Feed!vars
  <2>1. call[d].pc = "warming"
    BY <1>4 DEF WarmupOver
  <2>2. call'[d] = [call[d] EXCEPT !.pc = "idle"]
    BY <1>1, <1>4 DEF WarmupOver, TypeOK
  <2>3. call'[d].pc = "idle" /\ call'[d].key = call[d].key /\ call'[d].found = call[d].found
    BY <1>1, <2>2 DEF TypeOK, Calls
  <2>4. \A c \in Docs \ {d} : call'[c] = call[c]
    BY <1>1, <1>4 DEF WarmupOver, TypeOK
  <2>. QED
    BY <1>2, <1>4, <2>1, <2>3, <2>4 DEF WarmupOver, AskState
<1>5. ASSUME NEW p \in Partitions, OnWatchedEvent(p) PROVE Feed!Arrive
  <2> DEFINE c == Capture(p, log[p][read[p] + 1], read[p] + 1)
  <2>1. events' = Append(events, c)
    BY <1>5 DEF OnWatchedEvent, Buffered
  <2>2. c \in CapturedEvents
    BY <1>5, OnWatchedEventCaptures DEF ListenerInv
  <2>3. \A d \in Docs : /\ call'[d].pc = call[d].pc
                        /\ call'[d].key = call[d].key /\ call'[d].found = call[d].found
    BY <1>1, <1>5 DEF OnWatchedEvent, Woken, TypeOK, Calls
  <2>4. Asked' = Asked
    BY <1>1, <2>3, SameCalls
  <2>. QED
    BY <2>1, <2>2, <2>4 DEF Feed!Arrive
<1>6. ASSUME NEW p \in Partitions,
             \/ OnOtherEvent(p) \/ Redeliver(p) \/ ReceiveError(p)
             \/ \E e \in Emittable : Emit(p, e)
      PROVE  UNCHANGED Feed!vars
  <2>1. UNCHANGED <<events, call>>
    BY <1>6 DEF OnOtherEvent, Redeliver, ReceiveError, Emit
  <2>. QED
    BY <1>2, <2>1
<1>7. ASSUME NEW d \in Docs, NEW k \in Keys, NEW t \in Timeouts, Wait(d, k, t)
      PROVE  Feed!Ask(d, k)
  BY <1>1, <1>7, Bounds, WaitRefines
<1>8. ASSUME NEW d \in Docs, Resume(d)
      PROVE  Feed!Answer(d) \/ Feed!Refuse(d) \/ UNCHANGED Feed!vars
  <2> DEFINE k == call[d].key
             n == call[d].left
  <2>1. k \in Keys /\ n \in Nat
    BY <1>1 DEF TypeOK, Calls
  <2>2. Asked[d].st = "open" /\ Asked[d].key = k /\ call[d].found = 0
    BY <1>8 DEF Resume, Suspended, Asked, AskState, MappingInv
  <2>3. CASE Return(d, k) \/ GiveUp(d, k, n)
    <3>1. Feed!Got(d, k) \/ Feed!GaveUp(d, k)
      BY <1>1, <1>8, <2>1, <2>3, LoopBodyDecides DEF Resume
    <3>. QED
      BY <2>2, <3>1 DEF Feed!Answer, Feed!Refuse
  <2>4. CASE Suspend(d, k, n)
    <3>1. \A c \in Docs \ {d} : call'[c] = call[c]
      BY <1>1, <2>4 DEF Suspend, TypeOK
    <3>2. call'[d].pc = "suspended" /\ call'[d].key = k /\ call'[d].found = 0
      BY <1>1, <2>4 DEF Suspend, TypeOK
    <3>. QED
      BY <1>2, <1>8, <2>2, <3>1, <3>2 DEF Resume, Suspended
  <2>. QED
    BY <1>8, <2>3, <2>4 DEF Resume, LoopBody
<1>9. CASE Tick
  BY <1>1, <1>9, LaterRefines DEF Tick
<1>10. CASE Aexit \/ UNCHANGED vars \/ \E d \in Docs : WatchWarm(d)
  <2>1. UNCHANGED <<events, call>>
    BY <1>10 DEF Aexit, vars, WatchWarm
  <2>. QED
    BY <1>2, <2>1
<1>. QED
  BY <1>3, <1>4, <1>5, <1>6, <1>7, <1>8, <1>9, <1>10
  DEF Next, Azure, Listener, Client, Deliver, Feed!Next

(* The listener implements the feed a test relies on. *)
THEOREM RefinesFeed == Spec => Feed!SafeSpec
<1>1. Spec => [](ListenerInv /\ MappingInv)
  BY InvCorrect, InitMapping, StepMapping, PTL DEF Spec
<1>2. ListenerInv /\ MappingInv /\ [Next]_vars => [Feed!Next]_(Feed!vars)
  BY StepRefines
<1>. QED
  BY <1>1, <1>2, InitRefines, PTL DEF Spec, Feed!SafeSpec
=============================================================================
