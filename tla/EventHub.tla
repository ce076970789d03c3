------------------------------ MODULE EventHub -------------------------------
(***************************************************************************)
(* The Event Hub listener of lib/event_hub.py: one receive task per hub and *)
(* partition feeding one buffer of captured events, a set of watched        *)
(* documents, and _wait_for_match, the loop every wait of a test runs.      *)
(*                                                                         *)
(* Everything runs on one asyncio loop, so an action is what the code does  *)
(* between two awaits.  The Azure side (the partition logs, the SDK's       *)
(* receive call, which may redeliver or raise) is external and modelled by  *)
(* what the listener has to cope with.                                      *)
(***************************************************************************)
EXTENDS Naturals, Sequences

CONSTANTS
  Docs,            \* document ids (ufids) the tests of a session upload
  Partitions,      \* the hub/partition pairs the listener subscribes to
  Types, Actions,  \* CloudEvents types and data.action values
  NoDoc,           \* stands for an event on_event resolves to no document
  Emittable,       \* the events the producers may emit
  Keys,            \* what a wait may look for
  Timeouts,        \* the timeouts callers pass, in ticks (0 stands for None too)
  DefaultTimeout,  \* self._timeout, in ticks
  PollCap,         \* the 2.0 s cap of one suspension, in ticks
  LogBound,        \* bound: entries per partition log
  ReplayBound      \* bound: redeliveries by the Azure SDK

ASSUME EventHubAssumption ==
  /\ Emittable \subseteq [doc : Docs \cup {NoDoc}, type : Types, action : Actions]
  /\ NoDoc \notin Docs
  /\ Partitions # {}
  /\ Keys # {}
  /\ Keys \subseteq [by : {"type", "action"}, of : SUBSET (Types \cup Actions)]
  /\ Timeouts \subseteq Nat
  /\ DefaultTimeout \in Nat
  /\ PollCap \in Nat \ {0}
  /\ LogBound \in Nat
  /\ ReplayBound \in Nat

VARIABLES
  log,       \* log[p]: the partition's stream within the lookback (external)
  read,      \* read[p]: how many of its entries the consumer has delivered
  task,      \* task[p]: the partition's receive task
  watched,   \* _watched_ufids
  events,    \* _events: the captured events, in order of receipt
  newEvent,  \* _new_event: is the asyncio.Event set
  call,      \* call[d]: the listener call of d's test, at its last await
  replays,   \* redeliveries so far
  since      \* since[d][p]: history, read[p] when d was added to watched

hub == <<log, read, task, replays>>
vars == <<log, read, task, watched, events, newEvent, call, replays, since>>
-----------------------------------------------------------------------------
(* The state of a call: "warming" inside watch -> start -> sleep, and       *)
(* "suspended" inside _wait_for_match; left is the time to its deadline,    *)
(* poll the time to the end of the current wait_for, woken whether the      *)
(* asyncio.Event resolved that wait, found the index of the event returned. *)
Calls == [pc : {"idle", "warming", "suspended", "returned", "timedout"},
          key : Keys, left : Nat, poll : Nat, woken : BOOLEAN, found : Nat]

CapturedEvents == [doc : Docs, type : Types, action : Actions,
                   part : Partitions, seq : 1 .. LogBound]

Settled(pc, k, i) ==
  [pc |-> pc, key |-> k, left |-> 0, poll |-> 0, woken |-> FALSE, found |-> i]

(* The key of a document that has not waited yet: any will do. *)
NoKey == CHOOSE k \in Keys : TRUE

Suspended(d) == call[d].pc = "suspended"

CanCall(d) == call[d].pc \in {"idle", "returned", "timedout"}

Open == \A p \in Partitions : task[p] # "closed"

Init ==
  /\ log = [p \in Partitions |-> <<>>]
  /\ read = [p \in Partitions |-> 0]
  /\ task = [p \in Partitions |-> "none"]
  /\ watched = {}
  /\ events = <<>>
  /\ newEvent = FALSE
  /\ call = [d \in Docs |-> Settled("idle", NoKey, 0)]
  /\ replays = 0
  /\ since = [d \in Docs |-> [p \in Partitions |-> 0]]
-----------------------------------------------------------------------------
(* The producers (external) *)

Emit(p, e) ==
  /\ Len(log[p]) < LogBound
  /\ log' = [log EXCEPT ![p] = Append(@, e)]
  /\ UNCHANGED <<read, task, watched, events, newEvent, call, replays, since>>
-----------------------------------------------------------------------------
(* start() and watch() *)

(* The set of watched documents once watch(d) has added d. *)
ReplaceWatched(d) == {d}

WithWatched(d) == watched \cup {d}

AddWatched(d) ==
  /\ watched' = WithWatched(d)
  /\ since' = [since EXCEPT ![d] = IF d \in watched THEN @ ELSE read]

(* The first watch: start() spawns a task per partition, each to read from  *)
(* the starting position (ten minutes back, before anything this run did),  *)
(* then sleeps through the warm-up, and d is not watched yet.               *)
WatchCold(d) ==
  /\ CanCall(d)
  /\ \A p \in Partitions : task[p] = "none"
  /\ task' = [p \in Partitions |-> "running"]
  /\ call' = [call EXCEPT ![d].pc = "warming"]
  /\ UNCHANGED <<log, read, watched, events, newEvent, replays, since>>

WarmupOver(d) ==
  /\ call[d].pc = "warming"
  /\ AddWatched(d)
  /\ call' = [call EXCEPT ![d].pc = "idle"]
  /\ UNCHANGED <<log, read, task, events, newEvent, replays>>

(* Any later watch: start() returns at once, so there is no await. *)
WatchWarm(d) ==
  /\ CanCall(d)
  /\ Open
  /\ \E p \in Partitions : task[p] # "none"
  /\ d \notin watched
  /\ AddWatched(d)
  /\ UNCHANGED <<log, read, task, events, newEvent, call, replays>>
-----------------------------------------------------------------------------
(* _receive_loop and on_event *)

(* asyncio.Event.set(): every coroutine inside wait() becomes runnable. *)
NobodyWoken == call

Woken ==
  [d \in Docs |-> IF Suspended(d) THEN [call[d] EXCEPT !.woken = TRUE] ELSE call[d]]

(* The captured event of entry e, the n-th of partition p. *)
Capture(p, e, n) ==
  [doc |-> e.doc, type |-> e.type, action |-> e.action, part |-> p, seq |-> n]

(* self._events.append(captured) *)
BufferedFirst(c) == <<c>> \o events

BufferedOnce(c) ==
  IF \E i \in DOMAIN events : events[i].doc = c.doc /\ events[i].action = c.action
  THEN events ELSE Append(events, c)

Buffered(c) == Append(events, c)

Pending(p) == task[p] = "running" /\ read[p] < Len(log[p])

(* The callback for an event about a watched document. *)
OnWatchedEvent(p) ==
  /\ Pending(p)
  /\ LET e == log[p][read[p] + 1]
     IN /\ e.doc \in watched
        /\ events' = Buffered(Capture(p, e, read[p] + 1))
  /\ read' = [read EXCEPT ![p] = @ + 1]
  /\ newEvent' = TRUE
  /\ call' = Woken
  /\ UNCHANGED <<log, task, watched, replays, since>>

(* The callback for any other event, one whose body is not JSON included:   *)
(* counted, logged, and dropped.                                            *)
OnOtherEvent(p) ==
  /\ Pending(p)
  /\ log[p][read[p] + 1].doc \notin watched
  /\ read' = [read EXCEPT ![p] = @ + 1]
  /\ UNCHANGED <<log, task, watched, events, newEvent, call, replays, since>>

Deliver(p) == OnWatchedEvent(p) \/ OnOtherEvent(p)

(* consumer.receive raises (a broken link, or an AttributeError of on_event *)
(* on a body that is JSON but no object): logged, the task ends, and the    *)
(* partition is silent from here on, since start() never runs twice.        *)
ReceiveError(p) ==
  /\ task[p] = "running"
  /\ task' = [task EXCEPT ![p] = "ended"]
  /\ UNCHANGED <<log, read, watched, events, newEvent, call, replays, since>>

(* Delivery is at least once, and there is no checkpoint store: after an    *)
(* internal reconnect the SDK may deliver again what it delivered before.   *)
Redeliver(p) ==
  /\ task[p] = "running"
  /\ replays < ReplayBound
  /\ \E n \in 0 .. read[p] - 1 : read' = [read EXCEPT ![p] = n]
  /\ replays' = replays + 1
  /\ UNCHANGED <<log, task, watched, events, newEvent, call, since>>
-----------------------------------------------------------------------------
(* _wait_for_match *)

Field(e, by) == IF by = "type" THEN e.type ELSE e.action

(* An empty key matches any event of the document. *)
MatchesAnyDocument(e, d, k) == k.of = {} \/ Field(e, k.by) \in k.of

Matches(e, d, k) ==
  /\ e.doc = d
  /\ k.of = {} \/ Field(e, k.by) \in k.of

MatchesAt(d, k) == {i \in DOMAIN events : Matches(events[i], d, k)}

IsLastMatch(i, d, k) == i \in MatchesAt(d, k) /\ \A j \in MatchesAt(d, k) : j <= i

IsFirstMatch(i, d, k) == i \in MatchesAt(d, k) /\ \A j \in MatchesAt(d, k) : i <= j

(* timeout or self._timeout: None and 0 both mean the default. *)
Budget(t) == IF t = 0 THEN DefaultTimeout ELSE t

Lesser(m, n) == IF m <= n THEN m ELSE n

(* The loop body: scan the buffer; only then look at the deadline; only     *)
(* then clear the latch and suspend.  Three outcomes, no await in between.  *)
Return(d, k) ==
  /\ \E i \in DOMAIN events :
       /\ IsFirstMatch(i, d, k)
       /\ call' = [call EXCEPT ![d] = Settled("returned", k, i)]
  /\ UNCHANGED newEvent

GiveUp(d, k, n) ==
  /\ MatchesAt(d, k) = {}
  /\ n = 0
  /\ call' = [call EXCEPT ![d] = Settled("timedout", k, 0)]
  /\ UNCHANGED newEvent

Suspend(d, k, n) ==
  /\ MatchesAt(d, k) = {}
  /\ n > 0
  /\ newEvent' = FALSE
  /\ call' = [call EXCEPT ![d] =
       [pc |-> "suspended", key |-> k, left |-> n, poll |-> Lesser(n, PollCap),
        woken |-> newEvent', found |-> 0]]

LoopBody(d, k, n) == Return(d, k) \/ GiveUp(d, k, n) \/ Suspend(d, k, n)

(* A test calls wait_for_event, wait_for_event_type or wait_for_any_event. *)
Wait(d, k, t) ==
  /\ CanCall(d)
  /\ Open
  /\ d \in watched
  /\ LoopBody(d, k, Budget(t))
  /\ UNCHANGED <<log, read, task, watched, events, replays, since>>

(* wait_for ends, by the latch or by its own timeout, and the loop goes on. *)
WokenOnly(d) == call[d].woken

Runnable(d) == call[d].woken \/ call[d].poll = 0

Resume(d) ==
  /\ Suspended(d)
  /\ Runnable(d)
  /\ LoopBody(d, call[d].key, call[d].left)
  /\ UNCHANGED <<log, read, task, watched, events, replays, since>>

(* Time passes for the calls that are suspended. *)
UnclampedElapse(n) == n - 1

Elapse(n) == IF n > 0 THEN n - 1 ELSE 0

Later ==
  [d \in Docs |-> IF Suspended(d)
                  THEN [call[d] EXCEPT !.left = Elapse(@), !.poll = Elapse(@)]
                  ELSE call[d]]

Tick ==
  /\ \E d \in Docs : Suspended(d) /\ call[d].left > 0
  /\ call' = Later
  /\ UNCHANGED <<log, read, task, watched, events, newEvent, replays, since>>
-----------------------------------------------------------------------------
(* __aexit__, at session teardown: every task is cancelled and awaited. *)
Aexit ==
  /\ \A d \in Docs : CanCall(d)
  /\ Open
  /\ \E p \in Partitions : task[p] # "none"
  /\ task' = [p \in Partitions |-> "closed"]
  /\ UNCHANGED <<log, read, watched, events, newEvent, call, replays, since>>
-----------------------------------------------------------------------------
Azure ==
  \E p \in Partitions :
    Redeliver(p) \/ ReceiveError(p) \/ (\E e \in Emittable : Emit(p, e))

Listener ==
  \/ \E p \in Partitions : Deliver(p)
  \/ \E d \in Docs : Resume(d) \/ WarmupOver(d)

Client ==
  \/ \E d \in Docs : WatchCold(d) \/ WatchWarm(d)
  \/ \E d \in Docs, k \in Keys, t \in Timeouts : Wait(d, k, t)
  \/ Aexit

Next == Azure \/ Listener \/ Client \/ Tick

Spec == Init /\ [][Next]_vars

(* The event loop runs every ready callback, timers fire, and the SDK       *)
(* delivers what a live partition holds.  Nothing obliges a producer to     *)
(* emit, a test to call, or a broken link to recover.                       *)
Fairness ==
  /\ WF_vars(Tick)
  /\ \A d \in Docs : WF_vars(Resume(d)) /\ WF_vars(WarmupOver(d))
  /\ \A p \in Partitions : WF_vars(Deliver(p))

FairSpec == Spec /\ Fairness
-----------------------------------------------------------------------------
(* find_duplicates: the pairs of captured events with one (document, action) *)
(* key, each paired with the first event of that key.                        *)
SameKey(a, b) == a.doc = b.doc /\ a.action = b.action

AdjacentPair(i, j) == j = i + 1 /\ SameKey(events[i], events[j])

ReportedPair(i, j) ==
  /\ i < j
  /\ SameKey(events[i], events[j])
  /\ \A h \in 1 .. i - 1 : ~SameKey(events[h], events[j])

Duplicates ==
  {pair \in (DOMAIN events) \X (DOMAIN events) : ReportedPair(pair[1], pair[2])}
-----------------------------------------------------------------------------
(* Properties *)

(* Every variable stays within its type. *)
TypeOK ==
  /\ log \in [Partitions -> Seq(Emittable)]
  /\ \A p \in Partitions : Len(log[p]) <= LogBound
  /\ read \in [Partitions -> Nat]
  /\ \A p \in Partitions : read[p] <= Len(log[p])
  /\ task \in [Partitions -> {"none", "running", "ended", "closed"}]
  /\ watched \subseteq Docs
  /\ events \in Seq(CapturedEvents)
  /\ newEvent \in BOOLEAN
  /\ call \in [Docs -> Calls]
  /\ replays \in 0 .. ReplayBound
  /\ since \in [Docs -> [Partitions -> Nat]]

(* No lost wakeup: a call sleeps in wait() with its latch unset only while  *)
(* the buffer holds nothing it waits for, whatever bursts of events came in *)
(* and whoever cleared the latch in the meantime.                           *)
NoLostWakeup ==
  \A d \in Docs :
    Suspended(d) /\ ~call[d].woken => MatchesAt(d, call[d].key) = {}

(* Completeness of the buffer: whatever a partition has delivered about a   *)
(* document since it was watched is in the buffer, however many documents   *)
(* are watched and however often the SDK went back in the log.              *)
DeliveredIsCaptured ==
  \A d \in watched, p \in Partitions : \A i \in since[d][p] + 1 .. read[p] :
    log[p][i].doc = d =>
      \E j \in DOMAIN events :
         events[j] = Capture(p, log[p][i], i)

(* Soundness of the buffer: a captured event is an entry of its partition's *)
(* log about a watched document, and without redeliveries the events of one *)
(* partition are in log order, none of them twice.                          *)
BufferFollowsLogs ==
  /\ \A j \in DOMAIN events :
       /\ events[j].doc \in watched
       /\ events[j].seq <= Len(log[events[j].part])
       /\ events[j] = Capture(events[j].part, log[events[j].part][events[j].seq],
                              events[j].seq)
  /\ replays = 0 =>
       \A i, j \in DOMAIN events :
         i < j /\ events[i].part = events[j].part => events[i].seq < events[j].seq

(* The answer of a wait is the earliest captured event that matches, and    *)
(* stays so: later events never change what the same wait would return.     *)
IsEarliest(i, S) == i \in S /\ \A j \in S : i <= j

ReturnsEarliestMatch ==
  \A d \in Docs : call[d].pc = "returned" =>
    IsEarliest(call[d].found, MatchesAt(d, call[d].key))

(* A wait times out only if no event it waits for was delivered since its   *)
(* document was watched: an event that beats the deadline, even in the same *)
(* turn of the loop, is never reported as missing.                          *)
TimeoutMeansSilence ==
  [][\A d \in Docs : call[d].pc # "timedout" /\ call'[d].pc = "timedout" =>
       \A p \in Partitions : \A i \in since[d][p] + 1 .. read[p] :
         ~Matches(log[p][i], d, call'[d].key)]_vars

(* find_duplicates misses no redelivery: an entry captured twice shows up   *)
(* as the later half of a reported pair.                                    *)
RedeliveryIsReported ==
  \A i, j \in DOMAIN events :
    i < j /\ events[i] = events[j] => \E h \in DOMAIN events : <<h, j>> \in Duplicates

(* Every wait ends: no call stays suspended for ever, although nothing      *)
(* obliges an event, or any live partition, to wake it.                     *)
WaitEnds == \A d \in Docs : Suspended(d) ~> ~Suspended(d)

(* What a producer emits about a watched document is captured eventually,   *)
(* unless the receive task of the partition has ended.                      *)
EventuallyCaptured ==
  \A d \in Docs, p \in Partitions : \A i \in 1 .. LogBound :
    ( /\ d \in watched
      /\ i \in since[d][p] + 1 .. Len(log[p])
      /\ log[p][i].doc = d )
    ~> \/ \E j \in DOMAIN events : events[j].part = p /\ events[j].seq = i
       \/ task[p] # "running"

(* The listener implements the feed of EventFeed: partitions, tasks, latch, *)
(* polls and the clock only decide when a call is answered.                 *)
AskState(pc) ==
  CASE pc \in {"idle", "warming"} -> "none"
    [] pc = "suspended" -> "open"
    [] pc = "returned" -> "got"
    [] pc = "timedout" -> "gaveup"

Asked ==
  [d \in Docs |-> [st |-> AskState(call[d].pc), key |-> call[d].key, at |-> call[d].found]]

Feed == INSTANCE EventFeed
          WITH Captured <- CapturedEvents, Fits <- Matches, feed <- events, ask <- Asked

ImplementsFeed == Feed!Spec

(* What the comment on STARTUP_LOOKBACK_MINUTES says: whatever was emitted  *)
(* before the receivers were ready is replayed, so a wait never times out   *)
(* on an event the consumer was handed.                                     *)
LookbackCoversStartup ==
  \A d \in Docs : call[d].pc = "timedout" =>
    \A p \in Partitions : \A i \in 1 .. read[p] :
      ~Matches(log[p][i], d, call[d].key)
=============================================================================
