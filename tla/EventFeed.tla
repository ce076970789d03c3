------------------------------ MODULE EventFeed ------------------------------
(***************************************************************************)
(* What a test may rely on from the Event Hub listener, with hubs,         *)
(* partitions, receive tasks, the asyncio.Event latch and the clock hidden: *)
(* a feed of captured events that only ever grows, and calls that are       *)
(* answered with the first event of the feed that matches their key, or     *)
(* given up on while the feed holds no match.  EventHub implements it.      *)
(***************************************************************************)
EXTENDS Naturals, Sequences

CONSTANTS Docs,          \* document ids (ufids) of the tests of a session
          Keys,          \* what a call may wait for
          Captured,      \* the events the feed may hold
          Fits(_, _, _)  \* Fits(e, d, k): event e answers a call of d for key k

VARIABLES feed,          \* the captured events, in order of receipt
          ask            \* the state of each document's call

vars == <<feed, ask>>

FitsAt(d, k) == {i \in DOMAIN feed : Fits(feed[i], d, k)}

Init ==
  /\ feed = <<>>
  /\ ask \in [Docs -> [st : {"none"}, key : Keys, at : {0}]]

(* An event about a watched document is captured. *)
Arrive ==
  /\ \E e \in Captured : feed' = Append(feed, e)
  /\ UNCHANGED ask

Put(d, st, k, i) ==
  /\ ask' = [ask EXCEPT ![d] = [st |-> st, key |-> k, at |-> i]]
  /\ UNCHANGED feed

Got(d, k) ==
  \E i \in FitsAt(d, k) :
     /\ \A j \in FitsAt(d, k) : i <= j
     /\ Put(d, "got", k, i)

GaveUp(d, k) ==
  /\ FitsAt(d, k) = {}
  /\ Put(d, "gaveup", k, 0)

Opened(d, k) ==
  /\ FitsAt(d, k) = {}
  /\ Put(d, "open", k, 0)

(* A new call: answered at once, refused at once, or left open. *)
Ask(d, k) ==
  /\ ask[d].st # "open"
  /\ Got(d, k) \/ GaveUp(d, k) \/ Opened(d, k)

Answer(d) == ask[d].st = "open" /\ Got(d, ask[d].key)

Refuse(d) == ask[d].st = "open" /\ GaveUp(d, ask[d].key)

Next ==
  \/ Arrive
  \/ \E d \in Docs : Answer(d) \/ Refuse(d) \/ (\E k \in Keys : Ask(d, k))

SafeSpec == Init /\ [][Next]_vars

(* Every open call ends, one way or the other. *)
Spec == SafeSpec /\ \A d \in Docs : WF_vars(Answer(d) \/ Refuse(d))
=============================================================================
