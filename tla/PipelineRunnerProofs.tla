------------------------ MODULE PipelineRunnerProofs -------------------------
(***************************************************************************)
(* Proofs about the walker of PipelineRunner on top of the listener, for    *)
(* any documents, stages, partitions, events and budgets.                   *)
(***************************************************************************)
EXTENDS PipelineRunner, EventHubProofs

(* The report rows of d: one for each stage in order, a status that fits    *)
(* the branch that wrote it, and a story that only goes downhill.           *)
Fitting(row) ==
  /\ row.why = "event" <=> row.status = "PASS"
  /\ row.why \in {"aborted", "failed", "timeout"} <=> row.status = "FAIL"

Follows(earlier, later) ==
  \/ earlier = "event"
  \/ earlier \in {"aborted", "failed"} /\ later = "aborted"
  \/ earlier \in {"timeout", "killed"} /\ later = "killed"
  \/ earlier = "unset" /\ later = "unset"

RowsInv(d) ==
  /\ Len(rows[d]) <= N
  /\ \A i \in DOMAIN rows[d] : rows[d][i].stage = i /\ Fitting(rows[d][i])
  /\ \A i, j \in DOMAIN rows[d] : i < j => Follows(rows[d][i].why, rows[d][j].why)

(* The cause each row names, and what was attached when the walk ended.     *)
CausesInv(d) ==
  \A i \in DOMAIN rows[d] :
    /\ rows[d][i].why = "event" => MatchesAt(d, StageKey(i)) # {}
    /\ rows[d][i].why \in {"aborted", "failed"} => HasFailed(d)
    /\ rows[d][i].why = "timeout" =>
         /\ walk[d].pc = "done"
         /\ attached[d] \cap (MatchesAt(d, StageKey(i)) \cup MatchesAt(d, FailedKey)) = {}

(* Where the coroutine of d's test can stand, and what it knows there. *)
Undecided(d) == outcome[d] \in {"none", "killed"}

AtStart(d) ==
  /\ walk[d].pc \in {"new", "uploading", "watching"}
  /\ walk[d].stage = 1 /\ ~walk[d].aborted
  /\ rows[d] = <<>> /\ attached[d] = {}
  /\ Undecided(d)

Underway(d) ==
  /\ walk[d].pc \in {"stage", "await"}
  /\ d \in watched
  /\ Len(rows[d]) = walk[d].stage - 1 /\ attached[d] = {}
  /\ Undecided(d)
  /\ \A i \in DOMAIN rows[d] : rows[d][i].why \in {"event", "aborted", "failed"}
  /\ ~walk[d].aborted => \A i \in DOMAIN rows[d] : rows[d][i].why = "event"
  /\ walk[d].aborted => HasFailed(d)
  /\ walk[d].pc = "await" =>
       /\ ~walk[d].aborted /\ walk[d].stage <= N
       /\ call[d].pc \in {"suspended", "returned", "timedout"}
       /\ call[d].key = StageKey(walk[d].stage)
       /\ call[d].pc = "timedout" => MatchesAt(d, StageKey(walk[d].stage)) = {}

Ended(d) ==
  /\ walk[d].pc = "done"
  /\ Len(rows[d]) = N /\ attached[d] \subseteq DOMAIN events
  /\ outcome[d] # "none"
  /\ outcome[d] = "passed" =>
       /\ \A i \in DOMAIN rows[d] : rows[d][i].why = "event"
       /\ \A n \in 1 .. N : attached[d] \cap MatchesAt(d, StageKey(n)) # {}
       /\ attached[d] \cap MatchesAt(d, FailedKey) = {}

WalkInv(d) == AtStart(d) \/ Underway(d) \/ Ended(d)

(* The inductive invariant of the walker and its listener. *)
RunnerInv ==
  ListenerInv /\ RunnerTypeOK /\ \A d \in Docs : RowsInv(d) /\ CausesInv(d) /\ WalkInv(d)
-----------------------------------------------------------------------------
(* The stages are numbered, and their keys can be waited for. *)
LEMMA StagesAre ==
  /\ N \in Nat /\ N > 0
  /\ FailedKey \in Keys /\ \A n \in 1 .. N : StageKey(n) \in Keys
  /\ StageBudget \in Nat /\ TestBudget \in Nat
BY RunnerAssumption DEF N

(* What a step does to the buffer and the watched documents: it adds. *)
Growing ==
  /\ watched \subseteq watched'
  /\ UNCHANGED events \/ \E c \in CapturedEvents : events' = Append(events, c)

(* So a match stays one, and no index becomes one. *)
LEMMA MatchesStay ==
  ASSUME TypeOK, Growing, NEW d \in Docs, NEW k \in Keys
  PROVE  /\ MatchesAt(d, k) \subseteq MatchesAt(d, k)'
         /\ DOMAIN events \subseteq DOMAIN events'
         /\ \A i \in DOMAIN events : i \in MatchesAt(d, k)' => i \in MatchesAt(d, k)
<1>1. CASE UNCHANGED events
  BY <1>1 DEF MatchesAt, Matches, Field
<1>2. ASSUME NEW c \in CapturedEvents, events' = Append(events, c)
      PROVE  /\ MatchesAt(d, k) \subseteq MatchesAt(d, k)'
             /\ DOMAIN events \subseteq DOMAIN events'
             /\ \A i \in DOMAIN events : i \in MatchesAt(d, k)' => i \in MatchesAt(d, k)
  <2>1. DOMAIN events = 1 .. Len(events) /\ Len(events) \in Nat
        /\ DOMAIN events' = 1 .. Len(events) + 1
    BY <1>2 DEF TypeOK
  <2>2. /\ MatchesAt(d, k) \subseteq MatchesAt(d, k)'
        /\ \A i \in MatchesAt(d, k)' : i \in MatchesAt(d, k) \/ i = Len(events) + 1
    BY <1>2, MatchesOfAppend
  <2>. QED
    BY <2>1, <2>2
<1>. QED
  BY <1>1, <1>2 DEF Growing

(* A wait of the walker, whatever its timeout, keeps the listener's         *)
(* invariant, and so does the passing of time.                              *)
LEMMA WaitKeepsInv ==
  ASSUME ListenerInv, NEW d \in Docs, NEW k \in Keys, NEW t \in Nat, Wait(d, k, t)
  PROVE  ListenerInv'
<1>1. Budget(t) \in Nat
  BY Bounds DEF Budget
<1>2. TypeOK'
  BY <1>1, LoopBodyType DEF ListenerInv, TypeOK, Wait
<1>. QED
  BY <1>1, <1>2, LoopBodyKeepsInv DEF Wait

LEMMA LaterKeepsCalls ==
  ASSUME TypeOK, call' = Later, NEW d \in Docs
  PROVE  /\ call'[d] \in Calls
         /\ call'[d].pc = call[d].pc /\ call'[d].key = call[d].key
         /\ call'[d].woken = call[d].woken /\ call'[d].found = call[d].found
<1>1. call[d] \in Calls
  BY DEF TypeOK
<1>2. Elapse(call[d].left) \in Nat /\ Elapse(call[d].poll) \in Nat
  BY <1>1 DEF Calls, Elapse
<1>. QED
  BY <1>1, <1>2 DEF Later, Calls

LEMMA AgingKeepsInv ==
  ASSUME ListenerInv, call' = Later,
         UNCHANGED <<log, read, task, watched, events, newEvent, replays, since>>
  PROVE  ListenerInv'
<1>1. \A d \in Docs :
        /\ call'[d] \in Calls
        /\ call'[d].pc = call[d].pc /\ call'[d].key = call[d].key
        /\ call'[d].woken = call[d].woken /\ call'[d].found = call[d].found
  BY LaterKeepsCalls DEF ListenerInv
<1>2. TypeOK'
  <2>1. call' = [d \in Docs |-> call'[d]]
    BY DEF Later
  <2>. QED
    BY <1>1, <2>1 DEF ListenerInv, TypeOK
<1>3. WaitersAreWatched' /\ NoLostWakeup' /\ ReturnsEarliestMatch'
  BY <1>1, CallsUndisturbed
<1>4. DeliveredIsCaptured'
  BY DEF ListenerInv, DeliveredIsCaptured, Capture
<1>. QED
  BY <1>2, <1>3, <1>4 DEF ListenerInv

(* Every step of the walker's system keeps the listener's invariant. *)
LEMMA HubStep ==
  ASSUME ListenerInv, RunnerTypeOK, [NextRunner]_allVars
  PROVE  ListenerInv' /\ Growing
<1>1. ASSUME [Next]_vars PROVE ListenerInv'
  BY <1>1, StepInv
<1>2. ASSUME UNCHANGED vars PROVE ListenerInv' /\ Growing
  BY <1>1, <1>2 DEF vars, Growing
<1>3. ASSUME NEW d \in Docs, NoListener(d) \/ StageAborted(d) \/ StagePassed(d)
                             \/ StageFailed(d) \/ ForceKill(d) \/ Finish(d)
                             \/ StartTest(d) \/ TimeoutKill(d)
      PROVE  UNCHANGED vars
  BY <1>3 DEF NoListener, StageAborted, StagePassed, StageFailed, ForceKill, Finish,
              StartTest, TimeoutKill, vars
<1>4. ASSUME NEW d \in Docs, WatchCold(d) \/ WatchWarm(d) \/ WarmupOver(d) \/ Resume(d)
      PROVE  ListenerInv' /\ Growing
  <2>1. [Next]_vars
    BY <1>4 DEF Next, Client, Listener
  <2>2. Growing
    BY <1>4 DEF WatchCold, WatchWarm, WarmupOver, Resume, AddWatched, WithWatched, Growing
  <2>. QED
    BY <1>1, <2>1, <2>2
<1>5. ASSUME NEW d \in Docs, StageWait(d)
      PROVE  ListenerInv' /\ Growing
  <2>1. walk[d].stage \in 1 .. N
    BY <1>5, StagesAre DEF StageWait, AtStage, RunnerTypeOK, Walks
  <2>2. StageKey(walk[d].stage) \in Keys /\ StageBudget \in Nat
    BY <2>1, StagesAre
  <2>3. Growing
    BY <1>5 DEF StageWait, Wait, Growing
  <2>. QED
    BY <1>5, <2>2, <2>3, WaitKeepsInv DEF StageWait
<1>6. ASSUME NEW p \in Partitions, Deliver(p) \/ ReceiveError(p) \/ Redeliver(p)
      PROVE  ListenerInv' /\ Growing
  <2>1. [Next]_vars
    BY <1>6 DEF Next, Azure, Listener
  <2>2. CASE OnWatchedEvent(p)
    <3>1. Capture(p, log[p][read[p] + 1], read[p] + 1) \in CapturedEvents
      BY <2>2, OnWatchedEventCaptures DEF ListenerInv
    <3>. QED
      BY <1>1, <2>1, <2>2, <3>1 DEF OnWatchedEvent, Buffered, Growing
  <2>3. CASE OnOtherEvent(p) \/ ReceiveError(p) \/ Redeliver(p)
    BY <1>1, <2>1, <2>3 DEF OnOtherEvent, ReceiveError, Redeliver, Growing
  <2>. QED
    BY <1>6, <2>2, <2>3 DEF Deliver
<1>7. ASSUME NEW p \in Partitions, NEW e \in Emittable, Emit(p, e)
      PROVE  ListenerInv' /\ Growing
  <2>1. [Next]_vars
    BY <1>7 DEF Next, Azure
  <2>. QED
    BY <1>1, <1>7, <2>1 DEF Emit, Growing
<1>8. ASSUME Elapsed
      PROVE  ListenerInv' /\ Growing
  BY <1>8, AgingKeepsInv DEF Elapsed, Growing
<1>9. ASSUME NEW d \in Docs, Walker(d)
      PROVE  ListenerInv' /\ Growing
  BY <1>2, <1>3, <1>4, <1>5, <1>9 DEF Walker, EnterCold, EnterWarm, Watched, StageResume
<1>. QED
  BY <1>2, <1>3, <1>6, <1>7, <1>8, <1>9 DEF NextRunner, Receive, Produce, allVars, vars
-----------------------------------------------------------------------------
(* One more row, and a row for each stage from the m-th to the last.        *)
LEMMA OneMoreIs ==
  ASSUME RunnerTypeOK, NEW d \in Docs, NEW row \in Rows
  PROVE  /\ OneMore(d, row) \in Seq(Rows)
         /\ Len(OneMore(d, row)) = Len(rows[d]) + 1
         /\ DOMAIN OneMore(d, row) = 1 .. Len(rows[d]) + 1
         /\ \A i \in DOMAIN rows[d] : OneMore(d, row)[i] = rows[d][i]
         /\ OneMore(d, row)[Len(rows[d]) + 1] = row
<1>1. rows[d] \in Seq(Rows)
  BY DEF RunnerTypeOK
<1>. QED
  BY <1>1 DEF OneMore

LEMMA OneForEachIs ==
  ASSUME NEW s \in Seq(Rows), NEW m \in 1 .. N + 1, Len(s) = m - 1,
         NEW st \in {"PASS", "FAIL", "SKIPPED"},
         NEW why \in {"event", "aborted", "failed", "timeout", "killed", "unset"}
  PROVE  /\ OneForEach(s, m, st, why) \in Seq(Rows)
         /\ Len(OneForEach(s, m, st, why)) = N
         /\ DOMAIN OneForEach(s, m, st, why) = 1 .. N
         /\ \A i \in 1 .. m - 1 : OneForEach(s, m, st, why)[i] = s[i]
         /\ \A i \in m .. N : OneForEach(s, m, st, why)[i] = Row(i, st, why)
<1> DEFINE more == [i \in 1 .. N - m + 1 |-> Row(m + i - 1, st, why)]
<1>1. N \in Nat /\ m \in Nat /\ N - m + 1 \in Nat
  BY StagesAre
<1>2. ASSUME NEW i \in 1 .. N - m + 1 PROVE Row(m + i - 1, st, why) \in Rows
  <2>1. m + i - 1 \in 1 .. N
    BY <1>1
  <2>. QED
    BY <2>1 DEF Row, Rows
<1>3. more \in Seq(Rows) /\ Len(more) = N - m + 1
  BY <1>1, <1>2
<1>4. \A i \in 1 .. N - m + 1 : more[i] = Row(m + i - 1, st, why)
  OBVIOUS
<1> HIDE DEF more
<1>5. s \o more \in Seq(Rows) /\ Len(s \o more) = N
  BY <1>1, <1>3
<1>6. \A i \in 1 .. m - 1 : (s \o more)[i] = s[i]
  BY <1>1, <1>3
<1>7. ASSUME NEW i \in m .. N PROVE (s \o more)[i] = Row(i, st, why)
  <2>1. (s \o more)[i] = more[i - (m - 1)]
    BY <1>1, <1>3
  <2>2. i - (m - 1) \in 1 .. N - m + 1 /\ m + (i - (m - 1)) - 1 = i
    BY <1>1
  <2>. QED
    BY <1>4, <2>1, <2>2
<1>8. OneForEach(s, m, st, why) = s \o more
  BY DEF OneForEach, more
<1>. QED
  BY <1>1, <1>5, <1>6, <1>7, <1>8

(* A step that writes no row and leaves d's coroutine where it is, but may  *)
(* kill the test, add to the buffer, or wake and age calls.                 *)
LEMMA Undisturbed ==
  ASSUME RunnerInv, Growing, NEW d \in Docs,
         walk'[d] = walk[d], rows'[d] = rows[d], attached'[d] = attached[d],
         outcome'[d] = outcome[d] \/ (outcome[d] = "none" /\ outcome'[d] = "killed"),
         walk[d].pc = "await" =>
           /\ call'[d].pc = call[d].pc /\ call'[d].key = call[d].key
           /\ call[d].pc = "timedout" => UNCHANGED events
  PROVE  RowsInv(d)' /\ CausesInv(d)' /\ WalkInv(d)'
<1>1. /\ TypeOK /\ N \in Nat /\ rows[d] \in Seq(Rows)
      /\ RowsInv(d) /\ CausesInv(d) /\ WalkInv(d)
  BY StagesAre DEF RunnerInv, ListenerInv, RunnerTypeOK
<1>2. DOMAIN rows[d] = 1 .. Len(rows[d]) /\ \A i \in DOMAIN rows[d] : i \in 1 .. N
  BY <1>1 DEF RowsInv
<1>3. ASSUME NEW k \in Keys
      PROVE  /\ MatchesAt(d, k) \subseteq MatchesAt(d, k)'
             /\ DOMAIN events \subseteq DOMAIN events'
             /\ \A i \in DOMAIN events : i \in MatchesAt(d, k)' => i \in MatchesAt(d, k)
  BY <1>1, MatchesStay
<1>4. HasFailed(d) => HasFailed(d)'
  BY <1>3, StagesAre DEF HasFailed
<1>5. RowsInv(d)'
  BY <1>1 DEF RowsInv
<1>6. CausesInv(d)'
  <2>1. ASSUME NEW i \in DOMAIN rows[d], rows[d][i].why = "timeout"
        PROVE  attached[d] \cap (MatchesAt(d, StageKey(i))' \cup MatchesAt(d, FailedKey)') = {}
    <3>1. walk[d].pc = "done" /\ attached[d] \cap (MatchesAt(d, StageKey(i)) \cup MatchesAt(d, FailedKey)) = {}
      BY <1>1, <2>1 DEF CausesInv
    <3>2. attached[d] \subseteq DOMAIN events
      BY <1>1, <3>1 DEF WalkInv, AtStart, Underway, Ended
    <3>. QED
      BY <1>2, <1>3, <3>1, <3>2, StagesAre
  <2>2. ASSUME NEW i \in DOMAIN rows[d]
        PROVE  MatchesAt(d, StageKey(i)) \subseteq MatchesAt(d, StageKey(i))'
    BY <1>2, <1>3, StagesAre
  <2>. QED
    BY <1>1, <1>4, <2>1, <2>2 DEF CausesInv
<1>7. CASE AtStart(d)
  BY <1>5, <1>6, <1>7 DEF AtStart, Undecided, WalkInv
<1>8. CASE Underway(d)
  <2>1. walk[d].pc = "await" /\ call[d].pc = "timedout" =>
          MatchesAt(d, StageKey(walk[d].stage))' = {}
    <3>1. SUFFICES ASSUME walk[d].pc = "await", call[d].pc = "timedout"
          PROVE  MatchesAt(d, StageKey(walk[d].stage))' = {}
      OBVIOUS
    <3>2. UNCHANGED events /\ MatchesAt(d, StageKey(walk[d].stage)) = {}
      BY <1>8, <3>1 DEF Underway
    <3>. QED
      BY <3>2 DEF MatchesAt, Matches, Field
  <2>2. d \in watched'
    BY <1>8 DEF Underway, Growing
  <2>3. Underway(d)'
    BY <1>4, <1>8, <2>1, <2>2 DEF Underway, Undecided
  <2>. QED
    BY <1>5, <1>6, <2>3 DEF WalkInv
<1>9. CASE Ended(d)
  <2>1. outcome'[d] = outcome[d] /\ attached[d] \subseteq DOMAIN events
    BY <1>9 DEF Ended
  <2>2. attached[d] \subseteq DOMAIN events'
    BY <1>3, <2>1, StagesAre
  <2>3. ASSUME NEW k \in Keys
        PROVE  attached[d] \cap MatchesAt(d, k)' = attached[d] \cap MatchesAt(d, k)
    BY <1>3, <2>1
  <2>4. Ended(d)'
    BY <1>9, <2>1, <2>2, <2>3, StagesAre DEF Ended
  <2>. QED
    BY <1>5, <1>6, <2>4 DEF WalkInv
<1>. QED
  BY <1>1, <1>5, <1>6, <1>7, <1>8, <1>9 DEF WalkInv

(* What the invariant says of one document. *)
PlaceInv(d) == RowsInv(d) /\ CausesInv(d) /\ WalkInv(d)

(* The types of what belongs to d. *)
LEMMA OfType ==
  ASSUME RunnerInv, NEW d \in Docs
  PROVE  /\ TypeOK /\ PlaceInv(d) /\ N \in Nat
         /\ walk[d] \in Walks /\ walk[d].stage \in 1 .. N + 1 /\ walk[d].aborted \in BOOLEAN
         /\ rows[d] \in Seq(Rows) /\ Len(rows[d]) \in Nat
         /\ DOMAIN rows[d] = 1 .. Len(rows[d]) /\ \A i \in DOMAIN rows[d] : i \in 1 .. N
<1>1. walk[d] \in Walks /\ rows[d] \in Seq(Rows) /\ TypeOK /\ PlaceInv(d)
  BY DEF RunnerInv, ListenerInv, RunnerTypeOK, PlaceInv
<1>. QED
  BY <1>1, StagesAre DEF Walks, PlaceInv, RowsInv

(* A walk that writes the row of its stage and goes on to the next. *)
LEMMA RowWritten ==
  ASSUME RunnerInv, NEW d \in Docs, Underway(d), walk[d].stage <= N,
         NEW st \in {"PASS", "FAIL"}, NEW why \in {"event", "aborted", "failed"},
         st = "PASS" <=> why = "event",
         why # "aborted" => ~walk[d].aborted,
         IF why = "event" THEN MatchesAt(d, StageKey(walk[d].stage)) # {} ELSE HasFailed(d),
         rows' = [rows EXCEPT ![d] = OneMore(d, Row(walk[d].stage, st, why))],
         NEW aborted \in BOOLEAN, aborted <=> why # "event", NextStage(d, aborted),
         UNCHANGED <<watched, events, call, configured, attached, outcome, patience>>
  PROVE  RunnerTypeOK' /\ PlaceInv(d)'
<1> DEFINE n == walk[d].stage
           row == Row(n, st, why)
<1>1. /\ TypeOK /\ PlaceInv(d) /\ N \in Nat /\ n \in 1 .. N /\ rows[d] \in Seq(Rows)
      /\ Len(rows[d]) = n - 1
  BY OfType DEF Underway
<1>2. row \in Rows
  BY <1>1 DEF Row, Rows
<1>3. /\ rows'[d] = OneMore(d, row) /\ rows'[d] \in Seq(Rows)
      /\ Len(rows'[d]) = n /\ DOMAIN rows'[d] = 1 .. n
      /\ \A i \in 1 .. n - 1 : rows'[d][i] = rows[d][i]
      /\ rows'[d][n] = row /\ DOMAIN rows[d] = 1 .. n - 1
  BY <1>1, <1>2, OneMoreIs DEF RunnerInv, RunnerTypeOK
<1>4. walk' = [walk EXCEPT ![d] = [pc |-> "stage", stage |-> n + 1, aborted |-> aborted]]
  BY DEF NextStage
<1>5. /\ walk'[d] = [pc |-> "stage", stage |-> n + 1, aborted |-> aborted]
      /\ walk'[d] \in Walks
  BY <1>1, <1>4 DEF RunnerInv, RunnerTypeOK, Walks
<1>6. RunnerTypeOK'
  <2>1. rows' \in [Docs -> Seq(Rows)]
    BY <1>3 DEF RunnerInv, RunnerTypeOK
  <2>2. walk' \in [Docs -> Walks]
    BY <1>4, <1>5 DEF RunnerInv, RunnerTypeOK
  <2>. QED
    BY <2>1, <2>2 DEF RunnerInv, RunnerTypeOK
<1>7. row.stage = n /\ row.status = st /\ row.why = why /\ Fitting(row)
  BY DEF Row, Fitting
<1>8. \A k : MatchesAt(d, k)' = MatchesAt(d, k)
  BY DEF MatchesAt, Matches, Field
<1> HIDE DEF n, row
<1>9. RowsInv(d)'
  <2>1. \A i \in DOMAIN rows'[d] : rows'[d][i].stage = i /\ Fitting(rows'[d][i])
    <3>1. \A i \in 1 .. n - 1 : rows'[d][i].stage = i /\ Fitting(rows'[d][i])
      BY <1>1, <1>3 DEF PlaceInv, RowsInv
    <3>. QED
      BY <1>1, <1>3, <1>7, <3>1
  <2>2. ASSUME NEW i \in DOMAIN rows'[d], NEW j \in DOMAIN rows'[d], i < j
        PROVE  Follows(rows'[d][i].why, rows'[d][j].why)
    <3>1. i \in 1 .. n - 1 /\ rows'[d][i] = rows[d][i]
      BY <1>1, <1>3, <2>2
    <3>2. CASE j = n
      <4>1. rows[d][i].why \in {"event", "aborted", "failed"}
        BY <1>3, <3>1 DEF Underway
      <4>2. why # "aborted" => rows[d][i].why = "event"
        BY <1>3, <3>1 DEF Underway
      <4>. QED
        BY <1>3, <1>7, <3>1, <3>2, <4>1, <4>2 DEF Follows
    <3>3. CASE j \in 1 .. n - 1
      BY <1>1, <1>3, <2>2, <3>1, <3>3 DEF PlaceInv, RowsInv
    <3>. QED
      BY <1>1, <1>3, <3>2, <3>3
  <2>. QED
    BY <1>1, <1>3, <2>1, <2>2 DEF RowsInv, Fitting, Follows
<1>10. CausesInv(d)'
  <2>1. ASSUME NEW i \in 1 .. n - 1
        PROVE  /\ rows'[d][i].why = "event" => MatchesAt(d, StageKey(i)) # {}
               /\ rows'[d][i].why \in {"aborted", "failed"} => HasFailed(d)
               /\ rows'[d][i].why # "timeout"
    BY <1>1, <1>3 DEF PlaceInv, CausesInv, Underway
  <2>2. /\ rows'[d][n].why = "event" => MatchesAt(d, StageKey(n)) # {}
        /\ rows'[d][n].why \in {"aborted", "failed"} => HasFailed(d)
        /\ rows'[d][n].why # "timeout"
    BY <1>3, <1>7 DEF n
  <2>3. \A i \in DOMAIN rows'[d] : i \in 1 .. n - 1 \/ i = n
    BY <1>1, <1>3
  <2>4. HasFailed(d)' = HasFailed(d)
    BY <1>8 DEF HasFailed
  <2>. QED
    BY <1>8, <2>1, <2>2, <2>3, <2>4 DEF CausesInv
<1>11. Underway(d)'
  <2>1. \A i \in DOMAIN rows'[d] : rows'[d][i].why \in {"event", "aborted", "failed"}
    <3>1. \A i \in 1 .. n - 1 : rows'[d][i].why \in {"event", "aborted", "failed"}
      BY <1>3 DEF Underway
    <3>. QED
      BY <1>1, <1>3, <1>7, <3>1
  <2>2. ASSUME why = "event", NEW i \in DOMAIN rows'[d]
        PROVE  rows'[d][i].why = "event"
    <3>1. \A j \in 1 .. n - 1 : rows'[d][j].why = "event"
      BY <1>3, <2>2 DEF Underway
    <3>. QED
      BY <1>1, <1>3, <1>7, <2>2, <3>1
  <2>3. why # "event" => HasFailed(d)'
    BY <1>8 DEF HasFailed
  <2>4. walk'[d].pc = "stage" /\ walk'[d].stage = n + 1 /\ walk'[d].aborted = aborted
    BY <1>5
  <2>. QED
    BY <1>1, <1>3, <2>1, <2>2, <2>3, <2>4 DEF Underway, Undecided
<1>. QED
  BY <1>6, <1>9, <1>10, <1>11 DEF PlaceInv, WalkInv

(* Without a listener every stage is skipped, and the walk is over. *)
LEMMA NoListenerRows ==
  ASSUME RunnerInv, NEW d \in Docs, NoListener(d)
  PROVE  /\ AtStart(d) /\ rows' \in [Docs -> Seq(Rows)]
         /\ Len(rows'[d]) = N /\ DOMAIN rows'[d] = 1 .. N
         /\ \A i \in 1 .. N : /\ rows'[d][i].stage = i /\ rows'[d][i].status = "SKIPPED"
                              /\ rows'[d][i].why = "unset"
<1>1. /\ AtStart(d) /\ N \in Nat /\ TypeOK /\ rows[d] = <<>>
  BY OfType DEF PlaceInv, WalkInv, Underway, Ended, NoListener, AtStart
<1>2. rows' = [rows EXCEPT ![d] = OneForEach(<<>>, 1, "SKIPPED", "unset")]
  BY <1>1 DEF NoListener
<1> DEFINE all == OneForEach(<<>>, 1, "SKIPPED", "unset")
<1>3. /\ all \in Seq(Rows) /\ Len(all) = N /\ DOMAIN all = 1 .. N
      /\ \A i \in 1 .. N : all[i] = Row(i, "SKIPPED", "unset")
  <2> DEFINE s == <<>>
             m == 1
  <2>1. s \in Seq(Rows) /\ m \in 1 .. N + 1 /\ Len(s) = m - 1
    BY <1>1
  <2> HIDE DEF s, m
  <2>2. /\ OneForEach(s, m, "SKIPPED", "unset") \in Seq(Rows)
        /\ Len(OneForEach(s, m, "SKIPPED", "unset")) = N
        /\ DOMAIN OneForEach(s, m, "SKIPPED", "unset") = 1 .. N
        /\ \A i \in m .. N :
              OneForEach(s, m, "SKIPPED", "unset")[i] = Row(i, "SKIPPED", "unset")
    BY <2>1, OneForEachIs
  <2>. QED
    BY <2>2 DEF s, m
<1> HIDE DEF all
<1>4. rows'[d] = all /\ rows' \in [Docs -> Seq(Rows)]
  BY <1>2, <1>3 DEF all, RunnerInv, RunnerTypeOK
<1>5. \A i \in 1 .. N : /\ rows'[d][i].stage = i /\ rows'[d][i].status = "SKIPPED"
                        /\ rows'[d][i].why = "unset"
  BY <1>3, <1>4 DEF Row
<1>. QED
  BY <1>1, <1>3, <1>4, <1>5

LEMMA NoListenerKeeps ==
  ASSUME RunnerInv, NEW d \in Docs, NoListener(d)
  PROVE  RunnerTypeOK' /\ PlaceInv(d)'
<1>1. AtStart(d) /\ N \in Nat /\ TypeOK /\ rows[d] = <<>>
  BY OfType, NoListenerRows DEF AtStart
<1>2. /\ walk' = [walk EXCEPT ![d] = [walk[d] EXCEPT !.pc = "done"]]
      /\ outcome' = [outcome EXCEPT ![d] = IF @ = "none" THEN "skipped" ELSE @]
      /\ UNCHANGED <<events, configured, attached, patience>>
  BY DEF NoListener, Decide
<1>3. /\ rows' \in [Docs -> Seq(Rows)] /\ Len(rows'[d]) = N /\ DOMAIN rows'[d] = 1 .. N
      /\ \A i \in 1 .. N : /\ rows'[d][i].stage = i /\ rows'[d][i].status = "SKIPPED"
                           /\ rows'[d][i].why = "unset"
  BY NoListenerRows
<1>4. walk' \in [Docs -> Walks] /\ walk'[d].pc = "done"
  <2>1. walk[d] \in Walks
    BY OfType
  <2>2. [walk[d] EXCEPT !.pc = "done"] \in Walks
    BY <2>1 DEF Walks
  <2>. QED
    BY <1>2, <2>1, <2>2 DEF RunnerInv, RunnerTypeOK, Walks
<1>5. outcome'[d] \in {"skipped", "killed"}
      /\ outcome' \in [Docs -> {"none", "passed", "failed", "skipped", "killed"}]
  BY <1>1, <1>2 DEF AtStart, Undecided, RunnerInv, RunnerTypeOK
<1>6. RunnerTypeOK'
  BY <1>2, <1>3, <1>4, <1>5 DEF RunnerInv, RunnerTypeOK
<1>7. RowsInv(d)'
  BY <1>1, <1>3 DEF RowsInv, Fitting, Follows
<1>8. CausesInv(d)'
  BY <1>3 DEF CausesInv
<1>9. Ended(d)'
  BY <1>1, <1>2, <1>3, <1>4, <1>5 DEF Ended, AtStart
<1>. QED
  BY <1>6, <1>7, <1>8, <1>9 DEF PlaceInv, WalkInv

(* A stage that times out without a known reason is the last that counts:   *)
(* its row is FAIL, and those of the later stages are SKIPPED.              *)
LEMMA ForceKillRows ==
  ASSUME RunnerInv, NEW d \in Docs, ForceKill(d)
  PROVE  LET n == walk[d].stage
         IN /\ Underway(d) /\ ~HasFailed(d) /\ ~walk[d].aborted
            /\ n \in 1 .. N /\ Len(rows[d]) = n - 1 /\ MatchesAt(d, StageKey(n)) = {}
            /\ rows' \in [Docs -> Seq(Rows)]
            /\ Len(rows'[d]) = N /\ DOMAIN rows'[d] = 1 .. N
            /\ \A i \in 1 .. n - 1 : rows'[d][i] = rows[d][i]
            /\ /\ rows'[d][n].stage = n /\ rows'[d][n].status = "FAIL"
               /\ rows'[d][n].why = "timeout"
            /\ \A i \in n + 1 .. N :
                 /\ rows'[d][i].stage = i /\ rows'[d][i].status = "SKIPPED"
                 /\ rows'[d][i].why = "killed"
<1> DEFINE n == walk[d].stage
           row == Row(n, "FAIL", "timeout")
           s == OneMore(d, row)
           all == OneForEach(s, n + 1, "SKIPPED", "killed")
<1>1. Underway(d) /\ call[d].pc = "timedout" /\ walk[d].pc = "await" /\ ~HasFailed(d)
  BY OfType DEF PlaceInv, WalkInv, AtStart, Ended, ForceKill
<1>2. /\ TypeOK /\ PlaceInv(d) /\ N \in Nat /\ n \in 1 .. N /\ rows[d] \in Seq(Rows)
      /\ Len(rows[d]) = n - 1 /\ MatchesAt(d, StageKey(n)) = {}
      /\ DOMAIN rows[d] = 1 .. n - 1
      /\ \A i \in 1 .. n - 1 : rows[d][i].why = "event"
  BY <1>1, OfType DEF Underway
<1>3. row \in Rows
  BY <1>2 DEF Row, Rows
<1>4. s \in Seq(Rows) /\ Len(s) = n /\ s[n] = row /\ \A i \in 1 .. n - 1 : s[i] = rows[d][i]
  BY <1>2, <1>3, OneMoreIs DEF RunnerInv
<1>5. /\ all \in Seq(Rows) /\ Len(all) = N /\ DOMAIN all = 1 .. N
      /\ \A i \in 1 .. n : all[i] = s[i]
      /\ \A i \in n + 1 .. N : all[i] = Row(i, "SKIPPED", "killed")
  <2>1. n + 1 \in 1 .. N + 1 /\ Len(s) = (n + 1) - 1 /\ (n + 1) - 1 = n
    BY <1>2, <1>4
  <2> DEFINE m == n + 1
  <2>2. s \in Seq(Rows) /\ m \in 1 .. N + 1 /\ Len(s) = m - 1 /\ m - 1 = n
    BY <1>4, <2>1
  <2> HIDE DEF s, n, m
  <2>3. /\ OneForEach(s, m, "SKIPPED", "killed") \in Seq(Rows)
        /\ Len(OneForEach(s, m, "SKIPPED", "killed")) = N
        /\ DOMAIN OneForEach(s, m, "SKIPPED", "killed") = 1 .. N
        /\ \A i \in 1 .. m - 1 : OneForEach(s, m, "SKIPPED", "killed")[i] = s[i]
        /\ \A i \in m .. N :
              OneForEach(s, m, "SKIPPED", "killed")[i] = Row(i, "SKIPPED", "killed")
    BY <2>2, OneForEachIs
  <2>. QED
    BY <2>2, <2>3 DEF m
<1>6. rows' = [rows EXCEPT ![d] = all]
  BY DEF ForceKill
<1> HIDE DEF all
<1>7. rows'[d] = all /\ rows' \in [Docs -> Seq(Rows)]
  BY <1>5, <1>6 DEF RunnerInv, RunnerTypeOK
<1>8. /\ \A i \in 1 .. n - 1 : rows'[d][i] = rows[d][i]
      /\ rows'[d][n].stage = n /\ rows'[d][n].status = "FAIL" /\ rows'[d][n].why = "timeout"
      /\ \A i \in n + 1 .. N : /\ rows'[d][i].stage = i /\ rows'[d][i].status = "SKIPPED"
                               /\ rows'[d][i].why = "killed"
  <2>1. row.stage = n /\ row.status = "FAIL" /\ row.why = "timeout"
    BY DEF Row
  <2>2. n \in 1 .. n /\ \A i \in 1 .. n - 1 : i \in 1 .. n
    BY <1>2
  <2>3. \A i \in n + 1 .. N : /\ Row(i, "SKIPPED", "killed").stage = i
                            /\ Row(i, "SKIPPED", "killed").status = "SKIPPED"
                            /\ Row(i, "SKIPPED", "killed").why = "killed"
    BY DEF Row
  <2> HIDE DEF n, row, s
  <2>. QED
    BY <1>4, <1>5, <1>7, <2>1, <2>2, <2>3
<1>9. ~walk[d].aborted
  BY <1>1 DEF Underway
<1> HIDE DEF row, s
<1>. QED
  BY <1>1, <1>2, <1>5, <1>7, <1>8, <1>9

LEMMA ForceKillKeeps ==
  ASSUME RunnerInv, NEW d \in Docs, ForceKill(d)
  PROVE  RunnerTypeOK' /\ PlaceInv(d)'
<1> DEFINE n == walk[d].stage
<1>1. Underway(d) /\ ~HasFailed(d) /\ ~walk[d].aborted
  BY ForceKillRows
<1>2. /\ TypeOK /\ PlaceInv(d) /\ N \in Nat /\ n \in 1 .. N /\ rows[d] \in Seq(Rows)
      /\ Len(rows[d]) = n - 1 /\ MatchesAt(d, StageKey(n)) = {}
      /\ DOMAIN rows[d] = 1 .. n - 1
      /\ \A i \in 1 .. n - 1 : rows[d][i].why = "event"
  <2>1. n \in 1 .. N /\ Len(rows[d]) = n - 1 /\ MatchesAt(d, StageKey(n)) = {}
    BY ForceKillRows
  <2>2. TypeOK /\ PlaceInv(d) /\ N \in Nat /\ rows[d] \in Seq(Rows)
        /\ DOMAIN rows[d] = 1 .. n - 1
    BY <2>1, OfType
  <2>. QED
    BY <1>1, <2>1, <2>2 DEF Underway
<1>3. rows' \in [Docs -> Seq(Rows)] /\ Len(rows'[d]) = N /\ DOMAIN rows'[d] = 1 .. N
  BY ForceKillRows
<1>4. /\ walk' = [walk EXCEPT ![d] = [walk[d] EXCEPT !.pc = "done"]]
      /\ outcome' = [outcome EXCEPT ![d] = IF @ = "none" THEN "failed" ELSE @]
      /\ attached' = [attached EXCEPT ![d] = EventsFor(d)]
      /\ UNCHANGED <<events, configured, patience>>
  BY DEF ForceKill, Decide, Attach
<1>5. walk' \in [Docs -> Walks] /\ walk'[d].pc = "done"
  <2>1. walk[d] \in Walks
    BY OfType
  <2>2. [walk[d] EXCEPT !.pc = "done"] \in Walks
    BY <2>1 DEF Walks
  <2>. QED
    BY <1>4, <2>1, <2>2 DEF RunnerInv, RunnerTypeOK, Walks
<1>6. outcome'[d] \in {"failed", "killed"}
      /\ outcome' \in [Docs -> {"none", "passed", "failed", "skipped", "killed"}]
  BY <1>1, <1>4 DEF Underway, Undecided, RunnerInv, RunnerTypeOK
<1>7. /\ attached'[d] = EventsFor(d) /\ attached' \in [Docs -> SUBSET Nat]
      /\ EventsFor(d) \subseteq DOMAIN events
  <2>1. EventsFor(d) \subseteq DOMAIN events /\ DOMAIN events \subseteq Nat
    BY <1>2 DEF EventsFor, TypeOK
  <2>. QED
    BY <1>4, <2>1 DEF RunnerInv, RunnerTypeOK
<1>8. RunnerTypeOK'
  BY <1>3, <1>4, <1>5, <1>6, <1>7 DEF RunnerInv, RunnerTypeOK
<1>9. /\ \A i \in 1 .. n - 1 : rows'[d][i] = rows[d][i]
      /\ rows'[d][n].stage = n /\ rows'[d][n].status = "FAIL" /\ rows'[d][n].why = "timeout"
      /\ \A i \in n + 1 .. N : /\ rows'[d][i].stage = i /\ rows'[d][i].status = "SKIPPED"
                               /\ rows'[d][i].why = "killed"
  BY ForceKillRows
<1> HIDE DEF n
<1>10. \A i \in 1 .. N : i \in 1 .. n - 1 \/ i = n \/ i \in n + 1 .. N
  BY <1>2
<1>11. RowsInv(d)'
  <2>1. \A i \in DOMAIN rows'[d] : rows'[d][i].stage = i /\ Fitting(rows'[d][i])
    <3>1. ASSUME NEW i \in 1 .. n - 1
          PROVE  rows'[d][i].stage = i /\ Fitting(rows'[d][i])
      <4>1. rows[d][i].stage = i /\ Fitting(rows[d][i])
        BY <1>2 DEF PlaceInv, RowsInv
      <4>. QED
        BY <1>9, <4>1
    <3>2. Fitting(rows'[d][n]) /\ \A i \in n + 1 .. N : Fitting(rows'[d][i])
      BY <1>9 DEF Fitting
    <3>3. \A i \in 1 .. N : rows'[d][i].stage = i /\ Fitting(rows'[d][i])
      BY <1>9, <1>10, <3>1, <3>2
    <3>. QED
      BY <1>3, <3>3
  <2>2. ASSUME NEW i \in 1 .. N, NEW j \in 1 .. N, i < j
        PROVE  Follows(rows'[d][i].why, rows'[d][j].why)
    <3>1. CASE i \in 1 .. n - 1
      BY <1>2, <1>9, <3>1 DEF Follows
    <3>2. CASE i \notin 1 .. n - 1
      <4>1. j \in n + 1 .. N
        BY <1>2, <2>2, <3>2
      <4>. QED
        BY <1>9, <1>10, <3>2, <4>1 DEF Follows
    <3>. QED
      BY <3>1, <3>2
  <2>. QED
    BY <1>2, <1>3, <2>1, <2>2 DEF RowsInv, Fitting, Follows
<1>12. \A k : MatchesAt(d, k)' = MatchesAt(d, k)
  BY <1>4 DEF MatchesAt, Matches, Field
<1>13. CausesInv(d)'
  <2>1. \A i \in 1 .. n - 1 : rows'[d][i].why = "event" /\ MatchesAt(d, StageKey(i)) # {}
    BY <1>2, <1>9 DEF PlaceInv, CausesInv
  <2>2. attached'[d] \cap (MatchesAt(d, StageKey(n)) \cup MatchesAt(d, FailedKey)) = {}
    BY <1>1, <1>2 DEF HasFailed
  <2>. QED
    BY <1>3, <1>5, <1>9, <1>10, <1>12, <2>1, <2>2 DEF CausesInv
<1>14. Ended(d)'
  BY <1>3, <1>4, <1>5, <1>6, <1>7 DEF Ended
<1>. QED
  BY <1>8, <1>11, <1>13, <1>14 DEF PlaceInv, WalkInv

(* The walk ends by itself: all rows are there, and a pass is earned.       *)
LEMMA FinishKeeps ==
  ASSUME RunnerInv, NEW d \in Docs, Finish(d)
  PROVE  RunnerTypeOK' /\ PlaceInv(d)'
<1>1. Underway(d) /\ walk[d].stage = N + 1
  BY OfType DEF PlaceInv, WalkInv, AtStart, Ended, Finish
<1>2. /\ TypeOK /\ PlaceInv(d) /\ N \in Nat /\ rows[d] \in Seq(Rows)
      /\ Len(rows[d]) = N /\ DOMAIN rows[d] = 1 .. N
  BY <1>1, OfType DEF Underway
<1>3. /\ walk' = [walk EXCEPT ![d] = [walk[d] EXCEPT !.pc = "done"]]
      /\ outcome' = [outcome EXCEPT ![d] =
           IF @ = "none" THEN (IF HasFailed(d) THEN "failed" ELSE "passed") ELSE @]
      /\ attached' = [attached EXCEPT ![d] = EventsFor(d)]
      /\ UNCHANGED <<events, configured, rows, patience>>
  BY DEF Finish, Decide, Attach
<1>4. walk' \in [Docs -> Walks] /\ walk'[d].pc = "done"
  <2>1. walk[d] \in Walks
    BY OfType
  <2>2. [walk[d] EXCEPT !.pc = "done"] \in Walks
    BY <2>1 DEF Walks
  <2>. QED
    BY <1>3, <2>1, <2>2 DEF RunnerInv, RunnerTypeOK, Walks
<1>5. /\ outcome'[d] \in {"passed", "failed", "killed"}
      /\ outcome'[d] = "passed" => ~HasFailed(d)
      /\ outcome' \in [Docs -> {"none", "passed", "failed", "skipped", "killed"}]
  BY <1>1, <1>3 DEF Underway, Undecided, RunnerInv, RunnerTypeOK
<1>6. /\ attached'[d] = EventsFor(d) /\ attached' \in [Docs -> SUBSET Nat]
      /\ EventsFor(d) \subseteq DOMAIN events
  <2>1. EventsFor(d) \subseteq DOMAIN events /\ DOMAIN events \subseteq Nat
    BY <1>2 DEF EventsFor, TypeOK
  <2>. QED
    BY <1>3, <2>1 DEF RunnerInv, RunnerTypeOK
<1>7. RunnerTypeOK'
  BY <1>3, <1>4, <1>5, <1>6 DEF RunnerInv, RunnerTypeOK
<1>8. \A k : MatchesAt(d, k)' = MatchesAt(d, k)
  BY <1>3 DEF MatchesAt, Matches, Field
<1>9. RowsInv(d)'
  BY <1>2, <1>3 DEF PlaceInv, RowsInv
<1>10. CausesInv(d)'
  <2>1. \A i \in DOMAIN rows[d] :
          /\ rows[d][i].why # "timeout"
          /\ rows[d][i].why = "event" => MatchesAt(d, StageKey(i)) # {}
          /\ rows[d][i].why \in {"aborted", "failed"} => HasFailed(d)
    BY <1>1, <1>2 DEF Underway, PlaceInv, CausesInv
  <2>2. HasFailed(d)' = HasFailed(d)
    BY <1>8 DEF HasFailed
  <2>. QED
    BY <1>3, <1>8, <2>1, <2>2 DEF CausesInv
<1>11. ASSUME outcome'[d] = "passed"
       PROVE  /\ \A i \in DOMAIN rows[d] : rows[d][i].why = "event"
              /\ \A n \in 1 .. N : EventsFor(d) \cap MatchesAt(d, StageKey(n)) # {}
              /\ EventsFor(d) \cap MatchesAt(d, FailedKey) = {}
  <2>1. ~HasFailed(d) /\ ~walk[d].aborted
    BY <1>1, <1>5, <1>11 DEF Underway
  <2>2. \A i \in 1 .. N : rows[d][i].why = "event" /\ MatchesAt(d, StageKey(i)) # {}
    BY <1>1, <1>2, <2>1 DEF Underway, PlaceInv, CausesInv
  <2>3. \A k : MatchesAt(d, k) \subseteq EventsFor(d)
    BY DEF MatchesAt, Matches, EventsFor
  <2>. QED
    BY <1>2, <2>1, <2>2, <2>3 DEF HasFailed
<1>12. Ended(d)'
  BY <1>2, <1>3, <1>4, <1>5, <1>6, <1>8, <1>11 DEF Ended
<1>. QED
  BY <1>7, <1>9, <1>10, <1>12 DEF PlaceInv, WalkInv

(* A step of d's own coroutine: it is enough to look at d, if the others    *)
(* are left alone.                                                          *)
LEMMA OwnStep ==
  ASSUME RunnerInv, ListenerInv', Growing, RunnerTypeOK', NEW d \in Docs, PlaceInv(d)',
         UNCHANGED events,
         \A c \in Docs \ {d} :
           /\ walk'[c] = walk[c] /\ rows'[c] = rows[c] /\ attached'[c] = attached[c]
           /\ outcome'[c] = outcome[c] /\ call'[c] = call[c]
  PROVE  RunnerInv'
<1>1. ASSUME NEW c \in Docs \ {d} PROVE PlaceInv(c)'
  BY Undisturbed DEF PlaceInv
<1>. QED
  BY <1>1 DEF RunnerInv, PlaceInv

(* A step of the rest of the system moves no coroutine. *)
LEMMA OutsideStep ==
  ASSUME RunnerInv, ListenerInv', Growing, UNCHANGED <<configured, walk, rows, attached>>,
         outcome' \in [Docs -> {"none", "passed", "failed", "skipped", "killed"}],
         patience' \in [Docs -> Nat],
         \A c \in Docs : /\ outcome'[c] = outcome[c]
                            \/ (outcome[c] = "none" /\ outcome'[c] = "killed")
                         /\ call'[c].pc = call[c].pc /\ call'[c].key = call[c].key,
         LoopFree \/ UNCHANGED events
  PROVE  RunnerInv'
<1>1. RunnerTypeOK'
  BY DEF RunnerInv, RunnerTypeOK
<1>2. ASSUME NEW c \in Docs, walk[c].pc = "await", call[c].pc = "timedout"
      PROVE  UNCHANGED events
  BY <1>2 DEF LoopFree, Holds, Suspended
<1>3. ASSUME NEW c \in Docs PROVE PlaceInv(c)'
  BY <1>2, Undisturbed DEF PlaceInv
<1>. QED
  BY <1>1, <1>3 DEF RunnerInv, PlaceInv

(* A turn of the wait loop tells the walker of d what it needs to know.     *)
LEMMA WaitKeeps ==
  ASSUME RunnerInv, ListenerInv', RunnerTypeOK', NEW d \in Docs, Underway(d),
         NEW k \in Keys, NEW n \in Nat, LoopBody(d, k, n),
         k = StageKey(walk[d].stage), walk[d].stage <= N, ~walk[d].aborted,
         walk'[d].pc = "await" /\ walk'[d].stage = walk[d].stage
           /\ walk'[d].aborted = walk[d].aborted,
         UNCHANGED <<watched, events, rows, attached, outcome>>
  PROVE  /\ PlaceInv(d)'
         /\ \A c \in Docs \ {d} : call'[c] = call[c]
<1>1. TypeOK /\ PlaceInv(d) /\ call \in [Docs -> Calls]
  BY OfType DEF TypeOK
<1>2. /\ \A c \in Docs \ {d} : call'[c] = call[c]
      /\ call'[d].key = k
      /\ call'[d].pc = "timedout" => MatchesAt(d, k) = {}
  BY <1>1, LoopBodyOutcome
<1>3. call'[d].pc \in {"suspended", "returned", "timedout"}
  BY <1>1 DEF LoopBody, Return, GiveUp, Suspend, Settled
<1>4. \A q : MatchesAt(d, q)' = MatchesAt(d, q)
  BY DEF MatchesAt, Matches, Field
<1>5. RowsInv(d)'
  BY <1>1 DEF PlaceInv, RowsInv
<1>6. CausesInv(d)'
  <2>1. HasFailed(d)' = HasFailed(d)
    BY <1>4 DEF HasFailed
  <2>2. \A i \in DOMAIN rows[d] : rows[d][i].why # "timeout"
    BY DEF Underway
  <2>. QED
    BY <1>1, <1>4, <2>1, <2>2 DEF PlaceInv, CausesInv
<1>7. Underway(d)'
  BY <1>2, <1>3, <1>4 DEF Underway, Undecided
<1>. QED
  BY <1>2, <1>5, <1>6, <1>7 DEF PlaceInv, WalkInv

(* The coroutine moves on, before the first row and without writing one.    *)
LEMMA EntryKeeps ==
  ASSUME RunnerInv, RunnerTypeOK', NEW d \in Docs, AtStart(d),
         NEW pc \in {"uploading", "watching", "stage"},
         walk'[d].pc = pc /\ walk'[d].stage = walk[d].stage
           /\ walk'[d].aborted = walk[d].aborted,
         pc = "stage" => d \in watched',
         UNCHANGED <<rows, attached, outcome>>
  PROVE  PlaceInv(d)'
<1>1. rows[d] = <<>> /\ walk[d].stage = 1 /\ ~walk[d].aborted /\ N \in Nat
  BY OfType DEF AtStart
<1>2. RowsInv(d)' /\ CausesInv(d)'
  BY <1>1 DEF RowsInv, CausesInv
<1>3. AtStart(d)' \/ Underway(d)'
  <2>1. CASE pc = "stage"
    BY <1>1, <2>1 DEF AtStart, Underway, Undecided
  <2>2. CASE pc # "stage"
    BY <2>2 DEF AtStart, Undecided
  <2>. QED
    BY <2>1, <2>2
<1>. QED
  BY <1>2, <1>3 DEF PlaceInv, WalkInv

(* A step of the coroutine of d that leaves its rows alone. *)
LEMMA PcType ==
  ASSUME RunnerTypeOK, NEW d \in Docs,
         NEW pc \in {"new", "uploading", "watching", "stage", "await", "done"},
         walk' = [walk EXCEPT ![d].pc = pc],
         UNCHANGED <<configured, rows, attached, outcome, patience>>
  PROVE  /\ RunnerTypeOK'
         /\ walk'[d].pc = pc /\ walk'[d].stage = walk[d].stage
         /\ walk'[d].aborted = walk[d].aborted
         /\ \A c \in Docs \ {d} : walk'[c] = walk[c]
<1>1. walk[d] \in Walks
  BY DEF RunnerTypeOK
<1>2. walk' = [walk EXCEPT ![d] = [walk[d] EXCEPT !.pc = pc]]
  OBVIOUS
<1>3. /\ [walk[d] EXCEPT !.pc = pc] \in Walks
      /\ [walk[d] EXCEPT !.pc = pc].pc = pc
      /\ [walk[d] EXCEPT !.pc = pc].stage = walk[d].stage
      /\ [walk[d] EXCEPT !.pc = pc].aborted = walk[d].aborted
  BY <1>1 DEF Walks
<1>. QED
  BY <1>2, <1>3 DEF RunnerTypeOK

(* The invariant holds initially and is kept by every step. *)
LEMMA InitRunnerInv == InitRunner => RunnerInv
<1> SUFFICES ASSUME InitRunner PROVE RunnerInv
  OBVIOUS
<1>1. ListenerInv
  BY InitInv DEF InitRunner
<1>2. RunnerTypeOK
  <2>1. walk \in [Docs -> Walks]
    <3>1. [pc |-> "new", stage |-> 1, aborted |-> FALSE] \in Walks
      BY StagesAre DEF Walks
    <3>. QED
      BY <3>1 DEF InitRunner
  <2>2. rows \in [Docs -> Seq(Rows)]
    BY DEF InitRunner
  <2>. QED
    BY <2>1, <2>2, StagesAre DEF InitRunner, RunnerTypeOK
<1>3. ASSUME NEW d \in Docs PROVE PlaceInv(d)
  <2>1. walk[d] = [pc |-> "new", stage |-> 1, aborted |-> FALSE] /\ rows[d] = <<>>
        /\ attached[d] = {} /\ outcome[d] = "none"
    BY DEF InitRunner
  <2>2. AtStart(d)
    BY <2>1 DEF AtStart, Undecided
  <2>3. RowsInv(d) /\ CausesInv(d)
    BY <2>1, StagesAre DEF RowsInv, CausesInv
  <2>. QED
    BY <2>2, <2>3 DEF PlaceInv, WalkInv
<1>. QED
  BY <1>1, <1>2, <1>3 DEF RunnerInv, PlaceInv

LEMMA StepRunnerInv == RunnerInv /\ [NextRunner]_allVars => RunnerInv'
<1> SUFFICES ASSUME RunnerInv, [NextRunner]_allVars PROVE RunnerInv'
  OBVIOUS
<1>1. ListenerInv /\ RunnerTypeOK /\ ListenerInv' /\ Growing /\ TypeOK
  BY HubStep DEF RunnerInv, ListenerInv
<1>2. ASSUME NEW d \in Docs, NoListener(d)
      PROVE  RunnerInv'
  BY <1>1, <1>2, NoListenerKeeps, OwnStep DEF NoListener, Decide, RunnerTypeOK
<1>3. ASSUME NEW d \in Docs, ForceKill(d)
      PROVE  RunnerInv'
  BY <1>1, <1>3, ForceKillKeeps, OwnStep DEF ForceKill, Decide, Attach, RunnerTypeOK
<1>4. ASSUME NEW d \in Docs, Finish(d)
      PROVE  RunnerInv'
  BY <1>1, <1>4, FinishKeeps, OwnStep DEF Finish, Decide, Attach, RunnerTypeOK
<1>5. ASSUME NEW d \in Docs, walk[d].pc \in {"stage", "await"}
      PROVE  Underway(d)
  BY <1>5, OfType DEF PlaceInv, WalkInv, AtStart, Ended
<1>6. ASSUME NEW d \in Docs, StageAborted(d)
      PROVE  RunnerInv'
  <2>1. Underway(d) /\ walk[d].stage <= N /\ HasFailed(d)
    BY <1>5, <1>6 DEF StageAborted, AtStage, Underway
  <2>2. RunnerTypeOK' /\ PlaceInv(d)'
    BY <1>6, <2>1, RowWritten DEF StageAborted
  <2>. QED
    BY <1>1, <1>6, <2>2, OwnStep DEF StageAborted, NextStage, RunnerTypeOK
<1>7. ASSUME NEW d \in Docs, StagePassed(d)
      PROVE  RunnerInv'
  <2>1. /\ Underway(d) /\ walk[d].stage <= N /\ ~walk[d].aborted
        /\ call[d].pc = "returned" /\ call[d].key = StageKey(walk[d].stage)
    BY <1>5, <1>7 DEF StagePassed, Underway
  <2>2. MatchesAt(d, StageKey(walk[d].stage)) # {}
    BY <1>1, <2>1 DEF ListenerInv, ReturnsEarliestMatch, IsEarliest
  <2>3. RunnerTypeOK' /\ PlaceInv(d)'
    BY <1>7, <2>1, <2>2, RowWritten DEF StagePassed
  <2>. QED
    BY <1>1, <1>7, <2>3, OwnStep DEF StagePassed, NextStage, RunnerTypeOK
<1>8. ASSUME NEW d \in Docs, StageFailed(d)
      PROVE  RunnerInv'
  <2>1. Underway(d) /\ walk[d].stage <= N /\ ~walk[d].aborted /\ HasFailed(d)
    BY <1>5, <1>8 DEF StageFailed, Underway
  <2>2. RunnerTypeOK' /\ PlaceInv(d)'
    BY <1>8, <2>1, RowWritten DEF StageFailed
  <2>. QED
    BY <1>1, <1>8, <2>2, OwnStep DEF StageFailed, NextStage, RunnerTypeOK
<1>9. ASSUME NEW d \in Docs, StageWait(d)
      PROVE  RunnerInv'
  <2>1. Underway(d) /\ walk[d].stage <= N /\ ~walk[d].aborted /\ walk[d].stage \in 1 .. N
    BY <1>5, <1>9, OfType DEF StageWait, AtStage
  <2>2. StageKey(walk[d].stage) \in Keys /\ Budget(StageBudget) \in Nat
    BY <2>1, StagesAre, Bounds DEF Budget
  <2>3. /\ LoopBody(d, StageKey(walk[d].stage), Budget(StageBudget))
        /\ walk' = [walk EXCEPT ![d].pc = "await"]
        /\ UNCHANGED <<watched, events, configured, rows, attached, outcome, patience>>
    BY <1>9 DEF StageWait, Wait
  <2>4. /\ RunnerTypeOK'
        /\ walk'[d].pc = "await" /\ walk'[d].stage = walk[d].stage
        /\ walk'[d].aborted = walk[d].aborted
        /\ \A c \in Docs \ {d} : walk'[c] = walk[c]
    BY <1>1, <2>3, PcType
  <2>5. PlaceInv(d)' /\ \A c \in Docs \ {d} : call'[c] = call[c]
    BY <1>1, <2>1, <2>2, <2>3, <2>4, WaitKeeps
  <2>. QED
    BY <1>1, <2>3, <2>4, <2>5, OwnStep
<1>10. ASSUME NEW d \in Docs, StageResume(d)
       PROVE  RunnerInv'
  <2>1. /\ Underway(d) /\ walk[d].stage \in 1 .. N /\ walk[d].pc = "await"
        /\ ~walk[d].aborted /\ call[d].key = StageKey(walk[d].stage) /\ walk[d].stage <= N
    <3>1. Underway(d) /\ walk[d].pc = "await"
      BY <1>5, <1>10 DEF StageResume
    <3>2. walk[d].stage \in 1 .. N + 1 /\ N \in Nat
      BY OfType
    <3>. QED
      BY <3>1, <3>2 DEF Underway
  <2>2. call[d].key \in Keys /\ call[d].left \in Nat
    BY <1>1 DEF TypeOK, Calls
  <2>3. /\ LoopBody(d, call[d].key, call[d].left) /\ UNCHANGED runner
        /\ UNCHANGED <<watched, events>>
    BY <1>10 DEF StageResume, Resume
  <2>4. RunnerTypeOK' /\ UNCHANGED <<walk, rows, attached, outcome>>
    BY <1>1, <2>3 DEF runner, RunnerTypeOK
  <2>5. PlaceInv(d)' /\ \A c \in Docs \ {d} : call'[c] = call[c]
    BY <1>1, <2>1, <2>2, <2>3, <2>4, WaitKeeps
  <2>. QED
    BY <1>1, <2>3, <2>4, <2>5, OwnStep
<1>11. ASSUME NEW d \in Docs, walk[d].pc \in {"new", "uploading", "watching"}
       PROVE  AtStart(d)
  BY <1>11, OfType DEF PlaceInv, WalkInv, Underway, Ended
<1>12. ASSUME NEW d \in Docs, StartTest(d) \/ EnterCold(d) \/ EnterWarm(d) \/ Watched(d)
       PROVE  RunnerInv'
  <2>1. PICK pc \in {"uploading", "watching", "stage"} :
          /\ walk' = [walk EXCEPT ![d].pc = pc]
          /\ pc = "stage" => d \in watched'
    BY <1>12 DEF StartTest, EnterCold, EnterWarm, Watched, WatchWarm, WarmupOver,
                 AddWatched, WithWatched
  <2>2. /\ AtStart(d)
        /\ UNCHANGED <<events, configured, rows, attached, outcome, patience>>
    BY <1>11, <1>12 DEF StartTest, EnterCold, EnterWarm, Watched, WatchCold, WatchWarm,
                        WarmupOver
  <2>3. /\ RunnerTypeOK'
        /\ walk'[d].pc = pc /\ walk'[d].stage = walk[d].stage
        /\ walk'[d].aborted = walk[d].aborted
        /\ \A c \in Docs \ {d} : walk'[c] = walk[c]
    BY <1>1, <2>1, <2>2, PcType
  <2>4. PlaceInv(d)'
    BY <2>1, <2>2, <2>3, EntryKeeps
  <2>5. \A c \in Docs \ {d} : call'[c] = call[c]
    BY <1>1, <1>12 DEF StartTest, EnterCold, EnterWarm, Watched, WatchCold, WatchWarm,
                       WarmupOver, TypeOK
  <2>. QED
    BY <1>1, <2>2, <2>3, <2>4, <2>5, OwnStep
<1>13. ASSUME NEW d \in Docs, TimeoutKill(d)
       PROVE  RunnerInv'
  <2>1. /\ outcome' \in [Docs -> {"none", "passed", "failed", "skipped", "killed"}]
        /\ \A c \in Docs : outcome'[c] = outcome[c]
                            \/ (outcome[c] = "none" /\ outcome'[c] = "killed")
    BY <1>1, <1>13 DEF TimeoutKill, InProgress, RunnerTypeOK
  <2>2. /\ UNCHANGED <<configured, walk, rows, attached, patience, call, events>>
        /\ patience' \in [Docs -> Nat]
    BY <1>1, <1>13 DEF TimeoutKill, RunnerTypeOK
  <2>. QED
    BY <1>1, <2>1, <2>2, OutsideStep
<1>14. ASSUME NEW p \in Partitions, Receive(p) \/ (\E e \in Emittable : Produce(p, e))
       PROVE  RunnerInv'
  <2>1. \A c \in Docs : call'[c].pc = call[c].pc /\ call'[c].key = call[c].key
    <3>1. UNCHANGED call \/ call' = Woken
      BY <1>14 DEF Receive, Produce, Emit, Deliver, OnWatchedEvent, OnOtherEvent,
                   ReceiveError, Redeliver
    <3>2. ASSUME NEW c \in Docs, call' = Woken
          PROVE  call'[c].pc = call[c].pc /\ call'[c].key = call[c].key
      <4>1. call[c] \in Calls
        BY <1>1 DEF TypeOK
      <4>2. call'[c] = IF Suspended(c) THEN [call[c] EXCEPT !.woken = TRUE] ELSE call[c]
        BY <3>2 DEF Woken
      <4>. QED
        BY <4>1, <4>2 DEF Calls
    <3>. QED
      BY <3>1, <3>2
  <2>2. UNCHANGED runner /\ (LoopFree \/ UNCHANGED events)
    BY <1>14 DEF Receive, Produce, Emit
  <2>. QED
    BY <1>1, <2>1, <2>2, OutsideStep DEF runner, RunnerTypeOK
<1>15. ASSUME Elapsed PROVE RunnerInv'
  <2>1. \A c \in Docs : call'[c].pc = call[c].pc /\ call'[c].key = call[c].key
    BY <1>1, <1>15, LaterKeepsCalls DEF Elapsed
  <2>2. patience' \in [Docs -> Nat]
    <3>1. \A n \in Nat : Elapse(n) \in Nat
      BY DEF Elapse
    <3>. QED
      BY <1>1, <1>15, <3>1 DEF Elapsed, RunnerTypeOK
  <2>3. /\ UNCHANGED <<configured, walk, rows, attached, outcome, events>>
        /\ outcome' \in [Docs -> {"none", "passed", "failed", "skipped", "killed"}]
    BY <1>1, <1>15 DEF Elapsed, RunnerTypeOK
  <2>. QED
    BY <1>1, <2>1, <2>2, <2>3, OutsideStep
<1>16. CASE UNCHANGED allVars
  BY <1>1, <1>16, OutsideStep DEF allVars, RunnerTypeOK
<1>. QED
  BY <1>2, <1>3, <1>4, <1>6, <1>7, <1>8, <1>9, <1>10, <1>12, <1>13, <1>14, <1>15, <1>16
  DEF NextRunner, Walker

(* The inductive invariant holds of every instance of the walker. *)
THEOREM RunnerInvCorrect == SpecRunner => []RunnerInv
BY InitRunnerInv, StepRunnerInv, PTL DEF SpecRunner

(* The walker's variables stay within their types. *)
THEOREM RunnerTypeCorrect == SpecRunner => []RunnerTypeOK
<1>1. RunnerInv => RunnerTypeOK
  BY DEF RunnerInv
<1>. QED
  BY <1>1, RunnerInvCorrect, PTL

(* The rows of a document are the stages in order and tell one story:       *)
(* passes, then one cause to the end.                                       *)
THEOREM StoriesAreOne == SpecRunner => []RowsTellOneStory
<1>1. ASSUME RunnerInv, NEW d \in Docs
      PROVE  /\ \A i \in DOMAIN rows[d] : rows[d][i].stage = i
             /\ Len(rows[d]) <= N
             /\ \A i, j \in DOMAIN rows[d] :
                  i < j => /\ Follows(rows[d][i].why, rows[d][j].why)
                           /\ rows[d][i].why = "event" <=> rows[d][i].status = "PASS"
  BY <1>1 DEF RunnerInv, RowsInv, Fitting
<1>2. RunnerInv => RowsTellOneStory
  BY <1>1, ZenonT(60) DEF RowsTellOneStory, Follows
<1>. QED
  BY <1>2, RunnerInvCorrect, PTL

(* A verdict of the walker comes with a row for every stage. *)
THEOREM VerdictsHaveAllRows == SpecRunner => []VerdictHasAllRows
<1>1. ASSUME RunnerInv, NEW d \in Docs, outcome[d] \in {"passed", "failed", "skipped"}
      PROVE  Len(rows[d]) = N
  BY <1>1 DEF RunnerInv, WalkInv, AtStart, Underway, Ended, Undecided
<1>2. RunnerInv => VerdictHasAllRows
  BY <1>1 DEF VerdictHasAllRows
<1>. QED
  BY <1>2, RunnerInvCorrect, PTL

(* A green test has a PASS row for every stage, an event of each stage among *)
(* the attached ones, and no FAILED there.                                   *)
THEOREM PassesAreEarned == SpecRunner => []PassIsEarned
<1>1. ASSUME RunnerInv, NEW d \in Docs, outcome[d] = "passed"
      PROVE  /\ Statuses(d, "PASS") = 1 .. N
             /\ \A n \in 1 .. N : attached[d] \cap MatchesAt(d, StageKey(n)) # {}
             /\ attached[d] \cap MatchesAt(d, FailedKey) = {}
  <2>1. Ended(d) /\ RowsInv(d)
    BY <1>1 DEF RunnerInv, WalkInv, AtStart, Underway, Undecided
  <2>2. DOMAIN rows[d] = 1 .. N
    BY <1>1, <2>1, OfType DEF Ended
  <2>3. \A i \in DOMAIN rows[d] : rows[d][i].status = "PASS"
    BY <1>1, <2>1 DEF Ended, RowsInv, Fitting
  <2>. QED
    BY <1>1, <2>1, <2>2, <2>3 DEF Ended, Statuses
<1>2. RunnerInv => PassIsEarned
  BY <1>1 DEF PassIsEarned
<1>. QED
  BY <1>2, RunnerInvCorrect, PTL

(* The cause a row names is in the buffer, or, for a timeout, not among the *)
(* attached events.                                                         *)
THEOREM CausesAreReal == SpecRunner => []RowsNameTheCause
<1>1. RunnerInv => RowsNameTheCause
  BY DEF RunnerInv, CausesInv, HasFailed, RowsNameTheCause
<1>. QED
  BY <1>1, RunnerInvCorrect, PTL

(* No test turns green over a FAILED event that was delivered since its     *)
(* document was watched: the last look is at a buffer that has them all.    *)
THEOREM FailedTurnsNoTestGreen == SpecRunner => FailedNeverPasses
<1> DEFINE Silent(d) == \A p \in Partitions : \A i \in since[d][p] + 1 .. read[p] :
                          ~Matches(log[p][i], d, FailedKey)
<1>1. ASSUME RunnerInv, NextRunner, NEW d \in Docs,
             outcome[d] = "none", outcome'[d] = "passed"
      PROVE  Finish(d) /\ ~HasFailed(d)
  <2>1. outcome \in [Docs -> {"none", "passed", "failed", "skipped", "killed"}]
    BY <1>1 DEF RunnerInv, RunnerTypeOK
  <2>2. ASSUME NEW c \in Docs, Finish(c)
        PROVE  c = d /\ ~HasFailed(d)
    BY <1>1, <2>1, <2>2 DEF Finish, Decide
  <2>3. ASSUME NEW c \in Docs, NoListener(c) \/ ForceKill(c) \/ TimeoutKill(c)
        PROVE  FALSE
    BY <1>1, <2>1, <2>3 DEF NoListener, ForceKill, TimeoutKill, Decide
  <2>. QED
    BY <1>1, <2>2, <2>3
    DEF NextRunner, Walker, StartTest, EnterCold, EnterWarm, Watched, StageAborted,
        StageWait, StageResume, StagePassed, StageFailed, Receive, Produce, Elapsed, runner
<1>2. ASSUME RunnerInv, NEW d \in Docs, Finish(d), ~HasFailed(d)
      PROVE  Silent(d)
  <2>1. d \in watched
    BY <1>2, OfType DEF PlaceInv, WalkInv, AtStart, Underway, Ended, Finish
  <2>2. ASSUME NEW p \in Partitions, NEW i \in since[d][p] + 1 .. read[p],
               Matches(log[p][i], d, FailedKey)
        PROVE  FALSE
    <3>1. PICK j \in DOMAIN events : events[j] = Capture(p, log[p][i], i)
      BY <1>2, <2>1, <2>2 DEF RunnerInv, ListenerInv, DeliveredIsCaptured, Matches
    <3>2. Matches(events[j], d, FailedKey)
      BY <2>2, <3>1 DEF Capture, Matches, Field
    <3>. QED
      BY <1>2, <3>1, <3>2 DEF HasFailed, MatchesAt
  <2>. QED
    BY <2>2
<1>3. RunnerInv /\ [NextRunner]_allVars =>
        [\A d \in Docs : outcome[d] = "none" /\ outcome'[d] = "passed" => Silent(d)]_allVars
  BY <1>1, <1>2
<1>. QED
  BY <1>3, RunnerInvCorrect, PTL DEF SpecRunner, FailedNeverPasses

(* A verdict is final, and a coroutine that gave one writes nothing more.   *)
THEOREM VerdictsAreFinal == SpecRunner => VerdictIsFinal
<1> DEFINE Final(d) ==
      /\ outcome[d] # "none" => outcome'[d] = outcome[d]
      /\ outcome[d] \in {"passed", "failed", "skipped"} =>
           rows'[d] = rows[d] /\ attached'[d] = attached[d]
<1>1. ASSUME RunnerInv, NextRunner, NEW d \in Docs PROVE Final(d)
  <2>1. /\ outcome \in [Docs -> {"none", "passed", "failed", "skipped", "killed"}]
        /\ rows \in [Docs -> Seq(Rows)] /\ attached \in [Docs -> SUBSET Nat]
    BY <1>1 DEF RunnerInv, RunnerTypeOK
  <2>2. outcome[d] \in {"passed", "failed", "skipped"} => walk[d].pc = "done"
    <3>1. AtStart(d) \/ Underway(d) \/ Ended(d)
      BY <1>1 DEF RunnerInv, WalkInv
    <3>. QED
      BY <3>1 DEF AtStart, Underway, Ended, Undecided
  <2>3. ASSUME NEW c \in Docs, NoListener(c) \/ ForceKill(c) \/ Finish(c)
        PROVE  Final(d)
    <3>1. walk[c].pc # "done" /\ (c # d => rows'[d] = rows[d] /\ attached'[d] = attached[d])
      BY <2>1, <2>3 DEF NoListener, ForceKill, Finish, Attach
    <3>2. outcome[d] # "none" => outcome'[d] = outcome[d]
      BY <2>1, <2>3 DEF NoListener, ForceKill, Finish, Decide
    <3>. QED
      BY <2>2, <3>1, <3>2
  <2>4. ASSUME NEW c \in Docs, StageAborted(c) \/ StagePassed(c) \/ StageFailed(c)
        PROVE  Final(d)
    <3>1. walk[c].pc # "done" /\ (c # d => rows'[d] = rows[d])
      BY <2>1, <2>4 DEF StageAborted, AtStage, StagePassed, StageFailed
    <3>2. UNCHANGED <<outcome, attached>>
      BY <2>4 DEF StageAborted, StagePassed, StageFailed
    <3>. QED
      BY <2>2, <3>1, <3>2
  <2>5. ASSUME NEW c \in Docs, TimeoutKill(c) PROVE Final(d)
    BY <2>1, <2>5 DEF TimeoutKill, InProgress
  <2>. QED
    BY <1>1, <2>3, <2>4, <2>5
    DEF NextRunner, Walker, StartTest, EnterCold, EnterWarm, Watched, StageWait,
        StageResume, Receive, Produce, Elapsed, runner
<1>2. RunnerInv /\ [NextRunner]_allVars => [\A d \in Docs : Final(d)]_allVars
  BY <1>1
<1>. QED
  BY <1>2, RunnerInvCorrect, PTL DEF SpecRunner, VerdictIsFinal
-----------------------------------------------------------------------------
(* The listener under the walker *)

(* A step of the walker's system does with the buffer what a step of the     *)
(* listener's may, or leaves it alone.                                      *)
LEMMA WalkerKeepsBuffer ==
  ASSUME RunnerInv, RunnerInv', BufferInv, [NextRunner]_allVars
  PROVE  BufferInv'
<1>1. ASSUME [Next]_vars PROVE BufferInv'
  BY <1>1, StepBuffer
<1>2. ASSUME UNCHANGED <<log, read, watched, events, replays>> PROVE BufferInv'
  <2>1. TypeOK' /\ \A p \in Partitions : read[p] \in Nat /\ Len(log[p]) \in Nat
    BY DEF RunnerInv, ListenerInv, BufferInv, TypeOK
  <2>. QED
    BY <1>2, <2>1, NothingCaptured
<1>3. ASSUME NEW d \in Docs, EnterCold(d) \/ EnterWarm(d) \/ Watched(d) \/ StageResume(d)
      PROVE  Next
  BY <1>3 DEF EnterCold, EnterWarm, Watched, StageResume, Next, Client, Listener
<1>4. ASSUME NEW p \in Partitions, Receive(p) \/ (\E e \in Emittable : Produce(p, e))
      PROVE  Next
  BY <1>4 DEF Receive, Produce, Next, Azure, Listener
<1>5. ASSUME NEW d \in Docs, NoListener(d) \/ StageAborted(d) \/ StagePassed(d)
                             \/ StageFailed(d) \/ ForceKill(d) \/ Finish(d) \/ StageWait(d)
                             \/ StartTest(d) \/ TimeoutKill(d) \/ Elapsed
      PROVE  UNCHANGED <<log, read, watched, events, replays>>
  BY <1>5 DEF NoListener, StageAborted, StagePassed, StageFailed, ForceKill, Finish,
              StageWait, Wait, StartTest, TimeoutKill, Elapsed
<1>6. CASE Elapsed
  BY <1>2, <1>6 DEF Elapsed
<1>7. CASE UNCHANGED allVars
  BY <1>2, <1>7 DEF allVars
<1>. QED
  BY <1>1, <1>2, <1>3, <1>4, <1>5, <1>6, <1>7 DEF NextRunner, Walker

(* The listener keeps its promises to the walker: in a session whose waits   *)
(* last as long as a stage may, no wakeup is lost, the buffer has what was   *)
(* delivered and nothing else, and a wait returns the earliest match.       *)
THEOREM ListenerServesWalker ==
  SpecRunner =>
    [](NoLostWakeup /\ DeliveredIsCaptured /\ BufferFollowsLogs /\ ReturnsEarliestMatch)
<1>1. RunnerInv => NoLostWakeup /\ DeliveredIsCaptured /\ ReturnsEarliestMatch
  BY DEF RunnerInv, ListenerInv
<1>2. BufferInv => BufferFollowsLogs
  BY DEF BufferInv, Entries, InOrder, BufferFollowsLogs
<1>3. InitRunner => BufferInv
  BY InitBuffer DEF InitRunner
<1>4. RunnerInv /\ RunnerInv' /\ BufferInv /\ [NextRunner]_allVars => BufferInv'
  BY WalkerKeepsBuffer
<1>5. SpecRunner => []BufferInv
  BY <1>3, <1>4, RunnerInvCorrect, PTL DEF SpecRunner
<1>. QED
  BY <1>1, <1>2, <1>5, RunnerInvCorrect, PTL

(* What of d was not delivered since it was watched. *)
NotDelivered(d, k) ==
  \A p \in Partitions : \A i \in since[d][p] + 1 .. read[p] : ~Matches(log[p][i], d, k)

LEMMA NoMatchMeansSilence ==
  ASSUME ListenerInv, NEW d \in watched, NEW k \in Keys, MatchesAt(d, k) = {}
  PROVE  NotDelivered(d, k)
<1>1. SUFFICES ASSUME NEW p \in Partitions, NEW i \in since[d][p] + 1 .. read[p],
                      Matches(log[p][i], d, k)
               PROVE  FALSE
  BY DEF NotDelivered
<1>2. PICK j \in DOMAIN events : events[j] = Capture(p, log[p][i], i)
  BY <1>1 DEF ListenerInv, DeliveredIsCaptured, Matches
<1>3. Matches(events[j], d, k)
  BY <1>1, <1>2 DEF Capture, Matches, Field
<1>. QED
  BY <1>2, <1>3 DEF MatchesAt

(* A stage is force-killed only in silence: when the timeout row and the     *)
(* SKIPPED rows behind it are written, the listener had been handed neither  *)
(* the stage's event nor a FAILED one since the document was watched.       *)
THEOREM ForceKillsAreSilent ==
  SpecRunner => [][\A d \in Docs : ForceKill(d) =>
                     NotDelivered(d, StageKey(walk[d].stage)) /\ NotDelivered(d, FailedKey)]_allVars
<1>1. ASSUME RunnerInv, NEW d \in Docs, ForceKill(d)
      PROVE  NotDelivered(d, StageKey(walk[d].stage)) /\ NotDelivered(d, FailedKey)
  <2>1. /\ Underway(d) /\ walk[d].pc = "await" /\ call[d].pc = "timedout"
        /\ MatchesAt(d, FailedKey) = {} /\ walk[d].stage \in 1 .. N + 1
    BY <1>1, OfType
    DEF PlaceInv, WalkInv, AtStart, Ended, ForceKill, HasFailed, RunnerInv, RunnerTypeOK, Walks
  <2>2. d \in watched /\ MatchesAt(d, StageKey(walk[d].stage)) = {} /\ walk[d].stage <= N
    BY <2>1 DEF Underway
  <2>3. walk[d].stage \in 1 .. N
    BY <2>1, <2>2, StagesAre
  <2>4. StageKey(walk[d].stage) \in Keys /\ FailedKey \in Keys
    BY <2>3, StagesAre, RunnerAssumption
  <2>. QED
    BY <1>1, <2>1, <2>2, <2>4, NoMatchMeansSilence DEF RunnerInv
<1>2. RunnerInv /\ [NextRunner]_allVars =>
        [\A d \in Docs : ForceKill(d) =>
           NotDelivered(d, StageKey(walk[d].stage)) /\ NotDelivered(d, FailedKey)]_allVars
  BY <1>1
<1>. QED
  BY <1>2, RunnerInvCorrect, PTL DEF SpecRunner
-----------------------------------------------------------------------------
(* Nobody waits for anybody *)

(* Where a coroutine stands fits what its call is at, a suspended call is    *)
(* polled within its budget, and no receive task is closed under a test.    *)
CallFits(d) ==
  /\ walk[d].pc = "watching" => call[d].pc = "warming"
  /\ walk[d].pc = "stage" => CanCall(d)
  /\ Suspended(d) => call[d].poll <= call[d].left

TurnInv == Open /\ \A d \in Docs : CallFits(d)

(* The coroutine of d may go on: by itself, if it holds the event loop, or   *)
(* once the loop is free and its sleep is over.                             *)
MayStep(d) ==
  \/ /\ AtStage(d)
     /\ walk[d].aborted \/ HasFailed(d) \/ (CanCall(d) /\ Open /\ d \in watched)
  \/ walk[d].pc = "stage" /\ walk[d].stage = N + 1
  \/ walk[d].pc = "await" /\ call[d].pc \in {"returned", "timedout"}
  \/ LoopFree /\ walk[d].pc = "watching" /\ call[d].pc = "warming"
  \/ LoopFree /\ walk[d].pc = "await" /\ Suspended(d) /\ Runnable(d)

(* Or time may pass: a suspended call has some of its budget left. *)
MayElapse == LoopFree /\ \E d \in Docs : Suspended(d) /\ call[d].left > 0

WalkIsNotStuck ==
  \A d \in Docs :
    InProgress(d) /\ walk[d].pc \in {"watching", "stage", "await"} =>
      MayElapse \/ \E c \in Docs : MayStep(c)

LEMMA LoopBodyFits ==
  ASSUME TypeOK, NEW d \in Docs, NEW k \in Keys, NEW n \in Nat, LoopBody(d, k, n)
  PROVE  /\ call'[d].pc \in {"suspended", "returned", "timedout"}
         /\ call'[d].pc = "suspended" => call'[d].poll <= call'[d].left
         /\ \A c \in Docs \ {d} : call'[c] = call[c]
<1>1. CASE Return(d, k) \/ GiveUp(d, k, n)
  BY <1>1 DEF Return, GiveUp, Settled, TypeOK
<1>2. CASE Suspend(d, k, n)
  <2>1. PollCap \in Nat
    BY Bounds
  <2>2. call'[d].pc = "suspended" /\ call'[d].left = n /\ call'[d].poll = Lesser(n, PollCap)
    BY <1>2 DEF Suspend, TypeOK
  <2>3. \A c \in Docs \ {d} : call'[c] = call[c]
    BY <1>2 DEF Suspend, TypeOK
  <2>. QED
    BY <2>1, <2>2, <2>3 DEF Lesser
<1>. QED
  BY <1>1, <1>2 DEF LoopBody

(* The documents a step does not touch. *)
LEMMA CallStillFits ==
  ASSUME NEW d \in Docs, CallFits(d), walk'[d] = walk[d], call'[d] = call[d]
  PROVE  CallFits(d)'
BY DEF CallFits, CanCall, Suspended

LEMMA WalkerKeepsTurn ==
  ASSUME RunnerInv, TurnInv, NEW d \in Docs, Walker(d)
  PROVE  TurnInv'
<1>1. /\ TypeOK /\ walk \in [Docs -> Walks] /\ call \in [Docs -> Calls]
      /\ Open /\ \A c \in Docs : CallFits(c)
  BY DEF RunnerInv, ListenerInv, RunnerTypeOK, TypeOK, TurnInv
<1>2. ASSUME UNCHANGED task \/ task' = [p \in Partitions |-> "running"],
             \A c \in Docs \ {d} : walk'[c] = walk[c] /\ call'[c] = call[c],
             CallFits(d)'
      PROVE  TurnInv'
  <2>1. Open'
    BY <1>1, <1>2 DEF Open
  <2>2. \A c \in Docs \ {d} : CallFits(c)'
    BY <1>1, <1>2, CallStillFits
  <2>. QED
    BY <1>2, <2>1, <2>2 DEF TurnInv
<1>3. CASE NoListener(d) \/ ForceKill(d) \/ Finish(d)
  <2>1. UNCHANGED <<task, call>> /\ walk' = [walk EXCEPT ![d].pc = "done"]
    BY <1>3 DEF NoListener, ForceKill, Finish
  <2>2. walk'[d].pc = "done" /\ \A c \in Docs \ {d} : walk'[c] = walk[c]
    BY <1>1, <2>1 DEF Walks
  <2>3. CallFits(d)'
    BY <1>1, <2>1, <2>2 DEF CallFits, Suspended
  <2>. QED
    BY <1>2, <2>1, <2>2, <2>3
<1>4. CASE StageAborted(d) \/ StagePassed(d) \/ StageFailed(d)
  <2>1. /\ UNCHANGED <<task, call>> /\ CanCall(d)
        /\ \E aborted \in BOOLEAN : NextStage(d, aborted)
    BY <1>1, <1>4 DEF StageAborted, AtStage, StagePassed, StageFailed, CallFits, CanCall
  <2>2. walk'[d].pc = "stage" /\ \A c \in Docs \ {d} : walk'[c] = walk[c]
    BY <1>1, <2>1 DEF NextStage
  <2>3. CallFits(d)'
    BY <2>1, <2>2 DEF CallFits, CanCall, Suspended
  <2>. QED
    BY <1>2, <2>1, <2>2, <2>3
<1>5. CASE EnterCold(d)
  <2>1. /\ walk' = [walk EXCEPT ![d].pc = "watching"] /\ call' = [call EXCEPT ![d].pc = "warming"]
        /\ task' = [p \in Partitions |-> "running"]
    BY <1>5 DEF EnterCold, WatchCold
  <2>2. /\ walk'[d].pc = "watching" /\ call'[d].pc = "warming"
        /\ \A c \in Docs \ {d} : walk'[c] = walk[c] /\ call'[c] = call[c]
    BY <1>1, <2>1 DEF Walks, Calls
  <2>3. CallFits(d)'
    BY <2>2 DEF CallFits, Suspended
  <2>. QED
    BY <1>2, <2>1, <2>2, <2>3
<1>6. CASE EnterWarm(d)
  <2>1. walk' = [walk EXCEPT ![d].pc = "stage"] /\ UNCHANGED <<call, task>> /\ CanCall(d)
    BY <1>6 DEF EnterWarm, WatchWarm
  <2>2. walk'[d].pc = "stage" /\ \A c \in Docs \ {d} : walk'[c] = walk[c]
    BY <1>1, <2>1 DEF Walks
  <2>3. CallFits(d)'
    BY <2>1, <2>2 DEF CallFits, CanCall, Suspended
  <2>. QED
    BY <1>2, <2>1, <2>2, <2>3
<1>7. CASE Watched(d)
  <2>1. /\ walk' = [walk EXCEPT ![d].pc = "stage"] /\ call' = [call EXCEPT ![d].pc = "idle"]
        /\ UNCHANGED task
    BY <1>7 DEF Watched, WarmupOver
  <2>2. /\ walk'[d].pc = "stage" /\ call'[d].pc = "idle"
        /\ \A c \in Docs \ {d} : walk'[c] = walk[c] /\ call'[c] = call[c]
    BY <1>1, <2>1 DEF Walks, Calls
  <2>3. CallFits(d)'
    BY <2>2 DEF CallFits, CanCall, Suspended
  <2>. QED
    BY <1>2, <2>1, <2>2, <2>3
<1>8. ASSUME NEW k \in Keys, NEW n \in Nat, LoopBody(d, k, n),
             walk'[d].pc = "await", \A c \in Docs \ {d} : walk'[c] = walk[c], UNCHANGED task
      PROVE  TurnInv'
  <2>1. /\ call'[d].pc = "suspended" => call'[d].poll <= call'[d].left
        /\ \A c \in Docs \ {d} : call'[c] = call[c]
    BY <1>1, <1>8, LoopBodyFits
  <2>2. CallFits(d)'
    BY <1>8, <2>1 DEF CallFits, Suspended
  <2>. QED
    BY <1>2, <1>8, <2>1, <2>2
<1>9. CASE StageWait(d)
  <2>1. walk[d].stage \in 1 .. N
    BY <1>1, <1>9, StagesAre DEF StageWait, AtStage, Walks
  <2>2. StageKey(walk[d].stage) \in Keys /\ StageBudget \in Nat
    BY <2>1, StagesAre
  <2>3. Budget(StageBudget) \in Nat
    BY <2>2, Bounds DEF Budget
  <2>4. /\ LoopBody(d, StageKey(walk[d].stage), Budget(StageBudget))
        /\ walk' = [walk EXCEPT ![d].pc = "await"] /\ UNCHANGED task
    BY <1>9 DEF StageWait, Wait
  <2>5. walk'[d].pc = "await" /\ \A c \in Docs \ {d} : walk'[c] = walk[c]
    BY <1>1, <2>4 DEF Walks
  <2>. QED
    BY <1>8, <2>2, <2>3, <2>4, <2>5
<1>10. CASE StageResume(d)
  <2>1. /\ LoopBody(d, call[d].key, call[d].left) /\ UNCHANGED <<walk, task>>
        /\ walk[d].pc = "await"
    BY <1>10 DEF StageResume, Resume, runner
  <2>2. call[d].key \in Keys /\ call[d].left \in Nat
    BY <1>1 DEF Calls
  <2>. QED
    BY <1>8, <2>1, <2>2
<1>. QED
  BY <1>3, <1>4, <1>5, <1>6, <1>7, <1>9, <1>10 DEF Walker

LEMMA NextKeepsTurn ==
  ASSUME RunnerInv, TurnInv, [NextRunner]_allVars
  PROVE  TurnInv'
<1>1. /\ TypeOK /\ walk \in [Docs -> Walks] /\ call \in [Docs -> Calls]
      /\ Open /\ \A c \in Docs : CallFits(c)
  BY DEF RunnerInv, ListenerInv, RunnerTypeOK, TypeOK, TurnInv
<1>2. ASSUME UNCHANGED task,
             \A c \in Docs : \/ walk'[c] = walk[c]
                             \/ walk'[c].pc = "uploading",
             \A c \in Docs : /\ call'[c].pc = call[c].pc
                             /\ Suspended(c) => call'[c].poll <= call'[c].left
      PROVE  TurnInv'
  <2>1. Open'
    BY <1>1, <1>2 DEF Open
  <2>2. \A c \in Docs : CallFits(c)'
    BY <1>1, <1>2 DEF CallFits, CanCall, Suspended
  <2>. QED
    BY <2>1, <2>2 DEF TurnInv
<1>3. \A c \in Docs : Suspended(c) => call[c].poll <= call[c].left
  BY <1>1 DEF CallFits
<1>4. ASSUME NEW d \in Docs, StartTest(d) PROVE TurnInv'
  <2>1. UNCHANGED <<task, call>> /\ walk' = [walk EXCEPT ![d].pc = "uploading"]
    BY <1>4 DEF StartTest
  <2>2. \A c \in Docs : walk'[c] = walk[c] \/ walk'[c].pc = "uploading"
    BY <1>1, <2>1 DEF Walks
  <2>. QED
    BY <1>2, <1>3, <2>1, <2>2
<1>5. ASSUME NEW d \in Docs, TimeoutKill(d) PROVE TurnInv'
  BY <1>2, <1>3, <1>5 DEF TimeoutKill
<1>6. ASSUME NEW p \in Partitions, OnWatchedEvent(p), UNCHANGED walk PROVE TurnInv'
  <2>1. \A c \in Docs : call'[c] = IF Suspended(c) THEN [call[c] EXCEPT !.woken = TRUE] ELSE call[c]
    BY <1>6 DEF OnWatchedEvent, Woken
  <2>2. \A c \in Docs : /\ call'[c].pc = call[c].pc /\ call'[c].poll = call[c].poll
                        /\ call'[c].left = call[c].left
    BY <1>1, <2>1 DEF Calls
  <2>. QED
    BY <1>2, <1>3, <1>6, <2>2 DEF OnWatchedEvent
<1>7. ASSUME NEW p \in Partitions, ReceiveError(p), UNCHANGED walk PROVE TurnInv'
  <2>1. Open'
    BY <1>1, <1>7 DEF ReceiveError, Open, TypeOK
  <2>2. \A c \in Docs : CallFits(c)'
    BY <1>1, <1>7, CallStillFits DEF ReceiveError
  <2>. QED
    BY <2>1, <2>2 DEF TurnInv
<1>8. ASSUME NEW p \in Partitions, Receive(p) \/ (\E e \in Emittable : Produce(p, e)) PROVE TurnInv'
  <2>1. UNCHANGED walk
    BY <1>8 DEF Receive, Produce, runner
  <2>2. CASE OnOtherEvent(p) \/ Redeliver(p) \/ \E e \in Emittable : Emit(p, e)
    <3>1. UNCHANGED <<task, call>>
      BY <2>2 DEF OnOtherEvent, Redeliver, Emit
    <3>. QED
      BY <1>2, <1>3, <2>1, <3>1
  <2>. QED
    BY <1>6, <1>7, <1>8, <2>1, <2>2 DEF Receive, Produce, Deliver
<1>9. CASE Elapsed
  <2>1. \A c \in Docs : call'[c] = IF Suspended(c)
                                   THEN [call[c] EXCEPT !.left = Elapse(@), !.poll = Elapse(@)]
                                   ELSE call[c]
    BY <1>9 DEF Elapsed, Later
  <2>2. ASSUME NEW c \in Docs
        PROVE  /\ call'[c].pc = call[c].pc
               /\ Suspended(c) => call'[c].poll <= call'[c].left
    <3>1. /\ call'[c].pc = call[c].pc
          /\ Suspended(c) => /\ call'[c].poll = Elapse(call[c].poll)
                             /\ call'[c].left = Elapse(call[c].left)
      BY <1>1, <2>1 DEF Calls
    <3>2. call[c].poll \in Nat /\ call[c].left \in Nat
      BY <1>1 DEF Calls
    <3>3. call[c].poll <= call[c].left => Elapse(call[c].poll) <= Elapse(call[c].left)
      BY <3>2 DEF Elapse
    <3>. QED
      BY <1>3, <3>1, <3>3
  <2>. QED
    BY <1>2, <1>9, <2>2 DEF Elapsed
<1>10. CASE UNCHANGED allVars
  BY <1>2, <1>3, <1>10 DEF allVars
<1>. QED
  BY <1>4, <1>5, <1>8, <1>9, <1>10, WalkerKeepsTurn DEF NextRunner

LEMMA InitTurn == InitRunner => TurnInv
<1>1. SUFFICES ASSUME InitRunner PROVE TurnInv
  OBVIOUS
<1>2. Open
  BY <1>1 DEF InitRunner, Init, Open
<1>3. ASSUME NEW d \in Docs PROVE CallFits(d)
  BY <1>1 DEF InitRunner, Init, Settled, CallFits, Suspended
<1>. QED
  BY <1>2, <1>3 DEF TurnInv

LEMMA SomeTurn ==
  ASSUME RunnerInv, TurnInv, NEW d \in Docs, InProgress(d),
         walk[d].pc \in {"watching", "stage", "await"}
  PROVE  MayElapse \/ \E c \in Docs : MayStep(c)
<1>1. /\ walk \in [Docs -> Walks] /\ call \in [Docs -> Calls]
      /\ Open /\ \A c \in Docs : CallFits(c)
  BY DEF RunnerInv, ListenerInv, RunnerTypeOK, TypeOK, TurnInv
<1>2. ASSUME NEW c \in Docs, Holds(c) PROVE MayStep(c)
  <2>1. Underway(c)
    BY <1>2, OfType DEF PlaceInv, WalkInv, AtStart, Ended, Holds
  <2>2. walk[c].stage \in 1 .. N \/ walk[c].stage = N + 1
    BY <1>1, StagesAre DEF Walks
  <2>3. walk[c].pc = "stage" => CanCall(c)
    BY <1>1 DEF CallFits
  <2>. QED
    BY <1>1, <1>2, <2>1, <2>2, <2>3, StagesAre DEF Underway, Holds, Suspended, MayStep, AtStage
<1>3. CASE \E c \in Docs : Holds(c)
  BY <1>2, <1>3
<1>4. CASE \A c \in Docs : ~Holds(c)
  <2>1. LoopFree /\ walk[d].pc # "stage" /\ (walk[d].pc = "await" => Suspended(d))
    BY <1>4 DEF LoopFree, Holds
  <2>2. CASE walk[d].pc = "watching"
    BY <1>1, <2>1, <2>2 DEF CallFits, MayStep
  <2>3. CASE walk[d].pc = "await" /\ Runnable(d)
    BY <2>1, <2>3 DEF MayStep
  <2>4. CASE walk[d].pc = "await" /\ ~Runnable(d)
    <3>1. call[d].poll \in Nat /\ call[d].left \in Nat /\ call[d].poll # 0
      BY <1>1, <2>4 DEF Calls, Runnable
    <3>2. call[d].poll <= call[d].left
      BY <1>1, <2>1, <2>4 DEF CallFits
    <3>3. call[d].left > 0
      BY <3>1, <3>2
    <3>. QED
      BY <2>1, <2>4, <3>3 DEF MayElapse
  <2>. QED
    BY <2>1, <2>2, <2>3, <2>4
<1>. QED
  BY <1>3, <1>4

(* No walk hangs: while a test waits for its stages, some coroutine has a    *)
(* step to take or the clock of a wait has time to take off it, whatever the *)
(* listener's tasks do and whoever pytest-timeout left behind on the loop.  *)
THEOREM WalksAreNotStuck == SpecRunner => []WalkIsNotStuck
<1>1. RunnerInv /\ TurnInv => WalkIsNotStuck
  BY SomeTurn DEF WalkIsNotStuck
<1>2. RunnerInv /\ TurnInv /\ [NextRunner]_allVars => TurnInv'
  BY NextKeepsTurn
<1>. QED
  BY <1>1, <1>2, InitTurn, RunnerInvCorrect, PTL DEF SpecRunner
=============================================================================
