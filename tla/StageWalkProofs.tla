--------------------------- MODULE StageWalkProofs ---------------------------
(***************************************************************************)
(* The walker of PipelineRunner, listener and event loop included,          *)
(* implements the walk of StageWalk that the session is built on: every     *)
(* step of it is a step of the walk or a stutter.  Its listener meanwhile   *)
(* implements the feed of EventFeed.                                        *)
(***************************************************************************)
EXTENDS PipelineRunnerProofs, EventFeedProofs

StatusSet == {"PASS", "FAIL", "SKIPPED"}

(* Two sequences with the same elements are the same. *)
LEMMA SameSequence ==
  ASSUME NEW S, NEW s \in Seq(S), NEW t \in Seq(S), Len(s) = Len(t),
         \A i \in 1 .. Len(s) : s[i] = t[i]
  PROVE  s = t
<1>1. DOMAIN s = 1 .. Len(s) /\ s = [i \in 1 .. Len(s) |-> s[i]]
  OBVIOUS
<1>2. DOMAIN t = 1 .. Len(s) /\ t = [i \in 1 .. Len(s) |-> t[i]]
  OBVIOUS
<1>. QED
  BY <1>1, <1>2

(* What StatusRows keeps of a sequence of rows. *)
LEMMA StatusesOfRows ==
  ASSUME NEW s \in Seq(Rows)
  PROVE  LET t == [i \in DOMAIN s |-> s[i].status]
         IN t \in Seq(StatusSet) /\ Len(t) = Len(s) /\ \A i \in 1 .. Len(s) : t[i] = s[i].status
<1>1. DOMAIN s = 1 .. Len(s) /\ Len(s) \in Nat
  OBVIOUS
<1>2. \A i \in DOMAIN s : s[i].status \in StatusSet
  <2>1. ASSUME NEW i \in DOMAIN s PROVE s[i] \in Rows
    OBVIOUS
  <2>. QED
    BY <2>1 DEF Rows, StatusSet
<1>. QED
  BY <1>1, <1>2

LEMMA StatusRowsAre ==
  ASSUME RunnerTypeOK, NEW d \in Docs
  PROVE  /\ StatusRows[d] \in Seq(StatusSet) /\ Len(StatusRows[d]) = Len(rows[d])
         /\ \A i \in 1 .. Len(rows[d]) : StatusRows[d][i] = rows[d][i].status
         /\ DOMAIN StatusRows[d] = 1 .. Len(rows[d]) /\ Len(rows[d]) \in Nat
<1>1. rows[d] \in Seq(Rows)
  BY DEF RunnerTypeOK
<1>2. StatusRows[d] = [i \in DOMAIN rows[d] |-> rows[d][i].status]
  BY DEF StatusRows
<1>. QED
  BY <1>1, <1>2, StatusesOfRows

(* Rows appended to d's trace are statuses written by the walk. *)
LEMMA WritesAre ==
  ASSUME RunnerTypeOK, RunnerTypeOK', NEW d \in Docs, NEW s \in Seq(StatusSet),
         \A c \in Docs \ {d} : rows'[c] = rows[c],
         Len(rows'[d]) = Len(rows[d]) + Len(s),
         \A i \in 1 .. Len(rows[d]) : rows'[d][i].status = rows[d][i].status,
         \A i \in 1 .. Len(s) : rows'[d][Len(rows[d]) + i].status = s[i]
  PROVE  Contract!Write(d, s)
<1> DEFINE before == StatusRows[d]
           after == [i \in DOMAIN rows'[d] |-> rows'[d][i].status]
<1>1. /\ before \in Seq(StatusSet) /\ Len(before) = Len(rows[d])
      /\ \A i \in 1 .. Len(rows[d]) : before[i] = rows[d][i].status
      /\ Len(rows[d]) \in Nat /\ Len(s) \in Nat
  BY StatusRowsAre
<1>2. /\ after \in Seq(StatusSet) /\ Len(after) = Len(rows'[d])
      /\ \A i \in 1 .. Len(rows'[d]) : after[i] = rows'[d][i].status
  <2>1. rows'[d] \in Seq(Rows)
    BY DEF RunnerTypeOK
  <2>. QED
    BY <2>1, StatusesOfRows
<1>3. StatusRows' = [StatusRows EXCEPT ![d] = after]
  BY DEF StatusRows
<1> HIDE DEF before, after
<1>4. after = before \o s
  <2>1. before \o s \in Seq(StatusSet) /\ Len(before \o s) = Len(after)
    BY <1>1, <1>2
  <2>2. ASSUME NEW i \in 1 .. Len(after) PROVE after[i] = (before \o s)[i]
    <3>1. CASE i \in 1 .. Len(rows[d])
      BY <1>1, <1>2, <2>2, <3>1
    <3>2. CASE i \notin 1 .. Len(rows[d])
      <4>1. PICK j \in 1 .. Len(s) : i = Len(rows[d]) + j
        <5>1. i - Len(rows[d]) \in 1 .. Len(s) /\ i = Len(rows[d]) + (i - Len(rows[d]))
          BY <1>1, <1>2, <2>2, <3>2
        <5>. QED
          BY <5>1
      <4>2. (before \o s)[Len(before) + j] = s[j]
        BY <1>1, SMTT(40)
      <4>3. after[i] = s[j]
        BY <1>2, <2>2, <4>1
      <4>. QED
        BY <1>1, <4>1, <4>2, <4>3
    <3>. QED
      BY <3>1, <3>2
  <2>. QED
    BY <1>2, <2>1, <2>2, SameSequence
<1>. QED
  BY <1>3, <1>4 DEF Contract!Write, before

(* A coroutine that has not ended is a walk that goes on, and its rows are  *)
(* all PASS unless a FAILED event was captured.                             *)
LEMMA WalkGoesOn ==
  ASSUME RunnerInv, NEW d \in Docs, AtStart(d) \/ Underway(d)
  PROVE  /\ Contract!Walking(d)
         /\ ~walk[d].aborted => Contract!AllPass(d)
<1>1. /\ RowsInv(d) /\ RunnerTypeOK
      /\ \A i \in 1 .. Len(rows[d]) : StatusRows[d][i] = rows[d][i].status
      /\ DOMAIN StatusRows[d] = 1 .. Len(rows[d]) /\ DOMAIN rows[d] = 1 .. Len(rows[d])
  BY OfType, StatusRowsAre DEF RunnerInv
<1>2. /\ outcome[d] \in {"none", "killed"}
      /\ \A i \in DOMAIN rows[d] : rows[d][i].why \in {"event", "aborted", "failed"}
      /\ ~walk[d].aborted => \A i \in DOMAIN rows[d] : rows[d][i].why = "event"
  BY DEF AtStart, Underway, Undecided
<1>3. \A i \in DOMAIN rows[d] :
        /\ rows[d][i].status # "SKIPPED"
        /\ rows[d][i].why = "event" => rows[d][i].status = "PASS"
  BY <1>1, <1>2 DEF RowsInv, Fitting
<1>. QED
  BY <1>1, <1>2, <1>3 DEF Contract!Walking, Contract!Has, Contract!AllPass

(* The row of one stage is what Pass or Fail writes. *)
LEMMA OneRowIsWritten ==
  ASSUME RunnerInv, RunnerTypeOK', NEW d \in Docs, Underway(d), walk[d].stage <= N,
         NEW st \in {"PASS", "FAIL"}, NEW why \in {"event", "aborted", "failed"},
         rows' = [rows EXCEPT ![d] = OneMore(d, Row(walk[d].stage, st, why))],
         UNCHANGED outcome, st = "PASS" => ~walk[d].aborted
  PROVE  Contract!Pass(d) \/ Contract!Fail(d)
<1> DEFINE row == Row(walk[d].stage, st, why)
<1>1. /\ RunnerTypeOK /\ walk[d].stage \in 1 .. N /\ N \in Nat /\ rows[d] \in Seq(Rows)
      /\ Len(rows[d]) = walk[d].stage - 1 /\ Len(rows[d]) \in Nat
      /\ DOMAIN rows[d] = 1 .. Len(rows[d])
  BY OfType DEF Underway, RunnerInv
<1>2. row \in Rows /\ row.status = st
  BY <1>1 DEF Row, Rows
<1> HIDE DEF row
<1>3. /\ rows'[d] = OneMore(d, row) /\ Len(rows'[d]) = Len(rows[d]) + 1
      /\ \A i \in 1 .. Len(rows[d]) : rows'[d][i] = rows[d][i]
      /\ rows'[d][Len(rows[d]) + 1] = row
      /\ \A c \in Docs \ {d} : rows'[c] = rows[c]
  <2>1. /\ OneMore(d, row) \in Seq(Rows) /\ Len(OneMore(d, row)) = Len(rows[d]) + 1
        /\ \A i \in DOMAIN rows[d] : OneMore(d, row)[i] = rows[d][i]
        /\ OneMore(d, row)[Len(rows[d]) + 1] = row
    BY <1>1, <1>2, OneMoreIs
  <2>2. rows' = [rows EXCEPT ![d] = OneMore(d, row)] /\ rows \in [Docs -> Seq(Rows)]
    BY <1>1 DEF RunnerTypeOK, row
  <2>. QED
    BY <1>1, <2>1, <2>2
<1>4. Contract!Write(d, <<st>>)
  <2>1. <<st>> \in Seq(StatusSet) /\ Len(<<st>>) = 1 /\ <<st>>[1] = st
    BY DEF StatusSet
  <2> DEFINE s == <<st>>
  <2> HIDE DEF s
  <2>2. \A i \in 1 .. Len(s) : i = 1
    BY <2>1 DEF s
  <2>. QED
    <3>1. s \in Seq(StatusSet) /\ Len(s) = 1 /\ s[1] = st
      BY <2>1 DEF s
    <3>2. Len(rows'[d]) = Len(rows[d]) + Len(s)
      BY <1>3, <3>1
    <3>3. \A i \in 1 .. Len(rows[d]) : rows'[d][i].status = rows[d][i].status
      BY <1>3
    <3>4. ASSUME NEW i \in 1 .. Len(s)
          PROVE  rows'[d][Len(rows[d]) + i].status = s[i]
      BY <1>2, <1>3, <2>2, <3>1
    <3>5. Contract!Write(d, s)
      BY <1>1, <1>3, <3>1, <3>2, <3>3, <3>4, WritesAre
    <3>. QED
      BY <3>5 DEF s
<1>5. Contract!Walking(d) /\ (~walk[d].aborted => Contract!AllPass(d))
  BY WalkGoesOn
<1>6. Len(StatusRows[d]) < N
  BY <1>1, StatusRowsAre
<1>. QED
  BY <1>4, <1>5, <1>6 DEF Contract!Pass, Contract!Fail

(* Skipping all stages, and the last row that counts with the rest after it. *)
LEMMA TimesAre ==
  ASSUME NEW st \in StatusSet, NEW n \in Nat
  PROVE  /\ Contract!Times(st, n) \in Seq(StatusSet)
         /\ Len(Contract!Times(st, n)) = n
         /\ \A i \in 1 .. n : Contract!Times(st, n)[i] = st
BY DEF Contract!Times

LEMMA SkipAllIsWritten ==
  ASSUME RunnerInv, RunnerTypeOK', NEW d \in Docs, NoListener(d)
  PROVE  Contract!SkipAll(d)
<1>1. /\ AtStart(d) /\ N \in Nat /\ RunnerTypeOK /\ rows[d] = <<>>
  BY NoListenerRows, OfType DEF AtStart, RunnerInv
<1> DEFINE s == Contract!Times("SKIPPED", N)
<1>2. s \in Seq(StatusSet) /\ Len(s) = N /\ \A i \in 1 .. N : s[i] = "SKIPPED"
  BY <1>1, TimesAre DEF StatusSet
<1>3. /\ Len(rows'[d]) = N
      /\ \A i \in 1 .. N : rows'[d][i].status = "SKIPPED"
      /\ \A c \in Docs \ {d} : rows'[c] = rows[c]
  <2>1. rows' = [rows EXCEPT ![d] = OneForEach(@, 1, "SKIPPED", "unset")]
    BY DEF NoListener
  <2>2. \A c \in Docs \ {d} : rows'[c] = rows[c]
    BY <1>1, <2>1 DEF RunnerTypeOK
  <2>. QED
    BY <2>2, NoListenerRows
<1>4. Contract!Write(d, s)
  <2> HIDE DEF s
  <2>1. Len(rows[d]) = 0
    BY <1>1
  <2>2. Len(rows'[d]) = Len(rows[d]) + Len(s)
    BY <1>1, <1>2, <1>3, <2>1
  <2>3. \A i \in 1 .. Len(s) : rows'[d][Len(rows[d]) + i].status = s[i]
    BY <1>1, <1>2, <1>3, <2>1
  <2>4. \A i \in 1 .. Len(rows[d]) : rows'[d][i].status = rows[d][i].status
    BY <2>1
  <2>. QED
    BY <1>1, <1>2, <1>3, <2>2, <2>3, <2>4, WritesAre
<1>5. Contract!Walking(d) /\ StatusRows[d] = <<>>
  <2>1. StatusRows[d] \in Seq(StatusSet) /\ Len(StatusRows[d]) = 0
    BY <1>1, StatusRowsAre
  <2>. QED
    BY <1>1, <2>1, WalkGoesOn
<1>6. Contract!Decide(d, "skipped")
  BY DEF NoListener, Decide, Contract!Decide
<1>. QED
  BY <1>4, <1>5, <1>6 DEF Contract!SkipAll

LEMMA ForceKillIsWritten ==
  ASSUME RunnerInv, RunnerTypeOK', NEW d \in Docs, ForceKill(d)
  PROVE  Contract!ForceKill(d)
<1> DEFINE n == walk[d].stage
           more == Contract!Times("SKIPPED", N - n)
           s == <<"FAIL">> \o more
<1>1. /\ RunnerTypeOK /\ N \in Nat /\ n \in 1 .. N /\ Len(rows[d]) = n - 1
      /\ Len(rows'[d]) = N /\ rows'[d][n].status = "FAIL"
      /\ \A i \in 1 .. n - 1 : rows'[d][i] = rows[d][i]
      /\ \A i \in n + 1 .. N : rows'[d][i].status = "SKIPPED"
  BY ForceKillRows, StagesAre DEF RunnerInv
<1>2. Contract!Walking(d) /\ Contract!AllPass(d)
  BY ForceKillRows, WalkGoesOn
<1>3. Len(StatusRows[d]) = n - 1
  BY <1>1, StatusRowsAre
<1>4. \A c \in Docs \ {d} : rows'[c] = rows[c]
  BY <1>1 DEF ForceKill, RunnerTypeOK
<1> HIDE DEF n
<1>5. more \in Seq(StatusSet) /\ Len(more) = N - n /\ \A i \in 1 .. N - n : more[i] = "SKIPPED"
  <2>1. N - n \in Nat
    BY <1>1
  <2>. QED
    BY <2>1, TimesAre DEF StatusSet
<1> HIDE DEF more
<1>6. /\ s \in Seq(StatusSet) /\ Len(s) = N - n + 1 /\ s[1] = "FAIL"
      /\ \A i \in 2 .. N - n + 1 : s[i] = "SKIPPED"
  <2>1. <<"FAIL">> \in Seq(StatusSet) /\ Len(<<"FAIL">>) = 1
    BY DEF StatusSet
  <2>2. s \in Seq(StatusSet) /\ Len(s) = N - n + 1 /\ s[1] = "FAIL"
    BY <1>1, <1>5, <2>1
  <2>3. ASSUME NEW i \in 2 .. N - n + 1 PROVE s[i] = "SKIPPED"
    <3>1. i - 1 \in 1 .. N - n /\ s[i] = more[i - 1]
      BY <1>1, <1>5, <2>1
    <3>. QED
      BY <1>5, <3>1
  <2>. QED
    BY <2>2, <2>3
<1>7. Contract!Write(d, s)
  <2> HIDE DEF s
  <2>1. Len(rows'[d]) = Len(rows[d]) + Len(s)
    BY <1>1, <1>6
  <2>2. ASSUME NEW i \in 1 .. Len(s)
        PROVE  rows'[d][Len(rows[d]) + i].status = s[i]
    <3>1. CASE i = 1
      <4>1. Len(rows[d]) + i = n
        BY <1>1, <3>1
      <4>. QED
        BY <1>1, <1>6, <3>1, <4>1
    <3>2. CASE i # 1
      <4>1. Len(rows[d]) + i \in n + 1 .. N /\ i \in 2 .. N - n + 1
        BY <1>1, <1>6, <3>2
      <4>. QED
        BY <1>1, <1>6, <4>1
    <3>. QED
      BY <3>1, <3>2
  <2>3. \A i \in 1 .. Len(rows[d]) : rows'[d][i].status = rows[d][i].status
    BY <1>1
  <2>. QED
    BY <1>1, <1>4, <1>6, <2>1, <2>2, <2>3, WritesAre
<1>8. s = <<"FAIL">> \o Contract!Times("SKIPPED", N - Len(StatusRows[d]) - 1)
  <2>1. N - Len(StatusRows[d]) - 1 = N - n
    BY <1>1, <1>3
  <2>. QED
    BY <2>1 DEF more
<1>9. Contract!Decide(d, "failed") /\ Len(StatusRows[d]) < N
  <2>1. Contract!Decide(d, "failed")
    BY DEF ForceKill, Decide, Contract!Decide
  <2>. QED
    BY <1>1, <1>3, <2>1
<1> HIDE DEF s
<1>. QED
  BY <1>2, <1>7, <1>8, <1>9 DEF Contract!ForceKill

(* The verdict at the end of the walk. *)
LEMMA FinishIsDecided ==
  ASSUME RunnerInv, NEW d \in Docs, Finish(d)
  PROVE  Contract!Finish(d)
<1>1. Underway(d) /\ walk[d].stage = N + 1 /\ N \in Nat /\ RunnerTypeOK
  BY OfType DEF PlaceInv, WalkInv, AtStart, Ended, Finish, RunnerInv
<1>2. Contract!Walking(d) /\ (~walk[d].aborted => Contract!AllPass(d))
  BY <1>1, WalkGoesOn
<1>3. Len(StatusRows[d]) = N
  BY <1>1, StatusRowsAre DEF Underway
<1>4. UNCHANGED StatusRows
  BY DEF Finish, StatusRows
<1>5. CASE HasFailed(d)
  BY <1>2, <1>3, <1>4, <1>5 DEF Finish, Decide, Contract!Decide, Contract!Finish
<1>6. CASE ~HasFailed(d)
  <2>1. ~walk[d].aborted
    BY <1>1, <1>6 DEF Underway
  <2>. QED
    BY <1>2, <1>3, <1>4, <1>6, <2>1 DEF Finish, Decide, Contract!Decide, Contract!Finish
<1>. QED
  BY <1>5, <1>6

(* Every step of the walker's system is a step of the walk or a stutter. *)
LEMMA StepIsWalk ==
  ASSUME RunnerInv, RunnerTypeOK', [NextRunner]_allVars
  PROVE  [Contract!Next]_(Contract!vars)
<1>1. ASSUME UNCHANGED <<rows, outcome>>
      PROVE  [Contract!Next]_(Contract!vars)
  BY <1>1 DEF Contract!vars, StatusRows
<1>2. ASSUME NEW d \in Docs, Contract!Walk(d) \/ Contract!Kill(d)
      PROVE  [Contract!Next]_(Contract!vars)
  BY <1>2 DEF Contract!Next
<1>3. ASSUME NEW d \in Docs, TimeoutKill(d)
      PROVE  Contract!Kill(d)
  BY <1>3 DEF TimeoutKill, InProgress, Contract!Kill, StatusRows
<1>4. ASSUME NEW d \in Docs, NoListener(d) \/ ForceKill(d) \/ Finish(d)
      PROVE  Contract!Walk(d)
  BY <1>4, SkipAllIsWritten, ForceKillIsWritten, FinishIsDecided DEF Contract!Walk
<1>5. ASSUME NEW d \in Docs, StageAborted(d) \/ StagePassed(d) \/ StageFailed(d)
      PROVE  Contract!Walk(d)
  <2>1. Underway(d) /\ walk[d].stage <= N
    <3>1. Underway(d)
      BY <1>5, OfType DEF PlaceInv, WalkInv, AtStart, Ended, StageAborted, AtStage,
                          StagePassed, StageFailed
    <3>. QED
      BY <1>5, <3>1 DEF Underway, StageAborted, AtStage, StagePassed, StageFailed
  <2>2. StagePassed(d) => ~walk[d].aborted
    BY <2>1 DEF StagePassed, Underway
  <2>3. Contract!Pass(d) \/ Contract!Fail(d)
    <3>1. CASE StageAborted(d)
      BY <2>1, <3>1, OneRowIsWritten DEF StageAborted
    <3>2. CASE StagePassed(d)
      BY <2>1, <2>2, <3>2, OneRowIsWritten DEF StagePassed
    <3>3. CASE StageFailed(d)
      BY <2>1, <3>3, OneRowIsWritten DEF StageFailed
    <3>. QED
      BY <1>5, <3>1, <3>2, <3>3
  <2>. QED
    BY <2>3 DEF Contract!Walk
<1>6. ASSUME NEW d \in Docs, StartTest(d) \/ EnterCold(d) \/ EnterWarm(d) \/ Watched(d)
                             \/ StageWait(d) \/ StageResume(d)
      PROVE  UNCHANGED <<rows, outcome>>
  BY <1>6 DEF StartTest, EnterCold, EnterWarm, Watched, StageWait, StageResume, runner
<1>7. CASE \/ \E p \in Partitions : Receive(p) \/ (\E e \in Emittable : Produce(p, e))
           \/ Elapsed
           \/ UNCHANGED allVars
  BY <1>1, <1>7 DEF Receive, Produce, Elapsed, runner, allVars
<1>. QED
  BY <1>1, <1>2, <1>3, <1>4, <1>5, <1>6, <1>7 DEF NextRunner, Walker

LEMMA InitIsWalk == InitRunner => Contract!Init
<1> SUFFICES ASSUME InitRunner PROVE Contract!Init
  OBVIOUS
<1>1. RunnerTypeOK
  BY InitRunnerInv DEF RunnerInv
<1>2. ASSUME NEW d \in Docs PROVE StatusRows[d] = <<>>
  <2>1. StatusRows[d] \in Seq(StatusSet) /\ Len(StatusRows[d]) = Len(rows[d])
    BY <1>1, StatusRowsAre
  <2>2. rows[d] = <<>>
    BY DEF InitRunner
  <2>. QED
    BY <2>1, <2>2
<1>3. StatusRows = [d \in Docs |-> <<>>]
  <2>1. StatusRows = [d \in Docs |-> StatusRows[d]]
    BY DEF StatusRows
  <2>. QED
    BY <1>2, <2>1
<1>. QED
  BY <1>3 DEF InitRunner, Contract!Init

(* The walker, whatever the listener, the producers and pytest-timeout do,  *)
(* implements the walk the session relies on.                               *)
THEOREM RunnerImplementsWalk == SpecRunner => ImplementsWalk
<1>1. RunnerInv /\ RunnerInv' /\ [NextRunner]_allVars => [Contract!Next]_(Contract!vars)
  BY StepIsWalk DEF RunnerInv
<1>. QED
  BY <1>1, InitIsWalk, RunnerInvCorrect, PTL DEF SpecRunner, ImplementsWalk, Contract!Spec
-----------------------------------------------------------------------------
(* The walker's listener is still the feed of EventFeed *)

LEMMA WalkerKeepsMapping ==
  ASSUME RunnerInv, MappingInv, [NextRunner]_allVars
  PROVE  MappingInv' /\ [Feed!Next]_(Feed!vars)
<1>1. ListenerInv /\ TypeOK /\ ListenerInv' /\ TypeOK'
  BY HubStep DEF RunnerInv, ListenerInv
<1>2. ASSUME [Next]_vars PROVE MappingInv' /\ [Feed!Next]_(Feed!vars)
  BY <1>1, <1>2, StepMapping, StepRefines
<1>3. ASSUME NEW d \in Docs, NoListener(d) \/ StageAborted(d) \/ StagePassed(d)
                             \/ StageFailed(d) \/ ForceKill(d) \/ Finish(d)
                             \/ StartTest(d) \/ TimeoutKill(d)
      PROVE  UNCHANGED vars
  BY <1>3 DEF NoListener, StageAborted, StagePassed, StageFailed, ForceKill, Finish,
              StartTest, TimeoutKill, vars
<1>4. ASSUME NEW d \in Docs, WatchCold(d) \/ WatchWarm(d) \/ WarmupOver(d) \/ Resume(d)
      PROVE  Next
  BY <1>4 DEF Next, Client, Listener
<1>5. ASSUME NEW d \in Docs, StageWait(d)
      PROVE  MappingInv' /\ [Feed!Next]_(Feed!vars)
  <2>1. walk[d].stage \in 1 .. N
    BY <1>5, StagesAre DEF StageWait, AtStage, RunnerInv, RunnerTypeOK, Walks
  <2>2. StageKey(walk[d].stage) \in Keys /\ StageBudget \in Nat
    BY <2>1, StagesAre
  <2>3. Wait(d, StageKey(walk[d].stage), StageBudget)
    BY <1>5 DEF StageWait
  <2>4. MappingInv'
    BY <1>1, <2>2, <2>3, WaitMapping
  <2>5. Feed!Ask(d, StageKey(walk[d].stage))
    BY <1>1, <2>2, <2>3, WaitRefines
  <2>. QED
    BY <2>2, <2>4, <2>5 DEF Feed!Next
<1>6. ASSUME NEW p \in Partitions, Receive(p) \/ (\E e \in Emittable : Produce(p, e))
      PROVE  Next
  BY <1>6 DEF Receive, Produce, Next, Azure, Listener
<1>7. ASSUME Elapsed
      PROVE  MappingInv' /\ [Feed!Next]_(Feed!vars)
  BY <1>1, <1>7, LaterMapping, LaterRefines DEF Elapsed
<1>8. ASSUME NEW d \in Docs, Walker(d)
      PROVE  MappingInv' /\ [Feed!Next]_(Feed!vars)
  BY <1>2, <1>3, <1>4, <1>5, <1>8 DEF Walker, EnterCold, EnterWarm, Watched, StageResume
<1>9. CASE UNCHANGED allVars
  BY <1>2, <1>9 DEF allVars, vars
<1>. QED
  BY <1>2, <1>3, <1>6, <1>7, <1>8, <1>9 DEF NextRunner

(* The two abstractions compose: in the sessions that implement the walk the *)
(* listener implements the feed, although the walker's waits last StageBudget *)
(* and the clock also runs for pytest-timeout.                              *)
THEOREM WalkerHasFeed == SpecRunner => Feed!SafeSpec
<1>1. InitRunner => MappingInv /\ Feed!Init
  BY InitMapping, InitRefines DEF InitRunner
<1>2. RunnerInv /\ MappingInv /\ [NextRunner]_allVars => MappingInv' /\ [Feed!Next]_(Feed!vars)
  BY WalkerKeepsMapping
<1>. QED
  BY <1>1, <1>2, RunnerInvCorrect, PTL DEF SpecRunner, Feed!SafeSpec
=============================================================================
