-------------------------- MODULE PublicationProofs ---------------------------
(***************************************************************************)
(* Proofs about what Publication publishes: its flow graphs, its lights and *)
(* whom its parts accuse, for any selection of the tests, any number of     *)
(* stages and any services of theirs.                                      *)
(***************************************************************************)
EXTENDS Publication, SessionProofs, Counting

(* A SKIPPED row next to a PASS row comes after the FAIL row that explains   *)
(* it: a walk skips either every stage or those behind a failed one.        *)
StoryInv ==
  \A t \in Tests : W!Has(t, "PASS") /\ W!Has(t, "SKIPPED") => W!Has(t, "FAIL")

(* What is where in a concatenation. *)
LEMMA ConcatenationIs ==
  ASSUME NEW S, NEW a \in Seq(S), NEW b \in Seq(S)
  PROVE  /\ Len(a) \in Nat /\ Len(b) \in Nat
         /\ DOMAIN (a \o b) = 1 .. Len(a) + Len(b)
         /\ DOMAIN a = 1 .. Len(a) /\ DOMAIN b = 1 .. Len(b)
         /\ \A i \in DOMAIN a : i \in DOMAIN (a \o b) /\ (a \o b)[i] = a[i]
         /\ \A i \in DOMAIN b : /\ Len(a) + i \in DOMAIN (a \o b)
                               /\ (a \o b)[Len(a) + i] = b[i]
         /\ \A i \in DOMAIN (a \o b) : (a \o b)[i] \in S
OBVIOUS

(* A row that WalkOn appends. *)
LEMMA AppendedRow ==
  ASSUME SessionTypeOK, NEW t \in Tests, NEW st \in {"PASS", "FAIL"}, W!Write(t, <<st>>)
  PROVE  /\ W!Has(t, st)' /\ (st = "PASS" => (W!Has(t, "SKIPPED")' => W!Has(t, "SKIPPED")))
         /\ \A u \in Tests \ {t} : rows'[u] = rows[u]
<1>1. /\ rows[t] \in Seq({"PASS", "FAIL", "SKIPPED"}) /\ rows' = [rows EXCEPT ![t] = rows[t] \o <<st>>]
      /\ rows \in [Tests -> Seq({"PASS", "FAIL", "SKIPPED"})]
  BY DEF SessionTypeOK, W!Write
<1>2. rows'[t] = rows[t] \o <<st>> /\ \A u \in Tests \ {t} : rows'[u] = rows[u]
  BY <1>1
<1>3. /\ DOMAIN rows'[t] = 1 .. Len(rows[t]) + 1
      /\ DOMAIN rows[t] = 1 .. Len(rows[t]) /\ Len(rows[t]) \in Nat
      /\ rows'[t][Len(rows[t]) + 1] = st
      /\ \A i \in 1 .. Len(rows[t]) : rows'[t][i] = rows[t][i]
  BY <1>1, <1>2
<1>4. W!Has(t, st)'
  BY <1>3 DEF W!Has
<1>5. st = "PASS" => (W!Has(t, "SKIPPED")' => W!Has(t, "SKIPPED"))
  BY <1>3 DEF W!Has
<1>. QED
  BY <1>2, <1>4, <1>5

(* Rows that are written onto an empty list are all there is. *)
LEMMA SkippedRows ==
  ASSUME SessionTypeOK, NEW t \in Tests, rows[t] = <<>>, W!Write(t, W!Times("SKIPPED", N))
  PROVE  ~W!Has(t, "PASS")' /\ \A u \in Tests \ {t} : rows'[u] = rows[u]
<1>1. W!Times("SKIPPED", N) \in Seq({"SKIPPED"})
  BY TestsAre, TimesIs
<1>2. rows'[t] = W!Times("SKIPPED", N) /\ \A u \in Tests \ {t} : rows'[u] = rows[u]
  BY <1>1 DEF SessionTypeOK, W!Write
<1>. QED
  BY <1>2 DEF W!Has, W!Times

(* The rows of a force-killed walk begin with its FAIL. *)
LEMMA ForcedRows ==
  ASSUME SessionTypeOK, NEW t \in Tests, W!ForceKill(t)
  PROVE  W!Has(t, "FAIL")' /\ \A u \in Tests \ {t} : rows'[u] = rows[u]
<1> DEFINE tail == W!Times("SKIPPED", N - Len(rows[t]) - 1)
<1>1. rows[t] \in Seq({"PASS", "FAIL", "SKIPPED"}) /\ Len(rows[t]) \in Nat /\ Len(rows[t]) < N
  BY DEF SessionTypeOK, W!ForceKill
<1>2. tail \in Seq({"SKIPPED"})
  <2>1. N - Len(rows[t]) - 1 \in Nat
    BY <1>1, TestsAre
  <2>. QED
    BY <2>1, TimesIs
<1>3. rows'[t] = rows[t] \o (<<"FAIL">> \o tail) /\ \A u \in Tests \ {t} : rows'[u] = rows[u]
  BY DEF SessionTypeOK, W!ForceKill, W!Write
<1>. HIDE DEF tail
<1> DEFINE old == rows[t]
           more == <<"FAIL">> \o tail
<1>4. /\ old \in Seq({"PASS", "FAIL", "SKIPPED"}) /\ rows'[t] = old \o more
      /\ more \in Seq({"PASS", "FAIL", "SKIPPED"}) /\ 1 \in DOMAIN more /\ more[1] = "FAIL"
  BY <1>1, <1>2, <1>3
<1>. HIDE DEF old, more
<1>5. Len(old) + 1 \in DOMAIN (old \o more) /\ (old \o more)[Len(old) + 1] = "FAIL"
  BY <1>4, ConcatenationIs
<1>6. \E i \in DOMAIN rows'[t] : rows'[t][i] = "FAIL"
  BY <1>4, <1>5
<1>. QED
  BY <1>3, <1>6 DEF W!Has

LEMMA InitStory == Init => StoryInv
BY DEF Init, W!Init, StoryInv, W!Has

(* Only the walk and a failed upload call write stage rows. *)
LEMMA WorkKeepsRows ==
  ASSUME NEW t, Work(t)
  PROVE  rows' = rows \/ LegFails(t) \/ WalkOn(t) \/ WalkEnds(t)
BY DEF Work, Begin, BeginUnauthorised, PlainSetup, StoreSource, MintSas, SourceFails, LogIn,
       LogInFails, LogInBreaks, FirstLegDone, FirstLegFails, LegDone, DriveLegDone

LEMMA StoryOfOne ==
  ASSUME StoryInv, NEW t \in Tests, \A u \in Tests \ {t} : rows'[u] = rows[u],
         W!Has(t, "PASS")' /\ W!Has(t, "SKIPPED")' => W!Has(t, "FAIL")'
  PROVE  StoryInv'
BY DEF StoryInv, W!Has

LEMMA StepStory == SessionInv /\ StoryInv /\ [Next]_vars => StoryInv'
<1>. SUFFICES ASSUME SessionInv, StoryInv, [Next]_vars PROVE StoryInv'
  OBVIOUS
<1>1. CASE rows' = rows
  BY <1>1 DEF StoryInv, W!Has
<1>2. ASSUME NEW t \in Tests, LegFails(t) PROVE StoryInv'
  <2>1. rows[t] = <<>> /\ W!Write(t, W!Times("SKIPPED", N)) /\ SessionTypeOK
    BY <1>2 DEF LegFails, Raised, Calling, SessionInv, InPhase, Halfway
  <2>. QED
    BY <2>1, SkippedRows, StoryOfOne
<1>3. ASSUME NEW t \in Tests, WalkOn(t) PROVE StoryInv'
  <2>1. /\ SessionTypeOK /\ ~W!Has(t, "SKIPPED")
        /\ W!Write(t, <<"PASS">>) \/ W!Write(t, <<"FAIL">>)
    BY <1>3 DEF WalkOn, W!Pass, W!Fail, W!Walking, SessionInv
  <2>. QED
    BY <2>1, AppendedRow, StoryOfOne
<1>4. ASSUME NEW t \in Tests, WalkEnds(t) PROVE StoryInv'
  <2>0. SessionTypeOK
    BY DEF SessionInv
  <2>1. CASE W!ForceKill(t)
    BY <2>0, <2>1, ForcedRows, StoryOfOne
  <2>2. CASE W!Finish(t)
    BY <1>1, <2>2 DEF W!Finish
  <2>3. CASE W!SkipAll(t)
    BY <2>0, <2>3, SkippedRows, StoryOfOne DEF W!SkipAll
  <2>. QED
    BY <1>4, <2>1, <2>2, <2>3 DEF WalkEnds
<1>5. \/ rows' = rows
      \/ \E t \in Tests : LegFails(t) \/ WalkOn(t) \/ WalkEnds(t)
  BY WorkKeepsRows DEF Next, TokenExpires, DeleteSource, Save, TimeoutKill, W!Kill, vars
<1>. QED
  BY <1>1, <1>2, <1>3, <1>4, <1>5
-----------------------------------------------------------------------------
(* The steps of a trace *)

Uploads(t) == Len(uploads[t])

Stages(t) == Len(rows[t])

(* A row of the document is a step of its trace, uploads first. *)
LEMMA StepsAre ==
  ASSUME SessionTypeOK, NEW t \in Tests
  PROVE  /\ Uploads(t) \in Nat /\ Stages(t) \in Nat /\ Stages(t) <= N
         /\ DOMAIN Steps(t) = 1 .. Uploads(t) + Stages(t)
         /\ DOMAIN uploads[t] = 1 .. Uploads(t) /\ DOMAIN rows[t] = 1 .. Stages(t)
         /\ \A i \in DOMAIN uploads[t] : i \in DOMAIN Steps(t) /\ Steps(t)[i] = uploads[t][i]
         /\ \A i \in DOMAIN rows[t] : /\ Uploads(t) + i \in DOMAIN Steps(t)
                                      /\ Steps(t)[Uploads(t) + i] = rows[t][i]
         /\ \A i \in DOMAIN Steps(t) : Steps(t)[i] \in {"PASS", "FAIL", "SKIPPED"}
<1>1. uploads[t] \in Seq({"PASS", "FAIL"}) /\ rows[t] \in Seq({"PASS", "FAIL", "SKIPPED"})
      /\ Len(rows[t]) <= N
  BY DEF SessionTypeOK
<1> DEFINE u == uploads[t]
           r == rows[t]
<1>2. u \in Seq({"PASS", "FAIL", "SKIPPED"}) /\ r \in Seq({"PASS", "FAIL", "SKIPPED"}) /\ Len(r) <= N
  BY <1>1
<1>3. Steps(t) = u \o r
  BY DEF Steps
<1>. HIDE DEF u, r
<1>4. /\ Len(u) \in Nat /\ Len(r) \in Nat /\ Len(r) <= N
      /\ DOMAIN Steps(t) = 1 .. Len(u) + Len(r)
      /\ DOMAIN u = 1 .. Len(u) /\ DOMAIN r = 1 .. Len(r)
      /\ \A i \in DOMAIN u : i \in DOMAIN Steps(t) /\ Steps(t)[i] = u[i]
      /\ \A i \in DOMAIN r : Len(u) + i \in DOMAIN Steps(t) /\ Steps(t)[Len(u) + i] = r[i]
      /\ \A i \in DOMAIN Steps(t) : Steps(t)[i] \in {"PASS", "FAIL", "SKIPPED"}
  BY <1>2, <1>3, ConcatenationIs
<1>. QED
  BY <1>4 DEF u, r, Uploads, Stages

(* And a step is a row of the one kind or the other. *)
LEMMA StepIsRow ==
  ASSUME SessionTypeOK, NEW t \in Tests, NEW i \in DOMAIN Steps(t)
  PROVE  \/ i <= Uploads(t) /\ i \in DOMAIN uploads[t] /\ Steps(t)[i] = uploads[t][i]
         \/ /\ i > Uploads(t) /\ i - Uploads(t) \in DOMAIN rows[t]
            /\ i - Uploads(t) \in 1 .. N
            /\ Steps(t)[i] = rows[t][i - Uploads(t)]
<1> DEFINE a == Uploads(t)
           b == Stages(t)
<1>1. /\ a \in Nat /\ b \in Nat /\ b <= N /\ N \in Nat /\ i \in 1 .. a + b
      /\ DOMAIN uploads[t] = 1 .. a /\ DOMAIN rows[t] = 1 .. b
      /\ \A j \in 1 .. a : Steps(t)[j] = uploads[t][j]
      /\ \A j \in 1 .. b : Steps(t)[a + j] = rows[t][j]
  BY StepsAre, TestsAre
<1>. HIDE DEF a, b
<1>2. CASE i > a
  <2>1. i - a \in 1 .. b /\ i - a \in 1 .. N /\ a + (i - a) = i
    BY <1>1, <1>2
  <2>2. Steps(t)[i] = rows[t][i - a]
    BY <1>1, <2>1
  <2>. QED
    BY <1>1, <1>2, <2>1, <2>2 DEF a
<1>3. CASE ~(i > a)
  <2>1. i <= a /\ i \in 1 .. a
    BY <1>1, <1>3
  <2>. QED
    BY <1>1, <2>1 DEF a
<1>. QED
  BY <1>2, <1>3

(* The nodes of the graph. *)
LEMMA NodesAre ==
  /\ DOMAIN FlowStages = 1 .. 3
  /\ FlowStages[1] = {"File Ingestion Service", "UI / Drive"}
  /\ FlowStages[2] = {"OCR Service"}
  /\ FlowStages[3] = {"Auto Extraction Service", "Extraction Service"}
BY DEF FlowStages

LEMMA EachHasNode ==
  \A v \in {"File Ingestion Service", "OCR Service", "Auto Extraction Service"} :
    v # "Azure Blob" /\ \E k \in DOMAIN FlowStages : v \in FlowStages[k]
<1>0. DOMAIN FlowStages = 1 .. 3
  BY NodesAre
<1>1. 1 \in DOMAIN FlowStages /\ 2 \in DOMAIN FlowStages /\ 3 \in DOMAIN FlowStages
  BY <1>0
<1>2. /\ "File Ingestion Service" \in FlowStages[1]
      /\ "OCR Service" \in FlowStages[2]
      /\ "Auto Extraction Service" \in FlowStages[3]
  BY NodesAre
<1>3. "File Ingestion Service" # "Azure Blob" /\ "OCR Service" # "Azure Blob"
      /\ "Auto Extraction Service" # "Azure Blob"
  OBVIOUS
<1>. QED
  BY <1>1, <1>2, <1>3, Zenon

LEMMA GraphIs == \A t : DOMAIN FlowGraph(t) = 1 .. 3
BY NodesAre DEF FlowGraph

(* A status of the document is that of one of its steps. *)
LEMMA StatusHasStep ==
  ASSUME SessionTypeOK, NEW t \in Tests, NEW s \in StatusesOf(t)
  PROVE  \E j \in DOMAIN Steps(t) : Steps(t)[j] = s
<1>1. CASE \E i \in DOMAIN uploads[t] : uploads[t][i] = s
  <2>1. PICK i \in DOMAIN uploads[t] : uploads[t][i] = s
    BY <1>1
  <2>2. i \in DOMAIN Steps(t) /\ Steps(t)[i] = s
    BY <2>1, StepsAre
  <2>. QED
    BY <2>2
<1>2. CASE \E i \in DOMAIN rows[t] : rows[t][i] = s
  <2>1. PICK i \in DOMAIN rows[t] : rows[t][i] = s
    BY <1>2
  <2>2. Uploads(t) + i \in DOMAIN Steps(t) /\ Steps(t)[Uploads(t) + i] = s
    BY <2>1, StepsAre
  <2>. QED
    BY <2>2
<1>. QED
  BY <1>1, <1>2 DEF StatusesOf

(* Every step but the blob PUT belongs to a node of the graph. *)
LEMMA ServicesHaveNodes ==
  ASSUME SessionTypeOK, NEW t \in Tests, NEW i \in DOMAIN Steps(t)
  PROVE  \/ Service(t, i) = "Azure Blob" /\ t = "presigned" /\ i = 2 /\ i <= Uploads(t)
         \/ Service(t, i) # "Azure Blob" /\ \E k \in DOMAIN FlowStages : Service(t, i) \in FlowStages[k]
<1>1. CASE i > Uploads(t) /\ i - Uploads(t) \in 1 .. N
  <2>1. StageService[i - Uploads(t)] \in
          {"File Ingestion Service", "OCR Service", "Auto Extraction Service"}
    BY <1>1, PublicationAssumption
  <2>2. Service(t, i) = StageService[i - Uploads(t)]
    BY <1>1 DEF Service, Uploads
  <2>. QED
    BY <2>1, <2>2, EachHasNode
<1>2. CASE i <= Uploads(t) /\ ~(i > Uploads(t))
  <2>1. CASE t = "presigned" /\ i = 2
    BY <1>2, <2>1 DEF Service, Uploads
  <2>2. CASE ~(t = "presigned" /\ i = 2)
    <3>1. Service(t, i) = "File Ingestion Service"
      BY <1>2, <2>2 DEF Service, Uploads
    <3>. QED
      BY <3>1, EachHasNode
  <2>. QED
    BY <2>1, <2>2
<1>3. i \in Int /\ Uploads(t) \in Int
  BY StepsAre
<1>4. \/ i > Uploads(t) /\ i - Uploads(t) \in 1 .. N
      \/ i <= Uploads(t) /\ ~(i > Uploads(t))
  BY <1>3, StepIsRow
<1>. QED
  BY <1>1, <1>2, <1>4

(* A node is red exactly if one of its steps is, and green only if one is. *)
LEMMA NodeIs ==
  ASSUME SessionTypeOK, NEW t \in Tests, NEW k \in DOMAIN FlowStages
  PROVE  /\ (\E i \in DOMAIN Steps(t) : Service(t, i) \in FlowStages[k] /\ Steps(t)[i] = "FAIL")
              => FlowGraph(t)[k] = "FAIL"
         /\ FlowGraph(t)[k] = "PASS" =>
              \E i \in DOMAIN Steps(t) : Service(t, i) \in FlowStages[k] /\ Steps(t)[i] = "PASS"
<1> DEFINE I == {j \in DOMAIN Steps(t) : Service(t, j) \in FlowStages[k]}
           S == {Steps(t)[i] : i \in I}
<1>1. FlowGraph(t)[k] = AggregateStatus(S)
  BY DEF FlowGraph
<1>2. S \subseteq {"PASS", "FAIL", "SKIPPED"}
  BY StepsAre
<1>3. "FAIL" \in S => AggregateStatus(S) = "FAIL"
  BY DEF AggregateStatus
<1>4. AggregateStatus(S) = "PASS" => "PASS" \in S
  <2>. SUFFICES ASSUME AggregateStatus(S) = "PASS" PROVE "PASS" \in S
    OBVIOUS
  <2>. HIDE DEF S
  <2>1. S # {} /\ "FAIL" \notin S /\ S # {"SKIPPED"}
    BY DEF AggregateStatus
  <2>. QED
    BY <1>2, <2>1
<1>. QED
  BY <1>1, <1>3, <1>4

(* The first failing step is one that failed, if any did. *)
LEMMA FirstFailingIs ==
  ASSUME SessionTypeOK, NEW t \in Tests, NEW i \in DOMAIN Steps(t), Steps(t)[i] = "FAIL",
         \A j \in DOMAIN Steps(t) : Steps(t)[j] = "FAIL" => j = i
  PROVE  FirstFailing(t) = i
<1>1. {j \in 1 .. Len(Steps(t)) : Steps(t)[j] = "FAIL"} = {i} /\ i \in Nat
  <2>1. DOMAIN Steps(t) = 1 .. Len(Steps(t)) /\ i \in Nat
    BY StepsAre DEF Steps, SessionTypeOK
  <2>. QED
    BY <2>1
<1>2. Min({i}) = i
  BY <1>1 DEF Min
<1>. QED
  BY <1>1, <1>2 DEF FirstFailing, SelectInSeq

(* Only the presigned test PUTs a blob, so its bar counts that step alone. *)
LEMMA BlobBarIs ==
  ASSUME SessionTypeOK, "presigned" \in Documents, 2 \in DOMAIN Steps("presigned"),
         Steps("presigned")[2] = "FAIL", Service("presigned", 2) = "Azure Blob",
         Documents \subseteq Tests
  PROVE  Bar("Azure Blob", "FAIL") = 1
<1> DEFINE B == {s \in AllSteps : Steps(s[1])[s[2]] = "FAIL" /\ Service(s[1], s[2]) = "Azure Blob"}
<1>1. ASSUME NEW s \in B PROVE s = <<"presigned", 2>>
  <2>0. PICK t \in Documents : s \in {<<t, j>> : j \in DOMAIN Steps(t)}
    BY DEF AllSteps
  <2>1. PICK i \in DOMAIN Steps(t) : s = <<t, i>>
    BY <2>0
  <2>3. s[1] = t /\ s[2] = i /\ Service(s[1], s[2]) = "Azure Blob"
    BY <1>1, <2>1
  <2>2. t = "presigned" /\ i = 2
    BY <2>1, <2>3, ServicesHaveNodes
  <2>. QED
    BY <2>1, <2>2
<1>2. <<"presigned", 2>> \in B
  <2>1. <<"presigned", 2>> \in {<<"presigned", i>> : i \in DOMAIN Steps("presigned")}
    OBVIOUS
  <2>2. <<"presigned", 2>> \in AllSteps
    BY <2>1 DEF AllSteps
  <2>. QED
    BY <2>2
<1>3. B = {<<"presigned", 2>>}
  BY <1>1, <1>2
<1>. QED
  BY <1>3, FS_Singleton DEF Bar
-----------------------------------------------------------------------------
(* The theorem *)

(* A graph that is green all over is one of a document whose rows are all    *)
(* PASS: its OCR node has a PASS, so the walk did pass a stage, and whatever *)
(* it skipped later is behind a FAIL that makes a node red.                  *)
LEMMA GreenGraph ==
  ASSUME SessionInv, StoryInv, NEW t \in Tests,
         \A k \in DOMAIN FlowGraph(t) : FlowGraph(t)[k] = "PASS"
  PROVE  Light(t) = "pass"
<1>0. SessionTypeOK
  BY DEF SessionInv
<1>1. PICK i \in DOMAIN Steps(t) : Service(t, i) = "OCR Service" /\ Steps(t)[i] = "PASS"
  <2>0. DOMAIN FlowStages = 1 .. 3 /\ DOMAIN FlowGraph(t) = 1 .. 3 /\ 2 \in 1 .. 3
    <3>1. DOMAIN FlowStages = 1 .. 3
      BY NodesAre
    <3>2. DOMAIN FlowGraph(t) = 1 .. 3
      BY GraphIs
    <3>. QED
      BY <3>1, <3>2
  <2>1. 2 \in DOMAIN FlowStages /\ FlowGraph(t)[2] = "PASS" /\ FlowStages[2] = {"OCR Service"}
    BY <2>0, NodesAre
  <2>. QED
    BY <1>0, <2>1, NodeIs
<1>2. W!Has(t, "PASS")
  <2>1. i > Uploads(t)
    BY <1>1 DEF Service, Uploads
  <2>2. ~(i <= Uploads(t))
    BY <1>0, <2>1, StepsAre
  <2>. QED
    BY <1>0, <1>1, <2>2, StepIsRow DEF W!Has
<1>3. ~FailedUpload(t)
  <2>1. FailedUpload(t) => rows[t] = W!Times("SKIPPED", N)
    <3>1. InPhase(t) /\ pc[t] \in Places
      BY DEF SessionInv, SessionTypeOK, Places
    <3>. QED
      BY <1>0, <3>1, StepsAre DEF InPhase, Idle, Halfway, Started, Fits, FailedUpload, AllAre, Places
  <2>. QED
    BY <1>2, <2>1 DEF W!Has, W!Times
<1>4. ASSUME W!Has(t, "FAIL") PROVE FALSE
  <2>1. PICK j \in DOMAIN rows[t] : rows[t][j] = "FAIL"
    BY <1>4 DEF W!Has
  <2>2. /\ Uploads(t) + j \in DOMAIN Steps(t) /\ Steps(t)[Uploads(t) + j] = "FAIL"
        /\ ~(Uploads(t) + j <= Uploads(t))
    BY <1>0, <2>1, StepsAre
  <2>3. PICK k \in DOMAIN FlowStages : Service(t, Uploads(t) + j) \in FlowStages[k]
    BY <1>0, <2>2, ServicesHaveNodes
  <2>4. FlowGraph(t)[k] = "FAIL"
    BY <1>0, <2>2, <2>3, NodeIs
  <2>. QED
    BY <2>3, <2>4, NodesAre, GraphIs
<1>5. StatusesOf(t) = {"PASS"}
  <2>1. \A s \in StatusesOf(t) : s = "PASS"
    <3>1. \A j \in DOMAIN uploads[t] : uploads[t][j] \in {"PASS", "FAIL"}
      BY <1>0 DEF SessionTypeOK
    <3>2. \A j \in DOMAIN uploads[t] : uploads[t][j] = "PASS"
      BY <1>3, <3>1 DEF FailedUpload
    <3>3. \A j \in DOMAIN rows[t] : rows[t][j] \in {"PASS", "FAIL", "SKIPPED"}
      BY <1>0 DEF SessionTypeOK
    <3>4. \A j \in DOMAIN rows[t] : rows[t][j] = "PASS"
      BY <1>2, <1>4, <3>3 DEF StoryInv, W!Has
    <3>. QED
      BY <3>2, <3>4 DEF StatusesOf
  <2>2. "PASS" \in StatusesOf(t)
    BY <1>2 DEF W!Has, StatusesOf
  <2>. QED
    BY <2>1, <2>2
<1>. QED
  BY <1>5 DEF Light, ScenarioStatus

(* A FAIL row without a red node is the blob PUT. *)
LEMMA RedPanel ==
  ASSUME SessionInv, NEW t \in Documents, Documents \subseteq Tests, "FAIL" \in StatusesOf(t)
  PROVE  \/ \E k \in DOMAIN FlowGraph(t) : FlowGraph(t)[k] = "FAIL"
         \/ Service(t, FirstFailing(t)) = "Azure Blob" /\ Bar("Azure Blob", "FAIL") = 1
<1>0. SessionTypeOK /\ DOMAIN FlowGraph(t) = DOMAIN FlowStages /\ t \in Tests
  BY GraphIs, NodesAre DEF SessionInv
<1>1. CASE \E i \in DOMAIN Steps(t) : Steps(t)[i] = "FAIL" /\ Service(t, i) # "Azure Blob"
  <2>1. PICK i \in DOMAIN Steps(t) : Steps(t)[i] = "FAIL" /\ Service(t, i) # "Azure Blob"
    BY <1>1
  <2>2. PICK k \in DOMAIN FlowStages : Service(t, i) \in FlowStages[k]
    BY <1>0, <2>1, ServicesHaveNodes
  <2>. QED
    BY <1>0, <2>1, <2>2, NodeIs
<1>2. CASE \A i \in DOMAIN Steps(t) : Steps(t)[i] = "FAIL" => Service(t, i) = "Azure Blob"
  <2>1. \A i \in DOMAIN Steps(t) : Steps(t)[i] = "FAIL" => t = "presigned" /\ i = 2
    BY <1>0, <1>2, ServicesHaveNodes
  <2>2. PICK i \in DOMAIN Steps(t) : Steps(t)[i] = "FAIL"
    BY <1>0, StatusHasStep
  <2>3. FirstFailing(t) = i
    BY <1>0, <2>1, <2>2, FirstFailingIs
  <2>. QED
    BY <1>0, <1>2, <2>1, <2>2, <2>3, BlobBarIs
<1>. QED
  BY <1>1, <1>2

(* The flow graph of a document is green all over only if every row is       *)
(* PASS, and lacks a red node for a FAIL row only if that is the blob PUT    *)
(* (_doc_flow_graph_html has no node for its service).                      *)
THEOREM GraphsAreExplained == Spec => []GraphIsExplained
<1>1. Spec => [](SessionInv /\ StoryInv)
  BY SessionInvCorrect, InitStory, StepStory, PTL DEF Spec
<1>2. ASSUME SessionInv, StoryInv, NEW i \in DOMAIN documents
      PROVE  LET panel == HtmlPage.panels[i] IN
               /\ (\A k \in DOMAIN panel.graph : panel.graph[k] = "PASS") => Light(panel.about) = "pass"
               /\ panel.status = "FAIL" =>
                    \/ \E k \in DOMAIN panel.graph : panel.graph[k] = "FAIL"
                    \/ /\ Service(panel.about, FirstFailing(panel.about)) = "Azure Blob"
                       /\ Bar("Azure Blob", "FAIL") = 1
  <2> DEFINE t == documents[i]
  <2>1. HtmlPage.panels[i] = Panel(t)
    BY DEF HtmlPage
  <2>2. t \in Documents /\ t \in Tests /\ Documents \subseteq Tests
    BY <1>2 DEF Documents, SessionInv, SessionTypeOK
  <2>3. Panel(t).about = t /\ Panel(t).graph = FlowGraph(t)
        /\ Panel(t).status = TestCaseStatus({ComputeStatus(StatusesOf(t))})
    BY DEF Panel
  <2>. HIDE DEF t
  <2>4. Panel(t).status = "FAIL" => "FAIL" \in StatusesOf(t)
    BY <2>3 DEF TestCaseStatus, ComputeStatus
  <2>5. (\A k \in DOMAIN FlowGraph(t) : FlowGraph(t)[k] = "PASS") => Light(t) = "pass"
    BY <1>2, <2>2, GreenGraph
  <2>6. Panel(t).status = "FAIL" =>
          \/ \E k \in DOMAIN FlowGraph(t) : FlowGraph(t)[k] = "FAIL"
          \/ Service(t, FirstFailing(t)) = "Azure Blob" /\ Bar("Azure Blob", "FAIL") = 1
    BY <1>2, <2>2, <2>4, RedPanel
  <2>. QED
    BY <2>1, <2>3, <2>5, <2>6
<1>3. SessionInv /\ StoryInv => GraphIsExplained
  BY <1>2 DEF GraphIsExplained
<1>. QED
  BY <1>1, <1>3, PTL
-----------------------------------------------------------------------------
(* What the traces hold *)

(* A document has a row from the start: add_document and the first           *)
(* record_step come together, or else a status would be made of nothing.     *)
TraceInv == \A t \in Tests : Traced(t) => Uploads(t) >= 1

LEMMA InitTrace == Init => TraceInv
BY DEF Init, TraceInv, Traced

LEMMA AppendedUpload ==
  ASSUME SessionTypeOK, NEW t \in Tests, NEW st \in {"PASS", "FAIL"}, Uploaded(t, st)
  PROVE  Uploads(t)' >= 1 /\ \A u \in Tests \ {t} : Uploads(u)' = Uploads(u)
<1>1. /\ uploads[t] \in Seq({"PASS", "FAIL"}) /\ uploads \in [Tests -> Seq({"PASS", "FAIL"})]
      /\ uploads' = [uploads EXCEPT ![t] = Append(uploads[t], st)]
  BY DEF SessionTypeOK, Uploaded
<1>2. uploads'[t] = Append(uploads[t], st) /\ \A u \in Tests \ {t} : uploads'[u] = uploads[u]
  BY <1>1
<1>3. Len(Append(uploads[t], st)) = Len(uploads[t]) + 1 /\ Len(uploads[t]) \in Nat
  BY <1>1
<1>. QED
  BY <1>2, <1>3 DEF Uploads

LEMMA WorkKeepsTraces ==
  ASSUME NEW t, Work(t)
  PROVE  \/ UNCHANGED <<documents, uploads>>
         \/ /\ documents' \in {documents, Append(documents, t)}
            /\ Uploaded(t, "PASS") \/ Uploaded(t, "FAIL")
BY DEF Work, Begin, BeginUnauthorised, PlainSetup, StoreSource, MintSas, SourceFails, LogIn,
       LogInFails, LogInBreaks, FirstLegDone, FirstLegFails, LegDone, LegFails, DriveLegDone,
       WalkOn, WalkEnds, progress

LEMMA StepTrace == SessionInv /\ TraceInv /\ [Next]_vars => TraceInv'
<1>. SUFFICES ASSUME SessionInv, TraceInv, [Next]_vars PROVE TraceInv'
  OBVIOUS
<1>1. CASE UNCHANGED <<documents, uploads>>
  BY <1>1 DEF TraceInv, Traced, Uploads
<1>2. ASSUME NEW t \in Tests, documents' \in {documents, Append(documents, t)},
             NEW st \in {"PASS", "FAIL"}, Uploaded(t, st)
      PROVE  TraceInv'
  <2>1. Uploads(t)' >= 1 /\ \A u \in Tests \ {t} : Uploads(u)' = Uploads(u)
    BY <1>2, AppendedUpload DEF SessionInv
  <2>2. \A u \in Tests \ {t} : Traced(u)' => Traced(u)
    BY <1>2, TracedIs DEF SessionInv
  <2>. QED
    BY <2>1, <2>2 DEF TraceInv
<1>3. \/ UNCHANGED <<documents, uploads>>
      \/ \E t \in Tests :
           /\ documents' \in {documents, Append(documents, t)}
           /\ Uploaded(t, "PASS") \/ Uploaded(t, "FAIL")
  BY WorkKeepsTraces DEF Next, TokenExpires, DeleteSource, Save, TimeoutKill, vars, progress
<1>. QED
  BY <1>1, <1>2, <1>3

(* A document that did not pass has a step to accuse, and the message and    *)
(* the thread find the same one: the first.                                 *)
LEMMA FirstIs ==
  ASSUME SessionTypeOK, NEW t \in Tests, NEW T, \E i \in DOMAIN Steps(t) : Steps(t)[i] \in T
  PROVE  LET I == {i \in 1 .. Len(Steps(t)) : Steps(t)[i] \in T}
         IN /\ I # {} /\ Min(I) # 0
            /\ {i \in DOMAIN Steps(t) : /\ Steps(t)[i] \in T
                                        /\ \A j \in 1 .. i - 1 : Steps(t)[j] \notin T} = {Min(I)}
<1> DEFINE I == {i \in 1 .. Len(Steps(t)) : Steps(t)[i] \in T}
           F == {i \in DOMAIN Steps(t) : /\ Steps(t)[i] \in T
                                         /\ \A j \in 1 .. i - 1 : Steps(t)[j] \notin T}
<1>1. DOMAIN Steps(t) = 1 .. Len(Steps(t)) /\ Len(Steps(t)) \in Nat
  BY DEF Steps, SessionTypeOK
<1>2. I # {} /\ I \in SUBSET Nat
  BY <1>1
<1>3. PICK m \in I : \A j \in I : m <= j
  <2>. HIDE DEF I
  <2>. QED
    BY <1>2, LeastOf
<1>4. Min(I) = m
  <2>1. \A x \in I : (\A y \in I : x <= y) => x = m
    BY <1>2, <1>3
  <2>. HIDE DEF I
  <2>. QED
    BY <1>3, <2>1, Zenon DEF Min
<1>5. m \in F
  BY <1>1, <1>3
<1>6. ASSUME NEW i \in F PROVE i = m
  <2>1. i \in I /\ m \in Nat /\ i \in Nat /\ m <= i /\ m \in I
    BY <1>1, <1>3
  <2>2. ~(m \in 1 .. i - 1)
    BY <2>1
  <2>. QED
    BY <2>1, <2>2
<1>7. m # 0 /\ F = {m}
  <2>1. m # 0
    BY <1>3
  <2>. HIDE DEF F, I
  <2>. QED
    BY <2>1, <1>5, <1>6
<1>. QED
  BY <1>2, <1>4, <1>7

(* No document has a light without a reason. *)
LEMMA CulpritIs ==
  ASSUME SessionInv, TraceInv, NEW t \in Documents
  PROVE  /\ StatusesOf(t) # {} /\ t \in Tests
         /\ Light(t) = "fail" => \E i \in DOMAIN Steps(t) : Steps(t)[i] \in {"FAIL"}
         /\ Light(t) = "unverified" => \E i \in DOMAIN Steps(t) : Steps(t)[i] \in Unverified
<1>0. SessionTypeOK /\ t \in Tests /\ Traced(t)
  BY DocumentsAreTests DEF SessionInv, Documents, Traced
<1>1. 1 \in DOMAIN uploads[t] /\ uploads[t][1] \in StatusesOf(t)
  <2>1. 1 \in DOMAIN uploads[t]
    BY <1>0, StepsAre DEF TraceInv
  <2>. QED
    BY <2>1 DEF StatusesOf
<1>2. StatusesOf(t) \subseteq {"PASS", "FAIL", "SKIPPED"}
  BY <1>0, StatusesAre DEF Statuses
<1>3. Light(t) = "fail" => "FAIL" \in StatusesOf(t)
  BY DEF Light, ScenarioStatus
<1>4. Light(t) = "unverified" => "SKIPPED" \in StatusesOf(t)
  BY <1>1, <1>2 DEF Light, ScenarioStatus
<1>. QED
  BY <1>0, <1>1, <1>3, <1>4, StatusHasStep DEF Unverified

LEMMA AccusedIs ==
  ASSUME SessionInv, TraceInv, NEW t \in Documents
  PROVE  /\ Light(t) = "fail" => FirstFailing(t) # 0 /\ Marked(t) = {FirstFailing(t)}
         /\ Light(t) = "unverified" => FirstUnverified(t) # 0 /\ Marked(t) = {FirstUnverified(t)}
         /\ Light(t) = "pass" => Marked(t) = {}
<1>0. SessionTypeOK /\ t \in Tests
  BY CulpritIs DEF SessionInv
<1>1. CASE Light(t) = "fail"
  <2> DEFINE I == {i \in 1 .. Len(Steps(t)) : Steps(t)[i] \in {"FAIL"}}
             F == {i \in DOMAIN Steps(t) : /\ Steps(t)[i] \in {"FAIL"}
                                           /\ \A j \in 1 .. i - 1 : Steps(t)[j] \notin {"FAIL"}}
  <2>1. I = {i \in 1 .. Len(Steps(t)) : Steps(t)[i] = "FAIL"} /\ MarkerTarget(t) = {"FAIL"}
    BY <1>1 DEF MarkerTarget
  <2>2. FirstFailing(t) = IF I # {} THEN Min(I) ELSE 0
    BY <2>1 DEF FirstFailing, SelectInSeq
  <2>3. \E i \in DOMAIN Steps(t) : Steps(t)[i] \in {"FAIL"}
    BY <1>1, CulpritIs
  <2>4. I # {} /\ Min(I) # 0 /\ F = {Min(I)}
    BY <1>0, <2>3, FirstIs
  <2>5. Marked(t) = F
    BY <2>1 DEF Marked
  <2>. QED
    BY <1>1, <2>2, <2>4, <2>5
<1>2. CASE Light(t) = "unverified"
  <2> DEFINE I == {i \in 1 .. Len(Steps(t)) : Steps(t)[i] \in Unverified}
             F == {i \in DOMAIN Steps(t) : /\ Steps(t)[i] \in Unverified
                                           /\ \A j \in 1 .. i - 1 : Steps(t)[j] \notin Unverified}
  <2>1. MarkerTarget(t) = Unverified
    BY <1>2 DEF MarkerTarget
  <2>2. FirstUnverified(t) = IF I # {} THEN Min(I) ELSE 0
    BY DEF FirstUnverified, SelectInSeq
  <2>3. \E i \in DOMAIN Steps(t) : Steps(t)[i] \in Unverified
    BY <1>2, CulpritIs
  <2>4. I # {} /\ Min(I) # 0 /\ F = {Min(I)}
    BY <1>0, <2>3, FirstIs
  <2>5. Marked(t) = F
    BY <2>1 DEF Marked
  <2>. QED
    BY <1>2, <2>2, <2>4, <2>5
<1>3. CASE Light(t) = "pass"
  BY <1>3 DEF MarkerTarget, Marked
<1>. QED
  BY <1>1, <1>2, <1>3
-----------------------------------------------------------------------------
(* The blocks of the message *)

(* The scenarios of a light are the documents that have it, all of them. *)
LEMMA InLightIs ==
  ASSUME SessionTypeOK, NEW light
  PROVE  /\ InLight(light) \in Seq(Tests)
         /\ \A k \in DOMAIN InLight(light) :
              InLight(light)[k] \in Documents /\ Light(InLight(light)[k]) = light
         /\ \A t \in Documents :
              Light(t) = light => \E k \in DOMAIN InLight(light) : InLight(light)[k] = t
<1> DEFINE n == Len(documents)
           I == OfLight(light)
           The(k) == CHOOSE i \in I : Rank(I, i) = k
<1>1. /\ n \in Nat /\ I \in SUBSET (1 .. n) /\ DOMAIN documents = 1 .. n
      /\ \A i \in 1 .. n : documents[i] \in Tests
  BY DEF SessionTypeOK, OfLight
<1>2. InLight(light) = [k \in 1 .. Cardinality(I) |-> documents[The(k)]]
  BY DEF InLight, Rank
<1>3. \A i \in I : i \in DOMAIN documents /\ documents[i] \in Documents /\ Light(documents[i]) = light
  BY DEF OfLight, Documents
<1>4. \A t \in Documents : Light(t) = light => \E i \in I : documents[i] = t
  BY DEF OfLight, Documents
<1>. HIDE DEF n, I
<1>5. Cardinality(I) \in Nat
  <2>1. 0 \in Nat
    OBVIOUS
  <2>. QED
    BY <1>1, <2>1, RankType
<1>6. \A k \in 1 .. Cardinality(I) : The(k) \in I /\ Rank(I, The(k)) = k
  BY <1>1, RankReached
<1>7. \A i \in I : Rank(I, i) \in 1 .. Cardinality(I) /\ The(Rank(I, i)) = i
  <2>1. \A i \in I : Rank(I, i) \in 1 .. Cardinality(I)
    BY <1>1, RankIsUnique
  <2>2. ASSUME NEW i \in I, NEW j \in I, Rank(I, j) = Rank(I, i) PROVE j = i
    BY <1>1, <2>2, RankIsUnique
  <2>. QED
    BY <1>6, <2>1, <2>2
<1>. HIDE DEF The
<1>8. DOMAIN InLight(light) = 1 .. Cardinality(I)
      /\ \A k \in 1 .. Cardinality(I) : InLight(light)[k] = documents[The(k)]
  BY <1>2
<1>9. InLight(light) \in Seq(Tests)
  <2>1. \A k \in 1 .. Cardinality(I) : documents[The(k)] \in Tests
    BY <1>1, <1>6
  <2>. QED
    BY <1>2, <1>5, <2>1
<1>10. ASSUME NEW t \in Documents, Light(t) = light
       PROVE  \E k \in DOMAIN InLight(light) : InLight(light)[k] = t
  <2>1. PICK i \in I : documents[i] = t
    BY <1>4, <1>10
  <2>. QED
    BY <1>7, <1>8, <2>1
<1>. QED
  BY <1>3, <1>6, <1>8, <1>9, <1>10

(* What is in a list of blocks. *)
In(blocks, b) == \E i \in DOMAIN blocks : blocks[i] = b

LEMMA InConcatenation ==
  ASSUME NEW S, NEW a \in Seq(S), NEW b \in Seq(S)
  PROVE  /\ a \o b \in Seq(S)
         /\ \A x : In(a \o b, x) <=> In(a, x) \/ In(b, x)
<1>1. a \o b \in Seq(S)
  OBVIOUS
<1>2. ASSUME NEW x, In(a, x) \/ In(b, x) PROVE In(a \o b, x)
  <2>1. CASE In(a, x)
    <3>1. PICK i \in DOMAIN a : a[i] = x
      BY <2>1 DEF In
    <3>2. i \in DOMAIN (a \o b) /\ (a \o b)[i] = x
      BY <3>1, ConcatenationIs
    <3>. QED
      BY <3>2 DEF In
  <2>2. CASE In(b, x)
    <3>1. PICK i \in DOMAIN b : b[i] = x
      BY <2>2 DEF In
    <3>2. Len(a) + i \in DOMAIN (a \o b) /\ (a \o b)[Len(a) + i] = x
      BY <3>1, ConcatenationIs
    <3>. QED
      BY <3>2 DEF In
  <2>. QED
    BY <1>2, <2>1, <2>2
<1>3. ASSUME NEW i \in DOMAIN (a \o b)
      PROVE  In(a, (a \o b)[i]) \/ In(b, (a \o b)[i])
  <2>1. /\ i \in 1 .. Len(a) + Len(b) /\ Len(a) \in Nat /\ Len(b) \in Nat
        /\ DOMAIN a = 1 .. Len(a) /\ DOMAIN b = 1 .. Len(b)
    BY ConcatenationIs
  <2>2. CASE i <= Len(a)
    BY <2>1, <2>2, ConcatenationIs DEF In
  <2>3. CASE i > Len(a)
    <3>1. i - Len(a) \in DOMAIN b /\ Len(a) + (i - Len(a)) = i
      BY <2>1, <2>3
    <3>2. (a \o b)[i] = b[i - Len(a)]
      BY <3>1, ConcatenationIs
    <3>. QED
      BY <3>1, <3>2 DEF In
  <2>. QED
    BY <2>1, <2>2, <2>3
<1>. QED
  BY <1>1, <1>2, <1>3 DEF In

LEMMA OnlyIfIs ==
  ASSUME NEW S, NEW b \in S, NEW condition \in BOOLEAN
  PROVE  /\ OnlyIf(condition, b) \in Seq(S)
         /\ \A x : In(OnlyIf(condition, b), x) <=> condition /\ x = b
BY DEF OnlyIf, In

Nothing == [kind |-> "nothing recorded"]

Blocks ==
  {Header, PassingSection, ErrorsBlock, Nothing}
    \cup {FailingSection(t) : t \in Tests} \cup {UnverifiedSection(t) : t \in Tests}

LEMMA SectionsAre ==
  ASSUME SessionTypeOK
  PROVE  /\ FailingSections \in Seq(Blocks) /\ UnverifiedSections \in Seq(Blocks)
         /\ \A x : In(FailingSections, x) <=>
                     \E t \in Documents : Light(t) = "fail" /\ x = FailingSection(t)
         /\ \A x : In(UnverifiedSections, x) <=>
                     \E t \in Documents : Light(t) = "unverified" /\ x = UnverifiedSection(t)
<1>1. /\ FailingSections \in Seq(Blocks)
      /\ \A x : In(FailingSections, x) <=>
                  \E t \in Documents : Light(t) = "fail" /\ x = FailingSection(t)
  <2> DEFINE f == InLight("fail")
  <2>1. FailingSections = [i \in DOMAIN f |-> FailingSection(f[i])]
    BY DEF FailingSections
  <2>2. /\ f \in Seq(Tests)
        /\ \A k \in DOMAIN f : f[k] \in Documents /\ Light(f[k]) = "fail"
        /\ \A t \in Documents : Light(t) = "fail" => \E k \in DOMAIN f : f[k] = t
    BY InLightIs
  <2>. HIDE DEF f
  <2>3. /\ Len(f) \in Nat /\ DOMAIN f = 1 .. Len(f)
        /\ \A i \in DOMAIN f : FailingSection(f[i]) \in Blocks
    BY <2>2 DEF Blocks
  <2>4. FailingSections \in Seq(Blocks)
    BY <2>1, <2>3
  <2>. QED
    BY <2>1, <2>2, <2>4 DEF In
<1>2. /\ UnverifiedSections \in Seq(Blocks)
      /\ \A x : In(UnverifiedSections, x) <=>
                  \E t \in Documents : Light(t) = "unverified" /\ x = UnverifiedSection(t)
  <2> DEFINE f == InLight("unverified")
  <2>1. UnverifiedSections = [i \in DOMAIN f |-> UnverifiedSection(f[i])]
    BY DEF UnverifiedSections
  <2>2. /\ f \in Seq(Tests)
        /\ \A k \in DOMAIN f : f[k] \in Documents /\ Light(f[k]) = "unverified"
        /\ \A t \in Documents : Light(t) = "unverified" => \E k \in DOMAIN f : f[k] = t
    BY InLightIs
  <2>. HIDE DEF f
  <2>3. /\ Len(f) \in Nat /\ DOMAIN f = 1 .. Len(f)
        /\ \A i \in DOMAIN f : UnverifiedSection(f[i]) \in Blocks
    BY <2>2 DEF Blocks
  <2>4. UnverifiedSections \in Seq(Blocks)
    BY <2>1, <2>3
  <2>. QED
    BY <2>1, <2>2, <2>4 DEF In
<1>. QED
  BY <1>1, <1>2

(* A block more at the end: the message has what it had, and the second      *)
(* block, if any, stays the second.                                         *)
LEMMA BlocksJoined ==
  ASSUME NEW a \in Seq(Blocks), NEW b \in Seq(Blocks)
  PROVE  /\ a \o b \in Seq(Blocks)
         /\ \A x : In(a \o b, x) <=> In(a, x) \/ In(b, x)
         /\ 2 \in DOMAIN a => 2 \in DOMAIN (a \o b) /\ (a \o b)[2] = a[2]
         /\ \A i \in DOMAIN b : Len(a) + i \in DOMAIN (a \o b) /\ (a \o b)[Len(a) + i] = b[i]
<1>1. /\ a \o b \in Seq(Blocks)
      /\ \A x : In(a \o b, x) <=> In(a, x) \/ In(b, x)
  BY InConcatenation
<1>2. /\ \A i \in DOMAIN a : i \in DOMAIN (a \o b) /\ (a \o b)[i] = a[i]
      /\ \A i \in DOMAIN b : Len(a) + i \in DOMAIN (a \o b) /\ (a \o b)[Len(a) + i] = b[i]
  BY ConcatenationIs
<1>. QED
  BY <1>1, <1>2

(* What build_main_blocks puts into the message, and what comes right after  *)
(* the header.                                                              *)
LEMMA MainBlocksAre ==
  ASSUME SessionTypeOK
  PROVE  /\ \A x : In(MainBlocks, x) <=>
              \/ x = Header \/ In(FailingSections, x) \/ In(UnverifiedSections, x)
              \/ InLight("pass") # <<>> /\ x = PassingSection
              \/ errors # {} /\ x = ErrorsBlock
              \/ (documents = <<>> /\ errors = {}) /\ x = Nothing
         /\ 1 \in DOMAIN FailingSections => MainBlocks[2] = FailingSections[1]
         /\ FailingSections = <<>> /\ 1 \in DOMAIN UnverifiedSections
              => MainBlocks[2] = UnverifiedSections[1]
<1> DEFINE h == <<Header>>
           f == FailingSections
           u == UnverifiedSections
           p == OnlyIf(InLight("pass") # <<>>, PassingSection)
           e == OnlyIf(errors # {}, ErrorsBlock)
           z == OnlyIf(documents = <<>> /\ errors = {}, Nothing)
           m1 == h \o f
           m2 == m1 \o u
           m3 == m2 \o p
           m4 == m3 \o e
<1>1. MainBlocks = m4 \o z
  BY DEF MainBlocks, Nothing
<1>2. /\ h \in Seq(Blocks) /\ p \in Seq(Blocks) /\ e \in Seq(Blocks) /\ z \in Seq(Blocks)
      /\ f \in Seq(Blocks) /\ u \in Seq(Blocks)
  <2>1. Header \in Blocks /\ PassingSection \in Blocks /\ ErrorsBlock \in Blocks /\ Nothing \in Blocks
    BY DEF Blocks
  <2>2. f \in Seq(Blocks) /\ u \in Seq(Blocks)
    BY SectionsAre
  <2>3. p \in Seq(Blocks) /\ e \in Seq(Blocks) /\ z \in Seq(Blocks)
    BY <2>1, OnlyIfIs
  <2>4. h \in Seq(Blocks)
    BY <2>1
  <2>. QED
    BY <2>2, <2>3, <2>4
<1>3. /\ \A x : In(h, x) <=> x = Header
      /\ \A x : In(p, x) <=> InLight("pass") # <<>> /\ x = PassingSection
      /\ \A x : In(e, x) <=> errors # {} /\ x = ErrorsBlock
      /\ \A x : In(z, x) <=> (documents = <<>> /\ errors = {}) /\ x = Nothing
  <2>1. \A x : In(h, x) <=> x = Header
    BY DEF In
  <2>2. Header \in Blocks /\ PassingSection \in Blocks /\ ErrorsBlock \in Blocks /\ Nothing \in Blocks
    BY DEF Blocks
  <2>3. \A x : In(p, x) <=> InLight("pass") # <<>> /\ x = PassingSection
    BY <2>2, OnlyIfIs
  <2>4. \A x : In(e, x) <=> errors # {} /\ x = ErrorsBlock
    BY <2>2, OnlyIfIs
  <2>5. \A x : In(z, x) <=> (documents = <<>> /\ errors = {}) /\ x = Nothing
    BY <2>2, OnlyIfIs
  <2>. QED
    BY <2>1, <2>3, <2>4, <2>5
<1>4. Len(h) = 1
  OBVIOUS
<1>. HIDE DEF h, f, u, p, e, z
<1>5. m1 \in Seq(Blocks) /\ \A x : In(m1, x) <=> In(h, x) \/ In(f, x)
  BY <1>2, BlocksJoined
<1>6. 1 \in DOMAIN f => 2 \in DOMAIN m1 /\ m1[2] = f[1]
  <2>0. h \in Seq(Blocks) /\ f \in Seq(Blocks)
    BY <1>2
  <2>1. \A i \in DOMAIN f : Len(h) + i \in DOMAIN m1 /\ m1[Len(h) + i] = f[i]
    BY <2>0, BlocksJoined
  <2>2. 1 \in DOMAIN f => 1 + 1 \in DOMAIN m1 /\ m1[1 + 1] = f[1]
    BY <1>4, <2>1
  <2>3. 1 + 1 = 2
    OBVIOUS
  <2>. QED
    BY <2>2, <2>3
<1>7. f = <<>> => Len(m1) = 1
  BY <1>2, <1>4
<1>. HIDE DEF m1
<1>8. m2 \in Seq(Blocks) /\ \A x : In(m2, x) <=> In(m1, x) \/ In(u, x)
  BY <1>2, <1>5, BlocksJoined
<1>9. /\ 2 \in DOMAIN m1 => 2 \in DOMAIN m2 /\ m2[2] = m1[2]
      /\ f = <<>> /\ 1 \in DOMAIN u => 2 \in DOMAIN m2 /\ m2[2] = u[1]
  <2>1. 2 \in DOMAIN m1 => 2 \in DOMAIN m2 /\ m2[2] = m1[2]
    BY <1>2, <1>5, BlocksJoined
  <2>0. m1 \in Seq(Blocks) /\ u \in Seq(Blocks)
    BY <1>2, <1>5
  <2>2. \A i \in DOMAIN u : Len(m1) + i \in DOMAIN m2 /\ m2[Len(m1) + i] = u[i]
    BY <2>0, BlocksJoined
  <2>3. f = <<>> /\ 1 \in DOMAIN u => 1 + 1 \in DOMAIN m2 /\ m2[1 + 1] = u[1]
    BY <1>7, <2>2
  <2>4. 1 + 1 = 2
    OBVIOUS
  <2>. QED
    BY <2>1, <2>3, <2>4
<1>. HIDE DEF m2
<1>10. /\ m3 \in Seq(Blocks) /\ \A x : In(m3, x) <=> In(m2, x) \/ In(p, x)
       /\ 2 \in DOMAIN m2 => 2 \in DOMAIN m3 /\ m3[2] = m2[2]
  BY <1>2, <1>8, BlocksJoined
<1>. HIDE DEF m3
<1>11. /\ m4 \in Seq(Blocks) /\ \A x : In(m4, x) <=> In(m3, x) \/ In(e, x)
       /\ 2 \in DOMAIN m3 => 2 \in DOMAIN m4 /\ m4[2] = m3[2]
  BY <1>2, <1>10, BlocksJoined
<1>. HIDE DEF m4
<1>12. /\ \A x : In(MainBlocks, x) <=> In(m4, x) \/ In(z, x)
       /\ 2 \in DOMAIN m4 => MainBlocks[2] = m4[2]
  BY <1>1, <1>2, <1>11, BlocksJoined
<1>13. \A x : In(MainBlocks, x) <=>
         \/ In(h, x) \/ In(f, x) \/ In(u, x) \/ In(p, x) \/ In(e, x) \/ In(z, x)
  BY <1>5, <1>8, <1>10, <1>11, <1>12
<1>14. /\ 1 \in DOMAIN f => MainBlocks[2] = f[1]
       /\ f = <<>> /\ 1 \in DOMAIN u => MainBlocks[2] = u[1]
  BY <1>6, <1>9, <1>10, <1>11, <1>12
<1>. QED
  BY <1>3, <1>13, <1>14 DEF f, u
-----------------------------------------------------------------------------
(* The lights *)

LEMMA SlackIs ==
  ASSUME SessionTypeOK
  PROVE  /\ Documents = {} <=> documents = <<>>
         /\ Slack = "fail" <=>
              errors # {} \/ Documents = {} \/ \E t \in Documents : Light(t) = "fail"
         /\ Slack = "unverified" <=>
              /\ errors = {} /\ Documents # {} /\ \A t \in Documents : Light(t) # "fail"
              /\ \E t \in Documents : Light(t) = "unverified"
         /\ Slack \in {"pass", "fail", "unverified"}
<1> DEFINE B == {Light(t) : t \in Documents}
<1>1. Documents = {} <=> documents = <<>>
  <2>1. documents \in Seq(Tests)
    BY DEF SessionTypeOK
  <2>2. documents = <<>> => DOMAIN documents = {}
    OBVIOUS
  <2>3. DOMAIN documents = {} => documents = <<>>
    BY <2>1
  <2>4. Documents = {} <=> DOMAIN documents = {}
    BY DEF Documents
  <2>. QED
    BY <2>2, <2>3, <2>4
<1>2. Slack = SlackStatus(B, errors # {})
  BY DEF Slack, Light
<1>3. /\ B = {} <=> Documents = {}
      /\ "fail" \in B <=> \E t \in Documents : Light(t) = "fail"
      /\ "unverified" \in B <=> \E t \in Documents : Light(t) = "unverified"
  OBVIOUS
<1>. HIDE DEF B
<1>. QED
  BY <1>1, <1>2, <1>3 DEF SlackStatus

(* The three lights of a document are its three statuses. *)
LEMMA LightIsStatus ==
  ASSUME SessionInv, TraceInv, NEW t \in Documents
  PROVE  /\ Light(t) = "pass" <=> ComputeStatus(StatusesOf(t)) = "PASS"
         /\ Light(t) = "fail" <=> ComputeStatus(StatusesOf(t)) = "FAIL"
         /\ Light(t) = "unverified" <=> ComputeStatus(StatusesOf(t)) = "PARTIAL"
         /\ Light(t) \in {"pass", "fail", "unverified"}
BY CulpritIs DEF Light, ScenarioStatus, ComputeStatus

LEMMA CountsAre ==
  ASSUME SessionInv, TraceInv
  PROVE  /\ ScenarioCount("pass") = DocCount("PASS")
         /\ ScenarioCount("fail") = DocCount("FAIL")
         /\ ScenarioCount("unverified") = DocCount("PARTIAL")
<1>1. /\ {t \in Documents : Light(t) = "pass"} = {t \in Documents : ComputeStatus(StatusesOf(t)) = "PASS"}
      /\ {t \in Documents : Light(t) = "fail"} = {t \in Documents : ComputeStatus(StatusesOf(t)) = "FAIL"}
      /\ {t \in Documents : Light(t) = "unverified"}
           = {t \in Documents : ComputeStatus(StatusesOf(t)) = "PARTIAL"}
  BY LightIsStatus
<1>. QED
  BY <1>1 DEF ScenarioCount, DocCount

LEMMA StepsAreFinite == SessionTypeOK => IsFiniteSet(AllSteps)
<1>. SUFFICES ASSUME SessionTypeOK PROVE IsFiniteSet(AllSteps)
  OBVIOUS
<1> DEFINE names == {"bulk", "presigned", "ui"}
           places == 1 .. N + 3
<1>1. IsFiniteSet(names)
  <2>1. IsFiniteSet({"bulk"} \cup {"presigned"})
    BY FS_Singleton, FS_AddElement
  <2>2. IsFiniteSet(({"bulk"} \cup {"presigned"}) \cup {"ui"})
    BY <2>1, FS_AddElement
  <2>3. names = ({"bulk"} \cup {"presigned"}) \cup {"ui"}
    OBVIOUS
  <2>. QED
    BY <2>2, <2>3
<1>2. IsFiniteSet(places)
  BY TestsAre, FS_Interval
<1>3. IsFiniteSet(names \X places)
  BY <1>1, <1>2, FS_Product
<1>4. AllSteps \in SUBSET (names \X places)
  <2>1. ASSUME NEW t \in Documents, NEW i \in DOMAIN Steps(t)
        PROVE  t \in names /\ i \in places
    <3>1. t \in Tests
      BY DEF Documents, SessionTypeOK
    <3>2. Uploads(t) <= 3
      <4>1. Uploads(t) <= Len(Legs(t)) /\ Uploads(t) \in Nat
        BY <3>1, StepsAre DEF SessionTypeOK, Uploads
      <4>2. Len(Legs(t)) \in {1, 3}
        BY LegsAre
      <4>. QED
        BY <4>1, <4>2
    <3>3. Uploads(t) \in Nat /\ Stages(t) \in Nat /\ Stages(t) <= N /\ i \in 1 .. Uploads(t) + Stages(t)
      BY <3>1, StepsAre
    <3>4. N \in Nat
      BY TestsAre
    <3>5. i \in places
      BY <3>2, <3>3, <3>4
    <3>. QED
      BY <3>1, <3>5, TestsAre
  <2>. HIDE DEF names, places
  <2>2. ASSUME NEW s \in AllSteps PROVE s \in names \X places
    <3>1. PICK t \in Documents : s \in {<<t, i>> : i \in DOMAIN Steps(t)}
      BY DEF AllSteps
    <3>2. PICK i \in DOMAIN Steps(t) : s = <<t, i>>
      BY <3>1
    <3>. QED
      BY <2>1, <3>2
  <2>. QED
    BY <2>2
<1>. QED
  BY <1>3, <1>4, FS_Subset

(* The step pass rate of the page is 100% exactly under a green header: a    *)
(* document passes only if each of its steps does, and has one at all.      *)
LEMMA PassRateIs ==
  ASSUME SessionInv, TraceInv
  PROVE  Html = "PASS" <=> Cardinality(AllSteps) > 0 /\ StepCount("PASS") = Cardinality(AllSteps)
<1> DEFINE D == {ComputeStatus(StatusesOf(t)) : t \in Documents}
           P == {s \in AllSteps : Steps(s[1])[s[2]] = "PASS"}
<1>0. SessionTypeOK
  BY DEF SessionInv
<1>1. Html = "PASS" <=> Documents # {} /\ \A t \in Documents : Light(t) = "pass"
  <2>1. Html = OverallStatus(D) /\ (D = {} <=> Documents = {})
    BY DEF Html
  <2>2. D \subseteq {"PASS", "FAIL", "PARTIAL"}
    BY LightIsStatus
  <2>3. D \subseteq {"PASS"} <=> \A t \in Documents : Light(t) = "pass"
    BY LightIsStatus
  <2>. HIDE DEF D
  <2>. QED
    BY <2>1, <2>2, <2>3 DEF OverallStatus
<1>2. ASSUME NEW t \in Documents
      PROVE  /\ 1 \in DOMAIN Steps(t)
             /\ Light(t) = "pass" <=> \A i \in DOMAIN Steps(t) : Steps(t)[i] = "PASS"
  <2>1. t \in Tests /\ StatusesOf(t) # {} /\ 1 \in DOMAIN uploads[t]
    <3>1. t \in Tests /\ Traced(t) /\ StatusesOf(t) # {}
      BY CulpritIs DEF Documents, Traced
    <3>. QED
      BY <1>0, <3>1, StepsAre DEF TraceInv
  <2>2. 1 \in DOMAIN Steps(t)
    BY <1>0, <2>1, StepsAre
  <2>3. \A i \in DOMAIN Steps(t) : Steps(t)[i] \in StatusesOf(t)
    BY <1>0, <2>1, StepIsRow DEF StatusesOf
  <2>4. \A s \in StatusesOf(t) : \E i \in DOMAIN Steps(t) : Steps(t)[i] = s
    BY <1>0, <2>1, StatusHasStep
  <2>5. Light(t) = "pass" <=> StatusesOf(t) \subseteq {"PASS"}
    BY <2>1 DEF Light, ScenarioStatus
  <2>. QED
    BY <2>2, <2>3, <2>4, <2>5
<1>3. \A t \in Documents : \A i \in DOMAIN Steps(t) : <<t, i>> \in AllSteps
  <2>1. ASSUME NEW t \in Documents, NEW i \in DOMAIN Steps(t) PROVE <<t, i>> \in AllSteps
    <3>1. <<t, i>> \in {<<t, j>> : j \in DOMAIN Steps(t)}
      OBVIOUS
    <3>. QED
      BY <3>1 DEF AllSteps
  <2>. QED
    BY <2>1
<1>4. \A s \in AllSteps : s[1] \in Documents /\ s[2] \in DOMAIN Steps(s[1])
  <2>1. ASSUME NEW s \in AllSteps PROVE s[1] \in Documents /\ s[2] \in DOMAIN Steps(s[1])
    <3>1. PICK t \in Documents : s \in {<<t, i>> : i \in DOMAIN Steps(t)}
      BY DEF AllSteps
    <3>2. PICK i \in DOMAIN Steps(t) : s = <<t, i>>
      BY <3>1
    <3>. QED
      BY <3>2
  <2>. QED
    BY <2>1
<1>5. IsFiniteSet(AllSteps) /\ Cardinality(AllSteps) \in Nat
  BY <1>0, StepsAreFinite, FS_CardinalityType
<1>6. Cardinality(AllSteps) > 0 <=> Documents # {}
  <2>1. AllSteps # {} <=> Documents # {}
    BY <1>2, <1>3, <1>4
  <2>. QED
    BY <1>5, <2>1, FS_EmptySet
<1>7. StepCount("PASS") = Cardinality(AllSteps) <=> P = AllSteps
  <2>1. StepCount("PASS") = Cardinality(P) /\ P \in SUBSET AllSteps
    BY DEF StepCount
  <2>. HIDE DEF P
  <2>. QED
    BY <1>5, <2>1, FS_Subset
<1>8. P = AllSteps <=> \A t \in Documents : Light(t) = "pass"
  <2>1. ASSUME P = AllSteps, NEW t \in Documents PROVE Light(t) = "pass"
    <3>1. \A i \in DOMAIN Steps(t) : <<t, i>> \in P
      BY <1>3, <2>1
    <3>. QED
      BY <1>2, <3>1
  <2>2. ASSUME \A t \in Documents : Light(t) = "pass", NEW s \in AllSteps PROVE s \in P
    BY <1>2, <1>4, <2>2
  <2>. QED
    BY <2>1, <2>2
<1>. QED
  BY <1>1, <1>6, <1>7, <1>8

(* The kinds of the blocks. *)
LEMMA KindsAre ==
  /\ Header.kind = "header" /\ PassingSection.kind = "pass" /\ ErrorsBlock.kind = "errors"
  /\ Nothing.kind = "nothing recorded"
  /\ \A t : /\ FailingSection(t).kind = "fail" /\ FailingSection(t).about = t
            /\ FailingSection(t).at = FirstFailing(t)
            /\ UnverifiedSection(t).kind = "unverified" /\ UnverifiedSection(t).about = t
            /\ UnverifiedSection(t).at = FirstUnverified(t)
            /\ ThreadSection(t).kind = Light(t) /\ ThreadSection(t).about = t
            /\ ThreadSection(t).marked = Marked(t)
BY DEF Header, PassingSection, ErrorsBlock, Nothing, FailingSection, UnverifiedSection, ThreadSection

(* The reasons the main message gives. *)
LEMMA MessageExplains ==
  ASSUME SessionInv, TraceInv
  PROVE  /\ Slack = "fail" =>
              \/ Accuses(MainBlocks, "fail")
              \/ HasBlock(MainBlocks, "errors")
              \/ HasBlock(MainBlocks, "nothing recorded")
         /\ Slack = "unverified" => Accuses(MainBlocks, "unverified")
<1>0. SessionTypeOK
  BY DEF SessionInv
<1>1. ASSUME NEW t \in Documents, Light(t) = "fail" PROVE Accuses(MainBlocks, "fail")
  <2>1. In(MainBlocks, FailingSection(t))
    BY <1>0, <1>1, MainBlocksAre, SectionsAre
  <2>2. PICK i \in DOMAIN MainBlocks : MainBlocks[i] = FailingSection(t)
    BY <2>1 DEF In
  <2>3. MainBlocks[i].kind = "fail" /\ MainBlocks[i].at = FirstFailing(t)
    BY <2>2, KindsAre
  <2>4. FirstFailing(t) # 0
    BY <1>1, AccusedIs
  <2>. QED
    BY <2>3, <2>4 DEF Accuses
<1>2. ASSUME NEW t \in Documents, Light(t) = "unverified" PROVE Accuses(MainBlocks, "unverified")
  <2>1. In(MainBlocks, UnverifiedSection(t))
    BY <1>0, <1>2, MainBlocksAre, SectionsAre
  <2>2. PICK i \in DOMAIN MainBlocks : MainBlocks[i] = UnverifiedSection(t)
    BY <2>1 DEF In
  <2>3. MainBlocks[i].kind = "unverified" /\ MainBlocks[i].at = FirstUnverified(t)
    BY <2>2, KindsAre
  <2>4. FirstUnverified(t) # 0
    BY <1>2, AccusedIs
  <2>. QED
    BY <2>3, <2>4 DEF Accuses
<1>3. errors # {} => HasBlock(MainBlocks, "errors")
  <2>1. errors # {} => In(MainBlocks, ErrorsBlock)
    BY <1>0, MainBlocksAre
  <2>. QED
    BY <2>1, KindsAre DEF In, HasBlock
<1>4. documents = <<>> /\ errors = {} => HasBlock(MainBlocks, "nothing recorded")
  <2>1. documents = <<>> /\ errors = {} => In(MainBlocks, Nothing)
    BY <1>0, MainBlocksAre
  <2>. QED
    BY <2>1, KindsAre DEF In, HasBlock
<1>. QED
  BY <1>0, <1>1, <1>2, <1>3, <1>4, SlackIs

(* The reasons the page gives. *)
LEMMA PageIs ==
  /\ HtmlPage.overall = Html
  /\ HtmlPage.counts["PASS"] = DocCount("PASS")
  /\ HtmlPage.counts["PARTIAL"] = DocCount("PARTIAL")
  /\ HtmlPage.counts["FAIL"] = DocCount("FAIL")
  /\ HtmlPage.steps = Cardinality(AllSteps) /\ HtmlPage.passing = StepCount("PASS")
  /\ HtmlPage.errors = errors
  /\ documents = <<>> /\ errors = {} => HtmlPage.empty
  /\ DOMAIN HtmlPage.panels = DOMAIN documents
  /\ \A i \in DOMAIN documents :
       HtmlPage.panels[i].status = TestCaseStatus({ComputeStatus(StatusesOf(documents[i]))})
BY DEF HtmlPage, Panel

LEMMA PageExplains ==
  ASSUME SessionInv, TraceInv, Slack = "fail"
  PROVE  \/ HtmlPage.errors # {} \/ HtmlPage.empty
         \/ \E i \in DOMAIN HtmlPage.panels : HtmlPage.panels[i].status = "FAIL"
<1>1. ASSUME NEW t \in Documents, Light(t) = "fail"
      PROVE  \E i \in DOMAIN HtmlPage.panels : HtmlPage.panels[i].status = "FAIL"
  <2>1. PICK i \in DOMAIN documents : documents[i] = t
    BY DEF Documents
  <2>2. ComputeStatus(StatusesOf(t)) = "FAIL"
    BY <1>1, LightIsStatus
  <2>3. TestCaseStatus({"FAIL"}) = "FAIL"
    BY DEF TestCaseStatus
  <2>. QED
    BY <2>1, <2>2, <2>3, PageIs
<1>2. \/ errors # {} \/ documents = <<>>
      \/ \E t \in Documents : Light(t) = "fail"
  <2>1. SessionTypeOK
    BY DEF SessionInv
  <2>. QED
    BY <2>1, SlackIs
<1>. QED
  BY <1>1, <1>2, PageIs

(* The reasons for a light that is not green are in the message and on the   *)
(* page, which count alike, and the step pass rate of the page is 100%       *)
(* exactly under a green header (build_main_blocks, _render_html).          *)
THEOREM LightsAreExplained == Spec => []LightIsExplained
<1>1. Spec => [](SessionInv /\ TraceInv)
  BY SessionInvCorrect, InitTrace, StepTrace, PTL DEF Spec
<1>2. ASSUME SessionInv, TraceInv PROVE LightIsExplained
  <2>1. <<Counts.passed, Counts.unverified, Counts.failed>>
          = <<HtmlPage.counts["PASS"], HtmlPage.counts["PARTIAL"], HtmlPage.counts["FAIL"]>>
    <3>1. /\ Counts.passed = ScenarioCount("pass") /\ Counts.failed = ScenarioCount("fail")
          /\ Counts.unverified = ScenarioCount("unverified")
      BY DEF Counts
    <3>. QED
      BY <1>2, <3>1, CountsAre, PageIs
  <2>2. HtmlPage.overall = "PASS" <=> HtmlPage.steps > 0 /\ HtmlPage.passing = HtmlPage.steps
    BY <1>2, PassRateIs, PageIs
  <2>. QED
    BY <1>2, <2>1, <2>2, MessageExplains, PageExplains DEF LightIsExplained
<1>. QED
  BY <1>1, <1>2, PTL

(* The thread has a section for each document, at its place. *)
LEMMA ThreadIs ==
  ASSUME SessionTypeOK, NEW i \in DOMAIN documents
  PROVE  i \in DOMAIN ThreadBlocks /\ ThreadBlocks[i] = ThreadSection(documents[i])
<1> DEFINE sections == [j \in DOMAIN documents |-> ThreadSection(documents[j])]
           tail == OnlyIf(errors # {}, ErrorsBlock)
           S == {ThreadSection(t) : t \in Tests} \cup {ErrorsBlock}
<1>1. documents \in Seq(Tests) /\ documents # <<>>
  BY DEF SessionTypeOK
<1>2. ThreadBlocks = sections \o tail
  BY <1>1 DEF ThreadBlocks
<1>3. sections \in Seq(S) /\ i \in DOMAIN sections /\ sections[i] = ThreadSection(documents[i])
  BY <1>1
<1>4. tail \in Seq(S)
  BY OnlyIfIs
<1>. HIDE DEF sections, tail, S
<1>. QED
  BY <1>2, <1>3, <1>4, ConcatenationIs

(* Whoever the main message accuses, and where. *)
LEMMA AccusedBlocks ==
  ASSUME SessionInv, TraceInv, NEW i \in DOMAIN MainBlocks,
         MainBlocks[i].kind \in {"fail", "unverified"}
  PROVE  \E t \in Documents : /\ Light(t) = MainBlocks[i].kind /\ MainBlocks[i].about = t
                              /\ Marked(t) = {MainBlocks[i].at}
<1> DEFINE b == MainBlocks[i]
<1>1. In(MainBlocks, b)
  BY DEF In
<1>2. \/ b = Header \/ In(FailingSections, b) \/ In(UnverifiedSections, b)
      \/ b = PassingSection \/ b = ErrorsBlock \/ b = Nothing
  BY <1>1, MainBlocksAre DEF SessionInv
<1>3. b.kind \in {"fail", "unverified"}
  OBVIOUS
<1>. HIDE DEF b
<1>4. In(FailingSections, b) \/ In(UnverifiedSections, b)
  BY <1>2, <1>3, KindsAre
<1>5. ASSUME NEW t \in Documents, Light(t) = "fail", b = FailingSection(t)
      PROVE  Light(t) = b.kind /\ b.about = t /\ Marked(t) = {b.at}
  BY <1>5, AccusedIs, KindsAre
<1>6. ASSUME NEW t \in Documents, Light(t) = "unverified", b = UnverifiedSection(t)
      PROVE  Light(t) = b.kind /\ b.about = t /\ Marked(t) = {b.at}
  BY <1>6, AccusedIs, KindsAre
<1>7. \E t \in Documents : Light(t) = b.kind /\ b.about = t /\ Marked(t) = {b.at}
  BY <1>4, <1>5, <1>6, SectionsAre DEF SessionInv
<1>. QED
  BY <1>7 DEF b

LEMMA ThreadHolds ==
  ASSUME SessionTypeOK, NEW j \in DOMAIN ThreadBlocks
  PROVE  \/ ThreadBlocks[j] \in {Nothing, ErrorsBlock}
         \/ \E t \in Documents : ThreadBlocks[j] = ThreadSection(t)
<1> DEFINE sections == [k \in DOMAIN documents |-> ThreadSection(documents[k])]
           tail == OnlyIf(errors # {}, ErrorsBlock)
           S == {ThreadSection(t) : t \in Tests} \cup {ErrorsBlock}
           b == ThreadBlocks[j]
<1>1. CASE documents = <<>>
  <2>1. ThreadBlocks = <<Nothing>>
    BY <1>1 DEF ThreadBlocks, Nothing
  <2>. QED
    BY <2>1
<1>2. CASE documents # <<>>
  <2>1. ThreadBlocks = sections \o tail
    BY <1>2 DEF ThreadBlocks
  <2>2. sections \in Seq(S) /\ \A x : In(sections, x) => \E t \in Documents : x = ThreadSection(t)
    <3>1. documents \in Seq(Tests)
      BY DEF SessionTypeOK
    <3>2. sections \in Seq(S)
      BY <3>1
    <3>. QED
      BY <3>2 DEF In, Documents
  <2>3. tail \in Seq(S) /\ \A x : In(tail, x) => x = ErrorsBlock
    BY OnlyIfIs
  <2>4. In(ThreadBlocks, b)
    BY DEF In
  <2>. HIDE DEF sections, tail, S, b
  <2>5. In(sections, b) \/ In(tail, b)
    BY <2>1, <2>2, <2>3, <2>4, InConcatenation
  <2>. QED
    BY <2>2, <2>3, <2>5 DEF b
<1>. QED
  BY <1>1, <1>2

LEMMA PairIs == \A b : \A a \in {<<b.about, b.at>>} : b.about = a[1] /\ b.at = a[2]
OBVIOUS

(* Whom the push text names. *)
LEMMA PushIs ==
  /\ Slack = "fail" =>
       FallbackText.about = IF FailingSections = <<>> THEN {}
                            ELSE {<<FailingSections[1].about, FailingSections[1].at>>}
  /\ Slack = "unverified" =>
       FallbackText.about = IF UnverifiedSections = <<>> THEN {}
                            ELSE {<<UnverifiedSections[1].about, UnverifiedSections[1].at>>}
  /\ Slack = "pass" => FallbackText.about = {}
BY DEF FallbackText

LEMMA EmptyOrFirst ==
  ASSUME NEW S, NEW s \in Seq(S)
  PROVE  s = <<>> \/ 1 \in DOMAIN s
OBVIOUS

LEMMA PushAgrees ==
  ASSUME SessionInv, TraceInv
  PROVE  /\ FallbackText.about = {} => Slack = "pass" \/ ~HasBlock(MainBlocks, "fail")
         /\ \A a \in FallbackText.about : MainBlocks[2].about = a[1] /\ MainBlocks[2].at = a[2]
<1>0. SessionTypeOK
  BY DEF SessionInv
<1>1. /\ FailingSections = <<>> \/ 1 \in DOMAIN FailingSections
      /\ UnverifiedSections = <<>> \/ 1 \in DOMAIN UnverifiedSections
  BY <1>0, SectionsAre, EmptyOrFirst
<1>2. HasBlock(MainBlocks, "fail") => \E t \in Documents : Light(t) = "fail"
  <2>1. ASSUME NEW i \in DOMAIN MainBlocks, MainBlocks[i].kind = "fail"
        PROVE  \E t \in Documents : Light(t) = "fail"
    BY <2>1, AccusedBlocks
  <2>. QED
    BY <2>1 DEF HasBlock
<1>3. (\E t \in Documents : Light(t) = "fail") <=> FailingSections # <<>>
  <2>1. ASSUME NEW t \in Documents, Light(t) = "fail" PROVE FailingSections # <<>>
    <3>1. In(FailingSections, FailingSection(t))
      BY <1>0, <2>1, SectionsAre
    <3>. QED
      BY <3>1 DEF In
  <2>2. ASSUME 1 \in DOMAIN FailingSections PROVE \E t \in Documents : Light(t) = "fail"
    <3>1. In(FailingSections, FailingSections[1])
      BY <2>2 DEF In
    <3>. QED
      BY <1>0, <3>1, SectionsAre
  <2>. QED
    BY <1>1, <2>1, <2>2
<1>4. CASE Slack = "fail"
  <2>1. FailingSections = <<>> => ~HasBlock(MainBlocks, "fail") /\ FallbackText.about = {}
    BY <1>2, <1>3, <1>4, PushIs
  <2>2. FailingSections # <<>> =>
          /\ FallbackText.about = {<<FailingSections[1].about, FailingSections[1].at>>}
          /\ MainBlocks[2] = FailingSections[1]
    BY <1>0, <1>1, <1>4, PushIs, MainBlocksAre
  <2>3. {<<FailingSections[1].about, FailingSections[1].at>>} # {}
    OBVIOUS
  <2>4. \A a \in {<<FailingSections[1].about, FailingSections[1].at>>} :
          FailingSections[1].about = a[1] /\ FailingSections[1].at = a[2]
    BY PairIs
  <2>5. FailingSections # <<>> =>
          \A a \in FallbackText.about : MainBlocks[2].about = a[1] /\ MainBlocks[2].at = a[2]
    BY <2>2, <2>4
  <2>6. FailingSections # <<>> => FallbackText.about # {}
    BY <2>2, <2>3
  <2>. QED
    BY <2>1, <2>5, <2>6
<1>5. CASE Slack = "unverified"
  <2>1. FailingSections = <<>> /\ ~HasBlock(MainBlocks, "fail")
    BY <1>0, <1>2, <1>3, <1>5, SlackIs
  <2>2. UnverifiedSections # <<>> =>
          /\ FallbackText.about = {<<UnverifiedSections[1].about, UnverifiedSections[1].at>>}
          /\ MainBlocks[2] = UnverifiedSections[1]
    BY <1>0, <1>1, <1>5, <2>1, PushIs, MainBlocksAre
  <2>3. UnverifiedSections = <<>> => FallbackText.about = {}
    BY <1>5, PushIs
  <2>4. \A a \in {<<UnverifiedSections[1].about, UnverifiedSections[1].at>>} :
          UnverifiedSections[1].about = a[1] /\ UnverifiedSections[1].at = a[2]
    BY PairIs
  <2>5. UnverifiedSections # <<>> =>
          \A a \in FallbackText.about : MainBlocks[2].about = a[1] /\ MainBlocks[2].at = a[2]
    BY <2>2, <2>4
  <2>. QED
    BY <2>1, <2>3, <2>5
<1>6. CASE Slack = "pass"
  BY <1>6, PushIs
<1>. QED
  BY <1>0, <1>4, <1>5, <1>6, SlackIs

(* Message, thread and push text accuse the same step of the same scenario,  *)
(* whatever the documents and their rows (build_main_blocks,                 *)
(* build_thread_blocks, build_fallback_text).                               *)
THEOREM AccusationsAlwaysAgree == Spec => []AccusationsAgree
<1>1. Spec => [](SessionInv /\ TraceInv)
  BY SessionInvCorrect, InitTrace, StepTrace, PTL DEF Spec
<1>2. ASSUME SessionInv, TraceInv PROVE AccusationsAgree
  <2>0. SessionTypeOK
    BY <1>2 DEF SessionInv
  <2>1. ASSUME NEW i \in DOMAIN MainBlocks, MainBlocks[i].kind \in {"fail", "unverified"}
        PROVE  \E j \in DOMAIN ThreadBlocks :
                 /\ ThreadBlocks[j].kind = MainBlocks[i].kind
                 /\ ThreadBlocks[j].about = MainBlocks[i].about
                 /\ ThreadBlocks[j].marked = {MainBlocks[i].at}
    <3>1. PICK t \in Documents : /\ Light(t) = MainBlocks[i].kind /\ MainBlocks[i].about = t
                                 /\ Marked(t) = {MainBlocks[i].at}
      BY <1>2, <2>1, AccusedBlocks
    <3>2. PICK j \in DOMAIN documents : documents[j] = t
      BY DEF Documents
    <3>3. j \in DOMAIN ThreadBlocks /\ ThreadBlocks[j] = ThreadSection(t)
      BY <2>0, <3>2, ThreadIs
    <3>4. /\ ThreadBlocks[j].kind = Light(t) /\ ThreadBlocks[j].about = t
          /\ ThreadBlocks[j].marked = Marked(t)
      BY <3>3, KindsAre
    <3>. QED
      BY <3>1, <3>3, <3>4
  <2>2. ASSUME NEW j \in DOMAIN ThreadBlocks, ThreadBlocks[j].kind = "pass"
        PROVE  ThreadBlocks[j].marked = {}
    <3>1. \/ ThreadBlocks[j] \in {Nothing, ErrorsBlock}
          \/ \E t \in Documents : ThreadBlocks[j] = ThreadSection(t)
      BY <2>0, ThreadHolds
    <3>2. PICK t \in Documents : ThreadBlocks[j] = ThreadSection(t)
      BY <2>2, <3>1, KindsAre
    <3>. QED
      BY <1>2, <2>2, <3>2, KindsAre, AccusedIs
  <2>. QED
    BY <1>2, <2>1, <2>2, PushAgrees DEF AccusationsAgree
<1>. QED
  BY <1>1, <1>2, PTL
=============================================================================
