----------------------------- MODULE TenantProofs -----------------------------
(***************************************************************************)
(* Proofs about Tenant, for any number of documents, files and pages.       *)
(***************************************************************************)
EXTENDS Tenant, FiniteSetTheorems, TLAPS

(* The service *)

(* What anything does to the service: one of these, or nothing. *)
ServiceStep ==
  \/ \E d \in Docs :
       \/ Create(d, "INITIATED") \/ Create(d, "EXTRACTION_COMPLETED")
       \/ Confirm(d) \/ Progress(d) \/ Delete(d)
  \/ UNCHANGED serviceVars

ServiceInv ==
  /\ list \in Seq(Docs)
  /\ state \in [Docs -> States]
  /\ \A d \in Docs : Listed(d) <=> state[d] \notin {"absent", "deleted"}
  /\ \A i, j \in DOMAIN list : list[i] = list[j] => i = j

(* The seven states, one by one. *)
LEMMA StatesAre ==
  States = {"absent", "deleted", "INITIATED", "CONFIRMED", "OCR_COMPLETED",
            "EXTRACTION_QUEUED", "EXTRACTION_COMPLETED"}
<1>1. DOMAIN Stages = {1, 2, 3, 4, 5}
  BY DEF Stages
<1> QED
  BY <1>1 DEF States, Stages

(* The pipeline's step, case by case. *)
LEMMA ProgressIs ==
  ASSUME NEW d \in Docs, Progress(d)
  PROVE  /\ UNCHANGED list
         /\ \/ state[d] = "CONFIRMED" /\ state' = [state EXCEPT ![d] = "OCR_COMPLETED"]
            \/ state[d] = "OCR_COMPLETED" /\ state' = [state EXCEPT ![d] = "EXTRACTION_QUEUED"]
            \/ state[d] = "EXTRACTION_QUEUED" /\ state' = [state EXCEPT ![d] = "EXTRACTION_COMPLETED"]
<1>1. PICK i \in 2 .. Len(Stages) - 1 :
        /\ state[d] = Stages[i]
        /\ state' = [state EXCEPT ![d] = Stages[i + 1]]
        /\ UNCHANGED list
  BY DEF Progress
<1>2. i = 2 \/ i = 3 \/ i = 4
  BY DEF Stages
<1>3. /\ Stages[2] = "CONFIRMED" /\ Stages[3] = "OCR_COMPLETED"
      /\ Stages[4] = "EXTRACTION_QUEUED" /\ Stages[5] = "EXTRACTION_COMPLETED"
  BY DEF Stages
<1>4. CASE i = 2
  <2>1. Stages[i] = Stages[2] /\ Stages[i + 1] = Stages[3]
    BY <1>4
  <2> QED
    BY <1>1, <1>3, <2>1
<1>5. CASE i = 3
  <2>1. Stages[i] = Stages[3] /\ Stages[i + 1] = Stages[4]
    BY <1>5
  <2> QED
    BY <1>1, <1>3, <2>1
<1>6. CASE i = 4
  <2>1. Stages[i] = Stages[4] /\ Stages[i + 1] = Stages[5]
    BY <1>6
  <2> QED
    BY <1>1, <1>3, <2>1
<1> QED
  BY <1>2, <1>4, <1>5, <1>6

(* A document that comes in moves all others one place back. *)
LEMMA InFront ==
  ASSUME NEW s \in Seq(Docs), NEW d \in Docs
  PROVE  LET t == <<d>> \o s IN
         /\ t \in Seq(Docs)
         /\ Len(t) = Len(s) + 1
         /\ t[1] = d
         /\ \A i \in 1 .. Len(s) : t[i + 1] = s[i]
         /\ \A i \in 2 .. Len(s) + 1 : t[i] = s[i - 1]
OBVIOUS

(* A document that goes moves those behind it one place forward. *)
LEMMA TakenOut ==
  ASSUME NEW s \in Seq(Docs), NEW k \in DOMAIN s
  PROVE  LET t == RemoveAt(s, k) IN
         /\ t \in Seq(Docs)
         /\ Len(t) = Len(s) - 1
         /\ \A i \in 1 .. Len(s) - 1 : t[i] = IF i < k THEN s[i] ELSE s[i + 1]
<1> DEFINE a == SubSeq(s, 1, k - 1)  b == SubSeq(s, k + 1, Len(s))
<1>1. a \in Seq(Docs) /\ Len(a) = k - 1 /\ \A i \in 1 .. k - 1 : a[i] = s[i]
  OBVIOUS
<1>2. b \in Seq(Docs) /\ Len(b) = Len(s) - k /\ \A i \in 1 .. Len(s) - k : b[i] = s[k + i]
  OBVIOUS
<1>3. RemoveAt(s, k) = a \o b
  BY DEF RemoveAt
<1> HIDE DEF a, b
<1>4. /\ a \o b \in Seq(Docs)
      /\ Len(a \o b) = Len(s) - 1
      /\ \A i \in 1 .. Len(s) - 1 : (a \o b)[i] = IF i < k THEN a[i] ELSE b[i - (k - 1)]
  BY <1>1, <1>2, SMTT(40)
<1>5. \A i \in 1 .. Len(s) - 1 :
        /\ i < k => i \in 1 .. k - 1
        /\ i >= k => i - (k - 1) \in 1 .. Len(s) - k /\ k + (i - (k - 1)) = i + 1
  OBVIOUS
<1>6. ASSUME NEW i \in 1 .. Len(s) - 1
      PROVE  (a \o b)[i] = IF i < k THEN s[i] ELSE s[i + 1]
  <2>1. CASE i < k
    BY <1>1, <1>4, <1>5, <2>1
  <2>2. CASE i >= k
    <3>1. (a \o b)[i] = b[i - (k - 1)]
      BY <1>4, <2>2
    <3>2. b[i - (k - 1)] = s[k + (i - (k - 1))]
      BY <1>2, <1>5, <2>2
    <3> QED
      BY <1>5, <2>2, <3>1, <3>2
  <2>3. i < k \/ i >= k
    OBVIOUS
  <2> QED
    BY <2>1, <2>2, <2>3
<1> QED
  BY <1>3, <1>4, <1>6

LEMMA ServiceKept ==
  ASSUME ServiceInv, ServiceStep
  PROVE  ServiceInv'
<1> USE StatesAre DEF ServiceInv
<1>1. ASSUME NEW d \in Docs, NEW s \in {"INITIATED", "EXTRACTION_COMPLETED"}, Create(d, s)
      PROVE  ServiceInv'
  <2>1. /\ list' \in Seq(Docs)
        /\ Len(list') = Len(list) + 1
        /\ list'[1] = d
        /\ \A i \in 1 .. Len(list) : list'[i + 1] = list[i]
        /\ \A i \in 2 .. Len(list) + 1 : list'[i] = list[i - 1]
    BY <1>1, InFront DEF Create
  <2>2. state' \in [Docs -> States]
    BY <1>1 DEF Create
  <2>3. ~Listed(d)
    BY <1>1 DEF Create
  <2>4. \A e \in Docs : Listed(e)' <=> e = d \/ Listed(e)
    <3>1. SUFFICES ASSUME NEW e \in Docs PROVE Listed(e)' <=> e = d \/ Listed(e)
      OBVIOUS
    <3>2. Listed(e)' => e = d \/ Listed(e)
      BY <2>1, SMTT(40) DEF Listed, Contains
    <3>3. e = d \/ Listed(e) => Listed(e)'
      BY <2>1 DEF Listed, Contains
    <3> QED
      BY <3>2, <3>3
  <2>5. \A e \in Docs : Listed(e)' <=> state'[e] \notin {"absent", "deleted"}
    BY <1>1, <2>4 DEF Create
  <2>6. \A i, j \in DOMAIN list' : list'[i] = list'[j] => i = j
    <3>1. SUFFICES ASSUME NEW i \in 1 .. Len(list) + 1, NEW j \in 1 .. Len(list) + 1,
                          list'[i] = list'[j], i < j
                   PROVE  FALSE
      BY <2>1
    <3>2. j - 1 \in DOMAIN list /\ list'[j] = list[j - 1]
      BY <2>1, <3>1
    <3>3. CASE i = 1
      BY <2>1, <2>3, <3>1, <3>2, <3>3 DEF Listed, Contains
    <3>4. CASE i > 1
      <4>1. i - 1 \in DOMAIN list /\ list'[i] = list[i - 1]
        BY <2>1, <3>1, <3>4
      <4> QED
        BY <3>1, <3>2, <4>1
    <3> QED
      BY <3>1, <3>3, <3>4
  <2> QED
    BY <2>1, <2>2, <2>5, <2>6
<1>2. ASSUME NEW d \in Docs, Confirm(d)
      PROVE  ServiceInv'
  BY <1>2 DEF Confirm, Listed, Contains
<1>3. ASSUME NEW d \in Docs, Progress(d)
      PROVE  ServiceInv'
  BY <1>3, ProgressIs DEF Listed, Contains
<1>4. ASSUME NEW d \in Docs, Delete(d)
      PROVE  ServiceInv'
  <2>1. PICK k \in DOMAIN list : list[k] = d /\ list' = RemoveAt(list, k)
    BY <1>4 DEF Delete
  <2>2. /\ list' \in Seq(Docs)
        /\ Len(list') = Len(list) - 1
        /\ \A i \in 1 .. Len(list) - 1 : list'[i] = IF i < k THEN list[i] ELSE list[i + 1]
    BY <2>1, TakenOut
  <2>3. state' = [state EXCEPT ![d] = "deleted"]
    BY <1>4 DEF Delete
  <2>4. \A e \in Docs : Listed(e)' <=> e # d /\ Listed(e)
    <3>1. SUFFICES ASSUME NEW e \in Docs PROVE Listed(e)' <=> e # d /\ Listed(e)
      OBVIOUS
    <3>2. ASSUME Listed(e)' PROVE e # d /\ Listed(e)
      <4>1. PICK i \in 1 .. Len(list) - 1 : list'[i] = e
        BY <3>2, <2>2 DEF Listed, Contains
      <4> DEFINE j == IF i < k THEN i ELSE i + 1
      <4>2. j \in DOMAIN list /\ j # k /\ list[j] = e
        BY <4>1, <2>1, <2>2
      <4>3. e # d
        BY <4>2, <2>1
      <4> QED
        BY <4>2, <4>3 DEF Listed, Contains
    <3>3. ASSUME e # d, Listed(e) PROVE Listed(e)'
      <4>1. PICK i \in 1 .. Len(list) : list[i] = e
        BY <3>3 DEF Listed, Contains
      <4>2. i # k
        BY <4>1, <2>1, <3>3
      <4>3. CASE i < k
        <5>1. i \in 1 .. Len(list') /\ list'[i] = e
          BY <4>1, <4>3, <2>1, <2>2
        <5> QED
          BY <5>1 DEF Listed, Contains
      <4>4. CASE i > k
        <5>1. i - 1 \in 1 .. Len(list') /\ list'[i - 1] = e
          BY <4>1, <4>4, <2>1, <2>2
        <5> QED
          BY <5>1 DEF Listed, Contains
      <4> QED
        BY <4>1, <4>2, <4>3, <4>4, <2>1
    <3> QED
      BY <3>2, <3>3
  <2>5. \A e \in Docs : Listed(e)' <=> state'[e] \notin {"absent", "deleted"}
    BY <2>3, <2>4
  <2>6. \A i, j \in DOMAIN list' : list'[i] = list'[j] => i = j
    <3>1. SUFFICES ASSUME NEW i \in 1 .. Len(list) - 1, NEW j \in 1 .. Len(list) - 1,
                          list'[i] = list'[j]
                   PROVE  i = j
      BY <2>2
    <3> DEFINE At(m) == IF m < k THEN m ELSE m + 1
    <3>2. At(i) \in DOMAIN list /\ At(j) \in DOMAIN list
      BY <2>1
    <3>3. list[At(i)] = list'[i] /\ list[At(j)] = list'[j]
      BY <2>2
    <3>4. At(i) = At(j)
      BY <3>1, <3>2, <3>3
    <3> QED
      BY <3>4, <2>1
  <2> QED
    BY <2>2, <2>3, <2>5, <2>6
<1>5. CASE UNCHANGED serviceVars
  BY <1>5 DEF serviceVars, Listed, Contains
<1> QED
  BY <1>1, <1>2, <1>3, <1>4, <1>5 DEF ServiceStep

(* Processing only goes forward, and a deleted document stays deleted. *)
LEMMA StatesGoForward ==
  ASSUME ServiceInv, ServiceStep, NEW d \in Docs
  PROVE  /\ state[d] = "deleted" => state'[d] = "deleted"
         /\ state[d] \in {"EXTRACTION_COMPLETED", "deleted"} =>
              state'[d] \in {"EXTRACTION_COMPLETED", "deleted"}
         /\ state[d] \in {Target, "EXTRACTION_COMPLETED", "deleted"} =>
              state'[d] \in {Target, "EXTRACTION_COMPLETED", "deleted"}
         /\ state[d] = "deleted" \/ HasOcr(d) => state'[d] = "deleted" \/ HasOcr(d)'
<1> USE DEF ServiceInv, Target, HasOcr
<1>1. ASSUME NEW e \in Docs, Create(e, "INITIATED") \/ Create(e, "EXTRACTION_COMPLETED")
      PROVE  state'[d] = state[d] \/ state[d] = "absent"
  BY <1>1 DEF Create
<1>2. ASSUME NEW e \in Docs, Confirm(e)
      PROVE  state'[d] = state[d] \/ state[d] = "INITIATED"
  BY <1>2 DEF Confirm
<1>3. ASSUME NEW e \in Docs, Progress(e)
      PROVE  \/ state'[d] = state[d]
             \/ state[d] = "CONFIRMED"
             \/ state[d] = "OCR_COMPLETED" /\ state'[d] = "EXTRACTION_QUEUED"
             \/ state[d] = "EXTRACTION_QUEUED" /\ state'[d] = "EXTRACTION_COMPLETED"
  BY <1>3, ProgressIs
<1>4. ASSUME NEW e \in Docs, Delete(e)
      PROVE  state'[d] \in {state[d], "deleted"}
  BY <1>4 DEF Delete
<1>5. CASE UNCHANGED serviceVars
  BY <1>5 DEF serviceVars
<1> QED
  BY <1>1, <1>2, <1>3, <1>4, <1>5 DEF ServiceStep

LEMMA FilesAreDocs == Batch \subseteq Docs /\ DOMAIN Files = 1 .. Len(Files) /\ Len(Files) >= 1
BY MultiAssumption DEF Batch
-----------------------------------------------------------------------------
(* The cleanup job *)

CleanupInv ==
  /\ job \in {"idle", "listing", "deleting", "done", "failed", "over"}
  /\ job = "deleting" <=> todo # {}
  /\ todo \subseteq E2e
  /\ targets \subseteq E2e
  /\ pages \in 0 .. MaxPages
  /\ job \in {"idle", "listing", "deleting"} => pages < MaxPages

LEMMA NextDocumentKept ==
  ASSUME CleanupInv, NEW d \in todo, NextDocument(d), UNCHANGED targets
  PROVE  CleanupInv'
<1>1. job = "deleting" /\ pages < MaxPages /\ pages \in Nat
  BY CleanupAssumption DEF CleanupInv
<1>2. CASE todo' # {}
  BY <1>1, <1>2 DEF CleanupInv, NextDocument
<1>3. CASE todo' = {}
  BY <1>1, <1>3, CleanupAssumption DEF CleanupInv, NextDocument
<1> QED
  BY <1>2, <1>3

LEMMA CleanupKept ==
  ASSUME CleanupInv, CleanupStep
  PROVE  CleanupInv'
<1> USE CleanupAssumption
<1>1. CASE StartCleanup
  BY <1>1 DEF StartCleanup, CleanupInv
<1>2. CASE ListAgain
  BY <1>2 DEF ListAgain, CleanupInv, E2eDocs
<1>3. CASE ListingFails
  BY <1>3 DEF ListingFails, CleanupInv
<1>4. CASE DeleteOne
  BY <1>4, NextDocumentKept DEF DeleteOne
<1>5. CASE DeleteOneFails
  BY <1>5, NextDocumentKept DEF DeleteOneFails
<1>6. CASE CleanupExits
  BY <1>6 DEF CleanupExits, CleanupInv
<1> QED
  BY <1>1, <1>2, <1>3, <1>4, <1>5, <1>6 DEF CleanupStep

LEMMA CleanupServes ==
  ASSUME CleanupInv, CleanupStep
  PROVE  ServiceStep
<1>1. todo \subseteq Docs
  BY IngestionAssumption DEF CleanupInv
<1> QED
  BY <1>1 DEF CleanupStep, StartCleanup, ListAgain, ListingFails, DeleteOne, DeleteOneFails,
              CleanupExits, ServiceStep

(* A listing that ends the job holds all there is, unless the page is full. *)
LEMMA ShortPageIsAll ==
  ASSUME ServiceInv, Len(FirstPage) # CleanupPage, NEW d \in Docs, Contains(list, d)
  PROVE  Contains(FirstPage, d)
<1>1. list \in Seq(Docs) /\ Len(list) \in Nat
  BY DEF ServiceInv
<1>2. 0 * CleanupPage + 1 = 1 /\ (0 + 1) * CleanupPage = CleanupPage
  BY CleanupAssumption
<1>3. ~(CleanupPage < Len(list))
  BY <1>1, <1>2, CleanupAssumption DEF FirstPage, Page
<1>4. FirstPage = SubSeq(list, 1, Len(list))
  BY <1>2, <1>3 DEF FirstPage, Page
<1>5. Len(FirstPage) = Len(list) /\ \A i \in 1 .. Len(list) : FirstPage[i] = list[i]
  BY <1>1, <1>4
<1> QED
  BY <1>5 DEF Contains

LeftoverStep ==
  job # "done" /\ job' = "done" =>
    \A d \in targets : Contains(list', d) =>
      \/ d \in failed'
      \/ pages' = MaxPages
      \/ Len(FirstPage) = CleanupPage /\ E2eDocs = {}

LEMMA LeftoverHolds ==
  ASSUME ServiceInv, CleanupInv, CleanupStep
  PROVE  LeftoverStep
<1>1. SUFFICES ASSUME job # "done", job' = "done"
               PROVE  \A d \in targets : Contains(list', d) =>
                        \/ pages' = MaxPages
                        \/ Len(FirstPage) = CleanupPage /\ E2eDocs = {}
  BY DEF LeftoverStep
<1>2. CASE ListAgain
  <2>1. E2eDocs = {} /\ list' = list
    BY <1>1, <1>2 DEF ListAgain, serviceVars
  <2>2. \A d \in targets : d \in Docs /\ d \in E2e
    BY IngestionAssumption DEF CleanupInv
  <2> QED
    BY <2>1, <2>2, ShortPageIsAll DEF E2eDocs
<1>3. CASE DeleteOne \/ DeleteOneFails
  BY <1>1, <1>3 DEF DeleteOne, DeleteOneFails, NextDocument, CleanupInv
<1> QED
  BY <1>1, <1>2, <1>3 DEF CleanupStep, StartCleanup, ListingFails, CleanupExits
-----------------------------------------------------------------------------
(* The search by name *)

(* What a walk that began with Wanted listed knows while nothing is deleted: *)
(* Wanted is still ahead of it.                                             *)
Ahead == \E i \in DOMAIN list : list[i] = Wanted /\ i > page * PageSize

ReaderInv ==
  /\ reader \in {"idle", "walking", "napping", "found", "none", "failed"}
  /\ page \in 0 .. ReaderMaxPages - 1
  /\ overdue \in BOOLEAN
  /\ reader = "walking" =>
       /\ intact.deleted \subseteq Deleted
       /\ intact.listed /\ intact.deleted = Deleted => Ahead

(* Whatever happens to the list, short of a deletion, Wanted stays ahead.    *)
LEMMA ReaderUndisturbed ==
  ASSUME ServiceInv, ServiceStep, ReaderInv, UNCHANGED readerVars
  PROVE  ReaderInv'
<1> USE DEF readerVars
<1>1. Deleted \subseteq Deleted'
  BY StatesGoForward DEF Deleted
<1>2. SUFFICES ASSUME reader = "walking", intact.listed, intact.deleted = Deleted'
               PROVE  Ahead'
  BY <1>1 DEF ReaderInv
<1>3. Deleted' = Deleted /\ Ahead
  BY <1>1, <1>2 DEF ReaderInv
<1>4. PICK i \in DOMAIN list : list[i] = Wanted /\ i > page * PageSize
  BY <1>3 DEF Ahead
<1>5. page * PageSize \in Nat
  BY DocReaderAssumption DEF ReaderInv
<1>6. ASSUME NEW d \in Docs, Create(d, "INITIATED") \/ Create(d, "EXTRACTION_COMPLETED")
      PROVE  Ahead'
  <2>1. list' = <<d>> \o list /\ list \in Seq(Docs)
    BY <1>6 DEF Create, ServiceInv
  <2>2. i + 1 \in DOMAIN list' /\ list'[i + 1] = list[i]
    BY <2>1, InFront
  <2>3. i + 1 > page * PageSize /\ page' * PageSize' = page * PageSize
    <3>1. i \in Nat /\ page' = page
      BY <2>1
    <3> QED
      BY <3>1, <1>4, <1>5
  <2> QED
    BY <2>2, <2>3, <1>4 DEF Ahead
<1>7. ASSUME NEW d \in Docs, Confirm(d) \/ Progress(d)
      PROVE  Ahead'
  BY <1>7, <1>3, ProgressIs DEF Confirm, Ahead
<1>8. ASSUME NEW d \in Docs, Delete(d)
      PROVE  FALSE
  <2>1. Listed(d) /\ state' = [state EXCEPT ![d] = "deleted"]
    BY <1>8 DEF Delete, Listed, Contains, ServiceInv
  <2>2. d \notin Deleted /\ d \in Deleted'
    BY <2>1 DEF Deleted, ServiceInv
  <2> QED
    BY <2>2, <1>3
<1>9. CASE UNCHANGED serviceVars
  BY <1>9, <1>3 DEF serviceVars, Ahead
<1> QED
  BY <1>6, <1>7, <1>8, <1>9 DEF ServiceStep

LEMMA PageBounds ==
  ASSUME ReaderInv
  PROVE  /\ page * PageSize \in Nat
         /\ (page + 1) * PageSize = page * PageSize + PageSize
         /\ page \in Nat /\ PageSize \in Nat
<1>1. page \in Nat /\ PageSize \in Nat
  BY DocReaderAssumption DEF ReaderInv
<1> QED
  BY <1>1

(* Wanted is ahead and not on this page, so it is behind it. *)
LEMMA AheadOfThePage ==
  ASSUME ServiceInv, ReaderInv, Ahead, ~Here
  PROVE  \E i \in DOMAIN list : list[i] = Wanted /\ i > page * PageSize + PageSize
<1>1. PICK i \in DOMAIN list : list[i] = Wanted /\ i > page * PageSize
  BY DEF Ahead
<1>2. SUFFICES ASSUME i <= page * PageSize + PageSize PROVE FALSE
  BY <1>1, PageBounds DEF ServiceInv
<1> DEFINE m == page * PageSize
           n == IF (page + 1) * PageSize < Len(list) THEN (page + 1) * PageSize ELSE Len(list)
<1>3. m \in Nat /\ n \in Nat /\ n <= Len(list) /\ i <= n /\ i > m /\ i \in Nat
  BY <1>1, <1>2, PageBounds DEF ServiceInv
<1>4. Page(page, PageSize) = SubSeq(list, m + 1, n)
  BY DEF Page
<1> HIDE DEF m, n
<1>5. /\ i - m \in 1 .. Len(SubSeq(list, m + 1, n))
      /\ SubSeq(list, m + 1, n)[i - m] = list[i]
  BY <1>3 DEF ServiceInv
<1> QED
  BY <1>1, <1>4, <1>5 DEF Here, Contains

LEMMA ReaderKept ==
  ASSUME ServiceInv, ReaderInv, ReaderStep \/ DeadlinePasses
  PROVE  ReaderInv'
<1> USE DocReaderAssumption
<1>1. CASE BeginWalk
  <2>1. 0 * PageSize = 0
    OBVIOUS
  <2>2. Listed(Wanted) => Ahead'
    BY <1>1, <2>1 DEF BeginWalk, Listed, Contains, Ahead, serviceVars, ServiceInv
  <2>3. Deleted' = Deleted
    BY <1>1 DEF BeginWalk, Deleted, serviceVars
  <2> QED
    BY <1>1, <2>2, <2>3 DEF BeginWalk, ReaderInv
<1>2. CASE DeadlinePasses
  <2>1. Deleted' = Deleted /\ Ahead' = Ahead
    BY <1>2 DEF DeadlinePasses, Deleted, Ahead, serviceVars
  <2> QED
    BY <1>2, <2>1 DEF DeadlinePasses, ReaderInv
<1>3. CASE TurnPage
  <2>1. Deleted' = Deleted
    BY <1>3 DEF TurnPage, Deleted, serviceVars
  <2>2. Ahead => Ahead'
    <3>1. SUFFICES ASSUME Ahead PROVE Ahead'
      OBVIOUS
    <3>2. PICK i \in DOMAIN list : list[i] = Wanted /\ i > page * PageSize + PageSize
      BY <1>3, <3>1, AheadOfThePage DEF TurnPage
    <3>3. page' * PageSize = page * PageSize + PageSize
      BY <1>3, PageBounds DEF TurnPage
    <3> QED
      BY <1>3, <3>2, <3>3 DEF TurnPage, serviceVars, Ahead
  <2>3. page' \in 0 .. ReaderMaxPages - 1
    BY <1>3 DEF TurnPage, ReaderInv
  <2> QED
    BY <1>3, <2>1, <2>2, <2>3 DEF TurnPage, ReaderInv
<1>4. CASE Found \/ WalkEndsEmpty \/ RequestFails
  <2>1. reader' \in {"found", "napping", "none", "failed"} /\ page' = 0
    BY <1>4 DEF Found, WalkEndsEmpty, RequestFails, ReaderEnds
  <2>2. overdue' = FALSE \/ overdue' = overdue
    BY <1>4 DEF Found, WalkEndsEmpty, RequestFails, ReaderEnds
  <2>3. overdue' \in BOOLEAN
    BY <2>2 DEF ReaderInv
  <2>4. page' \in 0 .. ReaderMaxPages - 1
    BY <2>1
  <2> QED
    BY <2>1, <2>3, <2>4 DEF ReaderInv
<1> QED
  BY <1>1, <1>2, <1>3, <1>4 DEF ReaderStep

LEMMA ReaderServes == ReaderStep \/ DeadlinePasses => UNCHANGED serviceVars
BY DEF ReaderStep, DeadlinePasses, BeginWalk, Found, TurnPage, WalkEndsEmpty, RequestFails,
       ReaderEnds

MissStep ==
  reader = "walking" /\ reader' \in {"napping", "none"} =>
    ~intact.listed \/ intact.deleted # Deleted \/ page + 1 = ReaderMaxPages

LEMMA MissHolds ==
  ASSUME ServiceInv, ReaderInv, ReaderStep \/ DeadlinePasses
  PROVE  MissStep
<1>1. SUFFICES ASSUME reader = "walking", WalkEndsEmpty, IsLast,
                      intact.listed, intact.deleted = Deleted
               PROVE  FALSE
  BY DEF MissStep, ReaderStep, DeadlinePasses, BeginWalk, Found, TurnPage, WalkEndsEmpty,
         RequestFails, ReaderEnds
<1>2. \E i \in DOMAIN list : list[i] = Wanted /\ i > page * PageSize + PageSize
  BY <1>1, AheadOfThePage DEF ReaderInv, WalkEndsEmpty
<1>3. page * PageSize + PageSize >= Len(list)
  BY <1>1, PageBounds DEF IsLast
<1> QED
  BY <1>2, <1>3, PageBounds DEF ServiceInv
-----------------------------------------------------------------------------
(* The multi-file test *)

(* The tasks there can be in each phase of the test. *)
TasksIn(phase) ==
  CASE phase = "uploading" ->
         {"initiating", "putting", "confirming", "uploaded", "broken", "cancelled"}
    [] phase = "polling" ->
         {"looking", "answered", "napping", "seen", "timeout", "broken", "cancelled"}
    [] OTHER -> {"none"}

MultiTypes ==
  /\ multi \in {"idle", "uploading", "polling", "checking", "passed", "failed"}
  /\ task \in [Batch -> Running \cup Raising \cup {"none", "uploaded", "seen", "cancelled"}]
  /\ answer \in [Batch -> States \cup {"none"}]
  /\ late \in BOOLEAN
  /\ rows \in [Batch -> {"none", "PASS", "FAIL"}]
  /\ at \in 1 .. Len(Files) + 1
  /\ \A d \in Batch : task[d] \in TasksIn(multi)

(* Only a task that raised has siblings cancelled, and it is still there.    *)
CancelledForAReason ==
  \A d \in Batch : task[d] = "cancelled" => \E e \in Batch : task[e] \in Raising

(* A document that was in time stays at or beyond the target, and an answer  *)
(* that says otherwise is about a document that is beyond it.               *)
InTimeIsKept ==
  /\ inTime \subseteq Batch
  /\ inTime # {} => late
  /\ \A d \in inTime :
       /\ task[d] \in {"looking", "napping", "answered"}
       /\ state[d] \in {Target, "EXTRACTION_COMPLETED", "deleted"}
       /\ task[d] = "answered" /\ answer[d] # Target =>
            state[d] \in {"EXTRACTION_COMPLETED", "deleted"}

(* The artifacts that were there when they were fetched are still there.    *)
CheckedIsDone ==
  /\ multi \in {"idle", "uploading", "polling"} => at = 1
  /\ multi = "checking" =>
       /\ at <= Len(Files)
       /\ \A i \in 1 .. at - 1 : state[Files[i]] = "deleted" \/ HasOcr(Files[i])

MultiInv == MultiTypes /\ CancelledForAReason /\ InTimeIsKept /\ CheckedIsDone

LEMMA MultiUndisturbed ==
  ASSUME ServiceInv, ServiceStep, MultiInv, UNCHANGED multiVars
  PROVE  MultiInv'
<1> USE DEF multiVars
<1>1. MultiTypes' /\ CancelledForAReason'
  BY DEF MultiInv, MultiTypes, CancelledForAReason
<1>2. InTimeIsKept'
  <2>1. \A d \in inTime : d \in Docs
    BY FilesAreDocs DEF MultiInv, InTimeIsKept
  <2> QED
    BY <2>1, StatesGoForward DEF MultiInv, InTimeIsKept
<1>3. CheckedIsDone'
  <2>1. ASSUME NEW i \in 1 .. at - 1, multi = "checking",
               state[Files[i]] = "deleted" \/ HasOcr(Files[i])
        PROVE  state'[Files[i]] = "deleted" \/ HasOcr(Files[i])'
    <3>1. Files[i] \in Docs
      BY <2>1, MultiAssumption, FilesAreDocs DEF MultiInv, MultiTypes, CheckedIsDone
    <3> QED
      BY <2>1, <3>1, StatesGoForward
  <2> QED
    BY <2>1 DEF MultiInv, CheckedIsDone
<1> QED
  BY <1>1, <1>2, <1>3 DEF MultiInv

(* A step of one task *)

LEMMA TaskServes ==
  ASSUME NEW d \in Batch, TaskStep(d)
  PROVE  ServiceStep
<1>1. d \in Docs
  BY FilesAreDocs
<1>2. CASE Initiated(d)
  BY <1>1, <1>2 DEF Initiated, ServiceStep
<1>3. CASE Confirmed(d)
  BY <1>1, <1>3 DEF Confirmed, ServiceStep
<1>4. CASE RequestBreaks(d) \/ Cancelled(d)
  BY <1>1, <1>4 DEF RequestBreaks, Cancelled, MayBeServed, ServiceStep
<1>5. CASE Look(d) \/ Judge(d) \/ Wake(d)
  BY <1>5 DEF Look, Judge, Wake, ServiceStep
<1>6. CASE PutToSas(d)
  BY <1>6 DEF PutToSas, ServiceStep
<1> QED
  BY <1>2, <1>3, <1>4, <1>5, <1>6 DEF TaskStep

LEMMA TestServes == MultiStep \/ PollTimeout => UNCHANGED serviceVars
BY DEF MultiStep, PollTimeout, StartMulti, UploadsEnd, PollsEnd, CheckArtifacts

(* The end of a coroutine leaves the others as they are. *)
LEMMA EndsKept ==
  ASSUME ServiceInv, ServiceStep, MultiInv, UNCHANGED <<multi, rows, at>>,
         multi \in {"uploading", "polling"},
         NEW d \in Batch, task[d] \in Running,
         NEW s \in {"seen", "timeout", "broken", "cancelled"}, Ends(d, s),
         s \in {"seen", "timeout"} => multi = "polling",
         s = "cancelled" => \E e \in Batch : task[e] \in Raising
  PROVE  MultiInv'
<1>1. /\ task' = [task EXCEPT ![d] = s]
      /\ answer' = [answer EXCEPT ![d] = "none"]
      /\ inTime' = inTime \ {d}
      /\ late' = (late /\ \E e \in Batch \ {d} : task[e] \in Running)
  BY DEF Ends, Becomes
<1>2. MultiTypes'
  <2>1. late' \in BOOLEAN
    BY <1>1
  <2>2. /\ task' \in [Batch -> Running \cup Raising \cup {"none", "uploaded", "seen", "cancelled"}]
        /\ answer' \in [Batch -> States \cup {"none"}]
    BY <1>1 DEF MultiInv, MultiTypes, Running, Raising
  <2>3. \A e \in Batch : task'[e] \in TasksIn(multi')
    BY <1>1 DEF MultiInv, MultiTypes, TasksIn
  <2> QED
    BY <2>1, <2>2, <2>3 DEF MultiInv, MultiTypes
<1>3. CancelledForAReason'
  <2>1. ASSUME NEW e \in Batch, task[e] \in Raising
        PROVE  task'[e] \in Raising
    BY <1>1, <2>1 DEF MultiInv, MultiTypes, Running, Raising
  <2> QED
    BY <1>1, <2>1 DEF MultiInv, MultiTypes, CancelledForAReason
<1>4. InTimeIsKept'
  <2>1. \A e \in inTime' : e \in inTime /\ e # d /\ e \in Batch /\ e \in Docs
    BY <1>1, FilesAreDocs DEF MultiInv, InTimeIsKept
  <2>2. inTime' # {} => late'
    BY <1>1, <2>1 DEF MultiInv, InTimeIsKept, Running
  <2>3. \A e \in inTime' : task'[e] = task[e] /\ answer'[e] = answer[e]
    BY <1>1, <2>1 DEF MultiInv, MultiTypes
  <2> QED
    BY <2>1, <2>2, <2>3, StatesGoForward DEF MultiInv, InTimeIsKept
<1>5. CheckedIsDone'
  BY DEF MultiInv, CheckedIsDone
<1> QED
  BY <1>2, <1>3, <1>4, <1>5 DEF MultiInv

(* A step that goes on, with its documents and answer, in the same phase.    *)
LEMMA GoesOnKept ==
  ASSUME ServiceInv, ServiceStep, MultiInv, UNCHANGED <<multi, late, inTime, rows, at>>,
         multi \in {"uploading", "polling"},
         NEW d \in Batch, task[d] \in Running,
         NEW s \in TasksIn(multi) \ (Raising \cup {"cancelled"}), Becomes(d, s),
         NEW a \in States \cup {"none"}, answer' = [answer EXCEPT ![d] = a],
         d \in inTime =>
           /\ s \in {"looking", "napping", "answered"}
           /\ s = "answered" /\ a # Target => state'[d] \in {"EXTRACTION_COMPLETED", "deleted"}
  PROVE  MultiInv'
<1>1. task' = [task EXCEPT ![d] = s]
  BY DEF Becomes
<1>2. MultiTypes'
  <2>1. s \in Running \cup Raising \cup {"none", "uploaded", "seen", "cancelled"}
    BY DEF TasksIn, Running, Raising
  <2> QED
    BY <1>1, <2>1 DEF MultiInv, MultiTypes
<1>3. CancelledForAReason'
  <2>1. ASSUME NEW e \in Batch, task[e] \in Raising
        PROVE  task'[e] \in Raising
    BY <1>1, <2>1 DEF MultiInv, MultiTypes, Running, Raising
  <2> QED
    BY <1>1, <2>1 DEF MultiInv, MultiTypes, CancelledForAReason
<1>4. InTimeIsKept'
  <2>1. SUFFICES ASSUME NEW e \in inTime
                 PROVE  /\ task'[e] \in {"looking", "napping", "answered"}
                        /\ state'[e] \in {Target, "EXTRACTION_COMPLETED", "deleted"}
                        /\ task'[e] = "answered" /\ answer'[e] # Target =>
                             state'[e] \in {"EXTRACTION_COMPLETED", "deleted"}
    BY DEF MultiInv, InTimeIsKept
  <2>2. e \in Batch /\ e \in Docs
    BY FilesAreDocs DEF MultiInv, InTimeIsKept
  <2>3. state'[e] \in {Target, "EXTRACTION_COMPLETED", "deleted"}
    BY <2>2, StatesGoForward DEF MultiInv, InTimeIsKept
  <2>4. CASE e = d
    BY <1>1, <2>2, <2>3, <2>4 DEF MultiInv, MultiTypes
  <2>5. CASE e # d
    <3>1. task'[e] = task[e] /\ answer'[e] = answer[e]
      BY <1>1, <2>2, <2>5 DEF MultiInv, MultiTypes
    <3> QED
      BY <2>2, <2>3, <3>1, StatesGoForward DEF MultiInv, InTimeIsKept
  <2> QED
    BY <2>4, <2>5
<1>5. CheckedIsDone'
  BY DEF MultiInv, CheckedIsDone
<1> QED
  BY <1>2, <1>3, <1>4, <1>5 DEF MultiInv

LEMMA RunningPhase ==
  ASSUME MultiInv, NEW d \in Batch, task[d] \in Running
  PROVE  /\ multi \in {"uploading", "polling"}
         /\ task[d] \in {"initiating", "putting", "confirming"} <=> multi = "uploading"
         /\ d \in inTime => multi = "polling"
BY DEF MultiInv, MultiTypes, TasksIn, Running, InTimeIsKept

LEMMA TaskKept ==
  ASSUME ServiceInv, MultiInv, NEW d \in Batch, TaskStep(d)
  PROVE  MultiInv'
<1> USE TaskServes, RunningPhase, StatesAre
<1>1. answer = [answer EXCEPT ![d] = answer[d]] /\ answer[d] \in States \cup {"none"}
  BY DEF MultiInv, MultiTypes
<1>2. CASE Initiated(d)
  <2>1. "putting" \in TasksIn(multi) \ (Raising \cup {"cancelled"})
    BY <1>2 DEF Initiated, TasksIn, Raising, Running
  <2>2. d \notin inTime
    BY <1>2 DEF Initiated, Running
  <2> QED
    BY <1>1, <1>2, <2>1, <2>2, GoesOnKept DEF Initiated, Running
<1>3. CASE Confirmed(d)
  <2>1. "uploaded" \in TasksIn(multi) \ (Raising \cup {"cancelled"})
    BY <1>3 DEF Confirmed, TasksIn, Raising, Running
  <2>2. d \notin inTime
    BY <1>3 DEF Confirmed, Running
  <2> QED
    BY <1>1, <1>3, <2>1, <2>2, GoesOnKept DEF Confirmed, Running
<1>9. CASE PutToSas(d)
  <2>1. "confirming" \in TasksIn(multi) \ (Raising \cup {"cancelled"})
    BY <1>9 DEF PutToSas, TasksIn, Raising, Running
  <2>2. d \notin inTime
    BY <1>9 DEF PutToSas, Running
  <2> QED
    BY <1>1, <1>9, <2>1, <2>2, GoesOnKept DEF PutToSas, Running
<1>4. CASE RequestBreaks(d)
  BY <1>4, EndsKept DEF RequestBreaks, Running
<1>5. CASE Cancelled(d)
  BY <1>5, EndsKept DEF Cancelled
<1>6. CASE Look(d)
  <2>1. "answered" \in TasksIn(multi) \ (Raising \cup {"cancelled"})
    BY <1>6 DEF Look, TasksIn, Raising, Running
  <2>2. state[d] \in States \cup {"none"}
    BY FilesAreDocs DEF ServiceInv
  <2>3. d \in inTime /\ state[d] # Target => state'[d] \in {"EXTRACTION_COMPLETED", "deleted"}
    BY <1>6 DEF Look, serviceVars, MultiInv, InTimeIsKept
  <2> QED
    BY <1>6, <2>1, <2>2, <2>3, GoesOnKept DEF Look, Running
<1>7. CASE Judge(d)
  <2>1. task[d] = "answered" /\ multi = "polling"
    BY <1>7 DEF Judge, Running
  <2>2. CASE Ends(d, "seen") \/ Ends(d, "timeout")
    BY <1>7, <2>1, <2>2, EndsKept DEF Judge, Running
  <2>3. CASE Becomes(d, "napping") /\ answer' = [answer EXCEPT ![d] = "none"]
              /\ UNCHANGED <<late, inTime>>
    <3>1. "napping" \in TasksIn(multi) \ (Raising \cup {"cancelled"})
      BY <2>1 DEF TasksIn, Raising
    <3> QED
      BY <1>7, <2>1, <2>3, <3>1, GoesOnKept DEF Judge, Running
  <2> QED
    BY <1>7, <2>2, <2>3 DEF Judge
<1>8. CASE Wake(d)
  <2>1. "looking" \in TasksIn(multi) \ (Raising \cup {"cancelled"})
    BY <1>8 DEF Wake, TasksIn, Raising, Running
  <2> QED
    BY <1>1, <1>8, <2>1, GoesOnKept DEF Wake, Running
<1> QED
  BY <1>2, <1>3, <1>4, <1>5, <1>6, <1>7, <1>8, <1>9 DEF TaskStep

(* A step of the test itself *)

(* Once a group is over, none of its tasks runs, or is about to be looked at. *)
LEMMA NobodyInTime ==
  ASSUME MultiInv, Over \/ multi # "polling"
  PROVE  inTime = {}
<1>1. ASSUME NEW d \in inTime
      PROVE  FALSE
  <2>1. d \in Batch /\ task[d] \in {"looking", "napping", "answered"}
    BY DEF MultiInv, InTimeIsKept
  <2> QED
    BY <2>1 DEF Over, Running, MultiInv, MultiTypes, TasksIn
<1> QED
  BY <1>1

LEMMA TestKept ==
  ASSUME ServiceInv, MultiInv, MultiStep \/ PollTimeout
  PROVE  MultiInv'
<1>1. CASE StartMulti
  <2>1. inTime = {} /\ at = 1
    BY <1>1, NobodyInTime DEF StartMulti, MultiInv, CheckedIsDone
  <2>2. MultiTypes'
    BY <1>1 DEF StartMulti, MultiInv, MultiTypes, TasksIn, Running
  <2> QED
    BY <1>1, <2>1, <2>2
       DEF StartMulti, MultiInv, CancelledForAReason, InTimeIsKept, CheckedIsDone
<1>2. CASE UploadsEnd
  <2>1. inTime = {} /\ at = 1
    BY <1>2, NobodyInTime DEF UploadsEnd, MultiInv, CheckedIsDone
  <2>2. MultiTypes'
    BY <1>2 DEF UploadsEnd, MultiInv, MultiTypes, TasksIn, Running
  <2> QED
    BY <1>2, <2>1, <2>2
       DEF UploadsEnd, MultiInv, CancelledForAReason, InTimeIsKept, CheckedIsDone
<1>3. CASE PollsEnd
  <2>1. inTime = {} /\ at = 1
    BY <1>3, NobodyInTime DEF PollsEnd, MultiInv, CheckedIsDone
  <2>2. MultiTypes'
    <3>1. multi' \in {"failed", "checking"}
      BY <1>3 DEF PollsEnd, RowsRecorded
    <3>2. rows' \in [Batch -> {"none", "PASS", "FAIL"}]
      BY <1>3 DEF PollsEnd, RowsRecorded, MultiInv, MultiTypes
    <3>3. task' = [d \in Batch |-> "none"]
      BY <1>3 DEF PollsEnd
    <3>4. \A d \in Batch : task'[d] \in TasksIn(multi')
      BY <3>1, <3>3 DEF TasksIn
    <3> QED
      BY <1>3, <3>1, <3>2, <3>3, <3>4 DEF PollsEnd, MultiInv, MultiTypes
  <2>3. CheckedIsDone'
    BY <1>3, <2>1, FilesAreDocs DEF PollsEnd, RowsRecorded, CheckedIsDone
  <2> QED
    BY <1>3, <2>1, <2>2, <2>3 DEF PollsEnd, MultiInv, CancelledForAReason, InTimeIsKept
<1>4. CASE CheckArtifacts
  <2>1. inTime = {} /\ multi = "checking" /\ at <= Len(Files) /\ UNCHANGED <<state, inTime>>
    BY <1>4, NobodyInTime DEF CheckArtifacts, MultiInv, CheckedIsDone, serviceVars
  <2>2. CASE multi' = "failed" /\ UNCHANGED at
    BY <1>4, <2>1, <2>2 DEF CheckArtifacts, MultiInv, MultiTypes, TasksIn, CancelledForAReason,
                            InTimeIsKept, CheckedIsDone
  <2>3. CASE /\ HasOcr(Files[at]) /\ at' = at + 1
             /\ multi' = IF at = Len(Files) THEN "passed" ELSE "checking"
    <3>1. at \in Nat /\ Len(Files) \in Nat
      BY MultiAssumption DEF MultiInv, MultiTypes
    <3>2. at' \in 1 .. Len(Files) + 1 /\ (multi' = "checking" => at' <= Len(Files))
      BY <2>1, <2>3, <3>1
    <3>3. MultiTypes'
      BY <1>4, <2>1, <2>3, <3>2 DEF CheckArtifacts, MultiInv, MultiTypes, TasksIn
    <3>4. \A i \in 1 .. at' - 1 : i \in 1 .. at - 1 \/ i = at
      BY <2>3, <3>1
    <3>5. CheckedIsDone'
      BY <2>1, <2>3, <3>2, <3>4 DEF MultiInv, CheckedIsDone, HasOcr
    <3> QED
      BY <1>4, <2>1, <3>3, <3>5
         DEF CheckArtifacts, MultiInv, CancelledForAReason, InTimeIsKept
  <2> QED
    BY <1>4, <2>2, <2>3 DEF CheckArtifacts
<1>5. CASE PollTimeout
  <2>1. InTimeIsKept'
    BY <1>5 DEF PollTimeout, InTimeIsKept, serviceVars
  <2> QED
    BY <1>5, <2>1 DEF PollTimeout, MultiInv, MultiTypes, CancelledForAReason, CheckedIsDone,
                      HasOcr, serviceVars
<1> QED
  BY <1>1, <1>2, <1>3, <1>4, <1>5 DEF MultiStep

UnseenStep ==
  /\ \A d \in Batch :
       rows'[d] = "PASS" /\ rows[d] # "PASS" =>
         task[d] = "seen" \/ \E e \in Batch : task[e] = "timeout" /\ rows'[e] = "FAIL"
  /\ multi' = "passed" /\ multi # "passed" =>
       \A d \in Batch : state[d] = "deleted" \/ HasOcr(d)

LEMMA UnseenHolds ==
  ASSUME MultiInv, MultiStep \/ PollTimeout
  PROVE  UnseenStep
<1>1. ASSUME NEW d \in Batch, rows'[d] = "PASS", rows[d] # "PASS"
      PROVE  task[d] = "seen" \/ \E e \in Batch : task[e] = "timeout" /\ rows'[e] = "FAIL"
  <2>1. PollsEnd /\ ~AnyBroken /\ RowsRecorded
    BY <1>1 DEF MultiStep, PollTimeout, StartMulti, UploadsEnd, PollsEnd, CheckArtifacts
  <2>2. task[d] \in {"seen", "timeout", "cancelled"}
    BY <2>1 DEF PollsEnd, Over, AnyBroken, Running, MultiInv, MultiTypes, TasksIn
  <2>3. \A e \in Batch : rows'[e] = IF task[e] = "timeout" THEN "FAIL" ELSE "PASS"
    BY <2>1 DEF RowsRecorded, FailedUfids
  <2>4. ASSUME task[d] = "cancelled"
        PROVE  \E e \in Batch : task[e] = "timeout" /\ rows'[e] = "FAIL"
    BY <2>1, <2>3, <2>4 DEF MultiInv, CancelledForAReason, Raising, AnyBroken
  <2> QED
    BY <1>1, <2>2, <2>3, <2>4
<1>2. ASSUME multi' = "passed", multi # "passed"
      PROVE  \A d \in Batch : state[d] = "deleted" \/ HasOcr(d)
  <2>1. multi = "checking" /\ at = Len(Files) /\ HasOcr(Files[at])
    BY <1>2 DEF MultiStep, PollTimeout, StartMulti, UploadsEnd, PollsEnd, RowsRecorded,
                CheckArtifacts
  <2>2. \A i \in 1 .. Len(Files) - 1 : state[Files[i]] = "deleted" \/ HasOcr(Files[i])
    BY <2>1 DEF MultiInv, CheckedIsDone
  <2>3. \A d \in Batch : \E i \in 1 .. Len(Files) : d = Files[i]
    BY FilesAreDocs DEF Batch
  <2>4. \A i \in 1 .. Len(Files) : i \in 1 .. Len(Files) - 1 \/ i = Len(Files)
    BY MultiAssumption
  <2> QED
    BY <2>1, <2>2, <2>3, <2>4
<1> QED
  BY <1>1, <1>2 DEF UnseenStep

(* No step of a task records a row or decides the test. *)
LEMMA TaskLeavesRows ==
  ASSUME NEW d \in Batch, TaskStep(d)
  PROVE  UNCHANGED <<multi, rows>>
BY DEF TaskStep, Initiated, PutToSas, Confirmed, RequestBreaks, Cancelled, Look, Judge, Wake

LastLookStep ==
  \A d \in inTime : task[d] # "timeout" /\ task'[d] = "timeout" => state[d] # Target

LEMMA LastLookHolds ==
  ASSUME MultiInv, NEW e \in Batch, TaskStep(e)
  PROVE  LastLookStep
<1>1. SUFFICES ASSUME NEW d \in inTime, task[d] # "timeout", task'[d] = "timeout"
               PROVE  state[d] # Target
  BY DEF LastLookStep
<1>2. d \in Batch
  BY DEF MultiInv, InTimeIsKept
<1>3. task[e] = "answered" /\ answer[e] # Target /\ d = e
  BY <1>1, <1>2 DEF TaskStep, Initiated, PutToSas, Confirmed, RequestBreaks, Cancelled, Look, Judge, Wake,
                    Ends, Becomes, MultiInv, MultiTypes
<1> QED
  BY <1>1, <1>3 DEF MultiInv, InTimeIsKept, Target

LEMMA LastLookUntouched ==
  ASSUME MultiInv, MultiStep \/ PollTimeout
  PROVE  LastLookStep
<1>1. inTime \subseteq Batch
  BY DEF MultiInv, InTimeIsKept
<1> QED
  BY <1>1 DEF LastLookStep, MultiStep, PollTimeout, StartMulti, UploadsEnd, PollsEnd, CheckArtifacts
-----------------------------------------------------------------------------
(* No client goes on for ever *)

(* The cleanup job: what each page not yet listed may cost, the listing and  *)
(* its deletions, and what is left of the page at hand.                     *)
Worth(p) == (MaxPages - p) * (CleanupPage + 1)

JobLeft ==
  CASE job = "idle" -> Worth(pages) + 3
    [] job = "listing" -> Worth(pages) + 2
    [] job = "deleting" -> Worth(pages + 1) + Cardinality(todo) + 2
    [] job \in {"done", "failed"} -> 1
    [] OTHER -> 0

(* A job never has more to delete than one page holds. *)
TodoFits == IsFiniteSet(todo) /\ Cardinality(todo) <= CleanupPage

JobDwindles == UNCHANGED cleanupVars \/ JobLeft' < JobLeft

(* The search by name, once its deadline has passed: the rest of one walk.   *)
SearchLeft ==
  CASE reader = "walking" -> ReaderMaxPages - page
    [] reader = "napping" -> ReaderMaxPages + 1
    [] OTHER -> 0

Searching == reader \in {"walking", "napping"}

SearchInv == overdue => Searching

SearchDwindles ==
  overdue => /\ UNCHANGED readerVars \/ SearchLeft' < SearchLeft
             /\ overdue' \/ ~Searching'

(* The multi-file test: its phases, and the artifacts one by one.           *)
PhaseLeft ==
  CASE multi = "idle" -> Len(Files) + 3
    [] multi = "uploading" -> Len(Files) + 2
    [] multi = "polling" -> Len(Files) + 1
    [] multi = "checking" -> Len(Files) + 1 - at
    [] OTHER -> 0

(* Within a phase, its tasks; a poll naps again only before the deadline.    *)
TaskLeft(d) ==
  CASE task[d] \in {"initiating", "napping"} -> 3
    [] task[d] \in {"putting", "looking"} -> 2
    [] task[d] \in {"confirming", "answered"} -> 1
    [] OTHER -> 0

TestDwindles ==
  /\ UNCHANGED <<multi, at>> \/ PhaseLeft' < PhaseLeft
  /\ UNCHANGED multi =>
       /\ late => late' \/ Over'
       /\ late \/ multi # "polling" =>
            \A d \in Batch : task'[d] = task[d] \/ TaskLeft(d)' < TaskLeft(d)

LEMMA WorthIs ==
  ASSUME NEW p \in 0 .. MaxPages, p < MaxPages
  PROVE  /\ Worth(p) \in Nat /\ Worth(p + 1) \in Nat
         /\ Worth(p) = Worth(p + 1) + CleanupPage + 1
<1>1. PICK k \in Nat : MaxPages - p = k + 1 /\ MaxPages - (p + 1) = k
  BY CleanupAssumption
<1>2. PICK c \in Nat : CleanupPage + 1 = c /\ CleanupPage \in Nat
  BY CleanupAssumption
<1>3. (k + 1) * c = k * c + c /\ k * c \in Nat
  OBVIOUS
<1>4. Worth(p) = (k + 1) * c /\ Worth(p + 1) = k * c
  BY <1>1, <1>2 DEF Worth
<1> QED
  BY <1>2, <1>3, <1>4

(* The documents of a page are not more than its size. *)
LEMMA PageIsBounded ==
  ASSUME ServiceInv
  PROVE  IsFiniteSet(E2eDocs) /\ Cardinality(E2eDocs) <= CleanupPage
<1>1. list \in Seq(Docs) /\ Len(list) \in Nat /\ CleanupPage \in Nat
  BY CleanupAssumption DEF ServiceInv
<1>2. 0 * CleanupPage + 1 = 1 /\ (0 + 1) * CleanupPage = CleanupPage
  BY <1>1
<1>3. PICK n \in Nat : n <= CleanupPage /\ n <= Len(list) /\ FirstPage = SubSeq(list, 1, n)
  <2> DEFINE n == IF CleanupPage < Len(list) THEN CleanupPage ELSE Len(list)
  <2>1. FirstPage = SubSeq(list, 1, n)
    BY <1>2 DEF FirstPage, Page
  <2>2. n \in Nat /\ n <= CleanupPage /\ n <= Len(list)
    BY <1>1
  <2> HIDE DEF n
  <2> QED
    BY <2>1, <2>2
<1>4. DOMAIN FirstPage = 1 .. n
  BY <1>1, <1>3
<1> DEFINE place == [d \in E2eDocs |-> CHOOSE i \in 1 .. n : FirstPage[i] = d]
<1>5. \A d \in E2eDocs : place[d] \in 1 .. n /\ FirstPage[place[d]] = d
  BY <1>4 DEF E2eDocs, Contains
<1>6. place \in Injection(E2eDocs, 1 .. n)
  <2>1. place \in [E2eDocs -> 1 .. n]
    BY <1>5
  <2>2. \A d, e \in E2eDocs : place[d] = place[e] => d = e
    BY <1>5
  <2> HIDE DEF place
  <2> QED
    BY <2>1, <2>2 DEF Injection, IsInjective
<1>7. IsFiniteSet(1 .. n) /\ Cardinality(1 .. n) = n
  BY FS_Interval
<1> HIDE DEF place
<1>8. IsFiniteSet(E2eDocs) /\ Cardinality(E2eDocs) <= n
  BY <1>6, <1>7, FS_Injection
<1>9. Cardinality(E2eDocs) \in Nat
  BY <1>8, FS_CardinalityType
<1> QED
  BY <1>1, <1>3, <1>8, <1>9

(* One document less to delete. *)
LEMMA OneLess ==
  ASSUME TodoFits, NEW d \in todo
  PROVE  /\ IsFiniteSet(todo \ {d})
         /\ Cardinality(todo) \in Nat /\ Cardinality(todo \ {d}) \in Nat
         /\ Cardinality(todo \ {d}) = Cardinality(todo) - 1
         /\ Cardinality(todo \ {d}) <= CleanupPage
<1>1. /\ IsFiniteSet(todo \ {d})
      /\ Cardinality(todo \ {d}) = Cardinality(todo) - 1
  BY FS_RemoveElement DEF TodoFits
<1>2. Cardinality(todo) \in Nat /\ Cardinality(todo \ {d}) \in Nat /\ Cardinality(todo) <= CleanupPage
  BY <1>1, FS_CardinalityType DEF TodoFits
<1> QED
  BY <1>1, <1>2, CleanupAssumption

LEMMA NextDocumentDwindles ==
  ASSUME CleanupInv, TodoFits, NEW d \in todo, NextDocument(d)
  PROVE  TodoFits' /\ JobLeft' < JobLeft
<1>1. job = "deleting" /\ pages \in 0 .. MaxPages /\ pages < MaxPages /\ todo' = todo \ {d}
  BY DEF CleanupInv, NextDocument
<1>2. PICK w \in Nat : w = Worth(pages + 1)
  BY <1>1, WorthIs
<1>3. PICK m \in Nat : m = Cardinality(todo) /\ m - 1 = Cardinality(todo') /\ m - 1 \in Nat
  BY <1>1, OneLess
<1>4. TodoFits'
  BY <1>1, OneLess DEF TodoFits
<1>5. JobLeft = w + m + 2
  BY <1>1, <1>2, <1>3 DEF JobLeft
<1>6. CASE todo' # {}
  <2>1. job' = "deleting" /\ pages' = pages
    BY <1>1, <1>6 DEF NextDocument
  <2>2. JobLeft' = w + (m - 1) + 2
    BY <1>2, <1>3, <2>1 DEF JobLeft, Worth
  <2> QED
    BY <1>3, <1>4, <1>5, <2>2
<1>7. CASE todo' = {}
  <2>1. pages' = pages + 1 /\ job' \in {"done", "listing"}
    BY <1>7 DEF NextDocument
  <2>2. JobLeft' = 1 \/ JobLeft' = w + 2
    BY <1>2, <2>1 DEF JobLeft, Worth
  <2> QED
    BY <1>3, <1>4, <1>5, <2>2
<1> QED
  BY <1>6, <1>7

LEMMA JobStep ==
  ASSUME ServiceInv, CleanupInv, TodoFits, CleanupStep
  PROVE  TodoFits' /\ JobLeft' < JobLeft
<1>1. pages \in 0 .. MaxPages /\ (job \in {"idle", "listing", "deleting"} => pages < MaxPages)
  BY DEF CleanupInv
<1>2. CASE StartCleanup
  <2>1. job = "idle" /\ job' = "listing" /\ pages' = pages /\ todo' = todo
    BY <1>2 DEF StartCleanup
  <2>2. PICK w \in Nat : w = Worth(pages)
    BY <1>1, <2>1, WorthIs
  <2>3. JobLeft = w + 3 /\ JobLeft' = w + 2
    BY <2>1, <2>2 DEF JobLeft, Worth
  <2> QED
    BY <2>1, <2>2, <2>3 DEF TodoFits
<1>3. CASE ListAgain
  <2>1. /\ job = "listing" /\ job' \in {"done", "deleting"} /\ pages' = pages
        /\ todo' = E2eDocs
    BY <1>3 DEF ListAgain
  <2>2. IsFiniteSet(todo') /\ Cardinality(todo') <= CleanupPage
    BY <2>1, PageIsBounded
  <2>3. PICK m \in Nat : m = Cardinality(todo') /\ m <= CleanupPage
    BY <2>2, FS_CardinalityType
  <2>4. PICK w \in Nat : w = Worth(pages + 1) /\ Worth(pages) = w + CleanupPage + 1
    BY <1>1, <2>1, WorthIs
  <2>5. JobLeft = (w + CleanupPage + 1) + 2
    BY <2>1, <2>4 DEF JobLeft
  <2>6. JobLeft' = 1 \/ JobLeft' = w + m + 2
    BY <2>1, <2>3, <2>4 DEF JobLeft, Worth
  <2>7. CleanupPage \in Nat
    BY CleanupAssumption
  <2>8. JobLeft' < JobLeft
    BY <2>3, <2>5, <2>6, <2>7
  <2> QED
    BY <2>2, <2>8 DEF TodoFits
<1>4. CASE ListingFails
  <2>1. job = "listing" /\ job' = "failed" /\ todo' = todo
    BY <1>4 DEF ListingFails
  <2>2. PICK w \in Nat : w = Worth(pages)
    BY <1>1, <2>1, WorthIs
  <2>3. JobLeft = w + 2 /\ JobLeft' = 1
    BY <2>1, <2>2 DEF JobLeft
  <2> QED
    BY <2>1, <2>2, <2>3 DEF TodoFits
<1>5. CASE DeleteOne
  BY <1>5, NextDocumentDwindles DEF DeleteOne
<1>6. CASE DeleteOneFails
  BY <1>6, NextDocumentDwindles DEF DeleteOneFails
<1>7. CASE CleanupExits
  <2>1. JobLeft = 1 /\ JobLeft' = 0 /\ todo' = {}
    BY <1>7 DEF CleanupExits, JobLeft
  <2>2. TodoFits'
    BY <2>1, FS_EmptySet, CleanupAssumption DEF TodoFits
  <2> QED
    BY <2>1, <2>2
<1> QED
  BY <1>2, <1>3, <1>4, <1>5, <1>6, <1>7 DEF CleanupStep

LEMMA SearchStep ==
  ASSUME ReaderInv, SearchInv, ReaderStep \/ DeadlinePasses
  PROVE  SearchInv' /\ SearchDwindles
<1> USE DocReaderAssumption
<1>1. page \in 0 .. ReaderMaxPages - 1 /\ ReaderMaxPages \in Nat
  BY DEF ReaderInv
<1>2. CASE BeginWalk
  <2>1. reader' = "walking" /\ page' = 0 /\ overdue' = overdue /\ (overdue => reader = "napping")
    BY <1>2 DEF BeginWalk, SearchInv, Searching
  <2>2. SearchLeft' = ReaderMaxPages /\ (overdue => SearchLeft = ReaderMaxPages + 1)
    BY <1>1, <2>1 DEF SearchLeft
  <2> QED
    BY <1>1, <2>1, <2>2 DEF SearchInv, SearchDwindles, Searching
<1>3. CASE DeadlinePasses
  BY <1>3 DEF DeadlinePasses, SearchInv, SearchDwindles, Searching
<1>4. CASE TurnPage
  <2>1. reader = "walking" /\ reader' = "walking" /\ page' = page + 1 /\ overdue' = overdue
    BY <1>4 DEF TurnPage
  <2>2. SearchLeft = ReaderMaxPages - page /\ SearchLeft' = ReaderMaxPages - (page + 1)
    BY <2>1 DEF SearchLeft
  <2> QED
    BY <1>1, <2>1, <2>2 DEF SearchInv, SearchDwindles, Searching
<1>5. ASSUME reader = "walking", NEW outcome \in {"found", "none", "failed"}, ReaderEnds(outcome)
      PROVE  SearchInv' /\ SearchDwindles
  <2>1. SearchLeft = ReaderMaxPages - page /\ SearchLeft' = 0
    BY <1>5 DEF ReaderEnds, SearchLeft
  <2> QED
    BY <1>1, <1>5, <2>1 DEF ReaderEnds, SearchInv, SearchDwindles, Searching
<1>6. CASE Found \/ RequestFails
  BY <1>5, <1>6 DEF Found, RequestFails
<1>7. CASE WalkEndsEmpty
  <2>1. CASE overdue
    BY <1>5, <1>7, <2>1 DEF WalkEndsEmpty
  <2>2. CASE ~overdue
    BY <1>7, <2>2 DEF WalkEndsEmpty, ReaderEnds, SearchInv, SearchDwindles
  <2> QED
    BY <2>1, <2>2
<1> QED
  BY <1>2, <1>3, <1>4, <1>6, <1>7 DEF ReaderStep

(* A task that goes on or ends has one step less before it. *)
LEMMA TaskDwindles ==
  ASSUME MultiInv, NEW d \in Batch, TaskStep(d)
  PROVE  TestDwindles
<1>1. /\ task \in [Batch -> Running \cup Raising \cup {"none", "uploaded", "seen", "cancelled"}]
      /\ UNCHANGED <<multi, at>>
  BY DEF MultiInv, MultiTypes, TaskStep, Initiated, PutToSas, Confirmed, RequestBreaks, Cancelled, Look,
         Judge, Wake
<1>2. ASSUME NEW s \in {"broken", "cancelled", "seen", "timeout"}, Ends(d, s), task[d] \in Running
      PROVE  TestDwindles
  <2>1. task' = [task EXCEPT ![d] = s] /\ (late /\ ~late' => \A e \in Batch \ {d} : task[e] \notin Running)
    BY <1>2 DEF Ends, Becomes
  <2>2. task'[d] = s /\ \A e \in Batch \ {d} : task'[e] = task[e]
    BY <1>1, <2>1
  <2>3. s \notin Running
    BY DEF Running
  <2>4. late /\ ~late' => Over'
    BY <2>1, <2>2, <2>3 DEF Over
  <2>5. TaskLeft(d)' < TaskLeft(d)
    BY <1>2, <2>2 DEF TaskLeft, Running
  <2> QED
    BY <1>1, <2>2, <2>4, <2>5 DEF TestDwindles
<1>3. ASSUME NEW s, Becomes(d, s), UNCHANGED late,
             \/ task[d] = "initiating" /\ s = "putting"
             \/ task[d] = "putting" /\ s = "confirming"
             \/ task[d] = "confirming" /\ s = "uploaded"
             \/ task[d] = "looking" /\ s = "answered"
             \/ task[d] = "answered" /\ s = "napping" /\ ~late
             \/ task[d] = "napping" /\ s = "looking"
      PROVE  TestDwindles
  <2>1. task'[d] = s /\ \A e \in Batch \ {d} : task'[e] = task[e]
    BY <1>1, <1>3 DEF Becomes
  <2>2. task[d] = "answered" => multi = "polling"
    BY RunningPhase DEF Running
  <2>3. late \/ multi # "polling" => TaskLeft(d)' < TaskLeft(d)
    BY <1>3, <2>1, <2>2 DEF TaskLeft
  <2> QED
    BY <1>1, <1>3, <2>1, <2>3 DEF TestDwindles
<1>4. CASE Initiated(d) \/ PutToSas(d) \/ Confirmed(d) \/ Look(d) \/ Wake(d)
  BY <1>3, <1>4 DEF Initiated, PutToSas, Confirmed, Look, Wake
<1>5. CASE RequestBreaks(d) \/ Cancelled(d)
  BY <1>2, <1>5 DEF RequestBreaks, Cancelled, Running
<1>6. CASE Judge(d)
  BY <1>2, <1>3, <1>6 DEF Judge, Running
<1> QED
  BY <1>4, <1>5, <1>6 DEF TaskStep

LEMMA PhaseDwindles ==
  ASSUME MultiInv, MultiStep \/ PollTimeout
  PROVE  TestDwindles
<1>1. Len(Files) \in Nat /\ Len(Files) >= 1 /\ at \in 1 .. Len(Files) + 1
  BY FilesAreDocs, MultiAssumption DEF MultiInv, MultiTypes
<1>2. CASE StartMulti
  <2>1. PhaseLeft = Len(Files) + 3 /\ PhaseLeft' = Len(Files) + 2 /\ multi' # multi
    BY <1>2 DEF StartMulti, PhaseLeft
  <2> QED
    BY <1>1, <2>1 DEF TestDwindles
<1>3. CASE UploadsEnd
  <2>1. /\ PhaseLeft = Len(Files) + 2 /\ PhaseLeft' \in {0, Len(Files) + 1}
        /\ multi' # multi
    BY <1>3 DEF UploadsEnd, PhaseLeft
  <2> QED
    BY <1>1, <2>1 DEF TestDwindles
<1>4. CASE PollsEnd
  <2>1. multi = "polling" /\ multi' \in {"failed", "checking"} /\ at' = at
    BY <1>4 DEF PollsEnd, RowsRecorded
  <2>2. PhaseLeft = Len(Files) + 1 /\ PhaseLeft' \in {0, Len(Files) + 1 - at}
    BY <2>1 DEF PhaseLeft
  <2> QED
    BY <1>1, <2>1, <2>2 DEF TestDwindles
<1>5. CASE CheckArtifacts
  <2>1. at <= Len(Files) /\ multi = "checking" /\ UNCHANGED <<task, late>>
    BY <1>5 DEF CheckArtifacts, MultiInv, CheckedIsDone
  <2>2. PhaseLeft = Len(Files) + 1 - at
    BY <2>1 DEF PhaseLeft
  <2>3. CASE multi' = "failed"
    BY <1>1, <2>1, <2>2, <2>3 DEF PhaseLeft, TestDwindles
  <2>4. CASE at' = at + 1 /\ multi' \in {"passed", "checking"}
    <3>1. PhaseLeft' = 0 \/ PhaseLeft' = Len(Files) + 1 - (at + 1)
      BY <2>4 DEF PhaseLeft
    <3>2. PhaseLeft' < PhaseLeft
      BY <1>1, <2>1, <2>2, <3>1
    <3> QED
      BY <2>1, <3>2 DEF TestDwindles
  <2> QED
    BY <1>5, <2>3, <2>4 DEF CheckArtifacts
<1>6. CASE PollTimeout
  BY <1>6 DEF PollTimeout, TestDwindles
<1> QED
  BY <1>2, <1>3, <1>4, <1>5, <1>6 DEF MultiStep
-----------------------------------------------------------------------------
(* The theorems *)

TenantInv == ServiceInv /\ CleanupInv /\ ReaderInv /\ MultiInv

LEMMA InitHolds == Init => TenantInv
<1> SUFFICES ASSUME Init PROVE TenantInv
  OBVIOUS
<1> USE StatesAre DEF Init
<1>1. ServiceInv
  <2>1. list \in Seq(Docs) /\ \A i, j \in DOMAIN list : list[i] = list[j] => i = j
    BY IngestionAssumption DEF ServiceInit
  <2>2. state \in [Docs -> States]
    BY DEF ServiceInit
  <2>3. \A d \in Docs : Listed(d) <=> state[d] \notin {"absent", "deleted"}
    BY DEF ServiceInit, Listed
  <2> QED
    BY <2>1, <2>2, <2>3 DEF ServiceInv
<1>2. CleanupInv
  BY CleanupAssumption DEF CleanupInit, CleanupInv
<1>3. ReaderInv
  <2>1. 0 \in 0 .. ReaderMaxPages - 1
    BY DocReaderAssumption
  <2>2. overdue \in BOOLEAN
    BY DEF ReaderInit
  <2> QED
    BY <2>1, <2>2 DEF ReaderInit, ReaderInv
<1>4. MultiInv
  <2>1. at \in 1 .. Len(Files) + 1
    BY FilesAreDocs, MultiAssumption DEF MultiInit
  <2>2. late \in BOOLEAN
    BY DEF MultiInit
  <2>3. MultiTypes
    BY <2>1, <2>2 DEF MultiInit, MultiTypes, TasksIn
  <2> QED
    BY <2>3 DEF MultiInit, MultiInv, CancelledForAReason, InTimeIsKept, CheckedIsDone
<1> QED
  BY <1>1, <1>2, <1>3, <1>4 DEF TenantInv

(* A step of Next is one client's, or nobody's, and leaves the others alone. *)
LEMMA NextIs ==
  ASSUME TenantInv, Next
  PROVE  /\ ServiceStep
         /\ CleanupStep \/ UNCHANGED cleanupVars
         /\ ReaderStep \/ DeadlinePasses \/ UNCHANGED readerVars
         /\ MultiStep \/ PollTimeout \/ (\E d \in Batch : TaskStep(d)) \/ UNCHANGED multiVars
<1>1. CASE CleanupRuns
  BY <1>1, CleanupServes DEF CleanupRuns, TenantInv
<1>2. CASE ReaderRuns
  BY <1>2, ReaderServes DEF ReaderRuns, ServiceStep
<1>3. CASE TestRuns
  BY <1>3, TestServes DEF TestRuns, ServiceStep
<1>4. ASSUME NEW d \in Batch, DocRuns(d)
      PROVE  ServiceStep /\ TaskStep(d) /\ UNCHANGED <<cleanupVars, readerVars>>
  BY <1>4, TaskServes DEF DocRuns
<1>5. ASSUME NEW d \in Batch, PipelineRuns(d)
      PROVE  ServiceStep /\ UNCHANGED <<cleanupVars, readerVars, multiVars>>
  BY <1>5, FilesAreDocs DEF PipelineRuns, ServiceStep
<1>6. CASE OtherUpload
  BY <1>6, DocReaderAssumption DEF OtherUpload, ServiceStep
<1> QED
  BY <1>1, <1>2, <1>3, <1>4, <1>5, <1>6 DEF Next

LEMMA NextKeeps == TenantInv /\ [Next]_vars => TenantInv'
<1>1. ASSUME TenantInv, Next PROVE TenantInv'
  <2> USE <1>1, NextIs DEF TenantInv
  <2>1. ServiceInv'
    BY ServiceKept
  <2>2. CleanupInv'
    <3>1. CASE CleanupStep
      BY <3>1, CleanupKept
    <3>2. CASE UNCHANGED cleanupVars
      BY <3>2 DEF cleanupVars, CleanupInv
    <3> QED
      BY <3>1, <3>2
  <2>3. ReaderInv'
    BY ReaderKept, ReaderUndisturbed
  <2>4. MultiInv'
    BY TestKept, TaskKept, MultiUndisturbed
  <2> QED
    BY <2>1, <2>2, <2>3, <2>4
<1>2. ASSUME TenantInv, UNCHANGED vars PROVE TenantInv'
  <2> USE <1>2 DEF TenantInv, vars
  <2>1. UNCHANGED serviceVars /\ UNCHANGED cleanupVars /\ UNCHANGED readerVars
          /\ UNCHANGED multiVars
    OBVIOUS
  <2>2. ServiceStep
    BY <2>1 DEF ServiceStep
  <2>3. CleanupInv'
    BY <2>1 DEF cleanupVars, CleanupInv
  <2> QED
    BY <2>1, <2>2, <2>3, ServiceKept, ReaderUndisturbed, MultiUndisturbed
<1> QED
  BY <1>1, <1>2

(* The inductive invariant: the list and the states of the documents agree, *)
(* a walk still has its document ahead, a cancelled poll has a reason, and  *)
(* a document that was in time stays at or beyond the target.               *)
THEOREM TenantInvCorrect == Spec => []TenantInv
BY InitHolds, NextKeeps, PTL DEF Spec

(* The type invariant of the service and its clients, for all documents,    *)
(* files and page sizes.                                                    *)
THEOREM TenantTypeCorrect == Spec => []TenantTypeOK
<1>1. TenantInv => TenantTypeOK
  <2> SUFFICES ASSUME TenantInv PROVE TenantTypeOK
    OBVIOUS
  <2> QED
    BY DEF TenantInv, TenantTypeOK, ServiceInv, CleanupInv, ReaderInv, MultiInv, MultiTypes,
           InTimeIsKept
<1> QED
  BY <1>1, TenantInvCorrect, PTL

(* What cleanup_e2e_documents leaves behind has one of the stated reasons,   *)
(* whatever the other clients do to the list between its requests.          *)
THEOREM LeftoversExplained == Spec => LeftoversAreExplained
<1>1. TenantInv /\ [Next]_vars => [LeftoverStep]_<<serviceVars, cleanupVars>>
  <2>1. ASSUME TenantInv, Next PROVE LeftoverStep
    <3>1. CASE CleanupStep
      BY <2>1, <3>1, LeftoverHolds DEF TenantInv
    <3>2. CASE UNCHANGED cleanupVars
      BY <3>2 DEF cleanupVars, LeftoverStep
    <3> QED
      BY <2>1, <3>1, <3>2, NextIs
  <2> QED
    BY <2>1 DEF vars
<1> QED
  BY <1>1, TenantInvCorrect, PTL DEF Spec, LeftoversAreExplained, LeftoverStep

(* wait_for_ufid_by_name misses a listed document only for a deletion or for *)
(* its page limit, however many documents come in while it reads.           *)
THEOREM MissesExplained == Spec => MissIsExplained
<1>1. TenantInv /\ [Next]_vars => [MissStep]_<<serviceVars, readerVars>>
  <2>1. ASSUME TenantInv, Next PROVE MissStep
    <3>1. CASE ReaderStep \/ DeadlinePasses
      BY <2>1, <3>1, MissHolds DEF TenantInv
    <3>2. CASE UNCHANGED readerVars
      BY <3>2 DEF readerVars, MissStep
    <3> QED
      BY <2>1, <3>1, <3>2, NextIs
  <2> QED
    BY <2>1 DEF vars
<1> QED
  BY <1>1, TenantInvCorrect, PTL DEF Spec, MissIsExplained, MissStep

(* poll_until reports no document as timed out that was at the target by the *)
(* deadline and is still there when it looks for the last time.             *)
THEOREM LastLooksCount == Spec => LastLookCounts
<1>1. TenantInv /\ [Next]_vars => [LastLookStep]_<<serviceVars, multiVars>>
  <2>1. ASSUME TenantInv, Next PROVE LastLookStep
    <3>1. CASE UNCHANGED multiVars
      BY <3>1 DEF multiVars, LastLookStep
    <3> QED
      BY <2>1, <3>1, NextIs, LastLookHolds, LastLookUntouched DEF TenantInv
  <2> QED
    BY <2>1 DEF vars
<1> QED
  BY <1>1, TenantInvCorrect, PTL DEF Spec, LastLookCounts, LastLookStep

(* The multi-file test records PASS for a document nobody saw at the target  *)
(* only beside the FAIL row of a sibling, and passes only over documents     *)
(* that have been processed or deleted.                                     *)
THEOREM UnseenPassesExplained == Spec => UnseenPassIsExplained
<1>1. TenantInv /\ [Next]_vars => [UnseenStep]_<<serviceVars, multiVars>>
  <2>1. ASSUME TenantInv, Next PROVE UnseenStep
    <3>1. CASE MultiStep \/ PollTimeout
      BY <2>1, <3>1, UnseenHolds DEF TenantInv
    <3>2. ASSUME UNCHANGED <<multi, rows>> PROVE UnseenStep
      BY <3>2 DEF UnseenStep
    <3> QED
      BY <2>1, <3>1, <3>2, NextIs, TaskLeavesRows DEF multiVars
  <2> QED
    BY <2>1 DEF vars
<1> QED
  BY <1>1, TenantInvCorrect, PTL DEF Spec, UnseenPassIsExplained, UnseenStep

(* The cleanup job ends by itself: each of its steps uses up one of a number *)
(* that is fixed by max_pages and the page size, so it makes no more than    *)
(* max_pages listings, and no more deletions for each than a page holds,     *)
(* even if documents come in as fast as it deletes them.                    *)
THEOREM JobsDwindle == Spec => [](JobLeft \in Nat) /\ [][JobDwindles]_vars
<1>1. Spec => [](TenantInv /\ TodoFits)
  <2>1. Init => TodoFits
    BY FS_EmptySet, CleanupAssumption DEF Init, CleanupInit, TodoFits
  <2>2. TenantInv /\ TodoFits /\ [Next]_vars => TodoFits'
    BY NextIs, JobStep DEF TenantInv, TodoFits, vars, cleanupVars
  <2> QED
    BY <2>1, <2>2, TenantInvCorrect, PTL DEF Spec
<1>2. ASSUME TenantInv, TodoFits PROVE JobLeft \in Nat
  <2>1. Cardinality(todo) \in Nat
    BY <1>2, FS_CardinalityType DEF TodoFits
  <2>2. /\ pages \in 0 .. MaxPages
        /\ job \in {"idle", "listing", "deleting"} =>
             Worth(pages) \in Nat /\ Worth(pages + 1) \in Nat
    BY <1>2, WorthIs DEF TenantInv, CleanupInv
  <2> QED
    BY <1>2, <2>1, <2>2 DEF JobLeft
<1>3. TenantInv /\ TodoFits /\ [Next]_vars => [JobDwindles]_vars
  BY NextIs, JobStep DEF TenantInv, JobDwindles
<1> QED
  BY <1>1, <1>2, <1>3, PTL DEF Spec

(* wait_for_ufid_by_name looks at its clock only between two walks: once the *)
(* deadline has passed, it still ends within the walk under way, or within   *)
(* one more if it sleeps, whatever is uploaded or deleted meanwhile.         *)
THEOREM SearchesDwindle == Spec => [](SearchLeft \in Nat) /\ [][SearchDwindles]_vars
<1>1. Spec => [](TenantInv /\ SearchInv)
  <2>1. Init => SearchInv
    BY DEF Init, ReaderInit, SearchInv
  <2>2. TenantInv /\ SearchInv /\ [Next]_vars => SearchInv'
    BY NextIs, SearchStep DEF TenantInv, SearchInv, Searching, vars, readerVars
  <2> QED
    BY <2>1, <2>2, TenantInvCorrect, PTL DEF Spec
<1>2. TenantInv => SearchLeft \in Nat
  BY DocReaderAssumption DEF TenantInv, ReaderInv, SearchLeft
<1>3. TenantInv /\ SearchInv /\ [Next]_vars => [SearchDwindles]_vars
  <2>1. UNCHANGED readerVars /\ SearchInv => SearchDwindles
    BY DEF readerVars, SearchDwindles
  <2> QED
    BY <2>1, NextIs, SearchStep DEF TenantInv
<1> QED
  BY <1>1, <1>2, <1>3, PTL DEF Spec

(* The multi-file test ends by itself: its phases and artifacts are used up  *)
(* one by one, and so are the steps of each task within a phase, except that *)
(* a poll may nap before the deadline.  After it, no poll naps again, and    *)
(* the deadline stays passed until the last poll is over.                   *)
THEOREM TestsDwindle ==
  Spec => [](PhaseLeft \in Nat /\ \A d \in Batch : TaskLeft(d) \in Nat) /\ [][TestDwindles]_vars
<1>1. ASSUME TenantInv PROVE PhaseLeft \in Nat /\ \A d \in Batch : TaskLeft(d) \in Nat
  <2>1. Len(Files) \in Nat /\ at \in 1 .. Len(Files) + 1
    BY <1>1, MultiAssumption DEF TenantInv, MultiInv, MultiTypes
  <2> QED
    BY <2>1 DEF PhaseLeft, TaskLeft
<1>2. TenantInv /\ [Next]_vars => [TestDwindles]_vars
  <2>1. UNCHANGED multiVars => TestDwindles
    BY DEF multiVars, TestDwindles
  <2> QED
    BY <2>1, NextIs, TaskDwindles, PhaseDwindles DEF TenantInv
<1> QED
  BY <1>1, <1>2, TenantInvCorrect, PTL DEF Spec
=============================================================================
