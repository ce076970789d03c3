----------------------------- MODULE SessionProofs ----------------------------
(***************************************************************************)
(* Proofs about Session, for any selection of the tests and any number of   *)
(* pipeline stages.                                                        *)
(***************************************************************************)
EXTENDS Session, Counting, TLAPS

(* Sequences *)

AllAre(s, st, n) == Len(s) = n /\ \A i \in 1 .. n : s[i] = st

LEMMA SameAsTimes ==
  ASSUME NEW S, NEW s \in Seq(S), NEW st, NEW n \in Nat, AllAre(s, st, n)
  PROVE  s = W!Times(st, n)
<1>1. DOMAIN s = 1 .. n /\ s = [i \in 1 .. n |-> s[i]]
  BY DEF AllAre
<1> QED
  BY <1>1 DEF AllAre, W!Times

LEMMA TimesIs ==
  ASSUME NEW S, NEW st \in S, NEW n \in Nat
  PROVE  W!Times(st, n) \in Seq(S) /\ AllAre(W!Times(st, n), st, n)
BY DEF W!Times, AllAre

LEMMA LegsAre ==
  ASSUME NEW t
  PROVE  /\ t = "bulk" => Legs(t) = <<"triggered">> /\ Len(Legs(t)) = 1
         /\ t # "bulk" => Legs(t) = <<"reserved", "reserved", "triggered">> /\ Len(Legs(t)) = 3
BY DEF Legs

LEMMA TestsAre == Tests \subseteq {"bulk", "presigned", "ui"} /\ N \in Nat \ {0}
BY SessionAssumption DEF Tests
-----------------------------------------------------------------------------
(* The inductive invariant *)

(* Before its upload, a test has left no trace anywhere. *)
Idle(t) ==
  /\ calls[t] = 0 /\ server[t] = "absent" /\ ~Traced(t)
  /\ uploads[t] = <<>> /\ rows[t] = <<>>

(* During the upload, the service has the document once the first call is    *)
(* accepted; none that was, deflected or not, has started the pipeline.     *)
Halfway(t) ==
  /\ calls[t] < Len(Legs(t))
  /\ server[t] = IF calls[t] = 0 THEN "absent" ELSE "reserved"
  /\ Traced(t) <=> t # "ui" /\ calls[t] > 0
  /\ AllAre(uploads[t], "PASS", IF t = "ui" THEN 0 ELSE calls[t])
  /\ rows[t] = <<>>

(* During the walk, the pipeline has been started, or the last call of an    *)
(* upload of several was deflected and no event has come.                   *)
Started(t) ==
  /\ Traced(t)
  /\ calls[t] = Len(Legs(t))
  /\ server[t] = "triggered" \/ (t # "bulk" /\ rows[t] = <<>>)
  /\ \A i \in DOMAIN uploads[t] : uploads[t][i] = "PASS"
  /\ ~W!Has(t, "SKIPPED")

(* What a walk without a pipeline comes to. *)
Blamed(t) ==
  IF listening
  THEN /\ rows[t] = <<"FAIL">> \o W!Times("SKIPPED", N - 1)
       /\ verdict[t] \in {"failed", "killed"}
  ELSE /\ rows[t] = W!Times("SKIPPED", N)
       /\ verdict[t] \in {"skipped", "killed"}

(* Afterwards, rows, verdict and service fit together. *)
FailedUpload(t) == \E i \in DOMAIN uploads[t] : uploads[t][i] = "FAIL"

Fits(t) ==
  /\ verdict[t] # "none"
  /\ FailedUpload(t) \/ W!Has(t, "FAIL") => verdict[t] \in {"failed", "killed"}
  /\ verdict[t] = "skipped" => errors # {} \/ (Traced(t) /\ W!Has(t, "SKIPPED"))
  /\ verdict[t] = "failed" /\ Traced(t) => FailedUpload(t) \/ W!Has(t, "FAIL") \/ Len(rows[t]) = N
  /\ server[t] # "absent" /\ ~Traced(t) => verdict[t] \in {"failed", "killed"}
  /\ calls[t] = Len(Legs(t)) /\ server[t] # "triggered" => t # "bulk" /\ Blamed(t)
  /\ FailedUpload(t) =>
       /\ rows[t] = W!Times("SKIPPED", N)
       /\ \A i \in DOMAIN uploads[t] : uploads[t][i] = "FAIL" => i = Len(uploads[t])
  /\ server[t] = "triggered" /\ W!Has(t, "SKIPPED") =>
       ~listening \/ W!Has(t, "FAIL") \/ uploads[t] = W!Times("PASS", 2) \o <<"FAIL">>

InPhase(t) ==
  /\ pc[t] \in {"waiting", "setup", "minting"} => Idle(t)
  /\ pc[t] = "uploading" => Halfway(t)
  /\ pc[t] = "walking" => Started(t)
  /\ pc[t] = "over" => Fits(t)
  /\ pc[t] # "over" => verdict[t] \in {"none", "killed"}
  /\ pc[t] = "minting" => t = "bulk"

SourceInv ==
  /\ blob # "none" => "bulk" \in Tests
  /\ blob = "stored" =>
       pc["bulk"] = "minting" \/ "bulk" \in errors \/ verdict["bulk"] = "killed"

SavedInv == saved => \A t \in Tests : verdict[t] # "none"

SessionInv ==
  /\ SessionTypeOK
  /\ \A t \in Tests : InPhase(t)
  /\ SourceInv
  /\ SavedInv

(* What nothing has happened to is as it was. *)
LEMMA Frame ==
  ASSUME NEW t, InPhase(t), UNCHANGED listening, errors \subseteq errors',
         Traced(t)' = Traced(t),
         UNCHANGED <<pc[t], calls[t], server[t], uploads[t], rows[t], verdict[t]>>
  PROVE  InPhase(t)'
<1>1. Idle(t)' = Idle(t) /\ Halfway(t)' = Halfway(t) /\ Started(t)' = Started(t)
  BY DEF Idle, Halfway, Started, W!Has, Legs, Traced
<1>2. (\E i \in DOMAIN uploads[t] : uploads[t][i] = "FAIL")'
        = \E i \in DOMAIN uploads[t] : uploads[t][i] = "FAIL"
  OBVIOUS
<1>3. /\ FailedUpload(t)' = FailedUpload(t)
      /\ W!Has(t, "FAIL")' = W!Has(t, "FAIL") /\ W!Has(t, "SKIPPED")' = W!Has(t, "SKIPPED")
      /\ Blamed(t)' = Blamed(t)
  BY <1>2 DEF FailedUpload, W!Has, W!Times, Blamed
<1>4. Fits(t) => Fits(t)'
  BY <1>3 DEF Fits, W!Times, Legs
<1> QED
  BY <1>1, <1>4 DEF InPhase

(* A step of one test leaves the others' parts of the state alone. *)
Apart(t) ==
  \A u \in Tests \ {t} :
    /\ pc'[u] = pc[u] /\ calls'[u] = calls[u] /\ server'[u] = server[u]
    /\ uploads'[u] = uploads[u] /\ rows'[u] = rows[u] /\ verdict'[u] = verdict[u]

LEMMA TracedIs ==
  ASSUME NEW t \in Tests, SessionTypeOK, NEW u \in Tests
  PROVE  /\ documents' = documents => Traced(u)' = Traced(u)
         /\ documents' = Append(documents, t) => (Traced(u)' <=> u = t \/ Traced(u))
<1>1. documents \in Seq(Tests)
  BY DEF SessionTypeOK
<1>2. ASSUME documents' = Append(documents, t)
      PROVE  Traced(u)' <=> u = t \/ Traced(u)
  <2>1. /\ Len(documents') = Len(documents) + 1
        /\ documents'[Len(documents) + 1] = t
        /\ \A i \in 1 .. Len(documents) : documents'[i] = documents[i]
        /\ DOMAIN documents' = 1 .. Len(documents) + 1
    BY <1>1, <1>2
  <2>2. Traced(u)' => u = t \/ Traced(u)
    BY <1>1, <2>1 DEF Traced
  <2>3. Traced(u) => Traced(u)'
    BY <1>1, <2>1 DEF Traced
  <2>4. u = t => Traced(u)'
    <3>1. Len(documents) + 1 \in DOMAIN documents'
      BY <1>1, <2>1
    <3> QED
      BY <2>1, <3>1 DEF Traced
  <2> QED
    BY <2>2, <2>3, <2>4
<1> QED
  BY <1>2 DEF Traced

LEMMA OneStep ==
  ASSUME SessionInv, NEW t \in Tests, Apart(t),
         UNCHANGED listening, errors \subseteq errors',
         documents' \in {documents, Append(documents, t)},
         SessionTypeOK', InPhase(t)', SourceInv', saved' = saved, ~saved \/ UNCHANGED verdict
  PROVE  SessionInv'
<1>1. ASSUME NEW u \in Tests \ {t} PROVE InPhase(u)'
  <2>1. Traced(u)' <=> Traced(u)
    BY TracedIs DEF SessionInv
  <2>2. Traced(u)' = Traced(u)
    BY <2>1 DEF Traced
  <2> QED
    BY <2>2, Frame DEF Apart, SessionInv
<1>2. SavedInv'
  BY DEF SessionInv, SavedInv
<1> QED
  BY <1>1, <1>2 DEF SessionInv

(* The source blob is the business of the bulk test's fixture alone. *)
LEMMA SourceUntouched ==
  ASSUME SessionInv, NEW t \in Tests, Apart(t), UNCHANGED blob, errors \subseteq errors',
         t = "bulk" => /\ pc[t] # "minting" \/ verdict'[t] = "killed"
                       /\ verdict[t] = "killed" => verdict'[t] = "killed"
  PROVE  SourceInv'
BY DEF SessionInv, SourceInv, Apart
-----------------------------------------------------------------------------
(* Setup *)

LEMMA StaysIdle ==
  ASSUME NEW t, Idle(t), UNCHANGED <<calls, server, documents, uploads, rows>>
  PROVE  Idle(t)'
BY DEF Idle, Traced

LEMMA NoneYet == AllAre(<<>>, "PASS", 0)
BY DEF AllAre

(* A test that ends while it is idle. *)
LEMMA EndsIdle ==
  ASSUME NEW t \in Tests, Idle(t)', pc'[t] = "over",
         verdict'[t] \in {"failed", "killed"} \/ (verdict'[t] = "skipped" /\ errors' # {})
  PROVE  InPhase(t)'
<1>1. calls'[t] # Len(Legs(t))'
  <2>1. calls'[t] = 0 /\ Len(Legs(t)) > 0 /\ Legs(t)' = Legs(t)
    BY LegsAre DEF Idle, Legs
  <2> QED
    BY <2>1
<1>2. Fits(t)'
  BY <1>1 DEF Fits, Idle, FailedUpload, W!Has
<1> QED
  BY <1>2 DEF InPhase

(* A test whose setup is done. *)
LEMMA SetUpIs ==
  ASSUME SessionInv, NEW t \in Tests, SetUp(t), Idle(t), pc[t] \in {"setup", "minting"},
         UNCHANGED <<progress, rows, verdict>>
  PROVE  InPhase(t)' /\ pc' \in [Tests -> {"waiting", "setup", "minting", "uploading", "walking", "over"}]
<1>1. pc' = [pc EXCEPT ![t] = IF verdict[t] = "none" THEN "uploading" ELSE "over"]
  BY DEF SetUp, Goto
<1>2. Idle(t)' /\ verdict'[t] = verdict[t] /\ verdict[t] \in {"none", "killed"}
  BY StaysIdle DEF progress, SessionInv, InPhase
<1>3. pc' \in [Tests -> {"waiting", "setup", "minting", "uploading", "walking", "over"}]
  BY <1>1 DEF SessionInv, SessionTypeOK
<1>4. CASE verdict[t] = "none"
  <2>1. pc'[t] = "uploading"
    BY <1>1, <1>4 DEF SessionInv, SessionTypeOK
  <2>2. Halfway(t)'
    BY <1>2, NoneYet, LegsAre DEF Idle, Halfway, Legs
  <2> QED
    BY <1>2, <1>3, <2>1, <2>2 DEF InPhase
<1>5. CASE verdict[t] = "killed"
  <2>1. pc'[t] = "over"
    BY <1>1, <1>5 DEF SessionInv, SessionTypeOK
  <2> QED
    BY <1>2, <1>3, <1>5, <2>1, EndsIdle
<1> QED
  BY <1>2, <1>4, <1>5

(* The places a coroutine can be in, and the end of one. *)
Places == {"waiting", "setup", "minting", "uploading", "walking", "over"}

LEMMA EndIs ==
  ASSUME SessionInv, NEW t \in Tests, pc[t] # "over",
         NEW v \in {"passed", "failed", "skipped"}, End(t, v)
  PROVE  /\ pc' \in [Tests -> Places] /\ pc'[t] = "over"
         /\ verdict' \in [Tests -> W!Verdicts]
         /\ verdict'[t] = IF verdict[t] = "killed" THEN "killed" ELSE v
         /\ \A u \in Tests \ {t} : pc'[u] = pc[u] /\ verdict'[u] = verdict[u]
<1>1. verdict[t] \in {"none", "killed"}
  BY DEF SessionInv, InPhase
<1> QED
  BY <1>1 DEF End, Goto, W!Decide, SessionInv, SessionTypeOK, Places, W!Verdicts

LEMMA GotoIs ==
  ASSUME SessionInv, NEW t \in Tests, NEW l \in Places, Goto(t, l)
  PROVE  /\ pc' \in [Tests -> Places] /\ pc'[t] = l
         /\ \A u \in Tests \ {t} : pc'[u] = pc[u]
BY DEF Goto, SessionInv, SessionTypeOK, Places

(* A step of the setup changes the token, the blob and the errors at most. *)
LEMMA SetupStepKept ==
  ASSUME SessionInv, NEW t \in Tests,
         UNCHANGED <<listening, progress, rows, saved>>,
         token' \in {"unset", "ok", "refused", "failed"},
         blob' \in {"none", "stored", "lent", "deleted", "missed"},
         errors' \in {errors, errors \cup {t}},
         ~saved,
         pc' \in [Tests -> Places], verdict' \in [Tests -> W!Verdicts],
         \A u \in Tests \ {t} : pc'[u] = pc[u] /\ verdict'[u] = verdict[u],
         InPhase(t)', SourceInv'
  PROVE  SessionInv'
<1>1. Apart(t)
  BY DEF Apart, progress
<1>2. SessionTypeOK'
  BY DEF SessionInv, SessionTypeOK, progress, Places
<1> QED
  BY <1>1, <1>2, OneStep DEF progress

LEMMA BeginKept ==
  ASSUME SessionInv, NEW t \in Tests, Begin(t)
  PROVE  SessionInv'
<1>1. Idle(t) /\ ~saved /\ pc[t] = "waiting" /\ verdict[t] \in {"none", "killed"}
  BY DEF Begin, UpNext, SessionInv, InPhase
<1>2. pc' \in [Tests -> Places] /\ pc'[t] = "setup" /\ \A u \in Tests \ {t} : pc'[u] = pc[u]
  BY GotoIs DEF Begin, Places
<1>3. InPhase(t)'
  BY <1>1, <1>2, StaysIdle DEF Begin, progress, InPhase
<1>4. SourceInv'
  BY <1>1, <1>2 DEF Begin, SessionInv, SourceInv
<1>5. token' \in {"unset", "ok", "refused", "failed"}
  BY DEF Begin, AccessToken, ExtractToken, SessionInv, SessionTypeOK
<1>6. verdict' \in [Tests -> W!Verdicts] /\ blob' \in {"none", "stored", "lent", "deleted", "missed"}
  BY DEF Begin, SessionInv, SessionTypeOK
<1> QED
  BY <1>1, <1>2, <1>3, <1>4, <1>5, <1>6, SetupStepKept DEF Begin

LEMMA BeginUnauthorisedKept ==
  ASSUME SessionInv, NEW t \in Tests, BeginUnauthorised(t)
  PROVE  SessionInv'
<1>1. Idle(t) /\ ~saved /\ pc[t] = "waiting"
  BY DEF BeginUnauthorised, UpNext, SessionInv, InPhase
<1>2. End(t, "failed")
  BY DEF BeginUnauthorised
<1>3. /\ pc' \in [Tests -> Places] /\ pc'[t] = "over"
      /\ verdict' \in [Tests -> W!Verdicts]
      /\ verdict'[t] = IF verdict[t] = "killed" THEN "killed" ELSE "failed"
      /\ \A u \in Tests \ {t} : pc'[u] = pc[u] /\ verdict'[u] = verdict[u]
  BY <1>1, <1>2, EndIs
<1>4. InPhase(t)'
  BY <1>1, <1>3, StaysIdle, EndsIdle DEF BeginUnauthorised, progress
<1>5. errors' \in {errors, errors \cup {t}}
  BY DEF BeginUnauthorised
<1>6. SourceInv'
  BY <1>1, <1>3, <1>5 DEF BeginUnauthorised, SessionInv, SourceInv
<1>7. blob' \in {"none", "stored", "lent", "deleted", "missed"}
  BY DEF BeginUnauthorised, SessionInv, SessionTypeOK
<1> QED
  BY <1>1, <1>3, <1>4, <1>5, <1>6, <1>7, SetupStepKept DEF BeginUnauthorised

LEMMA SetUpKept ==
  ASSUME SessionInv, NEW t \in Tests, PlainSetup(t) \/ LogIn(t) \/ MintSas(t)
  PROVE  SessionInv'
<1>1. /\ Idle(t) /\ ~saved /\ pc[t] \in {"setup", "minting"} /\ SetUp(t)
      /\ UNCHANGED <<listening, token, progress, rows, errors, verdict, saved>>
      /\ blob' = "lent" \/ (blob' = blob /\ pc[t] # "minting")
  BY DEF PlainSetup, LogIn, MintSas, Runs, SessionInv, InPhase
<1>2. InPhase(t)' /\ pc' \in [Tests -> Places]
  BY <1>1, SetUpIs DEF Places, progress
<1>3. \A u \in Tests \ {t} : pc'[u] = pc[u]
  BY <1>1 DEF SetUp, Goto, SessionInv, SessionTypeOK
<1>4. t = "bulk" \/ UNCHANGED blob
  BY DEF PlainSetup, LogIn, MintSas, SessionInv, InPhase
<1>5. SourceInv'
  BY <1>1, <1>3, <1>4 DEF SessionInv, SourceInv
<1>6. /\ token' \in {"unset", "ok", "refused", "failed"}
      /\ blob' \in {"none", "stored", "lent", "deleted", "missed"}
      /\ verdict' \in [Tests -> W!Verdicts]
  BY <1>1 DEF SessionInv, SessionTypeOK
<1> QED
  BY <1>1, <1>2, <1>3, <1>5, <1>6, SetupStepKept

LEMMA StoreSourceKept ==
  ASSUME SessionInv, NEW t \in Tests, StoreSource(t)
  PROVE  SessionInv'
<1>1. Idle(t) /\ ~saved /\ t = "bulk" /\ verdict[t] \in {"none", "killed"}
  BY DEF StoreSource, Runs, SessionInv, InPhase
<1>2. pc' \in [Tests -> Places] /\ pc'[t] = "minting" /\ \A u \in Tests \ {t} : pc'[u] = pc[u]
  BY GotoIs DEF StoreSource, Places
<1>3. InPhase(t)'
  BY <1>1, <1>2, StaysIdle DEF StoreSource, progress, InPhase
<1>4. SourceInv'
  BY <1>1, <1>2 DEF StoreSource, SourceInv
<1>5. /\ token' \in {"unset", "ok", "refused", "failed"}
      /\ verdict' \in [Tests -> W!Verdicts]
  BY DEF StoreSource, SessionInv, SessionTypeOK
<1> QED
  BY <1>1, <1>2, <1>3, <1>4, <1>5, SetupStepKept DEF StoreSource

LEMMA SetupFailsKept ==
  ASSUME SessionInv, NEW t \in Tests, SourceFails(t) \/ LogInFails(t) \/ LogInBreaks(t)
  PROVE  SessionInv'
<1>1. /\ Idle(t) /\ ~saved /\ pc[t] \in {"setup", "minting"}
      /\ UNCHANGED <<listening, token, progress, rows, saved>>
      /\ errors' \in {errors, errors \cup {t}}
      /\ End(t, "failed") \/ (End(t, "skipped") /\ errors' = errors \cup {t})
      /\ \/ UNCHANGED blob /\ pc[t] # "minting"
         \/ t = "bulk" /\ blob' \in {blob, "stored"} /\ errors' = errors \cup {t}
  BY DEF SourceFails, LogInFails, LogInBreaks, Runs, RecordError, SessionInv, InPhase
<1>2. PICK v \in {"failed", "skipped"} : End(t, v) /\ (v = "skipped" => errors' = errors \cup {t})
  BY <1>1
<1>3. /\ pc' \in [Tests -> Places] /\ pc'[t] = "over"
      /\ verdict' \in [Tests -> W!Verdicts]
      /\ verdict'[t] = IF verdict[t] = "killed" THEN "killed" ELSE v
      /\ \A u \in Tests \ {t} : pc'[u] = pc[u] /\ verdict'[u] = verdict[u]
  BY <1>1, <1>2, EndIs
<1>4. verdict'[t] \in {"failed", "killed"} \/ (verdict'[t] = "skipped" /\ errors' # {})
  BY <1>2, <1>3
<1>5. InPhase(t)'
  BY <1>1, <1>3, <1>4, StaysIdle, EndsIdle DEF progress
<1>6. SourceInv'
  BY <1>1, <1>3 DEF SessionInv, SourceInv
<1>7. /\ blob' \in {"none", "stored", "lent", "deleted", "missed"}
      /\ token' \in {"unset", "ok", "refused", "failed"}
  BY <1>1 DEF SessionInv, SessionTypeOK
<1> QED
  BY <1>1, <1>3, <1>5, <1>6, <1>7, SetupStepKept
-----------------------------------------------------------------------------
(* Uploads *)

(* What holds of a test that has calls to make. *)
LEMMA CallingIs ==
  ASSUME SessionInv, NEW t \in Tests, Calling(t)
  PROVE  /\ Halfway(t) /\ ~saved /\ pc[t] = "uploading" /\ verdict[t] \in {"none", "killed"}
         /\ calls[t] \in 0 .. 2 /\ calls[t] + 1 \in 1 .. Len(Legs(t))
         /\ t = "bulk" => calls[t] = 0
         /\ Legs(t)[calls[t] + 1] \in {"reserved", "triggered"}
         /\ Legs(t)[calls[t] + 1] = "triggered" <=> calls[t] + 1 = Len(Legs(t))
<1>1. /\ Halfway(t) /\ ~saved /\ pc[t] = "uploading" /\ verdict[t] \in {"none", "killed"}
      /\ calls[t] \in 0 .. 3
  BY DEF Calling, Runs, SessionInv, SessionTypeOK, InPhase
<1>2. CASE t = "bulk"
  <2>1. Legs(t) = <<"triggered">> /\ Len(Legs(t)) = 1 /\ calls[t] = 0
    <3>1. Legs(t) = <<"triggered">> /\ Len(Legs(t)) = 1
      BY <1>2, LegsAre
    <3>2. calls[t] < Len(Legs(t))
      BY <1>1 DEF Halfway
    <3> QED
      BY <1>1, <3>1, <3>2
  <2> QED
    BY <1>1, <1>2, <2>1
<1>3. CASE t # "bulk"
  <2>1. Legs(t) = <<"reserved", "reserved", "triggered">> /\ Len(Legs(t)) = 3
    BY <1>3, LegsAre
  <2>2. calls[t] = 0 \/ calls[t] = 1 \/ calls[t] = 2
    BY <1>1, <2>1 DEF Halfway
  <2> QED
    BY <1>1, <1>3, <2>1, <2>2
<1> QED
  BY <1>2, <1>3

(* A step of an upload changes what is this test's and the document list.   *)
LEMMA UploadStepKept ==
  ASSUME SessionInv, NEW t \in Tests,
         UNCHANGED <<listening, token, blob, errors, saved>>, ~saved, pc[t] = "uploading",
         pc' \in [Tests -> Places], verdict' \in [Tests -> W!Verdicts],
         calls' \in [Tests -> 0 .. 3],
         server' \in [Tests -> {"absent", "reserved", "triggered"}],
         documents' \in {documents, Append(documents, t)},
         uploads' \in [Tests -> Seq({"PASS", "FAIL"})],
         rows' \in [Tests -> Seq({"PASS", "FAIL", "SKIPPED"})],
         Len(uploads'[t]) <= Len(Legs(t)), Len(rows'[t]) <= N,
         verdict[t] = "killed" => verdict'[t] = "killed",
         Apart(t), InPhase(t)'
  PROVE  SessionInv'
<1>1. SourceInv'
  BY SourceUntouched
<1>2. documents' \in Seq(Tests)
  <2>1. documents \in Seq(Tests)
    BY DEF SessionInv, SessionTypeOK
  <2>2. Append(documents, t) \in Seq(Tests)
    BY <2>1
  <2> QED
    BY <2>1, <2>2
<1>3. \A u \in Tests : Len(uploads'[u]) <= Len(Legs(u)) /\ Len(rows'[u]) <= N
  BY DEF SessionInv, SessionTypeOK, Apart
<1>4. SessionTypeOK'
  BY <1>2, <1>3 DEF SessionInv, SessionTypeOK, Places, Legs
<1> QED
  BY <1>1, <1>4, OneStep

LEMMA AppendRow ==
  ASSUME NEW s \in Seq({"PASS", "FAIL"}), NEW n \in Nat, AllAre(s, "PASS", n),
         NEW st \in {"PASS", "FAIL"}
  PROVE  /\ Append(s, st) \in Seq({"PASS", "FAIL"})
         /\ Len(Append(s, st)) = n + 1
         /\ Append(s, st)[n + 1] = st
         /\ \A i \in 1 .. n : Append(s, st)[i] = "PASS"
         /\ st = "PASS" => AllAre(Append(s, st), "PASS", n + 1)
<1>1. /\ Append(s, st) \in Seq({"PASS", "FAIL"})
      /\ Len(Append(s, st)) = n + 1
      /\ Append(s, st)[n + 1] = st
      /\ \A i \in 1 .. n : Append(s, st)[i] = "PASS"
  BY DEF AllAre
<1>2. \A i \in 1 .. n + 1 : i \in 1 .. n \/ i = n + 1
  OBVIOUS
<1> QED
  BY <1>1, <1>2 DEF AllAre

(* An accepted call is counted, and changes at most what the service has.    *)
LEMMA AcceptedIs ==
  ASSUME SessionInv, NEW t \in Tests, Accepted(t)
  PROVE  /\ Calling(t) /\ calls' = [calls EXCEPT ![t] = calls[t] + 1]
         /\ server' \in [Tests -> {"absent", "reserved", "triggered"}]
         /\ server'[t] = Legs(t)[calls[t] + 1] \/ (calls[t] > 0 /\ server'[t] = server[t])
         /\ \A u \in Tests \ {t} : server'[u] = server[u]
<1>1. Calling(t) /\ calls' = [calls EXCEPT ![t] = calls[t] + 1]
  BY DEF Accepted, Answered, Deflected, Counted
<1>2. Legs(t)[calls[t] + 1] \in {"reserved", "triggered"}
  BY <1>1, CallingIs
<1>3. \/ server' = [server EXCEPT ![t] = Legs(t)[calls[t] + 1]]
      \/ calls[t] > 0 /\ UNCHANGED server
  BY DEF Accepted, Answered, Deflected, Served, Leg
<1> QED
  BY <1>1, <1>2, <1>3 DEF SessionInv, SessionTypeOK

LEMMA AcceptedKept ==
  ASSUME SessionInv, NEW t \in Tests, Accepted(t), NextLeg(t),
         UNCHANGED <<listening, token, blob, rows, errors, verdict, saved>>,
         documents' \in {documents, Append(documents, t)},
         Traced(t)' <=> t # "ui" \/ calls'[t] = Len(Legs(t)),
         IF t # "ui" \/ calls'[t] = Len(Legs(t)) THEN Uploaded(t, "PASS") ELSE UNCHANGED uploads
  PROVE  SessionInv'
<1>1. /\ Halfway(t) /\ ~saved /\ pc[t] = "uploading" /\ verdict[t] \in {"none", "killed"}
      /\ calls[t] \in 0 .. 2 /\ calls[t] + 1 \in 1 .. Len(Legs(t))
      /\ Legs(t)[calls[t] + 1] \in {"reserved", "triggered"}
      /\ Legs(t)[calls[t] + 1] = "triggered" <=> calls[t] + 1 = Len(Legs(t))
  BY AcceptedIs, CallingIs
<1>2. /\ calls' \in [Tests -> 0 .. 3] /\ calls'[t] = calls[t] + 1
      /\ server' \in [Tests -> {"absent", "reserved", "triggered"}]
      /\ server'[t] = Legs(t)[calls[t] + 1] \/ (calls[t] > 0 /\ server'[t] = "reserved")
      /\ \A u \in Tests \ {t} : calls'[u] = calls[u] /\ server'[u] = server[u]
  <2>1. calls[t] > 0 => server[t] = "reserved"
    BY <1>1 DEF Halfway
  <2>2. calls' = [calls EXCEPT ![t] = calls[t] + 1] /\ calls \in [Tests -> 0 .. 3]
    BY AcceptedIs DEF SessionInv, SessionTypeOK
  <2>3. /\ server' \in [Tests -> {"absent", "reserved", "triggered"}]
        /\ server'[t] = Legs(t)[calls[t] + 1] \/ (calls[t] > 0 /\ server'[t] = server[t])
        /\ \A u \in Tests \ {t} : server'[u] = server[u]
    BY AcceptedIs
  <2>4. calls' \in [Tests -> 0 .. 3] /\ calls'[t] = calls[t] + 1
        /\ \A u \in Tests \ {t} : calls'[u] = calls[u]
    BY <1>1, <2>2
  <2> QED
    BY <2>1, <2>3, <2>4
<1>3. uploads[t] \in Seq({"PASS", "FAIL"}) /\ uploads \in [Tests -> Seq({"PASS", "FAIL"})]
  BY DEF SessionInv, SessionTypeOK
<1> DEFINE had == IF t = "ui" THEN 0 ELSE calls[t]
           has == IF t # "ui" THEN calls[t] + 1 ELSE IF calls'[t] = Len(Legs(t)) THEN 1 ELSE 0
<1>4. had \in Nat /\ AllAre(uploads[t], "PASS", had)
  BY <1>1 DEF Halfway
<1>5. /\ uploads' \in [Tests -> Seq({"PASS", "FAIL"})]
      /\ AllAre(uploads'[t], "PASS", has)
      /\ \A u \in Tests \ {t} : uploads'[u] = uploads[u]
  <2>1. CASE t # "ui" \/ calls'[t] = Len(Legs(t))
    <3>1. /\ uploads' = [uploads EXCEPT ![t] = Append(uploads[t], "PASS")]
          /\ has = had + 1
      BY <1>2, <2>1 DEF Uploaded
    <3>2. /\ Append(uploads[t], "PASS") \in Seq({"PASS", "FAIL"})
          /\ AllAre(Append(uploads[t], "PASS"), "PASS", had + 1)
      BY <1>3, <1>4, AppendRow
    <3> QED
      BY <1>3, <3>1, <3>2
  <2>2. CASE t = "ui" /\ calls'[t] # Len(Legs(t))
    BY <1>3, <1>4, <2>2
  <2> QED
    BY <2>1, <2>2
<1>6. Len(uploads'[t]) = has /\ has <= Len(Legs(t))
  BY <1>1, <1>2, <1>5 DEF AllAre
<1>7. /\ pc' \in [Tests -> Places]
      /\ pc'[t] = IF calls'[t] = Len(Legs(t)) THEN "walking" ELSE "uploading"
      /\ \A u \in Tests \ {t} : pc'[u] = pc[u]
  BY GotoIs DEF NextLeg, Places
<1>8. InPhase(t)'
  <2>1. rows'[t] = <<>> /\ verdict'[t] \in {"none", "killed"}
    BY <1>1 DEF Halfway
  <2>2. ASSUME calls'[t] # Len(Legs(t)) PROVE Halfway(t)'
    <3>1. Legs(t)' = Legs(t) /\ calls'[t] < Len(Legs(t)) /\ calls'[t] > 0
      BY <1>1, <1>2, <2>2 DEF Legs
    <3>2. has = IF t = "ui" THEN 0 ELSE calls'[t]
      BY <1>2, <2>2
    <3>3. AllAre(uploads[t], "PASS", IF t = "ui" THEN 0 ELSE calls[t])'
      BY <1>5, <3>2 DEF AllAre
    <3>4. server'[t] = "reserved"
      BY <1>1, <1>2, <2>2
    <3> QED
      BY <1>2, <2>1, <2>2, <3>1, <3>3, <3>4 DEF Halfway
  <2>3. ASSUME calls'[t] = Len(Legs(t)) PROVE Started(t)'
    <3>1. server'[t] = "triggered" \/ (t # "bulk" /\ rows'[t] = <<>>)
      BY <1>1, <1>2, <2>1, <2>3, CallingIs, AcceptedIs
    <3>2. \A i \in DOMAIN uploads'[t] : uploads'[t][i] = "PASS"
      BY <1>5, <1>6 DEF AllAre
    <3> QED
      BY <2>1, <2>3, <3>1, <3>2 DEF Started, W!Has, Legs
  <2> QED
    BY <1>7, <2>1, <2>2, <2>3 DEF InPhase
<1>9. Apart(t) /\ Len(rows'[t]) <= N
  BY <1>2, <1>5, <1>7 DEF Apart, SessionInv, SessionTypeOK
<1>10. /\ verdict' \in [Tests -> W!Verdicts]
       /\ rows' \in [Tests -> Seq({"PASS", "FAIL", "SKIPPED"})]
  BY DEF SessionInv, SessionTypeOK
<1> QED
  BY <1>1, <1>2, <1>5, <1>6, <1>7, <1>8, <1>9, <1>10, UploadStepKept

LEMMA LegDoneKept ==
  ASSUME SessionInv, NEW t \in Tests, FirstLegDone(t) \/ LegDone(t) \/ DriveLegDone(t)
  PROVE  SessionInv'
<1>1. Halfway(t) /\ calls[t] \in 0 .. 2 /\ calls'[t] = calls[t] + 1
  <2>1. Accepted(t)
    BY DEF FirstLegDone, LegDone, DriveLegDone, Accepted
  <2> QED
    BY <2>1, AcceptedIs, CallingIs DEF SessionInv, SessionTypeOK
<1>2. Traced(t) <=> t # "ui" /\ calls[t] > 0
  BY <1>1 DEF Halfway
<1>3. CASE FirstLegDone(t)
  <2>1. Traced(t)'
    BY <1>3, TracedIs DEF FirstLegDone, SessionInv
  <2> QED
    BY <1>3, <2>1, AcceptedKept DEF FirstLegDone, Accepted
<1>4. CASE LegDone(t)
  <2>1. Traced(t)' /\ t # "ui"
    BY <1>2, <1>4 DEF LegDone, Traced
  <2> QED
    BY <1>4, <2>1, AcceptedKept DEF LegDone
<1>5. CASE DriveLegDone(t)
  <2>1. t = "ui" /\ ~Traced(t)
    BY <1>2, <1>5 DEF DriveLegDone
  <2>2. Traced(t)' <=> calls'[t] = Len(Legs(t))
    BY <1>5, <2>1, TracedIs DEF DriveLegDone, SessionInv
  <2> QED
    BY <1>5, <2>1, <2>2, AcceptedKept DEF DriveLegDone
<1> QED
  BY <1>3, <1>4, <1>5

(* A call that raised may have been served. *)
LEMMA RaisedIs ==
  ASSUME SessionInv, NEW t \in Tests, Raised(t)
  PROVE  /\ Calling(t) /\ UNCHANGED calls
         /\ server' \in [Tests -> {"absent", "reserved", "triggered"}]
         /\ server'[t] \in {server[t], Legs(t)[calls[t] + 1]}
         /\ \A u \in Tests \ {t} : server'[u] = server[u]
<1>1. Calling(t) /\ UNCHANGED calls
  BY DEF Raised
<1>2. Legs(t)[calls[t] + 1] \in {"reserved", "triggered"}
  BY <1>1, CallingIs
<1>3. UNCHANGED server \/ server' = [server EXCEPT ![t] = Legs(t)[calls[t] + 1]]
  BY DEF Raised, Rejected, Unusable, Served, Leg
<1> QED
  BY <1>1, <1>2, <1>3 DEF SessionInv, SessionTypeOK

LEMMA FirstLegFailsKept ==
  ASSUME SessionInv, NEW t \in Tests, FirstLegFails(t)
  PROVE  SessionInv'
<1>1. /\ Halfway(t) /\ ~saved /\ pc[t] = "uploading" /\ ~Traced(t)
      /\ calls[t] \in 0 .. 2 /\ UNCHANGED calls
      /\ server' \in [Tests -> {"absent", "reserved", "triggered"}]
      /\ \A u \in Tests \ {t} : server'[u] = server[u]
  BY RaisedIs, CallingIs DEF FirstLegFails
<1>2. /\ pc' \in [Tests -> Places] /\ pc'[t] = "over"
      /\ verdict' \in [Tests -> W!Verdicts]
      /\ verdict'[t] = IF verdict[t] = "killed" THEN "killed" ELSE "failed"
      /\ \A u \in Tests \ {t} : pc'[u] = pc[u] /\ verdict'[u] = verdict[u]
  BY <1>1, EndIs DEF FirstLegFails
<1>3. /\ uploads \in [Tests -> Seq({"PASS", "FAIL"})]
      /\ rows \in [Tests -> Seq({"PASS", "FAIL", "SKIPPED"})]
      /\ Len(uploads[t]) <= Len(Legs(t)) /\ Len(rows[t]) <= N
      /\ calls \in [Tests -> 0 .. 3]
  BY DEF SessionInv, SessionTypeOK
<1>4. ~FailedUpload(t) /\ rows[t] = <<>>
  BY <1>1, <1>3 DEF Halfway, AllAre, FailedUpload
<1>5. Fits(t)'
  <2>1. /\ ~FailedUpload(t)' /\ rows'[t] = <<>> /\ ~Traced(t)'
        /\ verdict'[t] \in {"failed", "killed"}
    BY <1>1, <1>2, <1>4 DEF FirstLegFails, FailedUpload, Traced
  <2>2. ~W!Has(t, "PASS")' /\ ~W!Has(t, "FAIL")' /\ ~W!Has(t, "SKIPPED")'
    BY <2>1 DEF W!Has
  <2>3. calls'[t] # Len(Legs(t))'
    BY <1>1 DEF Halfway, Legs
  <2> QED
    BY <2>1, <2>2, <2>3 DEF Fits
<1>6. InPhase(t)'
  BY <1>2, <1>5 DEF InPhase
<1>7. Apart(t)
  BY <1>1, <1>2 DEF Apart, FirstLegFails
<1> QED
  BY <1>1, <1>2, <1>3, <1>6, <1>7, UploadStepKept DEF FirstLegFails

LEMMA LegFailsKept ==
  ASSUME SessionInv, NEW t \in Tests, LegFails(t)
  PROVE  SessionInv'
<1>1. /\ Halfway(t) /\ ~saved /\ pc[t] = "uploading" /\ Traced(t)
      /\ calls[t] \in 0 .. 2 /\ UNCHANGED calls
      /\ server' \in [Tests -> {"absent", "reserved", "triggered"}]
      /\ server'[t] \in {server[t], Legs(t)[calls[t] + 1]}
      /\ \A u \in Tests \ {t} : server'[u] = server[u]
      /\ t = "bulk" => calls[t] = 0
  BY RaisedIs, CallingIs DEF LegFails
<1>2. /\ pc' \in [Tests -> Places] /\ pc'[t] = "over"
      /\ verdict' \in [Tests -> W!Verdicts]
      /\ verdict'[t] = IF verdict[t] = "killed" THEN "killed" ELSE "failed"
      /\ \A u \in Tests \ {t} : pc'[u] = pc[u] /\ verdict'[u] = verdict[u]
  BY <1>1, EndIs DEF LegFails
<1>3. /\ uploads \in [Tests -> Seq({"PASS", "FAIL"})]
      /\ rows \in [Tests -> Seq({"PASS", "FAIL", "SKIPPED"})]
      /\ calls \in [Tests -> 0 .. 3]
  BY DEF SessionInv, SessionTypeOK
<1>4. t # "ui" /\ t # "bulk" /\ calls[t] \in {1, 2} /\ AllAre(uploads[t], "PASS", calls[t])
        /\ rows[t] = <<>>
  BY <1>1 DEF Halfway
<1>5. Legs(t) = <<"reserved", "reserved", "triggered">> /\ Len(Legs(t)) = 3
  BY <1>4, LegsAre
<1>6. server'[t] = "triggered" => calls[t] = 2
  BY <1>1, <1>4, <1>5 DEF Halfway
<1>7. /\ uploads' = [uploads EXCEPT ![t] = Append(uploads[t], "FAIL")]
      /\ Append(uploads[t], "FAIL") \in Seq({"PASS", "FAIL"})
      /\ Len(Append(uploads[t], "FAIL")) = calls[t] + 1
      /\ Append(uploads[t], "FAIL")[calls[t] + 1] = "FAIL"
      /\ \A i \in 1 .. calls[t] : Append(uploads[t], "FAIL")[i] = "PASS"
  <2>1. uploads[t] \in Seq({"PASS", "FAIL"}) /\ calls[t] \in Nat
    BY <1>1, <1>3
  <2> QED
    BY <1>4, <2>1, AppendRow DEF LegFails, Uploaded
<1>8. rows' = [rows EXCEPT ![t] = W!Times("SKIPPED", N)]
  <2>1. W!Times("SKIPPED", N) \in Seq({"PASS", "FAIL", "SKIPPED"})
    BY TimesIs, TestsAre
  <2>2. <<>> \o W!Times("SKIPPED", N) = W!Times("SKIPPED", N)
    BY <2>1
  <2> QED
    BY <1>4, <2>2 DEF LegFails, W!Write
<1>9. /\ W!Times("SKIPPED", N) \in Seq({"PASS", "FAIL", "SKIPPED"})
      /\ AllAre(W!Times("SKIPPED", N), "SKIPPED", N)
  BY TimesIs, TestsAre
<1>10. rows'[t] = W!Times("SKIPPED", N) /\ uploads'[t] = Append(uploads[t], "FAIL")
  BY <1>3, <1>7, <1>8
<1>11. Fits(t)'
  <2>1. /\ FailedUpload(t)' /\ Traced(t)'
        /\ \A i \in DOMAIN uploads'[t] : uploads'[t][i] = "FAIL" => i = Len(uploads'[t])
    <3>1. Len(uploads'[t]) = calls[t] + 1 /\ DOMAIN uploads'[t] = 1 .. calls[t] + 1
      BY <1>7, <1>10
    <3>2. \A i \in 1 .. calls[t] + 1 : i \in 1 .. calls[t] \/ i = calls[t] + 1
      BY <1>1
    <3>3. calls[t] + 1 \in 1 .. calls[t] + 1
      BY <1>1
    <3> QED
      BY <1>1, <1>7, <1>10, <3>1, <3>2, <3>3 DEF FailedUpload, Traced, LegFails
  <2>2. ~W!Has(t, "PASS")' /\ ~W!Has(t, "FAIL")'
    BY <1>9, <1>10 DEF W!Has, AllAre
  <2>3. server'[t] = "triggered" => uploads'[t] = W!Times("PASS", 2) \o <<"FAIL">>
    <3>1. SUFFICES ASSUME calls[t] = 2 PROVE uploads'[t] = W!Times("PASS", 2) \o <<"FAIL">>
      BY <1>6
    <3>2. uploads[t] \in Seq({"PASS", "FAIL"})
      BY <1>3
    <3>3. uploads[t] = W!Times("PASS", 2)
      BY <1>4, <3>1, <3>2, SameAsTimes
    <3>4. Append(uploads[t], "FAIL") = uploads[t] \o <<"FAIL">>
      BY <3>2
    <3> QED
      BY <1>10, <3>3, <3>4
  <2>4. verdict'[t] \in {"failed", "killed"}
    BY <1>2
  <2>5. (W!Times("SKIPPED", N))' = W!Times("SKIPPED", N)
    BY DEF W!Times
  <2>6. (W!Times("PASS", 2))' = W!Times("PASS", 2)
    BY DEF W!Times
  <2>7. calls'[t] # Len(Legs(t))'
    BY <1>1 DEF Halfway, Legs
  <2> QED
    BY <1>10, <2>1, <2>2, <2>3, <2>4, <2>5, <2>6, <2>7 DEF Fits
<1>12. InPhase(t)'
  BY <1>2, <1>11 DEF InPhase
<1>13. /\ uploads' \in [Tests -> Seq({"PASS", "FAIL"})]
       /\ rows' \in [Tests -> Seq({"PASS", "FAIL", "SKIPPED"})]
       /\ Len(uploads'[t]) <= Len(Legs(t)) /\ Len(rows'[t]) <= N
       /\ Apart(t)
  <2>1. Len(uploads'[t]) <= 3 /\ Len(rows'[t]) <= N
    BY <1>4, <1>7, <1>9, <1>10, TestsAre DEF AllAre
  <2> QED
    BY <1>1, <1>2, <1>3, <1>5, <1>7, <1>8, <1>9, <2>1 DEF Apart
<1> QED
  BY <1>1, <1>2, <1>3, <1>12, <1>13, UploadStepKept DEF LegFails
-----------------------------------------------------------------------------
(* The walk *)

Statuses == {"PASS", "FAIL", "SKIPPED"}

Occurs(s, st) == \E i \in DOMAIN s : s[i] = st

LEMMA ConcatOccurs ==
  ASSUME NEW S, NEW s \in Seq(S), NEW u \in Seq(S), NEW st
  PROVE  Occurs(s \o u, st) <=> Occurs(s, st) \/ Occurs(u, st)
<1>1. /\ DOMAIN (s \o u) = 1 .. Len(s) + Len(u)
      /\ \A i \in 1 .. Len(s) : (s \o u)[i] = s[i]
      /\ \A i \in 1 .. Len(u) : (s \o u)[Len(s) + i] = u[i]
  OBVIOUS
<1>2. ASSUME NEW i \in DOMAIN (s \o u), (s \o u)[i] = st
      PROVE  Occurs(s, st) \/ Occurs(u, st)
  <2>1. CASE i \in 1 .. Len(s)
    BY <1>1, <1>2, <2>1 DEF Occurs
  <2>2. CASE i \notin 1 .. Len(s)
    <3>1. i - Len(s) \in 1 .. Len(u) /\ Len(s) + (i - Len(s)) = i
      BY <1>1, <2>2
    <3> QED
      BY <1>1, <1>2, <3>1 DEF Occurs
  <2> QED
    BY <2>1, <2>2
<1>3. Occurs(s, st) => Occurs(s \o u, st)
  BY <1>1 DEF Occurs
<1>4. ASSUME NEW i \in DOMAIN u, u[i] = st
      PROVE  Occurs(s \o u, st)
  <2>1. Len(s) + i \in DOMAIN (s \o u)
    BY <1>1
  <2> QED
    BY <1>1, <1>4, <2>1 DEF Occurs
<1> QED
  BY <1>2, <1>3, <1>4 DEF Occurs

LEMMA HasIs == ASSUME NEW t, NEW st PROVE W!Has(t, st) <=> Occurs(rows[t], st)
BY DEF W!Has, Occurs

(* What a walk writes comes behind the rows there are. *)
LEMMA WriteIs ==
  ASSUME SessionInv, NEW t \in Tests, NEW s \in Seq(Statuses), W!Write(t, s)
  PROVE  /\ rows' \in [Tests -> Seq(Statuses)]
         /\ Len(rows'[t]) = Len(rows[t]) + Len(s)
         /\ \A st : W!Has(t, st)' <=> W!Has(t, st) \/ Occurs(s, st)
         /\ \A u \in Tests \ {t} : rows'[u] = rows[u]
<1>1. rows \in [Tests -> Seq(Statuses)] /\ rows' = [rows EXCEPT ![t] = rows[t] \o s]
  BY DEF W!Write, SessionInv, SessionTypeOK, Statuses
<1>2. rows[t] \in Seq(Statuses) /\ rows[t] \o s \in Seq(Statuses) /\ rows'[t] = rows[t] \o s
  BY <1>1
<1>3. Len(rows'[t]) = Len(rows[t]) + Len(s)
  BY <1>2
<1>4. \A st : W!Has(t, st)' <=> W!Has(t, st) \/ Occurs(s, st)
  <2>1. SUFFICES ASSUME NEW st PROVE W!Has(t, st)' <=> W!Has(t, st) \/ Occurs(s, st)
    OBVIOUS
  <2>2. Occurs(rows[t] \o s, st) <=> Occurs(rows[t], st) \/ Occurs(s, st)
    BY <1>2, ConcatOccurs
  <2>3. W!Has(t, st)' <=> Occurs(rows'[t], st)
    BY DEF W!Has, Occurs
  <2> QED
    BY <1>2, <2>2, <2>3, HasIs
<1> QED
  BY <1>1, <1>2, <1>3, <1>4

(* A step of a walk changes its rows, its verdict and where it stands. *)
LEMMA WalkStepKept ==
  ASSUME SessionInv, NEW t \in Tests,
         UNCHANGED <<listening, token, blob, progress, errors, saved>>,
         ~saved, pc[t] = "walking",
         pc' \in [Tests -> Places], verdict' \in [Tests -> W!Verdicts],
         rows' \in [Tests -> Seq(Statuses)], Len(rows'[t]) <= N,
         \A u \in Tests \ {t} : pc'[u] = pc[u] /\ rows'[u] = rows[u] /\ verdict'[u] = verdict[u],
         verdict[t] = "killed" => verdict'[t] = "killed",
         InPhase(t)'
  PROVE  SessionInv'
<1>1. Apart(t)
  BY DEF Apart, progress
<1>2. SourceInv'
  BY <1>1, SourceUntouched
<1>3. SessionTypeOK'
  <2>1. \A u \in Tests : Len(uploads'[u]) <= Len(Legs(u)) /\ Len(rows'[u]) <= N
    BY <1>1 DEF SessionInv, SessionTypeOK, Apart, progress
  <2> QED
    BY <2>1 DEF SessionInv, SessionTypeOK, Places, Statuses, progress, Legs
<1> QED
  BY <1>1, <1>2, <1>3, OneStep DEF progress

LEMMA WalkOnKept ==
  ASSUME SessionInv, NEW t \in Tests, WalkOn(t)
  PROVE  SessionInv'
<1>1. /\ Started(t) /\ ~saved /\ pc[t] = "walking" /\ Len(rows[t]) < N
      /\ verdict[t] \in {"none", "killed"}
  BY DEF WalkOn, Runs, W!Pass, W!Fail, SessionInv, InPhase
<1>2. PICK st \in {"PASS", "FAIL"} : W!Write(t, <<st>>) /\ UNCHANGED verdict
  BY DEF WalkOn, W!Pass, W!Fail
<1>3. <<st>> \in Seq(Statuses) /\ Len(<<st>>) = 1 /\ ~Occurs(<<st>>, "SKIPPED")
  BY DEF Occurs, Statuses
<1>4. /\ rows' \in [Tests -> Seq(Statuses)]
      /\ Len(rows'[t]) = Len(rows[t]) + 1
      /\ \A x : W!Has(t, x)' <=> W!Has(t, x) \/ Occurs(<<st>>, x)
      /\ \A u \in Tests \ {t} : rows'[u] = rows[u]
  BY <1>2, <1>3, WriteIs
<1>5. Len(rows'[t]) <= N
  <2>1. rows[t] \in Seq(Statuses)
    BY DEF SessionInv, SessionTypeOK, Statuses
  <2> QED
    BY <1>1, <1>4, <2>1, TestsAre
<1>6. Started(t)'
  <2>1. server'[t] = "triggered" /\ calls'[t] = Len(Legs(t))'
    BY <1>1 DEF Started, WalkOn, StageEvents, progress, Legs
  <2> QED
    BY <1>1, <1>3, <1>4, <2>1 DEF Started, WalkOn, progress, Traced
<1>7. InPhase(t)'
  BY <1>1, <1>2, <1>6 DEF InPhase, WalkOn
<1>8. pc' \in [Tests -> Places] /\ verdict' \in [Tests -> W!Verdicts]
  BY <1>2 DEF WalkOn, SessionInv, SessionTypeOK, Places
<1> QED
  BY <1>1, <1>2, <1>4, <1>5, <1>7, <1>8, WalkStepKept DEF WalkOn

LEMMA WalkEndsKept ==
  ASSUME SessionInv, NEW t \in Tests, WalkEnds(t)
  PROVE  SessionInv'
<1>1. /\ Started(t) /\ ~saved /\ pc[t] = "walking" /\ verdict[t] \in {"none", "killed"}
      /\ UNCHANGED <<listening, token, blob, progress, errors, saved>>
  BY DEF WalkEnds, Runs, SessionInv, InPhase
<1>2. pc' \in [Tests -> Places] /\ pc'[t] = "over" /\ \A u \in Tests \ {t} : pc'[u] = pc[u]
  BY GotoIs DEF WalkEnds, Places
<1>3. /\ rows \in [Tests -> Seq(Statuses)] /\ rows[t] \in Seq(Statuses) /\ Len(rows[t]) <= N
      /\ verdict \in [Tests -> W!Verdicts]
  BY DEF SessionInv, SessionTypeOK, Statuses
<1>4. ASSUME NEW v \in {"passed", "failed", "skipped"}, W!Decide(t, v)
      PROVE  /\ verdict' \in [Tests -> W!Verdicts]
             /\ verdict'[t] = IF verdict[t] = "killed" THEN "killed" ELSE v
             /\ \A u \in Tests \ {t} : verdict'[u] = verdict[u]
  BY <1>1, <1>3, <1>4 DEF W!Decide, W!Verdicts
<1>5. /\ Traced(t)' /\ ~FailedUpload(t)' /\ ~W!Has(t, "SKIPPED")
      /\ server' = server /\ listening' = listening
      /\ server[t] # "triggered" => t # "bulk" /\ rows[t] = <<>>
  BY <1>1 DEF Started, progress, Traced, FailedUpload
<1>6. CASE listening /\ W!ForceKill(t)
  <2> DEFINE n == N - Len(rows[t]) - 1
             s == <<"FAIL">> \o W!Times("SKIPPED", n)
  <2>1. n \in Nat
    BY <1>3, <1>6, TestsAre DEF W!ForceKill
  <2>2. W!Times("SKIPPED", n) \in Seq(Statuses) /\ Len(W!Times("SKIPPED", n)) = n
          /\ <<"FAIL">> \in Seq(Statuses)
    <3>1. "SKIPPED" \in Statuses /\ "FAIL" \in Statuses
      BY DEF Statuses
    <3>2. W!Times("SKIPPED", n) \in Seq(Statuses) /\ AllAre(W!Times("SKIPPED", n), "SKIPPED", n)
      BY <2>1, <3>1, TimesIs
    <3> QED
      BY <3>1, <3>2 DEF AllAre
  <2>3. s \in Seq(Statuses) /\ Len(s) = n + 1 /\ Occurs(<<"FAIL">>, "FAIL")
    BY <2>2 DEF Occurs
  <2>4. Occurs(s, "FAIL")
    <3> DEFINE first == <<"FAIL">>
               rest == W!Times("SKIPPED", n)
    <3>1. first \in Seq(Statuses) /\ rest \in Seq(Statuses) /\ Occurs(first, "FAIL")
            /\ s = first \o rest
      BY <2>2, <2>3
    <3> HIDE DEF first, rest
    <3>2. Occurs(first \o rest, "FAIL")
      BY <3>1, ConcatOccurs
    <3> QED
      BY <3>1, <3>2
  <2>5. W!Write(t, s)
    BY <1>6 DEF W!ForceKill
  <2> HIDE DEF s
  <2>6. /\ rows' \in [Tests -> Seq(Statuses)]
        /\ Len(rows'[t]) = Len(rows[t]) + Len(s)
        /\ W!Has(t, "FAIL")'
        /\ \A u \in Tests \ {t} : rows'[u] = rows[u]
    BY <2>3, <2>4, <2>5, WriteIs
  <2>7. Len(rows'[t]) <= N
    BY <1>3, <2>3, <2>6, TestsAre
  <2>8. W!Decide(t, "failed")
    BY <1>6 DEF W!ForceKill
  <2>9. server'[t] # "triggered" => t # "bulk" /\ Blamed(t)'
    <3>1. SUFFICES ASSUME server[t] # "triggered" PROVE t # "bulk" /\ Blamed(t)'
      BY <1>5
    <3>2. t # "bulk" /\ rows[t] = <<>>
      BY <1>5, <3>1
    <3>3. n = N - 1 /\ rows'[t] = s
      <4>1. Len(rows[t]) = 0 /\ <<>> \o s = s
        BY <2>3, <3>2
      <4>2. n = N - 1
        BY <4>1, TestsAre
      <4> QED
        BY <1>3, <2>5, <3>2, <4>1, <4>2 DEF W!Write
    <3>4. rows'[t] = <<"FAIL">> \o W!Times("SKIPPED", N - 1)
      BY <3>3 DEF s
    <3>5. (W!Times("SKIPPED", N - 1))' = W!Times("SKIPPED", N - 1)
      BY DEF W!Times
    <3> QED
      BY <1>1, <1>4, <1>5, <1>6, <2>8, <3>2, <3>4, <3>5 DEF Blamed
  <2>11. Fits(t)'
    BY <1>1, <1>4, <1>5, <2>6, <2>8, <2>9 DEF Fits
  <2>10. InPhase(t)'
    BY <1>2, <2>11 DEF InPhase
  <2> QED
    BY <1>1, <1>2, <1>4, <2>6, <2>7, <2>8, <2>10, WalkStepKept
<1>7. CASE W!Finish(t)
  <2>1. UNCHANGED rows /\ Len(rows[t]) = N
    BY <1>7 DEF W!Finish
  <2>2. PICK v \in {"passed", "failed"} : W!Decide(t, v) /\ (v = "passed" => ~W!Has(t, "FAIL"))
    BY <1>7 DEF W!Finish, W!AllPass, W!Has
  <2>3. /\ W!Has(t, "FAIL")' <=> W!Has(t, "FAIL")
        /\ ~W!Has(t, "SKIPPED")'
        /\ Len(rows'[t]) = N' /\ rows'[t] = rows[t]
    BY <1>5, <2>1 DEF W!Has
  <2>4. Fits(t)'
    <3>1. rows[t] # <<>>
      BY <2>1, TestsAre
    <3>2. server'[t] = "triggered"
      BY <1>5, <3>1
    <3> QED
      BY <1>1, <1>4, <1>5, <2>2, <2>3, <3>2 DEF Fits
  <2>5. InPhase(t)'
    BY <1>2, <2>4 DEF InPhase
  <2> QED
    BY <1>1, <1>2, <1>3, <1>4, <2>1, <2>2, <2>5, WalkStepKept
<1>8. CASE ~listening /\ W!SkipAll(t)
  <2> DEFINE s == W!Times("SKIPPED", N)
  <2>1. s \in Seq(Statuses) /\ AllAre(s, "SKIPPED", N)
    BY TimesIs, TestsAre DEF Statuses
  <2>2. W!Write(t, s) /\ rows[t] = <<>> /\ W!Decide(t, "skipped")
    BY <1>8 DEF W!SkipAll
  <2> HIDE DEF s
  <2>3. Occurs(s, "SKIPPED") /\ ~Occurs(s, "FAIL") /\ ~Occurs(s, "PASS") /\ Len(s) = N
    BY <2>1, TestsAre DEF Occurs, AllAre
  <2>4. ~W!Has(t, "FAIL") /\ ~W!Has(t, "PASS") /\ Len(rows[t]) = 0
    BY <2>2 DEF W!Has
  <2>5. /\ rows' \in [Tests -> Seq(Statuses)]
        /\ Len(rows'[t]) <= N
        /\ W!Has(t, "SKIPPED")' /\ ~W!Has(t, "FAIL")' /\ ~W!Has(t, "PASS")'
        /\ \A u \in Tests \ {t} : rows'[u] = rows[u]
    BY <2>1, <2>2, <2>3, <2>4, WriteIs, TestsAre
  <2>8. server'[t] # "triggered" => t # "bulk" /\ Blamed(t)'
    <3>1. rows'[t] = s
      <4>1. <<>> \o s = s
        BY <2>1
      <4> QED
        BY <1>3, <2>2, <4>1 DEF W!Write
    <3>2. rows'[t] = W!Times("SKIPPED", N) /\ (W!Times("SKIPPED", N))' = W!Times("SKIPPED", N)
      BY <3>1 DEF s, W!Times
    <3> QED
      BY <1>1, <1>4, <1>5, <1>8, <2>2, <3>2 DEF Blamed
  <2>6. Fits(t)'
    BY <1>1, <1>4, <1>5, <1>8, <2>2, <2>5, <2>8 DEF Fits
  <2>7. InPhase(t)'
    BY <1>2, <2>6 DEF InPhase
  <2> QED
    BY <1>1, <1>2, <1>4, <2>2, <2>5, <2>7, WalkStepKept
<1> QED
  BY <1>6, <1>7, <1>8 DEF WalkEnds
-----------------------------------------------------------------------------
(* pytest, the clock and the teardowns *)

LEMMA TimeoutKillKept ==
  ASSUME SessionInv, NEW t \in Tests, TimeoutKill(t)
  PROVE  SessionInv'
<1>1. /\ verdict[t] = "none" /\ pc[t] # "waiting" /\ pc[t] # "over" /\ ~saved
      /\ UNCHANGED <<listening, token, blob, progress, errors, saved, rows>>
      /\ verdict' = [verdict EXCEPT ![t] = "killed"]
  BY DEF TimeoutKill, Current, W!Kill, SessionInv, SavedInv, InPhase, Fits
<1>2. /\ verdict' \in [Tests -> W!Verdicts] /\ verdict'[t] = "killed"
      /\ \A u \in Tests \ {t} : verdict'[u] = verdict[u]
  BY <1>1 DEF SessionInv, SessionTypeOK, W!Verdicts
<1>3. \/ UNCHANGED pc
      \/ Goto(t, "over") /\ pc[t] \in {"setup", "minting"}
  BY DEF TimeoutKill
<1>4. /\ pc' \in [Tests -> Places] /\ \A u \in Tests \ {t} : pc'[u] = pc[u]
      /\ pc'[t] = pc[t] \/ (pc'[t] = "over" /\ pc[t] \in {"setup", "minting"})
  <2>1. pc \in [Tests -> Places]
    BY DEF SessionInv, SessionTypeOK, Places
  <2> QED
    BY <1>3, <2>1, GotoIs DEF Places
<1>5. InPhase(t)'
  <2>1. CASE pc'[t] = "over"
    <3>1. Idle(t)
      BY <1>1, <1>4, <2>1 DEF SessionInv, InPhase
    <3> QED
      BY <1>1, <1>2, <2>1, <3>1, StaysIdle, EndsIdle DEF progress
  <2>2. CASE pc'[t] = pc[t]
    BY <1>1, <1>2, <2>2
       DEF SessionInv, InPhase, Idle, Halfway, Started, W!Has, Traced, progress, Legs
  <2> QED
    BY <1>4, <2>1, <2>2
<1>6. Apart(t)
  BY <1>1, <1>2, <1>4 DEF Apart, progress
<1>7. SourceInv'
  BY <1>1, <1>2, <1>6, SourceUntouched
<1>8. SessionTypeOK'
  BY <1>1, <1>2, <1>4 DEF SessionInv, SessionTypeOK, Places, progress, Legs
<1> QED
  BY <1>1, <1>5, <1>6, <1>7, <1>8, OneStep DEF progress

(* What leaves every test as it is. *)
LEMMA OthersKept ==
  ASSUME SessionInv,
         TokenExpires \/ DeleteSource \/ Save
  PROVE  SessionInv'
<1>1. /\ UNCHANGED <<listening, pc, progress, rows, errors, verdict>>
      /\ token' \in {token, "refused"}
      /\ blob' = blob \/ (blob' \in {"deleted", "missed"} /\ blob = "lent")
      /\ saved' = saved \/ (saved' = TRUE /\ \A t \in Tests : verdict[t] # "none")
  BY DEF TokenExpires, DeleteSource, Save
<1>2. \A t \in Tests : InPhase(t)'
  <2>1. SUFFICES ASSUME NEW t \in Tests PROVE InPhase(t)'
    OBVIOUS
  <2>2. InPhase(t) /\ Traced(t)' = Traced(t)
    BY <1>1 DEF SessionInv, progress, Traced
  <2> QED
    BY <1>1, <2>2, Frame DEF progress
<1>3. SourceInv' /\ SavedInv'
  BY <1>1 DEF SessionInv, SourceInv, SavedInv
<1>4. SessionTypeOK'
  <2>1. saved' \in BOOLEAN
    BY <1>1 DEF SessionInv, SessionTypeOK
  <2> QED
    BY <1>1, <2>1 DEF SessionInv, SessionTypeOK, progress, Legs
<1> QED
  BY <1>2, <1>3, <1>4 DEF SessionInv

LEMMA InitHolds == Init => SessionInv
<1> SUFFICES ASSUME Init PROVE SessionInv
  OBVIOUS
<1> USE DEF Init, W!Init
<1>1. SessionTypeOK
  <2>1. /\ documents \in Seq(Tests) /\ uploads \in [Tests -> Seq({"PASS", "FAIL"})]
        /\ rows \in [Tests -> Seq({"PASS", "FAIL", "SKIPPED"})]
    OBVIOUS
  <2>2. \A t \in Tests : Len(uploads[t]) <= Len(Legs(t)) /\ Len(rows[t]) <= N
    BY LegsAre, TestsAre
  <2>3. saved \in BOOLEAN /\ listening \in BOOLEAN
    OBVIOUS
  <2> QED
    BY <2>1, <2>2, <2>3 DEF SessionTypeOK, W!Verdicts
<1>2. \A t \in Tests : InPhase(t)
  BY DEF InPhase, Idle, Traced
<1>3. SourceInv /\ SavedInv
  BY DEF SourceInv, SavedInv
<1> QED
  BY <1>1, <1>2, <1>3 DEF SessionInv

LEMMA NextKeeps == SessionInv /\ [Next]_vars => SessionInv'
<1>1. ASSUME SessionInv, Next PROVE SessionInv'
  <2>1. ASSUME NEW t \in Tests, Work(t) PROVE SessionInv'
    BY <1>1, <2>1, BeginKept, BeginUnauthorisedKept, SetUpKept, StoreSourceKept, SetupFailsKept,
       LegDoneKept, FirstLegFailsKept, LegFailsKept, WalkOnKept, WalkEndsKept DEF Work
  <2> QED
    BY <1>1, <2>1, TimeoutKillKept, OthersKept DEF Next
<1>2. ASSUME SessionInv, UNCHANGED vars PROVE SessionInv'
  <2>1. \A t \in Tests : InPhase(t)'
    <3>1. SUFFICES ASSUME NEW t \in Tests PROVE InPhase(t)'
      OBVIOUS
    <3>2. InPhase(t) /\ Traced(t)' = Traced(t)
      BY <1>2 DEF SessionInv, vars, Traced
    <3> QED
      BY <1>2, <3>2, Frame DEF vars
  <2>2. SourceInv' /\ SavedInv'
    BY <1>2 DEF SessionInv, SourceInv, SavedInv, vars
  <2>3. SessionTypeOK'
    BY <1>2 DEF SessionInv, SessionTypeOK, vars, Legs
  <2> QED
    BY <2>1, <2>2, <2>3 DEF SessionInv
<1> QED
  BY <1>1, <1>2
-----------------------------------------------------------------------------
(* The theorems *)

(* The inductive invariant: at each place of a test's coroutine, what the    *)
(* test, the service and the report know of its document fits together.     *)
THEOREM SessionInvCorrect == Spec => []SessionInv
BY InitHolds, NextKeeps, PTL DEF Spec

(* The type invariant of a session, for any tests and number of stages.     *)
THEOREM SessionTypeCorrect == Spec => []SessionTypeOK
<1>1. SessionInv => SessionTypeOK
  BY DEF SessionInv
<1> QED
  BY <1>1, SessionInvCorrect, PTL

LEMMA StatusesAre ==
  ASSUME SessionInv, NEW t \in Tests
  PROVE  /\ StatusesOf(t) \subseteq Statuses
         /\ "FAIL" \in StatusesOf(t) <=> FailedUpload(t) \/ W!Has(t, "FAIL")
         /\ W!Has(t, "SKIPPED") => "SKIPPED" \in StatusesOf(t)
<1>1. uploads[t] \in Seq({"PASS", "FAIL"}) /\ rows[t] \in Seq({"PASS", "FAIL", "SKIPPED"})
  BY DEF SessionInv, SessionTypeOK
<1>2. /\ \A i \in DOMAIN uploads[t] : uploads[t][i] \in {"PASS", "FAIL"}
      /\ \A i \in DOMAIN rows[t] : rows[t][i] \in {"PASS", "FAIL", "SKIPPED"}
  BY <1>1
<1> QED
  BY <1>2 DEF StatusesOf, Statuses, FailedUpload, W!Has

LEMMA DocumentsAreTests == SessionInv => Documents \subseteq Tests
<1>1. SUFFICES ASSUME SessionInv PROVE Documents \subseteq Tests
  OBVIOUS
<1>2. documents \in Seq(Tests)
  BY <1>1 DEF SessionInv, SessionTypeOK
<1> QED
  BY <1>2 DEF Documents

(* The HTML header, the sections of the page and the Slack message show the  *)
(* same lights, whatever the rows of the documents.                         *)
THEOREM RollupsAlwaysAgree == Spec => []RollupsAgree
<1>1. ASSUME SessionInv PROVE RollupsAgree
  <2>1. ASSUME NEW t \in Documents
        PROVE  /\ ComputeStatus(StatusesOf(t)) \in {"PENDING", "FAIL", "PASS", "PARTIAL"}
               /\ ScenarioStatus(StatusesOf(t)) \in {"pass", "fail", "unverified"}
               /\ ComputeStatus(StatusesOf(t)) = "PASS" <=> ScenarioStatus(StatusesOf(t)) = "pass"
               /\ ComputeStatus(StatusesOf(t)) = "FAIL" <=> ScenarioStatus(StatusesOf(t)) = "fail"
    BY DEF ComputeStatus, ScenarioStatus
  <2>2. ASSUME NEW t \in Documents
        PROVE  LET section == TestCaseStatus({ComputeStatus(StatusesOf(t))})
                   scenario == ScenarioStatus(StatusesOf(t))
               IN /\ section = "PASS" <=> scenario = "pass"
                  /\ section = "FAIL" <=> scenario = "fail"
    <3>1. ASSUME NEW c \in {"PENDING", "FAIL", "PASS", "PARTIAL"}
          PROVE  TestCaseStatus({c}) = "PASS" <=> c = "PASS"
      BY DEF TestCaseStatus
    <3>2. ASSUME NEW c \in {"PENDING", "FAIL", "PASS", "PARTIAL"}
          PROVE  TestCaseStatus({c}) = "FAIL" <=> c = "FAIL"
      BY DEF TestCaseStatus
    <3> QED
      BY <2>1, <3>1, <3>2
  <2> DEFINE D == {ComputeStatus(StatusesOf(t)) : t \in Documents}
             B == {ScenarioStatus(StatusesOf(t)) : t \in Documents}
  <2>3. /\ D \subseteq {"PENDING", "FAIL", "PASS", "PARTIAL"} /\ B \subseteq {"pass", "fail", "unverified"}
        /\ D = {} <=> B = {}
        /\ D \subseteq {"PASS"} <=> B \subseteq {"pass"}
        /\ "FAIL" \in D <=> "fail" \in B
    <3>1. D = {} <=> B = {}
      OBVIOUS
    <3>2. D \subseteq {"PASS"} <=> B \subseteq {"pass"}
      BY <2>1
    <3>3. "FAIL" \in D <=> "fail" \in B
      BY <2>1
    <3> QED
      BY <2>1, <3>1, <3>2, <3>3
  <2>4. Html = OverallStatus(D) /\ Slack = SlackStatus(B, errors # {})
    BY DEF Html, Slack
  <2> HIDE DEF D, B
  <2>5. (Slack = "pass" <=> Html = "PASS" /\ errors = {}) /\ (Html = "FAIL" => Slack = "fail")
    <3>1. Slack = "pass" <=> D # {} /\ D \subseteq {"PASS"} /\ errors = {}
      BY <2>3, <2>4 DEF SlackStatus
    <3>2. Html = "PASS" <=> D # {} /\ D \subseteq {"PASS"}
      BY <2>3, <2>4 DEF OverallStatus
    <3>3. Html = "FAIL" <=> "FAIL" \in D
      BY <2>3, <2>4 DEF OverallStatus
    <3>4. "FAIL" \in D => Slack = "fail"
      BY <2>3, <2>4 DEF SlackStatus
    <3> QED
      BY <3>1, <3>2, <3>3, <3>4
  <2> QED
    BY <2>2, <2>5 DEF RollupsAgree
<1> QED
  BY <1>1, SessionInvCorrect, PTL

(* A published FAIL row belongs to a test that pytest calls failed, or that  *)
(* pytest-timeout killed.                                                   *)
THEOREM RedRowsMeanRedTests == Spec => []RedRowMeansRedTest
<1>1. ASSUME SessionInv, saved, NEW t \in Tests, "FAIL" \in StatusesOf(t)
      PROVE  verdict[t] \in {"failed", "killed"}
  <2>1. verdict[t] # "none" /\ InPhase(t)
    BY <1>1 DEF SessionInv, SavedInv
  <2> QED
    BY <1>1, <2>1, StatusesAre DEF InPhase, Fits
<1>2. SessionInv => RedRowMeansRedTest
  BY <1>1 DEF RedRowMeansRedTest
<1> QED
  BY <1>2, SessionInvCorrect, PTL

(* Behind a green Slack message every test passed, but for the three stated  *)
(* exceptions.                                                              *)
THEOREM GreenAlwaysExplained == Spec => []GreenIsExplained
<1>1. ASSUME SessionInv, saved, Slack = "pass", NEW t \in Tests
      PROVE  \/ verdict[t] \in {"passed", "killed"}
             \/ verdict[t] = "failed" /\ t \notin Documents
             \/ verdict[t] = "failed" /\ rows[t] = W!Times("PASS", N)
  <2>1. errors = {} /\ \A d \in Documents : StatusesOf(d) \subseteq {"PASS"}
    <3>1. errors = {} /\ \A d \in Documents : ScenarioStatus(StatusesOf(d)) # "fail"
      BY <1>1 DEF Slack, SlackStatus
    <3>2. \A d \in Documents : ScenarioStatus(StatusesOf(d)) # "unverified"
      BY <1>1 DEF Slack, SlackStatus
    <3> QED
      BY <3>1, <3>2 DEF ScenarioStatus
  <2>2. SUFFICES ASSUME verdict[t] \in {"failed", "skipped"}
                 PROVE  \/ verdict[t] = "failed" /\ t \notin Documents
                        \/ verdict[t] = "failed" /\ rows[t] = W!Times("PASS", N)
    <3>1. verdict[t] \in W!Verdicts /\ verdict[t] # "none"
      BY <1>1 DEF SessionInv, SessionTypeOK, SavedInv
    <3> QED
      BY <3>1 DEF W!Verdicts
  <2>3. Fits(t)
    BY <1>1, <2>2 DEF SessionInv, InPhase
  <2>4. Traced(t) <=> t \in Documents
    BY DEF Traced, Documents
  <2>5. CASE t \notin Documents
    BY <2>1, <2>2, <2>3, <2>4, <2>5 DEF Fits
  <2>6. CASE t \in Documents
    <3>1. /\ ~FailedUpload(t) /\ ~W!Has(t, "FAIL") /\ ~W!Has(t, "SKIPPED")
          /\ \A i \in DOMAIN rows[t] : rows[t][i] = "PASS"
      <4>1. "FAIL" \notin StatusesOf(t) /\ "SKIPPED" \notin StatusesOf(t)
        BY <2>1, <2>6
      <4>2. \A i \in DOMAIN rows[t] : rows[t][i] \in StatusesOf(t)
        BY DEF StatusesOf
      <4> QED
        BY <1>1, <2>1, <2>6, <4>1, <4>2, StatusesAre
    <3>2. verdict[t] = "failed" /\ Len(rows[t]) = N
      BY <2>1, <2>2, <2>3, <2>4, <2>6, <3>1 DEF Fits
    <3>3. rows[t] \in Seq(Statuses) /\ N \in Nat
      BY <1>1, TestsAre DEF SessionInv, SessionTypeOK, Statuses
    <3>4. AllAre(rows[t], "PASS", N)
      BY <3>1, <3>2, <3>3 DEF AllAre
    <3> QED
      BY <3>2, <3>3, <3>4, SameAsTimes
  <2> QED
    BY <2>5, <2>6
<1>2. SessionInv => GreenIsExplained
  BY <1>1 DEF GreenIsExplained
<1> QED
  BY <1>2, SessionInvCorrect, PTL

(* A blob that nobody tried to delete is on record, or its test was killed.  *)
THEOREM OrphansReported == Spec => []OrphanIsReported
<1>1. ASSUME SessionInv, saved, blob = "stored"
      PROVE  "bulk" \in errors \/ verdict["bulk"] = "killed"
  <2>1. "bulk" \in Tests /\ verdict["bulk"] # "none"
    BY <1>1 DEF SessionInv, SourceInv, SavedInv
  <2> QED
    BY <1>1, <2>1 DEF SessionInv, SourceInv, InPhase
<1>2. SessionInv => OrphanIsReported
  BY <1>1 DEF OrphanIsReported
<1> QED
  BY <1>2, SessionInvCorrect, PTL

(* A pipeline that nobody started is blamed on its first stage, or not       *)
(* judged at all, whatever the other pipelines of the session do.           *)
THEOREM UnstartedNeverGreen == Spec => []UnstartedIsNeverGreen
<1>1. ASSUME SessionInv, NEW t \in Tests, calls[t] = Len(Legs(t)), server[t] # "triggered"
      PROVE  /\ t # "bulk"
             /\ pc[t] = "walking" => rows[t] = <<>>
             /\ pc[t] = "over" => Blamed(t)
  <2>1. InPhase(t) /\ pc[t] \in Places
    BY <1>1 DEF SessionInv, SessionTypeOK, Places
  <2>2. ~Idle(t)
    <3>1. Len(Legs(t)) # 0
      BY LegsAre
    <3> QED
      BY <1>1, <3>1 DEF Idle
  <2>3. ~Halfway(t)
    <3>1. Len(Legs(t)) \in Nat
      BY LegsAre
    <3> QED
      BY <1>1, <3>1 DEF Halfway
  <2>4. pc[t] \in {"walking", "over"}
    BY <2>1, <2>2, <2>3 DEF InPhase, Places
  <2> QED
    BY <1>1, <2>1, <2>4 DEF InPhase, Started, Fits
<1>2. SessionInv => UnstartedIsNeverGreen
  BY <1>1 DEF UnstartedIsNeverGreen, Blamed
<1> QED
  BY <1>2, SessionInvCorrect, PTL

(* A document blames one part only: a failed upload call or a stage.         *)
THEOREM OneCauseOnly == Spec => []OneCause
<1>1. ASSUME SessionInv, NEW t \in Tests, FailedUpload(t)
      PROVE  /\ rows[t] = W!Times("SKIPPED", N)
             /\ \A i \in DOMAIN uploads[t] : uploads[t][i] = "FAIL" => i = Len(uploads[t])
  <2>1. InPhase(t) /\ pc[t] \in Places
    BY <1>1 DEF SessionInv, SessionTypeOK, Places
  <2>2. pc[t] = "uploading" => ~FailedUpload(t)
    <3>1. uploads[t] \in Seq({"PASS", "FAIL"})
      BY <1>1 DEF SessionInv, SessionTypeOK
    <3> QED
      BY <1>1, <2>1, <3>1 DEF InPhase, Halfway, AllAre, FailedUpload
  <2> QED
    BY <1>1, <2>1, <2>2 DEF InPhase, Places, Idle, Started, Fits, FailedUpload
<1>2. SessionInv => OneCause
  BY <1>1 DEF OneCause, FailedUpload
<1> QED
  BY <1>2, SessionInvCorrect, PTL

(* A stage of a started pipeline is SKIPPED for one of the stated reasons.   *)
THEOREM SkippedExplained == Spec => []SkippedIsExplained
<1>1. ASSUME SessionInv, NEW t \in Tests, server[t] = "triggered", W!Has(t, "SKIPPED")
      PROVE  ~listening \/ W!Has(t, "FAIL") \/ uploads[t] = W!Times("PASS", 2) \o <<"FAIL">>
  <2>1. InPhase(t) /\ pc[t] \in Places
    BY <1>1 DEF SessionInv, SessionTypeOK, Places
  <2> QED
    BY <1>1, <2>1 DEF InPhase, Places, Idle, Halfway, Started, Fits, W!Has
<1>2. SessionInv => SkippedIsExplained
  BY <1>1 DEF SkippedIsExplained
<1> QED
  BY <1>2, SessionInvCorrect, PTL

(* A document of the service that the report does not show belongs to a test *)
(* that visibly did not pass.                                               *)
THEOREM NothingIsSecret == Spec => []NothingInSecret
<1>1. ASSUME SessionInv, saved, NEW t \in Tests, server[t] # "absent", ~Traced(t)
      PROVE  verdict[t] \in {"failed", "killed"}
  <2>1. InPhase(t) /\ pc[t] \in Places /\ verdict[t] # "none"
    BY <1>1 DEF SessionInv, SessionTypeOK, SavedInv, Places
  <2> QED
    BY <1>1, <2>1 DEF InPhase, Places, Idle, Started, Fits
<1>2. SessionInv => NothingInSecret
  BY <1>1 DEF NothingInSecret
<1> QED
  BY <1>2, SessionInvCorrect, PTL
-----------------------------------------------------------------------------
(* A session ends *)

(* How far a walk is, and what is left of a test: to the next place of its   *)
(* coroutine, call or stage, and to its verdict.                            *)
Far(t) == Len(rows[t])

LeftAt(place, called, far) ==
  CASE place = "waiting" -> N + 9
    [] place = "setup" -> N + 8
    [] place = "minting" -> N + 7
    [] place = "uploading" -> N + 6 - called
    [] place = "walking" -> N + 2 - far
    [] OTHER -> 0

Left(t) == LeftAt(pc[t], calls[t], Far(t)) + (IF verdict[t] = "none" THEN 1 ELSE 0)

LeftOf(t) == IF t \in Tests THEN Left(t) ELSE 0

(* The source blob and the token each allow one step more, and the teardown. *)
Extras ==
  (IF blob = "lent" THEN 1 ELSE 0) + (IF token = "ok" THEN 1 ELSE 0) + (IF saved THEN 0 ELSE 1)

StepsLeft == 3 * (LeftOf("bulk") + LeftOf("presigned") + LeftOf("ui")) + Extras

LEMMA LeftAtIs ==
  ASSUME NEW place \in Places, NEW called \in 0 .. 3, NEW far \in 0 .. N
  PROVE  /\ LeftAt(place, called, far) \in Nat
         /\ place # "over" => LeftAt(place, called, far) >= 2
BY TestsAre DEF LeftAt, Places

(* A coroutine goes on to a later place, or has a call or a stage behind it. *)
Onward(place, called, far, place2, called2, far2) ==
  \/ place = "waiting" /\ place2 \in {"setup", "over"}
  \/ place = "setup" /\ place2 \in {"minting", "uploading", "over"}
  \/ place = "minting" /\ place2 \in {"uploading", "over"}
  \/ place = "uploading" /\ called < 3 /\ place2 \in {"walking", "over"}
  \/ place = "uploading" /\ place2 = "uploading" /\ called2 = called + 1
  \/ place = "walking" /\ place2 = "over"
  \/ place = "walking" /\ place2 = "walking" /\ far2 = far + 1

Moved(t) == Onward(pc[t], calls[t], Far(t), pc'[t], calls'[t], Far(t)')

LEMMA OnwardIsLess ==
  ASSUME NEW p \in Places, NEW c \in 0 .. 3, NEW f \in 0 .. N,
         NEW p2 \in Places, NEW c2 \in 0 .. 3, NEW f2 \in 0 .. N,
         Onward(p, c, f, p2, c2, f2)
  PROVE  /\ p # "over" /\ LeftAt(p2, c2, f2) < LeftAt(p, c, f)
         /\ p2 = "over" => LeftAt(p2, c2, f2) = 0
<1>1. N \in Nat
  BY TestsAre
<1>2. CASE p = "waiting" /\ p2 \in {"setup", "over"}
  BY <1>1, <1>2 DEF LeftAt
<1>3. CASE p = "setup" /\ p2 \in {"minting", "uploading", "over"}
  BY <1>1, <1>3 DEF LeftAt
<1>4. CASE p = "minting" /\ p2 \in {"uploading", "over"}
  BY <1>1, <1>4 DEF LeftAt
<1>5. CASE p = "uploading" /\ c < 3 /\ p2 \in {"walking", "over"}
  BY <1>1, <1>5 DEF LeftAt
<1>6. CASE p = "uploading" /\ p2 = "uploading" /\ c2 = c + 1
  BY <1>1, <1>6 DEF LeftAt
<1>7. CASE p = "walking" /\ p2 = "over"
  BY <1>1, <1>7 DEF LeftAt
<1>8. CASE p = "walking" /\ p2 = "walking" /\ f2 = f + 1
  BY <1>1, <1>8 DEF LeftAt
<1> QED
  BY <1>2, <1>3, <1>4, <1>5, <1>6, <1>7, <1>8 DEF Onward

LEMMA TypesAre ==
  ASSUME NEW t \in Tests
  PROVE  SessionTypeOK => pc[t] \in Places /\ calls[t] \in 0 .. 3 /\ Far(t) \in 0 .. N
<1>1. SUFFICES ASSUME SessionTypeOK
               PROVE  pc[t] \in Places /\ calls[t] \in 0 .. 3 /\ Far(t) \in 0 .. N
  OBVIOUS
<1>2. rows[t] \in Seq({"PASS", "FAIL", "SKIPPED"}) /\ Len(rows[t]) <= N /\ N \in Nat
  BY <1>1, TestsAre DEF SessionTypeOK
<1>3. Far(t) \in 0 .. N
  BY <1>2 DEF Far
<1> QED
  BY <1>1, <1>3 DEF SessionTypeOK, Places

LEMMA LeftIs == ASSUME SessionTypeOK, NEW t \in Tests PROVE Left(t) \in Nat
<1>1. LeftAt(pc[t], calls[t], Far(t)) \in Nat
  BY TypesAre, LeftAtIs
<1> QED
  BY <1>1 DEF Left

LEMMA StepsLeftIs == SessionTypeOK => StepsLeft \in Nat /\ Extras \in Nat
<1>1. SUFFICES ASSUME SessionTypeOK PROVE StepsLeft \in Nat /\ Extras \in Nat
  OBVIOUS
<1>2. LeftOf("bulk") \in Nat /\ LeftOf("presigned") \in Nat /\ LeftOf("ui") \in Nat
  BY <1>1, LeftIs DEF LeftOf
<1>3. Extras \in Nat
  BY DEF Extras
<1> QED
  BY <1>2, <1>3 DEF StepsLeft

LEMMA TypesThen ==
  ASSUME NEW t \in Tests, SessionTypeOK'
  PROVE  pc'[t] \in Places /\ calls'[t] \in 0 .. 3 /\ Far(t)' \in 0 .. N
<1>1. rows'[t] \in Seq({"PASS", "FAIL", "SKIPPED"}) /\ Len(rows'[t]) <= N /\ N \in Nat
  BY TestsAre DEF SessionTypeOK
<1>2. Len(rows'[t]) \in 0 .. N
  BY <1>1
<1>3. Far(t)' = Len(rows'[t])
  BY DEF Far
<1> QED
  BY <1>2, <1>3 DEF SessionTypeOK, Places

LEMMA MovedIsLess ==
  ASSUME SessionTypeOK, SessionTypeOK', NEW t \in Tests, Moved(t),
         verdict[t] # "none" => verdict'[t] # "none"
  PROVE  Left(t)' \in Nat /\ Left(t)' < Left(t)
<1> DEFINE now == LeftAt(pc[t], calls[t], Far(t))
           then == LeftAt(pc'[t], calls'[t], Far(t)')
<1>1. /\ pc[t] \in Places /\ calls[t] \in 0 .. 3 /\ Far(t) \in 0 .. N
      /\ pc'[t] \in Places /\ calls'[t] \in 0 .. 3 /\ Far(t)' \in 0 .. N
  BY TypesAre, TypesThen
<1>2. now \in Nat /\ then \in Nat /\ (pc[t] # "over" => now >= 2)
  BY <1>1, LeftAtIs
<1>3. pc[t] # "over" /\ then < now /\ (pc'[t] = "over" => then = 0)
  BY <1>1, OnwardIsLess DEF Moved
<1>4. Left(t) = now + (IF verdict[t] = "none" THEN 1 ELSE 0)
  BY DEF Left
<1>5. Left(t)' = then + (IF verdict'[t] = "none" THEN 1 ELSE 0)
  BY DEF Left
<1> HIDE DEF now, then
<1> QED
  BY <1>2, <1>3, <1>4, <1>5

(* A step of one test, at most one of the extras, and the session is shorter. *)
LEMMA OneStepLess ==
  ASSUME SessionTypeOK, SessionTypeOK', NEW t \in Tests, Apart(t), saved' = saved,
         Left(t)' \in Nat, Left(t)' < Left(t)
  PROVE  StepsLeft' < StepsLeft
<1>1. \A u \in Tests : u # t => Left(u)' = Left(u)
  BY DEF Apart, Left, Far
<1>2. \A u \in Tests : Left(u) \in Nat
  BY LeftIs
<1>3. Extras \in Nat /\ Extras' \in Nat /\ Extras' <= Extras + 2
  BY DEF Extras
<1>4. \A u : u \notin Tests => LeftOf(u) = 0 /\ LeftOf(u)' = 0
  BY DEF LeftOf
<1>5. \A u \in Tests : LeftOf(u) = Left(u) /\ LeftOf(u)' = Left(u)'
  BY DEF LeftOf
<1>6. \A u : u # t => LeftOf(u)' = LeftOf(u) /\ LeftOf(u) \in Nat
  BY <1>1, <1>2, <1>4, <1>5
<1>7. LeftOf(t) \in Nat /\ LeftOf(t)' \in Nat /\ LeftOf(t)' < LeftOf(t)
  BY <1>2, <1>5
<1>8. t \in {"bulk", "presigned", "ui"}
  BY TestsAre
<1>9. StepsLeft' = 3 * (LeftOf("bulk")' + LeftOf("presigned")' + LeftOf("ui")') + Extras'
  BY DEF StepsLeft
<1> QED
  BY <1>3, <1>6, <1>7, <1>8, <1>9 DEF StepsLeft

(* Every step of a test's coroutine takes it further. *)
LEMMA WorkMoves ==
  ASSUME SessionInv, NEW t \in Tests, Work(t)
  PROVE  /\ Apart(t) /\ Moved(t) /\ saved' = saved
         /\ verdict[t] # "none" => verdict'[t] # "none"
<1>1. /\ pc \in [Tests -> Places] /\ verdict \in [Tests -> W!Verdicts]
      /\ calls \in [Tests -> 0 .. 3] /\ InPhase(t)
      /\ server \in [Tests -> {"absent", "reserved", "triggered"}]
      /\ uploads \in [Tests -> Seq({"PASS", "FAIL"})]
      /\ rows \in [Tests -> Seq({"PASS", "FAIL", "SKIPPED"})]
  BY DEF SessionInv, SessionTypeOK, Places
<1>2. CASE Begin(t) \/ BeginUnauthorised(t)
  BY <1>1, <1>2 DEF Begin, BeginUnauthorised, UpNext, Goto, End, W!Decide, Apart, Moved, Onward, progress
<1>3. CASE PlainSetup(t) \/ LogIn(t) \/ MintSas(t) \/ StoreSource(t)
  BY <1>1, <1>3 DEF PlainSetup, LogIn, MintSas, StoreSource, SetUp, Goto, Apart, Moved, Onward, progress
<1>4. CASE SourceFails(t) \/ LogInFails(t) \/ LogInBreaks(t)
  BY <1>1, <1>4 DEF SourceFails, LogInFails, LogInBreaks, Goto, End, W!Decide, Apart, Moved, Onward, progress
<1>5. ASSUME Calling(t), calls' = [calls EXCEPT ![t] = @ + 1], NextLeg(t)
      PROVE  /\ pc' \in [Tests -> Places] /\ Moved(t)
             /\ \A u \in Tests \ {t} : pc'[u] = pc[u] /\ calls'[u] = calls[u]
  <2>1. Goto(t, "walking") \/ Goto(t, "uploading")
    BY <1>5 DEF NextLeg
  <2>2. pc' \in [Tests -> Places] /\ pc'[t] \in {"walking", "uploading"}
        /\ \A u \in Tests \ {t} : pc'[u] = pc[u]
    BY <1>1, <2>1 DEF Goto, Places
  <2>3. pc[t] = "uploading" /\ calls[t] < 3 /\ calls'[t] = calls[t] + 1
    <3>1. pc[t] = "uploading" /\ calls[t] \in 0 .. 2
      BY <1>5, CallingIs
    <3> QED
      BY <1>1, <1>5, <3>1
  <2> QED
    BY <1>1, <1>5, <2>2, <2>3 DEF Moved, Onward
<1>6. CASE FirstLegDone(t) \/ LegDone(t) \/ DriveLegDone(t)
  <2>1. /\ Calling(t) /\ calls' = [calls EXCEPT ![t] = @ + 1] /\ NextLeg(t)
        /\ \A u \in Tests \ {t} : server'[u] = server[u]
        /\ Uploaded(t, "PASS") \/ UNCHANGED uploads
        /\ UNCHANGED <<rows, verdict, saved>>
    <3>1. Accepted(t) /\ NextLeg(t) /\ UNCHANGED <<rows, verdict, saved>>
      BY <1>6 DEF FirstLegDone, LegDone, DriveLegDone, Accepted
    <3>2. Uploaded(t, "PASS") \/ UNCHANGED uploads
      BY <1>6 DEF FirstLegDone, LegDone, DriveLegDone
    <3> QED
      BY <3>1, <3>2, AcceptedIs
  <2> QED
    BY <1>1, <1>5, <2>1 DEF Uploaded, Apart
<1>7. CASE FirstLegFails(t) \/ LegFails(t)
  <2>1. /\ Raised(t) /\ Goto(t, "over")
        /\ \E v \in {"failed"} : W!Decide(t, v)
        /\ Uploaded(t, "FAIL") \/ UNCHANGED uploads
        /\ UNCHANGED rows \/ W!Write(t, W!Times("SKIPPED", N))
        /\ saved' = saved
    BY <1>7 DEF FirstLegFails, LegFails, End
  <2>2. /\ pc[t] = "uploading" /\ calls[t] < 3 /\ UNCHANGED calls
        /\ \A u \in Tests \ {t} : server'[u] = server[u]
    <3>1. pc[t] = "uploading" /\ calls[t] \in 0 .. 2
      BY <2>1, CallingIs DEF Raised
    <3>2. UNCHANGED calls /\ \A u \in Tests \ {t} : server'[u] = server[u]
      BY <2>1, RaisedIs
    <3> QED
      BY <3>1, <3>2
  <2>3. \A u \in Tests \ {t} : uploads'[u] = uploads[u] /\ rows'[u] = rows[u]
    BY <1>1, <2>1 DEF Uploaded, W!Write
  <2>4. /\ pc' \in [Tests -> Places] /\ pc'[t] = "over"
        /\ verdict[t] # "none" => verdict'[t] # "none"
        /\ \A u \in Tests \ {t} : pc'[u] = pc[u] /\ verdict'[u] = verdict[u]
    BY <1>1, <2>1 DEF End, Goto, W!Decide, Places
  <2> QED
    BY <2>1, <2>2, <2>3, <2>4 DEF Apart, Moved, Onward
<1>8. CASE WalkOn(t)
  <2>1. PICK st \in {"PASS", "FAIL"} : W!Write(t, <<st>>) /\ UNCHANGED verdict
    BY <1>8 DEF WalkOn, W!Pass, W!Fail
  <2>2. <<st>> \in Seq(Statuses) /\ Len(<<st>>) = 1
    BY DEF Statuses
  <2>3. Far(t)' = Far(t) + 1 /\ \A u \in Tests \ {t} : rows'[u] = rows[u]
    BY <2>1, <2>2, WriteIs DEF Far
  <2> QED
    BY <1>1, <1>8, <2>1, <2>3 DEF WalkOn, progress, Apart, Moved, Onward
<1>9. CASE WalkEnds(t)
  <2>1. /\ pc[t] = "walking" /\ Goto(t, "over")
        /\ UNCHANGED <<progress, saved>>
        /\ \E v \in {"failed", "skipped", "passed"} : W!Decide(t, v)
        /\ UNCHANGED rows \/ \E s : W!Write(t, s)
    BY <1>9 DEF WalkEnds, W!ForceKill, W!SkipAll, W!Finish
  <2> QED
    BY <1>1, <2>1 DEF progress, Goto, W!Decide, W!Write, Apart, Moved, Onward
<1> QED
  BY <1>2, <1>3, <1>4, <1>6, <1>7, <1>8, <1>9 DEF Work

LEMMA NextIsLess ==
  ASSUME SessionInv, SessionInv', Next
  PROVE  StepsLeft' < StepsLeft
<1>1. SessionTypeOK /\ SessionTypeOK'
  BY DEF SessionInv
<1>2. ASSUME NEW t \in Tests, Work(t) PROVE StepsLeft' < StepsLeft
  <2>1. /\ Apart(t) /\ Moved(t) /\ saved' = saved
        /\ verdict[t] # "none" => verdict'[t] # "none"
    BY <1>2, WorkMoves
  <2>2. Left(t)' \in Nat /\ Left(t)' < Left(t)
    BY <1>1, <2>1, MovedIsLess
  <2> QED
    BY <1>1, <2>1, <2>2, OneStepLess
<1>3. ASSUME NEW t \in Tests, TimeoutKill(t) PROVE StepsLeft' < StepsLeft
  <2>1. /\ verdict[t] = "none" /\ verdict'[t] = "killed" /\ pc[t] # "over"
        /\ \A u \in Tests \ {t} : pc'[u] = pc[u] /\ verdict'[u] = verdict[u]
        /\ pc'[t] = pc[t] \/ (pc[t] \in {"setup", "minting"} /\ pc'[t] = "over")
        /\ UNCHANGED <<progress, rows, saved>>
    BY <1>1, <1>3 DEF TimeoutKill, Current, W!Kill, Goto, SessionInv, InPhase, Fits, SessionTypeOK
  <2>2. Apart(t)
    BY <2>1 DEF Apart, progress
  <2>3. CASE pc'[t] = pc[t]
    <3>1. LeftAt(pc[t], calls[t], Far(t)) \in Nat
      BY <1>1, TypesAre, LeftAtIs
    <3>2. Left(t) = LeftAt(pc[t], calls[t], Far(t)) + 1
      BY <2>1 DEF Left
    <3>3. Left(t)' = LeftAt(pc[t], calls[t], Far(t))
      <4>1. Far(t)' = Far(t) /\ calls'[t] = calls[t] /\ verdict'[t] # "none"
        BY <2>1 DEF Far, progress
      <4>2. LeftAt(pc[t], calls[t], Far(t)) + 0 = LeftAt(pc[t], calls[t], Far(t))
        BY <3>1
      <4> QED
        BY <2>3, <4>1, <4>2 DEF Left
    <3>4. Left(t)' \in Nat /\ Left(t)' < Left(t)
      BY <3>1, <3>2, <3>3
    <3> QED
      BY <1>1, <2>1, <2>2, <3>4, OneStepLess
  <2>4. CASE pc[t] \in {"setup", "minting"} /\ pc'[t] = "over"
    <3>1. Moved(t)
      BY <2>4 DEF Moved, Onward
    <3>2. Left(t)' \in Nat /\ Left(t)' < Left(t)
      BY <1>1, <2>1, <3>1, MovedIsLess
    <3> QED
      BY <1>1, <2>1, <2>2, <3>2, OneStepLess
  <2> QED
    BY <2>1, <2>3, <2>4
<1>4. ASSUME TokenExpires \/ DeleteSource \/ Save PROVE StepsLeft' < StepsLeft
  <2>1. UNCHANGED <<pc, calls, rows, verdict>>
    BY <1>4 DEF TokenExpires, DeleteSource, Save, progress
  <2>2. \A t : LeftOf(t)' = LeftOf(t)
    BY <2>1 DEF LeftOf, Left, Far
  <2>3. Extras \in Nat /\ Extras' \in Nat /\ Extras' < Extras
    BY <1>1, <1>4 DEF Extras, TokenExpires, DeleteSource, Save, SessionTypeOK
  <2>4. \A t : LeftOf(t) \in Nat
    BY <1>1, LeftIs DEF LeftOf
  <2>5. StepsLeft' = 3 * (LeftOf("bulk")' + LeftOf("presigned")' + LeftOf("ui")') + Extras'
    BY DEF StepsLeft
  <2> QED
    BY <2>2, <2>3, <2>4, <2>5 DEF StepsLeft
<1> QED
  BY <1>2, <1>3, <1>4 DEF Next

(* A session has only so many steps in it: every one of them, pytest-timeout *)
(* and the coroutines it leaves behind included, uses up one of a number     *)
(* that is fixed when the session starts.                                   *)
THEOREM SessionsDwindle ==
  Spec => [](StepsLeft \in Nat) /\ [][StepsLeft' < StepsLeft]_vars
<1>1. SessionInv => StepsLeft \in Nat
  BY StepsLeftIs DEF SessionInv
<1>2. SessionInv /\ [Next]_vars => SessionInv'
  BY NextKeeps
<1>3. SessionInv /\ SessionInv' /\ [Next]_vars => [StepsLeft' < StepsLeft]_vars
  BY NextIsLess
<1> QED
  BY <1>1, <1>2, <1>3, SessionInvCorrect, PTL DEF Spec
-----------------------------------------------------------------------------
(* Nobody waits for anybody *)

(* The walk of a session without a listener starts on an empty trace, and    *)
(* the source blob is lent to a test that has begun.                        *)
ReadyInv ==
  /\ \A t \in Tests : pc[t] = "walking" /\ ~listening => rows[t] = <<>>
  /\ blob = "lent" => pc["bulk"] # "waiting"

LEMMA WorkReadies ==
  ASSUME SessionInv, ReadyInv, NEW t \in Tests, Work(t)
  PROVE  ReadyInv'
<1>1. /\ pc \in [Tests -> Places] /\ InPhase(t)
      /\ Apart(t) /\ Moved(t)
  BY WorkMoves DEF SessionInv, SessionTypeOK, Places
<1>2. pc'[t] # "waiting" /\ (pc[t] = "waiting" => pc'[t] \in {"setup", "over"})
  BY <1>1 DEF Moved, Onward
<1>3. \A u \in Tests \ {t} : pc'[u] = pc[u] /\ rows'[u] = rows[u]
  BY <1>1 DEF Apart
<1>4. UNCHANGED listening
  BY DEF Work, Begin, BeginUnauthorised, PlainSetup, StoreSource, MintSas, SourceFails, LogIn,
         LogInFails, LogInBreaks, FirstLegDone, FirstLegFails, LegDone, LegFails, DriveLegDone,
         WalkOn, WalkEnds
<1>5. blob' = "lent" => blob = "lent" \/ t = "bulk"
  BY <1>1 DEF Work, Begin, BeginUnauthorised, PlainSetup, StoreSource, MintSas, SourceFails, LogIn,
         LogInFails, LogInBreaks, FirstLegDone, FirstLegFails, LegDone, LegFails, DriveLegDone,
         WalkOn, WalkEnds, InPhase
<1>6. "bulk" \in Tests \/ blob # "lent"
  BY DEF SessionInv, SourceInv
<1>7. blob' = "lent" => pc'["bulk"] # "waiting"
  BY <1>2, <1>3, <1>5, <1>6 DEF ReadyInv
<1>8. ASSUME pc'[t] = "walking", ~listening PROVE rows'[t] = <<>>
  <2>1. pc[t] = "uploading" \/ pc[t] = "walking"
    BY <1>1, <1>8 DEF Moved, Onward
  <2>2. CASE pc[t] = "uploading"
    <3>1. rows[t] = <<>>
      BY <1>1, <2>2 DEF InPhase, Halfway
    <3>2. FirstLegDone(t) \/ LegDone(t) \/ DriveLegDone(t) \/ FirstLegFails(t) \/ LegFails(t)
      BY <2>2 DEF Work, Begin, BeginUnauthorised, UpNext, PlainSetup, StoreSource, MintSas,
                  SourceFails, LogIn, LogInFails, LogInBreaks, WalkOn, WalkEnds
    <3>3. ~LegFails(t)
      BY <1>1, <1>8 DEF LegFails, End, Goto
    <3> QED
      BY <3>1, <3>2, <3>3 DEF FirstLegDone, LegDone, DriveLegDone, FirstLegFails
  <2>3. CASE pc[t] = "walking"
    <3>1. WalkEnds(t)
      BY <1>8, <2>3 DEF Work, Begin, BeginUnauthorised, UpNext, PlainSetup, StoreSource, MintSas,
                        SourceFails, LogIn, LogInFails, LogInBreaks, WalkOn, FirstLegDone,
                        FirstLegFails, LegDone, LegFails, DriveLegDone, Accepted, Answered,
                        Deflected, Raised, Calling
    <3> QED
      BY <1>1, <1>8, <3>1 DEF WalkEnds, Goto
  <2> QED
    BY <2>1, <2>2, <2>3
<1> QED
  BY <1>3, <1>4, <1>7, <1>8 DEF ReadyInv

LEMMA NextReadies == SessionInv /\ ReadyInv /\ [Next]_vars => ReadyInv'
<1>1. SUFFICES ASSUME SessionInv, ReadyInv, [Next]_vars PROVE ReadyInv'
  OBVIOUS
<1>2. ASSUME NEW t \in Tests, TimeoutKill(t) PROVE ReadyInv'
  <2>1. pc \in [Tests -> Places] /\ UNCHANGED <<rows, listening, blob>>
    BY <1>1, <1>2 DEF TimeoutKill, W!Kill, SessionInv, SessionTypeOK, Places
  <2>2. UNCHANGED pc \/ Goto(t, "over")
    BY <1>2 DEF TimeoutKill
  <2> QED
    BY <1>1, <2>1, <2>2 DEF Goto, ReadyInv, SessionInv, SourceInv
<1>3. ASSUME TokenExpires \/ DeleteSource \/ Save PROVE ReadyInv'
  BY <1>1, <1>3 DEF TokenExpires, DeleteSource, Save, ReadyInv
<1>4. ASSUME UNCHANGED vars PROVE ReadyInv'
  BY <1>1, <1>4 DEF vars, ReadyInv
<1> QED
  BY <1>1, <1>2, <1>3, <1>4, WorkReadies DEF Next

(* The test that pytest runs has something left to do: a fixture, a call, or  *)
(* what the walk may do with the rows there are.                            *)
MayGoOn(t) ==
  /\ Current(t)
  /\ \/ t \in {"bulk", "presigned", "ui"} /\ pc[t] = "setup"
     \/ pc[t] \in {"minting", "uploading"}
     \/ /\ pc[t] = "walking" /\ W!Walking(t)
        /\ IF listening THEN Len(rows[t]) < N \/ Len(rows[t]) = N ELSE rows[t] = <<>>

(* Until the report is saved it is somebody's turn: a test's, the fixture's   *)
(* finally clause, or the teardown that saves.                              *)
NobodyIsStuck ==
  \/ saved
  \/ \E t \in Tests : UpNext(t) \/ MayGoOn(t)
  \/ blob = "lent" /\ verdict["bulk"] # "none"
  \/ blob # "lent" /\ \A t \in Tests : verdict[t] # "none"

LEMMA BegunGoesOn ==
  ASSUME SessionInv, ReadyInv, NEW t \in Tests, verdict[t] = "none", pc[t] # "waiting"
  PROVE  MayGoOn(t)
<1>1. pc[t] \in Places /\ InPhase(t) /\ pc[t] # "over"
  BY DEF SessionInv, SessionTypeOK, Places, InPhase, Fits
<1>2. Far(t) \in 0 .. N /\ N \in Nat
  BY TypesAre, TestsAre DEF SessionInv
<1>3. Far(t) < N \/ Far(t) = N
  BY <1>2
<1>4. pc[t] = "walking" => W!Walking(t) /\ (~listening => rows[t] = <<>>)
  BY <1>1 DEF InPhase, Started, W!Walking, ReadyInv
<1> QED
  BY <1>1, <1>3, <1>4, TestsAre DEF MayGoOn, Current, Places, Far

LEMMA SomebodysTurn ==
  ASSUME SessionInv, ReadyInv
  PROVE  NobodyIsStuck
<1>1. CASE blob = "lent"
  <2>1. "bulk" \in Tests /\ pc["bulk"] # "waiting"
    BY <1>1 DEF SessionInv, SourceInv, ReadyInv
  <2> QED
    BY <1>1, <2>1, BegunGoesOn DEF NobodyIsStuck
<1>2. CASE blob # "lent" /\ ~saved /\ \E t \in Tests : verdict[t] = "none"
  <2> DEFINE Open == {i \in DOMAIN RunList : verdict[RunList[i]] = "none"}
  <2>1. Open # {} /\ Open \in SUBSET Nat
    <3>1. Open # {}
      BY <1>2 DEF Tests
    <3>2. RunList \in Seq({"bulk", "presigned", "ui"})
      BY SessionAssumption
    <3>3. DOMAIN RunList \in SUBSET Nat
      BY <3>2
    <3> QED
      BY <3>1, <3>3
  <2>2. PICK i \in Open : \A j \in Open : i <= j
    <3> HIDE DEF Open
    <3> QED
      BY <2>1, LeastOf
  <2>3. /\ i \in DOMAIN RunList /\ RunList[i] \in Tests /\ verdict[RunList[i]] = "none"
        /\ DOMAIN RunList \in SUBSET Nat
    BY <2>2, SessionAssumption DEF Tests
  <2>4. CASE pc[RunList[i]] = "waiting"
    <3>1. ASSUME NEW k \in DOMAIN RunList, NEW j \in DOMAIN RunList, k < j, RunList[j] = RunList[i]
          PROVE  verdict[RunList[k]] # "none"
      <4>1. j = i
        BY <2>3, <3>1, SessionAssumption
      <4>2. k \in Nat /\ i \in Nat /\ ~(i <= k)
        BY <2>3, <3>1, <4>1
      <4> QED
        BY <2>2, <4>2
    <3> QED
      BY <1>2, <2>3, <2>4, <3>1 DEF UpNext, NobodyIsStuck
  <2>5. CASE pc[RunList[i]] # "waiting"
    BY <2>3, <2>5, BegunGoesOn DEF NobodyIsStuck
  <2> QED
    BY <2>4, <2>5
<1> QED
  BY <1>1, <1>2 DEF NobodyIsStuck

(* No session hangs: as long as its report is not saved, some test, fixture   *)
(* or teardown has a step that its guards allow, and none waits for another. *)
THEOREM SomebodyMayAlwaysGoOn == Spec => []NobodyIsStuck
<1>1. Init => ReadyInv
  BY DEF Init, ReadyInv
<1>2. Spec => []ReadyInv
  BY <1>1, NextReadies, SessionInvCorrect, PTL DEF Spec
<1>3. SessionInv /\ ReadyInv => NobodyIsStuck
  BY SomebodysTurn
<1> QED
  BY <1>2, <1>3, SessionInvCorrect, PTL
=============================================================================
