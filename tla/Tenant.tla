-------------------------------- MODULE Tenant --------------------------------
(***************************************************************************)
(* One tenant of the file-ingestion service and all who use it at once: the *)
(* multi-file test, the cleanup job, the doc-reader's client, the pipeline  *)
(* that processes documents, and uploads by anyone else.                    *)
(***************************************************************************)
EXTENDS Cleanup, DocReader, MultiPresigned

CONSTANT MaxClients   \* the bound of the checks: clients started in one behaviour

ASSUME TenantAssumption == MaxClients \in Nat

vars == <<serviceVars, cleanupVars, readerVars, multiVars>>

Init == ServiceInit /\ CleanupInit /\ ReaderInit /\ MultiInit

CleanupRuns == CleanupStep /\ UNCHANGED <<readerVars, multiVars>>

ReaderRuns == (ReaderStep \/ DeadlinePasses) /\ UNCHANGED <<cleanupVars, multiVars>>

TestRuns == (MultiStep \/ PollTimeout) /\ UNCHANGED <<cleanupVars, readerVars>>

DocRuns(d) == TaskStep(d) /\ UNCHANGED <<cleanupVars, readerVars>>

(* The pipeline takes a document of the test on. *)
PipelineRuns(d) == Progress(d) /\ UNCHANGED <<cleanupVars, readerVars, multiVars>>

(* The document that is looked for by its name comes in. *)
OtherUpload ==
  /\ Wanted \notin Batch
  /\ reader \in {"walking", "napping"}
  /\ Create(Wanted, "EXTRACTION_COMPLETED")
  /\ UNCHANGED <<cleanupVars, readerVars, multiVars>>

Clients == Cardinality({i \in 1 .. 3 : <<job, reader, multi>>[i] # "idle"})

Next ==
  /\ \/ CleanupRuns
     \/ ReaderRuns
     \/ TestRuns
     \/ \E d \in Batch : DocRuns(d) \/ PipelineRuns(d)
     \/ OtherUpload
  /\ Clients' <= MaxClients

Spec == Init /\ [][Next]_vars

(* Each client is a coroutine that the event loop, the network and the clock *)
(* take on; who starts one, and what the service does by itself, is open.   *)
Fairness ==
  /\ WF_vars(CleanupRuns /\ job # "idle")
  /\ WF_vars(ReaderStep /\ reader # "idle" /\ UNCHANGED <<cleanupVars, multiVars>>)
  /\ WF_vars(DeadlinePasses /\ UNCHANGED <<cleanupVars, multiVars>>)
  /\ WF_vars(TestRuns /\ multi # "idle")
  /\ \A d \in Batch : WF_vars(DocRuns(d))

FairSpec == Spec /\ Fairness
-----------------------------------------------------------------------------
(* The type invariant, with what each part of the state says of the others.  *)
TenantTypeOK ==
  /\ state \in [Docs -> States]
  /\ \A d \in Docs : Listed(d) <=> state[d] \notin {"absent", "deleted"}
  /\ \A i, j \in DOMAIN list : list[i] = list[j] => i = j
  /\ job \in {"idle", "listing", "deleting", "done", "failed", "over"}
  /\ job = "deleting" <=> todo # {}
  /\ todo \subseteq E2e
  /\ pages \in 0 .. MaxPages
  /\ reader \in {"idle", "walking", "napping", "found", "none", "failed"}
  /\ page \in 0 .. ReaderMaxPages - 1
  /\ multi \in {"idle", "uploading", "polling", "checking", "passed", "failed"}
  /\ task \in [Batch -> Running \cup Raising \cup {"none", "uploaded", "seen", "cancelled"}]
  /\ rows \in [Batch -> {"none", "PASS", "FAIL"}]
  /\ inTime \subseteq Batch /\ (inTime # {} => late)
  /\ at \in 1 .. Len(Files) + 1

(* All come to an end, whatever the others do and whatever fails: the test,  *)
(* the cleanup job and the search for a document by its name.               *)
NobodyRuns ==
  /\ multi \in {"idle", "passed", "failed"}
  /\ job \in {"idle", "over"}
  /\ reader \in {"idle", "found", "none", "failed"}

AllEnd == []<>NobodyRuns
=============================================================================
