------------------------------- MODULE Cleanup --------------------------------
(***************************************************************************)
(* cleanup.py, a job of its own: it lists the tenant's documents, deletes   *)
(* those named e2e-..., and lists again.  Each listing is of the first page. *)
(***************************************************************************)
EXTENDS Ingestion, FiniteSets

CONSTANTS CleanupPage,  \* the size of a listing (100)
          MaxPages      \* max_pages (10)

ASSUME CleanupAssumption == CleanupPage \in Nat \ {0} /\ MaxPages \in Nat \ {0}

VARIABLES job,      \* "idle", "listing", "deleting", "done", "failed" or "over"
          pages,    \* the loop's page
          todo,     \* the rest of e2e_docs; no property tells its order apart
          failed,   \* the documents whose deletion raised
          targets   \* history: the e2e documents there were at the start

cleanupVars == <<job, pages, todo, failed, targets>>

CleanupInit ==
  /\ job = "idle" /\ pages = 0 /\ todo = {}
  /\ failed = {} /\ targets = {}

FirstPage == Page(0, CleanupPage)

E2eDocs == {d \in E2e : Contains(FirstPage, d)}

(* Someone starts the job, at any time. *)
StartCleanup ==
  /\ job = "idle"
  /\ job' = "listing"
  /\ targets' = {d \in E2e : Listed(d)}
  /\ UNCHANGED <<serviceVars, pages, todo, failed>>

(* list_documents, and the documents to delete; no page argument is sent.   *)
ListNextPage ==
  /\ job = "listing"
  /\ todo' = {d \in E2e : Contains(Page(pages, CleanupPage), d)}
  /\ job' = IF todo' = {} THEN "done" ELSE "deleting"
  /\ UNCHANGED <<serviceVars, pages, failed, targets>>

ListAgain ==
  /\ job = "listing"
  /\ todo' = E2eDocs
  /\ job' = IF todo' = {} THEN "done" ELSE "deleting"
  /\ UNCHANGED <<serviceVars, pages, failed, targets>>

ListingFails ==
  /\ job = "listing"
  /\ job' = "failed"
  /\ UNCHANGED <<serviceVars, pages, todo, failed, targets>>

(* The for loop over the page's documents and, after the last, over pages.  *)
OnlyWhileItHelps(d) ==
  /\ todo' = todo \ {d}
  /\ UNCHANGED pages
  /\ job' = IF todo' = {} THEN "listing" ELSE job

NextDocumentOnePageMore(d) ==
  /\ todo' = todo \ {d}
  /\ IF todo' # {} THEN UNCHANGED <<job, pages>>
     ELSE /\ pages' = pages + 1
          /\ job' = IF pages = MaxPages THEN "done" ELSE "listing"

NextDocument(d) ==
  /\ todo' = todo \ {d}
  /\ IF todo' # {} THEN UNCHANGED <<job, pages>>
     ELSE /\ pages' = pages + 1
          /\ job' = IF pages' = MaxPages THEN "done" ELSE "listing"

DeleteOne ==
  /\ job = "deleting"
  /\ \E d \in todo : Delete(d) /\ NextDocument(d)
  /\ UNCHANGED <<failed, targets>>

(* The deletion raises, and the loop goes on: an error, an answer that was   *)
(* lost, or a 404 for what is no longer there.                              *)
DeleteOneFails ==
  /\ job = "deleting"
  /\ \E d \in todo :
       /\ UNCHANGED serviceVars \/ Delete(d)
       /\ failed' = failed \cup ({d} \cap targets)
       /\ NextDocument(d)
  /\ UNCHANGED targets

(* finally: close(), and the process exits. *)
CleanupExits ==
  /\ job \in {"done", "failed"}
  /\ job' = "over"
  /\ pages' = 0 /\ todo' = {}
  /\ failed' = {} /\ targets' = {}
  /\ UNCHANGED serviceVars

CleanupStep ==
  \/ StartCleanup \/ ListAgain \/ ListingFails
  \/ DeleteOne \/ DeleteOneFails \/ CleanupExits
-----------------------------------------------------------------------------
(* What a job that ends well has left behind of what it found is explained:  *)
(* the deletion failed, the page budget is used up, or the first page is     *)
(* full of documents with other names, behind which it never looks.         *)
LeftoversAreExplained ==
  [][job # "done" /\ job' = "done" =>
       \A d \in targets : Contains(list', d) =>
         \/ d \in failed'
         \/ pages' = MaxPages
         \/ Len(FirstPage) = CleanupPage /\ E2eDocs = {}]_<<serviceVars, cleanupVars>>
=============================================================================
