------------------------------ MODULE Ingestion -------------------------------
(***************************************************************************)
(* The file-ingestion service of one tenant, as lib/api_clients use it: a   *)
(* list of documents, newest first, that is read in pages, and the          *)
(* processing state of each.  Several clients use it at once.               *)
(***************************************************************************)
EXTENDS Naturals, Sequences, SequencesExt

CONSTANTS Docs,    \* all documents there can be
          Old,     \* those that are there from the start, newest first
          E2e      \* those whose name starts with "e2e-"

ASSUME IngestionAssumption ==
  /\ Old \in Seq(Docs)
  /\ \A i, j \in DOMAIN Old : Old[i] = Old[j] => i = j
  /\ E2e \subseteq Docs

VARIABLES list,   \* what a listing returns, were it one page
          state   \* state[d]: processingState, or none

serviceVars == <<list, state>>

Stages == <<"INITIATED", "CONFIRMED", "OCR_COMPLETED", "EXTRACTION_QUEUED",
            "EXTRACTION_COMPLETED">>

States == {"absent", "deleted"} \cup {Stages[i] : i \in DOMAIN Stages}

ServiceInit ==
  /\ list = Old
  /\ state = [d \in Docs |-> IF Contains(Old, d) THEN "EXTRACTION_COMPLETED" ELSE "absent"]

Listed(d) == Contains(list, d)

(* Page p of a listing, with n documents a page. *)
Page(p, n) == SubSeq(list, p * n + 1, IF (p + 1) * n < Len(list) THEN (p + 1) * n ELSE Len(list))

(* POST /documents/upload *)
Create(d, s) ==
  /\ state[d] = "absent"
  /\ list' = <<d>> \o list
  /\ state' = [state EXCEPT ![d] = s]

(* POST /documents/{ufid}/confirm *)
Confirm(d) ==
  /\ state[d] = "INITIATED"
  /\ state' = [state EXCEPT ![d] = "CONFIRMED"]
  /\ UNCHANGED list

(* DELETE /documents/{ufid} *)
Delete(d) ==
  /\ \E i \in DOMAIN list : list[i] = d /\ list' = RemoveAt(list, i)
  /\ state' = [state EXCEPT ![d] = "deleted"]

(* The pipeline takes a confirmed document one stage on. *)
Progress(d) ==
  \E i \in 2 .. Len(Stages) - 1 :
    /\ state[d] = Stages[i]
    /\ state' = [state EXCEPT ![d] = Stages[i + 1]]
    /\ UNCHANGED list
=============================================================================
