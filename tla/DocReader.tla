------------------------------ MODULE DocReader -------------------------------
(***************************************************************************)
(* DocReaderClient.wait_for_ufid_by_name: walks through the pages of a list *)
(* that changes under it, again and again until a deadline, for the one     *)
(* document with a given name.                                              *)
(***************************************************************************)
EXTENDS Ingestion

CONSTANTS Wanted,         \* the document with the name
          PageSize,       \* page_size (100)
          ReaderMaxPages  \* max_pages

ASSUME DocReaderAssumption ==
  Wanted \in Docs /\ PageSize \in Nat \ {0} /\ ReaderMaxPages \in Nat \ {0}

VARIABLES reader,   \* "idle", "walking", "napping", "found", "none" or "failed"
          page,     \* the page the walk asks for next
          overdue,  \* has the deadline passed
          intact    \* history: Wanted was listed when the walk began, and
                    \* these were the documents deleted until then

readerVars == <<reader, page, overdue, intact>>

Deleted == {d \in Docs : state[d] = "deleted"}

NotListed == [listed |-> FALSE, deleted |-> {}]

ReaderInit == reader = "idle" /\ page = 0 /\ overdue = FALSE /\ intact = NotListed

BeginWalk ==
  /\ reader \in {"idle", "napping"}
  /\ reader' = "walking"
  /\ page' = 0
  /\ intact' = [listed |-> Listed(Wanted), deleted |-> Deleted]
  /\ UNCHANGED <<serviceVars, overdue>>

(* The deadline of wait_for_ufid_by_name. *)
DeadlinePasses ==
  /\ reader \in {"walking", "napping"}
  /\ ~overdue
  /\ overdue' = TRUE
  /\ UNCHANGED <<serviceVars, reader, page, intact>>

Here == Contains(Page(page, PageSize), Wanted)

(* body["last"], or an empty page. *)
IsLastUnlessHere == ~Here

IsLast == (page + 1) * PageSize >= Len(list)

(* A call returns, or raises, and its locals go. *)
ReaderEnds(outcome) ==
  /\ reader' = outcome
  /\ page' = 0 /\ overdue' = FALSE /\ intact' = NotListed
  /\ UNCHANGED serviceVars

Found == reader = "walking" /\ Here /\ ReaderEnds("found")

TurnPage ==
  /\ reader = "walking"
  /\ ~Here /\ ~IsLast
  /\ page + 1 < ReaderMaxPages
  /\ page' = page + 1
  /\ UNCHANGED <<serviceVars, reader, overdue, intact>>

(* A walk without a match: the deadline is looked at only now. *)
WalkEndsEmpty ==
  /\ reader = "walking"
  /\ ~Here
  /\ IsLast \/ page + 1 = ReaderMaxPages
  /\ \/ overdue /\ ReaderEnds("none")
     \/ /\ ~overdue
        /\ reader' = "napping"
        /\ page' = 0 /\ intact' = NotListed
        /\ UNCHANGED <<serviceVars, overdue>>

RequestFails == reader = "walking" /\ ReaderEnds("failed")

ReaderStep ==
  BeginWalk \/ Found \/ TurnPage \/ WalkEndsEmpty \/ RequestFails
-----------------------------------------------------------------------------
(* Documents that come in at the front of the list while it is read never    *)
(* hide one from the walk, short of the page limit; only a deletion does.    *)
MissIsExplained ==
  [][reader = "walking" /\ reader' \in {"napping", "none"} =>
       \/ ~intact.listed
       \/ intact.deleted # Deleted
       \/ page + 1 = ReaderMaxPages]_<<serviceVars, readerVars>>
=============================================================================
