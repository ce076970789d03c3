--------------------------- MODULE MCPipelineRunner --------------------------
(***************************************************************************)
(* Instances of PipelineRunner for TLC.                                    *)
(***************************************************************************)
EXTENDS PipelineRunner

CONSTANTS d1, d2

MCTypes == {"queued", "completed", "extracted", "failed"}
MCActions == {"", "FAILED"}

Ev(d, t) == [doc |-> d, type |-> t, action |-> IF t = "failed" THEN "FAILED" ELSE ""]

MCKey(by, x) == [by |-> by, of |-> {x}]

(* One document that walks three stages. *)
ThreeStages == <<"queued", "completed", "extracted">>
ThreeStageEvents == {Ev(d1, t) : t \in MCTypes}
ThreeStageKeys == {MCKey("type", t) : t \in MCTypes} \cup {MCKey("action", "FAILED")}

(* Two documents, one test after the other, two stages each. *)
TwoStages == <<"queued", "completed">>
TwoStageTypes == {"queued", "completed", "failed"}
TwoDocEvents == {Ev(d1, t) : t \in TwoStageTypes} \cup {Ev(d2, "queued"), Ev(d2, "completed")}
=============================================================================
