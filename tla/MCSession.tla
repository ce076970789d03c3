------------------------------ MODULE MCSession ------------------------------
(***************************************************************************)
(* Instances of Session and Publication for TLC.                           *)
(***************************************************************************)
EXTENDS Publication

(* The order in which pytest collects the tests that CI selects. *)
AllTests == <<"bulk", "presigned", "ui">>

(* One of them alone, as with -m. *)
OnlyBulk == <<"bulk">>

OnlyPresigned == <<"presigned">>

OnlyUi == <<"ui">>

(* The services of two stages; every upload has rows of File Ingestion. *)
TwoServices == <<"OCR Service", "Auto Extraction Service">>
=============================================================================
