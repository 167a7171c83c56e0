---------------------------- MODULE MCImportUpload ----------------------------
(***************************************************************************)
(* Instance of ImportUpload: one trace of a value and two batches and one  *)
(* of a single batch, delivered by two workers.                            *)
(***************************************************************************)
EXTENDS ImportUpload

CONSTANTS v1, b1, b2, b3

MCValues == <<<<v1>>, <<>>>>
MCBatches == <<<<b1, b2>>, <<b3>>>>
MCRefusable == {{}, {v1, b3}, {b1}}
=============================================================================
