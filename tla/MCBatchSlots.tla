---------------------------- MODULE MCBatchSlots ----------------------------
(* BatchSlots for TLC: up to five batches, so that each slot is used again *)
(* at least twice, and every command may fail.                             *)
EXTENDS BatchSlots

MCMaxBatches == 5
=============================================================================
