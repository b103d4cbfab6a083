----------------------------- MODULE MC_TxLedger -----------------------------
(* Two nodes, three transactions, clock 0..3, main chains of up to three  *)
(* blocks, latencies of one or two increments.                             *)
EXTENDS TxLedger, TLC
=============================================================================
