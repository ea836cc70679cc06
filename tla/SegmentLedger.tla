---------------------------- MODULE SegmentLedger ----------------------------
(***************************************************************************)
(* The segments of SegmentBuilder keep the promise of UsageLedger: what is *)
(* stored is the sum Store::usage_between takes over the rows, what is     *)
(* held is the part of the open segment that is already certain.           *)
(***************************************************************************)
EXTENDS SegmentBuilder, SequencesExt

(***************************************************************************)
(* tb_core::usage::total over the stored segments.                         *)
(***************************************************************************)
total == FoldLeft(LAMBDA sum, row : sum + (row.end - row.start), 0, rows)

Ledger == INSTANCE UsageLedger WITH
  Instant <- 0 .. Horizon,
  stored <- total,
  held <- IF open = None THEN 0 ELSE open.lastSeen - open.start,
  present <- IF open = None THEN None ELSE open.lastSeen

(***************************************************************************)
(* Splitting time into segments neither loses nor invents a second: every  *)
(* tick, cut, sleep, restart, clock correction and refused row changes the *)
(* totals only as the ledger says.                                         *)
(***************************************************************************)
LedgerKept == Ledger!Spec
=============================================================================
