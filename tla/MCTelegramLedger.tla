-------------------------- MODULE MCTelegramLedger --------------------------
(* TelegramLedger with two workers, three updates, a ledger of two entries *)
(* and a retention of one clock unit, so that pruning, overflow, stale     *)
(* cutoffs and repeated deliveries all happen within MaxClock.             *)
EXTENDS TelegramLedger
=============================================================================
