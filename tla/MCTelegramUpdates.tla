-------------------------- MODULE MCTelegramUpdates --------------------------
(* TelegramUpdates with two threads, a slash command and a free text of one *)
(* sender who can be linked to two accounts.  No symmetry: it is not sound  *)
(* for the liveness property the run checks.                                *)
EXTENDS TelegramUpdates
=============================================================================
