--------------------------- MODULE MCTelegramLink ---------------------------
(* TelegramLink with two /link threads racing each other and the scripts. *)
EXTENDS TelegramLink, TLC

Symmetry == Permutations(Workers) \union Permutations(Accounts)
=============================================================================
