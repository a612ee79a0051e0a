------------------------------- MODULE MCAppDb -------------------------------
(* AppDb with every kind of request on one thread, or a Telegram thread that  *)
(* works on a chat while the web server changes it.                           *)
EXTENDS AppDb, TLC

CONSTANTS web, telegram

Rooms == [users |-> 3, chats |-> 2, prompts |-> 2]

OneThread == (web :> Kinds) @@ (telegram :> {})
TwoThreads ==
  (web :> {"save", "delete_chat", "delete_account", "usage_stats"})
    @@ (telegram :> {"create_chat", "save"})
Mixes == {OneThread, TwoThreads}
=============================================================================
