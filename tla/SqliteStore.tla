----------------------------- MODULE SqliteStore -----------------------------
(***************************************************************************)
(* The application data in SQLite: storage/sqlite_store.py.  No connection *)
(* turns the foreign_keys pragma on, so a row may name a user or a chat    *)
(* that does not exist, and what depends on a row is deleted by hand.      *)
(***************************************************************************)
EXTENDS AppTables

create_chat(s, r) == Insert(s, "chats", [user |-> r.user, pinned |-> FALSE])

get_chats(s, r) == ChatsOf(s, r.user)

chat_belongs_to_user(s, r) == OwnChat(s, r.chat, r.user)

add_message(s, r) == InsertMessage(s, r.chat, r.user)

get_messages(s, r) == MessagesOf(s, r.chat)

create_user(s, r) == InsertUser(s, r.name)

get_user_by_username(s, r) == UserNamed(s, r.name)

\* The messages first, then the chat, in one transaction.
delete_chat(s, r) ==
  LET C == OwnedBy(s.chats, r.user) \intersect {r.chat} IN Returns(DropChats(s, C), C)

toggle_pin_chat(s, r) ==
  LET C == OwnedBy(s.chats, r.user) \intersect {r.chat}
  IN IF C = {}
       THEN Returns(s, {})
       ELSE Update(s, "chats", C, [user |-> r.user, pinned |-> ~s.chats[r.chat].pinned])

\* The new hash replaces the old one if the old password was right.
change_user_password(s, r) ==
  Returns(s, IF r.right THEN {r.user} \intersect DOMAIN s.users ELSE {})

get_prompts(s, r) == PromptsOf(s, r.user)

create_prompt(s, r) == Insert(s, "prompts", [user |-> r.user, text |-> r.text])

update_prompt(s, r) ==
  Update(s, "prompts", OwnedBy(s.prompts, r.user) \intersect {r.prompt},
         [user |-> r.user, text |-> r.text])

delete_prompt(s, r) ==
  LET P == OwnedBy(s.prompts, r.user) \intersect {r.prompt} IN Returns(DropPrompts(s, P), P)

update_username(s, r) == UpdateUser(s, r.user, r.name)

\* Four DELETEs; a chat or prompt of a user that is gone goes, too.
delete_user_account(s, r) ==
  Returns(DropUser(s, r.user), {r.user} \intersect DOMAIN s.users)

\* Counts of the account's rows; nothing is decided on them.
get_user_usage_stats(s, r) == Returns(s, {})

Call(s, op, r) ==
  CASE op = "create_chat" -> create_chat(s, r)
    [] op = "get_chats" -> get_chats(s, r)
    [] op = "chat_belongs_to_user" -> chat_belongs_to_user(s, r)
    [] op = "add_message" -> add_message(s, r)
    [] op = "get_messages" -> get_messages(s, r)
    [] op = "create_user" -> create_user(s, r)
    [] op = "get_user_by_username" -> get_user_by_username(s, r)
    [] op = "delete_chat" -> delete_chat(s, r)
    [] op = "toggle_pin_chat" -> toggle_pin_chat(s, r)
    [] op = "change_user_password" -> change_user_password(s, r)
    [] op = "get_prompts" -> get_prompts(s, r)
    [] op = "create_prompt" -> create_prompt(s, r)
    [] op = "update_prompt" -> update_prompt(s, r)
    [] op = "delete_prompt" -> delete_prompt(s, r)
    [] op = "update_username" -> update_username(s, r)
    [] op = "delete_user_account" -> delete_user_account(s, r)
    [] op = "get_user_usage_stats" -> get_user_usage_stats(s, r)
=============================================================================
