----------------------------- MODULE MySqlStore ------------------------------
(***************************************************************************)
(* The application data in MySQL: storage/mysql_store.py, over the tables  *)
(* of mysql/migrations.  InnoDB enforces the foreign keys and deletes      *)
(* along them.  PyMySQL is connected without client_flag FOUND_ROWS, so    *)
(* rowcount counts the rows an UPDATE changed, not those it matched.       *)
(***************************************************************************)
EXTENDS AppTables

create_chat(s, r) ==
  IF r.user \in DOMAIN s.users
    THEN Insert(s, "chats", [user |-> r.user, pinned |-> FALSE])
    ELSE Raises(s)

get_chats(s, r) == ChatsOf(s, r.user)

chat_belongs_to_user(s, r) == OwnChat(s, r.chat, r.user)

add_message(s, r) ==
  IF r.chat \in DOMAIN s.chats THEN InsertMessage(s, r.chat, r.user) ELSE Raises(s)

get_messages(s, r) == MessagesOf(s, r.chat)

create_user(s, r) == InsertUser(s, r.name)

get_user_by_username(s, r) == UserNamed(s, r.name)

delete_chat(s, r) ==
  LET C == OwnedBy(s.chats, r.user) \intersect {r.chat} IN Returns(DropChats(s, C), C)

toggle_pin_chat(s, r) ==
  LET C == OwnedBy(s.chats, r.user) \intersect {r.chat}
  IN IF C = {}
       THEN Returns(s, {})
       ELSE Update(s, "chats", C, [user |-> r.user, pinned |-> ~s.chats[r.chat].pinned])

\* The new hash replaces the old one if the old password was right.
change_user_password(s, r) ==
  Returns(s, IF r.right THEN {r.user} \intersect DOMAIN s.users ELSE {})

get_prompts(s, r) == PromptsOf(s, r.user)

create_prompt(s, r) ==
  IF r.user \in DOMAIN s.users
    THEN Insert(s, "prompts", [user |-> r.user, text |-> r.text])
    ELSE Raises(s)

\* rowcount counts the rows that changed: saving a prompt as it is returns False.
update_prompt(s, r) ==
  LET P == OwnedBy(s.prompts, r.user) \intersect {r.prompt}
      changed == {p \in P : s.prompts[p].text # r.text}
  IN Update(s, "prompts", changed, [user |-> r.user, text |-> r.text])

delete_prompt(s, r) ==
  LET P == OwnedBy(s.prompts, r.user) \intersect {r.prompt} IN Returns(DropPrompts(s, P), P)

update_username(s, r) == UpdateUser(s, r.user, r.name)

\* The prompts, then the user; the rest goes with the foreign keys.
delete_user_account(s, r) ==
  Returns(DropUser(s, r.user), {r.user} \intersect DOMAIN s.users)

\* Counts of the account's rows; nothing is decided on them.
get_user_usage_stats(s, r) == Returns(s, {})

Call(s, op, r) ==
  CASE op = "create_chat" -> create_chat(s, r)
    [] op = "get_chats" -> get_chats(s, r)
    [] op = "chat_belongs_to_user" -> chat_belongs_to_user(s, r)
    [] op = "add_message" -> add_message(s, r)
    [] op = "get_messages" -> get_messages(s, r)
    [] op = "create_user" -> create_user(s, r)
    [] op = "get_user_by_username" -> get_user_by_username(s, r)
    [] op = "delete_chat" -> delete_chat(s, r)
    [] op = "toggle_pin_chat" -> toggle_pin_chat(s, r)
    [] op = "change_user_password" -> change_user_password(s, r)
    [] op = "get_prompts" -> get_prompts(s, r)
    [] op = "create_prompt" -> create_prompt(s, r)
    [] op = "update_prompt" -> update_prompt(s, r)
    [] op = "delete_prompt" -> delete_prompt(s, r)
    [] op = "update_username" -> update_username(s, r)
    [] op = "delete_user_account" -> delete_user_account(s, r)
    [] op = "get_user_usage_stats" -> get_user_usage_stats(s, r)
    [] op = "health_check" -> Returns(s, {})
=============================================================================
