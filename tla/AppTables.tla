------------------------------ MODULE AppTables ------------------------------
(***************************************************************************)
(* The rows of one application database, and the statements its three      *)
(* implementations are written in.  Every store module is an instance of   *)
(* these: a function from the rows and the arguments of a call to the rows *)
(* it leaves and what it returns.                                          *)
(*                                                                         *)
(* Columns nothing here depends on (titles, times, password hashes, text   *)
(* of messages) are left out.  Identifiers are handed out in order and     *)
(* never again; the numbers a refused INSERT may skip are not.             *)
(***************************************************************************)
EXTENDS Naturals, Functions

CONSTANTS
  Names,   \* user names
  Texts,   \* contents of a prompt
  Room     \* bounds on the rows ever inserted: Room[t] for table t

NumberedTables == {"users", "chats", "prompts"}
Ids(t) == 1..Room[t]

\* A table with primary key id, as a function from the ids it holds.
Table(t, Row) == UNION {[S -> Row] : S \in SUBSET Ids(t)}

\* A message is known by its chat and the account whose request wrote it; the
\* latter is not a column.
Tables ==
  [users : Table("users", Names),
   chats : Table("chats", [user : Ids("users"), pinned : BOOLEAN]),
   prompts : Table("prompts", [user : Ids("users"), text : Texts]),
   messages : SUBSET [chat : Ids("chats"), by : Ids("users")],
   used : [users : 0..Room.users, chats : 0..Room.chats, prompts : 0..Room.prompts]]

Empty ==
  [users |-> <<>>, chats |-> <<>>, prompts |-> <<>>, messages |-> {},
   used |-> [t \in NumberedTables |-> 0]]

\* A call returns the rows it found, or changed; or it raises and changes none.
Returns(s, rows) == [rows |-> s, answer |-> rows, raises |-> FALSE]
Raises(s) == [rows |-> s, answer |-> {}, raises |-> TRUE]

Without(f, S) == Restrict(f, DOMAIN f \ S)
With(f, id, row) == [x \in DOMAIN f \union {id} |-> IF x = id THEN row ELSE f[x]]

\* INSERT into a table with an id of its own.
Insert(s, t, row) ==
  LET id == s.used[t] + 1
  IN Returns([s EXCEPT ![t] = With(@, id, row), !.used[t] = id], {id})

InsertUser(s, name) ==
  IF name \in Range(s.users) THEN Raises(s) ELSE Insert(s, "users", name)

InsertMessage(s, c, u) ==
  Returns([s EXCEPT !.messages = @ \union {[chat |-> c, by |-> u]}], {c})

\* UPDATE of the rows in S.
Update(s, t, S, row) ==
  Returns([s EXCEPT ![t] = [id \in DOMAIN @ |-> IF id \in S THEN row ELSE @[id]]], S)

UpdateUser(s, u, name) ==
  IF \E v \in DOMAIN s.users \ {u} : s.users[v] = name
    THEN Raises(s)
    ELSE Update(s, "users", {u} \intersect DOMAIN s.users, name)

OwnedBy(table, u) == {id \in DOMAIN table : table[id].user = u}

\* DELETE of chats, and of the messages in them.
DropChats(s, C) ==
  [s EXCEPT !.chats = Without(@, C), !.messages = {m \in @ : m.chat \notin C}]

DropPrompts(s, P) == [s EXCEPT !.prompts = Without(@, P)]

\* DELETE of a user, with everything that belongs to it.
DropUser(s, u) ==
  [DropPrompts(DropChats(s, OwnedBy(s.chats, u)), OwnedBy(s.prompts, u))
     EXCEPT !.users = Without(@, {u})]

\* SELECTs every store words alike.
ChatsOf(s, u) == Returns(s, OwnedBy(s.chats, u))
OwnChat(s, c, u) == Returns(s, OwnedBy(s.chats, u) \intersect {c})
MessagesOf(s, c) == Returns(s, {m.by : m \in {n \in s.messages : n.chat = c}})
PromptsOf(s, u) == Returns(s, OwnedBy(s.prompts, u))
UserNamed(s, name) == Returns(s, {u \in DOMAIN s.users : s.users[u] = name})
=============================================================================
