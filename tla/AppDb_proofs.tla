----------------------------- MODULE AppDb_proofs -----------------------------
(***************************************************************************)
(* Proofs about AppDb, for any number of threads and rows, any traffic and *)
(* any faults: what holds of the shared pool, of the writes of a request,  *)
(* of the rows of Postgres and MySQL, and of refusals.                     *)
(***************************************************************************)
EXTENDS AppDb, TLAPS

-----------------------------------------------------------------------------
(* Rows.  What the statements of AppTables do to them. *)

Function(f) == f = [x \in DOMAIN f |-> f[x]]

Shape(s) ==
  /\ s = [users |-> s.users, chats |-> s.chats, prompts |-> s.prompts,
          messages |-> s.messages, used |-> s.used]
  /\ s.used = [users |-> s.used.users, chats |-> s.used.chats, prompts |-> s.used.prompts]
  /\ s.used.chats \in Nat

\* Every row refers to rows that are there, messages to a chat of the account
\* that wrote them; an id in use was handed out.
Integrity(s) ==
  /\ Shape(s)
  /\ DOMAIN s.chats \subseteq 1..s.used.chats
  /\ \A m \in s.messages : m.chat \in DOMAIN s.chats /\ s.chats[m.chat].user = m.by
  /\ \A c \in DOMAIN s.chats : s.chats[c].user \in DOMAIN s.users
  /\ \A p \in DOMAIN s.prompts : s.prompts[p].user \in DOMAIN s.users

\* Chats keep their owners, or are gone for good.
OwnersKeep(s, n) ==
  /\ n.used.chats \in Nat /\ s.used.chats <= n.used.chats
  /\ \A c \in 1..s.used.chats : c \in DOMAIN n.chats =>
       c \in DOMAIN s.chats /\ n.chats[c].user = s.chats[c].user

Follows(s, n) == Integrity(n) /\ OwnersKeep(s, n)

LEMMA NothingChanged ==
  ASSUME NEW s, Integrity(s)
  PROVE  Follows(s, s)
BY DEF Follows, OwnersKeep, Integrity, Shape

LEMMA InsertedUser ==
  ASSUME NEW s, Integrity(s), NEW name
  PROVE  Follows(s, Insert(s, "users", name).rows)
<1> DEFINE n == Insert(s, "users", name).rows
           id == s.used.users + 1
<1>1. /\ n.chats = s.chats /\ n.prompts = s.prompts /\ n.messages = s.messages
      /\ n.used.chats = s.used.chats /\ n.users = With(s.users, id, name)
      /\ Shape(n)
  BY DEF Insert, Returns, Integrity, Shape
<1> HIDE DEF n, id
<1>2. DOMAIN s.users \subseteq DOMAIN n.users
  BY <1>1 DEF With
<1>3. QED
  BY <1>1, <1>2 DEF Follows, Integrity, OwnersKeep, Shape, n

LEMMA InsertedChat ==
  ASSUME NEW s, Integrity(s), NEW row, row.user \in DOMAIN s.users
  PROVE  Follows(s, Insert(s, "chats", row).rows)
<1> DEFINE n == Insert(s, "chats", row).rows
           id == s.used.chats + 1
<1>s. Shape(s)
  BY DEF Integrity
<1>1. /\ n.users = s.users /\ n.prompts = s.prompts /\ n.messages = s.messages
      /\ n.used.chats = id /\ n.chats = With(s.chats, id, row)
  BY <1>s DEF Insert, Returns, Shape
<1>9. Shape(n)
  <2>1. id \in Nat
    BY <1>s DEF Shape
  <2>2. QED
    BY <1>s, <1>1, <2>1 DEF Insert, Returns, Shape
<1>2. id \in Nat /\ s.used.chats < id /\ id \notin DOMAIN s.chats
  BY DEF Integrity, Shape
<1>3. 1..s.used.chats \subseteq 1..id /\ id \in 1..id
  BY DEF Integrity, Shape
<1>i. Integrity(s)
  OBVIOUS
<1> HIDE DEF n, id
<1>4. /\ DOMAIN n.chats = DOMAIN s.chats \union {id} /\ n.chats[id] = row
      /\ \A c \in DOMAIN s.chats : n.chats[c] = s.chats[c]
  BY <1>1, <1>2 DEF With
<1>5. Integrity(n)
  BY <1>i, <1>1, <1>2, <1>3, <1>4, <1>9 DEF Integrity
<1>6. id \notin 1..s.used.chats
  BY <1>2 DEF id, Integrity, Shape
<1>7. OwnersKeep(s, n)
  BY <1>i, <1>1, <1>2, <1>4, <1>6 DEF OwnersKeep, Integrity, Shape
<1>8. QED
  BY <1>5, <1>7 DEF Follows, n

LEMMA InsertedPrompt ==
  ASSUME NEW s, Integrity(s), NEW row, row.user \in DOMAIN s.users
  PROVE  Follows(s, Insert(s, "prompts", row).rows)
<1> DEFINE n == Insert(s, "prompts", row).rows
           id == s.used.prompts + 1
<1>1. /\ n.users = s.users /\ n.chats = s.chats /\ n.messages = s.messages
      /\ n.used.chats = s.used.chats /\ n.prompts = With(s.prompts, id, row)
      /\ Shape(n)
  BY DEF Insert, Returns, Integrity, Shape
<1> HIDE DEF n, id
<1>2. \A p \in DOMAIN n.prompts : n.prompts[p].user \in DOMAIN s.users
  <2>1. /\ DOMAIN n.prompts = DOMAIN s.prompts \union {id} /\ n.prompts[id] = row
        /\ \A p \in DOMAIN s.prompts : p # id => n.prompts[p] = s.prompts[p]
    BY <1>1 DEF With
  <2>2. QED
    BY <2>1 DEF Integrity
<1>3. QED
  BY <1>1, <1>2 DEF Follows, Integrity, OwnersKeep, Shape, n

LEMMA InsertedMessage ==
  ASSUME NEW s, Integrity(s), NEW c \in DOMAIN s.chats, NEW u, s.chats[c].user = u
  PROVE  Follows(s, InsertMessage(s, c, u).rows)
<1> DEFINE n == InsertMessage(s, c, u).rows
<1>1. /\ n.users = s.users /\ n.chats = s.chats /\ n.prompts = s.prompts /\ n.used = s.used
      /\ n.messages = s.messages \union {[chat |-> c, by |-> u]}
      /\ Shape(n)
  BY DEF InsertMessage, Returns, Integrity, Shape
<1> HIDE DEF n
<1>2. QED
  BY <1>1 DEF Follows, Integrity, OwnersKeep, Shape, n

LEMMA UpdatedUser ==
  ASSUME NEW s, Integrity(s), NEW S, NEW row
  PROVE  Follows(s, Update(s, "users", S, row).rows)
<1> DEFINE n == Update(s, "users", S, row).rows
<1>1. /\ DOMAIN n.users = DOMAIN s.users /\ n.chats = s.chats /\ n.prompts = s.prompts
      /\ n.messages = s.messages /\ n.used = s.used
      /\ Shape(n)
  BY DEF Update, Returns, Integrity, Shape
<1> HIDE DEF n
<1>2. QED
  BY <1>1 DEF Follows, Integrity, OwnersKeep, Shape, n

\* Chats and prompts are updated by their owner.
LEMMA UpdatedChat ==
  ASSUME NEW s, Integrity(s), NEW row, NEW S, S \subseteq OwnedBy(s.chats, row.user)
  PROVE  Follows(s, Update(s, "chats", S, row).rows)
<1> DEFINE n == Update(s, "chats", S, row).rows
<1>1. /\ DOMAIN n.chats = DOMAIN s.chats /\ n.users = s.users /\ n.prompts = s.prompts
      /\ n.messages = s.messages /\ n.used = s.used
      /\ \A c \in DOMAIN s.chats : n.chats[c] = IF c \in S THEN row ELSE s.chats[c]
      /\ Shape(n)
  BY DEF Update, Returns, Integrity, Shape
<1> HIDE DEF n
<1>2. \A c \in DOMAIN s.chats : n.chats[c].user = s.chats[c].user
  BY <1>1 DEF OwnedBy
<1>3. QED
  BY <1>1, <1>2 DEF Follows, Integrity, OwnersKeep, Shape, n

LEMMA UpdatedPrompt ==
  ASSUME NEW s, Integrity(s), NEW row, NEW S, S \subseteq OwnedBy(s.prompts, row.user)
  PROVE  Follows(s, Update(s, "prompts", S, row).rows)
<1> DEFINE n == Update(s, "prompts", S, row).rows
<1>1. /\ DOMAIN n.prompts = DOMAIN s.prompts /\ n.users = s.users /\ n.chats = s.chats
      /\ n.messages = s.messages /\ n.used = s.used
      /\ \A p \in DOMAIN s.prompts : n.prompts[p] = IF p \in S THEN row ELSE s.prompts[p]
      /\ Shape(n)
  BY DEF Update, Returns, Integrity, Shape
<1> HIDE DEF n
<1>2. \A p \in DOMAIN s.prompts : n.prompts[p].user = s.prompts[p].user
  BY <1>1 DEF OwnedBy
<1>3. QED
  BY <1>1, <1>2 DEF Follows, Integrity, OwnersKeep, Shape, n

LEMMA DroppedChats ==
  ASSUME NEW s, Integrity(s), NEW C
  PROVE  /\ Follows(s, DropChats(s, C))
         /\ DOMAIN DropChats(s, C).chats = DOMAIN s.chats \ C
         /\ DropChats(s, C).users = s.users /\ DropChats(s, C).prompts = s.prompts
<1> DEFINE n == DropChats(s, C)
<1>1. /\ n.users = s.users /\ n.prompts = s.prompts /\ n.used = s.used
      /\ n.messages = {m \in s.messages : m.chat \notin C}
      /\ n.chats = Without(s.chats, C)
  BY DEF DropChats, Integrity, Shape
<1>9. Shape(n)
  <2> DEFINE X == Without(s.chats, C)
             a == [s EXCEPT !.chats = X]
             M == {m \in s.messages : m.chat \notin C}
  <2>1. Shape(s)
    BY DEF Integrity
  <2>2. n = [a EXCEPT !.messages = M]
    BY <2>1 DEF DropChats, Shape
  <2> HIDE DEF X
  <2>3. a = [users |-> s.users, chats |-> X, prompts |-> s.prompts,
             messages |-> s.messages, used |-> s.used]
    BY <2>1 DEF Shape
  <2> HIDE DEF a, n, M
  <2>4. n = [users |-> s.users, chats |-> X, prompts |-> s.prompts,
             messages |-> M, used |-> s.used]
    BY <2>2, <2>3
  <2>5. QED
    BY <2>1, <2>4 DEF Shape
<1> HIDE DEF n
<1>2. /\ DOMAIN n.chats = DOMAIN s.chats \ C
      /\ \A c \in DOMAIN n.chats : n.chats[c] = s.chats[c]
  BY <1>1 DEF Without, Restrict
<1>3. Integrity(n)
  BY <1>1, <1>2, <1>9 DEF Integrity
<1>4. OwnersKeep(s, n)
  BY <1>1, <1>2 DEF OwnersKeep, Integrity, Shape
<1>5. QED
  BY <1>1, <1>2, <1>3, <1>4 DEF Follows, n

LEMMA DroppedPrompts ==
  ASSUME NEW s, Integrity(s), NEW P
  PROVE  /\ Follows(s, DropPrompts(s, P))
         /\ DOMAIN DropPrompts(s, P).prompts = DOMAIN s.prompts \ P
         /\ \A p \in DOMAIN s.prompts \ P : DropPrompts(s, P).prompts[p] = s.prompts[p]
         /\ DropPrompts(s, P).users = s.users /\ DropPrompts(s, P).chats = s.chats
<1> DEFINE n == DropPrompts(s, P)
<1>1. /\ n.users = s.users /\ n.chats = s.chats /\ n.used = s.used
      /\ n.prompts = Without(s.prompts, P) /\ n.messages = s.messages
      /\ Shape(n)
  BY DEF DropPrompts, Integrity, Shape
<1> HIDE DEF n
<1>2. /\ DOMAIN n.prompts = DOMAIN s.prompts \ P
      /\ \A p \in DOMAIN n.prompts : n.prompts[p] = s.prompts[p]
  BY <1>1 DEF Without, Restrict
<1>3. Integrity(n) /\ OwnersKeep(s, n)
  BY <1>1, <1>2 DEF Integrity, OwnersKeep, Shape
<1>5. QED
  BY <1>1, <1>2, <1>3 DEF Follows, n

LEMMA DroppedUser ==
  ASSUME NEW s, Integrity(s), NEW u
  PROVE  Follows(s, DropUser(s, u))
<1> DEFINE C == OwnedBy(s.chats, u)
           P == OwnedBy(s.prompts, u)
           a == DropChats(s, C)
           b == DropPrompts(a, P)
           n == DropUser(s, u)
<1>1. /\ Follows(s, a) /\ a.users = s.users /\ a.prompts = s.prompts
      /\ DOMAIN a.chats = DOMAIN s.chats \ C
  BY DroppedChats
<1>2. /\ Follows(a, b) /\ b.users = a.users /\ b.chats = a.chats
      /\ DOMAIN b.prompts = DOMAIN a.prompts \ P
      /\ \A p \in DOMAIN a.prompts \ P : b.prompts[p] = a.prompts[p]
  BY <1>1, DroppedPrompts DEF Follows
<1>3. n = [b EXCEPT !.users = Without(@, {u})]
  BY DEF DropUser
<1>s. Integrity(s)
  OBVIOUS
<1>c. \A c \in DOMAIN s.chats \ C : s.chats[c].user # u
  BY DEF OwnedBy
<1>p. \A p \in DOMAIN s.prompts \ P : s.prompts[p].user # u
  BY DEF OwnedBy
<1> HIDE DEF C, P, a, b, n
<1>4. Integrity(b) /\ Shape(b)
  BY <1>2 DEF Follows, Integrity
<1>5. /\ n.chats = b.chats /\ n.prompts = b.prompts /\ n.messages = b.messages /\ n.used = b.used
      /\ n.users = Without(b.users, {u})
  BY <1>3, <1>4 DEF Shape
<1>6. Shape(n)
  BY <1>3, <1>4, <1>5 DEF Shape
<1>7. DOMAIN n.users = DOMAIN s.users \ {u}
  BY <1>1, <1>2, <1>5 DEF Without, Restrict
<1>8. \A c \in DOMAIN n.chats : n.chats[c].user \in DOMAIN n.users
  <2> SUFFICES ASSUME NEW c \in DOMAIN n.chats PROVE n.chats[c].user \in DOMAIN n.users
    OBVIOUS
  <2>1. n.chats = a.chats /\ c \in DOMAIN s.chats \ C
    BY <1>1, <1>2, <1>5
  <2>2. c \in 1..s.used.chats
    BY <1>s, <2>1 DEF Integrity
  <2>3. n.chats[c].user = s.chats[c].user
    BY <1>1, <2>1, <2>2 DEF Follows, OwnersKeep
  <2>4. QED
    BY <1>s, <1>c, <1>7, <2>1, <2>3 DEF Integrity
<1>9. \A p \in DOMAIN n.prompts : n.prompts[p].user \in DOMAIN n.users
  BY <1>s, <1>p, <1>1, <1>2, <1>5, <1>7 DEF Integrity
<1>10. Integrity(n)
  BY <1>4, <1>5, <1>6, <1>8, <1>9 DEF Integrity
<1>11. OwnersKeep(s, n)
  BY <1>1, <1>2, <1>5 DEF Follows, OwnersKeep, Integrity, Shape
<1>12. QED
  BY <1>10, <1>11 DEF Follows, n

-----------------------------------------------------------------------------
(* Calls.  Postgres and MySQL keep the integrity of the rows, if a message *)
(* is added for the owner of its chat.                                     *)

Checked(s, r) ==
  r.chat \in DOMAIN s.chats => s.chats[r.chat].user = r.user

LEMMA PGTables ==
  ASSUME NEW s, NEW t, NEW u, NEW c, NEW S, NEW row
  PROVE  /\ PG!Returns(s, S) = Returns(s, S) /\ PG!Raises(s) = Raises(s)
         /\ PG!Insert(s, t, row) = Insert(s, t, row)
         /\ PG!InsertUser(s, row) = InsertUser(s, row)
         /\ PG!InsertMessage(s, c, u) = InsertMessage(s, c, u)
         /\ PG!Update(s, t, S, row) = Update(s, t, S, row)
         /\ PG!UpdateUser(s, u, row) = UpdateUser(s, u, row)
         /\ PG!OwnedBy(s, u) = OwnedBy(s, u)
         /\ PG!DropChats(s, S) = DropChats(s, S)
         /\ PG!DropPrompts(s, S) = DropPrompts(s, S)
         /\ PG!DropUser(s, u) = DropUser(s, u)
         /\ PG!UserNamed(s, row) = UserNamed(s, row)
<1>1. /\ PG!Returns(s, S) = Returns(s, S) /\ PG!Raises(s) = Raises(s)
      /\ PG!OwnedBy(s, u) = OwnedBy(s, u)
  BY DEF PG!Returns, Returns, PG!Raises, Raises, PG!OwnedBy, OwnedBy
<1>2. PG!Insert(s, t, row) = Insert(s, t, row)
  BY Zenon DEF PG!Insert, Insert, PG!Returns, Returns, PG!With, With
<1>3. PG!InsertUser(s, row) = InsertUser(s, row)
  BY Zenon DEF PG!InsertUser, InsertUser, PG!Raises, Raises, PG!Insert, Insert, PG!Returns, Returns,
               PG!With, With, PG!Range, Range
<1>4. PG!InsertMessage(s, c, u) = InsertMessage(s, c, u)
  BY Zenon DEF PG!InsertMessage, InsertMessage, PG!Returns, Returns
<1>5. PG!Update(s, t, S, row) = Update(s, t, S, row) /\ PG!UserNamed(s, row) = UserNamed(s, row)
  BY Zenon DEF PG!Update, Update, PG!Returns, Returns, PG!UserNamed, UserNamed
<1>6. PG!UpdateUser(s, u, row) = UpdateUser(s, u, row)
  BY Zenon DEF PG!UpdateUser, UpdateUser, PG!Raises, Raises, PG!Update, Update, PG!Returns, Returns
<1>7. PG!DropChats(s, S) = DropChats(s, S) /\ PG!DropPrompts(s, S) = DropPrompts(s, S)
  BY Zenon DEF PG!DropChats, DropChats, PG!DropPrompts, DropPrompts, PG!Without, Without, PG!Restrict, Restrict
<1>8. PG!DropUser(s, u) = DropUser(s, u)
  BY Zenon DEF PG!DropUser, DropUser, PG!DropChats, DropChats, PG!DropPrompts, DropPrompts,
               PG!Without, Without, PG!Restrict, Restrict, PG!OwnedBy, OwnedBy
<1>9. QED
  BY <1>1, <1>2, <1>3, <1>4, <1>5, <1>6, <1>7, <1>8

LEMMA CallNames ==
  Calls = {"create_user", "get_user_by_username", "change_user_password", "get_chats", "create_chat",
           "chat_belongs_to_user", "delete_chat", "toggle_pin_chat", "get_prompts", "create_prompt",
           "update_prompt", "delete_prompt", "get_user_usage_stats", "update_username",
           "delete_user_account", "get_messages", "add_message", "health_check"}
BY DEF Calls, FirstCall, SecondCall

LEMMA PGRows ==
  ASSUME NEW s, Integrity(s), NEW r, NEW call \in Calls, call = "add_message" => Checked(s, r)
  PROVE  Follows(s, PG!Call(s, call, r).rows)
<1> DEFINE mine == OwnedBy(s.chats, r.user) \intersect {r.chat}
           prompts == OwnedBy(s.prompts, r.user) \intersect {r.prompt}
<1>n. /\ Raises(s).rows = s
      /\ \A n, S : Returns(n, S).rows = n
  BY DEF Returns, Raises
<1>0. Follows(s, s)
  BY NothingChanged
<1>1. CASE call = "create_chat"
  <2>1. PG!Call(s, call, r) = PG!create_chat(s, r)
    BY Zenon, <1>1 DEF PG!Call
  <2>2. CASE r.user \in DOMAIN s.users
    <3> DEFINE row == [user |-> r.user, pinned |-> FALSE]
    <3>1. row.user = r.user
      OBVIOUS
    <3>2. PG!create_chat(s, r) = Insert(s, "chats", row)
      BY <2>2, PGTables DEF PG!create_chat
    <3> HIDE DEF row
    <3>3. QED
      BY <2>1, <2>2, <3>1, <3>2, InsertedChat
  <2>3. CASE r.user \notin DOMAIN s.users
    <3>1. PG!create_chat(s, r) = Raises(s)
      BY <2>3, PGTables DEF PG!create_chat
    <3>2. QED
      BY <1>n, <1>0, <2>1, <3>1
  <2>4. QED
    BY <2>2, <2>3
<1>2. CASE call = "add_message"
  <2>1. PG!Call(s, call, r) = PG!add_message(s, r)
    BY Zenon, <1>2 DEF PG!Call
  <2>2. CASE r.chat \in DOMAIN s.chats
    <3>1. PG!add_message(s, r) = InsertMessage(s, r.chat, r.user)
      BY <2>2, PGTables DEF PG!add_message
    <3>2. QED
      BY <1>2, <2>1, <2>2, <3>1, InsertedMessage DEF Checked
  <2>3. CASE r.chat \notin DOMAIN s.chats
    <3>1. PG!add_message(s, r) = Raises(s)
      BY <2>3, PGTables DEF PG!add_message
    <3>2. QED
      BY <1>n, <1>0, <2>1, <3>1
  <2>4. QED
    BY <2>2, <2>3
<1>3. CASE call = "create_user"
  <2>1. PG!Call(s, call, r) = InsertUser(s, r.name)
    <3>1. PG!Call(s, call, r) = PG!create_user(s, r)
      BY Zenon, <1>3 DEF PG!Call
    <3>2. QED
      BY <3>1, PGTables DEF PG!create_user
  <2>2. InsertUser(s, r.name) \in {Raises(s), Insert(s, "users", r.name)}
    BY DEF InsertUser
  <2>3. QED
    BY <1>n, <1>0, <2>1, <2>2, InsertedUser
<1>4. CASE call = "delete_chat"
  <2>1. PG!Call(s, call, r) = PG!delete_chat(s, r)
    BY Zenon, <1>4 DEF PG!Call
  <2>2. PG!delete_chat(s, r) = Returns(DropChats(s, mine), mine)
    BY PGTables DEF PG!delete_chat
  <2>3. QED
    BY <1>n, <2>1, <2>2, DroppedChats
<1>5. CASE call = "toggle_pin_chat"
  <2>1. PG!Call(s, call, r) = PG!toggle_pin_chat(s, r)
    BY Zenon, <1>5 DEF PG!Call
  <2> DEFINE row == [user |-> r.user, pinned |-> ~s.chats[r.chat].pinned]
  <2>2. PG!toggle_pin_chat(s, r) = IF mine = {} THEN Returns(s, {}) ELSE Update(s, "chats", mine, row)
    BY PGTables DEF PG!toggle_pin_chat
  <2>3. row.user = r.user
    OBVIOUS
  <2> HIDE DEF row
  <2>4. mine \subseteq OwnedBy(s.chats, row.user)
    BY <2>3
  <2> HIDE DEF mine
  <2>5. Follows(s, Update(s, "chats", mine, row).rows)
    BY <2>4, UpdatedChat
  <2>6. QED
    BY <1>n, <1>0, <2>1, <2>2, <2>5
<1>6. CASE call = "create_prompt"
  <2>1. PG!Call(s, call, r) = PG!create_prompt(s, r)
    BY Zenon, <1>6 DEF PG!Call
  <2>2. CASE r.user \in DOMAIN s.users
    <3> DEFINE row == [user |-> r.user, text |-> r.text]
    <3>1. row.user = r.user
      OBVIOUS
    <3>2. PG!create_prompt(s, r) = Insert(s, "prompts", row)
      BY <2>2, PGTables DEF PG!create_prompt
    <3> HIDE DEF row
    <3>3. QED
      BY <2>1, <2>2, <3>1, <3>2, InsertedPrompt
  <2>3. CASE r.user \notin DOMAIN s.users
    <3>1. PG!create_prompt(s, r) = Raises(s)
      BY <2>3, PGTables DEF PG!create_prompt
    <3>2. QED
      BY <1>n, <1>0, <2>1, <3>1
  <2>4. QED
    BY <2>2, <2>3
<1>7. CASE call = "update_prompt"
  <2>1. PG!Call(s, call, r) = PG!update_prompt(s, r)
    BY Zenon, <1>7 DEF PG!Call
  <2> DEFINE row == [user |-> r.user, text |-> r.text]
             S == prompts
  <2>2. PG!update_prompt(s, r) = Update(s, "prompts", S, row)
    BY PGTables DEF PG!update_prompt
  <2>3. row.user = r.user
    OBVIOUS
  <2> HIDE DEF row
  <2>4. S \subseteq OwnedBy(s.prompts, row.user)
    BY <2>3
  <2> HIDE DEF S
  <2>5. QED
    BY <2>1, <2>2, <2>4, UpdatedPrompt
<1>8. CASE call = "delete_prompt"
  <2>1. PG!Call(s, call, r) = PG!delete_prompt(s, r)
    BY Zenon, <1>8 DEF PG!Call
  <2>2. PG!delete_prompt(s, r) = Returns(DropPrompts(s, prompts), prompts)
    BY PGTables DEF PG!delete_prompt
  <2>3. QED
    BY <1>n, <2>1, <2>2, DroppedPrompts
<1>9. CASE call = "update_username"
  <2>1. PG!Call(s, call, r) = UpdateUser(s, r.user, r.name)
    <3>1. PG!Call(s, call, r) = PG!update_username(s, r)
      BY Zenon, <1>9 DEF PG!Call
    <3>2. QED
      BY <3>1, PGTables DEF PG!update_username
  <2> DEFINE S == {r.user} \intersect DOMAIN s.users
  <2>2. UpdateUser(s, r.user, r.name) \in {Raises(s), Update(s, "users", S, r.name)}
    BY DEF UpdateUser
  <2> HIDE DEF S
  <2>3. QED
    BY <1>n, <1>0, <2>1, <2>2, UpdatedUser
<1>10. CASE call = "delete_user_account"
  <2>1. PG!Call(s, call, r) = PG!delete_user_account(s, r)
    BY Zenon, <1>10 DEF PG!Call
  <2>2. PG!delete_user_account(s, r) = Returns(DropUser(s, r.user), {r.user} \intersect DOMAIN s.users)
    BY PGTables DEF PG!delete_user_account
  <2>3. QED
    BY <1>n, <2>1, <2>2, DroppedUser
<1>11. CASE call \in Reads \union {"change_user_password"}
  <2>1. \E S : PG!Call(s, call, r) = PG!Returns(s, S)
    <3>1. CASE call = "get_chats"
      BY Zenon, <3>1 DEF PG!Call, PG!get_chats, PG!ChatsOf
    <3>2. CASE call = "chat_belongs_to_user"
      BY Zenon, <3>2 DEF PG!Call, PG!chat_belongs_to_user, PG!OwnChat
    <3>3. CASE call = "get_messages"
      BY Zenon, <3>3 DEF PG!Call, PG!get_messages, PG!MessagesOf
    <3>4. CASE call = "get_user_by_username"
      BY Zenon, <3>4 DEF PG!Call, PG!get_user_by_username, PG!UserNamed
    <3>5. CASE call = "get_prompts"
      BY Zenon, <3>5 DEF PG!Call, PG!get_prompts, PG!PromptsOf
    <3>6. CASE call = "get_user_usage_stats"
      BY Zenon, <3>6 DEF PG!Call, PG!get_user_usage_stats
    <3>7. CASE call = "health_check"
      BY Zenon, <3>7 DEF PG!Call
    <3>8. CASE call = "change_user_password"
      BY Zenon, <3>8 DEF PG!Call, PG!change_user_password
    <3>9. QED
      BY <1>11, <3>1, <3>2, <3>3, <3>4, <3>5, <3>6, <3>7, <3>8 DEF Reads
  <2>2. PICK S : PG!Call(s, call, r) = PG!Returns(s, S)
    BY <2>1
  <2>3. PG!Call(s, call, r).rows = s
    BY <2>2 DEF PG!Returns
  <2>4. QED
    BY <1>0, <2>3
<1>12. QED
  BY <1>1, <1>2, <1>3, <1>4, <1>5, <1>6, <1>7, <1>8, <1>9, <1>10, <1>11, CallNames DEF Reads

LEMMA MyTables ==
  ASSUME NEW s, NEW t, NEW u, NEW c, NEW S, NEW row
  PROVE  /\ My!Returns(s, S) = Returns(s, S) /\ My!Raises(s) = Raises(s)
         /\ My!Insert(s, t, row) = Insert(s, t, row)
         /\ My!InsertUser(s, row) = InsertUser(s, row)
         /\ My!InsertMessage(s, c, u) = InsertMessage(s, c, u)
         /\ My!Update(s, t, S, row) = Update(s, t, S, row)
         /\ My!UpdateUser(s, u, row) = UpdateUser(s, u, row)
         /\ My!OwnedBy(s, u) = OwnedBy(s, u)
         /\ My!DropChats(s, S) = DropChats(s, S)
         /\ My!DropPrompts(s, S) = DropPrompts(s, S)
         /\ My!DropUser(s, u) = DropUser(s, u)
         /\ My!UserNamed(s, row) = UserNamed(s, row)
<1>1. /\ My!Returns(s, S) = Returns(s, S) /\ My!Raises(s) = Raises(s)
      /\ My!OwnedBy(s, u) = OwnedBy(s, u)
  BY DEF My!Returns, Returns, My!Raises, Raises, My!OwnedBy, OwnedBy
<1>2. My!Insert(s, t, row) = Insert(s, t, row)
  BY Zenon DEF My!Insert, Insert, My!Returns, Returns, My!With, With
<1>3. My!InsertUser(s, row) = InsertUser(s, row)
  BY Zenon DEF My!InsertUser, InsertUser, My!Raises, Raises, My!Insert, Insert, My!Returns, Returns,
               My!With, With, My!Range, Range
<1>4. My!InsertMessage(s, c, u) = InsertMessage(s, c, u)
  BY Zenon DEF My!InsertMessage, InsertMessage, My!Returns, Returns
<1>5. My!Update(s, t, S, row) = Update(s, t, S, row) /\ My!UserNamed(s, row) = UserNamed(s, row)
  BY Zenon DEF My!Update, Update, My!Returns, Returns, My!UserNamed, UserNamed
<1>6. My!UpdateUser(s, u, row) = UpdateUser(s, u, row)
  BY Zenon DEF My!UpdateUser, UpdateUser, My!Raises, Raises, My!Update, Update, My!Returns, Returns
<1>7. My!DropChats(s, S) = DropChats(s, S) /\ My!DropPrompts(s, S) = DropPrompts(s, S)
  BY Zenon DEF My!DropChats, DropChats, My!DropPrompts, DropPrompts, My!Without, Without, My!Restrict, Restrict
<1>8. My!DropUser(s, u) = DropUser(s, u)
  BY Zenon DEF My!DropUser, DropUser, My!DropChats, DropChats, My!DropPrompts, DropPrompts,
               My!Without, Without, My!Restrict, Restrict, My!OwnedBy, OwnedBy
<1>9. QED
  BY <1>1, <1>2, <1>3, <1>4, <1>5, <1>6, <1>7, <1>8

LEMMA MyRows ==
  ASSUME NEW s, Integrity(s), NEW r, NEW call \in Calls, call = "add_message" => Checked(s, r)
  PROVE  Follows(s, My!Call(s, call, r).rows)
<1> DEFINE mine == OwnedBy(s.chats, r.user) \intersect {r.chat}
           prompts == OwnedBy(s.prompts, r.user) \intersect {r.prompt}
<1>n. /\ Raises(s).rows = s
      /\ \A n, S : Returns(n, S).rows = n
  BY DEF Returns, Raises
<1>0. Follows(s, s)
  BY NothingChanged
<1>1. CASE call = "create_chat"
  <2>1. My!Call(s, call, r) = My!create_chat(s, r)
    BY Zenon, <1>1 DEF My!Call
  <2>2. CASE r.user \in DOMAIN s.users
    <3> DEFINE row == [user |-> r.user, pinned |-> FALSE]
    <3>1. row.user = r.user
      OBVIOUS
    <3>2. My!create_chat(s, r) = Insert(s, "chats", row)
      BY <2>2, MyTables DEF My!create_chat
    <3> HIDE DEF row
    <3>3. QED
      BY <2>1, <2>2, <3>1, <3>2, InsertedChat
  <2>3. CASE r.user \notin DOMAIN s.users
    <3>1. My!create_chat(s, r) = Raises(s)
      BY <2>3, MyTables DEF My!create_chat
    <3>2. QED
      BY <1>n, <1>0, <2>1, <3>1
  <2>4. QED
    BY <2>2, <2>3
<1>2. CASE call = "add_message"
  <2>1. My!Call(s, call, r) = My!add_message(s, r)
    BY Zenon, <1>2 DEF My!Call
  <2>2. CASE r.chat \in DOMAIN s.chats
    <3>1. My!add_message(s, r) = InsertMessage(s, r.chat, r.user)
      BY <2>2, MyTables DEF My!add_message
    <3>2. QED
      BY <1>2, <2>1, <2>2, <3>1, InsertedMessage DEF Checked
  <2>3. CASE r.chat \notin DOMAIN s.chats
    <3>1. My!add_message(s, r) = Raises(s)
      BY <2>3, MyTables DEF My!add_message
    <3>2. QED
      BY <1>n, <1>0, <2>1, <3>1
  <2>4. QED
    BY <2>2, <2>3
<1>3. CASE call = "create_user"
  <2>1. My!Call(s, call, r) = InsertUser(s, r.name)
    <3>1. My!Call(s, call, r) = My!create_user(s, r)
      BY Zenon, <1>3 DEF My!Call
    <3>2. QED
      BY <3>1, MyTables DEF My!create_user
  <2>2. InsertUser(s, r.name) \in {Raises(s), Insert(s, "users", r.name)}
    BY DEF InsertUser
  <2>3. QED
    BY <1>n, <1>0, <2>1, <2>2, InsertedUser
<1>4. CASE call = "delete_chat"
  <2>1. My!Call(s, call, r) = My!delete_chat(s, r)
    BY Zenon, <1>4 DEF My!Call
  <2>2. My!delete_chat(s, r) = Returns(DropChats(s, mine), mine)
    BY MyTables DEF My!delete_chat
  <2>3. QED
    BY <1>n, <2>1, <2>2, DroppedChats
<1>5. CASE call = "toggle_pin_chat"
  <2>1. My!Call(s, call, r) = My!toggle_pin_chat(s, r)
    BY Zenon, <1>5 DEF My!Call
  <2> DEFINE row == [user |-> r.user, pinned |-> ~s.chats[r.chat].pinned]
  <2>2. My!toggle_pin_chat(s, r) = IF mine = {} THEN Returns(s, {}) ELSE Update(s, "chats", mine, row)
    BY MyTables DEF My!toggle_pin_chat
  <2>3. row.user = r.user
    OBVIOUS
  <2> HIDE DEF row
  <2>4. mine \subseteq OwnedBy(s.chats, row.user)
    BY <2>3
  <2> HIDE DEF mine
  <2>5. Follows(s, Update(s, "chats", mine, row).rows)
    BY <2>4, UpdatedChat
  <2>6. QED
    BY <1>n, <1>0, <2>1, <2>2, <2>5
<1>6. CASE call = "create_prompt"
  <2>1. My!Call(s, call, r) = My!create_prompt(s, r)
    BY Zenon, <1>6 DEF My!Call
  <2>2. CASE r.user \in DOMAIN s.users
    <3> DEFINE row == [user |-> r.user, text |-> r.text]
    <3>1. row.user = r.user
      OBVIOUS
    <3>2. My!create_prompt(s, r) = Insert(s, "prompts", row)
      BY <2>2, MyTables DEF My!create_prompt
    <3> HIDE DEF row
    <3>3. QED
      BY <2>1, <2>2, <3>1, <3>2, InsertedPrompt
  <2>3. CASE r.user \notin DOMAIN s.users
    <3>1. My!create_prompt(s, r) = Raises(s)
      BY <2>3, MyTables DEF My!create_prompt
    <3>2. QED
      BY <1>n, <1>0, <2>1, <3>1
  <2>4. QED
    BY <2>2, <2>3
<1>7. CASE call = "update_prompt"
  <2>1. My!Call(s, call, r) = My!update_prompt(s, r)
    BY Zenon, <1>7 DEF My!Call
  <2> DEFINE row == [user |-> r.user, text |-> r.text]
             S == {p \in prompts : s.prompts[p].text # r.text}
  <2>2. My!update_prompt(s, r) = Update(s, "prompts", S, row)
    BY MyTables DEF My!update_prompt
  <2>3. row.user = r.user
    OBVIOUS
  <2> HIDE DEF row
  <2>4. S \subseteq OwnedBy(s.prompts, row.user)
    BY <2>3
  <2> HIDE DEF S
  <2>5. QED
    BY <2>1, <2>2, <2>4, UpdatedPrompt
<1>8. CASE call = "delete_prompt"
  <2>1. My!Call(s, call, r) = My!delete_prompt(s, r)
    BY Zenon, <1>8 DEF My!Call
  <2>2. My!delete_prompt(s, r) = Returns(DropPrompts(s, prompts), prompts)
    BY MyTables DEF My!delete_prompt
  <2>3. QED
    BY <1>n, <2>1, <2>2, DroppedPrompts
<1>9. CASE call = "update_username"
  <2>1. My!Call(s, call, r) = UpdateUser(s, r.user, r.name)
    <3>1. My!Call(s, call, r) = My!update_username(s, r)
      BY Zenon, <1>9 DEF My!Call
    <3>2. QED
      BY <3>1, MyTables DEF My!update_username
  <2> DEFINE S == {r.user} \intersect DOMAIN s.users
  <2>2. UpdateUser(s, r.user, r.name) \in {Raises(s), Update(s, "users", S, r.name)}
    BY DEF UpdateUser
  <2> HIDE DEF S
  <2>3. QED
    BY <1>n, <1>0, <2>1, <2>2, UpdatedUser
<1>10. CASE call = "delete_user_account"
  <2>1. My!Call(s, call, r) = My!delete_user_account(s, r)
    BY Zenon, <1>10 DEF My!Call
  <2>2. My!delete_user_account(s, r) = Returns(DropUser(s, r.user), {r.user} \intersect DOMAIN s.users)
    BY MyTables DEF My!delete_user_account
  <2>3. QED
    BY <1>n, <2>1, <2>2, DroppedUser
<1>11. CASE call \in Reads \union {"change_user_password"}
  <2>1. \E S : My!Call(s, call, r) = My!Returns(s, S)
    <3>1. CASE call = "get_chats"
      BY Zenon, <3>1 DEF My!Call, My!get_chats, My!ChatsOf
    <3>2. CASE call = "chat_belongs_to_user"
      BY Zenon, <3>2 DEF My!Call, My!chat_belongs_to_user, My!OwnChat
    <3>3. CASE call = "get_messages"
      BY Zenon, <3>3 DEF My!Call, My!get_messages, My!MessagesOf
    <3>4. CASE call = "get_user_by_username"
      BY Zenon, <3>4 DEF My!Call, My!get_user_by_username, My!UserNamed
    <3>5. CASE call = "get_prompts"
      BY Zenon, <3>5 DEF My!Call, My!get_prompts, My!PromptsOf
    <3>6. CASE call = "get_user_usage_stats"
      BY Zenon, <3>6 DEF My!Call, My!get_user_usage_stats
    <3>7. CASE call = "health_check"
      BY Zenon, <3>7 DEF My!Call
    <3>8. CASE call = "change_user_password"
      BY Zenon, <3>8 DEF My!Call, My!change_user_password
    <3>9. QED
      BY <1>11, <3>1, <3>2, <3>3, <3>4, <3>5, <3>6, <3>7, <3>8 DEF Reads
  <2>2. PICK S : My!Call(s, call, r) = My!Returns(s, S)
    BY <2>1
  <2>3. My!Call(s, call, r).rows = s
    BY <2>2 DEF My!Returns
  <2>4. QED
    BY <1>0, <2>3
<1>12. QED
  BY <1>1, <1>2, <1>3, <1>4, <1>5, <1>6, <1>7, <1>8, <1>9, <1>10, <1>11, CallNames DEF Reads

-----------------------------------------------------------------------------
(* Answers.  A call that finds what the request asks for is no refusal. *)

\* Holds, of the rows s, by the kind of the request ...
Grants(s, r) ==
  /\ r.kind = "rename" => r.user \in DOMAIN s.users /\ r.name \notin Range(s.users)
  /\ r.kind = "login" => r.right /\ r.name \in Range(s.users)
  /\ r.kind = "change_password" => r.right /\ r.user \in DOMAIN s.users
  /\ r.kind = "delete_account" => r.right /\ r.user \in UserNamed(s, r.name).answer
  /\ r.kind \in {"read", "save", "delete_chat", "toggle_pin"} => r.chat \in OwnedBy(s.chats, r.user)
  /\ r.kind \in {"delete_prompt", "update_prompt"} => r.prompt \in OwnedBy(s.prompts, r.user)

\* ... and Refused, of the answer to a call.
Declines(call, r, found) ==
  /\ call \notin Listings
  /\ IF call = "get_user_by_username"
       THEN IF r.kind = "rename" THEN found # {} ELSE found = {} \/ ~r.right
       ELSE found = {}

\* The calls that can be a request's.
Compatible(call, r) ==
  /\ call = "get_user_by_username" => r.kind \in {"login", "rename", "delete_account"}
  /\ call = "update_username" => r.kind = "rename"
  /\ call = "delete_user_account" => r.kind = "delete_account"
  /\ call = "change_user_password" => r.kind = "change_password"
  /\ call = "chat_belongs_to_user" => r.kind \in {"read", "save"}
  /\ call = "add_message" => r.kind = "save"
  /\ call = "delete_chat" => r.kind = "delete_chat"
  /\ call = "toggle_pin_chat" => r.kind = "toggle_pin"
  /\ call = "update_prompt" => r.kind = "update_prompt"
  /\ call = "delete_prompt" => r.kind = "delete_prompt"

LEMMA PGAnswers ==
  ASSUME NEW s, NEW r, NEW call \in Calls, Grants(s, r), Compatible(call, r), ~PG!Call(s, call, r).raises
  PROVE  ~Declines(call, r, PG!Call(s, call, r).answer)
<1> DEFINE found == PG!Call(s, call, r)
<1>n. /\ \A n, S : Returns(n, S).answer = S
      /\ \A n : Raises(n).raises
      /\ \A n, t, row : Insert(n, t, row).answer # {}
      /\ \A n, t, S, row : Update(n, t, S, row).answer = S
  BY DEF Returns, Raises, Insert, Update
<1>1. CASE call = "create_chat"
  <2>1. found = PG!create_chat(s, r)
    BY Zenon, <1>1 DEF PG!Call
  <2>2. found = Raises(s) \/ \E row : found = Insert(s, "chats", row)
    BY <2>1, PGTables DEF PG!create_chat
  <2>3. QED
    BY <1>1, <1>n, <2>2 DEF Declines
<1>2. CASE call = "create_prompt"
  <2>1. found = PG!create_prompt(s, r)
    BY Zenon, <1>2 DEF PG!Call
  <2>2. found = Raises(s) \/ \E row : found = Insert(s, "prompts", row)
    BY <2>1, PGTables DEF PG!create_prompt
  <2>3. QED
    BY <1>2, <1>n, <2>2 DEF Declines
<1>3. CASE call = "create_user"
  <2>1. found = PG!create_user(s, r)
    BY Zenon, <1>3 DEF PG!Call
  <2>2. found = InsertUser(s, r.name)
    BY <2>1, PGTables DEF PG!create_user
  <2>3. found = Raises(s) \/ found = Insert(s, "users", r.name)
    BY <2>2 DEF InsertUser
  <2>4. QED
    BY <1>3, <1>n, <2>3 DEF Declines
<1>4. CASE call = "add_message"
  <2>1. found = PG!add_message(s, r)
    BY Zenon, <1>4 DEF PG!Call
  <2>2. found = Raises(s) \/ found = InsertMessage(s, r.chat, r.user)
    BY <2>1, PGTables DEF PG!add_message
  <2>3. InsertMessage(s, r.chat, r.user).answer # {}
    BY DEF InsertMessage, Returns
  <2>4. QED
    BY <1>4, <1>n, <2>2, <2>3 DEF Declines
<1>5. CASE call = "get_user_by_username"
  <2>1. found = PG!get_user_by_username(s, r)
    BY Zenon, <1>5 DEF PG!Call
  <2>2. found = UserNamed(s, r.name)
    BY <2>1, PGTables DEF PG!get_user_by_username
  <2>3. found.answer = {u \in DOMAIN s.users : s.users[u] = r.name}
    BY <2>2 DEF UserNamed, Returns
  <2>4. r.kind \in {"login", "rename", "delete_account"}
    BY <1>5 DEF Compatible
  <2>5. CASE r.kind = "rename"
    BY <1>5, <2>3, <2>5 DEF Grants, Declines, Range
  <2>6. CASE r.kind = "login"
    BY <1>5, <2>3, <2>6 DEF Grants, Declines, Range
  <2>7. CASE r.kind = "delete_account"
    BY <1>5, <2>2, <2>7 DEF Grants, Declines
  <2>8. QED
    BY <2>4, <2>5, <2>6, <2>7
<1>6. CASE call \in {"chat_belongs_to_user", "delete_chat"}
  <2>1. found.answer = OwnedBy(s.chats, r.user) \intersect {r.chat}
    <3>1. CASE call = "chat_belongs_to_user"
      <4>1. found = PG!chat_belongs_to_user(s, r)
        BY Zenon, <3>1 DEF PG!Call
      <4>2. QED
        BY <4>1, PGTables DEF PG!chat_belongs_to_user, PG!OwnChat, Returns
    <3>2. CASE call = "delete_chat"
      <4>1. found = PG!delete_chat(s, r)
        BY Zenon, <3>2 DEF PG!Call
      <4>2. QED
        BY <4>1, PGTables DEF PG!delete_chat, Returns
    <3>3. QED
      BY <1>6, <3>1, <3>2
  <2>2. r.kind \in {"read", "save", "delete_chat", "toggle_pin"}
    BY <1>6 DEF Compatible
  <2>3. QED
    BY <1>6, <2>1, <2>2 DEF Grants, Declines
<1>7. CASE call = "toggle_pin_chat"
  <2>1. found = PG!toggle_pin_chat(s, r)
    BY Zenon, <1>7 DEF PG!Call
  <2> DEFINE mine == OwnedBy(s.chats, r.user) \intersect {r.chat}
             row == [user |-> r.user, pinned |-> ~s.chats[r.chat].pinned]
  <2>2. found = IF mine = {} THEN Returns(s, {}) ELSE Update(s, "chats", mine, row)
    BY <2>1, PGTables DEF PG!toggle_pin_chat
  <2>3. mine # {}
    BY <1>7 DEF Compatible, Grants
  <2> HIDE DEF mine, row
  <2>4. QED
    BY <1>7, <1>n, <2>2, <2>3 DEF Declines
<1>8. CASE call = "change_user_password"
  <2>1. found = PG!change_user_password(s, r)
    BY Zenon, <1>8 DEF PG!Call
  <2>2. r.right /\ r.user \in DOMAIN s.users
    BY <1>8 DEF Compatible, Grants
  <2>3. found = Returns(s, {r.user} \intersect DOMAIN s.users)
    BY <2>1, <2>2, PGTables DEF PG!change_user_password
  <2>4. QED
    BY <1>8, <1>n, <2>2, <2>3 DEF Declines
<1>9. CASE call = "update_prompt"
  <2>1. found = PG!update_prompt(s, r)
    BY Zenon, <1>9 DEF PG!Call
  <2> DEFINE prompts == OwnedBy(s.prompts, r.user) \intersect {r.prompt}
             row == [user |-> r.user, text |-> r.text]
             S == prompts
  <2>2. found = Update(s, "prompts", S, row)
    BY <2>1, PGTables DEF PG!update_prompt
  <2>3. r.prompt \in S
    BY <1>9 DEF Compatible, Grants
  <2> HIDE DEF S, row
  <2>4. QED
    BY <1>9, <1>n, <2>2, <2>3 DEF Declines
<1>10. CASE call = "delete_prompt"
  <2>1. found = PG!delete_prompt(s, r)
    BY Zenon, <1>10 DEF PG!Call
  <2>2. found.answer = OwnedBy(s.prompts, r.user) \intersect {r.prompt}
    BY <2>1, PGTables DEF PG!delete_prompt, Returns
  <2>3. QED
    BY <1>10, <2>2 DEF Compatible, Grants, Declines
<1>11. CASE call = "update_username"
  <2>1. found = PG!update_username(s, r)
    BY Zenon, <1>11 DEF PG!Call
  <2> DEFINE S == {r.user} \intersect DOMAIN s.users
  <2>2. found = UpdateUser(s, r.user, r.name)
    BY <2>1, PGTables DEF PG!update_username
  <2>3. found = Raises(s) \/ found = Update(s, "users", S, r.name)
    BY <2>2 DEF UpdateUser
  <2>4. S # {}
    BY <1>11 DEF Compatible, Grants
  <2> HIDE DEF S
  <2>5. QED
    BY <1>11, <1>n, <2>3, <2>4 DEF Declines
<1>12. CASE call = "delete_user_account"
  <2>1. found = PG!delete_user_account(s, r)
    BY Zenon, <1>12 DEF PG!Call
  <2>2. found.answer = {r.user} \intersect DOMAIN s.users
    BY <2>1, PGTables DEF PG!delete_user_account, Returns
  <2>3. r.user \in DOMAIN s.users
    BY <1>12 DEF Compatible, Grants, UserNamed, Returns
  <2>4. QED
    BY <1>12, <2>2, <2>3 DEF Declines
<1>13. CASE call \in Listings
  BY <1>13 DEF Declines
<1>14. QED
  BY <1>1, <1>2, <1>3, <1>4, <1>5, <1>6, <1>7, <1>8, <1>9, <1>10, <1>11, <1>12, <1>13,
     CallNames DEF Listings

LEMMA MyAnswers ==
  ASSUME NEW s, NEW r, NEW call \in Calls, Grants(s, r), Compatible(call, r), ~My!Call(s, call, r).raises,
         r.kind = "update_prompt" => s.prompts[r.prompt].text # r.text
  PROVE  ~Declines(call, r, My!Call(s, call, r).answer)
<1> DEFINE found == My!Call(s, call, r)
<1>n. /\ \A n, S : Returns(n, S).answer = S
      /\ \A n : Raises(n).raises
      /\ \A n, t, row : Insert(n, t, row).answer # {}
      /\ \A n, t, S, row : Update(n, t, S, row).answer = S
  BY DEF Returns, Raises, Insert, Update
<1>1. CASE call = "create_chat"
  <2>1. found = My!create_chat(s, r)
    BY Zenon, <1>1 DEF My!Call
  <2>2. found = Raises(s) \/ \E row : found = Insert(s, "chats", row)
    BY <2>1, MyTables DEF My!create_chat
  <2>3. QED
    BY <1>1, <1>n, <2>2 DEF Declines
<1>2. CASE call = "create_prompt"
  <2>1. found = My!create_prompt(s, r)
    BY Zenon, <1>2 DEF My!Call
  <2>2. found = Raises(s) \/ \E row : found = Insert(s, "prompts", row)
    BY <2>1, MyTables DEF My!create_prompt
  <2>3. QED
    BY <1>2, <1>n, <2>2 DEF Declines
<1>3. CASE call = "create_user"
  <2>1. found = My!create_user(s, r)
    BY Zenon, <1>3 DEF My!Call
  <2>2. found = InsertUser(s, r.name)
    BY <2>1, MyTables DEF My!create_user
  <2>3. found = Raises(s) \/ found = Insert(s, "users", r.name)
    BY <2>2 DEF InsertUser
  <2>4. QED
    BY <1>3, <1>n, <2>3 DEF Declines
<1>4. CASE call = "add_message"
  <2>1. found = My!add_message(s, r)
    BY Zenon, <1>4 DEF My!Call
  <2>2. found = Raises(s) \/ found = InsertMessage(s, r.chat, r.user)
    BY <2>1, MyTables DEF My!add_message
  <2>3. InsertMessage(s, r.chat, r.user).answer # {}
    BY DEF InsertMessage, Returns
  <2>4. QED
    BY <1>4, <1>n, <2>2, <2>3 DEF Declines
<1>5. CASE call = "get_user_by_username"
  <2>1. found = My!get_user_by_username(s, r)
    BY Zenon, <1>5 DEF My!Call
  <2>2. found = UserNamed(s, r.name)
    BY <2>1, MyTables DEF My!get_user_by_username
  <2>3. found.answer = {u \in DOMAIN s.users : s.users[u] = r.name}
    BY <2>2 DEF UserNamed, Returns
  <2>4. r.kind \in {"login", "rename", "delete_account"}
    BY <1>5 DEF Compatible
  <2>5. CASE r.kind = "rename"
    BY <1>5, <2>3, <2>5 DEF Grants, Declines, Range
  <2>6. CASE r.kind = "login"
    BY <1>5, <2>3, <2>6 DEF Grants, Declines, Range
  <2>7. CASE r.kind = "delete_account"
    BY <1>5, <2>2, <2>7 DEF Grants, Declines
  <2>8. QED
    BY <2>4, <2>5, <2>6, <2>7
<1>6. CASE call \in {"chat_belongs_to_user", "delete_chat"}
  <2>1. found.answer = OwnedBy(s.chats, r.user) \intersect {r.chat}
    <3>1. CASE call = "chat_belongs_to_user"
      <4>1. found = My!chat_belongs_to_user(s, r)
        BY Zenon, <3>1 DEF My!Call
      <4>2. QED
        BY <4>1, MyTables DEF My!chat_belongs_to_user, My!OwnChat, Returns
    <3>2. CASE call = "delete_chat"
      <4>1. found = My!delete_chat(s, r)
        BY Zenon, <3>2 DEF My!Call
      <4>2. QED
        BY <4>1, MyTables DEF My!delete_chat, Returns
    <3>3. QED
      BY <1>6, <3>1, <3>2
  <2>2. r.kind \in {"read", "save", "delete_chat", "toggle_pin"}
    BY <1>6 DEF Compatible
  <2>3. QED
    BY <1>6, <2>1, <2>2 DEF Grants, Declines
<1>7. CASE call = "toggle_pin_chat"
  <2>1. found = My!toggle_pin_chat(s, r)
    BY Zenon, <1>7 DEF My!Call
  <2> DEFINE mine == OwnedBy(s.chats, r.user) \intersect {r.chat}
             row == [user |-> r.user, pinned |-> ~s.chats[r.chat].pinned]
  <2>2. found = IF mine = {} THEN Returns(s, {}) ELSE Update(s, "chats", mine, row)
    BY <2>1, MyTables DEF My!toggle_pin_chat
  <2>3. mine # {}
    BY <1>7 DEF Compatible, Grants
  <2> HIDE DEF mine, row
  <2>4. QED
    BY <1>7, <1>n, <2>2, <2>3 DEF Declines
<1>8. CASE call = "change_user_password"
  <2>1. found = My!change_user_password(s, r)
    BY Zenon, <1>8 DEF My!Call
  <2>2. r.right /\ r.user \in DOMAIN s.users
    BY <1>8 DEF Compatible, Grants
  <2>3. found = Returns(s, {r.user} \intersect DOMAIN s.users)
    BY <2>1, <2>2, MyTables DEF My!change_user_password
  <2>4. QED
    BY <1>8, <1>n, <2>2, <2>3 DEF Declines
<1>9. CASE call = "update_prompt"
  <2>1. found = My!update_prompt(s, r)
    BY Zenon, <1>9 DEF My!Call
  <2> DEFINE prompts == OwnedBy(s.prompts, r.user) \intersect {r.prompt}
             row == [user |-> r.user, text |-> r.text]
             S == {p \in prompts : s.prompts[p].text # r.text}
  <2>2. found = Update(s, "prompts", S, row)
    BY <2>1, MyTables DEF My!update_prompt
  <2>3. r.prompt \in S
    BY <1>9 DEF Compatible, Grants
  <2> HIDE DEF S, row
  <2>4. QED
    BY <1>9, <1>n, <2>2, <2>3 DEF Declines
<1>10. CASE call = "delete_prompt"
  <2>1. found = My!delete_prompt(s, r)
    BY Zenon, <1>10 DEF My!Call
  <2>2. found.answer = OwnedBy(s.prompts, r.user) \intersect {r.prompt}
    BY <2>1, MyTables DEF My!delete_prompt, Returns
  <2>3. QED
    BY <1>10, <2>2 DEF Compatible, Grants, Declines
<1>11. CASE call = "update_username"
  <2>1. found = My!update_username(s, r)
    BY Zenon, <1>11 DEF My!Call
  <2> DEFINE S == {r.user} \intersect DOMAIN s.users
  <2>2. found = UpdateUser(s, r.user, r.name)
    BY <2>1, MyTables DEF My!update_username
  <2>3. found = Raises(s) \/ found = Update(s, "users", S, r.name)
    BY <2>2 DEF UpdateUser
  <2>4. S # {}
    BY <1>11 DEF Compatible, Grants
  <2> HIDE DEF S
  <2>5. QED
    BY <1>11, <1>n, <2>3, <2>4 DEF Declines
<1>12. CASE call = "delete_user_account"
  <2>1. found = My!delete_user_account(s, r)
    BY Zenon, <1>12 DEF My!Call
  <2>2. found.answer = {r.user} \intersect DOMAIN s.users
    BY <2>1, MyTables DEF My!delete_user_account, Returns
  <2>3. r.user \in DOMAIN s.users
    BY <1>12 DEF Compatible, Grants, UserNamed, Returns
  <2>4. QED
    BY <1>12, <2>2, <2>3 DEF Declines
<1>13. CASE call \in Listings
  BY <1>13 DEF Declines
<1>14. QED
  BY <1>1, <1>2, <1>3, <1>4, <1>5, <1>6, <1>7, <1>8, <1>9, <1>10, <1>11, <1>12, <1>13,
     CallNames DEF Listings

LEMMA LiteTables ==
  ASSUME NEW s, NEW t, NEW u, NEW c, NEW S, NEW row
  PROVE  /\ Lite!Returns(s, S) = Returns(s, S) /\ Lite!Raises(s) = Raises(s)
         /\ Lite!Insert(s, t, row) = Insert(s, t, row)
         /\ Lite!InsertUser(s, row) = InsertUser(s, row)
         /\ Lite!InsertMessage(s, c, u) = InsertMessage(s, c, u)
         /\ Lite!Update(s, t, S, row) = Update(s, t, S, row)
         /\ Lite!UpdateUser(s, u, row) = UpdateUser(s, u, row)
         /\ Lite!OwnedBy(s, u) = OwnedBy(s, u)
         /\ Lite!DropChats(s, S) = DropChats(s, S)
         /\ Lite!DropPrompts(s, S) = DropPrompts(s, S)
         /\ Lite!DropUser(s, u) = DropUser(s, u)
         /\ Lite!UserNamed(s, row) = UserNamed(s, row)
<1>1. /\ Lite!Returns(s, S) = Returns(s, S) /\ Lite!Raises(s) = Raises(s)
      /\ Lite!OwnedBy(s, u) = OwnedBy(s, u)
  BY DEF Lite!Returns, Returns, Lite!Raises, Raises, Lite!OwnedBy, OwnedBy
<1>2. Lite!Insert(s, t, row) = Insert(s, t, row)
  BY Zenon DEF Lite!Insert, Insert, Lite!Returns, Returns, Lite!With, With
<1>3. Lite!InsertUser(s, row) = InsertUser(s, row)
  BY Zenon DEF Lite!InsertUser, InsertUser, Lite!Raises, Raises, Lite!Insert, Insert, Lite!Returns, Returns,
               Lite!With, With, Lite!Range, Range
<1>4. Lite!InsertMessage(s, c, u) = InsertMessage(s, c, u)
  BY Zenon DEF Lite!InsertMessage, InsertMessage, Lite!Returns, Returns
<1>5. Lite!Update(s, t, S, row) = Update(s, t, S, row) /\ Lite!UserNamed(s, row) = UserNamed(s, row)
  BY Zenon DEF Lite!Update, Update, Lite!Returns, Returns, Lite!UserNamed, UserNamed
<1>6. Lite!UpdateUser(s, u, row) = UpdateUser(s, u, row)
  BY Zenon DEF Lite!UpdateUser, UpdateUser, Lite!Raises, Raises, Lite!Update, Update, Lite!Returns, Returns
<1>7. Lite!DropChats(s, S) = DropChats(s, S) /\ Lite!DropPrompts(s, S) = DropPrompts(s, S)
  BY Zenon DEF Lite!DropChats, DropChats, Lite!DropPrompts, DropPrompts, Lite!Without, Without, Lite!Restrict, Restrict
<1>8. Lite!DropUser(s, u) = DropUser(s, u)
  BY Zenon DEF Lite!DropUser, DropUser, Lite!DropChats, DropChats, Lite!DropPrompts, DropPrompts,
               Lite!Without, Without, Lite!Restrict, Restrict, Lite!OwnedBy, OwnedBy
<1>9. QED
  BY <1>1, <1>2, <1>3, <1>4, <1>5, <1>6, <1>7, <1>8

LEMMA LiteAnswers ==
  ASSUME NEW s, NEW r, NEW call \in Calls, Grants(s, r), Compatible(call, r), ~Lite!Call(s, call, r).raises
  PROVE  ~Declines(call, r, Lite!Call(s, call, r).answer)
<1> DEFINE found == Lite!Call(s, call, r)
<1>n. /\ \A n, S : Returns(n, S).answer = S
      /\ \A n : Raises(n).raises
      /\ \A n, t, row : Insert(n, t, row).answer # {}
      /\ \A n, t, S, row : Update(n, t, S, row).answer = S
  BY DEF Returns, Raises, Insert, Update
<1>1. CASE call = "create_chat"
  <2>1. found = Lite!create_chat(s, r)
    BY Zenon, <1>1 DEF Lite!Call
  <2>2. found = Raises(s) \/ \E row : found = Insert(s, "chats", row)
    BY <2>1, LiteTables DEF Lite!create_chat
  <2>3. QED
    BY <1>1, <1>n, <2>2 DEF Declines
<1>2. CASE call = "create_prompt"
  <2>1. found = Lite!create_prompt(s, r)
    BY Zenon, <1>2 DEF Lite!Call
  <2>2. found = Raises(s) \/ \E row : found = Insert(s, "prompts", row)
    BY <2>1, LiteTables DEF Lite!create_prompt
  <2>3. QED
    BY <1>2, <1>n, <2>2 DEF Declines
<1>3. CASE call = "create_user"
  <2>1. found = Lite!create_user(s, r)
    BY Zenon, <1>3 DEF Lite!Call
  <2>2. found = InsertUser(s, r.name)
    BY <2>1, LiteTables DEF Lite!create_user
  <2>3. found = Raises(s) \/ found = Insert(s, "users", r.name)
    BY <2>2 DEF InsertUser
  <2>4. QED
    BY <1>3, <1>n, <2>3 DEF Declines
<1>4. CASE call = "add_message"
  <2>1. found = Lite!add_message(s, r)
    BY Zenon, <1>4 DEF Lite!Call
  <2>2. found = Raises(s) \/ found = InsertMessage(s, r.chat, r.user)
    BY <2>1, LiteTables DEF Lite!add_message
  <2>3. InsertMessage(s, r.chat, r.user).answer # {}
    BY DEF InsertMessage, Returns
  <2>4. QED
    BY <1>4, <1>n, <2>2, <2>3 DEF Declines
<1>5. CASE call = "get_user_by_username"
  <2>1. found = Lite!get_user_by_username(s, r)
    BY Zenon, <1>5 DEF Lite!Call
  <2>2. found = UserNamed(s, r.name)
    BY <2>1, LiteTables DEF Lite!get_user_by_username
  <2>3. found.answer = {u \in DOMAIN s.users : s.users[u] = r.name}
    BY <2>2 DEF UserNamed, Returns
  <2>4. r.kind \in {"login", "rename", "delete_account"}
    BY <1>5 DEF Compatible
  <2>5. CASE r.kind = "rename"
    BY <1>5, <2>3, <2>5 DEF Grants, Declines, Range
  <2>6. CASE r.kind = "login"
    BY <1>5, <2>3, <2>6 DEF Grants, Declines, Range
  <2>7. CASE r.kind = "delete_account"
    BY <1>5, <2>2, <2>7 DEF Grants, Declines
  <2>8. QED
    BY <2>4, <2>5, <2>6, <2>7
<1>6. CASE call \in {"chat_belongs_to_user", "delete_chat"}
  <2>1. found.answer = OwnedBy(s.chats, r.user) \intersect {r.chat}
    <3>1. CASE call = "chat_belongs_to_user"
      <4>1. found = Lite!chat_belongs_to_user(s, r)
        BY Zenon, <3>1 DEF Lite!Call
      <4>2. QED
        BY <4>1, LiteTables DEF Lite!chat_belongs_to_user, Lite!OwnChat, Returns
    <3>2. CASE call = "delete_chat"
      <4>1. found = Lite!delete_chat(s, r)
        BY Zenon, <3>2 DEF Lite!Call
      <4>2. QED
        BY <4>1, LiteTables DEF Lite!delete_chat, Returns
    <3>3. QED
      BY <1>6, <3>1, <3>2
  <2>2. r.kind \in {"read", "save", "delete_chat", "toggle_pin"}
    BY <1>6 DEF Compatible
  <2>3. QED
    BY <1>6, <2>1, <2>2 DEF Grants, Declines
<1>7. CASE call = "toggle_pin_chat"
  <2>1. found = Lite!toggle_pin_chat(s, r)
    BY Zenon, <1>7 DEF Lite!Call
  <2> DEFINE mine == OwnedBy(s.chats, r.user) \intersect {r.chat}
             row == [user |-> r.user, pinned |-> ~s.chats[r.chat].pinned]
  <2>2. found = IF mine = {} THEN Returns(s, {}) ELSE Update(s, "chats", mine, row)
    BY <2>1, LiteTables DEF Lite!toggle_pin_chat
  <2>3. mine # {}
    BY <1>7 DEF Compatible, Grants
  <2> HIDE DEF mine, row
  <2>4. QED
    BY <1>7, <1>n, <2>2, <2>3 DEF Declines
<1>8. CASE call = "change_user_password"
  <2>1. found = Lite!change_user_password(s, r)
    BY Zenon, <1>8 DEF Lite!Call
  <2>2. r.right /\ r.user \in DOMAIN s.users
    BY <1>8 DEF Compatible, Grants
  <2>3. found = Returns(s, {r.user} \intersect DOMAIN s.users)
    BY <2>1, <2>2, LiteTables DEF Lite!change_user_password
  <2>4. QED
    BY <1>8, <1>n, <2>2, <2>3 DEF Declines
<1>9. CASE call = "update_prompt"
  <2>1. found = Lite!update_prompt(s, r)
    BY Zenon, <1>9 DEF Lite!Call
  <2> DEFINE prompts == OwnedBy(s.prompts, r.user) \intersect {r.prompt}
             row == [user |-> r.user, text |-> r.text]
             S == prompts
  <2>2. found = Update(s, "prompts", S, row)
    BY <2>1, LiteTables DEF Lite!update_prompt
  <2>3. r.prompt \in S
    BY <1>9 DEF Compatible, Grants
  <2> HIDE DEF S, row
  <2>4. QED
    BY <1>9, <1>n, <2>2, <2>3 DEF Declines
<1>10. CASE call = "delete_prompt"
  <2>1. found = Lite!delete_prompt(s, r)
    BY Zenon, <1>10 DEF Lite!Call
  <2>2. found.answer = OwnedBy(s.prompts, r.user) \intersect {r.prompt}
    BY <2>1, LiteTables DEF Lite!delete_prompt, Returns
  <2>3. QED
    BY <1>10, <2>2 DEF Compatible, Grants, Declines
<1>11. CASE call = "update_username"
  <2>1. found = Lite!update_username(s, r)
    BY Zenon, <1>11 DEF Lite!Call
  <2> DEFINE S == {r.user} \intersect DOMAIN s.users
  <2>2. found = UpdateUser(s, r.user, r.name)
    BY <2>1, LiteTables DEF Lite!update_username
  <2>3. found = Raises(s) \/ found = Update(s, "users", S, r.name)
    BY <2>2 DEF UpdateUser
  <2>4. S # {}
    BY <1>11 DEF Compatible, Grants
  <2> HIDE DEF S
  <2>5. QED
    BY <1>11, <1>n, <2>3, <2>4 DEF Declines
<1>12. CASE call = "delete_user_account"
  <2>1. found = Lite!delete_user_account(s, r)
    BY Zenon, <1>12 DEF Lite!Call
  <2>2. found.answer = {r.user} \intersect DOMAIN s.users
    BY <2>1, LiteTables DEF Lite!delete_user_account, Returns
  <2>3. r.user \in DOMAIN s.users
    BY <1>12 DEF Compatible, Grants, UserNamed, Returns
  <2>4. QED
    BY <1>12, <2>2, <2>3 DEF Declines
<1>13. CASE call \in Listings
  BY <1>13 DEF Declines
<1>14. QED
  BY <1>1, <1>2, <1>3, <1>4, <1>5, <1>6, <1>7, <1>8, <1>9, <1>10, <1>11, <1>12, <1>13,
     CallNames DEF Listings

-----------------------------------------------------------------------------
(***************************************************************************)
(* The inductive invariant.  What a thread calls is one of the two calls   *)
(* of its request; what it has written depends on where it is; the rows    *)
(* of the server have integrity, and a message is about to be added only   *)
(* to the chat of its account, or to one that is gone; and what was held   *)
(* all along was found.                                                    *)
(***************************************************************************)
FrameInv ==
  /\ backend \in {"supabase", "mysql", "sqlite"}
  /\ backend = "sqlite" => ~fallback
  /\ pc \in [Threads -> Labels]
  /\ op \in [Threads -> Calls]
  /\ wrote \in [Threads -> [server : Nat, local : Nat]]
  /\ DOMAIN req = Threads /\ Function(req)
  /\ DOMAIN answer = Threads /\ Function(answer)
  /\ \A t \in Threads : req[t].kind \in Kinds

CallInv(t) ==
  /\ pc[t] = "idle" => op[t] = "health_check"
  /\ pc[t] # "idle" =>
       \/ op[t] = FirstCall[req[t].kind]
       \/ req[t].kind \in DOMAIN SecondCall /\ op[t] = SecondCall[req[t].kind]

WriteInv(t) ==
  /\ op[t] \in Reads => wrote[t] = NoWrites
  /\ pc[t] \in {"pool", "borrow", "server", "close", "forget"} => wrote[t] = NoWrites
  /\ wrote[t].server <= 1 /\ wrote[t].local <= 1
  /\ pc[t] \in {"pool", "borrow", "server", "recover", "close", "forget"} => Server
  /\ pc[t] \in {"recover", "local"} => wrote[t].local = 0
  /\ Server /\ ~fallback => wrote[t].local = 0
  /\ pc[t] = "local" => ~Server \/ fallback

\* The chat of the request was its account's, and is, if it is there.
Own(t) == req[t].chat \in 1..server.used.chats /\ Checked(server, req[t])

CheckedInv(t) ==
  /\ op[t] = "add_message" => Own(t)
  /\ req[t].kind = "save" /\ pc[t] = "answered" /\ answer[t] # {} => Own(t)

RowsInv ==
  Server /\ ~fallback => Integrity(server) /\ \A t \in Threads : CheckedInv(t)

HeldInv(t) ==
  /\ pc[t] # "idle" /\ held[t] => Holds(t)
  /\ pc[t] = "answered" /\ held[t] /\ ~fallback => ~Refused(t)

IInv ==
  /\ FrameInv /\ NoDeadPool /\ RowsInv
  /\ \A t \in Threads : CallInv(t) /\ WriteInv(t) /\ HeldInv(t)

LEMMA CallsOf ==
  ASSUME NEW t \in Threads, req[t].kind \in Kinds, CallInv(t), pc[t] # "idle"
  PROVE  Compatible(op[t], req[t])
BY DEF CallInv, Compatible, Kinds, FirstCall, SecondCall

LEMMA SecondCalls ==
  /\ \A k \in Kinds : FirstCall[k] \in Calls
  /\ \A k \in DOMAIN SecondCall :
       k \in Kinds /\ SecondCall[k] \in Calls /\ FirstCall[k] \in Reads
       /\ (SecondCall[k] = "add_message" => k = "save")
  /\ FirstCall["save"] = "chat_belongs_to_user"
  /\ \A k \in Kinds : FirstCall[k] # "add_message"
<1>1. DOMAIN FirstCall = Kinds
  BY DEF FirstCall, Kinds
<1>2. DOMAIN SecondCall = {"rename", "delete_account", "read", "save", "usage_stats"}
  BY DEF SecondCall
<1>3. \A k \in DOMAIN SecondCall :
        k \in Kinds /\ FirstCall[k] \in Reads /\ (SecondCall[k] = "add_message" => k = "save")
  BY <1>2 DEF SecondCall, FirstCall, Kinds, Reads
<1>4. (\A k \in Kinds : FirstCall[k] \in Calls) /\ \A k \in DOMAIN SecondCall : SecondCall[k] \in Calls
  BY <1>1 DEF Calls
<1>5. FirstCall["save"] = "chat_belongs_to_user" /\ \A k \in Kinds : FirstCall[k] # "add_message"
  BY DEF FirstCall, Kinds
<1>6. QED
  BY <1>3, <1>4, <1>5

LEMMA HoldsGrants ==
  ASSUME NEW t \in Threads, Holds(t), req[t].kind \in Kinds
  PROVE  /\ Grants(Primary, req[t])
         /\ backend = "mysql" /\ req[t].kind = "update_prompt" =>
              Primary.prompts[req[t].prompt].text # req[t].text
<1> DEFINE r == req[t]
           s == Primary
<1>1. r.kind = "rename" => r.user \in DOMAIN s.users /\ r.name \notin Range(s.users)
  BY Zenon DEF Holds
<1>2. r.kind = "login" => r.right /\ r.name \in Range(s.users)
  BY Zenon DEF Holds
<1>3. r.kind = "change_password" => r.right /\ r.user \in DOMAIN s.users
  BY Zenon DEF Holds
<1>4. r.kind = "delete_account" => r.right /\ r.user \in UserNamed(s, r.name).answer
  BY Zenon DEF Holds
<1>5. r.kind = "read" \/ r.kind = "save" \/ r.kind = "delete_chat" \/ r.kind = "toggle_pin"
        => r.chat \in OwnedBy(s.chats, r.user)
  BY Zenon DEF Holds
<1>6. r.kind = "delete_prompt" => r.prompt \in OwnedBy(s.prompts, r.user)
  BY Zenon DEF Holds
<1>7. r.kind = "update_prompt" =>
        /\ r.prompt \in OwnedBy(s.prompts, r.user)
        /\ backend = "mysql" => s.prompts[r.prompt].text # r.text
  BY Zenon DEF Holds
<1> HIDE DEF r, s
<1>8. /\ Grants(s, r)
      /\ backend = "mysql" /\ r.kind = "update_prompt" => s.prompts[r.prompt].text # r.text
  BY <1>1, <1>2, <1>3, <1>4, <1>5, <1>6, <1>7 DEF Grants
<1>9. QED
  BY <1>8 DEF r, s

LEMMA RefusedDeclines ==
  ASSUME NEW t
  PROVE  Refused(t) <=> Declines(op[t], req[t], answer[t])
<1>0. "get_user_by_username" \notin Listings
  BY DEF Listings
<1>1. CASE op[t] \in Listings
  BY Zenon, <1>0, <1>1 DEF Refused, Declines
<1>2. CASE op[t] = "get_user_by_username"
  BY Zenon, <1>0, <1>2 DEF Refused, Declines
<1>3. CASE op[t] \notin Listings /\ op[t] # "get_user_by_username"
  BY Zenon, <1>3 DEF Refused, Declines
<1>4. QED
  BY <1>1, <1>2, <1>3

-----------------------------------------------------------------------------
(* Steps.  What a step of a thread does to its own locals, and to the pool *)
(* and the stores; those of the others it keeps.                           *)

Act(t) == Run(t) \/ Fail(t) \/ \E r : r.kind \in Kinds /\ Begin(t, r)

OnlyThread(t) ==
  /\ pc' = [pc EXCEPT ![t] = pc'[t]] /\ pc'[t] \in Labels
  /\ op' = [op EXCEPT ![t] = op'[t]] /\ op'[t] \in Calls
  /\ req' = [req EXCEPT ![t] = req'[t]] /\ req'[t].kind \in Kinds
  /\ answer' = [answer EXCEPT ![t] = answer'[t]]
  /\ wrote' = [wrote EXCEPT ![t] = wrote'[t]] /\ wrote'[t] \in [server : Nat, local : Nat]
  /\ UNCHANGED config

\* A call is started ...
StartMove(t) ==
  /\ pc'[t] \in {"pool", "server", "local"}
  /\ pc'[t] = "local" => ~Server \/ fallback
  /\ pc'[t] \in {"pool", "server"} => Server
  /\ \/ pc[t] = "idle" /\ op'[t] = FirstCall[req'[t].kind]
     \/ /\ pc[t] = "answered" /\ ~Refused(t) /\ HasSecondCall(t)
        /\ req'[t] = req[t] /\ op'[t] = SecondCall[req[t].kind]
  /\ wrote'[t] = wrote[t]
  /\ UNCHANGED <<stores, pool>>

\* ... goes on without asking a store ...
GoMove(t) ==
  /\ <<pc[t], pc'[t]>> \in
       {<<"pool", "borrow">>, <<"borrow", "server">>, <<"borrow", "recover">>, <<"recover", "pool">>,
        <<"recover", "close">>, <<"recover", "raised">>, <<"recover", "local">>, <<"close", "raised">>,
        <<"close", "forget">>, <<"forget", "pool">>, <<"local", "raised">>}
  /\ pc[t] = "recover" /\ pc'[t] \in {"pool", "close"} => op[t] \in Reads
  /\ pc[t] = "recover" /\ pc'[t] = "local" => fallback
  /\ pool' = "closed" => (pool = "closed" /\ pc[t] # "forget") \/ pc'[t] = "forget"
  /\ op'[t] = op[t] /\ req'[t] = req[t] /\ wrote'[t] = wrote[t]
  /\ UNCHANGED stores

\* ... asks the server, in vain or not ...
ServerMove(t) ==
  /\ pc[t] = "server"
  /\ op'[t] = op[t] /\ req'[t] = req[t]
  /\ \/ /\ ~ServerCall(t).raises /\ pc'[t] = "answered"
        /\ server' = ServerCall(t).rows /\ answer'[t] = ServerCall(t).answer
     \/ /\ pc'[t] = "recover"
        /\ server' \in {server, ServerCall(t).rows}
  /\ wrote'[t].server \in {wrote[t].server, wrote[t].server + 1} /\ wrote'[t].local = wrote[t].local
  /\ op[t] \in Reads => wrote'[t] = wrote[t]
  /\ UNCHANGED <<local, pool>>

\* ... or SQLite.
LocalMove(t) ==
  /\ pc[t] = "local"
  /\ op'[t] = op[t] /\ req'[t] = req[t]
  /\ \/ ~Lite!Call(local, op[t], req[t]).raises /\ pc'[t] = "answered"
        /\ answer'[t] = Lite!Call(local, op[t], req[t]).answer
     \/ pc'[t] = "raised"
  /\ wrote'[t].local \in {wrote[t].local, wrote[t].local + 1} /\ wrote'[t].server = wrote[t].server
  /\ op[t] \in Reads => wrote'[t] = wrote[t]
  /\ UNCHANGED <<server, pool>>

ReplyMove(t) ==
  /\ pc[t] \notin {"idle", "close", "forget"}
  /\ pc'[t] = "idle" /\ op'[t] = "health_check" /\ wrote'[t] = NoWrites
  /\ UNCHANGED <<stores, pool>>

Moves(t) == StartMove(t) \/ GoMove(t) \/ ServerMove(t) \/ LocalMove(t) \/ ReplyMove(t)

LEMMA SameFunction ==
  ASSUME NEW f, NEW x
  PROVE  Function(f) => f = [f EXCEPT ![x] = f[x]]
BY DEF Function

LEMMA FrameIsFunctions ==
  ASSUME FrameInv
  PROVE  /\ Function(pc) /\ Function(op) /\ Function(req) /\ Function(answer) /\ Function(wrote)
         /\ DOMAIN pc = Threads /\ DOMAIN op = Threads /\ DOMAIN req = Threads
         /\ DOMAIN answer = Threads /\ DOMAIN wrote = Threads
BY DEF FrameInv, Function

LEMMA GoOn ==
  ASSUME FrameInv, NEW t \in Threads, NEW l \in Labels, Goto(t, l),
         UNCHANGED <<op, req, answer, wrote, config>>
  PROVE  OnlyThread(t) /\ pc'[t] = l
<1>1. pc' = [pc EXCEPT ![t] = l] /\ pc'[t] = l
  BY DEF Goto, FrameInv
<1>2. /\ op' = op /\ req' = req /\ answer' = answer /\ wrote' = wrote /\ UNCHANGED config
  OBVIOUS
<1>3. /\ op[t] \in Calls /\ req[t].kind \in Kinds /\ wrote[t] \in [server : Nat, local : Nat]
  BY DEF FrameInv
<1>4. /\ op = [op EXCEPT ![t] = op[t]] /\ req = [req EXCEPT ![t] = req[t]]
      /\ answer = [answer EXCEPT ![t] = answer[t]] /\ wrote = [wrote EXCEPT ![t] = wrote[t]]
  BY FrameIsFunctions, SameFunction
<1>5. QED
  BY <1>1, <1>2, <1>3, <1>4 DEF OnlyThread

LEMMA Replies ==
  ASSUME FrameInv, NEW t \in Threads, Reply(t), UNCHANGED config
  PROVE  /\ OnlyThread(t)
         /\ pc'[t] = "idle" /\ op'[t] = "health_check" /\ wrote'[t] = NoWrites
<1>1. /\ pc' = [pc EXCEPT ![t] = "idle"] /\ req' = [req EXCEPT ![t] = NoRequest]
      /\ op' = [op EXCEPT ![t] = "health_check"] /\ answer' = [answer EXCEPT ![t] = {}]
      /\ wrote' = [wrote EXCEPT ![t] = NoWrites]
  BY DEF Reply, Goto
<1>2. /\ pc'[t] = "idle" /\ req'[t] = NoRequest /\ op'[t] = "health_check" /\ answer'[t] = {}
      /\ wrote'[t] = NoWrites
  BY <1>1, FrameIsFunctions
<1>3. /\ NoRequest.kind \in Kinds /\ "health_check" \in Calls /\ "idle" \in Labels
      /\ NoWrites \in [server : Nat, local : Nat]
  BY CallNames DEF NoRequest, Kinds, Labels, NoWrites
<1>4. QED
  BY <1>1, <1>2, <1>3 DEF OnlyThread

LEMMA Starts ==
  ASSUME FrameInv, NEW t \in Threads, NEW call \in Calls, Start(t, call),
         NEW r, req' = [req EXCEPT ![t] = r], r.kind \in Kinds, UNCHANGED <<config, wrote>>
  PROVE  /\ OnlyThread(t)
         /\ op'[t] = call /\ req'[t] = r /\ wrote'[t] = wrote[t]
         /\ pc'[t] \in {"pool", "server", "local"}
         /\ pc'[t] = "local" => ~Server \/ fallback
         /\ pc'[t] \in {"pool", "server"} => Server
<1> DEFINE l == CASE backend = "mysql" -> "server"
                  [] backend = "supabase" /\ ~(fallback /\ CircuitIsOpen) -> "pool"
                  [] OTHER -> "local"
<1>1. /\ pc' = [pc EXCEPT ![t] = l] /\ op' = [op EXCEPT ![t] = call]
      /\ answer' = [answer EXCEPT ![t] = {}]
  BY Zenon DEF Start, Goto
<1>2. backend = "mysql" => l = "server"
  BY Zenon
<1>3. backend = "supabase" /\ ~(fallback /\ CircuitIsOpen) => l = "pool"
  BY Zenon
<1>4. backend = "supabase" /\ fallback /\ CircuitIsOpen => l = "local"
  BY Zenon
<1>5. backend = "sqlite" => l = "local"
  BY Zenon
<1> HIDE DEF l
<1>6. l \in {"pool", "server", "local"} /\ l \in Labels
  BY <1>2, <1>3, <1>4, <1>5 DEF FrameInv, Labels
<1>7. (l = "local" => ~Server \/ fallback) /\ (l \in {"pool", "server"} => Server)
  BY <1>2, <1>3, <1>4, <1>5 DEF FrameInv, Server
<1>8. /\ pc'[t] = l /\ op'[t] = call /\ answer'[t] = {} /\ req'[t] = r /\ wrote'[t] = wrote[t]
      /\ wrote[t] \in [server : Nat, local : Nat]
  BY <1>1, FrameIsFunctions DEF FrameInv
<1>9. wrote' = [wrote EXCEPT ![t] = wrote[t]]
  BY FrameIsFunctions, SameFunction
<1>10. OnlyThread(t)
  BY <1>1, <1>6, <1>8, <1>9 DEF OnlyThread
<1>11. QED
  BY <1>6, <1>7, <1>8, <1>10

LEMMA OneWrite ==
  ASSUME FrameInv, NEW t \in Threads, NEW store \in {"server", "local"}, NEW result,
         Wrote(t, store, result)
  PROVE  /\ wrote' = [wrote EXCEPT ![t] = wrote'[t]]
         /\ wrote'[t] \in [server : Nat, local : Nat]
         /\ \A s \in {"server", "local"} \ {store} : wrote'[t][s] = wrote[t][s]
         /\ wrote'[t][store] \in {wrote[t][store], wrote[t][store] + 1}
         /\ op[t] \in Reads => wrote'[t] = wrote[t]
<1> DEFINE w == wrote[t]
           more == [w EXCEPT ![store] = w[store] + 1]
<1>1. Function(wrote) /\ DOMAIN wrote = Threads /\ w \in [server : Nat, local : Nat]
  BY FrameIsFunctions DEF FrameInv
<1>2. more \in [server : Nat, local : Nat]
  BY <1>1
<1>3. /\ \A s \in {"server", "local"} \ {store} : more[s] = w[s]
      /\ more[store] = w[store] + 1
  BY <1>1
<1>4. CASE op[t] \in Writes /\ result.answer # {}
  <2>1. wrote' = [wrote EXCEPT ![t] = more]
    BY <1>4 DEF Wrote
  <2> HIDE DEF more
  <2>2. wrote'[t] = more
    BY <2>1, <1>1
  <2>3. op[t] \notin Reads
    BY <1>4 DEF Writes
  <2>4. QED
    BY <2>1, <2>2, <2>3, <1>2, <1>3
<1>5. CASE ~(op[t] \in Writes /\ result.answer # {})
  <2>1. wrote' = wrote
    BY <1>5 DEF Wrote
  <2>2. wrote = [wrote EXCEPT ![t] = wrote[t]]
    BY <1>1, SameFunction
  <2>3. QED
    BY <2>1, <2>2, <1>1
<1>6. QED
  BY <1>4, <1>5

LEMMA Calling ==
  ASSUME FrameInv, NEW t \in Threads, NEW l \in Labels, Goto(t, l), NEW a,
         UNCHANGED <<op, req, config>>, answer' = [answer EXCEPT ![t] = a],
         wrote' = [wrote EXCEPT ![t] = wrote'[t]], wrote'[t] \in [server : Nat, local : Nat]
  PROVE  OnlyThread(t) /\ pc'[t] = l /\ answer'[t] = a
<1>1. pc' = [pc EXCEPT ![t] = l] /\ pc'[t] = l
  BY DEF Goto, FrameInv
<1>2. /\ op' = op /\ req' = req /\ answer' = [answer EXCEPT ![t] = a] /\ UNCHANGED config
  OBVIOUS
<1>3. /\ op[t] \in Calls /\ req[t].kind \in Kinds
  BY DEF FrameInv
<1>4. /\ op = [op EXCEPT ![t] = op[t]] /\ req = [req EXCEPT ![t] = req[t]] /\ answer'[t] = a
  BY FrameIsFunctions, SameFunction
<1>5. QED
  BY <1>1, <1>2, <1>3, <1>4 DEF OnlyThread

LEMMA Bookkeeping ==
  ASSUME FrameInv, NEW t \in Threads,
         GetPool(t) \/ Borrow(t) \/ Retry(t) \/ ClosePool(t) \/ ForgetPool(t) \/ LocalFault(t)
  PROVE  OnlyThread(t) /\ GoMove(t)
<1> USE DEF Labels, config, stores
<1>1. CASE GetPool(t)
  <2>1. Goto(t, "borrow") /\ UNCHANGED <<op, req, answer, wrote, config>>
    BY <1>1 DEF GetPool
  <2>2. OnlyThread(t) /\ pc'[t] = "borrow"
    BY <2>1, GoOn
  <2>3. QED
    BY <1>1, <2>2 DEF GetPool, GoMove
<1>2. CASE Borrow(t)
  <2>1. PICK l \in {"server", "recover"} : Goto(t, l)
    BY <1>2 DEF Borrow
  <2>2. UNCHANGED <<op, req, answer, wrote, config>>
    BY <1>2 DEF Borrow
  <2>3. OnlyThread(t) /\ pc'[t] = l
    BY <2>1, <2>2, GoOn
  <2>4. QED
    BY <1>2, <2>3 DEF Borrow, GoMove
<1>3. CASE Retry(t)
  <2>1. PICK l \in {"pool", "close"} : Goto(t, l)
    BY <1>3 DEF Retry
  <2>2. UNCHANGED <<op, req, answer, wrote, config>>
    BY <1>3 DEF Retry
  <2>3. OnlyThread(t) /\ pc'[t] = l
    BY <2>1, <2>2, GoOn
  <2>4. op[t] \in Reads
    BY <1>3 DEF Retry, MayRetry, _postgres_retry_allowed, Reads
  <2>5. QED
    BY <1>3, <2>3, <2>4 DEF Retry, GoMove
<1>4. CASE ClosePool(t)
  <2>1. PICK l \in {"raised", "forget"} : Goto(t, l) /\ (pool' = pool \/ l = "forget")
    BY <1>4 DEF ClosePool
  <2>2. UNCHANGED <<op, req, answer, wrote, config>>
    BY <1>4 DEF ClosePool
  <2>3. OnlyThread(t) /\ pc'[t] = l
    BY <2>1, <2>2, GoOn
  <2>4. QED
    BY <1>4, <2>1, <2>3 DEF ClosePool, GoMove
<1>5. CASE ForgetPool(t)
  <2>1. Goto(t, "pool") /\ UNCHANGED <<op, req, answer, wrote, config>>
    BY <1>5 DEF ForgetPool
  <2>2. OnlyThread(t) /\ pc'[t] = "pool"
    BY <2>1, GoOn
  <2>3. QED
    BY <1>5, <2>2 DEF ForgetPool, GoMove
<1>6. CASE LocalFault(t)
  <2>1. Goto(t, "raised") /\ UNCHANGED <<op, req, answer, wrote, config>>
    BY <1>6 DEF LocalFault
  <2>2. OnlyThread(t) /\ pc'[t] = "raised"
    BY <2>1, GoOn
  <2>3. QED
    BY <1>6, <2>2 DEF LocalFault, GoMove
<1>7. QED
  BY <1>1, <1>2, <1>3, <1>4, <1>5, <1>6

LEMMA Endings ==
  ASSUME FrameInv, NEW t \in Threads,
         GiveUp(t) \/ FallBack(t) \/ LocalStatus(t) \/ Refuse(t) \/ Succeed(t) \/ Raise(t)
  PROVE  OnlyThread(t) /\ (ReplyMove(t) \/ GoMove(t))
<1> USE DEF config, stores
<1>1. UNCHANGED config /\ UNCHANGED <<stores, pool>>
  BY DEF GiveUp, FallBack, LocalStatus, Refuse, Succeed, Raise
<1>2. pc[t] \in {"recover", "local", "answered", "raised"}
  BY DEF GiveUp, FallBack, LocalStatus, Refuse, Succeed, Raise
<1>3. CASE Reply(t)
  <2>1. OnlyThread(t) /\ pc'[t] = "idle" /\ op'[t] = "health_check" /\ wrote'[t] = NoWrites
    BY <1>1, <1>3, Replies
  <2>2. QED
    BY <1>1, <1>2, <2>1 DEF ReplyMove
<1>4. CASE ~Reply(t)
  <2>1. PICK l \in {"raised", "local"} : Goto(t, l) /\ (l = "local" => fallback)
    BY <1>4 DEF GiveUp, FallBack, LocalStatus, Refuse, Succeed, Raise
  <2>2. UNCHANGED <<op, req, answer, wrote>> /\ pc[t] = "recover"
    BY <1>4 DEF GiveUp, FallBack, LocalStatus, Refuse, Succeed, Raise
  <2>3. OnlyThread(t) /\ pc'[t] = l
    BY <1>1, <2>1, <2>2, GoOn DEF Labels
  <2>4. QED
    BY <1>1, <2>1, <2>2, <2>3 DEF GoMove
<1>5. QED
  BY <1>3, <1>4

LEMMA ServerActs ==
  ASSUME FrameInv, NEW t \in Threads, Execute(t) \/ \E e, committed : Fault(t, e, committed)
  PROVE  OnlyThread(t) /\ ServerMove(t)
<1> DEFINE result == ServerCall(t)
<1>1. /\ pc[t] = "server" /\ UNCHANGED <<op, req, config, local, pool>>
  BY DEF Execute, Fault, config
<1>2. op'[t] = op[t] /\ req'[t] = req[t]
  BY <1>1
<1>3. CASE Execute(t)
  <2>1. /\ server' = result.rows /\ answer' = [answer EXCEPT ![t] = result.answer]
        /\ Wrote(t, "server", result)
        /\ Goto(t, IF result.raises THEN "recover" ELSE "answered")
    BY <1>3 DEF Execute
  <2> HIDE DEF result
  <2>2. PICK l \in Labels : Goto(t, l) /\ (IF result.raises THEN l = "recover" ELSE l = "answered")
    BY <2>1 DEF Labels
  <2>3. /\ wrote' = [wrote EXCEPT ![t] = wrote'[t]]
        /\ wrote'[t] \in [server : Nat, local : Nat]
        /\ wrote'[t].server \in {wrote[t].server, wrote[t].server + 1} /\ wrote'[t].local = wrote[t].local
        /\ op[t] \in Reads => wrote'[t] = wrote[t]
    BY <2>1, OneWrite
  <2>4. OnlyThread(t) /\ pc'[t] = l /\ answer'[t] = result.answer
    BY <1>1, <2>1, <2>2, <2>3, Calling
  <2>5. QED
    BY <1>1, <1>2, <2>1, <2>2, <2>3, <2>4 DEF ServerMove, result
<1>4. CASE \E e, committed : Fault(t, e, committed)
  <2>1. /\ Goto(t, "recover") /\ answer' = answer
        /\ \/ server' = result.rows /\ Wrote(t, "server", result)
           \/ UNCHANGED <<server, wrote>>
    BY <1>4 DEF Fault
  <2> HIDE DEF result
  <2>2. answer' = [answer EXCEPT ![t] = answer[t]]
    BY <2>1, FrameIsFunctions, SameFunction
  <2>3. /\ wrote' = [wrote EXCEPT ![t] = wrote'[t]]
        /\ wrote'[t] \in [server : Nat, local : Nat]
        /\ wrote'[t].server \in {wrote[t].server, wrote[t].server + 1} /\ wrote'[t].local = wrote[t].local
        /\ op[t] \in Reads => wrote'[t] = wrote[t]
    <3>1. CASE Wrote(t, "server", result)
      BY <3>1, OneWrite
    <3>2. CASE wrote' = wrote
      <4>1. wrote = [wrote EXCEPT ![t] = wrote[t]]
        BY FrameIsFunctions, SameFunction
      <4>2. QED
        BY <3>2, <4>1 DEF FrameInv
    <3>3. QED
      BY <2>1, <3>1, <3>2
  <2>4. OnlyThread(t) /\ pc'[t] = "recover"
    BY <1>1, <2>1, <2>2, <2>3, Calling DEF Labels
  <2>5. QED
    BY <1>1, <1>2, <2>1, <2>3, <2>4 DEF ServerMove, result
<1>5. QED
  BY <1>3, <1>4

LEMMA LocalActs ==
  ASSUME FrameInv, NEW t \in Threads, Local(t)
  PROVE  OnlyThread(t) /\ LocalMove(t)
<1> DEFINE result == Lite!Call(local, op[t], req[t])
<1>1. /\ pc[t] = "local" /\ UNCHANGED <<op, req, config, server, pool>>
  BY DEF Local, config
<1>2. op'[t] = op[t] /\ req'[t] = req[t]
  BY <1>1
<1>3. /\ answer' = [answer EXCEPT ![t] = result.answer]
      /\ Wrote(t, "local", result)
      /\ Goto(t, IF result.raises THEN "raised" ELSE "answered")
  BY DEF Local
<1> HIDE DEF result
<1>4. PICK l \in Labels : Goto(t, l) /\ (IF result.raises THEN l = "raised" ELSE l = "answered")
  BY <1>3 DEF Labels
<1>5. /\ wrote' = [wrote EXCEPT ![t] = wrote'[t]]
      /\ wrote'[t] \in [server : Nat, local : Nat]
      /\ wrote'[t].local \in {wrote[t].local, wrote[t].local + 1} /\ wrote'[t].server = wrote[t].server
      /\ op[t] \in Reads => wrote'[t] = wrote[t]
  BY <1>3, OneWrite
<1>6. OnlyThread(t) /\ pc'[t] = l /\ answer'[t] = result.answer
  BY <1>1, <1>3, <1>4, <1>5, Calling
<1>7. QED
  BY <1>1, <1>2, <1>4, <1>5, <1>6 DEF LocalMove, result

LEMMA Starting ==
  ASSUME FrameInv, NEW t \in Threads, Second(t) \/ \E r : r.kind \in Kinds /\ Begin(t, r)
  PROVE  OnlyThread(t) /\ StartMove(t)
<1>1. UNCHANGED <<config, wrote, stores, pool>>
  BY DEF Second, Begin, config, stores
<1>2. CASE Second(t)
  <2>1. /\ pc[t] = "answered" /\ ~Refused(t) /\ HasSecondCall(t)
        /\ Start(t, SecondCall[req[t].kind]) /\ req' = req
    BY <1>2 DEF Second
  <2>2. SecondCall[req[t].kind] \in Calls /\ req[t].kind \in Kinds
    BY <2>1, SecondCalls DEF HasSecondCall
  <2>3. req' = [req EXCEPT ![t] = req[t]]
    BY <2>1, FrameIsFunctions, SameFunction
  <2>4. /\ OnlyThread(t)
        /\ op'[t] = SecondCall[req[t].kind] /\ req'[t] = req[t] /\ wrote'[t] = wrote[t]
        /\ pc'[t] \in {"pool", "server", "local"}
        /\ pc'[t] = "local" => ~Server \/ fallback
        /\ pc'[t] \in {"pool", "server"} => Server
    BY <1>1, <2>1, <2>2, <2>3, Starts
  <2>5. QED
    BY <1>1, <2>1, <2>4 DEF StartMove
<1>3. CASE \E r : r.kind \in Kinds /\ Begin(t, r)
  <2>1. PICK r : r.kind \in Kinds /\ Begin(t, r)
    BY <1>3
  <2>2. /\ pc[t] = "idle" /\ Start(t, FirstCall[r.kind]) /\ req' = [req EXCEPT ![t] = r]
    BY <2>1 DEF Begin
  <2>3. FirstCall[r.kind] \in Calls
    BY <2>1, SecondCalls
  <2>4. /\ OnlyThread(t)
        /\ op'[t] = FirstCall[r.kind] /\ req'[t] = r /\ wrote'[t] = wrote[t]
        /\ pc'[t] \in {"pool", "server", "local"}
        /\ pc'[t] = "local" => ~Server \/ fallback
        /\ pc'[t] \in {"pool", "server"} => Server
    BY <1>1, <2>1, <2>2, <2>3, Starts
  <2>5. QED
    BY <1>1, <2>2, <2>4 DEF StartMove
<1>4. QED
  BY <1>2, <1>3

LEMMA ActMoves ==
  ASSUME FrameInv, NEW t \in Threads, Act(t)
  PROVE  OnlyThread(t) /\ Moves(t)
<1>1. CASE Run(t)
  <2>1. \/ GetPool(t) \/ Borrow(t) \/ Retry(t) \/ ClosePool(t) \/ ForgetPool(t)
        \/ GiveUp(t) \/ FallBack(t) \/ LocalStatus(t) \/ Refuse(t) \/ Succeed(t) \/ Raise(t)
        \/ Execute(t) \/ Local(t) \/ Second(t)
    BY Zenon, <1>1 DEF Run
  <2>2. QED
    BY <2>1, Bookkeeping, Endings, ServerActs, LocalActs, Starting DEF Moves
<1>2. CASE Fail(t)
  <2>1. (\E e, committed : Fault(t, e, committed)) \/ LocalFault(t)
    BY Zenon, <1>2 DEF Fail
  <2>2. QED
    BY <2>1, Bookkeeping, ServerActs DEF Moves
<1>3. CASE \E r : r.kind \in Kinds /\ Begin(t, r)
  BY <1>3, Starting DEF Moves
<1>4. QED
  BY <1>1, <1>2, <1>3 DEF Act

LEMMA Others ==
  ASSUME FrameInv, NEW t \in Threads, OnlyThread(t)
  PROVE  /\ FrameInv'
         /\ \A u \in Threads \ {t} :
              /\ pc'[u] = pc[u] /\ op'[u] = op[u] /\ req'[u] = req[u]
              /\ answer'[u] = answer[u] /\ wrote'[u] = wrote[u]
<1>1. /\ pc' = [pc EXCEPT ![t] = pc'[t]] /\ pc'[t] \in Labels
      /\ op' = [op EXCEPT ![t] = op'[t]] /\ op'[t] \in Calls
      /\ req' = [req EXCEPT ![t] = req'[t]] /\ req'[t].kind \in Kinds
      /\ answer' = [answer EXCEPT ![t] = answer'[t]]
      /\ wrote' = [wrote EXCEPT ![t] = wrote'[t]] /\ wrote'[t] \in [server : Nat, local : Nat]
      /\ UNCHANGED config
  BY DEF OnlyThread
<1>2. \A u \in Threads \ {t} :
        /\ pc'[u] = pc[u] /\ op'[u] = op[u] /\ req'[u] = req[u]
        /\ answer'[u] = answer[u] /\ wrote'[u] = wrote[u]
  BY <1>1, FrameIsFunctions
<1>3. /\ pc' \in [Threads -> Labels] /\ op' \in [Threads -> Calls]
      /\ wrote' \in [Threads -> [server : Nat, local : Nat]]
  BY <1>1 DEF FrameInv
<1>4. DOMAIN req' = Threads /\ Function(req') /\ DOMAIN answer' = Threads /\ Function(answer')
  BY <1>1, FrameIsFunctions DEF Function
<1>5. \A u \in Threads : req'[u].kind \in Kinds
  BY <1>1, <1>2 DEF FrameInv
<1>6. FrameInv'
  BY <1>1, <1>3, <1>4, <1>5 DEF FrameInv, config
<1>7. QED
  BY <1>2, <1>6

LEMMA CallStep ==
  ASSUME FrameInv, NEW t \in Threads, OnlyThread(t), Moves(t), \A u \in Threads : CallInv(u)
  PROVE  \A u \in Threads : CallInv(u)'
<1>1. \A u \in Threads \ {t} : CallInv(u)'
  BY Others DEF CallInv
<1>2. CASE StartMove(t)
  BY <1>1, <1>2 DEF StartMove, CallInv, HasSecondCall
<1>3. CASE GoMove(t)
  BY <1>1, <1>3 DEF GoMove, CallInv
<1>4. CASE ServerMove(t)
  BY <1>1, <1>4 DEF ServerMove, CallInv
<1>5. CASE LocalMove(t)
  BY <1>1, <1>5 DEF LocalMove, CallInv
<1>6. CASE ReplyMove(t)
  BY <1>1, <1>6 DEF ReplyMove, CallInv
<1>7. QED
  BY <1>2, <1>3, <1>4, <1>5, <1>6 DEF Moves

LEMMA PoolStep ==
  ASSUME FrameInv, NEW t \in Threads, OnlyThread(t), Moves(t), NoDeadPool
  PROVE  NoDeadPool'
<1> SUFFICES ASSUME pool' = "closed" PROVE \E u \in Threads : pc'[u] = "forget"
  BY DEF NoDeadPool
<1>1. (pool = "closed" /\ pc[t] # "forget") \/ pc'[t] = "forget"
  BY DEF Moves, StartMove, GoMove, ServerMove, LocalMove, ReplyMove
<1>2. QED
  BY <1>1, Others DEF NoDeadPool

LEMMA WriteStep ==
  ASSUME FrameInv, NEW t \in Threads, OnlyThread(t), Moves(t),
         \A u \in Threads : CallInv(u) /\ WriteInv(u)
  PROVE  \A u \in Threads : WriteInv(u)'
<1>0. Server' = Server /\ fallback' = fallback
  BY DEF OnlyThread, config, Server
<1>1. \A u \in Threads \ {t} : WriteInv(u)'
  BY <1>0, Others DEF WriteInv
<1>n. NoWrites.server = 0 /\ NoWrites.local = 0 /\ "health_check" \in Reads
  BY DEF NoWrites, Reads
<1>w. wrote[t] \in [server : Nat, local : Nat]
  BY DEF FrameInv
<1>2. CASE StartMove(t)
  <2>1. op[t] \in Reads
    <3>1. CASE pc[t] = "idle"
      BY <1>n, <3>1 DEF CallInv
    <3>2. CASE pc[t] # "idle"
      BY <1>2, <3>2, SecondCalls DEF StartMove, HasSecondCall
    <3>3. QED
      BY <3>1, <3>2
  <2>2. wrote'[t] = NoWrites
    BY <1>2, <2>1 DEF StartMove, WriteInv
  <2>3. QED
    BY <1>0, <1>1, <1>2, <1>n, <2>2 DEF StartMove, WriteInv
<1>3. CASE GoMove(t)
  <2>1. wrote'[t] = wrote[t] /\ op'[t] = op[t]
    BY <1>3 DEF GoMove
  <2>2. pc'[t] \in {"pool", "borrow", "server", "close", "forget"} => wrote[t] = NoWrites
    BY <1>3 DEF GoMove, WriteInv
  <2>3. pc'[t] \in {"pool", "borrow", "server", "recover", "close", "forget"} => Server
    BY <1>3 DEF GoMove, WriteInv
  <2>4. pc'[t] \in {"recover", "local"} => wrote[t].local = 0
    BY <1>3, <1>n DEF GoMove, WriteInv
  <2>5. pc'[t] = "local" => ~Server \/ fallback
    BY <1>3 DEF GoMove, WriteInv
  <2>6. WriteInv(t)'
    BY <1>0, <2>1, <2>2, <2>3, <2>4, <2>5 DEF WriteInv
  <2>7. QED
    BY <1>1, <2>6
<1>4. CASE ServerMove(t)
  <2>1. wrote[t].server = 0 /\ wrote[t].local = 0 /\ Server
    BY <1>4, <1>n DEF ServerMove, WriteInv
  <2>2. wrote'[t].server \in {0, 1} /\ wrote'[t].local = 0 /\ pc'[t] \in {"answered", "recover"}
    BY <1>4, <2>1 DEF ServerMove
  <2>3. op'[t] \in Reads => wrote'[t] = NoWrites
    BY <1>4 DEF ServerMove, WriteInv
  <2>4. WriteInv(t)'
    BY <1>0, <2>1, <2>2, <2>3 DEF WriteInv
  <2>5. QED
    BY <1>1, <2>4
<1>5. CASE LocalMove(t)
  <2>1. wrote[t].local = 0 /\ wrote[t].server <= 1 /\ (~Server \/ fallback)
    BY <1>5 DEF LocalMove, WriteInv
  <2>2. wrote'[t].local \in {0, 1} /\ wrote'[t].server = wrote[t].server /\ pc'[t] \in {"answered", "raised"}
    BY <1>5, <2>1 DEF LocalMove
  <2>3. op'[t] \in Reads => wrote'[t] = NoWrites
    BY <1>5 DEF LocalMove, WriteInv
  <2>4. WriteInv(t)'
    BY <1>0, <2>1, <2>2, <2>3 DEF WriteInv
  <2>5. QED
    BY <1>1, <2>4
<1>6. CASE ReplyMove(t)
  BY <1>0, <1>1, <1>6, <1>n DEF ReplyMove, WriteInv
<1>7. QED
  BY <1>2, <1>3, <1>4, <1>5, <1>6 DEF Moves

LEMMA ServerRows ==
  ASSUME FrameInv, NEW t \in Threads, Integrity(server), op[t] = "add_message" => Checked(server, req[t])
  PROVE  /\ Follows(server, ServerCall(t).rows)
         /\ op[t] = "chat_belongs_to_user" =>
              ServerCall(t).answer = OwnedBy(server.chats, req[t].user) \intersect {req[t].chat}
<1> DEFINE r == req[t]
           c == op[t]
<1>1. c \in Calls
  BY DEF FrameInv
<1> HIDE DEF r, c
<1>a. c = "add_message" => Checked(server, r)
  BY DEF r, c
<1>2. Follows(server, PG!Call(server, c, r).rows) /\ Follows(server, My!Call(server, c, r).rows)
  BY <1>1, <1>a, PGRows, MyRows
<1>3. ASSUME c = "chat_belongs_to_user"
      PROVE  /\ PG!Call(server, c, r).answer = OwnedBy(server.chats, r.user) \intersect {r.chat}
             /\ My!Call(server, c, r).answer = OwnedBy(server.chats, r.user) \intersect {r.chat}
  <2>1. PG!Call(server, c, r) = PG!chat_belongs_to_user(server, r)
    BY Zenon, <1>3 DEF PG!Call
  <2>2. My!Call(server, c, r) = My!chat_belongs_to_user(server, r)
    BY Zenon, <1>3 DEF My!Call
  <2>3. QED
    BY <2>1, <2>2, PGTables, MyTables
       DEF PG!chat_belongs_to_user, PG!OwnChat, My!chat_belongs_to_user, My!OwnChat, Returns
<1>4. ServerCall(t) = IF backend = "mysql" THEN My!Call(server, c, r) ELSE PG!Call(server, c, r)
  BY DEF ServerCall, c, r
<1>5. QED
  BY <1>2, <1>3, <1>4 DEF c, r

LEMMA OwnStays ==
  ASSUME NEW u, Own(u), OwnersKeep(server, server'), req'[u] = req[u], server.used.chats \in Nat
  PROVE  Own(u)'
<1>1. req[u].chat \in 1..server.used.chats /\ Checked(server, req[u])
  BY DEF Own
<1>2. req[u].chat \in 1..server'.used.chats
  BY <1>1 DEF OwnersKeep
<1>3. Checked(server', req[u])
  BY <1>1 DEF OwnersKeep, Checked
<1>4. QED
  BY <1>2, <1>3 DEF Own, Checked

LEMMA RowsStep ==
  ASSUME FrameInv, NEW t \in Threads, OnlyThread(t), Moves(t),
         \A u \in Threads : CallInv(u) /\ WriteInv(u), RowsInv
  PROVE  RowsInv'
<1>0. Server' = Server /\ fallback' = fallback
  BY DEF OnlyThread, config, Server
<1> SUFFICES ASSUME Server, ~fallback
             PROVE  Integrity(server') /\ \A u \in Threads : CheckedInv(u)'
  BY <1>0 DEF RowsInv
<1>1. Integrity(server) /\ \A u \in Threads : CheckedInv(u)
  BY DEF RowsInv
<1>2. \A u \in Threads : op[u] = "add_message" => Checked(server, req[u])
  BY <1>1 DEF CheckedInv, Own
<1>3. Follows(server, server')
  <2>1. CASE ServerMove(t)
    BY <1>1, <1>2, <2>1, ServerRows, NothingChanged DEF ServerMove
  <2>2. CASE ~ServerMove(t)
    <3>1. server' = server
      BY <2>2 DEF Moves, StartMove, GoMove, LocalMove, ReplyMove, stores
    <3>2. QED
      BY <1>1, <3>1, NothingChanged
  <2>3. QED
    BY <2>1, <2>2
<1>4. Integrity(server') /\ OwnersKeep(server, server') /\ server.used.chats \in Nat
  BY <1>1, <1>3 DEF Follows, Integrity, Shape
<1>5. \A u \in Threads : Own(u) /\ req'[u] = req[u] => Own(u)'
  BY <1>4, OwnStays
<1>6. \A u \in Threads \ {t} : CheckedInv(u)'
  BY <1>1, <1>5, Others DEF CheckedInv
<1>n. "health_check" # "add_message" /\ "chat_belongs_to_user" # "add_message"
  OBVIOUS
<1>7. CheckedInv(t)'
  <2>1. CASE StartMove(t)
    <3>1. pc'[t] # "answered"
      BY <2>1 DEF StartMove
    <3>2. ASSUME op'[t] = "add_message"
          PROVE  Own(t)'
      <4>1. req'[t].kind \in Kinds
        BY DEF OnlyThread
      <4>2. /\ pc[t] = "answered" /\ ~Refused(t) /\ HasSecondCall(t)
            /\ req'[t] = req[t] /\ SecondCall[req[t].kind] = "add_message"
        BY <2>1, <3>2, <4>1, SecondCalls DEF StartMove
      <4>3. req[t].kind = "save" /\ op[t] = "chat_belongs_to_user"
        BY <4>2, SecondCalls DEF HasSecondCall
      <4>4. ~Declines(op[t], req[t], answer[t])
        BY <4>2, RefusedDeclines
      <4>5. answer[t] # {}
        BY <4>3, <4>4 DEF Declines, Listings
      <4>6. Own(t)
        BY <1>1, <4>2, <4>3, <4>5 DEF CheckedInv
      <4>7. QED
        BY <1>5, <4>2, <4>6
    <3>3. QED
      BY <3>1, <3>2 DEF CheckedInv
  <2>2. CASE GoMove(t)
    <3>1. pc'[t] # "answered" /\ op'[t] = op[t] /\ req'[t] = req[t]
      BY <2>2 DEF GoMove
    <3>2. QED
      BY <1>1, <1>5, <3>1 DEF CheckedInv
  <2>3. CASE ServerMove(t)
    <3>1. op'[t] = op[t] /\ req'[t] = req[t]
      BY <2>3 DEF ServerMove
    <3>2. op[t] = "add_message" => Own(t)
      BY <1>1 DEF CheckedInv
    <3>3. ASSUME req[t].kind = "save", pc'[t] = "answered", answer'[t] # {}
          PROVE  Own(t)
      <4>1. pc[t] = "server" /\ answer'[t] = ServerCall(t).answer
        BY <2>3, <3>3 DEF ServerMove
      <4>2. op[t] = "chat_belongs_to_user" \/ op[t] = "add_message"
        BY <3>3, <4>1 DEF CallInv, FirstCall, SecondCall
      <4>3. CASE op[t] = "chat_belongs_to_user"
        <5>1. req[t].chat \in OwnedBy(server.chats, req[t].user)
          BY <1>1, <1>2, <3>3, <4>1, <4>3, ServerRows
        <5>2. req[t].chat \in DOMAIN server.chats /\ server.chats[req[t].chat].user = req[t].user
          BY <5>1 DEF OwnedBy
        <5>3. QED
          BY <1>1, <5>2 DEF Own, Checked, Integrity
      <4>4. QED
        BY <3>2, <4>2, <4>3
    <3>4. QED
      BY <1>5, <3>1, <3>2, <3>3 DEF CheckedInv
  <2>4. CASE LocalMove(t)
    BY <2>4 DEF LocalMove, WriteInv
  <2>5. CASE ReplyMove(t)
    BY <2>5, <1>n DEF ReplyMove, CheckedInv
  <2>6. QED
    BY <2>1, <2>2, <2>3, <2>4, <2>5 DEF Moves
<1>8. QED
  BY <1>4, <1>6, <1>7

LEMMA HeldStep ==
  ASSUME FrameInv, NEW t \in Threads, OnlyThread(t), Moves(t), Watch,
         \A u \in Threads : CallInv(u) /\ WriteInv(u) /\ HeldInv(u)
  PROVE  \A u \in Threads : HeldInv(u)'
<1>0. fallback' = fallback
  BY DEF OnlyThread, config
<1>w. \A u \in Threads :
        pc'[u] # "idle" /\ held'[u] => (held[u] \/ pc[u] = "idle") /\ Holds(u)'
  <2>1. \A u \in Threads :
          held'[u] = (pc'[u] = "idle" \/ ((held[u] \/ pc[u] = "idle") /\ Holds(u)'))
    BY Zenon DEF Watch
  <2>2. QED
    BY Zenon, <2>1
<1>r. \A u : Refused(u)' <=> Declines(op'[u], req'[u], answer'[u])
  <2> TAKE u
  <2>0. "get_user_by_username" \notin Listings
    BY DEF Listings
  <2>1. CASE op'[u] \in Listings
    BY Zenon, <2>0, <2>1 DEF Refused, Declines
  <2>2. CASE op'[u] = "get_user_by_username"
    BY Zenon, <2>0, <2>2 DEF Refused, Declines
  <2>3. CASE op'[u] \notin Listings /\ op'[u] # "get_user_by_username"
    BY Zenon, <2>3 DEF Refused, Declines
  <2>4. QED
    BY <2>1, <2>2, <2>3
<1>1. ASSUME NEW u \in Threads, u # t, pc'[u] = "answered", held'[u], ~fallback
      PROVE  ~Refused(u)'
  <2>1. pc[u] = "answered" /\ op'[u] = op[u] /\ req'[u] = req[u] /\ answer'[u] = answer[u]
    BY <1>1, Others
  <2>2. held[u]
    BY <1>1, <1>w, <2>1
  <2>3. ~Refused(u)
    BY <1>1, <2>1, <2>2 DEF HeldInv
  <2>4. QED
    BY <1>r, <2>1, <2>3, RefusedDeclines
<1>2. ASSUME pc'[t] = "answered", held'[t], ~fallback
      PROVE  ~Refused(t)'
  <2> DEFINE r == req[t]
             c == op[t]
  <2>1. ServerMove(t) \/ LocalMove(t)
    BY <1>2 DEF Moves, StartMove, GoMove, ReplyMove
  <2>2. pc[t] # "idle" /\ op'[t] = op[t] /\ req'[t] = req[t]
    BY <2>1 DEF ServerMove, LocalMove
  <2>3. held[t]
    BY <1>2, <1>w, <2>2
  <2>4. Holds(t)
    BY <2>2, <2>3 DEF HeldInv
  <2>5. req[t].kind \in Kinds /\ op[t] \in Calls
    BY DEF FrameInv
  <2>6. Compatible(c, r)
    BY <2>2, <2>5, CallsOf
  <2>7. /\ Grants(Primary, r)
        /\ backend = "mysql" /\ r.kind = "update_prompt" => Primary.prompts[r.prompt].text # r.text
    BY <2>4, <2>5, HoldsGrants
  <2> HIDE DEF r, c
  <2>8. CASE ServerMove(t)
    <3>1. ~ServerCall(t).raises /\ answer'[t] = ServerCall(t).answer /\ Server
      BY <1>2, <2>8 DEF ServerMove, WriteInv
    <3>2. Primary = server
      BY <3>1 DEF Primary, Server
    <3>3. ServerCall(t) = IF backend = "mysql" THEN My!Call(server, c, r) ELSE PG!Call(server, c, r)
      BY DEF ServerCall, c, r
    <3>4. c \in Calls
      BY <2>5 DEF c
    <3>5. ~Declines(c, r, ServerCall(t).answer)
      <4>1. CASE backend = "mysql"
        BY <2>6, <2>7, <3>1, <3>2, <3>3, <3>4, <4>1, MyAnswers
      <4>2. CASE backend # "mysql"
        BY <2>6, <2>7, <3>1, <3>2, <3>3, <3>4, <4>2, PGAnswers
      <4>3. QED
        BY <4>1, <4>2
    <3>6. QED
      BY <1>r, <2>2, <3>1, <3>5 DEF c, r
  <2>9. CASE LocalMove(t)
    <3>1. pc[t] = "local" /\ (pc'[t] = "answered" => ~Lite!Call(local, c, r).raises
            /\ answer'[t] = Lite!Call(local, c, r).answer)
      BY <2>9 DEF LocalMove, c, r
    <3>2. ~Server
      BY <1>2, <3>1 DEF WriteInv
    <3>3. Primary = local /\ c \in Calls
      BY <2>5, <3>2 DEF Primary, Server, c
    <3>4. ~Declines(c, r, Lite!Call(local, c, r).answer)
      BY <1>2, <2>6, <2>7, <3>1, <3>3, LiteAnswers
    <3>5. QED
      BY <1>2, <1>r, <2>2, <3>1, <3>4 DEF c, r
  <2>10. QED
    BY <2>1, <2>8, <2>9
<1>3. QED
  <2> TAKE u \in Threads
  <2>1. pc'[u] # "idle" /\ held'[u] => Holds(u)'
    BY <1>w
  <2>2. pc'[u] = "answered" /\ held'[u] /\ ~fallback' => ~Refused(u)'
    BY <1>0, <1>1, <1>2
  <2>3. QED
    BY Zenon, <2>1, <2>2 DEF HeldInv

-----------------------------------------------------------------------------

LEMMA Steps ==
  ASSUME Step
  PROVE  \/ \E t \in Threads : Act(t)
         \/ UNCHANGED <<config, stores, pool, frame, wrote>>
<1>n. /\ {"kind", "name", "right", "user", "chat", "prompt", "text"} \subseteq DOMAIN NoRequest
  BY DEF NoRequest
<1>d. \A u, n : {"kind", "name", "right", "chat", "prompt", "text"} \subseteq DOMAIN From(u, n)
  BY <1>n DEF From
<1>k. ASSUME NEW r, {"kind", "name", "right", "chat", "prompt", "text"} \subseteq DOMAIN r, NEW kind
      PROVE  /\ Asking(r, kind).kind = kind
             /\ \A n : Naming(r, kind, n).kind = kind
             /\ \A q \in Guesses(Asking(r, kind)) : q.kind = kind
             /\ \A n : \A q \in Guesses(Naming(r, kind, n)) : q.kind = kind
             /\ \A c : OnChat(r, kind, c).kind = kind
             /\ \A p, x : OnPrompt(r, kind, p, x).kind = kind
  BY <1>k DEF Asking, Naming, OnChat, OnPrompt, Guesses
<1>1. ASSUME NEW r \in WebRequests
      PROVE  r.kind \in Kinds
  <2>1. CASE session.user = NoUser
    <3> DEFINE L == {Guesses(Naming(NoRequest, "login", n)) : n \in Names}
    <3>1. \/ \E n \in Names : r = Naming(NoRequest, "register", n)
          \/ r \in UNION L
      BY <1>1, <2>1 DEF WebRequests
    <3>2. r \in UNION L => \E n \in Names : r \in Guesses(Naming(NoRequest, "login", n))
      OBVIOUS
    <3>3. QED
      BY <3>1, <3>2, <1>n, <1>k DEF Kinds
  <2>2. CASE session.user # NoUser
    <3> DEFINE mine == From(session.user, session.name)
    <3>1. {"kind", "name", "right", "chat", "prompt", "text"} \subseteq DOMAIN mine
      BY <1>d
    <3>2. \/ \E k \in {"list_chats", "create_chat", "list_prompts", "usage_stats"} : r = Asking(mine, k)
          \/ \E k \in {"read", "save", "delete_chat", "toggle_pin"}, c \in Ids("chats") :
               r = OnChat(mine, k, c)
          \/ \E x \in Texts : r = OnPrompt(mine, "create_prompt", 1, x)
          \/ \E p \in Ids("prompts"), x \in Texts : r = OnPrompt(mine, "update_prompt", p, x)
          \/ \E p \in Ids("prompts") : r = OnPrompt(mine, "delete_prompt", p, NoRequest.text)
          \/ \E n \in Names : r = Naming(mine, "rename", n)
          \/ r \in UNION {Guesses(Asking(mine, k)) : k \in {"change_password", "delete_account"}}
      BY <1>1, <2>2 DEF WebRequests
    <3> HIDE DEF mine
    <3>3. r \in UNION {Guesses(Asking(mine, k)) : k \in {"change_password", "delete_account"}}
            => \E k \in {"change_password", "delete_account"} : r \in Guesses(Asking(mine, k))
      OBVIOUS
    <3>4. \A k : /\ Asking(mine, k).kind = k
                 /\ \A n : Naming(mine, k, n).kind = k
                 /\ \A c : OnChat(mine, k, c).kind = k
                 /\ \A p, x : OnPrompt(mine, k, p, x).kind = k
                 /\ \A q \in Guesses(Asking(mine, k)) : q.kind = k
      BY <3>1, <1>k
    <3>5. QED
      BY <3>2, <3>3, <3>4 DEF Kinds
  <2>3. QED
    BY <2>1, <2>2
<1>2. ASSUME NEW r \in TelegramRequests
      PROVE  r.kind \in Kinds
  BY <1>2, <1>d, <1>k DEF TelegramRequests, Kinds
<1>3. Web \in Threads
  BY AppDbConstants
<1>4. CASE \E r \in WebRequests : Begin(Web, r)
  BY Zenon, <1>1, <1>3, <1>4 DEF Act
<1>5. CASE \E t \in Threads \ {Web}, r \in TelegramRequests : Begin(t, r)
  <2>1. PICK t \in Threads \ {Web}, r \in TelegramRequests : Begin(t, r)
    BY Zenon, <1>5
  <2>2. t \in Threads /\ r.kind \in Kinds
    BY <1>2
  <2>3. QED
    BY Zenon, <2>1, <2>2 DEF Act
<1>6. CASE \E t \in Threads : Run(t) \/ Fail(t)
  BY Zenon, <1>6 DEF Act
<1>7. CASE Logout
  BY <1>7 DEF Logout
<1>8. CASE Tick
  BY <1>8 DEF Tick
<1>9. QED
  BY Zenon, <1>4, <1>5, <1>6, <1>7, <1>8 DEF Step

LEMMA QuietStep ==
  ASSUME IInv, UNCHANGED <<config, stores, pool, frame, wrote>>, Watch \/ held' = held
  PROVE  IInv'
<1> USE DEF config, stores, frame
<1>u. /\ backend' = backend /\ fallback' = fallback /\ server' = server /\ local' = local
      /\ pool' = pool /\ pc' = pc /\ req' = req /\ op' = op /\ answer' = answer /\ wrote' = wrote
  OBVIOUS
<1>1. FrameInv'
  BY <1>u DEF IInv, FrameInv
<1>2. NoDeadPool'
  BY <1>u DEF IInv, NoDeadPool
<1>3. RowsInv'
  BY <1>u DEF IInv, RowsInv, Server, CheckedInv, Own
<1>4. \A t \in Threads : CallInv(t)' /\ WriteInv(t)'
  BY <1>u DEF IInv, CallInv, WriteInv, Server
<1>5. ASSUME NEW t \in Threads
      PROVE  HeldInv(t)'
  <2>1. Holds(t)' <=> Holds(t)
    BY Zenon, <1>u DEF Holds, Primary
  <2>2. Refused(t)' <=> Refused(t)
    BY Zenon, <1>u DEF Refused
  <2>3. pc[t] # "idle" /\ held'[t] => held[t]
    BY Zenon, <1>u DEF Watch
  <2>4. HeldInv(t) /\ pc'[t] = pc[t] /\ fallback' = fallback
    BY <1>u DEF IInv
  <2>5. pc'[t] # "idle" /\ held'[t] => Holds(t)'
    BY <2>1, <2>3, <2>4 DEF HeldInv
  <2>6. pc'[t] = "answered" /\ held'[t] /\ ~fallback' => ~Refused(t)'
    BY <2>2, <2>3, <2>4 DEF HeldInv
  <2>7. QED
    BY Zenon, <2>5, <2>6 DEF HeldInv
<1>6. QED
  BY <1>1, <1>2, <1>3, <1>4, <1>5 DEF IInv

LEMMA ActStep ==
  ASSUME IInv, NEW t \in Threads, Act(t), Watch
  PROVE  IInv'
<1>1. /\ FrameInv /\ NoDeadPool /\ RowsInv
      /\ \A u \in Threads : CallInv(u) /\ WriteInv(u) /\ HeldInv(u)
  BY DEF IInv
<1>2. OnlyThread(t) /\ Moves(t)
  BY <1>1, ActMoves
<1>3. FrameInv'
  BY <1>1, <1>2, Others
<1>4. NoDeadPool'
  BY <1>1, <1>2, PoolStep
<1>5. RowsInv'
  BY <1>1, <1>2, RowsStep
<1>6. \A u \in Threads : CallInv(u)'
  BY <1>1, <1>2, CallStep
<1>7. \A u \in Threads : WriteInv(u)'
  BY <1>1, <1>2, WriteStep
<1>8. \A u \in Threads : HeldInv(u)'
  BY <1>1, <1>2, HeldStep
<1>9. QED
  BY <1>3, <1>4, <1>5, <1>6, <1>7, <1>8 DEF IInv

LEMMA InitHolds ==
  ASSUME Init
  PROVE  IInv
<1>1. FrameInv
  <2>1. \A t \in Threads : req[t] = NoRequest /\ pc[t] = "idle" /\ op[t] = "health_check"
                            /\ answer[t] = {} /\ wrote[t] = NoWrites
    BY DEF Init
  <2>2. NoRequest.kind \in Kinds /\ "health_check" \in Calls /\ "idle" \in Labels
        /\ NoWrites \in [server : Nat, local : Nat]
    BY CallNames DEF NoRequest, Kinds, Labels, NoWrites
  <2>3. backend \in {"supabase", "mysql", "sqlite"} /\ (backend = "sqlite" => ~fallback)
    BY DEF Init
  <2>4. /\ pc \in [Threads -> Labels] /\ op \in [Threads -> Calls]
        /\ wrote \in [Threads -> [server : Nat, local : Nat]]
    BY <2>2 DEF Init
  <2>5. DOMAIN req = Threads /\ Function(req) /\ DOMAIN answer = Threads /\ Function(answer)
    BY DEF Init, Function
  <2>6. \A t \in Threads : req[t].kind \in Kinds
    BY <2>1, <2>2
  <2>7. QED
    BY <2>3, <2>4, <2>5, <2>6 DEF FrameInv
<1>2. NoDeadPool
  BY DEF Init, NoDeadPool
<1>3. ASSUME Server
      PROVE  Integrity(server)
  <2> DEFINE names == CHOOSE f \in [1..2 -> Names] : f[1] = LoggedOut.name /\ f[2] # f[1]
             chats == [c \in {1} |-> [user |-> 1, pinned |-> FALSE]]
             prompts == [p \in {1} |-> [user |-> 1, text |-> NoRequest.text]]
             used == [users |-> 2, chats |-> 1, prompts |-> 1]
  <2>1. names \in [1..2 -> Names]
    <3>1. PICK m, n \in Names : m # n
      BY AppDbConstants
    <3>2. LoggedOut.name \in Names
      <4>1. \E x \in Names : TRUE
        BY <3>1
      <4>2. LoggedOut.name = CHOOSE x \in Names : TRUE
        BY DEF LoggedOut
      <4>3. QED
        BY Zenon, <4>1, <4>2
    <3>3. PICK o \in Names : o # LoggedOut.name
      BY <3>1
    <3> DEFINE f == [i \in 1..2 |-> IF i = 1 THEN LoggedOut.name ELSE o]
    <3>4. f \in [1..2 -> Names] /\ f[1] = LoggedOut.name /\ f[2] # f[1]
      BY <3>2, <3>3
    <3> HIDE DEF f
    <3>5. \E g \in [1..2 -> Names] : g[1] = LoggedOut.name /\ g[2] # g[1]
      BY <3>4
    <3>6. QED
      BY Zenon, <3>5
  <2>2. server = [Empty EXCEPT !.users = names, !.chats = chats, !.prompts = prompts, !.used = used]
    BY <1>3 DEF Init, Server, Initial
  <2> HIDE DEF names, chats, prompts, used
  <2>3. server = [users |-> names, chats |-> chats, prompts |-> prompts, messages |-> {}, used |-> used]
    BY <2>2 DEF Empty
  <2>4. Shape(server) /\ DOMAIN chats = {1} /\ DOMAIN prompts = {1} /\ server.used.chats = 1
    BY <2>3 DEF Shape, used, chats, prompts
  <2>5. 1 \in DOMAIN names /\ chats[1].user = 1 /\ prompts[1].user = 1
    BY <2>1 DEF chats, prompts
  <2>6. QED
    BY <2>3, <2>4, <2>5 DEF Integrity
<1>4. \A t \in Threads : CheckedInv(t)
  BY CallNames DEF Init, CheckedInv
<1>5. RowsInv
  BY <1>3, <1>4 DEF RowsInv
<1>6. ASSUME NEW t \in Threads
      PROVE  CallInv(t) /\ WriteInv(t) /\ HeldInv(t)
  BY DEF Init, CallInv, WriteInv, HeldInv, NoWrites, Reads
<1>7. QED
  BY <1>1, <1>2, <1>5, <1>6 DEF IInv

\* Inductiveness of the invariant: the initial state has it, and every step of
\* every thread, and of time, keeps it.
THEOREM Invariant == Spec => []IInv
<1>1. Init => IInv
  BY InitHolds
<1>2. IInv /\ [Next]_vars => IInv'
  <2> SUFFICES ASSUME IInv, [Next]_vars PROVE IInv'
    OBVIOUS
  <2>1. CASE Next
    <3>1. Step /\ Watch
      BY <2>1 DEF Next
    <3>2. CASE \E t \in Threads : Act(t)
      BY <3>1, <3>2, ActStep
    <3>3. CASE UNCHANGED <<config, stores, pool, frame, wrote>>
      BY <3>1, <3>3, QuietStep
    <3>4. QED
      BY <3>1, <3>2, <3>3, Steps
  <2>2. CASE UNCHANGED vars
    <3>1. UNCHANGED <<config, stores, pool, frame, wrote>> /\ held' = held
      BY <2>2 DEF vars
    <3>2. QED
      BY <3>1, QuietStep
  <2>3. QED
    BY <2>1, <2>2
<1>3. QED
  BY <1>1, <1>2, PTL DEF Spec

\* A pool that close_postgres_pool closed is always about to be replaced: the
\* thread that closed it, and nobody else, has yet to reset _pool, however many
\* threads close and build pools around it.
THEOREM NoDeadPools == Spec => []NoDeadPool
<1>1. IInv => NoDeadPool
  BY DEF IInv
<1>2. QED
  BY <1>1, Invariant, PTL

\* _with_fallback never runs a write twice in one store: what is retried is a
\* read, SQLite is asked after the server once, and with the fallback off not
\* at all.
THEOREM EveryWriteOnce == Spec => []WrittenOnce
<1>1. IInv => WrittenOnce
  BY DEF IInv, WriteInv, WrittenOnce
<1>2. QED
  BY <1>1, Invariant, PTL

\* With the fallback off, chats, prompts and messages refer to rows that are
\* there, and messages to a chat of the account that wrote them, although
\* save_chat_message checks and writes in two transactions.
THEOREM RowsAreOwned == Spec => []OwnRows
<1>1. IInv => OwnRows
  BY DEF IInv, RowsInv, Integrity, OwnRows, OwnedBy
<1>2. QED
  BY <1>1, Invariant, PTL

\* With the fallback off, nobody is told that a row is missing, a name taken or
\* a password wrong when that was not so at any time of the request.
THEOREM TrueRefusals == Spec => []RefusalsAreTrue
<1>1. IInv => RefusalsAreTrue
  BY DEF IInv, HeldInv, RefusalsAreTrue
<1>2. QED
  BY <1>1, Invariant, PTL

=============================================================================
