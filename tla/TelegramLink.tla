---------------------------- MODULE TelegramLink ----------------------------
(***************************************************************************)
(* Which Telegram sender speaks for which application account, and with    *)
(* which rights: link codes (services/telegram_link_service.py), Telegram  *)
(* identities and data-source policies (storage/relational_store.py), and  *)
(* the administrator's scripts that write the same rows.                   *)
(*                                                                         *)
(* One action is one database transaction; /link runs six of them, the     *)
(* grant script two, and nothing holds the rows in between.                *)
(***************************************************************************)
EXTENDS Integers, FiniteSets

CONSTANTS
  Workers,    \* threads processing /link commands
  Senders,    \* Telegram user ids
  Accounts,   \* application accounts
  Codes,      \* link codes, told apart by their hashes
  NoAccount,  \* the account of a row that does not exist
  MaxInterventions  \* bound on runs of the grant script and deleted accounts

ASSUME LinkConstants ==
  /\ NoAccount \notin Accounts
  /\ Senders # {}
  /\ Codes # {}
  /\ MaxInterventions \in Nat

Sources == {"simulator", "company"}
Roles == {"viewer", "operator"}

VARIABLES
  codes,      \* table telegram_link_codes
  identity,   \* table telegram_identities, by sender
  policy,     \* users.allowed_data_sources, normalised, by account
  deleted,    \* accounts whose row in users is gone; their ids never come back
  pc, by, code, seen, scope, \* locals of each thread: sender, code, rows read
  granting,   \* the grant script between its two transactions
  interventions, \* runs of the grant script and deleted accounts so far
  links,      \* history: links[c], identities written on the strength of code c
  offered,    \* history: what the policy has offered during the command of w
  companyTo,  \* history: accounts the administrator ever granted company
  operators   \* history: <<sender, account>> the administrator made operator

tables == <<codes, identity, policy, deleted>>
thread == <<pc, by, code, seen, scope>>
admin == <<granting, interventions>>
history == <<links, offered, companyTo, operators>>
vars == <<tables, thread, admin, history>>

Code == [owner : Accounts \union {NoAccount}, used : BOOLEAN, expired : BOOLEAN]
Identity ==
  [user : Accounts \union {NoAccount}, role : Roles, sources : SUBSET Sources, active : BOOLEAN]

NotIssued == [owner |-> NoAccount, used |-> FALSE, expired |-> FALSE]
Unmapped == [user |-> NoAccount, role |-> "viewer", sources |-> {}, active |-> FALSE]
\* by and code mean nothing while the thread is idle.
SomeSender == CHOOSE t \in Senders : TRUE
SomeCode == CHOOSE c \in Codes : TRUE

NoGrant == [user |-> NoAccount, sources |-> {}]

TypeOK ==
  /\ codes \in [Codes -> Code]
  /\ identity \in [Senders -> Identity]
  /\ policy \in [Accounts -> {{"simulator"}, Sources}]
  /\ deleted \in SUBSET Accounts
  /\ pc \in [Workers -> {"idle", "code", "mark", "identity", "policy", "upsert", "writeback"}]
  /\ by \in [Workers -> Senders]
  /\ code \in [Workers -> Codes]
  /\ seen \in [Workers -> Identity]
  /\ scope \in [Workers -> SUBSET Sources]
  /\ granting \in [user : Accounts \union {NoAccount}, sources : SUBSET Sources]
  /\ interventions \in 0..MaxInterventions
  /\ links \in [Codes -> Nat]
  /\ offered \in [Workers -> SUBSET Sources]
  /\ companyTo \in SUBSET Accounts
  /\ operators \in SUBSET (Senders \X Accounts)

Init ==
  /\ codes = [c \in Codes |-> NotIssued]
  /\ identity = [t \in Senders |-> Unmapped]
  /\ policy = [u \in Accounts |-> {"simulator"}]
  /\ deleted = {}
  /\ pc = [w \in Workers |-> "idle"]
  /\ by = [w \in Workers |-> SomeSender]
  /\ code = [w \in Workers |-> SomeCode]
  /\ seen = [w \in Workers |-> Unmapped]
  /\ scope = [w \in Workers |-> {}]
  /\ granting = NoGrant
  /\ interventions = 0
  /\ links = [c \in Codes |-> 0]
  /\ offered = [w \in Workers |-> {}]
  /\ companyTo = {}
  /\ operators = {}

-----------------------------------------------------------------------------
(* Link codes. *)

\* create_link_code_for_user, for the account logged in.
IssueCode(c, u) ==
  /\ codes[c] = NotIssued
  /\ u \notin deleted
  /\ codes' = [codes EXCEPT ![c].owner = u]
  /\ offered' = [w \in Workers |->
       IF pc[w] # "idle" /\ code[w] = c THEN policy[u] ELSE offered[w]]
  /\ UNCHANGED <<identity, policy, deleted, thread, admin, links, companyTo, operators>>

\* TELEGRAM_LINK_CODE_TTL_MINUTES have passed.
Expire(c) ==
  /\ codes[c].owner # NoAccount
  /\ ~codes[c].expired
  /\ codes' = [codes EXCEPT ![c].expired = TRUE]
  /\ UNCHANGED <<identity, policy, deleted, thread, admin, history>>

-----------------------------------------------------------------------------
(* consume_link_code, on a thread of its own. *)

Goto(w, l) == pc' = [pc EXCEPT ![w] = l]

\* The thread is over, its locals are gone.
Exit(w) ==
  /\ Goto(w, "idle")
  /\ by' = [by EXCEPT ![w] = SomeSender]
  /\ code' = [code EXCEPT ![w] = SomeCode]
  /\ seen' = [seen EXCEPT ![w] = Unmapped]
  /\ scope' = [scope EXCEPT ![w] = {}]

\* It leaves without a link: a refusal or an exception.
End(w) ==
  /\ Exit(w)
  /\ offered' = [offered EXCEPT ![w] = {}]

Owner(w) == codes[code[w]].owner

\* The sender presents a code that was issued, or one that was not.
Command(w, t, c) ==
  /\ pc[w] = "idle"
  /\ Goto(w, "code")
  /\ by' = [by EXCEPT ![w] = t]
  /\ code' = [code EXCEPT ![w] = c]
  /\ offered' = [offered EXCEPT
       ![w] = IF codes[c].owner = NoAccount THEN {} ELSE policy[codes[c].owner]]
  /\ UNCHANGED <<tables, seen, scope, admin, links, companyTo, operators>>

\* get_telegram_link_code and the three checks on the row.
ReadCode(w) ==
  /\ pc[w] = "code"
  /\ IF Owner(w) = NoAccount \/ codes[code[w]].used \/ codes[code[w]].expired
       THEN End(w)
       ELSE Goto(w, "mark") /\ UNCHANGED <<by, code, seen, scope, offered>>
  /\ UNCHANGED <<tables, admin, links, companyTo, operators>>

\* Faulty variant: the update without "and used_at is null".
MarkUsedAlways(w) ==
  /\ pc[w] = "mark"
  /\ codes' = [codes EXCEPT ![code[w]].used = TRUE]
  /\ Goto(w, "identity")
  /\ UNCHANGED <<identity, policy, deleted, by, code, seen, scope, admin, history>>

\* mark_telegram_link_code_used: one thread wins, whoever read the code before.
MarkUsed(w) ==
  /\ pc[w] = "mark"
  /\ IF codes[code[w]].used
       THEN End(w) /\ UNCHANGED codes
       ELSE /\ codes' = [codes EXCEPT ![code[w]].used = TRUE]
            /\ Goto(w, "identity")
            /\ UNCHANGED <<by, code, seen, scope, offered>>
  /\ UNCHANGED <<identity, policy, deleted, admin, links, companyTo, operators>>

ReadIdentity(w) ==
  /\ pc[w] = "identity"
  /\ seen' = [seen EXCEPT ![w] = identity[by[w]]]
  /\ Goto(w, "policy")
  /\ UNCHANGED <<tables, by, code, scope, admin, history>>

\* Faulty variant: no check that the sender is not another account's.
ReadPolicyUnchecked(w) ==
  /\ pc[w] = "policy"
  /\ scope' = [scope EXCEPT ![w] = policy[Owner(w)]]
  /\ Goto(w, "upsert")
  /\ UNCHANGED <<tables, by, code, seen, admin, history>>

\* get_user_data_source_policy, then telegram_already_linked: a sender of
\* another account is refused, with its code used up.
ReadPolicy(w) ==
  /\ pc[w] = "policy"
  /\ IF seen[w].user \in Accounts \ {Owner(w)}
       THEN End(w)
       ELSE /\ scope' = [scope EXCEPT ![w] = policy[Owner(w)]]
            /\ Goto(w, "upsert")
            /\ UNCHANGED <<by, code, seen, offered>>
  /\ UNCHANGED <<tables, admin, links, companyTo, operators>>

\* Faulty variant: a link that is renewed keeps the sources of the old one.
UpsertKeepingScope(w) ==
  /\ pc[w] = "upsert"
  /\ identity' = [identity EXCEPT ![by[w]] =
       [user |-> Owner(w), role |-> seen[w].role,
        sources |-> scope[w] \union seen[w].sources, active |-> TRUE]]
  /\ links' = [links EXCEPT ![code[w]] = @ + 1]
  /\ Goto(w, "writeback")
  /\ UNCHANGED <<codes, policy, deleted, by, code, seen, scope, admin, offered, companyTo, operators>>

\* Faulty variant: telegram_identities.user_id does not reference users.
UpsertUnreferenced(w) ==
  /\ pc[w] = "upsert"
  /\ identity' = [identity EXCEPT ![by[w]] =
       [user |-> Owner(w), role |-> seen[w].role, sources |-> scope[w], active |-> TRUE]]
  /\ links' = [links EXCEPT ![code[w]] = @ + 1]
  /\ Goto(w, "writeback")
  /\ UNCHANGED <<codes, policy, deleted, by, code, seen, scope, admin, offered, companyTo, operators>>

\* upsert_telegram_identity, with what was read: the role the sender had, viewer
\* if it had none, and the sources of the account's policy.  For an account that
\* is gone the foreign key raises (Fail).
Upsert(w) ==
  /\ pc[w] = "upsert"
  /\ Owner(w) \notin deleted
  /\ identity' = [identity EXCEPT ![by[w]] =
       [user |-> Owner(w), role |-> seen[w].role, sources |-> scope[w], active |-> TRUE]]
  /\ links' = [links EXCEPT ![code[w]] = @ + 1]
  /\ Goto(w, "writeback")
  /\ UNCHANGED <<codes, policy, deleted, by, code, seen, scope, admin, offered, companyTo, operators>>

\* The commands that concern account u have now been offered S, too.
Offered(u, S) == [v \in Workers |->
  IF pc[v] # "idle" /\ Owner(v) = u THEN offered[v] \union S ELSE offered[v]]

\* What update_user_data_source_policy makes of the policies.
Updated(u, S) ==
  IF u \in deleted THEN policy ELSE [policy EXCEPT ![u] = S \union {"simulator"}]

\* Faulty variant: a link grants every source.
WriteBackAll(w) ==
  /\ pc[w] = "writeback"
  /\ policy' = [policy EXCEPT ![Owner(w)] = Sources]
  /\ offered' = [Offered(Owner(w), Sources) EXCEPT ![w] = {}]
  /\ Exit(w)
  /\ UNCHANGED <<codes, identity, deleted, admin, links, companyTo, operators>>

\* update_user_data_source_policy with what was read; /link has linked, even if
\* there is no row to update any more.  The default source is a function of the
\* allowed ones and is left out.
WriteBack(w) ==
  /\ pc[w] = "writeback"
  /\ policy' = Updated(Owner(w), scope[w])
  /\ offered' = [Offered(Owner(w), policy'[Owner(w)]) EXCEPT ![w] = {}]
  /\ Exit(w)
  /\ UNCHANGED <<codes, identity, deleted, admin, links, companyTo, operators>>

\* A transaction raises, or the process stops.
Fail(w) ==
  /\ pc[w] # "idle"
  /\ End(w)
  /\ UNCHANGED <<tables, admin, links, companyTo, operators>>

-----------------------------------------------------------------------------
(* Everybody else. *)

\* unlink_telegram_identity, and the revoke script: the identity is read only
\* to word the reply, the update does not depend on it.
Deactivate(t) ==
  /\ identity[t].active
  /\ identity' = [identity EXCEPT ![t].active = FALSE]
  /\ UNCHANGED <<codes, policy, deleted, thread, admin, history>>

\* delete_user_account, which takes identities and codes along.  A code that is
\* gone is refused like a used one, and the policy of an account that is gone
\* reads as the simulator alone.
DeleteAccount(u) ==
  /\ u \notin deleted
  /\ interventions < MaxInterventions
  /\ interventions' = interventions + 1
  /\ deleted' = deleted \union {u}
  /\ codes' = [c \in Codes |->
       IF codes[c].owner = u THEN [codes[c] EXCEPT !.used = TRUE] ELSE codes[c]]
  /\ identity' = [t \in Senders |-> IF identity[t].user = u THEN Unmapped ELSE identity[t]]
  /\ policy' = [policy EXCEPT ![u] = {"simulator"}]
  /\ UNCHANGED <<thread, granting, history>>

\* scripts/upsert_telegram_identity.py: the identity first ...
GrantIdentity(t, u, role, S, active) ==
  /\ granting = NoGrant
  /\ u \notin deleted
  /\ interventions < MaxInterventions
  /\ interventions' = interventions + 1
  /\ identity' = [identity EXCEPT ![t] =
       [user |-> u, role |-> role, sources |-> S, active |-> active]]
  /\ granting' = [user |-> u, sources |-> S]
  /\ companyTo' = IF "company" \in S THEN companyTo \union {u} ELSE companyTo
  /\ operators' = IF role = "operator" THEN operators \union {<<t, u>>} ELSE operators
  /\ UNCHANGED <<codes, policy, deleted, thread, links, offered>>

\* Faulty variant: without normalize_user_data_source_policy.
GrantPolicyRaw ==
  /\ granting # NoGrant
  /\ policy' = [policy EXCEPT ![granting.user] = granting.sources]
  /\ offered' = Offered(granting.user, policy'[granting.user])
  /\ granting' = NoGrant
  /\ UNCHANGED <<codes, identity, deleted, thread, interventions, links, companyTo, operators>>

\* ... and then the policy, which always allows the simulator.
GrantPolicy ==
  /\ granting # NoGrant
  /\ policy' = Updated(granting.user, granting.sources)
  /\ offered' = Offered(granting.user, policy'[granting.user])
  /\ granting' = NoGrant
  /\ UNCHANGED <<codes, identity, deleted, thread, interventions, links, companyTo, operators>>

\* The script raises between its transactions.
GrantAborts ==
  /\ granting # NoGrant
  /\ granting' = NoGrant
  /\ UNCHANGED <<tables, thread, interventions, history>>

Consume(w) ==
  \/ \E t \in Senders, c \in Codes : Command(w, t, c)
  \/ ReadCode(w) \/ MarkUsed(w) \/ ReadIdentity(w) \/ ReadPolicy(w)
  \/ Upsert(w) \/ WriteBack(w) \/ Fail(w)

Grant ==
  \/ \E t \in Senders, u \in Accounts, role \in Roles,
        S \in SUBSET Sources \ {{}}, active \in BOOLEAN : GrantIdentity(t, u, role, S, active)
  \/ GrantPolicy
  \/ GrantAborts

Next ==
  \/ \E c \in Codes : Expire(c) \/ \E u \in Accounts : IssueCode(c, u)
  \/ \E w \in Workers : Consume(w)
  \/ \E t \in Senders : Deactivate(t)
  \/ \E u \in Accounts : DeleteAccount(u)
  \/ Grant

Spec == Init /\ [][Next]_vars

-----------------------------------------------------------------------------
(* Properties. *)

\* A code links one sender, once, however many threads read it before the first
\* of them marked it used.
OneLinkPerCode == \A c \in Codes : links[c] =< 1

\* Company data is within reach of an account, on the web or through a Telegram
\* identity, only if an administrator granted it to that account at some time,
\* whatever is relinked, moved or written back meanwhile.
CompanyByAdmin ==
  /\ \A u \in Accounts : "company" \in policy[u] => u \in companyTo
  /\ \A t \in Senders : "company" \in identity[t].sources => identity[t].user \in companyTo

\* A sender is operator of an account only if an administrator made that sender
\* operator of that account: a role is never carried over to another account.
OperatorByAdmin ==
  \A t \in Senders : identity[t].role = "operator" => <<t, identity[t].user>> \in operators

\* An account that was deleted stays without a sender, whatever /link commands
\* and grants had read or written when it went.
DeletedForGood == \A t \in Senders : identity[t].user \notin deleted

\* A link gives a sender no source that the account's policy did not allow at
\* some moment of the /link command: nothing of an older link is revived.
LinkGivesWhatWasOffered ==
  [][\A w \in Workers : Upsert(w) => identity'[by[w]].sources \subseteq offered[w]]_vars

\* docs/TELEGRAM_POC.md says that company access is never self-granted by /link:
\* no step of consume_link_code adds company to the policy of an account.
NeverSelfGranted ==
  [][\A w \in Workers, u \in Accounts :
       WriteBack(w) /\ "company" \in policy'[u] => "company" \in policy[u]]_vars

\* "This Telegram account is already linked to another IoT Ops Agent account.":
\* no /link command moves a sender from one account to another.
SenderKeepsAccount ==
  [][\A w \in Workers :
       Upsert(w) => identity[by[w]].user \in {NoAccount, identity'[by[w]].user}]_vars
=============================================================================
