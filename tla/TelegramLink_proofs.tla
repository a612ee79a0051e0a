------------------------- MODULE TelegramLink_proofs -------------------------
(***************************************************************************)
(* Proofs about TelegramLink, for any number of threads, senders, accounts *)
(* and codes, and any number of grants and deleted accounts.                 *)
(***************************************************************************)
EXTENDS TelegramLink, TLAPS

(***************************************************************************)
(* The inductive invariant: what a thread has read is still good enough    *)
(* when it is used, however old it is.  A code that is past its check is   *)
(* issued for good, and past its mark it has one thread and no link yet;   *)
(* rights read by a thread or held by the script were granted, because     *)
(* what the administrator granted is never taken out of the history; and   *)
(* a thread that has not read the policy yet can still be offered what it  *)
(* will read.                                                              *)
(***************************************************************************)
Marked == {"identity", "policy", "upsert"}

LocalsInv ==
  /\ \A w \in Workers :
       /\ pc[w] \notin {"upsert", "writeback"} => scope[w] = {}
       /\ pc[w] \in {"idle", "code", "mark", "identity"} => seen[w] = Unmapped
       /\ pc[w] \notin {"idle", "code"} => Owner(w) \in Accounts
  /\ granting # NoGrant => granting.user \in Accounts

LinksInv ==
  /\ \A c \in Codes : links[c] =< 1 /\ (links[c] # 0 => codes[c].used)
  /\ \A w \in Workers : pc[w] \in Marked => codes[code[w]].used /\ links[code[w]] = 0
  /\ \A v, w \in Workers :
       pc[v] \in Marked /\ pc[w] \in Marked /\ code[v] = code[w] => v = w

CompanyInv ==
  /\ CompanyByAdmin
  /\ \A w \in Workers : "company" \in scope[w] => Owner(w) \in companyTo
  /\ "company" \in granting.sources => granting.user \in companyTo

OperatorInv ==
  /\ OperatorByAdmin
  /\ \A w \in Workers :
       /\ seen[w].role = "operator" => <<by[w], seen[w].user>> \in operators
       /\ pc[w] = "upsert" => seen[w].user \in {NoAccount, Owner(w)}

OfferInv ==
  \A w \in Workers :
    /\ pc[w] # "idle" /\ Owner(w) \in Accounts => policy[Owner(w)] \subseteq offered[w]
    /\ pc[w] = "upsert" => scope[w] \subseteq offered[w]

IInv ==
  TypeOK /\ LocalsInv /\ LinksInv /\ CompanyInv /\ OperatorInv /\ OfferInv /\ DeletedForGood

-----------------------------------------------------------------------------
(* Types. *)

\* A normalised policy allows the simulator, and nothing unknown.
LEMMA Normalised ==
  ASSUME NEW S \in SUBSET Sources
  PROVE  S \union {"simulator"} \in {{"simulator"}, Sources}
<1>1. CASE "company" \in S
  BY <1>1 DEF Sources
<1>2. CASE "company" \notin S
  BY <1>2 DEF Sources
<1>3. QED
  BY <1>1, <1>2

\* The values the locals of a thread are reset to have the right types.
LEMMA Defaults ==
  /\ SomeSender \in Senders
  /\ SomeCode \in Codes
  /\ Unmapped \in Identity
  /\ NotIssued \in Code
  BY LinkConstants DEF SomeSender, SomeCode, Unmapped, NotIssued, Identity, Code, Roles

\* Leaving consume_link_code, with a link or without, keeps the locals typed.
LEMMA ExitTyped ==
  ASSUME TypeOK, NEW w \in Workers, Exit(w)
  PROVE  /\ pc' \in [Workers -> {"idle", "code", "mark", "identity", "policy", "upsert", "writeback"}]
         /\ by' \in [Workers -> Senders]
         /\ code' \in [Workers -> Codes]
         /\ seen' \in [Workers -> Identity]
         /\ scope' \in [Workers -> SUBSET Sources]
  BY Defaults DEF TypeOK, Exit, Goto

\* What commands have been offered consists of sources.
LEMMA OfferedTyped ==
  ASSUME TypeOK, NEW u, NEW S \in SUBSET Sources
  PROVE  Offered(u, S) \in [Workers -> SUBSET Sources]
  BY DEF TypeOK, Offered

\* What an update makes of the policies, whether or not the account has a row:
\* they stay normalised, and no other account gets anything.
LEMMA UpdatedPolicies ==
  ASSUME TypeOK, NEW u \in Accounts, NEW S \in SUBSET Sources
  PROVE  /\ Updated(u, S) \in [Accounts -> {{"simulator"}, Sources}]
         /\ Updated(u, S)[u] \in SUBSET Sources
         /\ "company" \in Updated(u, S)[u] => "company" \in policy[u] \union S
         /\ \A v \in Accounts \ {u} : Updated(u, S)[v] = policy[v]
<1>1. S \union {"simulator"} \in {{"simulator"}, Sources}
  BY Normalised
<1>2. CASE u \in deleted
  BY <1>2 DEF TypeOK, Updated, Sources
<1>3. CASE u \notin deleted
  <2>1. Updated(u, S) = [policy EXCEPT ![u] = S \union {"simulator"}]
    BY <1>3 DEF Updated
  <2>2. Updated(u, S)[u] = S \union {"simulator"}
    BY <2>1 DEF TypeOK
  <2>3. QED
    BY <1>1, <2>1, <2>2 DEF TypeOK, Sources
<1>4. QED
  BY <1>2, <1>3

\* The initial state is typed.
LEMMA TypeInit == Init => TypeOK
  BY Defaults, LinkConstants DEF Init, TypeOK, Identity, NoGrant, Sources

\* Every step keeps the types.
LEMMA TypeStep == TypeOK /\ LocalsInv /\ [Next]_vars => TypeOK'
<1> SUFFICES ASSUME TypeOK, LocalsInv, [Next]_vars PROVE TypeOK'
  OBVIOUS
<1>a. \A u \in Accounts : policy[u] \in SUBSET Sources
  BY DEF TypeOK, Sources
<1>1. ASSUME NEW c \in Codes, NEW u \in Accounts, IssueCode(c, u) PROVE TypeOK'
  <2>1. codes' \in [Codes -> Code]
    BY <1>1 DEF TypeOK, IssueCode, Code
  <2>2. offered' \in [Workers -> SUBSET Sources]
    BY <1>1, <1>a DEF TypeOK, IssueCode
  <2>3. QED
    BY <1>1, <2>1, <2>2 DEF TypeOK, IssueCode, thread, admin
<1>2. ASSUME NEW c \in Codes, Expire(c) PROVE TypeOK'
  <2>1. codes' \in [Codes -> Code]
    BY <1>2 DEF TypeOK, Expire, Code
  <2>2. QED
    BY <1>2, <2>1 DEF TypeOK, Expire, thread, admin, history
<1>3. ASSUME NEW w \in Workers, NEW t \in Senders, NEW c \in Codes, Command(w, t, c)
      PROVE  TypeOK'
  <2>1. (IF codes[c].owner = NoAccount THEN {} ELSE policy[codes[c].owner]) \in SUBSET Sources
    BY <1>a DEF TypeOK, Code
  <2>2. QED
    BY <1>3, <2>1 DEF TypeOK, Command, Goto, tables, admin
<1>4. ASSUME NEW w \in Workers, ReadCode(w) PROVE TypeOK'
  BY <1>4, ExitTyped DEF TypeOK, ReadCode, End, Goto, tables, admin
<1>5. ASSUME NEW w \in Workers, MarkUsed(w) PROVE TypeOK'
  <2>1. codes' \in [Codes -> Code]
    <3>1. codes[code[w]] \in Code /\ code[w] \in Codes
      BY DEF TypeOK
    <3>2. [codes[code[w]] EXCEPT !.used = TRUE] \in Code
      BY <3>1 DEF Code
    <3>3. QED
      BY <1>5, <3>1, <3>2 DEF TypeOK, MarkUsed
  <2>2. QED
    BY <1>5, <2>1, ExitTyped DEF TypeOK, MarkUsed, End, Goto, admin
<1>6. ASSUME NEW w \in Workers, ReadIdentity(w) PROVE TypeOK'
  BY <1>6 DEF TypeOK, ReadIdentity, Goto, tables, admin, history
<1>7. ASSUME NEW w \in Workers, ReadPolicy(w) PROVE TypeOK'
  <2>1. CASE seen[w].user \in Accounts \ {Owner(w)}
    BY <1>7, <2>1, ExitTyped DEF TypeOK, ReadPolicy, End, tables, admin
  <2>2. CASE seen[w].user \notin Accounts \ {Owner(w)}
    <3>1. policy[Owner(w)] \in SUBSET Sources
      BY <1>7, <1>a DEF LocalsInv, ReadPolicy
    <3>2. QED
      BY <1>7, <2>2, <3>1 DEF TypeOK, ReadPolicy, Goto, tables, admin
  <2>3. QED
    BY <2>1, <2>2
<1>8. ASSUME NEW w \in Workers, Upsert(w) PROVE TypeOK'
  <2>1. Owner(w) \in Accounts \union {NoAccount}
    BY DEF TypeOK, Owner, Code
  <2>2. [user |-> Owner(w), role |-> seen[w].role, sources |-> scope[w], active |-> TRUE] \in Identity
    BY <2>1 DEF TypeOK, Identity
  <2>3. QED
    BY <1>8, <2>2 DEF TypeOK, Upsert, Goto, admin
<1>9. ASSUME NEW w \in Workers, WriteBack(w) PROVE TypeOK'
  <2>1. Owner(w) \in Accounts /\ scope[w] \in SUBSET Sources
    BY <1>9 DEF TypeOK, LocalsInv, WriteBack
  <2>2. /\ policy' \in [Accounts -> {{"simulator"}, Sources}]
        /\ policy'[Owner(w)] \in SUBSET Sources
    BY <1>9, <2>1, UpdatedPolicies DEF WriteBack
  <2>3. Offered(Owner(w), policy'[Owner(w)]) \in [Workers -> SUBSET Sources]
    BY <2>2, OfferedTyped
  <2>4. offered' \in [Workers -> SUBSET Sources]
    BY <1>9, <2>3 DEF WriteBack
  <2>5. QED
    BY <1>9, <2>2, <2>4, ExitTyped DEF TypeOK, WriteBack, admin
<1>10. ASSUME NEW w \in Workers, Fail(w) PROVE TypeOK'
  BY <1>10, ExitTyped DEF TypeOK, Fail, End, tables, admin
<1>11. ASSUME NEW t \in Senders, Deactivate(t) PROVE TypeOK'
  <2>1. identity[t] \in Identity
    BY DEF TypeOK
  <2>2. [identity[t] EXCEPT !.active = FALSE] \in Identity
    BY <2>1 DEF Identity
  <2>3. identity' \in [Senders -> Identity]
    BY <1>11, <2>2 DEF TypeOK, Deactivate
  <2>4. QED
    BY <1>11, <2>3 DEF TypeOK, Deactivate, thread, admin, history
<1>12. ASSUME NEW t \in Senders, NEW u \in Accounts, NEW role \in Roles,
              NEW S \in SUBSET Sources \ {{}}, NEW active \in BOOLEAN,
              GrantIdentity(t, u, role, S, active)
       PROVE  TypeOK'
  <2>1. [user |-> u, role |-> role, sources |-> S, active |-> active] \in Identity
    BY DEF Identity
  <2>2. identity' \in [Senders -> Identity]
    BY <1>12, <2>1 DEF TypeOK, GrantIdentity
  <2>3. /\ granting' \in [user : Accounts \union {NoAccount}, sources : SUBSET Sources]
        /\ interventions' \in 0..MaxInterventions
    BY <1>12, LinkConstants DEF TypeOK, GrantIdentity
  <2>4. companyTo' \in SUBSET Accounts /\ operators' \in SUBSET (Senders \X Accounts)
    BY <1>12 DEF TypeOK, GrantIdentity
  <2>5. QED
    BY <1>12, <2>2, <2>3, <2>4 DEF TypeOK, GrantIdentity, thread
<1>13. CASE GrantPolicy
  <2>1. granting.user \in Accounts /\ granting.sources \in SUBSET Sources
    BY <1>13 DEF TypeOK, LocalsInv, GrantPolicy
  <2>2. /\ policy' \in [Accounts -> {{"simulator"}, Sources}]
        /\ policy'[granting.user] \in SUBSET Sources
    BY <1>13, <2>1, UpdatedPolicies DEF GrantPolicy
  <2>3. offered' \in [Workers -> SUBSET Sources]
    BY <1>13, <2>2, OfferedTyped DEF GrantPolicy
  <2>4. NoGrant \in [user : Accounts \union {NoAccount}, sources : SUBSET Sources]
    BY DEF NoGrant
  <2>5. QED
    BY <1>13, <2>2, <2>3, <2>4 DEF TypeOK, GrantPolicy, thread
<1>14. CASE GrantAborts
  BY <1>14 DEF TypeOK, GrantAborts, NoGrant, tables, thread, history
<1>15. ASSUME NEW u \in Accounts, DeleteAccount(u) PROVE TypeOK'
  <2>1. ASSUME NEW c \in Codes
        PROVE  codes[c] \in Code /\ [codes[c] EXCEPT !.used = TRUE] \in Code
    <3>1. codes[c] \in Code
      BY DEF TypeOK
    <3>2. QED
      BY <3>1 DEF Code
  <2>2. codes' \in [Codes -> Code]
    BY <1>15, <2>1 DEF DeleteAccount
  <2>3. identity' \in [Senders -> Identity]
    BY <1>15, Defaults DEF TypeOK, DeleteAccount
  <2>4. policy' \in [Accounts -> {{"simulator"}, Sources}] /\ deleted' \in SUBSET Accounts
    BY <1>15 DEF TypeOK, DeleteAccount
  <2>5. interventions' \in 0..MaxInterventions
    BY <1>15, LinkConstants DEF TypeOK, DeleteAccount
  <2>6. QED
    BY <1>15, <2>2, <2>3, <2>4, <2>5 DEF TypeOK, DeleteAccount, thread, history
<1>16. CASE UNCHANGED vars
  BY <1>16 DEF TypeOK, vars, tables, thread, admin, history
<1>17. QED
  BY <1>1, <1>2, <1>3, <1>4, <1>5, <1>6, <1>7, <1>8, <1>9, <1>10, <1>11, <1>12, <1>13,
     <1>14, <1>15, <1>16 DEF Next, Consume, Grant

-----------------------------------------------------------------------------
(* What a step does, seen from one thread and from one table. *)

\* No step of another actor touches the locals of thread w.
Untouched(w) ==
  pc'[w] = pc[w] /\ by'[w] = by[w] /\ code'[w] = code[w] /\ seen'[w] = seen[w] /\ scope'[w] = scope[w]

\* Thread w enters, passes the next call of consume_link_code, or leaves.
Advances(w) ==
  \/ pc[w] = "idle" /\ pc'[w] = "code" /\ seen'[w] = seen[w] /\ scope'[w] = scope[w]
  \/ /\ pc[w] = "code" /\ pc'[w] = "mark" /\ Owner(w) \in Accounts
     /\ by'[w] = by[w] /\ code'[w] = code[w] /\ seen'[w] = seen[w] /\ scope'[w] = scope[w]
  \/ /\ pc[w] = "mark" /\ pc'[w] = "identity" /\ MarkUsed(w)
     /\ by'[w] = by[w] /\ code'[w] = code[w] /\ seen'[w] = seen[w] /\ scope'[w] = scope[w]
  \/ /\ pc[w] = "identity" /\ pc'[w] = "policy" /\ seen'[w] = identity[by[w]]
     /\ by'[w] = by[w] /\ code'[w] = code[w] /\ scope'[w] = scope[w]
  \/ /\ pc[w] = "policy" /\ pc'[w] = "upsert" /\ scope'[w] = policy[Owner(w)]
     /\ seen[w].user \in {NoAccount, Owner(w)}
     /\ by'[w] = by[w] /\ code'[w] = code[w] /\ seen'[w] = seen[w]
  \/ /\ pc[w] = "upsert" /\ pc'[w] = "writeback"
     /\ by'[w] = by[w] /\ code'[w] = code[w] /\ seen'[w] = seen[w] /\ scope'[w] = scope[w]
  \/ pc'[w] = "idle" /\ seen'[w] = Unmapped /\ scope'[w] = {}

\* A thread that leaves has its locals reset; the others keep theirs.
LEMMA ExitResets ==
  ASSUME TypeOK, NEW w \in Workers, Exit(w)
  PROVE  /\ pc'[w] = "idle" /\ seen'[w] = Unmapped /\ scope'[w] = {}
         /\ \A v \in Workers \ {w} : Untouched(v)
  BY DEF TypeOK, Exit, Goto, Untouched

\* A thread that makes a step advances, and touches no other thread's locals.
LEMMA ConsumeMoves ==
  ASSUME TypeOK, NEW w \in Workers, Consume(w)
  PROVE  Advances(w) /\ \A v \in Workers \ {w} : Untouched(v)
<1>1. ASSUME NEW t \in Senders, NEW c \in Codes, Command(w, t, c)
      PROVE  Advances(w) /\ \A v \in Workers \ {w} : Untouched(v)
  BY <1>1 DEF TypeOK, Command, Goto, Advances, Untouched
<1>2. CASE ReadCode(w)
  <2>1. CASE End(w)
    BY <2>1, ExitResets DEF End, Advances
  <2>2. CASE ~End(w)
    <3>1. Owner(w) \in Accounts
      BY <1>2, <2>2 DEF TypeOK, ReadCode, Owner, Code
    <3>2. QED
      BY <1>2, <2>2, <3>1 DEF TypeOK, ReadCode, Goto, Advances, Untouched
  <2>3. QED
    BY <2>1, <2>2
<1>3. CASE MarkUsed(w)
  <2>1. CASE End(w)
    BY <2>1, ExitResets DEF End, Advances
  <2>2. CASE ~End(w)
    BY <1>3, <2>2 DEF TypeOK, MarkUsed, Goto, Advances, Untouched
  <2>3. QED
    BY <2>1, <2>2
<1>4. CASE ReadIdentity(w)
  BY <1>4 DEF TypeOK, ReadIdentity, Goto, Advances, Untouched
<1>5. CASE ReadPolicy(w)
  <2>1. CASE End(w)
    BY <2>1, ExitResets DEF End, Advances
  <2>2. CASE ~End(w)
    <3>1. seen[w].user \in Accounts \union {NoAccount}
      BY DEF TypeOK, Identity
    <3>2. seen[w].user \in {NoAccount, Owner(w)}
      BY <1>5, <2>2, <3>1 DEF ReadPolicy
    <3>3. QED
      BY <1>5, <2>2, <3>2 DEF TypeOK, ReadPolicy, Goto, Advances, Untouched
  <2>3. QED
    BY <2>1, <2>2
<1>6. CASE Upsert(w)
  BY <1>6 DEF TypeOK, Upsert, Goto, Advances, Untouched
<1>7. CASE WriteBack(w)
  BY <1>7, ExitResets DEF WriteBack, Advances
<1>8. CASE Fail(w)
  BY <1>8, ExitResets DEF Fail, End, Advances
<1>9. QED
  BY <1>1, <1>2, <1>3, <1>4, <1>5, <1>6, <1>7, <1>8 DEF Consume

\* In any step, a thread advances or is untouched.
LEMMA ThreadSteps ==
  ASSUME TypeOK, [Next]_vars, NEW w \in Workers
  PROVE  Untouched(w) \/ Advances(w)
<1>1. CASE \E v \in Workers : Consume(v)
  BY <1>1, ConsumeMoves
<1>2. CASE ~\E v \in Workers : Consume(v)
  <2>1. UNCHANGED thread
    BY <1>2 DEF Next, Grant, IssueCode, Expire, Deactivate, DeleteAccount, GrantIdentity,
                GrantPolicy, GrantAborts, vars
  <2>2. QED
    BY <2>1 DEF thread, Untouched
<1>3. QED
  BY <1>1, <1>2

\* Which operations write the link codes.
LEMMA CodeWriters ==
  ASSUME [Next]_vars
  PROVE  \/ UNCHANGED codes
         \/ \E c \in Codes, u \in Accounts : IssueCode(c, u)
         \/ \E c \in Codes : Expire(c)
         \/ \E w \in Workers : MarkUsed(w)
         \/ \E u \in Accounts : DeleteAccount(u)
<1>1. CASE UNCHANGED vars
  BY <1>1 DEF vars, tables, history, admin
<1>2. CASE Next
  BY <1>2 DEF Next, Consume, Grant, tables, history, admin, Command, ReadCode, ReadIdentity,
              ReadPolicy, Fail, End, IssueCode, Expire, MarkUsed, Upsert, WriteBack, Deactivate,
              DeleteAccount, GrantIdentity, GrantPolicy, GrantAborts
<1>3. QED
  BY <1>1, <1>2

\* Which operations write the identities.
LEMMA IdentityWriters ==
  ASSUME [Next]_vars
  PROVE  \/ UNCHANGED identity
         \/ \E w \in Workers : Upsert(w)
         \/ \E t \in Senders : Deactivate(t)
         \/ \E u \in Accounts : DeleteAccount(u)
         \/ \E t \in Senders, u \in Accounts, role \in Roles, S \in SUBSET Sources \ {{}},
               active \in BOOLEAN : GrantIdentity(t, u, role, S, active)
<1>1. CASE UNCHANGED vars
  BY <1>1 DEF vars, tables, history, admin
<1>2. CASE Next
  BY <1>2 DEF Next, Consume, Grant, tables, history, admin, Command, ReadCode, ReadIdentity,
              ReadPolicy, Fail, End, IssueCode, Expire, MarkUsed, Upsert, WriteBack, Deactivate,
              DeleteAccount, GrantIdentity, GrantPolicy, GrantAborts
<1>3. QED
  BY <1>1, <1>2

\* Which operations write the policies.
LEMMA PolicyWriters ==
  ASSUME [Next]_vars
  PROVE  \/ UNCHANGED policy
         \/ \E w \in Workers : WriteBack(w)
         \/ \E u \in Accounts : DeleteAccount(u)
         \/ GrantPolicy
<1>1. CASE UNCHANGED vars
  BY <1>1 DEF vars, tables, history, admin
<1>2. CASE Next
  BY <1>2 DEF Next, Consume, Grant, tables, history, admin, Command, ReadCode, ReadIdentity,
              ReadPolicy, Fail, End, IssueCode, Expire, MarkUsed, Upsert, WriteBack, Deactivate,
              DeleteAccount, GrantIdentity, GrantPolicy, GrantAborts
<1>3. QED
  BY <1>1, <1>2

\* Which operations delete accounts, count links and run the grant script.
LEMMA OtherWriters ==
  ASSUME [Next]_vars
  PROVE  /\ UNCHANGED deleted \/ \E u \in Accounts : DeleteAccount(u)
         /\ UNCHANGED links \/ \E w \in Workers : Upsert(w)
         /\ UNCHANGED granting \/ Grant
<1>1. CASE UNCHANGED vars
  BY <1>1 DEF vars, tables, history, admin
<1>2. CASE Next
  BY <1>2 DEF Next, Consume, Grant, tables, history, admin, Command, ReadCode, ReadIdentity,
              ReadPolicy, Fail, End, IssueCode, Expire, MarkUsed, Upsert, WriteBack, Deactivate,
              DeleteAccount, GrantIdentity, GrantPolicy, GrantAborts
<1>3. QED
  BY <1>1, <1>2

\* An issued code stays with its account, a used one stays used.
LEMMA CodesStay ==
  ASSUME TypeOK, [Next]_vars, NEW c \in Codes
  PROVE  /\ codes[c].owner \in Accounts => codes'[c].owner = codes[c].owner
         /\ codes[c].used => codes'[c].used
<1>0. codes \in [Codes -> Code] /\ codes[c] \in Code
  BY DEF TypeOK
<1>1. ASSUME NEW d \in Codes, NEW u \in Accounts, IssueCode(d, u)
      PROVE  codes'[c] = codes[c] \/ codes[c] = NotIssued
  BY <1>0, <1>1 DEF IssueCode
<1>2. ASSUME NEW d \in Codes, Expire(d)
      PROVE  codes'[c].owner = codes[c].owner /\ codes'[c].used = codes[c].used
  BY <1>0, <1>2 DEF Expire, Code
<1>3. ASSUME NEW w \in Workers, MarkUsed(w)
      PROVE  codes'[c].owner = codes[c].owner /\ (codes[c].used => codes'[c].used)
  BY <1>0, <1>3 DEF MarkUsed, Code
<1>4. ASSUME NEW u \in Accounts, DeleteAccount(u)
      PROVE  codes'[c].owner = codes[c].owner /\ (codes[c].used => codes'[c].used)
  <2>1. codes'[c] \in {codes[c], [codes[c] EXCEPT !.used = TRUE]}
    BY <1>4 DEF DeleteAccount
  <2>2. QED
    BY <1>0, <2>1 DEF Code
<1>5. NotIssued.owner \notin Accounts /\ ~NotIssued.used
  BY LinkConstants DEF NotIssued
<1>6. QED
  BY <1>1, <1>2, <1>3, <1>4, <1>5, CodeWriters

\* Sender t now speaks for u, with this role and these sources.
Becomes(t, u, role, S) ==
  identity'[t].user = u /\ identity'[t].role = role /\ identity'[t].sources = S

\* What sender t now has was granted, for an account that exists.
BecomesGranted(t) ==
  /\ identity'[t].user \in Accounts \ deleted
  /\ "company" \in identity'[t].sources => identity'[t].user \in companyTo'
  /\ identity'[t].role = "operator" => <<t, identity'[t].user>> \in operators'

\* What a step may make of one identity.
LEMMA IdentitySteps ==
  ASSUME TypeOK, [Next]_vars, NEW t \in Senders
  PROVE  \/ Becomes(t, identity[t].user, identity[t].role, identity[t].sources)
         \/ \E w \in Workers :
              Upsert(w) /\ by[w] = t /\ Becomes(t, Owner(w), seen[w].role, scope[w])
         \/ Becomes(t, NoAccount, "viewer", {})
         \/ BecomesGranted(t)
<1>0. identity \in [Senders -> Identity] /\ identity[t] \in Identity
  BY DEF TypeOK
<1>1. CASE UNCHANGED identity
  BY <1>1 DEF Becomes
<1>2. ASSUME NEW w \in Workers, Upsert(w)
      PROVE  \/ Becomes(t, identity[t].user, identity[t].role, identity[t].sources)
             \/ by[w] = t /\ Becomes(t, Owner(w), seen[w].role, scope[w])
  BY <1>0, <1>2 DEF Upsert, Becomes
<1>3. ASSUME NEW s \in Senders, Deactivate(s)
      PROVE  Becomes(t, identity[t].user, identity[t].role, identity[t].sources)
  BY <1>0, <1>3 DEF Deactivate, Becomes, Identity
<1>4. ASSUME NEW u \in Accounts, DeleteAccount(u)
      PROVE  \/ Becomes(t, identity[t].user, identity[t].role, identity[t].sources)
             \/ Becomes(t, NoAccount, "viewer", {})
  BY <1>4 DEF DeleteAccount, Becomes, Unmapped
<1>5. ASSUME NEW s \in Senders, NEW u \in Accounts, NEW role \in Roles,
             NEW S \in SUBSET Sources \ {{}}, NEW active \in BOOLEAN,
             GrantIdentity(s, u, role, S, active)
      PROVE  \/ Becomes(t, identity[t].user, identity[t].role, identity[t].sources)
             \/ BecomesGranted(t)
  <2>1. CASE s = t
    <3>1. identity'[t] = [user |-> u, role |-> role, sources |-> S, active |-> active]
      BY <1>0, <1>5, <2>1 DEF GrantIdentity
    <3>2. Becomes(t, u, role, S)
      BY <3>1 DEF Becomes
    <3>3. QED
      BY <1>5, <2>1, <3>2 DEF GrantIdentity, Becomes, BecomesGranted
  <2>2. CASE s # t
    BY <1>0, <1>5, <2>2 DEF GrantIdentity, Becomes
  <2>3. QED
    BY <2>1, <2>2
<1>6. QED
  BY <1>1, <1>2, <1>3, <1>4, <1>5, IdentityWriters

\* What an administrator granted stays granted in the history.
LEMMA GrantsStay ==
  ASSUME [Next]_vars
  PROVE  companyTo \subseteq companyTo' /\ operators \subseteq operators'
<1>1. CASE UNCHANGED vars
  BY <1>1 DEF vars, history
<1>2. CASE Next
  BY <1>2 DEF Next, Consume, Grant, tables, history, Command, ReadCode, ReadIdentity, ReadPolicy,
              Fail, End, IssueCode, Expire, MarkUsed, Upsert, WriteBack, Deactivate,
              DeleteAccount, GrantIdentity, GrantPolicy, GrantAborts
<1>3. QED
  BY <1>1, <1>2

-----------------------------------------------------------------------------
(* The conjuncts of the inductive invariant, one by one. *)

\* Locals are what the place of the thread says they are.
LEMMA LocalsStep == TypeOK /\ LocalsInv /\ [Next]_vars => LocalsInv'
<1> SUFFICES ASSUME TypeOK, LocalsInv, [Next]_vars PROVE LocalsInv'
  OBVIOUS
<1>1. ASSUME NEW w \in Workers
      PROVE  /\ pc'[w] \notin {"upsert", "writeback"} => scope'[w] = {}
             /\ pc'[w] \in {"idle", "code", "mark", "identity"} => seen'[w] = Unmapped
             /\ pc'[w] \notin {"idle", "code"} => Owner(w)' \in Accounts
  <2>1. Untouched(w) \/ Advances(w)
    BY ThreadSteps
  <2>2. code[w] \in Codes
    BY DEF TypeOK
  <2>3. Owner(w) \in Accounts /\ code'[w] = code[w] => Owner(w)' \in Accounts
    BY <2>2, CodesStay DEF Owner
  <2>4. CASE Untouched(w)
    BY <2>3, <2>4 DEF Untouched, LocalsInv
  <2>5. CASE Advances(w)
    BY <2>3, <2>5 DEF Advances, LocalsInv
  <2>6. QED
    BY <2>1, <2>4, <2>5
<1>2. ASSUME granting' # NoGrant PROVE granting'.user \in Accounts
  <2>1. CASE UNCHANGED granting
    BY <1>2, <2>1 DEF LocalsInv
  <2>2. ASSUME NEW t \in Senders, NEW u \in Accounts, NEW role \in Roles,
               NEW S \in SUBSET Sources \ {{}}, NEW active \in BOOLEAN,
               GrantIdentity(t, u, role, S, active)
        PROVE  granting'.user \in Accounts
    BY <2>2 DEF GrantIdentity
  <2>3. CASE GrantPolicy \/ GrantAborts
    BY <1>2, <2>3 DEF GrantPolicy, GrantAborts
  <2>4. QED
    BY <2>1, <2>2, <2>3, OtherWriters DEF Grant
<1>3. QED
  BY <1>1, <1>2 DEF LocalsInv

\* A thread between the mark and the upsert has marked its code itself.
LEMMA MarkedThreads ==
  ASSUME TypeOK, LinksInv, [Next]_vars, NEW w \in Workers, pc'[w] \in Marked
  PROVE  /\ code'[w] = code[w]
         /\ pc[w] \in Marked \/ MarkUsed(w)
         /\ ~Upsert(w)
<1>1. Untouched(w) \/ Advances(w)
  BY ThreadSteps
<1>2. CASE Untouched(w)
  <2>1. ~Upsert(w)
    BY <1>2 DEF Untouched, Upsert, Goto, TypeOK
  <2>2. QED
    BY <1>2, <2>1 DEF Untouched
<1>3. CASE Advances(w)
  <2>1. ~Upsert(w)
    BY DEF Upsert, Goto, TypeOK, Marked
  <2>2. QED
    BY <1>3, <2>1 DEF Advances, Marked
<1>4. QED
  BY <1>1, <1>2, <1>3

\* One link per code, at most, and only for the thread that won the mark.
LEMMA LinksStep == TypeOK /\ LinksInv /\ [Next]_vars => LinksInv'
<1> SUFFICES ASSUME TypeOK, LinksInv, [Next]_vars PROVE LinksInv'
  OBVIOUS
<1>0. /\ links \in [Codes -> Nat] /\ codes \in [Codes -> Code]
      /\ \A w \in Workers : code[w] \in Codes
  BY DEF TypeOK
<1>1. ASSUME NEW c \in Codes PROVE links'[c] =< 1 /\ (links'[c] # 0 => codes'[c].used)
  <2>1. links[c] =< 1 /\ (links[c] # 0 => codes'[c].used)
    BY CodesStay DEF LinksInv
  <2>2. CASE UNCHANGED links
    BY <2>1, <2>2
  <2>3. ASSUME NEW w \in Workers, Upsert(w)
        PROVE  links'[c] =< 1 /\ (links'[c] # 0 => codes'[c].used)
    <3>1. pc[w] \in Marked /\ links' = [links EXCEPT ![code[w]] = @ + 1]
      BY <2>3 DEF Upsert, Marked
    <3>2. codes'[code[w]].used /\ links[code[w]] = 0
      BY <1>0, <3>1, CodesStay DEF LinksInv
    <3>3. CASE c = code[w]
      BY <1>0, <3>1, <3>2, <3>3
    <3>4. CASE c # code[w]
      BY <1>0, <2>1, <3>1, <3>4
    <3>5. QED
      BY <3>3, <3>4
  <2>4. QED
    BY <2>2, <2>3, OtherWriters
<1>2. ASSUME NEW w \in Workers, MarkUsed(w), pc'[w] \in Marked
      PROVE  /\ codes'[code[w]].used
             /\ ~codes[code[w]].used
             /\ links[code[w]] = 0 /\ UNCHANGED links
             /\ \A v \in Workers \ {w} : Untouched(v)
  <2>1. ~End(w)
    BY <1>2 DEF End, Exit, Goto, TypeOK, Marked
  <2>2. codes' = [codes EXCEPT ![code[w]].used = TRUE] /\ ~codes[code[w]].used /\ UNCHANGED links
    BY <1>2, <2>1 DEF MarkUsed, history
  <2>3. codes'[code[w]].used
    BY <1>0, <2>2 DEF Code
  <2>4. links[code[w]] = 0
    BY <1>0, <2>2 DEF LinksInv
  <2>5. \A v \in Workers \ {w} : Untouched(v)
    BY <1>2, ConsumeMoves DEF Consume
  <2>6. QED
    BY <2>2, <2>3, <2>4, <2>5
<1>3. ASSUME NEW v \in Workers, NEW w \in Workers,
             pc'[v] \in Marked, pc'[w] \in Marked, code'[v] = code'[w]
      PROVE  v = w
  <2>1. /\ code'[v] = code[v] /\ code'[w] = code[w]
        /\ pc[v] \in Marked \/ MarkUsed(v)
        /\ pc[w] \in Marked \/ MarkUsed(w)
    BY <1>3, MarkedThreads
  <2>2. CASE pc[v] \in Marked /\ pc[w] \in Marked
    BY <1>3, <2>1, <2>2 DEF LinksInv
  <2>3. CASE MarkUsed(v)
    <3>1. v # w => pc[w] \in Marked
      BY <1>2, <1>3, <2>3 DEF Untouched
    <3>2. QED
      BY <1>2, <1>3, <2>1, <2>3, <3>1 DEF LinksInv
  <2>4. CASE MarkUsed(w)
    <3>1. v # w => pc[v] \in Marked
      BY <1>2, <1>3, <2>4 DEF Untouched
    <3>2. QED
      BY <1>2, <1>3, <2>1, <2>4, <3>1 DEF LinksInv
  <2>5. QED
    BY <2>1, <2>2, <2>3, <2>4
<1>4. ASSUME NEW w \in Workers, pc'[w] \in Marked
      PROVE  codes'[code'[w]].used /\ links'[code'[w]] = 0
  <2>1. code'[w] = code[w] /\ (pc[w] \in Marked \/ MarkUsed(w)) /\ ~Upsert(w)
    BY <1>4, MarkedThreads
  <2>2. CASE MarkUsed(w)
    BY <1>2, <1>4, <2>1, <2>2
  <2>3. CASE pc[w] \in Marked
    <3>1. codes'[code[w]].used /\ links[code[w]] = 0
      BY <1>0, <2>3, CodesStay DEF LinksInv
    <3>2. ASSUME NEW v \in Workers, Upsert(v) PROVE links'[code[w]] = links[code[w]]
      <4>1. pc[v] \in Marked /\ v # w /\ links' = [links EXCEPT ![code[v]] = @ + 1]
        BY <2>1, <3>2 DEF Upsert, Marked
      <4>2. code[v] # code[w]
        BY <2>3, <4>1 DEF LinksInv
      <4>3. QED
        BY <1>0, <4>1, <4>2
    <3>3. QED
      BY <2>1, <3>1, <3>2, OtherWriters
  <2>4. QED
    BY <2>1, <2>2, <2>3
<1>5. QED
  BY <1>1, <1>3, <1>4 DEF LinksInv

\* Company data is granted before a policy, an identity, a thread or the script
\* has it.
LEMMA CompanyStep ==
  TypeOK /\ LocalsInv /\ CompanyInv /\ [Next]_vars => CompanyInv'
<1> SUFFICES ASSUME TypeOK, LocalsInv, CompanyInv, [Next]_vars PROVE CompanyInv'
  OBVIOUS
<1>0. companyTo \subseteq companyTo' /\ companyTo \subseteq Accounts
  BY GrantsStay DEF TypeOK
<1>1. ASSUME NEW u \in Accounts, "company" \in policy'[u] PROVE u \in companyTo'
  <2>1. CASE UNCHANGED policy
    BY <1>0, <1>1, <2>1 DEF CompanyInv, CompanyByAdmin
  <2>2. ASSUME NEW w \in Workers, WriteBack(w) PROVE u \in companyTo'
    <3>1. Owner(w) \in Accounts /\ scope[w] \in SUBSET Sources
      BY <2>2 DEF TypeOK, LocalsInv, WriteBack
    <3>2. policy' = Updated(Owner(w), scope[w])
      BY <2>2 DEF WriteBack
    <3>3. "company" \in policy[u] \/ (u = Owner(w) /\ "company" \in scope[w])
      BY <1>1, <3>1, <3>2, UpdatedPolicies
    <3>4. QED
      BY <1>0, <3>3 DEF CompanyInv, CompanyByAdmin
  <2>3. CASE GrantPolicy
    <3>1. granting.user \in Accounts /\ granting.sources \in SUBSET Sources
      BY <2>3 DEF TypeOK, LocalsInv, GrantPolicy
    <3>2. policy' = Updated(granting.user, granting.sources)
      BY <2>3 DEF GrantPolicy
    <3>3. "company" \in policy[u] \/ (u = granting.user /\ "company" \in granting.sources)
      BY <1>1, <3>1, <3>2, UpdatedPolicies
    <3>4. QED
      BY <1>0, <3>3 DEF CompanyInv, CompanyByAdmin
  <2>4. ASSUME NEW v \in Accounts, DeleteAccount(v) PROVE "company" \in policy[u]
    BY <1>1, <2>4 DEF TypeOK, DeleteAccount
  <2>5. QED
    BY <1>0, <1>1, <2>1, <2>2, <2>3, <2>4, PolicyWriters DEF CompanyInv, CompanyByAdmin
<1>2. ASSUME NEW t \in Senders, "company" \in identity'[t].sources
      PROVE  identity'[t].user \in companyTo'
  <2>1. CASE Becomes(t, identity[t].user, identity[t].role, identity[t].sources)
    BY <1>0, <1>2, <2>1 DEF CompanyInv, CompanyByAdmin, Becomes
  <2>2. ASSUME NEW w \in Workers, Becomes(t, Owner(w), seen[w].role, scope[w])
        PROVE  identity'[t].user \in companyTo'
    BY <1>0, <1>2, <2>2 DEF CompanyInv, Becomes
  <2>3. CASE Becomes(t, NoAccount, "viewer", {})
    BY <1>2, <2>3 DEF Becomes
  <2>4. CASE BecomesGranted(t)
    BY <1>2, <2>4 DEF BecomesGranted
  <2>5. QED
    BY <2>1, <2>2, <2>3, <2>4, IdentitySteps
<1>3. ASSUME NEW w \in Workers, "company" \in scope'[w] PROVE Owner(w)' \in companyTo'
  <2>1. code[w] \in Codes
    BY DEF TypeOK
  <2>2. Owner(w) \in Accounts /\ code'[w] = code[w] => Owner(w)' = Owner(w)
    BY <2>1, CodesStay DEF Owner
  <2>3. CASE "company" \in scope[w] /\ code'[w] = code[w]
    BY <1>0, <2>2, <2>3 DEF CompanyInv
  <2>4. CASE pc[w] = "policy" /\ scope'[w] = policy[Owner(w)] /\ code'[w] = code[w]
    <3>1. Owner(w) \in Accounts
      BY <2>4 DEF LocalsInv
    <3>2. QED
      BY <1>0, <1>3, <2>2, <2>4, <3>1 DEF CompanyInv, CompanyByAdmin
  <2>5. Untouched(w) \/ Advances(w)
    BY ThreadSteps
  <2>6. pc[w] = "idle" => scope[w] = {}
    BY DEF LocalsInv
  <2>7. QED
    BY <1>3, <2>3, <2>4, <2>5, <2>6 DEF Untouched, Advances
<1>4. ASSUME "company" \in granting'.sources PROVE granting'.user \in companyTo'
  <2>1. CASE UNCHANGED granting
    BY <1>0, <1>4, <2>1 DEF CompanyInv
  <2>2. ASSUME NEW s \in Senders, NEW u \in Accounts, NEW role \in Roles,
               NEW S \in SUBSET Sources \ {{}}, NEW active \in BOOLEAN,
               GrantIdentity(s, u, role, S, active)
        PROVE  granting'.user \in companyTo'
    BY <1>4, <2>2 DEF GrantIdentity
  <2>3. CASE GrantPolicy \/ GrantAborts
    <3>1. granting' = NoGrant
      BY <1>2, <2>3 DEF GrantPolicy, GrantAborts
    <3>2. granting'.sources = {}
      BY <3>1 DEF NoGrant
    <3>3. QED
      BY <1>4, <3>2
  <2>4. QED
    BY <2>1, <2>2, <2>3, OtherWriters DEF Grant
<1>5. QED
  BY <1>1, <1>2, <1>3, <1>4 DEF CompanyInv, CompanyByAdmin

\* The operator role is granted for a sender and an account before an identity,
\* or a thread that read one, has it.
LEMMA OperatorStep ==
  TypeOK /\ LocalsInv /\ OperatorInv /\ [Next]_vars => OperatorInv'
<1> SUFFICES ASSUME TypeOK, LocalsInv, OperatorInv, [Next]_vars PROVE OperatorInv'
  OBVIOUS
<1>0. operators \subseteq operators' /\ operators \subseteq Senders \X Accounts
  BY GrantsStay DEF TypeOK
<1>1. ASSUME NEW t \in Senders, identity'[t].role = "operator"
      PROVE  <<t, identity'[t].user>> \in operators'
  <2>1. CASE Becomes(t, identity[t].user, identity[t].role, identity[t].sources)
    BY <1>0, <1>1, <2>1 DEF OperatorInv, OperatorByAdmin, Becomes
  <2>2. ASSUME NEW w \in Workers, Upsert(w), by[w] = t,
               Becomes(t, Owner(w), seen[w].role, scope[w])
        PROVE  <<t, identity'[t].user>> \in operators'
    <3>1. <<t, seen[w].user>> \in operators
      BY <1>1, <2>2 DEF OperatorInv, Becomes
    <3>2. seen[w].user \in {NoAccount, Owner(w)} /\ seen[w].user # NoAccount
      BY <1>0, <2>2, <3>1, LinkConstants DEF OperatorInv, Upsert
    <3>3. QED
      BY <1>0, <2>2, <3>1, <3>2 DEF Becomes
  <2>3. CASE Becomes(t, NoAccount, "viewer", {})
    BY <1>1, <2>3 DEF Becomes
  <2>4. CASE BecomesGranted(t)
    BY <1>1, <2>4 DEF BecomesGranted
  <2>5. QED
    BY <2>1, <2>2, <2>3, <2>4, IdentitySteps
<1>2. ASSUME NEW w \in Workers
      PROVE  /\ seen'[w].role = "operator" => <<by'[w], seen'[w].user>> \in operators'
             /\ pc'[w] = "upsert" => seen'[w].user \in {NoAccount, Owner(w)'}
  <2>1. Untouched(w) \/ Advances(w)
    BY ThreadSteps
  <2>2. code[w] \in Codes /\ by[w] \in Senders
    BY DEF TypeOK
  <2>3. Owner(w) \in Accounts /\ code'[w] = code[w] => Owner(w)' = Owner(w)
    BY <2>2, CodesStay DEF Owner
  <2>4. seen'[w].role = "operator" => <<by'[w], seen'[w].user>> \in operators'
    <3>1. Unmapped.role # "operator"
      BY DEF Unmapped
    <3>2. CASE by'[w] = by[w] /\ seen'[w] = seen[w]
      BY <1>0, <3>2 DEF OperatorInv
    <3>3. CASE seen'[w] = Unmapped
      BY <3>1, <3>3
    <3>4. CASE by'[w] = by[w] /\ seen'[w] = identity[by[w]]
      BY <1>0, <2>2, <3>4 DEF OperatorInv, OperatorByAdmin
    <3>5. pc[w] = "idle" => seen[w] = Unmapped
      BY DEF LocalsInv
    <3>6. QED
      BY <2>1, <3>2, <3>3, <3>4, <3>5 DEF Untouched, Advances
  <2>5. ASSUME pc'[w] = "upsert" PROVE seen'[w].user \in {NoAccount, Owner(w)'}
    <3>1. /\ code'[w] = code[w] /\ seen'[w] = seen[w]
          /\ pc[w] \in {"policy", "upsert"}
          /\ pc[w] = "policy" => seen[w].user \in {NoAccount, Owner(w)}
      BY <2>1, <2>5 DEF Untouched, Advances
    <3>2. Owner(w) \in Accounts
      BY <3>1 DEF LocalsInv
    <3>3. QED
      BY <2>3, <3>1, <3>2 DEF OperatorInv
  <2>6. QED
    BY <2>4, <2>5
<1>3. QED
  BY <1>1, <1>2 DEF OperatorInv, OperatorByAdmin

\* The sources that are offered to a command are never taken back while it
\* runs, unless its code is issued only now.
LEMMA OffersGrow ==
  ASSUME TypeOK, LocalsInv, [Next]_vars, NEW w \in Workers,
         pc[w] # "idle", pc'[w] # "idle", Owner(w) \in Accounts
  PROVE  /\ offered[w] \subseteq offered'[w]
         /\ policy'[Owner(w)] \subseteq policy[Owner(w)] \union offered'[w]
<1>0. /\ policy \in [Accounts -> {{"simulator"}, Sources}]
      /\ offered \in [Workers -> SUBSET Sources]
      /\ code[w] \in Codes
  BY DEF TypeOK
<1>1. CASE UNCHANGED <<policy, offered>>
  BY <1>1
<1>2. ASSUME NEW c \in Codes, NEW u \in Accounts, IssueCode(c, u)
      PROVE  UNCHANGED policy /\ offered'[w] = offered[w]
  <2>1. c # code[w]
    BY <1>2, LinkConstants DEF IssueCode, NotIssued, Owner
  <2>2. QED
    BY <1>2, <2>1 DEF IssueCode
<1>3. ASSUME NEW v \in Workers, NEW t \in Senders, NEW c \in Codes, Command(v, t, c)
      PROVE  UNCHANGED policy /\ offered'[w] = offered[w]
  BY <1>0, <1>3 DEF Command, tables
<1>4. ASSUME NEW v \in Workers, End(v) PROVE offered'[w] = offered[w]
  <2>1. v # w
    BY <1>4 DEF End, Exit, Goto, TypeOK
  <2>2. QED
    BY <1>0, <1>4, <2>1 DEF End
<1>5. ASSUME NEW v \in Workers, WriteBack(v)
      PROVE  /\ offered[w] \subseteq offered'[w]
             /\ policy'[Owner(w)] \subseteq policy[Owner(w)] \union offered'[w]
  <2>1. v # w
    BY <1>5 DEF WriteBack, Exit, Goto, TypeOK
  <2>2. offered'[w] = Offered(Owner(v), policy'[Owner(v)])[w]
    BY <1>5, <2>1 DEF WriteBack, Offered
  <2>3. offered[w] \subseteq offered'[w]
    BY <2>2 DEF Offered
  <2>4. CASE Owner(v) = Owner(w)
    BY <2>2, <2>4 DEF Offered
  <2>5. CASE Owner(v) # Owner(w)
    <3>1. policy'[Owner(w)] = policy[Owner(w)]
      BY <1>0, <1>5, <2>5 DEF WriteBack, Updated
    <3>2. QED
      BY <2>3, <3>1
  <2>6. QED
    BY <2>3, <2>4, <2>5
<1>6. ASSUME GrantPolicy
      PROVE  /\ offered[w] \subseteq offered'[w]
             /\ policy'[Owner(w)] \subseteq policy[Owner(w)] \union offered'[w]
  <2>1. offered'[w] = Offered(granting.user, policy'[granting.user])[w]
    BY <1>6 DEF GrantPolicy, Offered
  <2>2. offered[w] \subseteq offered'[w]
    BY <2>1 DEF Offered
  <2>3. CASE granting.user = Owner(w)
    BY <2>1, <2>3 DEF Offered
  <2>4. CASE granting.user # Owner(w)
    <3>1. policy'[Owner(w)] = policy[Owner(w)]
      BY <1>0, <1>6, <2>4 DEF GrantPolicy, Updated
    <3>2. QED
      BY <2>2, <3>1
  <2>5. QED
    BY <2>2, <2>3, <2>4
<1>7. \/ UNCHANGED offered
      \/ \E c \in Codes, u \in Accounts : IssueCode(c, u)
      \/ \E v \in Workers, t \in Senders, c \in Codes : Command(v, t, c)
      \/ \E v \in Workers : End(v) \/ WriteBack(v)
      \/ GrantPolicy
  <2>1. CASE UNCHANGED vars
    BY <2>1 DEF vars, history
  <2>2. CASE Next
    BY <2>2 DEF Next, Consume, Grant, history, ReadCode, ReadIdentity, ReadPolicy, Fail, Expire,
                MarkUsed, Upsert, Deactivate, DeleteAccount, GrantIdentity, GrantAborts
  <2>3. QED
    BY <2>1, <2>2
<1>8. ASSUME NEW u \in Accounts, DeleteAccount(u)
      PROVE  UNCHANGED offered /\ policy'[Owner(w)] \subseteq policy[Owner(w)]
  BY <1>0, <1>8 DEF DeleteAccount, Sources, history
<1>9. \/ UNCHANGED policy
      \/ \E v \in Workers : WriteBack(v)
      \/ \E u \in Accounts : DeleteAccount(u)
      \/ GrantPolicy
  BY PolicyWriters
<1>10. QED
  BY <1>1, <1>2, <1>3, <1>4, <1>5, <1>6, <1>7, <1>8, <1>9

\* A running command has been offered what its policy allows now, and what it
\* has read of it.
LEMMA OfferStep ==
  TypeOK /\ LocalsInv /\ OfferInv /\ [Next]_vars => OfferInv'
<1> SUFFICES ASSUME TypeOK, LocalsInv, OfferInv, [Next]_vars, NEW w \in Workers
             PROVE  /\ pc'[w] # "idle" /\ Owner(w)' \in Accounts =>
                         policy'[Owner(w)'] \subseteq offered'[w]
                    /\ pc'[w] = "upsert" => scope'[w] \subseteq offered'[w]
  BY DEF OfferInv
<1>0. /\ codes \in [Codes -> Code] /\ code[w] \in Codes
      /\ Owner(w) \in Accounts \union {NoAccount}
      /\ offered \in [Workers -> SUBSET Sources]
  BY DEF TypeOK, Owner, Code
<1>1. Untouched(w) \/ Advances(w)
  BY ThreadSteps
<1>2. ASSUME pc'[w] # "idle", Owner(w)' \in Accounts
      PROVE  policy'[Owner(w)'] \subseteq offered'[w]
  <2>1. CASE pc[w] = "idle"
    <3>1. PICK t \in Senders, c \in Codes : Command(w, t, c)
      <4>1. ~Untouched(w)
        BY <1>2, <2>1 DEF Untouched
      <4>2. Consume(w)
        <5>1. \A v \in Workers : Consume(v) => v = w
          BY <4>1, ConsumeMoves
        <5>2. ~(UNCHANGED thread)
          BY <4>1 DEF Untouched, thread
        <5>3. QED
          BY <5>1, <5>2 DEF Next, Grant, IssueCode, Expire, Deactivate, DeleteAccount,
                            GrantIdentity, GrantPolicy, GrantAborts, vars
      <4>3. QED
        BY <2>1, <4>2 DEF Consume, ReadCode, MarkUsed, ReadIdentity, ReadPolicy, Upsert,
                          WriteBack, Fail
    <3>2. Owner(w)' = codes[c].owner
      BY <3>1 DEF Command, Owner, tables, TypeOK
    <3>3. codes[c].owner # NoAccount
      BY <1>2, <3>2, LinkConstants
    <3>4. offered'[w] = policy[codes[c].owner] /\ UNCHANGED policy
      BY <1>0, <3>1, <3>3 DEF Command, tables
    <3>5. QED
      BY <3>2, <3>4
  <2>2. CASE pc[w] # "idle" /\ Owner(w) \in Accounts
    <3>1. code'[w] = code[w]
      BY <1>1, <1>2, <2>2 DEF Untouched, Advances
    <3>2. Owner(w)' = Owner(w)
      BY <1>0, <2>2, <3>1, CodesStay DEF Owner
    <3>3. policy[Owner(w)] \subseteq offered[w]
      BY <2>2 DEF OfferInv
    <3>4. QED
      BY <1>2, <2>2, <3>2, <3>3, OffersGrow
  <2>3. CASE pc[w] # "idle" /\ Owner(w) = NoAccount
    <3>1. code'[w] = code[w]
      BY <1>1, <1>2, <2>3 DEF Untouched, Advances
    <3>2. codes'[code[w]].owner # codes[code[w]].owner
      BY <1>2, <2>3, <3>1, LinkConstants DEF Owner
    <3>3. PICK u \in Accounts : IssueCode(code[w], u)
      <4>1. ASSUME NEW c \in Codes, Expire(c)
            PROVE  codes'[code[w]].owner = codes[code[w]].owner
        BY <1>0, <4>1 DEF Expire, Code
      <4>2. ASSUME NEW v \in Workers, MarkUsed(v)
            PROVE  codes'[code[w]].owner = codes[code[w]].owner
        BY <1>0, <4>2 DEF MarkUsed, Code
      <4>3. ASSUME NEW c \in Codes, NEW u \in Accounts, IssueCode(c, u)
            PROVE  c = code[w]
        BY <1>0, <3>2, <4>3 DEF IssueCode
      <4>4. ASSUME NEW u \in Accounts, DeleteAccount(u)
            PROVE  codes'[code[w]].owner = codes[code[w]].owner
        <5>1. /\ codes[code[w]] \in Code
              /\ codes'[code[w]] \in {codes[code[w]], [codes[code[w]] EXCEPT !.used = TRUE]}
          BY <1>0, <4>4 DEF DeleteAccount
        <5>2. QED
          BY <5>1 DEF Code
      <4>5. QED
        BY <3>2, <4>1, <4>2, <4>3, <4>4, CodeWriters
    <3>4. offered'[w] = policy[u] /\ UNCHANGED policy
      BY <1>0, <2>3, <3>3 DEF IssueCode
    <3>5. codes[code[w]] \in Code /\ codes' = [codes EXCEPT ![code[w]].owner = u]
      BY <1>0, <3>3 DEF IssueCode
    <3>6. Owner(w)' = u
      BY <1>0, <3>1, <3>5 DEF Owner, Code
    <3>7. QED
      BY <3>4, <3>6
  <2>4. QED
    BY <1>0, <2>1, <2>2, <2>3
<1>3. ASSUME pc'[w] = "upsert" PROVE scope'[w] \subseteq offered'[w]
  <2>1. \/ pc[w] = "upsert" /\ scope'[w] = scope[w]
        \/ pc[w] = "policy" /\ scope'[w] = policy[Owner(w)]
    BY <1>1, <1>3 DEF Untouched, Advances
  <2>2. Owner(w) \in Accounts
    BY <2>1 DEF LocalsInv
  <2>3. offered[w] \subseteq offered'[w]
    BY <1>3, <2>1, <2>2, OffersGrow
  <2>4. scope'[w] \subseteq offered[w]
    BY <2>1, <2>2 DEF OfferInv
  <2>5. QED
    BY <2>3, <2>4
<1>4. QED
  BY <1>2, <1>3

\* No sender gets an account after it was deleted, from a thread or the script.
LEMMA DeletedStep == TypeOK /\ DeletedForGood /\ [Next]_vars => DeletedForGood'
<1> SUFFICES ASSUME TypeOK, DeletedForGood, [Next]_vars, NEW t \in Senders
             PROVE  identity'[t].user \notin deleted'
  BY DEF DeletedForGood
<1>0. identity[t] \in Identity /\ identity[t].user \notin deleted
  BY DEF TypeOK, DeletedForGood
<1>1. ASSUME NEW u \in Accounts, DeleteAccount(u) PROVE identity'[t].user \notin deleted'
  <2>1. Unmapped.user \notin deleted'
    BY <1>1, LinkConstants DEF TypeOK, DeleteAccount, Unmapped
  <2>2. QED
    BY <1>0, <1>1, <2>1 DEF DeleteAccount
<1>2. CASE UNCHANGED deleted
  <2>1. CASE Becomes(t, identity[t].user, identity[t].role, identity[t].sources)
    BY <1>0, <1>2, <2>1 DEF Becomes
  <2>2. ASSUME NEW w \in Workers, Upsert(w), Becomes(t, Owner(w), seen[w].role, scope[w])
        PROVE  identity'[t].user \notin deleted'
    BY <1>2, <2>2 DEF Upsert, Becomes
  <2>3. CASE Becomes(t, NoAccount, "viewer", {})
    BY <1>2, <2>3, LinkConstants DEF TypeOK, Becomes
  <2>4. CASE BecomesGranted(t)
    BY <1>2, <2>4 DEF BecomesGranted
  <2>5. QED
    BY <2>1, <2>2, <2>3, <2>4, IdentitySteps
<1>3. QED
  BY <1>1, <1>2, OtherWriters

-----------------------------------------------------------------------------
(* The theorems. *)

\* The initial state satisfies the inductive invariant.
LEMMA Initially == Init => IInv
<1> SUFFICES ASSUME Init PROVE IInv
  OBVIOUS
<1>1. TypeOK
  BY TypeInit
<1>2. LocalsInv
  BY DEF Init, LocalsInv
<1>3. LinksInv
  BY DEF Init, LinksInv, Marked
<1>4. CompanyInv
  BY DEF Init, CompanyInv, CompanyByAdmin, NoGrant, Unmapped
<1>5. OperatorInv
  BY DEF Init, OperatorInv, OperatorByAdmin, Unmapped
<1>6. OfferInv
  BY DEF Init, OfferInv
<1>7. DeletedForGood
  BY DEF Init, DeletedForGood
<1>8. QED
  BY <1>1, <1>2, <1>3, <1>4, <1>5, <1>6, <1>7 DEF IInv

\* The inductive invariant holds throughout, for any number of threads, senders,
\* accounts, codes, grants and deletions.
THEOREM InductiveInvariant == Spec => []IInv
<1>1. IInv /\ [Next]_vars => IInv'
  BY TypeStep, LocalsStep, LinksStep, CompanyStep, OperatorStep, OfferStep, DeletedStep DEF IInv
<1>2. QED
  BY <1>1, Initially, PTL DEF Spec

\* The tables and locals of account linking keep their types; a policy always
\* allows the simulator.
THEOREM TypeCorrect == Spec => []TypeOK
<1>1. IInv => TypeOK
  BY DEF IInv
<1>2. QED
  BY <1>1, InductiveInvariant, PTL

\* A link code links at most one sender, however many threads present it.
THEOREM CodesCorrect == Spec => []OneLinkPerCode
<1>1. IInv => OneLinkPerCode
  BY DEF IInv, LinksInv, OneLinkPerCode
<1>2. QED
  BY <1>1, InductiveInvariant, PTL

\* No account reaches company data, on the web or through a Telegram identity,
\* that an administrator never granted it to.
THEOREM CompanyCorrect == Spec => []CompanyByAdmin
<1>1. IInv => CompanyByAdmin
  BY DEF IInv, CompanyInv
<1>2. QED
  BY <1>1, InductiveInvariant, PTL

\* No sender is operator of an account without an administrator having made that
\* sender operator of that account.
THEOREM OperatorsCorrect == Spec => []OperatorByAdmin
<1>1. IInv => OperatorByAdmin
  BY DEF IInv, OperatorInv
<1>2. QED
  BY <1>1, InductiveInvariant, PTL

\* A deleted account stays without a Telegram sender, however late a /link command
\* or a grant that had begun before comes to write.
THEOREM DeletedCorrect == Spec => []DeletedForGood
<1>1. IInv => DeletedForGood
  BY DEF IInv
<1>2. QED
  BY <1>1, InductiveInvariant, PTL

\* The upsert of a /link command gives the sender only sources that the account's
\* policy allowed during the command.
THEOREM LinksCorrect == Spec => LinkGivesWhatWasOffered
<1>1. ASSUME IInv, NEW w \in Workers, Upsert(w)
      PROVE  identity'[by[w]].sources \subseteq offered[w]
  <2>1. identity'[by[w]] =
          [user |-> Owner(w), role |-> seen[w].role, sources |-> scope[w], active |-> TRUE]
    BY <1>1 DEF IInv, TypeOK, Upsert
  <2>2. identity'[by[w]].sources = scope[w]
    BY <2>1
  <2>3. QED
    BY <1>1, <2>2 DEF IInv, OfferInv, Upsert
<1>2. IInv /\ [Next]_vars =>
        [\A w \in Workers : Upsert(w) => identity'[by[w]].sources \subseteq offered[w]]_vars
  BY <1>1
<1>3. QED
  BY <1>2, InductiveInvariant, PTL DEF Spec, LinkGivesWhatWasOffered
=============================================================================
