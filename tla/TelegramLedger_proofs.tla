----------------------- MODULE TelegramLedger_proofs -----------------------
(***************************************************************************)
(* Proofs about TelegramLedger, for any number of workers, updates, ledger *)
(* entries and clock units.                                                *)
(***************************************************************************)
EXTENDS TelegramLedger, TLAPS

(***************************************************************************)
(* The inductive invariant.  The properties are not inductive by           *)
(* themselves: what makes popping from the FRONT right is that the i-th    *)
(* entry of the ledger is the (completions - Len + i)-th completion, and   *)
(* that the entries are in order of time.                                  *)
(***************************************************************************)
LocalsInv ==
  \A w \in Workers :
    /\ pc[w] = "claiming" => key[w] \in Keys /\ cutoff[w] =< now - Retention
    /\ pc[w] = "idle" => key[w] = NoKey

HoldersInv ==
  /\ \A v, w \in Workers :
       pc[v] = "working" /\ pc[w] = "working" /\ key[v] = key[w] /\ key[v] \in Keys => v = w
  /\ \A k \in Keys : k \in inflight <=> \E w \in Workers : pc[w] = "working" /\ key[w] = k

EntriesInv ==
  /\ Len(processed) =< Capacity
  /\ \A i \in 1..Len(processed) :
       /\ processed[i].key \notin inflight
       /\ processed[i].at =< now
       /\ done[processed[i].key] =
            [at |-> processed[i].at, serial |-> completions - Len(processed) + i]
  /\ \A i, j \in 1..Len(processed) : i < j => processed[i].at =< processed[j].at

ForgottenInv ==
  \A k \in Keys : Claims!Repeatable(k) \/ Remembers(processed, k)

IInv == TypeOK /\ LocalsInv /\ HoldersInv /\ EntriesInv /\ ForgottenInv

-----------------------------------------------------------------------------
(* The ledger's two ways to lose entries. *)

\* DropFirst(s, n) is the sequence that begins with the (n+1)-th entry of s.
LEMMA DropFirstEntries ==
  ASSUME NEW s \in Seq(Entry), NEW n \in 0..Len(s)
  PROVE  /\ DropFirst(s, n) \in Seq(Entry)
         /\ Len(DropFirst(s, n)) = Len(s) - n
         /\ \A i \in 1..(Len(s) - n) : DropFirst(s, n)[i] = s[i + n]
  BY DEF DropFirst

\* Dropping the first entries of the ledger, whatever the number, keeps the
\* rest dated and in order.
LEMMA PruneKeepsEntries ==
  ASSUME IInv, NEW n \in 0..Len(processed), processed' = DropFirst(processed, n),
         now' = now, done' = done, completions' = completions,
         \A i \in 1..Len(processed') : processed'[i].key \notin inflight'
  PROVE  EntriesInv'
<1>1. /\ processed \in Seq(Entry) /\ completions \in Nat /\ now \in Nat
      /\ Len(processed) \in Nat
  BY DEF IInv, TypeOK
<1>a. /\ Len(processed') = Len(processed) - n
      /\ \A i \in 1..(Len(processed) - n) : processed'[i] = processed[i + n]
  BY <1>1, DropFirstEntries
<1>2. /\ Len(processed') = Len(processed) - n
      /\ \A i \in 1..(Len(processed) - n) :
           /\ processed'[i] = processed[i + n]
           /\ i + n \in 1..Len(processed)
  BY <1>1, <1>a
<1>3. Len(processed') =< Capacity
  BY <1>1, <1>2, LedgerConstants DEF IInv, EntriesInv
<1>4. ASSUME NEW i \in 1..Len(processed')
      PROVE  /\ processed'[i].key \notin inflight'
             /\ processed'[i].at =< now'
             /\ done'[processed'[i].key] =
                  [at |-> processed'[i].at,
                   serial |-> completions' - Len(processed') + i]
  <2>1. processed'[i] = processed[i + n] /\ i + n \in 1..Len(processed)
    BY <1>2
  <2>2. /\ processed[i + n].at =< now
        /\ done[processed[i + n].key] =
             [at |-> processed[i + n].at, serial |-> completions - Len(processed) + (i + n)]
    BY <2>1 DEF IInv, EntriesInv
  <2>3. completions - Len(processed) + (i + n) = completions' - Len(processed') + i
    BY <1>1, <1>2
  <2>4. QED
    BY <2>1, <2>2, <2>3
<1>5. ASSUME NEW i \in 1..Len(processed'), NEW j \in 1..Len(processed'), i < j
      PROVE  processed'[i].at =< processed'[j].at
  <2>1. /\ processed'[i] = processed[i + n] /\ i + n \in 1..Len(processed)
        /\ processed'[j] = processed[j + n] /\ j + n \in 1..Len(processed)
    BY <1>2
  <2>2. i + n < j + n
    BY <1>1, <1>5
  <2>3. QED
    BY <2>1, <2>2 DEF IInv, EntriesInv
<1>6. QED
  BY <1>3, <1>4, <1>5 DEF EntriesInv

\* Trimming a sequence drops its first entries, and leaves at most Capacity.
LEMMA TrimEntries ==
  ASSUME NEW s \in Seq(Entry)
  PROVE  \E n \in 0..Len(s) :
           /\ Trim(s) = DropFirst(s, n)
           /\ n = IF Len(s) > Capacity THEN Len(s) - Capacity ELSE 0
<1>1. CASE Len(s) > Capacity
  BY <1>1, LedgerConstants DEF Trim
<1>2. CASE ~(Len(s) > Capacity)
  <2>1. DropFirst(s, 0) = s
    BY DEF DropFirst
  <2>2. QED
    BY <1>2, <2>1 DEF Trim
<1>3. QED
  BY <1>1, <1>2

\* Stamping a key that the ledger does not hold appends an entry.
LEMMA StampNew ==
  ASSUME NEW s \in Seq(Entry), NEW k \in Keys, NEW t \in Nat, ~Remembers(s, k)
  PROVE  /\ Stamp(s, k, t) = Append(s, [key |-> k, at |-> t])
         /\ Stamp(s, k, t) \in Seq(Entry)
  BY DEF Stamp, Entry

-----------------------------------------------------------------------------
(* Types and thread locals. *)

\* A worker that completes its update holds a key of the in-flight set, so the
\* key is new to the ledger.
LEMMA HeldIsNew ==
  ASSUME TypeOK, HoldersInv, EntriesInv,
         NEW w \in Workers, pc[w] = "working", key[w] # NoKey
  PROVE  /\ key[w] \in Keys
         /\ key[w] \in inflight
         /\ ~Remembers(processed, key[w])
<1>1. key[w] \in Keys
  BY DEF TypeOK
<1>2. key[w] \in inflight
  BY <1>1 DEF HoldersInv
<1>3. QED
  BY <1>1, <1>2 DEF EntriesInv, Remembers

\* How many entries the next completion pushes out.
Overflow == IF Len(processed) = Capacity THEN 1 ELSE 0

\* What Complete does to the ledger: one entry goes last, and the first one
\* leaves when there were Capacity of them.
LEMMA CompleteEntries ==
  ASSUME IInv, NEW w \in Workers, Complete(w), key[w] # NoKey
  PROVE  /\ processed' \in Seq(Entry)
         /\ Overflow \in 0..Len(processed)
         /\ Len(processed') = Len(processed) + 1 - Overflow
         /\ processed'[Len(processed) + 1 - Overflow] = [key |-> key[w], at |-> now]
         /\ \A i \in 1..(Len(processed) - Overflow) : processed'[i] = processed[i + Overflow]
<1> DEFINE L == Len(processed)
           n == Overflow
           e == [key |-> key[w], at |-> now]
           s == Append(processed, e)
<1>1. /\ processed \in Seq(Entry) /\ L \in Nat /\ L =< Capacity
      /\ key[w] \in Keys /\ e \in Entry /\ now \in Nat
      /\ n = IF L = Capacity THEN 1 ELSE 0
  BY HeldIsNew DEF IInv, TypeOK, EntriesInv, Complete, Finish, Entry, Overflow
<1>2. Stamp(processed, key[w], now) = s /\ s \in Seq(Entry)
  BY <1>1, HeldIsNew, StampNew DEF IInv, Complete, Finish
<1>3. /\ Len(s) = L + 1
      /\ s[L + 1] = e
      /\ \A i \in 1..L : s[i] = processed[i]
  BY <1>1
<1>4. processed' = Trim(s)
  BY <1>2 DEF Complete
<1>5. PICK m \in 0..Len(s) :
        /\ Trim(s) = DropFirst(s, m)
        /\ m = IF Len(s) > Capacity THEN Len(s) - Capacity ELSE 0
  BY <1>2, TrimEntries
<1> HIDE DEF s, e, n, L
<1>6. m = n
  BY <1>1, <1>3, <1>5, LedgerConstants
<1>7. /\ processed' = DropFirst(s, n)
      /\ n \in 0..Len(s)
      /\ n \in 0..L
  BY <1>1, <1>3, <1>4, <1>5, <1>6, LedgerConstants
<1>8. /\ processed' \in Seq(Entry)
      /\ Len(processed') = Len(s) - n
      /\ \A i \in 1..(Len(s) - n) : processed'[i] = s[i + n]
  BY <1>2, <1>7, DropFirstEntries
<1>9. processed'[L + 1 - n] = s[L + 1]
  BY <1>1, <1>3, <1>7, <1>8
<1>10. ASSUME NEW i \in 1..(L - n)
       PROVE  processed'[i] = processed[i + n]
  BY <1>1, <1>3, <1>7, <1>8
<1>11. QED
  BY <1>1, <1>3, <1>7, <1>8, <1>9, <1>10 DEF e, n, L

\* The ledger and the history agree on every entry.
LEMMA EntryIsLastCompletion ==
  ASSUME EntriesInv, NEW i \in 1..Len(processed)
  PROVE  /\ done[processed[i].key].at = processed[i].at
         /\ done[processed[i].key].serial = completions - Len(processed) + i
<1> DEFINE d == [at |-> processed[i].at, serial |-> completions - Len(processed) + i]
<1>1. done[processed[i].key] = d
  BY DEF EntriesInv
<1>2. d.at = processed[i].at /\ d.serial = completions - Len(processed) + i
  OBVIOUS
<1> HIDE DEF d
<1>3. QED
  BY <1>1, <1>2

\* The invariant holds when the process starts: nothing is held or remembered.
LEMMA InvInit == Init => IInv
<1> SUFFICES ASSUME Init PROVE IInv
  OBVIOUS
<1>1. TypeOK
  BY LedgerConstants DEF Init, TypeOK, Entry, Completion, Claims!Never
<1>2. LocalsInv /\ HoldersInv
  BY LedgerConstants DEF Init, LocalsInv, HoldersInv
<1>3. EntriesInv /\ ForgottenInv
  BY LedgerConstants DEF Init, EntriesInv, ForgottenInv, Claims!Repeatable, Claims!Never
<1>4. QED
  BY <1>1, <1>2, <1>3 DEF IInv

\* What pruning does to the ledger: the first n entries go, and all are older
\* than Retention.
LEMMA PruneEntries ==
  ASSUME IInv, NEW w \in Workers, pc[w] = "claiming",
         NEW n \in 0..Len(processed), ExpiredPrefix(n, cutoff[w]),
         processed' = DropFirst(processed, n)
  PROVE  /\ processed' \in Seq(Entry)
         /\ Len(processed') = Len(processed) - n
         /\ \A i \in 1..(Len(processed) - n) : processed'[i] = processed[i + n]
         /\ \A i \in 1..n : processed[i].at < now - Retention
<1>1. /\ processed' \in Seq(Entry)
      /\ Len(processed') = Len(processed) - n
      /\ \A i \in 1..(Len(processed) - n) : processed'[i] = processed[i + n]
  BY DropFirstEntries DEF IInv, TypeOK
<1>2. cutoff[w] \in Int /\ cutoff[w] =< now - Retention /\ now \in Nat
  BY DEF IInv, TypeOK, LocalsInv
<1>3. ASSUME NEW i \in 1..n
      PROVE  processed[i].at < now - Retention
  <2>1. processed[i] \in Entry
    BY DEF IInv, TypeOK
  <2>2. processed[i].at \in Nat /\ processed[i].at < cutoff[w]
    BY <2>1 DEF ExpiredPrefix, Entry
  <2>3. QED
    BY <1>2, <2>2, LedgerConstants
<1>4. QED
  BY <1>1, <1>3

\* No step of a thread, of the clock or of a restart breaks a type, and entries
\* are stamped for proper update ids only.
LEMMA TypesStep ==
  ASSUME IInv, [Next]_vars
  PROVE  TypeOK' /\ LocalsInv'
<1> USE LedgerConstants DEF IInv, TypeOK, LocalsInv
<1>1. ASSUME NEW w \in Workers, NEW k \in Keys, BeginClaim(w, k)
      PROVE  TypeOK' /\ LocalsInv'
  BY <1>1 DEF BeginClaim, ledgerVars, historyVars
<1>2. ASSUME NEW w \in Workers, BeginAnonymous(w)
      PROVE  TypeOK' /\ LocalsInv'
  BY <1>2 DEF BeginAnonymous, ledgerVars, historyVars
<1>3. ASSUME NEW w \in Workers, Grant(w)
      PROVE  TypeOK' /\ LocalsInv'
  <2>1. processed' \in Seq(Entry)
    BY <1>3, PruneEntries DEF Grant
  <2>2. QED
    BY <1>3, <2>1 DEF Grant, historyVars
<1>4. ASSUME NEW w \in Workers, Refuse(w)
      PROVE  TypeOK' /\ LocalsInv'
  <2>1. processed' \in Seq(Entry)
    BY <1>4, PruneEntries DEF Refuse
  <2>2. QED
    BY <1>4, <2>1 DEF Refuse, historyVars
<1>5. ASSUME NEW w \in Workers, Complete(w)
      PROVE  TypeOK' /\ LocalsInv'
  <2>1. CASE key[w] = NoKey
    BY <1>5, <2>1 DEF Complete, Finish, ledgerVars, historyVars
  <2>2. CASE key[w] # NoKey
    <3>1. processed' \in Seq(Entry)
      BY <1>5, <2>2, CompleteEntries
    <3>2. done' \in [Keys -> Completion] /\ completions' \in Nat
      <4>1. /\ completions' = completions + 1
            /\ done' = [done EXCEPT ![key[w]] = [at |-> now, serial |-> completions']]
        BY <1>5, <2>2 DEF Complete
      <4>2. [at |-> now, serial |-> completions'] \in Completion
        BY <4>1 DEF Completion
      <4>3. \A c \in Completion : [done EXCEPT ![key[w]] = c] \in [Keys -> Completion]
        OBVIOUS
      <4>4. completions' \in Nat
        BY <4>1
      <4>5. QED
        BY <4>1, <4>2, <4>3, <4>4
    <3>3. QED
      BY <1>5, <2>2, <3>1, <3>2 DEF Complete, Finish
  <2>3. QED
    BY <2>1, <2>2
<1>6. ASSUME NEW w \in Workers, Release(w)
      PROVE  TypeOK' /\ LocalsInv'
  BY <1>6 DEF Release, Finish, historyVars
<1>7. CASE Tick
  BY <1>7 DEF Tick, ledgerVars, historyVars
<1>8. CASE Restart
  BY <1>8 DEF Restart, Entry, Completion, Claims!Never
<1>9. CASE UNCHANGED vars
  BY <1>9 DEF vars
<1>10. QED
  BY <1>1, <1>2, <1>3, <1>4, <1>5, <1>6, <1>7, <1>8, <1>9 DEF Next, Worker

-----------------------------------------------------------------------------
(* Who holds what. *)

\* No step gives an update a second holder or leaves the in-flight set with a
\* key that no thread works on.
LEMMA HoldersStep ==
  ASSUME IInv, [Next]_vars
  PROVE  HoldersInv'
<1> USE LedgerConstants DEF IInv, TypeOK, LocalsInv, HoldersInv
<1>1. ASSUME NEW w \in Workers, NEW k \in Keys, BeginClaim(w, k)
      PROVE  HoldersInv'
  BY <1>1 DEF BeginClaim, ledgerVars
<1>2. ASSUME NEW w \in Workers, BeginAnonymous(w)
      PROVE  HoldersInv'
  BY <1>2 DEF BeginAnonymous, ledgerVars
<1>3. ASSUME NEW w \in Workers, Grant(w)
      PROVE  HoldersInv'
  BY <1>3 DEF Grant
<1>4. ASSUME NEW w \in Workers, Refuse(w)
      PROVE  HoldersInv'
  BY <1>4 DEF Refuse
<1>5. ASSUME NEW w \in Workers, Complete(w)
      PROVE  HoldersInv'
  BY <1>5 DEF Complete, Finish, ledgerVars
<1>6. ASSUME NEW w \in Workers, Release(w)
      PROVE  HoldersInv'
  BY <1>6 DEF Release, Finish
<1>7. CASE Tick
  BY <1>7 DEF Tick, ledgerVars
<1>8. CASE Restart
  BY <1>8 DEF Restart
<1>9. CASE UNCHANGED vars
  BY <1>9 DEF vars
<1>10. QED
  BY <1>1, <1>2, <1>3, <1>4, <1>5, <1>6, <1>7, <1>8, <1>9 DEF Next, Worker

-----------------------------------------------------------------------------
(* The entries, and what has been forgotten. *)

\* Every step keeps the entries distinct, dated by their completions and in
\* order of time, though pruning may use an old cutoff.
LEMMA EntriesStep ==
  ASSUME IInv, [Next]_vars
  PROVE  EntriesInv'
<1>0. TypeOK /\ EntriesInv
  BY DEF IInv
<1>1. ASSUME NEW w \in Workers, NEW k \in Keys, BeginClaim(w, k)
      PROVE  EntriesInv'
  BY <1>0, <1>1 DEF BeginClaim, ledgerVars, historyVars, EntriesInv
<1>2. ASSUME NEW w \in Workers, BeginAnonymous(w)
      PROVE  EntriesInv'
  BY <1>0, <1>2 DEF BeginAnonymous, ledgerVars, historyVars, EntriesInv
<1>3. ASSUME NEW w \in Workers, Grant(w)
      PROVE  EntriesInv'
  <2>1. PICK n \in 0..Len(processed) :
          ExpiredPrefix(n, cutoff[w]) /\ processed' = DropFirst(processed, n)
    BY <1>3 DEF Grant
  <2>2. \A i \in 1..Len(processed') : processed'[i].key \notin inflight
    <3>1. /\ Len(processed') = Len(processed) - n
          /\ \A i \in 1..(Len(processed) - n) : processed'[i] = processed[i + n]
      BY <1>3, <2>1, PruneEntries DEF Grant
    <3>2. ASSUME NEW i \in 1..Len(processed')
          PROVE  i + n \in 1..Len(processed) /\ processed'[i] = processed[i + n]
      BY <1>0, <3>1 DEF TypeOK
    <3>3. QED
      BY <1>0, <3>2 DEF EntriesInv
  <2>3. \A i \in 1..Len(processed') : processed'[i].key # key[w]
    BY <1>3 DEF Grant, Remembers
  <2>4. QED
    BY <1>3, <2>1, <2>2, <2>3, PruneKeepsEntries DEF Grant, historyVars
<1>4. ASSUME NEW w \in Workers, Refuse(w)
      PROVE  EntriesInv'
  <2>1. PICK n \in 0..Len(processed) :
          ExpiredPrefix(n, cutoff[w]) /\ processed' = DropFirst(processed, n)
    BY <1>4 DEF Refuse
  <2>2. \A i \in 1..Len(processed') : processed'[i].key \notin inflight
    <3>1. /\ Len(processed') = Len(processed) - n
          /\ \A i \in 1..(Len(processed) - n) : processed'[i] = processed[i + n]
      BY <1>4, <2>1, PruneEntries DEF Refuse
    <3>2. ASSUME NEW i \in 1..Len(processed')
          PROVE  i + n \in 1..Len(processed) /\ processed'[i] = processed[i + n]
      BY <1>0, <3>1 DEF TypeOK
    <3>3. QED
      BY <1>0, <3>2 DEF EntriesInv
  <2>3. QED
    BY <1>4, <2>1, <2>2, PruneKeepsEntries DEF Refuse, historyVars
<1>5. ASSUME NEW w \in Workers, Complete(w)
      PROVE  EntriesInv'
  <2>1. CASE key[w] = NoKey
    BY <1>0, <1>5, <2>1 DEF Complete, Finish, ledgerVars, historyVars, EntriesInv
  <2>2. CASE key[w] # NoKey
    <3> DEFINE L == Len(processed)
               n == Overflow
               e == [key |-> key[w], at |-> now]
    <3>1. /\ processed' \in Seq(Entry)
          /\ n \in 0..L
          /\ Len(processed') = L + 1 - n
          /\ processed'[L + 1 - n] = e
          /\ \A i \in 1..(L - n) : processed'[i] = processed[i + n]
      BY <1>5, <2>2, CompleteEntries
    <3>e. e.key = key[w] /\ e.at = now
      OBVIOUS
    <3>2. /\ key[w] \in Keys
          /\ \A i \in 1..L : processed[i].key # key[w]
      BY <1>5, <2>2, HeldIsNew DEF Complete, Finish, Remembers, IInv
    <3>3. /\ inflight' = inflight \ {key[w]}
          /\ completions' = completions + 1
          /\ done' = [done EXCEPT ![key[w]] = [at |-> now, serial |-> completions + 1]]
          /\ now' = now
      BY <1>5, <2>2 DEF Complete, Finish
    <3>4. /\ L \in Nat /\ L =< Capacity /\ n \in {0, 1}
          /\ completions \in Nat /\ now \in Nat
          /\ \A i \in 1..L : processed[i].at \in Nat
      <4>1. \A i \in 1..L : processed[i] \in Entry
        BY <1>0 DEF TypeOK
      <4>2. QED
        BY <1>0, <4>1, LedgerConstants DEF EntriesInv, Entry, TypeOK, Overflow
    <3>5a. (n = 1 /\ L = Capacity) \/ (n = 0 /\ L # Capacity)
      BY DEF Overflow
    <3> HIDE DEF L, n, e
    <3>5. Len(processed') =< Capacity
      BY <3>1, <3>4, <3>5a, LedgerConstants
    <3>6. ASSUME NEW i \in 1..Len(processed')
          PROVE  /\ processed'[i].key \notin inflight'
                 /\ processed'[i].at =< now'
                 /\ done'[processed'[i].key] =
                      [at |-> processed'[i].at,
                       serial |-> completions' - Len(processed') + i]
      <4>1. CASE i = L + 1 - n
        <5>1. processed'[i] = e
          BY <3>1, <4>1
        <5>2. completions' - Len(processed') + i = completions + 1
          BY <3>1, <3>3, <3>4, <4>1
        <5>3. QED
          BY <1>0, <3>2, <3>3, <3>4, <3>e, <5>1, <5>2 DEF TypeOK
      <4>2. CASE i # L + 1 - n
        <5>1. i \in 1..(L - n) /\ i + n \in 1..L
          BY <3>1, <3>4, <4>2
        <5>2. processed'[i] = processed[i + n] /\ processed[i + n] \in Entry
          BY <1>0, <3>1, <5>1 DEF TypeOK, L
        <5>3. /\ processed[i + n].key \notin inflight
              /\ processed[i + n].at =< now
              /\ done[processed[i + n].key] =
                   [at |-> processed[i + n].at, serial |-> completions - L + (i + n)]
          BY <1>0, <5>1 DEF EntriesInv, L
        <5>4. processed[i + n].key # key[w] /\ processed[i + n].key \in Keys
          BY <3>2, <5>1, <5>2 DEF Entry
        <5>5. done'[processed[i + n].key] = done[processed[i + n].key]
          BY <1>0, <3>2, <3>3, <5>4 DEF TypeOK
        <5>6. completions - L + (i + n) = completions' - Len(processed') + i
          BY <3>1, <3>3, <3>4
        <5>7. QED
          BY <3>3, <5>2, <5>3, <5>5, <5>6
      <4>3. QED
        BY <4>1, <4>2
    <3>7. ASSUME NEW i \in 1..Len(processed'), NEW j \in 1..Len(processed'), i < j
          PROVE  processed'[i].at =< processed'[j].at
      <4>1. i \in 1..(L - n) /\ i + n \in 1..L
        BY <3>1, <3>4, <3>7
      <4>2. processed'[i] = processed[i + n]
        BY <3>1, <4>1
      <4>3. CASE j = L + 1 - n
        <5>1. processed[i + n].at =< now
          BY <1>0, <4>1 DEF EntriesInv, L
        <5>2. QED
          BY <3>1, <3>e, <4>2, <4>3, <5>1
      <4>4. CASE j # L + 1 - n
        <5>1. j \in 1..(L - n) /\ j + n \in 1..L /\ i + n < j + n
          BY <3>1, <3>4, <3>7, <4>4
        <5>2. processed'[j] = processed[j + n]
          BY <3>1, <5>1
        <5>3. processed[i + n].at =< processed[j + n].at
          BY <1>0, <4>1, <5>1 DEF EntriesInv, L
        <5>4. QED
          BY <4>2, <5>2, <5>3
      <4>5. QED
        BY <4>3, <4>4
    <3>8. QED
      BY <3>5, <3>6, <3>7 DEF EntriesInv
  <2>3. QED
    BY <2>1, <2>2
<1>6. ASSUME NEW w \in Workers, Release(w)
      PROVE  EntriesInv'
  BY <1>0, <1>6 DEF Release, Finish, historyVars, EntriesInv
<1>7. CASE Tick
  <2>1. ASSUME NEW i \in 1..Len(processed)
        PROVE  processed[i].at \in Nat
    <3>1. processed[i] \in Entry
      BY <1>0 DEF TypeOK
    <3>2. QED
      BY <3>1 DEF Entry
  <2>2. QED
    BY <1>0, <1>7, <2>1 DEF Tick, ledgerVars, historyVars, EntriesInv, TypeOK
<1>8. CASE Restart
  BY <1>8, LedgerConstants DEF Restart, EntriesInv
<1>9. CASE UNCHANGED vars
  BY <1>0, <1>9 DEF vars, EntriesInv
<1>10. QED
  BY <1>1, <1>2, <1>3, <1>4, <1>5, <1>6, <1>7, <1>8, <1>9 DEF Next, Worker

\* Pruning forgets only updates completed more than Retention ago.
LEMMA PruneForgetsOld ==
  ASSUME IInv, NEW w \in Workers, pc[w] = "claiming",
         NEW n \in 0..Len(processed), ExpiredPrefix(n, cutoff[w]),
         processed' = DropFirst(processed, n)
  PROVE  \A k \in Keys : Claims!Repeatable(k) \/ Remembers(processed', k)
<1> SUFFICES ASSUME NEW k \in Keys, ~Claims!Repeatable(k)
             PROVE  Remembers(processed', k)
  OBVIOUS
<1>1. PICK i \in 1..Len(processed) : processed[i].key = k
  BY DEF IInv, ForgottenInv, Remembers
<1>2. done[k].at = processed[i].at
  BY <1>1, EntryIsLastCompletion DEF IInv
<1>3. /\ Len(processed') = Len(processed) - n
      /\ \A j \in 1..(Len(processed) - n) : processed'[j] = processed[j + n]
      /\ \A j \in 1..n : processed[j].at < now - Retention
  BY PruneEntries
<1>4. ~(i \in 1..n)
  BY <1>2, <1>3 DEF Claims!Repeatable
<1>5. i - n \in 1..Len(processed') /\ (i - n) + n = i
  BY <1>3, <1>4 DEF IInv, TypeOK
<1>6. processed'[i - n].key = k
  BY <1>1, <1>3, <1>5
<1>7. QED
  BY <1>5, <1>6 DEF Remembers

\* Every step keeps the promise about forgotten updates: what Trim drops has
\* been followed by Capacity completions, what pruning drops is too old.
LEMMA ForgottenStep ==
  ASSUME IInv, [Next]_vars
  PROVE  ForgottenInv'
<1>0. TypeOK /\ EntriesInv /\ ForgottenInv
  BY DEF IInv
<1>1. ASSUME NEW w \in Workers, NEW k \in Keys, BeginClaim(w, k)
      PROVE  ForgottenInv'
  BY <1>0, <1>1 DEF BeginClaim, ledgerVars, historyVars, ForgottenInv,
     Remembers, Claims!Repeatable, Claims!Never
<1>2. ASSUME NEW w \in Workers, BeginAnonymous(w)
      PROVE  ForgottenInv'
  BY <1>0, <1>2 DEF BeginAnonymous, ledgerVars, historyVars, ForgottenInv,
     Remembers, Claims!Repeatable, Claims!Never
<1>3. ASSUME NEW w \in Workers, Grant(w)
      PROVE  ForgottenInv'
  <2>1. \A k \in Keys : Claims!Repeatable(k) \/ Remembers(processed', k)
    BY <1>3, PruneForgetsOld DEF Grant
  <2>2. QED
    BY <1>3, <2>1 DEF Grant, historyVars, ForgottenInv, Remembers,
       Claims!Repeatable, Claims!Never
<1>4. ASSUME NEW w \in Workers, Refuse(w)
      PROVE  ForgottenInv'
  <2>1. \A k \in Keys : Claims!Repeatable(k) \/ Remembers(processed', k)
    BY <1>4, PruneForgetsOld DEF Refuse
  <2>2. QED
    BY <1>4, <2>1 DEF Refuse, historyVars, ForgottenInv, Remembers,
       Claims!Repeatable, Claims!Never
<1>5. ASSUME NEW w \in Workers, Complete(w)
      PROVE  ForgottenInv'
  <2>1. CASE key[w] = NoKey
    BY <1>0, <1>5, <2>1 DEF Complete, Finish, ledgerVars, historyVars, ForgottenInv,
       Remembers, Claims!Repeatable, Claims!Never
  <2>2. CASE key[w] # NoKey
    <3> SUFFICES ASSUME NEW k \in Keys
                 PROVE  Claims!Repeatable(k)' \/ Remembers(processed', k)
      BY DEF ForgottenInv, Remembers
    <3>1. /\ Overflow \in 0..Len(processed)
          /\ Len(processed') = Len(processed) + 1 - Overflow
          /\ processed'[Len(processed) + 1 - Overflow].key = key[w]
          /\ \A i \in 1..(Len(processed) - Overflow) : processed'[i] = processed[i + Overflow]
      <4>1. [key |-> key[w], at |-> now].key = key[w]
        OBVIOUS
      <4>2. QED
        BY <1>5, <2>2, <4>1, CompleteEntries
    <3>2. /\ completions' = completions + 1
          /\ done' = [done EXCEPT ![key[w]] = [at |-> now, serial |-> completions + 1]]
          /\ now' = now
      BY <1>5, <2>2 DEF Complete, Finish
    <3>3. Len(processed) \in Nat /\ completions \in Nat /\ now \in Nat /\ done[k] \in Completion
      BY <1>0 DEF TypeOK
    <3>4. CASE k = key[w]
      BY <3>1, <3>3, <3>4 DEF Remembers
    <3>5. CASE k # key[w] /\ Claims!Repeatable(k)
      <4>1. done'[k] = done[k] /\ done[k].serial \in Nat
        BY <1>0, <3>2, <3>3, <3>5 DEF TypeOK, Completion
      <4>2. completions - done[k].serial >= Capacity =>
              completions' - done'[k].serial >= Capacity
        BY <3>2, <3>3, <4>1, LedgerConstants
      <4>3. QED
        BY <3>2, <3>5, <4>1, <4>2 DEF Claims!Repeatable, Claims!Never
    <3>6. CASE k # key[w] /\ Remembers(processed, k)
      <4>1. PICK i \in 1..Len(processed) : processed[i].key = k
        BY <3>6 DEF Remembers
      <4>2. done[k].serial = completions - Len(processed) + i
        BY <1>0, <4>1, EntryIsLastCompletion
      <4>3. CASE i > Overflow
        <5>1. i - Overflow \in 1..Len(processed') /\ i - Overflow \in 1..(Len(processed) - Overflow)
          BY <3>1, <3>3, <4>3
        <5>2. processed'[i - Overflow].key = k
          BY <3>1, <3>3, <4>1, <5>1
        <5>3. QED
          BY <5>1, <5>2 DEF Remembers
      <4>4. CASE ~(i > Overflow)
        <5>1. i = 1 /\ Len(processed) = Capacity
          BY <3>3, <4>4 DEF Overflow
        <5>2. done'[k] = done[k]
          BY <1>0, <3>2, <3>6 DEF TypeOK
        <5>3. completions' - done'[k].serial >= Capacity
          BY <3>2, <3>3, <4>2, <5>1, <5>2, LedgerConstants
        <5>4. QED
          BY <5>3 DEF Claims!Repeatable
      <4>5. QED
        BY <4>3, <4>4
    <3>7. QED
      BY <1>0, <3>4, <3>5, <3>6 DEF ForgottenInv
  <2>3. QED
    BY <2>1, <2>2
<1>6. ASSUME NEW w \in Workers, Release(w)
      PROVE  ForgottenInv'
  BY <1>0, <1>6 DEF Release, Finish, historyVars, ForgottenInv, Remembers,
     Claims!Repeatable, Claims!Never
<1>7. CASE Tick
  <2> SUFFICES ASSUME NEW k \in Keys
               PROVE  Claims!Repeatable(k)' \/ Remembers(processed', k)
    BY DEF ForgottenInv, Remembers
  <2>1. /\ now' = now + 1 /\ now \in Nat /\ done' = done /\ completions' = completions
        /\ processed' = processed /\ done[k].at \in Int
    BY <1>0, <1>7 DEF Tick, ledgerVars, historyVars, TypeOK, Completion
  <2>2. done[k].at < now - Retention => done[k].at < now' - Retention
    BY <2>1, LedgerConstants
  <2>3. QED
    BY <1>0, <2>1, <2>2 DEF ForgottenInv, Claims!Repeatable, Claims!Never
<1>8. CASE Restart
  BY <1>8 DEF Restart, ForgottenInv, Claims!Repeatable, Claims!Never
<1>9. CASE UNCHANGED vars
  BY <1>0, <1>9 DEF vars, ForgottenInv, Remembers, Claims!Repeatable, Claims!Never
<1>10. QED
  BY <1>1, <1>2, <1>3, <1>4, <1>5, <1>6, <1>7, <1>8, <1>9 DEF Next, Worker

-----------------------------------------------------------------------------
(* The theorems. *)

\* The ledger's inductive invariant: types, holders, entries and what has been
\* forgotten, together.
THEOREM InductiveInvariant == Spec => []IInv
<1>1. IInv /\ [Next]_vars => IInv'
  BY TypesStep, HoldersStep, EntriesStep, ForgottenStep DEF IInv
<1>2. QED
  BY InvInit, <1>1, PTL DEF Spec

\* The ledger's sets, entries and clocks keep their types: in particular no
\* entry is ever stamped for an update without an update_id.
THEOREM TypeCorrect == Spec => []TypeOK
<1>1. IInv => TypeOK
  BY DEF IInv
<1>2. QED
  BY InductiveInvariant, <1>1, PTL

\* Two threads never work on one update_id, and the in-flight set is exactly
\* what working threads hold.
THEOREM HoldersCorrect == Spec => []OneHolderPerUpdate
<1>1. IInv => OneHolderPerUpdate
  BY DEF IInv, TypeOK, HoldersInv, OneHolderPerUpdate, Holds
<1>2. QED
  BY InductiveInvariant, <1>1, PTL

\* A completed update is forgotten only after Retention or Capacity others.
THEOREM LedgerCorrect == Spec => []LedgerRemembers
<1>1. IInv => LedgerRemembers
  BY EntryIsLastCompletion DEF IInv, EntriesInv, ForgottenInv, LedgerRemembers
<1>2. QED
  BY InductiveInvariant, <1>1, PTL

\* A delivery is refused only for a live claim or a recent completion.
THEOREM RefusalsCorrect == Spec => RefusalIsJustified
<1>1. ASSUME IInv, NEW w \in Workers, Refuse(w), key[w] \notin inflight
      PROVE  done[key[w]].at >= cutoff[w]
  <2>1. PICK n \in 0..Len(processed) :
          ExpiredPrefix(n, cutoff[w]) /\ processed' = DropFirst(processed, n)
    BY <1>1 DEF Refuse
  <2>2. /\ processed \in Seq(Entry)
        /\ Len(processed') = Len(processed) - n
        /\ \A i \in 1..(Len(processed) - n) : processed'[i] = processed[i + n]
    BY <1>1, <2>1, PruneEntries DEF Refuse, IInv, TypeOK
  <2>3. PICK i \in 1..Len(processed') : processed'[i].key = key[w]
    BY <1>1 DEF Refuse, Remembers
  <2>4. /\ i + n \in 1..Len(processed) /\ n + 1 \in 1..Len(processed) /\ n + 1 =< i + n
        /\ n < Len(processed)
    BY <2>2
  <2>5. processed[i + n].key = key[w]
    BY <2>2, <2>3
  <2>6. processed[n + 1].at >= cutoff[w]
    BY <2>1, <2>4 DEF ExpiredPrefix
  <2>7. processed[n + 1].at =< processed[i + n].at
    <3>1. CASE i = 1
      <4>1. processed[n + 1] \in Entry
        BY <2>2, <2>4
      <4>2. processed[n + 1].at \in Nat
        BY <4>1 DEF Entry
      <4>3. QED
        BY <3>1, <4>2
    <3>2. CASE i # 1
      <4>1. n + 1 < i + n
        BY <2>2, <3>2
      <4>2. QED
        BY <1>1, <2>4, <4>1 DEF IInv, EntriesInv
    <3>3. QED
      BY <3>1, <3>2
  <2>8. done[key[w]].at = processed[i + n].at
    BY <1>1, <2>4, <2>5, EntryIsLastCompletion DEF IInv
  <2>9. /\ processed[n + 1].at \in Nat /\ processed[i + n].at \in Nat /\ cutoff[w] \in Int
    <3>1. processed[n + 1] \in Entry /\ processed[i + n] \in Entry
      BY <2>2, <2>4
    <3>2. QED
      BY <1>1, <3>1 DEF Entry, IInv, TypeOK
  <2>10. QED
    BY <2>6, <2>7, <2>8, <2>9
<1>2. IInv /\ [Next]_vars =>
        [\A w \in Workers :
           Refuse(w) => key[w] \in inflight \/ done[key[w]].at >= cutoff[w]]_vars
  BY <1>1
<1>3. QED
  BY InductiveInvariant, <1>2, PTL DEF Spec, RefusalIsJustified

-----------------------------------------------------------------------------
(* Refinement. *)

\* The claims the ledger's threads hold.
held == [w \in Workers |-> IF pc[w] = "working" THEN key[w] ELSE NoKey]

\* Every step of the ledger is a step of UpdateClaims or leaves its state alone:
\* Grant claims, Complete completes or releases an anonymous update, and what
\* the threads do before they hold the lock is invisible.
LEMMA StepRefinement ==
  ASSUME IInv, [Next]_vars
  PROVE  [Claims!Next]_(Claims!vars)
<1>0. TypeOK /\ LocalsInv /\ HoldersInv
  BY DEF IInv
<1> USE DEF Claims!vars, historyVars
<1>1. ASSUME NEW w \in Workers, NEW k \in Keys, BeginClaim(w, k)
      PROVE  UNCHANGED Claims!vars
  BY <1>0, <1>1 DEF BeginClaim, TypeOK
<1>2. ASSUME NEW w \in Workers, BeginAnonymous(w)
      PROVE  UNCHANGED Claims!vars
  BY <1>0, <1>2 DEF BeginAnonymous, TypeOK, LocalsInv
<1>3. ASSUME NEW w \in Workers, Grant(w), NEW k \in Keys, k = key[w]
      PROVE  Claims!Claim(w, k)
  <2>1. k # NoKey
    BY <1>3, LedgerConstants
  <2>2. \A j \in Keys : Claims!Repeatable(j) \/ Remembers(processed', j)
    BY <1>3, PruneForgetsOld DEF Grant
  <2>3. Claims!Repeatable(k)
    BY <1>3, <2>2 DEF Grant
  <2>4. held[w] = NoKey
    BY <1>3 DEF Grant, held
  <2>5. \A v \in Workers : held[v] # k
    BY <1>0, <1>3, <2>1 DEF Grant, HoldersInv, held
  <2>6. held' = [held EXCEPT ![w] = k]
    BY <1>0, <1>3 DEF Grant, held, TypeOK
  <2>7. UNCHANGED <<done, completions, now>>
    BY <1>3 DEF Grant
  <2>8. QED
    BY <2>3, <2>4, <2>5, <2>6, <2>7 DEF Claims!Claim, held
<1>4. ASSUME NEW w \in Workers, Refuse(w)
      PROVE  UNCHANGED Claims!vars
  BY <1>0, <1>4 DEF Refuse, TypeOK
<1>5. ASSUME NEW w \in Workers, Complete(w)
      PROVE  Claims!Complete(w) \/ UNCHANGED Claims!vars
  <2>1. CASE key[w] = NoKey
    BY <1>0, <1>5, <2>1 DEF Complete, Finish, TypeOK
  <2>2. CASE key[w] # NoKey
    <3>1. held[w] = key[w] /\ held' = [held EXCEPT ![w] = NoKey]
      BY <1>0, <1>5 DEF Complete, Finish, held, TypeOK
    <3>2. /\ completions' = completions + 1
          /\ done' = [done EXCEPT ![key[w]] = [at |-> now, serial |-> completions']]
          /\ now' = now
      BY <1>5, <2>2 DEF Complete, Finish
    <3>3. QED
      BY <2>2, <3>1, <3>2 DEF Claims!Complete, held
  <2>3. QED
    BY <2>1, <2>2
<1>6. ASSUME NEW w \in Workers, Release(w)
      PROVE  Claims!Release(w) \/ UNCHANGED Claims!vars
  <2>1. held[w] = key[w] /\ held' = [held EXCEPT ![w] = NoKey]
    BY <1>0, <1>6 DEF Release, Finish, held, TypeOK
  <2>2. UNCHANGED <<done, completions, now>>
    BY <1>6 DEF Release, Finish
  <2>3. CASE key[w] # NoKey
    BY <2>1, <2>2, <2>3 DEF Claims!Release, held
  <2>4. CASE key[w] = NoKey
    <3>1. held' = held
      BY <2>1, <2>4 DEF held
    <3>2. QED
      BY <2>2, <3>1 DEF held
  <2>5. QED
    BY <2>3, <2>4
<1>7. CASE Tick
  BY <1>0, <1>7 DEF Tick, Claims!Next, Claims!Tick, TypeOK
<1>8. CASE Restart
  BY <1>8 DEF Restart, Claims!Next, Claims!Restart
<1>9. CASE UNCHANGED vars
  BY <1>9 DEF vars
<1>10. ASSUME NEW w \in Workers, Worker(w)
       PROVE  [Claims!Next]_(Claims!vars)
  <2>1. ASSUME Grant(w) PROVE Claims!Next
    <3>1. key[w] \in Keys
      BY <1>0, <2>1 DEF Grant, LocalsInv
    <3>2. \E k \in Keys : Claims!Claim(w, k)
      BY <1>3, <2>1, <3>1
    <3>3. QED
      BY <3>2 DEF Claims!Next
  <2>2. QED
    BY <1>1, <1>2, <1>4, <1>5, <1>6, <1>10, <2>1 DEF Worker, Claims!Next
<1>11. QED
  BY <1>7, <1>8, <1>9, <1>10 DEF Next

\* Whatever the threads do, the ledger lets an update run again only when
\* UpdateClaims allows it.
THEOREM LedgerImplementsClaims == Spec => ImplementsClaims
<1>1. Init => Claims!Init
  BY DEF Init, Claims!Init
<1>2. QED
  BY InductiveInvariant, StepRefinement, <1>1, PTL DEF Spec, Claims!Spec, ImplementsClaims
=============================================================================
