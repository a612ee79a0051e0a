-------------------------- MODULE SourceReads_proofs --------------------------
(***************************************************************************)
(* Proofs about SourceReads, for any number of threads, browsers, limiters'*)
(* limits and windows, batches, backfills and readings.  Its three parts   *)
(* share no variable but thread and web, which the reads only move between *)
(* "ran" and "timed", so each part has its own inductive invariant.        *)
(***************************************************************************)
EXTENDS SourceReads, FiniteSetTheorems, SequenceTheorems, TLAPS

(***************************************************************************)
(* Data sources.  Wherever a browser's selection is kept (in its cookie,   *)
(* in a request under way, in the request being handled, in the server's   *)
(* memory), it was made while the policy allowed it; and what a thread has *)
(* read of the policy is still among the policies offered to it.           *)
(***************************************************************************)
Made(selection) == selection.explicit => selection.source \in chosen

SelectionsInv ==
  /\ \A b \in Browsers : Made(cookie[b])
  /\ Made(remembered)
  /\ \A r \in sent : Made(r.session)
  /\ web # Idle => Made(web.session)

Justified(w) ==
  \E allowed \in offered[w] :
    /\ thread[w].source \in allowed
    /\ thread[w].source \in chosen \union {default_source(allowed)}

ThreadInv(w) ==
  /\ thread[w].at # "idle" => policy \in offered[w]
  /\ thread[w].at \in {"default", "memory"} => thread[w].allowed \in offered[w]
  /\ thread[w].at = "memory" => \E p \in offered[w] : thread[w].source = default_source(p)
  /\ thread[w].at \in {"ran", "timed"} => Justified(w)

SourcesInv ==
  /\ SourcesTypeOK
  /\ SelectionsInv
  /\ \A w \in Workers : ThreadInv(w)

(***************************************************************************)
(* Limiters.  A deque holds the latest of the times admitted, in their     *)
(* order, and every earlier one has left the window.  That is so again for *)
(* the diagnosis limiter when its clock is set back, because what counts   *)
(* as admitted begins again with the deque; and the pacing of the requests *)
(* to the MCP server keeps it because whoever sleeps holds the lock, and   *)
(* will not wake before the last request has left the window.              *)
(***************************************************************************)
Recent(times, all, start) ==
  LET dropped == Len(all) - Len(times)
  IN /\ dropped >= 0
     /\ \A i \in 1..Len(times) : times[i] = all[dropped + i]
     /\ \A i \in 1..dropped : all[i] <= start

WindowInv ==
  /\ clock \in 0..MaxTime
  /\ wall \in 0..MaxTime
  /\ stamp \in [Callers -> 0..MaxTime]
  /\ \A c \in Callers : stamp[c] <= clock
  /\ log \in [Keys -> Seq(0..MaxTime)]
  /\ admitted \in [Keys -> Seq(0..MaxTime)]
  /\ \A k \in Keys :
       /\ Len(log[k]) <= Limit[k]
       /\ Recent(log[k], admitted[k], Now(k) - Window[k])

PaceInv ==
  /\ CallsTypeOK
  /\ \A c \in Callers :
       /\ lock = c => InCall(c, "asleep")
       /\ InCall(c, "asleep") =>
            /\ lock = c
            /\ log[Pace] # <<>> => call[c].wake >= log[Pace][1] + Window[Pace]
       /\ InCall(c, "pause") => call[c].attempt < McpAttempts - 1

LimitersInv == WindowInv /\ PaceInv

(***************************************************************************)
(* Telemetry.  Whoever has got past the index has made it unique; of the   *)
(* rows that were there when a run began, those before its offset are      *)
(* copied or still in its page; and a row that it looks at is in the page. *)
(***************************************************************************)
Page(p) == backfill[p].rows

BackfillInv(p) ==
  /\ backfill[p].begun <= Len(table)
  /\ backfill[p].at \in {"page", "find", "insert"} => unique
  /\ backfill[p].at \in {"find", "insert"} <=> Page(p) # <<>>
  /\ backfill[p].at = "index" => backfill[p].offset = 0
  /\ \A i \in Ids : i <= backfill[p].begun /\ i <= backfill[p].offset =>
       copies[i] = 1 \/ \E n \in 1..Len(Page(p)) : Page(p)[n] = i

TelemetryInv ==
  /\ TelemetryTypeOK
  /\ Len(table) <= readings
  /\ \A p \in Backfills : BackfillInv(p)
  /\ BackfillCopiesOnce

-----------------------------------------------------------------------------
(* Data sources. *)

Policies == {{"simulator"}, Sources}

\* The default of a normalised policy is one of the sources it allows.
LEMMA DefaultAllowed ==
  ASSUME NEW p \in Policies
  PROVE  /\ default_source(p) \in p
         /\ default_source(p) \in Sources
         /\ p \in SUBSET Sources
BY DEF Policies, Sources, default_source

\* What the grant script writes is normalised.
LEMMA Normalised ==
  ASSUME NEW S \in SUBSET Sources
  PROVE  normalize(S) \in Policies
<1>1. CASE "company" \in S
  BY <1>1 DEF Sources, normalize, Policies
<1>2. CASE "company" \notin S
  BY <1>2 DEF Sources, normalize, Policies
<1>3. QED
  BY <1>1, <1>2

LEMMA SelectionTypes ==
  /\ Unselected \in Selection
  /\ Unselected.explicit = FALSE
  /\ Idle.at = "idle"
  /\ \A source \in Sources, explicit \in BOOLEAN :
       [source |-> source, explicit |-> explicit] \in Selection
BY DEF Unselected, Selection, Sources, Idle

\* The locals of a request that is being handled, and of a thread.
LEMMA HandlingTypes ==
  ASSUME NEW r \in Handling
  PROVE  /\ r.at \in {"check", "selected", "default", "remember", "read", "timed"}
         /\ r.browser \in Browsers
         /\ r.page \in Pages
         /\ r.wanted \in Sources
         /\ r.session \in Selection
         /\ r.session.source \in Sources
         /\ r.session.explicit \in BOOLEAN
         /\ r.changed \in BOOLEAN
         /\ r # Idle
         /\ \A at \in {"check", "selected", "default", "remember", "read", "timed"} :
              [r EXCEPT !.at = at] \in Handling
BY DEF Handling, Selection, Idle

LEMMA WorkerTypes ==
  ASSUME NEW t \in Worker
  PROVE  /\ t.at \in {"idle", "allowed", "default", "memory", "ran", "timed"}
         /\ t.identity \in SUBSET Sources
         /\ t.allowed \in SUBSET Sources
         /\ t.source \in Sources
         /\ \A at \in {"idle", "allowed", "default", "memory", "ran", "timed"} :
              [t EXCEPT !.at = at] \in Worker
         /\ NoUpdate \in Worker
BY DEF Worker, NoUpdate, Sources

\* A thread that does nothing keeps its invariant when policies are only
\* offered and selections only made.
LEMMA ThreadKept ==
  ASSUME SourcesTypeOK, NEW w \in Workers, ThreadInv(w),
         thread'[w] = thread[w],
         thread[w].at # "idle" => offered[w] \subseteq offered'[w] /\ policy' \in offered'[w],
         chosen \subseteq chosen'
  PROVE  ThreadInv(w)'
BY DEF ThreadInv, Justified

\* Nor does the time a thread takes for its check of the limiter matter.
LEMMA ThreadMoved ==
  ASSUME SourcesTypeOK, NEW w \in Workers, ThreadInv(w), NEW at \in {"ran", "timed"},
         thread[w].at \in {"ran", "timed"},
         thread' = [thread EXCEPT ![w].at = at],
         UNCHANGED <<policy, offered, chosen>>
  PROVE  /\ thread' \in [Workers -> Worker]
         /\ \A v \in Workers : ThreadInv(v) => ThreadInv(v)'
<1>1. thread \in [Workers -> Worker] /\ thread[w] \in Worker
  BY DEF SourcesTypeOK
<1>2. [thread[w] EXCEPT !.at = at] \in Worker
  BY <1>1, WorkerTypes
<1>3. thread' \in [Workers -> Worker]
  BY <1>1, <1>2
<1>4. ThreadInv(w)'
  <2>1. thread'[w].at = at /\ thread'[w].source = thread[w].source
    BY <1>1, <1>2 DEF Worker
  <2>2. policy \in offered[w] /\ Justified(w)
    BY DEF ThreadInv
  <2>3. QED
    BY <2>1, <2>2 DEF ThreadInv, Justified
<1>5. ASSUME NEW v \in Workers, v # w, ThreadInv(v)
      PROVE  ThreadInv(v)'
  <2>1. thread'[v] = thread[v]
    BY <1>1, <1>5
  <2>2. QED
    BY <2>1, <1>5 DEF ThreadInv, Justified
<1>6. QED
  BY <1>3, <1>4, <1>5

\* The selections keep theirs when nothing but a choice is added.
LEMMA SelectionsKept ==
  ASSUME SelectionsInv, UNCHANGED site, chosen \subseteq chosen'
  PROVE  SelectionsInv'
BY DEF SelectionsInv, site, Made

LEMMA SourcesInitially == SourcesInit => SourcesInv
<1> SUFFICES ASSUME SourcesInit PROVE SourcesInv
  OBVIOUS
<1>1. SourcesTypeOK
  BY DataSourcesConstants
  DEF SourcesInit, SourcesTypeOK, Sources, Selection, Unselected, Worker, NoUpdate
<1>2. SelectionsInv
  BY DEF SourcesInit, SelectionsInv, Made, Unselected
<1>3. ASSUME NEW w \in Workers PROVE ThreadInv(w)
  BY DEF SourcesInit, ThreadInv, NoUpdate
<1>4. QED
  BY <1>1, <1>2, <1>3 DEF SourcesInv

\* The administrator's script and the browsers.
LEMMA AdministerStep == ASSUME SourcesInv, Administer PROVE SourcesInv'
<1> USE DEF SourcesInv
<1>1. ASSUME NEW granted \in SUBSET Sources \ {{}}, NEW same \in BOOLEAN, GrantIdentity(granted, same)
      PROVE  SourcesInv'
  <2> USE <1>1 DEF GrantIdentity
  <2>1. SourcesTypeOK'
    BY DataSourcesConstants DEF SourcesTypeOK, site
  <2>2. SelectionsInv'
    BY SelectionsKept
  <2>3. ASSUME NEW w \in Workers PROVE ThreadInv(w)'
    BY DEF ThreadInv, Justified
  <2>4. QED
    BY <2>1, <2>2, <2>3
<1>2. ASSUME GrantPolicy
      PROVE  SourcesInv'
  <2> USE <1>2 DEF GrantPolicy
  <2>1. policy' \in Policies
    BY Normalised DEF SourcesTypeOK
  <2>2. SourcesTypeOK'
    <3>1. offered' \in [Workers -> SUBSET Policies]
      BY <2>1 DEF SourcesTypeOK, Policies
    <3>2. QED
      BY <2>1, <3>1 DEF SourcesTypeOK, site, Policies
  <2>3. SelectionsInv'
    BY SelectionsKept
  <2>4. ASSUME NEW w \in Workers PROVE ThreadInv(w)'
    BY ThreadKept
  <2>5. QED
    BY <2>2, <2>3, <2>4
<1>3. QED
  BY <1>1, <1>2 DEF Administer

LEMMA BrowseStep == ASSUME SourcesInv, Browse PROVE SourcesInv'
<1> USE DEF SourcesInv
<1>w. web \in Handling \/ web = Idle
  BY DEF SourcesTypeOK
<1>h. ASSUME NEW at \in {"check", "selected", "default", "remember", "read"}, web.at = at
      PROVE  web \in Handling /\ web # Idle
  BY <1>w, <1>h, HandlingTypes, SelectionTypes
<1>1. ASSUME NEW b \in Browsers, NEW page \in Pages, NEW wanted \in Sources, Send(b, page, wanted)
      PROVE  SourcesInv'
  <2> DEFINE r == [browser |-> b, page |-> page, wanted |-> wanted, session |-> cookie[b]]
  <2> USE <1>1 DEF Send
  <2>1. r \in Request /\ r.session = cookie[b]
    BY DEF Request, SourcesTypeOK
  <2>2. sent' = sent \union {r}
    OBVIOUS
  <2> HIDE DEF r
  <2>3. SourcesTypeOK'
    BY <2>1, <2>2 DEF SourcesTypeOK, rows
  <2>4. SelectionsInv'
    BY <2>1, <2>2 DEF SelectionsInv, Made
  <2>5. ASSUME NEW w \in Workers PROVE ThreadInv(w)'
    BY DEF ThreadInv, Justified, rows
  <2>6. QED
    BY <2>3, <2>4, <2>5
<1>2. ASSUME NEW r \in sent, Accept(r)
      PROVE  SourcesInv'
  <2> USE <1>2 DEF Accept
  <2>1. r \in Request
    BY DEF SourcesTypeOK
  <2>2. web' \in Handling /\ web'.session = r.session
    BY <2>1 DEF Request, Handling
  <2>3. SourcesTypeOK'
    BY <2>2 DEF SourcesTypeOK, rows
  <2>4. SelectionsInv'
    BY <2>2 DEF SelectionsInv, Made
  <2>5. ASSUME NEW w \in Workers PROVE ThreadInv(w)'
    BY DEF ThreadInv, Justified, rows
  <2>6. QED
    BY <2>3, <2>4, <2>5
<1>3. ASSUME CheckWanted
      PROVE  SourcesInv'
  <2>1. web \in Handling /\ web # Idle
    BY <1>3, <1>h DEF CheckWanted
  <2> DEFINE next(page) == [web EXCEPT !.at = "selected", !.page = page, !.wanted = "simulator"]
  <2>a. ASSUME NEW page \in Pages
        PROVE  next(page) \in Handling /\ next(page).session = web.session
    BY <2>1, HandlingTypes DEF Handling, Sources
  <2>b. /\ web.wanted \in policy =>
             /\ web' = [next("current") EXCEPT !.changed = TRUE,
                          !.session = [source |-> web.wanted, explicit |-> TRUE]]
             /\ chosen' = chosen \union {web.wanted}
        /\ web.wanted \notin policy => web' = next("prompts") /\ UNCHANGED chosen
        /\ UNCHANGED <<rows, cookie, remembered, sent, thread, offered>>
    BY <1>3 DEF CheckWanted
  <2>c. {"current", "prompts"} \subseteq Pages /\ web.wanted \in Sources
    BY <2>1, HandlingTypes DEF Pages
  <2> USE <2>b
  <2> HIDE DEF next
  <2>2. CASE web.wanted \in policy
    <3>1. /\ web' \in Handling
          /\ web'.session.source = web.wanted
          /\ chosen' = chosen \union {web.wanted}
      <4> DEFINE s == [source |-> web.wanted, explicit |-> TRUE]
                 r == next("current")
      <4>1. s \in Selection /\ s.source = web.wanted
        BY <2>c DEF Selection
      <4>2. r \in Handling
        BY <2>a, <2>c
      <4>3. web' = [r EXCEPT !.changed = TRUE, !.session = s] /\ chosen' = chosen \union {web.wanted}
        BY <2>2
      <4> HIDE DEF s, r
      <4>4. web' \in Handling /\ web'.session = s
        BY <4>1, <4>2, <4>3 DEF Handling
      <4>5. QED
        BY <4>1, <4>3, <4>4
    <3>2. SourcesTypeOK'
      BY <2>c, <3>1 DEF SourcesTypeOK, rows
    <3>3. SelectionsInv'
      BY <3>1 DEF SelectionsInv, Made
    <3>4. ASSUME NEW w \in Workers PROVE ThreadInv(w)'
      BY <3>1, ThreadKept DEF rows, ThreadInv
    <3>5. QED
      BY <3>2, <3>3, <3>4
  <2>3. CASE web.wanted \notin policy
    <3>1. /\ web' \in Handling
          /\ web'.session = web.session
          /\ UNCHANGED chosen
      BY <2>3, <2>a, <2>c
    <3>2. SourcesTypeOK'
      BY <3>1 DEF SourcesTypeOK, rows
    <3>3. SelectionsInv'
      BY <2>1, <3>1 DEF SelectionsInv, Made
    <3>4. ASSUME NEW w \in Workers PROVE ThreadInv(w)'
      BY <3>1 DEF ThreadInv, Justified, rows
    <3>5. QED
      BY <3>2, <3>3, <3>4
  <2>4. QED
    BY <2>2, <2>3
<1>4. ASSUME SelectedSource
      PROVE  SourcesInv'
  <2> USE <1>4 DEF SelectedSource
  <2>1. web \in Handling /\ web # Idle
    BY <1>h
  <2>2. web' \in Handling /\ web'.session = web.session
    BY <2>1, HandlingTypes DEF Handling
  <2>3. SourcesTypeOK'
    BY <2>2 DEF SourcesTypeOK, rows
  <2>4. SelectionsInv'
    BY <2>1, <2>2 DEF SelectionsInv, Made
  <2>5. ASSUME NEW w \in Workers PROVE ThreadInv(w)'
    BY DEF ThreadInv, Justified, rows
  <2>6. QED
    BY <2>3, <2>4, <2>5
<1>5. ASSUME SelectDefault
      PROVE  SourcesInv'
  <2> USE <1>5 DEF SelectDefault
  <2>1. web \in Handling /\ web # Idle
    BY <1>h
  <2>2. default_source(policy) \in Sources
    BY DefaultAllowed DEF SourcesTypeOK, Policies
  <2>3. web' \in Handling /\ ~web'.session.explicit
    BY <2>1, <2>2, SelectionTypes DEF Handling
  <2>4. SourcesTypeOK'
    BY <2>3 DEF SourcesTypeOK, rows
  <2>5. SelectionsInv'
    BY <2>3 DEF SelectionsInv, Made
  <2>6. ASSUME NEW w \in Workers PROVE ThreadInv(w)'
    BY DEF ThreadInv, Justified, rows
  <2>7. QED
    BY <2>4, <2>5, <2>6
<1>6. ASSUME web \in Handling, web # Idle, Respond
      PROVE  /\ cookie' \in [Browsers -> Selection]
             /\ web' = Idle
             /\ \A b \in Browsers : cookie'[b] \in {cookie[b], web.session}
  BY <1>6, HandlingTypes DEF Respond, SourcesTypeOK
<1>7. ASSUME Remember
      PROVE  SourcesInv'
  <2> USE <1>7 DEF Remember
  <2>1. web \in Handling /\ web # Idle
    BY <1>h
  <2>2. remembered' \in {remembered, web.session}
    OBVIOUS
  <2>3. /\ cookie' \in [Browsers -> Selection]
        /\ \A b \in Browsers : cookie'[b] \in {cookie[b], web.session}
        /\ web' = Idle \/ (web' \in Handling /\ web'.session = web.session)
    <3>1. CASE Respond
      BY <2>1, <3>1, <1>6
    <3>2. CASE web' = [web EXCEPT !.at = "read"] /\ UNCHANGED cookie
      BY <2>1, <3>2, HandlingTypes DEF Handling, SourcesTypeOK
    <3>3. QED
      BY <3>1, <3>2
  <2>4. SourcesTypeOK'
    BY <2>1, <2>2, <2>3, HandlingTypes DEF SourcesTypeOK, rows
  <2>5. SelectionsInv'
    BY <2>1, <2>2, <2>3 DEF SelectionsInv, Made
  <2>6. ASSUME NEW w \in Workers PROVE ThreadInv(w)'
    BY DEF ThreadInv, Justified, rows
  <2>7. QED
    BY <2>4, <2>5, <2>6
<1>8. ASSUME Payload
      PROVE  SourcesInv'
  <2> USE <1>8 DEF Payload
  <2>1. web \in Handling /\ web # Idle
    BY <1>h
  <2>2. SourcesTypeOK'
    BY <2>1, <1>6 DEF SourcesTypeOK, rows
  <2>3. SelectionsInv'
    BY <2>1, <1>6 DEF SelectionsInv, Made
  <2>4. ASSUME NEW w \in Workers PROVE ThreadInv(w)'
    BY DEF ThreadInv, Justified, rows
  <2>5. QED
    BY <2>2, <2>3, <2>4
<1>9. QED
  BY <1>1, <1>2, <1>3, <1>4, <1>5, <1>7, <1>8 DEF Browse

\* What a thread does concerns nobody else.
LEMMA OneThread ==
  ASSUME SourcesInv, NEW w \in Workers, NEW t \in Worker, NEW policies \in SUBSET Policies,
         thread' = [thread EXCEPT ![w] = t],
         offered' = [offered EXCEPT ![w] = policies],
         UNCHANGED <<rows, site, chosen>>,
         ThreadInv(w)'
  PROVE  SourcesInv'
<1> USE DEF SourcesInv
<1>1. SourcesTypeOK'
  BY DEF SourcesTypeOK, rows, site, Policies
<1>2. SelectionsInv'
  BY SelectionsKept
<1>3. ASSUME NEW v \in Workers PROVE ThreadInv(v)'
  <2>1. CASE v = w
    BY <2>1
  <2>2. CASE v # w
    <3>1. thread'[v] = thread[v] /\ offered'[v] = offered[v]
      BY <2>2 DEF SourcesTypeOK
    <3>2. QED
      BY <3>1 DEF ThreadInv, Justified, rows
  <2>3. QED
    BY <2>1, <2>2
<1>4. QED
  BY <1>1, <1>2, <1>3

LEMMA ThreadStep ==
  ASSUME SourcesInv, NEW w \in Workers,
         \/ ReadIdentity(w) \/ ReadAllowed(w) \/ ReadDefault(w) \/ PickSource(w) \/ Answered(w)
  PROVE  SourcesInv'
<1> DEFINE was == thread[w]
<1> USE DEF SourcesInv
<1>t. /\ thread \in [Workers -> Worker] /\ was \in Worker
      /\ offered \in [Workers -> SUBSET Policies] /\ offered[w] \in SUBSET Policies
      /\ policy \in Policies /\ identity \in SUBSET Sources
      /\ ThreadInv(w)
      /\ offered = [offered EXCEPT ![w] = offered[w]]
  BY DEF SourcesTypeOK, Policies
<1>d. NoUpdate \in Worker
  BY <1>t, WorkerTypes
<1>1. CASE ReadIdentity(w)
  <2> DEFINE t == [was EXCEPT !.at = "allowed", !.identity = identity]
  <2>1. /\ thread' = [thread EXCEPT ![w] = t]
        /\ offered' = [offered EXCEPT ![w] = {policy}]
        /\ UNCHANGED <<rows, site, chosen>>
    BY <1>1, <1>t DEF ReadIdentity
  <2>2. t \in Worker /\ t.at = "allowed"
    BY <1>t DEF Worker
  <2> HIDE DEF t
  <2>3. thread'[w] = t /\ offered'[w] = {policy} /\ policy' = policy
    BY <2>1, <1>t DEF rows
  <2>4. ThreadInv(w)'
    BY <2>2, <2>3 DEF ThreadInv
  <2>5. {policy} \in SUBSET Policies
    BY <1>t
  <2>6. QED
    BY <2>1, <2>2, <2>4, <2>5, OneThread
<1>2. CASE ReadAllowed(w)
  <2> DEFINE t == [was EXCEPT !.at = "default", !.allowed = policy]
  <2>1. /\ thread' = [thread EXCEPT ![w] = t]
        /\ offered' = offered
        /\ UNCHANGED <<rows, site, chosen>>
        /\ was.at = "allowed"
    BY <1>2, <1>t DEF ReadAllowed, At
  <2>2. t \in Worker /\ t.at = "default" /\ t.allowed = policy
    BY <1>t, DefaultAllowed DEF Worker
  <2> HIDE DEF t
  <2>3. thread'[w] = t /\ policy' = policy
    BY <2>1, <1>t DEF rows
  <2>4. ThreadInv(w)'
    BY <1>t, <2>1, <2>2, <2>3 DEF ThreadInv
  <2>5. QED
    BY <1>t, <2>1, <2>2, <2>4, OneThread
<1>3. CASE ReadDefault(w)
  <2> DEFINE t == [was EXCEPT !.at = "memory", !.source = default_source(policy)]
  <2>1. /\ thread' = [thread EXCEPT ![w] = t]
        /\ offered' = offered
        /\ UNCHANGED <<rows, site, chosen>>
        /\ was.at = "default"
    BY <1>3, <1>t DEF ReadDefault, At
  <2>2. t \in Worker /\ t.at = "memory" /\ t.allowed = was.allowed /\ t.source = default_source(policy)
    BY <1>t, DefaultAllowed DEF Worker
  <2> HIDE DEF t
  <2>3. thread'[w] = t /\ policy' = policy
    BY <2>1, <1>t DEF rows
  <2>4. ThreadInv(w)'
    BY <1>t, <2>1, <2>2, <2>3 DEF ThreadInv
  <2>5. QED
    BY <1>t, <2>1, <2>2, <2>4, OneThread
<1>4. ASSUME Done(w), UNCHANGED <<rows, site, chosen>>
      PROVE  SourcesInv'
  <2>1. thread'[w] = NoUpdate
    BY <1>4, <1>t DEF Done
  <2>2. ThreadInv(w)'
    BY <2>1 DEF ThreadInv, NoUpdate
  <2>3. {} \in SUBSET Policies /\ offered' = [offered EXCEPT ![w] = {}]
    BY <1>4 DEF Done
  <2>4. QED
    BY <1>4, <1>d, <2>2, <2>3, OneThread DEF Done
<1>5. CASE PickSource(w)
  <2>1. CASE pick(w) \in was.identity
    <3> DEFINE t == [NoUpdate EXCEPT !.at = "ran", !.source = pick(w)]
    <3>1. /\ thread' = [thread EXCEPT ![w] = t]
          /\ offered' = offered
          /\ UNCHANGED <<rows, site, chosen>>
          /\ was.at = "memory"
      BY <1>5, <2>1 DEF PickSource, At
    <3>2. pick(w) \in Sources
      BY <1>t, WorkerTypes DEF pick, SourcesTypeOK, Selection
    <3>3. t \in Worker /\ t.at = "ran" /\ t.source = pick(w)
      BY <3>2 DEF Worker, NoUpdate
    <3>4. \E p \in offered[w] : pick(w) \in p /\ pick(w) \in chosen \union {default_source(p)}
      <4>1. /\ was.allowed \in offered[w]
            /\ \E p \in offered[w] : was.source = default_source(p)
        BY <1>t, <3>1 DEF ThreadInv
      <4>2. CASE remembered.explicit /\ remembered.source \in was.allowed
        <5>1. remembered.source \in chosen
          BY <4>2 DEF SelectionsInv, Made
        <5>2. QED
          BY <4>1, <4>2, <5>1 DEF pick
      <4>3. CASE ~(remembered.explicit /\ remembered.source \in was.allowed)
        <5>1. PICK p \in offered[w] : was.source = default_source(p)
          BY <4>1
        <5>2. p \in Policies
          BY <1>t
        <5>3. pick(w) = default_source(p)
          BY <4>3, <5>1 DEF pick
        <5>4. QED
          BY <5>2, <5>3, DefaultAllowed
      <4>4. QED
        BY <4>2, <4>3
    <3> HIDE DEF t
    <3>5. thread'[w] = t /\ policy' = policy /\ chosen' = chosen /\ policy \in offered[w]
      BY <1>t, <3>1 DEF rows, ThreadInv
    <3>6. ThreadInv(w)'
      BY <3>1, <3>3, <3>4, <3>5 DEF ThreadInv, Justified
    <3>7. QED
      BY <1>t, <3>1, <3>3, <3>6, OneThread
  <2>2. CASE pick(w) \notin was.identity
    BY <1>4, <1>5, <2>2 DEF PickSource
  <2>3. QED
    BY <2>1, <2>2
<1>6. CASE Answered(w)
  BY <1>4, <1>6 DEF Answered
<1>7. QED
  BY <1>1, <1>2, <1>3, <1>5, <1>6

LEMMA ReadCompanyStep == ASSUME SourcesInv, ReadCompany PROVE SourcesInv'
<1> USE DEF SourcesInv
<1>1. ASSUME NEW w \in Workers, WorkerStamps(w) \/ WorkerReads(w)
      PROVE  SourcesInv'
  <2>1. PICK at \in {"ran", "timed"} : thread' = [thread EXCEPT ![w].at = at]
    BY <1>1 DEF WorkerStamps, WorkerReads
  <2>2. /\ thread[w].at \in {"ran", "timed"}
        /\ UNCHANGED <<rows, site, offered, chosen>>
    BY <1>1 DEF WorkerStamps, WorkerReads, At
  <2>3. thread' \in [Workers -> Worker] /\ \A v \in Workers : ThreadInv(v) => ThreadInv(v)'
    BY <2>1, <2>2, ThreadMoved DEF rows
  <2>4. SourcesTypeOK'
    BY <2>2, <2>3 DEF SourcesTypeOK, rows, site
  <2>5. QED
    BY <2>2, <2>3, <2>4, SelectionsKept
<1>2. ASSUME WebStamps \/ WebReads
      PROVE  SourcesInv'
  <2>1. PICK at \in {"read", "timed"} : web' = [web EXCEPT !.at = at]
    BY <1>2 DEF WebStamps, WebReads
  <2>2. /\ web.at \in {"read", "timed"}
        /\ UNCHANGED <<rows, cookie, remembered, sent, thread, offered, chosen>>
    BY <1>2 DEF WebStamps, WebReads
  <2>3. web \in Handling /\ web # Idle
    BY <2>2, SelectionTypes, HandlingTypes DEF SourcesTypeOK
  <2>4. web' \in Handling /\ web'.session = web.session
    BY <2>1, <2>3, HandlingTypes DEF Handling
  <2>5. SourcesTypeOK'
    BY <2>2, <2>4 DEF SourcesTypeOK, rows
  <2>6. SelectionsInv'
    BY <2>2, <2>3, <2>4 DEF SelectionsInv, Made
  <2>7. ASSUME NEW w \in Workers PROVE ThreadInv(w)'
    BY <2>2 DEF ThreadInv, Justified, rows
  <2>8. QED
    BY <2>5, <2>6, <2>7
<1>3. QED
  BY <1>1, <1>2 DEF ReadCompany

LEMMA SourcesStep == SourcesInv /\ [Next]_vars => SourcesInv'
<1> SUFFICES ASSUME SourcesInv, [Next]_vars PROVE SourcesInv'
  OBVIOUS
<1>1. ASSUME UNCHANGED sources
      PROVE  SourcesInv'
  BY <1>1 DEF SourcesInv, SourcesTypeOK, SelectionsInv, Made, ThreadInv, Justified,
              sources, rows, site
<1>2. CASE SourcesLost
  <2> USE <1>2 DEF SourcesLost, SourcesInv
  <2>1. SourcesTypeOK'
    BY SelectionTypes DEF SourcesTypeOK, rows, NoUpdate, Worker, Sources
  <2>2. SelectionsInv'
    BY SelectionTypes DEF SelectionsInv, Made
  <2>3. ASSUME NEW w \in Workers PROVE ThreadInv(w)'
    BY DEF ThreadInv, NoUpdate
  <2>4. QED
    BY <2>1, <2>2, <2>3
<1>3. CASE Chat
  BY <1>3, ThreadStep DEF Chat
<1>4. CASE Administer
  BY <1>4, AdministerStep
<1>5. CASE Browse
  BY <1>5, BrowseStep
<1>6. CASE ReadCompany
  BY <1>6, ReadCompanyStep
<1>7. QED
  BY <1>1, <1>2, <1>3, <1>4, <1>5, <1>6 DEF Next, vars, Restart

-----------------------------------------------------------------------------
(* Telemetry. *)

LEMMA BackfillTypes ==
  ASSUME NEW b \in Backfill
  PROVE  /\ b.at \in {"idle", "index", "page", "find", "insert"}
         /\ b.offset \in Nat
         /\ b.rows \in Seq(Ids)
         /\ b.begun \in 0..MaxReadings
BY DEF Backfill

LEMMA NotRunningTypes ==
  /\ NotRunning \in Backfill
  /\ NotRunning.at = "idle" /\ NotRunning.offset = 0
  /\ NotRunning.rows = <<>> /\ NotRunning.begun = 0
BY TelemetryConstants DEF NotRunning, Backfill

\* A run that does nothing keeps its invariant while readings are added, rows
\* copied and the index created.
LEMMA BackfillKept ==
  ASSUME TelemetryInv, NEW p \in Backfills,
         backfill'[p] = backfill[p],
         table' \in Seq(Ids), Len(table') >= Len(table),
         unique => unique',
         \A i \in Ids : copies[i] = 1 => copies'[i] = 1
  PROVE  BackfillInv(p)'
<1>1. BackfillInv(p) /\ backfill[p] \in Backfill /\ table \in Seq(Ids)
  BY DEF TelemetryInv, TelemetryTypeOK
<1>2. backfill[p].begun \in Nat /\ Len(table) \in Nat /\ Len(table') \in Nat
  BY <1>1, BackfillTypes, TelemetryConstants
<1>3. QED
  BY <1>1, <1>2 DEF BackfillInv, Page

\* One run moves on, and copies at most the row it is at.
LEMMA OneBackfill ==
  ASSUME TelemetryInv, NEW p \in Backfills, NEW b \in Backfill,
         backfill' = [backfill EXCEPT ![p] = b],
         copies' \in [Ids -> Nat],
         \A i \in Ids : copies[i] = 1 => copies'[i] = 1,
         \A i \in Ids : copies'[i] <= 1,
         unique' \in BOOLEAN, unique => unique',
         covered' \in 0..MaxReadings, \A i \in 1..covered' : copies'[i] = 1,
         unchangedStores,
         BackfillInv(p)'
  PROVE  TelemetryInv'
<1> USE DEF TelemetryInv
<1>1. TelemetryTypeOK'
  BY DEF TelemetryTypeOK, unchangedStores
<1>2. Len(table') <= readings'
  BY DEF unchangedStores
<1>3. ASSUME NEW q \in Backfills PROVE BackfillInv(q)'
  <2>1. CASE q = p
    BY <2>1
  <2>2. CASE q # p
    <3>1. backfill'[q] = backfill[q]
      BY <2>2 DEF TelemetryTypeOK
    <3>2. table' \in Seq(Ids) /\ Len(table') >= Len(table)
      BY DEF TelemetryTypeOK, unchangedStores
    <3>3. QED
      BY <3>1, <3>2, BackfillKept
  <2>3. QED
    BY <2>1, <2>2
<1>4. BackfillCopiesOnce'
  BY DEF BackfillCopiesOnce
<1>5. QED
  BY <1>1, <1>2, <1>3, <1>4

\* A run that is done with the first row of its page has copied it.
LEMMA RowDoneStep ==
  ASSUME TelemetryInv, NEW p \in Backfills, RowDone(p),
         backfill[p].at \in {"find", "insert"},
         copies' \in [Ids -> Nat],
         \A i \in Ids : copies[i] = 1 => copies'[i] = 1,
         copies'[Head(Page(p))] = 1,
         \A i \in Ids : copies'[i] <= 1,
         unchangedStores, UNCHANGED <<unique, covered>>
  PROVE  TelemetryInv'
<1> DEFINE was == backfill[p]
           b == [was EXCEPT !.rows = Tail(Page(p)),
                   !.at = IF Len(Page(p)) = 1 THEN "page" ELSE "find"]
<1>1. /\ backfill \in [Backfills -> Backfill] /\ was \in Backfill /\ BackfillInv(p)
      /\ table \in Seq(Ids)
  BY DEF TelemetryInv, TelemetryTypeOK
<1>2. /\ Page(p) \in Seq(Ids) /\ Page(p) # <<>>
      /\ was.offset \in Nat /\ was.begun \in Nat
  BY <1>1, BackfillTypes, TelemetryConstants DEF Page, BackfillInv
<1>3. backfill' = [backfill EXCEPT ![p] = b]
  BY <1>1 DEF RowDone, Page
<1>4. Tail(Page(p)) \in Seq(Ids)
  BY <1>2
<1>5. /\ b \in Backfill /\ b.rows = Tail(Page(p)) /\ b.offset = was.offset /\ b.begun = was.begun
      /\ b.at = IF Len(Page(p)) = 1 THEN "page" ELSE "find"
  BY <1>1, <1>4 DEF Backfill
<1> HIDE DEF b
<1>6. backfill'[p] = b
  BY <1>1, <1>3
<1>7. BackfillInv(p)'
  <2>1. b.begun <= Len(table')
    BY <1>1, <1>5 DEF BackfillInv, unchangedStores
  <2>2. unique'
    BY <1>1 DEF BackfillInv
  <2>3. b.at = "find" <=> b.rows # <<>>
    <3>1. Len(Page(p)) \in Nat \ {0} /\ Len(Tail(Page(p))) = Len(Page(p)) - 1
      BY <1>2
    <3>2. CASE Len(Page(p)) = 1
      BY <1>4, <1>5, <3>1, <3>2
    <3>3. CASE Len(Page(p)) # 1
      BY <1>4, <1>5, <3>1, <3>3
    <3>4. QED
      BY <3>2, <3>3
  <2>4. ASSUME NEW i \in Ids, i <= b.begun, i <= b.offset
        PROVE  copies'[i] = 1 \/ \E n \in 1..Len(b.rows) : b.rows[n] = i
    <3>1. CASE copies[i] = 1
      BY <3>1
    <3>2. CASE \E n \in 1..Len(Page(p)) : Page(p)[n] = i
      <4>1. PICK n \in 1..Len(Page(p)) : Page(p)[n] = i
        BY <3>2
      <4>2. CASE n = 1
        BY <1>2, <4>1, <4>2
      <4>3. CASE n # 1
        <5>1. n - 1 \in 1..Len(Tail(Page(p))) /\ Tail(Page(p))[n - 1] = Page(p)[n]
          BY <1>2, <4>3
        <5>2. QED
          BY <1>5, <4>1, <5>1
      <4>4. QED
        BY <4>2, <4>3
    <3>3. QED
      BY <1>1, <1>5, <2>4, <3>1, <3>2 DEF BackfillInv
  <2>5. b.at \in {"page", "find"}
    BY <1>5
  <2>6. QED
    BY <1>6, <2>1, <2>2, <2>3, <2>4, <2>5 DEF BackfillInv, Page
<1>8. covered' \in 0..MaxReadings /\ \A i \in 1..covered' : copies'[i] = 1
  BY TelemetryConstants DEF TelemetryInv, TelemetryTypeOK, BackfillCopiesOnce, Ids
<1>9. unique' \in BOOLEAN /\ (unique => unique')
  BY DEF TelemetryInv, TelemetryTypeOK
<1>10. QED
  BY <1>3, <1>5, <1>7, <1>8, <1>9, OneBackfill

LEMMA TelemetryInitially == TelemetryInit => TelemetryInv
<1> SUFFICES ASSUME TelemetryInit PROVE TelemetryInv
  OBVIOUS
<1>0. 0 \in 0..MaxReadings /\ 0 \in 0..MaxBackfills
  BY TelemetryConstants
<1>1. TelemetryTypeOK
  <2>1. backfill \in [Backfills -> Backfill]
    BY NotRunningTypes DEF TelemetryInit
  <2>2. copies \in [Ids -> Nat] /\ writer \in [Writers -> 0..MaxReadings] /\ table \in Seq(Ids)
    BY <1>0 DEF TelemetryInit
  <2>3. QED
    BY <1>0, <2>1, <2>2 DEF TelemetryInit, TelemetryTypeOK
<1>2. ASSUME NEW p \in Backfills PROVE BackfillInv(p)
  BY NotRunningTypes, TelemetryConstants DEF TelemetryInit, BackfillInv, Page, Ids
<1>3. BackfillCopiesOnce
  BY DEF TelemetryInit, BackfillCopiesOnce, Ids
<1>4. QED
  BY <1>1, <1>2, <1>3 DEF TelemetryInv, TelemetryInit

LEMMA BackfillStep ==
  ASSUME TelemetryInv, NEW p \in Backfills,
         Begin(p) \/ Interrupted(p) \/ EnsureIndexes(p) \/ NextPage(p) \/ Find(p) \/ Insert(p)
  PROVE  TelemetryInv'
<1> DEFINE was == backfill[p]
<1>1. /\ backfill \in [Backfills -> Backfill] /\ was \in Backfill /\ BackfillInv(p)
      /\ table \in Seq(Ids) /\ readings \in 0..MaxReadings /\ Len(table) <= readings
      /\ copies \in [Ids -> Nat] /\ \A i \in Ids : copies[i] <= 1
      /\ unique \in BOOLEAN
      /\ covered \in 0..MaxReadings /\ \A i \in 1..covered : copies[i] = 1
  BY DEF TelemetryInv, TelemetryTypeOK, BackfillCopiesOnce
<1>2. /\ was.rows \in Seq(Ids) /\ was.offset \in Nat /\ was.begun \in 0..MaxReadings
      /\ Len(table) \in 0..MaxReadings
  BY <1>1, BackfillTypes, TelemetryConstants
<1>3. CASE Begin(p)
  <2> DEFINE b == [NotRunning EXCEPT !.at = "index", !.begun = Len(table)]
  <2>1. /\ backfill' = [backfill EXCEPT ![p] = b]
        /\ UNCHANGED <<readings, table, fresh, copies, unique, writer, covered>>
        /\ backfills' \in 0..MaxBackfills
    BY <1>3, TelemetryConstants DEF Begin, TelemetryInv, TelemetryTypeOK
  <2>2. b \in Backfill /\ b.at = "index" /\ b.offset = 0 /\ b.rows = <<>> /\ b.begun = Len(table)
    BY <1>2, NotRunningTypes DEF Backfill
  <2> HIDE DEF b
  <2>3. BackfillInv(p)'
    <3>1. backfill'[p] = b
      BY <1>1, <2>1
    <3>2. QED
      BY <1>2, <2>1, <2>2, <3>1 DEF BackfillInv, Page, Ids
  <2>4. ASSUME NEW q \in Backfills, q # p PROVE BackfillInv(q)'
    <3>1. backfill'[q] = backfill[q]
      BY <1>1, <2>1, <2>4
    <3>2. QED
      BY <1>1, <1>2, <2>1, <3>1, BackfillKept
  <2>5. TelemetryTypeOK'
    BY <1>1, <2>1, <2>2 DEF TelemetryInv, TelemetryTypeOK
  <2>6. QED
    BY <1>1, <2>1, <2>3, <2>4, <2>5 DEF TelemetryInv, BackfillCopiesOnce
<1>4. CASE Interrupted(p)
  <2>1. /\ backfill' = [backfill EXCEPT ![p] = NotRunning]
        /\ unchangedStores /\ UNCHANGED <<copies, unique, covered>>
    BY <1>4 DEF Interrupted
  <2>2. backfill'[p] = NotRunning /\ NotRunning \in Backfill
    BY <1>1, <2>1, NotRunningTypes
  <2>3. BackfillInv(p)'
    BY <1>2, <2>1, <2>2, NotRunningTypes DEF BackfillInv, Page, Ids, unchangedStores
  <2>4. QED
    BY <1>1, <2>1, <2>2, <2>3, OneBackfill
<1>5. CASE EnsureIndexes(p)
  <2> DEFINE b == [was EXCEPT !.at = "page"]
  <2>1. /\ backfill' = [backfill EXCEPT ![p] = b] /\ unique' = TRUE
        /\ unchangedStores /\ UNCHANGED <<copies, covered>>
        /\ was.at = "index"
    BY <1>5 DEF EnsureIndexes
  <2>2. b \in Backfill /\ b.at = "page" /\ b.offset = was.offset /\ b.rows = was.rows /\ b.begun = was.begun
    BY <1>1 DEF Backfill
  <2> HIDE DEF b
  <2>3. BackfillInv(p)'
    <3>1. backfill'[p] = b
      BY <1>1, <2>1
    <3>2. QED
      BY <1>1, <1>2, <2>1, <2>2, <3>1 DEF BackfillInv, Page, unchangedStores
  <2>4. QED
    BY <1>1, <2>1, <2>2, <2>3, OneBackfill
<1>6. CASE NextPage(p)
  <2> DEFINE first == was.offset + 1
             last == IF was.offset + BatchSize < Len(table) THEN was.offset + BatchSize ELSE Len(table)
             page == [n \in 1..(last - first + 1) |-> first + n - 1]
             b == [was EXCEPT !.at = "find", !.rows = page, !.offset = was.offset + BatchSize]
  <2>0. /\ was.at = "page" /\ unchangedStores /\ UNCHANGED <<copies, unique>>
        /\ IF first > last
           THEN /\ backfill' = [backfill EXCEPT ![p] = NotRunning]
                /\ covered' = IF covered < was.begun THEN was.begun ELSE covered
           ELSE backfill' = [backfill EXCEPT ![p] = b] /\ UNCHANGED covered
    <3>1. was.at = "page" /\ unchangedStores /\ UNCHANGED <<copies, unique>>
      BY <1>6 DEF NextPage
    <3>2. CASE first > last
      BY <1>6, <3>2 DEF NextPage
    <3>3. CASE ~(first > last)
      <4>1. UNCHANGED covered
        BY <1>6, <3>3 DEF NextPage
      <4>2. backfill' = [backfill EXCEPT ![p] = b]
        BY <1>6, <3>3 DEF NextPage
      <4>3. QED
        BY <3>1, <3>3, <4>1, <4>2
    <3>4. QED
      BY <3>1, <3>2, <3>3
  <2>1. BatchSize \in Nat \ {0} /\ MaxReadings \in Nat /\ was.rows = <<>> /\ unique
    BY <1>1, <2>0, TelemetryConstants DEF BackfillInv, Page
  <2>2. first \in Nat \ {0} /\ last \in Nat /\ last <= Len(table) /\ last < first + BatchSize
    BY <1>2, <2>1
  <2>3. ASSUME NEW i \in Ids, i <= was.begun, i <= was.offset
        PROVE  copies[i] = 1
    BY <1>1, <2>1, <2>3 DEF BackfillInv, Page
  <2>4. was.begun <= Len(table)
    BY <1>1 DEF BackfillInv
  <2>5. CASE first > last
    <3>1. Len(table) <= was.offset
      BY <1>2, <2>1, <2>5
    <3>2. \A i \in 1..was.begun : copies[i] = 1
      BY <1>2, <2>1, <2>3, <2>4, <3>1 DEF Ids
    <3>3. covered' \in 0..MaxReadings /\ \A i \in 1..covered' : copies'[i] = 1
      BY <1>1, <1>2, <2>0, <2>5, <3>2
    <3>4. backfill'[p] = NotRunning /\ NotRunning \in Backfill
      BY <1>1, <2>0, <2>5, NotRunningTypes
    <3>5. BackfillInv(p)'
      BY <1>2, <2>0, <3>4, NotRunningTypes DEF BackfillInv, Page, Ids, unchangedStores
    <3>6. QED
      BY <1>1, <2>0, <2>5, <3>3, <3>4, <3>5, OneBackfill
  <2>6. CASE ~(first > last)
    <3>1. page \in Seq(Ids) /\ Len(page) = last - first + 1 /\ page # <<>>
      <4>1. last - first + 1 \in Nat \ {0} /\ \A n \in 1..(last - first + 1) : first + n - 1 \in Ids
        <5> HIDE DEF first, last
        <5>1. QED
          BY <1>2, <2>1, <2>2, <2>6 DEF Ids
      <4> HIDE DEF first, last
      <4>2. QED
        BY <4>1
    <3>2. \A i \in first..last : \E n \in 1..Len(page) : page[n] = i
      <4> SUFFICES ASSUME NEW i \in first..last
                   PROVE  \E n \in 1..Len(page) : page[n] = i
        OBVIOUS
      <4>1. i - first + 1 \in 1..(last - first + 1) /\ first + (i - first + 1) - 1 = i
        BY <2>2
      <4>2. QED
        BY <3>1, <4>1
    <3> HIDE DEF page
    <3>3. b \in Backfill /\ b.at = "find" /\ b.rows = page /\ b.offset = was.offset + BatchSize /\ b.begun = was.begun
      <4>1. was.offset + BatchSize \in Nat
        BY <1>2, <2>1
      <4>2. QED
        BY <1>1, <3>1, <4>1 DEF Backfill
    <3> HIDE DEF b
    <3>4. backfill' = [backfill EXCEPT ![p] = b] /\ backfill'[p] = b /\ UNCHANGED covered
      BY <1>1, <2>0, <2>6
    <3>5. ASSUME NEW i \in Ids, i <= b.begun, i <= b.offset
          PROVE  copies[i] = 1 \/ \E n \in 1..Len(page) : page[n] = i
      <4>1. CASE i <= was.offset
        BY <2>3, <3>3, <3>5, <4>1
      <4>2. CASE i > was.offset
        <5>1. i \in first..last
          BY <1>2, <2>1, <2>4, <3>3, <3>5, <4>2 DEF Ids
        <5>2. QED
          BY <3>2, <5>1
      <4>3. QED
        BY <1>2, <4>1, <4>2 DEF Ids
    <3>6. BackfillInv(p)'
      BY <2>0, <2>1, <2>4, <3>1, <3>3, <3>4, <3>5 DEF BackfillInv, Page, unchangedStores
    <3>7. QED
      BY <1>1, <2>0, <3>3, <3>4, <3>6, OneBackfill
  <2>7. QED
    BY <2>5, <2>6
<1>7. ASSUME was.at \in {"find", "insert"}
      PROVE  Head(Page(p)) \in Ids /\ unique
  BY <1>1, <1>2, <1>7 DEF BackfillInv, Page
<1>8. CASE Find(p)
  <2>1. was.at = "find" /\ unchangedStores /\ UNCHANGED <<copies, unique, covered>>
    BY <1>8 DEF Find
  <2>2. CASE copies[Head(Page(p))] > 0
    <3>1. RowDone(p) /\ copies[Head(Page(p))] = 1
      BY <1>1, <1>7, <1>8, <2>1, <2>2 DEF Find, Page
    <3>2. QED
      BY <1>1, <2>1, <3>1, RowDoneStep
  <2>3. CASE ~(copies[Head(Page(p))] > 0)
    <3> DEFINE b == [was EXCEPT !.at = "insert"]
    <3>1. backfill' = [backfill EXCEPT ![p] = b]
      BY <1>8, <2>3 DEF Find, Page
    <3>2. b \in Backfill /\ b.at = "insert" /\ b.offset = was.offset /\ b.rows = was.rows /\ b.begun = was.begun
      BY <1>1 DEF Backfill
    <3> HIDE DEF b
    <3>3. BackfillInv(p)'
      <4>1. backfill'[p] = b
        BY <1>1, <3>1
      <4>2. QED
        BY <1>1, <1>2, <2>1, <3>2, <4>1 DEF BackfillInv, Page, unchangedStores
    <3>4. QED
      BY <1>1, <2>1, <3>1, <3>2, <3>3, OneBackfill
  <2>4. QED
    BY <2>2, <2>3
<1>9. CASE Insert(p)
  <2> DEFINE id == Head(Page(p))
  <2>1. /\ was.at = "insert" /\ unchangedStores /\ UNCHANGED <<unique, covered>> /\ RowDone(p)
        /\ copies' = IF unique /\ copies[id] > 0 THEN copies ELSE [copies EXCEPT ![id] = @ + 1]
    BY <1>9 DEF Insert, Page
  <2>2. id \in Ids /\ unique /\ copies[id] \in {0, 1}
    BY <1>1, <1>7, <2>1
  <2>3. /\ copies' \in [Ids -> Nat] /\ copies'[id] = 1
        /\ \A i \in Ids : copies'[i] <= 1 /\ (copies[i] = 1 => copies'[i] = 1)
    BY <1>1, <2>1, <2>2
  <2>4. QED
    BY <2>1, <2>3, RowDoneStep
<1>10. QED
  BY <1>3, <1>4, <1>5, <1>6, <1>8, <1>9

LEMMA TelemetryStep == TelemetryInv /\ [Next]_vars => TelemetryInv'
<1> SUFFICES ASSUME TelemetryInv, [Next]_vars PROVE TelemetryInv'
  OBVIOUS
<1>1. CASE UNCHANGED telemetry
  BY <1>1 DEF telemetry, TelemetryInv, TelemetryTypeOK, BackfillInv, Page, BackfillCopiesOnce
<1>2. ASSUME NEW w \in Writers, NEW b \in Backends, Generate(w, b)
      PROVE  TelemetryInv'
  <2>1. /\ readings' = readings + 1 /\ readings' \in Ids
        /\ table' = IF b = "mongodb" THEN table ELSE Append(table, readings')
        /\ writer' = IF b = "sqlite" THEN writer ELSE [writer EXCEPT ![w] = readings']
        /\ UNCHANGED <<fresh, copies, unique, backfill, backfills, covered>>
    BY <1>2, TelemetryConstants DEF Generate, TelemetryInv, TelemetryTypeOK, Ids
  <2>2. table \in Seq(Ids) /\ Len(table) <= readings /\ readings \in Nat
    BY TelemetryConstants DEF TelemetryInv, TelemetryTypeOK
  <2>3. table' \in Seq(Ids) /\ Len(table') >= Len(table) /\ Len(table') <= readings'
    BY <2>1, <2>2
  <2>4. TelemetryTypeOK'
    BY <2>1, <2>3, TelemetryConstants DEF TelemetryInv, TelemetryTypeOK, Ids
  <2>5. ASSUME NEW p \in Backfills PROVE BackfillInv(p)'
    BY <2>1, <2>3, BackfillKept
  <2>6. QED
    BY <2>1, <2>3, <2>4, <2>5 DEF TelemetryInv, BackfillCopiesOnce
<1>3. ASSUME NEW w \in Writers, InsertFresh(w)
      PROVE  TelemetryInv'
  <2>1. /\ fresh' \in {fresh, fresh \union {writer[w]}} /\ writer[w] # 0
        /\ writer' = [writer EXCEPT ![w] = 0]
        /\ UNCHANGED <<readings, table, copies, unique, backfill, backfills, covered>>
    BY <1>3 DEF InsertFresh
  <2>2. TelemetryTypeOK'
    BY <2>1, TelemetryConstants DEF TelemetryInv, TelemetryTypeOK, Ids
  <2>3. QED
    BY <2>1, <2>2 DEF TelemetryInv, BackfillInv, Page, BackfillCopiesOnce
<1>4. CASE Telemetry
  BY <1>2, <1>3, <1>4, BackfillStep DEF Telemetry
<1>5. QED
  BY <1>1, <1>4 DEF Next, vars

-----------------------------------------------------------------------------
(* Limiters. *)

\* A set of indices that contains every index before one of its own is the
\* interval of the first so many.
LEMMA PrefixCount ==
  ASSUME NEW n \in Nat, NEW S \in SUBSET (1..n), \A i \in S : 1..i \subseteq S
  PROVE  /\ Cardinality(S) \in 0..n
         /\ \A i \in 1..n : i \in S <=> i <= Cardinality(S)
<1>1. IsFiniteSet(1..n) /\ Cardinality(1..n) = n
  BY FS_Interval
<1>2. IsFiniteSet(S) /\ Cardinality(S) \in Nat /\ Cardinality(S) <= n
  BY <1>1, FS_Subset, FS_CardinalityType
<1>3. ASSUME NEW i \in S
      PROVE  i <= Cardinality(S)
  <2>1. Cardinality(1..i) = i
    BY FS_Interval
  <2>2. Cardinality(1..i) <= Cardinality(S)
    BY <1>2, FS_Subset
  <2>3. QED
    BY <2>1, <2>2
<1>4. ASSUME NEW i \in 1..n, i \notin S
      PROVE  i > Cardinality(S)
  <2>1. S \subseteq 1..(i - 1)
    <3> SUFFICES ASSUME NEW j \in S PROVE j <= i - 1
      OBVIOUS
    <3>1. CASE j >= i
      BY <1>4, <3>1
    <3>2. QED
      BY <3>1
  <2>2. IsFiniteSet(1..(i - 1)) /\ Cardinality(1..(i - 1)) = i - 1
    BY FS_Interval
  <2>3. Cardinality(S) <= i - 1
    BY <2>1, <2>2, FS_Subset
  <2>4. QED
    BY <1>2, <2>3
<1>5. QED
  BY <1>2, <1>3, <1>4

\* Pruning takes times away at the front, and only such as have left the window.
LEMMA PrunedFront ==
  ASSUME NEW times \in Seq(0..MaxTime), NEW start \in Int
  PROVE  /\ Prune(times, start) \in Seq(0..MaxTime)
         /\ \E d \in 0..Len(times) :
              /\ Len(Prune(times, start)) = Len(times) - d
              /\ \A i \in 1..(Len(times) - d) : Prune(times, start)[i] = times[d + i]
              /\ \A i \in 1..d : times[i] <= start
<1> DEFINE outside == {i \in DOMAIN times : \A j \in 1..i : times[j] <= start}
           d == Cardinality(outside)
<1>1. Len(times) \in Nat /\ DOMAIN times = 1..Len(times)
  OBVIOUS
<1>2. outside \in SUBSET (1..Len(times)) /\ \A i \in outside : 1..i \subseteq outside
  BY <1>1
<1>3. d \in 0..Len(times) /\ \A i \in 1..Len(times) : i \in outside <=> i <= d
  <2> HIDE DEF outside
  <2>1. QED
    BY <1>1, <1>2, PrefixCount
<1>4. \A i \in 1..d : times[i] <= start
  <2> SUFFICES ASSUME NEW i \in 1..d PROVE times[i] <= start
    OBVIOUS
  <2>1. i \in outside
    <3> HIDE DEF outside, d
    <3>1. QED
      BY <1>1, <1>3
  <2>2. QED
    BY <2>1, <1>1
<1>5. Prune(times, start) = SubSeq(times, d + 1, Len(times))
  BY DEF Prune
<1> HIDE DEF d, outside
<1>6. /\ Prune(times, start) \in Seq(0..MaxTime)
      /\ Len(Prune(times, start)) = Len(times) - d
      /\ \A i \in 1..(Len(times) - d) : Prune(times, start)[i] = times[d + i]
  <2>1. d \in Nat /\ d + 1 \in Int /\ Len(times) \in Int
    BY <1>1, <1>3
  <2>2. \A i \in (d + 1)..Len(times) : times[i] \in 0..MaxTime
    <3> SUFFICES ASSUME NEW i \in (d + 1)..Len(times) PROVE times[i] \in 0..MaxTime
      OBVIOUS
    <3>1. i \in 1..Len(times)
      BY <1>1, <2>1
    <3>2. QED
      BY <3>1, ElementOfSeq
  <2>3. /\ SubSeq(times, d + 1, Len(times)) \in Seq(0..MaxTime)
        /\ Len(SubSeq(times, d + 1, Len(times)))
             = IF d + 1 <= Len(times) THEN Len(times) - (d + 1) + 1 ELSE 0
        /\ \A i \in 1..(Len(times) - (d + 1) + 1) :
             SubSeq(times, d + 1, Len(times))[i] = times[d + 1 + i - 1]
    BY <2>1, <2>2, SubSeqProperties
  <2>4. Len(times) - (d + 1) + 1 = Len(times) - d /\ \A i \in Int : d + 1 + i - 1 = d + i
    BY <2>1
  <2> DEFINE rest == SubSeq(times, d + 1, Len(times))
  <2> HIDE DEF rest
  <2>a. /\ rest \in Seq(0..MaxTime)
        /\ Len(rest) = IF d + 1 <= Len(times) THEN Len(times) - (d + 1) + 1 ELSE 0
    BY <2>3 DEF rest
  <2>5. rest \in Seq(0..MaxTime) /\ Len(rest) = Len(times) - d
    <3>1. d <= Len(times) /\ Len(times) \in Nat /\ d \in Nat
      BY <1>1, <1>3
    <3>2. CASE d = Len(times)
      BY <3>1, <3>2, <2>a
    <3>3. CASE d < Len(times)
      BY <3>1, <3>3, <2>a
    <3>4. QED
      BY <3>1, <3>2, <3>3
  <2>6. ASSUME NEW i \in 1..(Len(times) - d)
        PROVE  rest[i] = times[d + i]
    <3>1. i \in 1..(Len(times) - (d + 1) + 1) /\ d + 1 + i - 1 = d + i
      BY <1>1, <2>1
    <3>2. QED
      BY <2>3, <3>1 DEF rest
  <2>7. QED
    BY <1>5, <2>5, <2>6 DEF rest
<1>7. QED
  BY <1>3, <1>4, <1>6

\* What a caller finds left, and what it adds to the deque, are still the
\* latest of the times admitted.
LEMMA InsideRecent ==
  ASSUME NEW times \in Seq(0..MaxTime), NEW all \in Seq(0..MaxTime),
         NEW now \in 0..MaxTime, NEW latest \in 0..MaxTime, now <= latest,
         NEW length \in Nat,
         Recent(times, all, latest - length)
  PROVE  LET left == Prune(times, now - length)
         IN /\ left \in Seq(0..MaxTime) /\ Len(left) <= Len(times)
            /\ Recent(left, all, latest - length)
            /\ Recent(Append(left, now), Append(all, now), latest - length)
<1> DEFINE left == Prune(times, now - length)
<1>0. MaxTime \in Nat /\ now - length \in Int
  BY SlidingWindowConstants
<1>1. PICK d \in 0..Len(times) :
        /\ Len(left) = Len(times) - d
        /\ \A i \in 1..(Len(times) - d) : left[i] = times[d + i]
        /\ \A i \in 1..d : times[i] <= now - length
  BY <1>0, PrunedFront
<1>2. left \in Seq(0..MaxTime)
  BY <1>0, PrunedFront
<1> HIDE DEF left
<1>3. /\ Len(times) \in Nat /\ Len(all) \in Nat /\ Len(left) \in Nat
      /\ \A i \in 1..Len(all) : all[i] \in Int
      /\ \A i \in 1..Len(times) : times[i] \in Int
  BY <1>0, <1>2
<1>4. Recent(left, all, latest - length)
  <2>1. ASSUME NEW i \in 1..(Len(all) - Len(left))
        PROVE  all[i] <= latest - length
    <3>1. CASE i <= Len(all) - Len(times)
      BY <1>3, <3>1 DEF Recent
    <3>2. CASE i > Len(all) - Len(times)
      <4>1. i - (Len(all) - Len(times)) \in 1..d
        BY <1>1, <1>3, <3>2 DEF Recent
      <4>2. all[i] = times[i - (Len(all) - Len(times))]
        BY <1>1, <1>3, <4>1 DEF Recent
      <4> DEFINE k == i - (Len(all) - Len(times))
      <4>3. k \in 1..Len(times) /\ times[k] \in Int
        BY <1>1, <1>3, <4>1
      <4>4. times[k] <= now - length /\ all[i] = times[k]
        BY <1>1, <4>1, <4>2
      <4> HIDE DEF k
      <4>5. QED
        BY <1>0, <4>3, <4>4
    <3>3. QED
      BY <1>3, <3>1, <3>2
  <2>2. ASSUME NEW i \in 1..Len(left)
        PROVE  left[i] = all[Len(all) - Len(left) + i]
    BY <1>1, <1>3 DEF Recent
  <2>3. QED
    BY <1>1, <1>3, <2>1, <2>2 DEF Recent
<1>5. Recent(Append(left, now), Append(all, now), latest - length)
  <2> DEFINE longer == Append(left, now)
             whole == Append(all, now)
  <2>1. /\ Len(longer) = Len(left) + 1 /\ Len(whole) = Len(all) + 1
        /\ \A i \in 1..Len(left) : longer[i] = left[i]
        /\ \A i \in 1..Len(all) : whole[i] = all[i]
        /\ longer[Len(left) + 1] = now /\ whole[Len(all) + 1] = now
    BY <1>2
  <2>0. /\ Len(all) - Len(left) >= 0
        /\ \A i \in 1..Len(left) : left[i] = all[Len(all) - Len(left) + i]
        /\ \A i \in 1..(Len(all) - Len(left)) : all[i] <= latest - length
    BY <1>4 DEF Recent
  <2> HIDE DEF longer, whole
  <2>a. Len(whole) - Len(longer) = Len(all) - Len(left)
    BY <1>3, <2>1
  <2>2. ASSUME NEW i \in 1..Len(longer)
        PROVE  longer[i] = whole[Len(whole) - Len(longer) + i]
    <3>1. CASE i = Len(left) + 1
      <4>1. Len(whole) - Len(longer) + i = Len(all) + 1
        BY <1>3, <2>1, <3>1
      <4>2. QED
        BY <2>1, <3>1, <4>1
    <3>2. CASE i \in 1..Len(left)
      <4>1. Len(all) - Len(left) + i \in 1..Len(all)
        BY <1>3, <2>0, <3>2
      <4>2. QED
        BY <2>a, <2>0, <2>1, <3>2, <4>1
    <3>3. QED
      BY <1>3, <2>1, <3>1, <3>2
  <2>3. ASSUME NEW i \in 1..(Len(whole) - Len(longer))
        PROVE  whole[i] <= latest - length
    <3>1. i \in 1..(Len(all) - Len(left)) /\ i \in 1..Len(all)
      BY <1>3, <2>a, <2>3
    <3>2. QED
      BY <2>0, <2>1, <3>1
  <2>4. Len(whole) - Len(longer) >= 0
    BY <2>a, <2>0
  <2>5. Recent(longer, whole, latest - length)
    BY <2>2, <2>3, <2>4 DEF Recent
  <2>6. QED
    BY <2>5 DEF longer, whole
<1>6. QED
  BY <1>1, <1>2, <1>3, <1>4, <1>5 DEF left

LEMMA WindowConstants ==
  /\ MaxTime \in Nat
  /\ \A k \in Keys : Limit[k] \in Nat \ {0} /\ Window[k] \in Nat \ {0}
BY SlidingWindowConstants

LEMMA RecentFacts ==
  ASSUME NEW times, NEW all, NEW start, Recent(times, all, start)
  PROVE  /\ Len(all) - Len(times) >= 0
         /\ \A i \in 1..(Len(all) - Len(times)) : all[i] <= start
BY DEF Recent

\* Each limiter has one of the two clocks.
LEMMA Clocks ==
  ASSUME WindowInv, NEW k \in Keys
  PROVE  /\ Now(k) \in 0..MaxTime
         /\ Now(k) \in Int
         /\ UNCHANGED <<clock, wall>> => Now(k)' = Now(k)
BY WindowConstants DEF WindowInv, Now

\* One deque changes.
LEMMA OneDeque ==
  ASSUME WindowInv, NEW k \in Keys,
         NEW times \in Seq(0..MaxTime), NEW all \in Seq(0..MaxTime),
         log' = [log EXCEPT ![k] = times], admitted' = [admitted EXCEPT ![k] = all],
         Len(times) <= Limit[k], Recent(times, all, Now(k) - Window[k]),
         UNCHANGED <<clock, wall>>,
         stamp' \in [Callers -> 0..MaxTime], \A c \in Callers : stamp'[c] <= clock
  PROVE  WindowInv'
<1>1. log' \in [Keys -> Seq(0..MaxTime)] /\ admitted' \in [Keys -> Seq(0..MaxTime)]
  BY DEF WindowInv
<1>2. ASSUME NEW j \in Keys
      PROVE  Len(log'[j]) <= Limit[j] /\ Recent(log'[j], admitted'[j], Now(j)' - Window[j])
  <2>0. Now(j)' = Now(j)
    BY Clocks
  <2>1. CASE j = k
    BY <2>0, <2>1 DEF WindowInv
  <2>2. CASE j # k
    <3>1. log'[j] = log[j] /\ admitted'[j] = admitted[j]
      BY <2>2 DEF WindowInv
    <3>2. QED
      BY <2>0, <3>1 DEF WindowInv
  <2>3. QED
    BY <2>1, <2>2
<1>3. QED
  BY <1>1, <1>2 DEF WindowInv

LEMMA EmptyRecent ==
  ASSUME NEW start \in Int
  PROVE  Recent(<<>>, <<>>, start)
BY DEF Recent

\* A check of a limiter, with a clock that was read now or earlier.
LEMMA CheckStep ==
  ASSUME WindowInv, NEW k \in Keys, NEW now \in 0..MaxTime, now <= Now(k),
         Admit(k, now) \/ Refuse(k, now),
         UNCHANGED <<clock, wall>>,
         stamp' \in [Callers -> 0..MaxTime], \A c \in Callers : stamp'[c] <= clock
  PROVE  WindowInv' /\ \A j \in Keys : j # k => log'[j] = log[j]
<1> DEFINE left == Prune(log[k], now - Window[k])
<1>1. /\ log \in [Keys -> Seq(0..MaxTime)] /\ admitted \in [Keys -> Seq(0..MaxTime)]
      /\ log[k] \in Seq(0..MaxTime) /\ admitted[k] \in Seq(0..MaxTime)
      /\ Now(k) \in 0..MaxTime /\ Window[k] \in Nat /\ Limit[k] \in Nat
      /\ Len(log[k]) <= Limit[k] /\ Recent(log[k], admitted[k], Now(k) - Window[k])
  BY WindowConstants, Clocks DEF WindowInv
<1>2. /\ left \in Seq(0..MaxTime) /\ Len(left) <= Len(log[k])
      /\ Recent(left, admitted[k], Now(k) - Window[k])
      /\ Recent(Append(left, now), Append(admitted[k], now), Now(k) - Window[k])
  BY <1>1, InsideRecent
<1>3. Inside(k, now) = left
  BY DEF Inside
<1> HIDE DEF left
<1>4. Len(left) \in Nat /\ Len(log[k]) \in Nat
  BY <1>1, <1>2
<1>5. CASE Admit(k, now)
  <2> DEFINE longer == Append(left, now)
             whole == Append(admitted[k], now)
  <2>1. /\ Len(left) < Limit[k]
        /\ log' = [log EXCEPT ![k] = longer] /\ admitted' = [admitted EXCEPT ![k] = whole]
    BY <1>3, <1>5 DEF Admit
  <2>2. longer \in Seq(0..MaxTime) /\ whole \in Seq(0..MaxTime) /\ Len(longer) = Len(left) + 1
    BY <1>1, <1>2
  <2>3. Recent(longer, whole, Now(k) - Window[k])
    BY <1>2
  <2> HIDE DEF longer, whole
  <2>4. Len(longer) <= Limit[k]
    BY <1>1, <1>4, <2>1, <2>2
  <2>5. QED
    BY <1>1, <2>1, <2>2, <2>3, <2>4, OneDeque
<1>6. CASE Refuse(k, now)
  <2>1. log' = [log EXCEPT ![k] = left] /\ admitted' = [admitted EXCEPT ![k] = admitted[k]]
    BY <1>1, <1>3, <1>6 DEF Refuse
  <2>2. Len(left) <= Limit[k]
    BY <1>1, <1>2, <1>4
  <2>3. QED
    BY <1>1, <1>2, <2>1, <2>2, OneDeque
<1>7. QED
  BY <1>5, <1>6

LEMMA ResetStep ==
  ASSUME WindowInv, NEW k \in Keys, LoginAdmitted(k)
  PROVE  WindowInv' /\ \A j \in Keys : j # k => log'[j] = log[j]
<1>1. /\ log' = [log EXCEPT ![k] = <<>>] /\ admitted' = [admitted EXCEPT ![k] = <<>>]
      /\ UNCHANGED <<clock, wall, stamp>>
  BY DEF LoginAdmitted
<1>2. <<>> \in Seq(0..MaxTime) /\ Len(<<>>) = 0 /\ Now(k) - Window[k] \in Int /\ Limit[k] \in Nat
  BY WindowConstants, Clocks
<1>3. Recent(<<>>, <<>>, Now(k) - Window[k])
  BY <1>2, EmptyRecent
<1>4. Len(<<>>) <= Limit[k]
  BY <1>2
<1>5. WindowInv'
  BY <1>1, <1>2, <1>3, <1>4, OneDeque DEF WindowInv
<1>6. QED
  BY <1>1, <1>5 DEF WindowInv

\* Time that passes takes times out of the window, and no time comes back.
LEMMA LaterStep ==
  ASSUME WindowInv, UNCHANGED <<log, stamp, admitted>>,
         clock' \in 0..MaxTime, clock' >= clock, wall' \in 0..MaxTime, wall' >= wall
  PROVE  WindowInv'
<1>1. \A c \in Callers : stamp'[c] <= clock'
  BY WindowConstants DEF WindowInv
<1>2. ASSUME NEW k \in Keys
      PROVE  Recent(log'[k], admitted'[k], Now(k)' - Window[k])
  <2>1. /\ Recent(log[k], admitted[k], Now(k) - Window[k])
        /\ log[k] \in Seq(0..MaxTime) /\ admitted[k] \in Seq(0..MaxTime)
    BY DEF WindowInv
  <2>2. \A i \in 1..Len(admitted[k]) : admitted[k][i] \in Int
    BY <2>1, ElementOfSeq, WindowConstants
  <2>3. /\ Now(k) \in Int /\ Window[k] \in Int /\ Len(log[k]) \in Nat /\ Len(admitted[k]) \in Nat
        /\ Now(k)' \in Int /\ Now(k)' >= Now(k)
    BY <2>1, WindowConstants, Clocks DEF WindowInv, Now
  <2>4. ASSUME NEW i \in 1..(Len(admitted[k]) - Len(log[k]))
        PROVE  admitted[k][i] <= Now(k)' - Window[k]
    <3>1. admitted[k][i] <= Now(k) - Window[k] /\ i \in 1..Len(admitted[k])
      BY <2>1, <2>3, RecentFacts
    <3> DEFINE before == Now(k)
               after == Now(k)'
    <3>2. {before, after, Window[k], admitted[k][i]} \subseteq Int /\ after >= before
      BY <2>2, <2>3, <3>1
    <3>3. admitted[k][i] <= before - Window[k]
      BY <3>1
    <3> HIDE DEF before, after
    <3>4. admitted[k][i] <= after - Window[k]
      BY <3>2, <3>3
    <3>5. QED
      BY <3>4 DEF after
  <2>5. QED
    BY <2>1, <2>4 DEF Recent
<1>3. QED
  BY <1>1, <1>2 DEF WindowInv

LEMMA TickStep == ASSUME WindowInv, Tick \/ WallForward PROVE WindowInv' /\ UNCHANGED log
<1>1. CASE Tick
  BY <1>1, LaterStep, WindowConstants DEF Tick, WindowInv
<1>2. CASE WallForward
  BY <1>2, LaterStep, WindowConstants DEF WallForward, WindowInv
<1>3. QED
  BY <1>1, <1>2

\* When the time of day is set back, the deque is all that has been admitted.
LEMMA WallBackStep == ASSUME WindowInv, WallBack PROVE WindowInv' /\ UNCHANGED log
<1>1. /\ wall' \in 0..MaxTime
      /\ admitted' = [k \in Keys |-> IF k \in WallTimed THEN log[k] ELSE admitted[k]]
      /\ UNCHANGED <<clock, log, stamp>>
  BY DEF WallBack
<1>2. admitted' \in [Keys -> Seq(0..MaxTime)]
  BY <1>1 DEF WindowInv
<1>3. ASSUME NEW k \in Keys
      PROVE  Recent(log'[k], admitted'[k], Now(k)' - Window[k])
  <2>1. CASE k \in WallTimed
    <3>1. admitted'[k] = log[k] /\ Len(log[k]) \in Nat
      BY <1>1, <2>1 DEF WindowInv
    <3>2. \A start : Recent(log[k], log[k], start)
      BY <3>1 DEF Recent
    <3>3. QED
      BY <1>1, <3>1, <3>2
  <2>2. CASE k \notin WallTimed
    BY <1>1, <2>2 DEF WindowInv, Now
  <2>3. QED
    BY <2>1, <2>2
<1>4. QED
  BY <1>1, <1>2, <1>3 DEF WindowInv

LEMMA EmptyDeque ==
  ASSUME NEW now \in 0..MaxTime, NEW k \in Keys
  PROVE  Len(<<>>) <= Limit[k] /\ Recent(<<>>, <<>>, now - Window[k])
<1>1. Window[k] \in Int /\ Limit[k] \in Nat /\ now \in Int
  BY WindowConstants
<1>2. Recent(<<>>, <<>>, now - Window[k])
  BY <1>1, EmptyRecent
<1>3. QED
  BY <1>1, <1>2

LEMMA EmptyLimiters ==
  /\ [k \in Keys |-> <<>>] \in [Keys -> Seq(0..MaxTime)]
  /\ [c \in Callers |-> 0] \in [Callers -> 0..MaxTime]
<1>1. <<>> \in Seq(0..MaxTime) /\ 0 \in 0..MaxTime
  BY WindowConstants
<1>2. QED
  BY <1>1

\* The requests to the MCP server are spaced: whoever wakes up finds that the
\* last request has left the window.
LEMMA PacedStep ==
  ASSUME LimitersInv, NEW c \in Callers, Paced(c)
  PROVE  WindowInv'
<1>1. /\ InCall(c, "asleep") /\ clock >= call[c].wake
      /\ log' = [log EXCEPT ![Pace] = <<clock>>]
      /\ admitted' = [admitted EXCEPT ![Pace] = Append(admitted[Pace], clock)]
      /\ UNCHANGED <<clock, wall, stamp>>
  BY DEF Paced
<1>2. /\ Pace \in Keys /\ Limit[Pace] = 1 /\ Window[Pace] \in Nat /\ MaxTime \in Nat
      /\ clock \in 0..MaxTime
      /\ log[Pace] \in Seq(0..MaxTime) /\ admitted[Pace] \in Seq(0..MaxTime)
      /\ Len(log[Pace]) <= 1
      /\ Now(Pace) = clock
      /\ Recent(log[Pace], admitted[Pace], clock - Window[Pace])
  BY McpPacingConstants, WindowConstants DEF LimitersInv, WindowInv, Now
<1>3. log[Pace] # <<>> => call[c].wake >= log[Pace][1] + Window[Pace]
  BY <1>1 DEF LimitersInv, PaceInv
<1>4. call[c].wake \in Nat
  BY DEF LimitersInv, PaceInv, CallsTypeOK
<1> DEFINE all == admitted[Pace]
           whole == Append(all, clock)
<1>5. ASSUME NEW i \in 1..Len(all)
      PROVE  all[i] <= clock - Window[Pace]
  <2>1. CASE log[Pace] = <<>>
    BY <1>2, <2>1 DEF Recent
  <2>2. CASE log[Pace] # <<>>
    <3>1. Len(log[Pace]) = 1 /\ log[Pace][1] \in 0..MaxTime
      <4>1. Len(log[Pace]) \in Nat /\ Len(log[Pace]) # 0
        BY <1>2, <2>2, EmptySeq
      <4>2. Len(log[Pace]) = 1
        <5>1. Len(log[Pace]) <= 1
          BY <1>2
        <5> DEFINE n == Len(log[Pace])
        <5>2. n \in Nat /\ n # 0 /\ n <= 1
          BY <4>1, <5>1
        <5> HIDE DEF n
        <5>3. n = 1
          BY <5>2
        <5>4. QED
          BY <5>3 DEF n
      <4>3. 1 \in 1..Len(log[Pace])
        BY <4>2
      <4>4. log[Pace][1] \in 0..MaxTime
        BY <1>2, <4>3, ElementOfSeq
      <4>5. QED
        BY <4>2, <4>4
    <3>2. log[Pace][1] <= clock - Window[Pace]
      BY <1>1, <1>2, <1>3, <1>4, <2>2, <3>1
    <3>3. CASE i = Len(all)
      BY <1>2, <3>1, <3>2, <3>3 DEF Recent
    <3>4. CASE i < Len(all)
      BY <1>2, <3>1, <3>4 DEF Recent
    <3>5. QED
      BY <1>2, <3>3, <3>4
  <2>3. QED
    BY <2>1, <2>2
<1>6. /\ whole \in Seq(0..MaxTime) /\ Len(whole) = Len(all) + 1
      /\ whole[Len(all) + 1] = clock
      /\ \A i \in 1..Len(all) : whole[i] = all[i]
      /\ Len(all) \in Nat
  BY <1>2
<1>7. <<clock>> \in Seq(0..MaxTime) /\ Len(<<clock>>) = 1 /\ <<clock>>[1] = clock
  BY <1>2
<1>8. Recent(<<clock>>, whole, clock - Window[Pace])
  <2> HIDE DEF whole
  <2>1. QED
    BY <1>5, <1>6, <1>7 DEF Recent
<1>9. QED
  BY <1>1, <1>2, <1>6, <1>7, <1>8, OneDeque DEF LimitersInv, WindowInv, Now

\* Callers and the keys of the limiters.
LEMMA Who ==
  /\ Pace \in Keys /\ {Reads, Login, Route, Diagnose} \subseteq Keys \ {Pace}
  /\ Reads \notin WallTimed
  /\ Web \in Callers /\ Workers \subseteq Callers
  /\ Free \notin Callers
BY SourceReadsConstants, McpPacingConstants

\* The calls of the MCP server keep their invariant while nothing but other
\* deques changes.
LEMMA PaceKept ==
  ASSUME PaceInv, UNCHANGED calls, log'[Pace] = log[Pace]
  PROVE  PaceInv'
BY DEF PaceInv, CallsTypeOK, calls, InCall

LEMMA WindowKept == ASSUME WindowInv, UNCHANGED limiters PROVE WindowInv'
BY DEF WindowInv, limiters, Now

Call ==
  [at : {"none", "pace", "asleep", "asked", "pause"}, attempt : 0..McpAttempts - 1, wake : Nat]

\* One thread's call moves on, and nobody is sent but by the pacing.
LEMMA OneCall ==
  ASSUME PaceInv, NEW c \in Callers, NEW to \in Call,
         call' = [call EXCEPT ![c] = to],
         UNCHANGED <<lock, log>>,
         call[c].at # "asleep", to.at # "asleep",
         to.at = "pause" => to.attempt < McpAttempts - 1
  PROVE  PaceInv'
<1>1. CallsTypeOK'
  BY DEF PaceInv, CallsTypeOK, Call
<1>2. ASSUME NEW d \in Callers
      PROVE  /\ lock' = d => InCall(d, "asleep")'
             /\ InCall(d, "asleep")' =>
                  /\ lock' = d
                  /\ log'[Pace] # <<>> => call'[d].wake >= log'[Pace][1] + Window[Pace]
             /\ InCall(d, "pause")' => call'[d].attempt < McpAttempts - 1
  <2>1. CASE d = c
    BY <1>1, <2>1 DEF PaceInv, CallsTypeOK, InCall
  <2>2. CASE d # c
    <3>1. call'[d] = call[d]
      BY <2>2 DEF PaceInv, CallsTypeOK
    <3>2. QED
      BY <3>1 DEF PaceInv, InCall
  <2>3. QED
    BY <2>1, <2>2
<1>3. QED
  BY <1>1, <1>2 DEF PaceInv

LEMMA AskStep ==
  ASSUME LimitersInv, NEW w \in Workers,
         \/ CallTool(w) \/ TakeLock(w) \/ Paced(w) \/ Returned(w) \/ RateLimited(w) \/ AskAgain(w)
  PROVE  LimitersInv'
<1> DEFINE was == call[w]
<1>1. /\ w \in Callers /\ w # Free /\ was \in Call /\ call \in [Callers -> Call]
      /\ McpAttempts \in Nat \ {0} /\ clock \in Nat /\ was.attempt \in Nat
      /\ WindowInv /\ PaceInv /\ Window[Pace] \in Nat
  <2>1. WindowInv /\ PaceInv
    BY DEF LimitersInv
  <2>2. w \in Callers /\ w # Free /\ McpAttempts \in Nat \ {0} /\ Pace \in Keys
    BY Who, McpPacingConstants
  <2>3. Window[Pace] \in Nat /\ clock \in Nat
    BY <2>1, <2>2, WindowConstants DEF WindowInv
  <2>4. call \in [Callers -> Call] /\ was \in Call
    BY <2>1, <2>2 DEF PaceInv, CallsTypeOK, Call
  <2>5. was.attempt \in Nat
    BY <2>2, <2>4 DEF Call
  <2>6. QED
    BY <2>1, <2>2, <2>3, <2>4, <2>5
<1>2. CASE CallTool(w)
  <2> DEFINE to == [was EXCEPT !.at = "pace"]
  <2>1. to \in Call /\ to.at = "pace"
    BY <1>1 DEF Call
  <2>2. call' = [call EXCEPT ![w] = to] /\ was.at = "none" /\ UNCHANGED <<lock, limiters>>
    BY <1>2 DEF CallTool, InCall
  <2> HIDE DEF to
  <2>3. QED
    BY <1>1, <2>1, <2>2, OneCall, WindowKept DEF LimitersInv, limiters
<1>3. CASE TakeLock(w)
  <2> DEFINE wake == IF log[Pace] = <<>> THEN clock ELSE log[Pace][1] + Window[Pace]
             to == [was EXCEPT !.at = "asleep", !.wake = wake]
  <2>1. /\ call' = [call EXCEPT ![w] = to] /\ lock' = w /\ lock = Free /\ was.at = "pace"
        /\ UNCHANGED limiters
    BY <1>3 DEF TakeLock, InCall
  <2>2. wake \in Nat /\ (log[Pace] # <<>> => wake = log[Pace][1] + Window[Pace])
    <3>1. CASE log[Pace] = <<>>
      BY <1>1, <3>1
    <3>2. CASE log[Pace] # <<>>
      <4>1. log[Pace] \in Seq(0..MaxTime) /\ MaxTime \in Nat
        BY Who, WindowConstants DEF LimitersInv, WindowInv
      <4>2. Len(log[Pace]) \in Nat \ {0}
        BY <3>2, <4>1, EmptySeq
      <4>3. log[Pace][1] \in 0..MaxTime
        BY <4>1, <4>2, ElementOfSeq
      <4>4. QED
        BY <1>1, <3>2, <4>1, <4>3
    <3>3. QED
      BY <3>1, <3>2
  <2> HIDE DEF wake
  <2>3. to \in Call /\ to.at = "asleep" /\ to.wake = wake
    BY <1>1, <2>2 DEF Call
  <2> HIDE DEF to
  <2>4. CallsTypeOK' /\ log' = log
    BY <1>1, <2>1, <2>3 DEF CallsTypeOK, Call, limiters
  <2>5. ASSUME NEW d \in Callers
        PROVE  /\ lock' = d => InCall(d, "asleep")'
               /\ InCall(d, "asleep")' =>
                    /\ lock' = d
                    /\ log'[Pace] # <<>> => call'[d].wake >= log'[Pace][1] + Window[Pace]
               /\ InCall(d, "pause")' => call'[d].attempt < McpAttempts - 1
    <3>1. CASE d = w
      <4>1. call'[d] = to /\ wake >= wake
        BY <1>1, <2>1, <2>2, <3>1
      <4>2. QED
        BY <2>1, <2>2, <2>3, <2>4, <3>1, <4>1 DEF InCall
    <3>2. CASE d # w
      <4>1. call'[d] = call[d] /\ call[d].at # "asleep" /\ lock' # d
        BY <1>1, <2>1, <3>2, Who DEF PaceInv, InCall
      <4>2. QED
        BY <1>1, <4>1 DEF PaceInv, InCall
    <3>3. QED
      BY <3>1, <3>2
  <2>6. QED
    BY <1>1, <2>1, <2>4, <2>5, WindowKept DEF LimitersInv, PaceInv
<1>4. CASE Paced(w)
  <2> DEFINE to == [was EXCEPT !.at = "asked", !.wake = 0]
  <2>1. call' = [call EXCEPT ![w] = to] /\ lock' = Free /\ was.at = "asleep"
    BY <1>4 DEF Paced, InCall
  <2>2. to \in Call /\ to.at = "asked"
    BY <1>1 DEF Call
  <2> HIDE DEF to
  <2>3. CallsTypeOK'
    BY <1>1, <2>1, <2>2 DEF CallsTypeOK, Call
  <2>4. ASSUME NEW d \in Callers
        PROVE  call'[d].at # "asleep" /\ (call'[d].at = "pause" => call'[d].attempt < McpAttempts - 1)
    <3>1. CASE d = w
      BY <1>1, <2>1, <2>2, <3>1
    <3>2. CASE d # w
      <4>1. lock = w /\ call'[d] = call[d]
        BY <1>1, <2>1, <3>2 DEF PaceInv, InCall
      <4>2. QED
        BY <1>1, <3>2, <4>1 DEF PaceInv, InCall
    <3>3. QED
      BY <3>1, <3>2
  <2>5. PaceInv'
    BY <2>1, <2>3, <2>4, Who DEF PaceInv, InCall
  <2>6. QED
    BY <1>1, <1>4, <2>5, PacedStep DEF LimitersInv
<1>5. CASE Returned(w)
  <2>1. NoCall \in Call /\ NoCall.at = "none"
    BY <1>1 DEF Call, NoCall
  <2>2. call' = [call EXCEPT ![w] = NoCall] /\ was.at = "asked" /\ UNCHANGED <<lock, limiters>>
    BY <1>5 DEF Returned, InCall
  <2>3. QED
    BY <1>1, <2>1, <2>2, OneCall, WindowKept DEF LimitersInv, limiters
<1>6. CASE RateLimited(w)
  <2> DEFINE to == [was EXCEPT !.at = "pause", !.wake = clock + 1 + was.attempt]
  <2>1. /\ call' = [call EXCEPT ![w] = to] /\ was.at = "asked" /\ was.attempt < McpAttempts - 1
        /\ UNCHANGED <<lock, limiters>>
    BY <1>6 DEF RateLimited, InCall
  <2>2. clock + 1 + was.attempt \in Nat
    BY <1>1
  <2>3. to \in Call /\ to.at = "pause" /\ to.attempt = was.attempt
    BY <1>1, <2>2 DEF Call
  <2> HIDE DEF to
  <2>4. QED
    BY <1>1, <2>1, <2>3, OneCall, WindowKept DEF LimitersInv, limiters
<1>7. CASE AskAgain(w)
  <2> DEFINE to == [at |-> "pace", attempt |-> was.attempt + 1, wake |-> 0]
  <2>1. /\ call' = [call EXCEPT ![w] = to] /\ was.at = "pause" /\ UNCHANGED <<lock, limiters>>
    BY <1>7 DEF AskAgain, InCall
  <2>2. was.attempt < McpAttempts - 1
    BY <1>1, <2>1 DEF PaceInv, InCall
  <2>3. was.attempt + 1 \in 0..McpAttempts - 1
    BY <1>1, <2>2
  <2>4. to \in Call /\ to.at = "pace"
    BY <2>3 DEF Call
  <2> HIDE DEF to
  <2>5. QED
    BY <1>1, <2>1, <2>4, OneCall, WindowKept DEF LimitersInv, limiters
<1>8. QED
  BY <1>2, <1>3, <1>4, <1>5, <1>6, <1>7

LEMMA LimitersInitially == LimitersInit /\ CallsInit => LimitersInv
<1> SUFFICES ASSUME LimitersInit, CallsInit PROVE LimitersInv
  OBVIOUS
<1>1. clock \in 0..MaxTime
  BY WindowConstants DEF LimitersInit
<1>2. WindowInv
  BY <1>1, EmptyDeque, EmptyLimiters, WindowConstants DEF LimitersInit, WindowInv, Now
<1>3. NoCall \in Call /\ NoCall.at = "none"
  BY McpPacingConstants DEF Call, NoCall
<1>4. CallsTypeOK
  BY <1>3 DEF CallsInit, CallsTypeOK, Call
<1>5. PaceInv
  BY <1>3, <1>4, Who DEF CallsInit, PaceInv, InCall
<1>6. QED
  BY <1>2, <1>5 DEF LimitersInv

\* The proxied reads: the clock is read in one step, the deque in another.
LEMMA StampStep ==
  ASSUME LimitersInv, NEW c \in Callers, ReadClock(c), UNCHANGED calls
  PROVE  LimitersInv'
<1>1. stamp' = [stamp EXCEPT ![c] = clock] /\ UNCHANGED <<clock, wall, log, admitted>>
  BY DEF ReadClock
<1>2. /\ stamp' \in [Callers -> 0..MaxTime] /\ clock \in Int
      /\ \A d \in Callers : stamp'[d] <= clock
  BY <1>1, WindowConstants DEF LimitersInv, WindowInv
<1>3. WindowInv'
  BY <1>1, <1>2 DEF LimitersInv, WindowInv, Now
<1>4. QED
  BY <1>1, <1>3, PaceKept DEF LimitersInv

LEMMA ReadStep ==
  ASSUME LimitersInv, NEW c \in Callers,
         Admit(Reads, stamp[c]) \/ Refuse(Reads, stamp[c]), Forget(c), UNCHANGED calls
  PROVE  LimitersInv'
<1>1. stamp' = [stamp EXCEPT ![c] = 0] /\ UNCHANGED <<clock, wall>> /\ Now(Reads) = clock
  BY Who DEF Forget, Now
<1>2. /\ stamp' \in [Callers -> 0..MaxTime] /\ stamp[c] \in 0..MaxTime /\ stamp[c] <= clock
      /\ \A d \in Callers : stamp'[d] <= clock
  BY <1>1, WindowConstants DEF LimitersInv, WindowInv
<1>3. WindowInv' /\ log'[Pace] = log[Pace]
  BY <1>1, <1>2, CheckStep, Who DEF LimitersInv
<1>4. QED
  BY <1>3, PaceKept DEF LimitersInv

\* The limiters of the web routes.
LEMMA RouteStep ==
  ASSUME LimitersInv, ApiLogin \/ ApiMongo \/ ApiDiagnose, UNCHANGED calls
  PROVE  LimitersInv'
<1>1. ASSUME NEW k \in {Login, Route, Diagnose}, CheckAlone(k)
      PROVE  WindowInv' /\ log'[Pace] = log[Pace]
  <2>1. /\ k \in Keys /\ k # Pace /\ Pace \in Keys
        /\ Admit(k, Now(k)) \/ Refuse(k, Now(k))
        /\ UNCHANGED <<clock, wall, stamp>>
    BY <1>1, Who DEF CheckAlone
  <2>2. Now(k) \in 0..MaxTime /\ Now(k) <= Now(k)
    BY <2>1, Clocks DEF LimitersInv
  <2>3. stamp' \in [Callers -> 0..MaxTime] /\ \A c \in Callers : stamp'[c] <= clock
    BY <2>1 DEF LimitersInv, WindowInv
  <2>4. QED
    BY <2>1, <2>2, <2>3, CheckStep DEF LimitersInv
<1>2. ASSUME LoginAdmitted(Login)
      PROVE  WindowInv' /\ log'[Pace] = log[Pace]
  BY <1>2, ResetStep, Who DEF LimitersInv
<1>3. WindowInv' /\ log'[Pace] = log[Pace]
  BY <1>1, <1>2 DEF ApiLogin, ApiMongo, ApiDiagnose
<1>4. QED
  BY <1>3, PaceKept DEF LimitersInv

LEMMA LimitersStep == LimitersInv /\ [Next]_vars => LimitersInv'
<1> SUFFICES ASSUME LimitersInv, [Next]_vars PROVE LimitersInv'
  OBVIOUS
<1>1. ASSUME UNCHANGED <<limiters, calls>>
      PROVE  LimitersInv'
  BY <1>1, WindowKept, PaceKept DEF LimitersInv, limiters
<1>2. CASE ReadCompany /\ UNCHANGED calls
  <2>1. ASSUME NEW w \in Workers, WorkerStamps(w) PROVE LimitersInv'
    BY <1>2, <2>1, StampStep, Who DEF WorkerStamps
  <2>2. ASSUME NEW w \in Workers, WorkerReads(w) PROVE LimitersInv'
    BY <1>2, <2>2, ReadStep, Who DEF WorkerReads
  <2>3. ASSUME WebStamps PROVE LimitersInv'
    BY <1>2, <2>3, StampStep, Who DEF WebStamps
  <2>4. ASSUME WebReads PROVE LimitersInv'
    BY <1>2, <2>4, ReadStep, Who DEF WebReads
  <2>5. QED
    BY <1>2, <2>1, <2>2, <2>3, <2>4 DEF ReadCompany
<1>3. CASE AskMcp
  BY <1>3, AskStep DEF AskMcp
<1>4. CASE (ApiLogin \/ ApiMongo \/ ApiDiagnose) /\ UNCHANGED calls
  BY <1>4, RouteStep
<1>5. CASE (Tick \/ WallForward \/ WallBack) /\ UNCHANGED calls
  BY <1>5, TickStep, WallBackStep, PaceKept DEF LimitersInv
<1>6. CASE LimitersLost /\ CallsLost
  <2>1. /\ log' = [k \in Keys |-> <<>>] /\ admitted' = [k \in Keys |-> <<>>]
        /\ stamp' = [c \in Callers |-> 0] /\ UNCHANGED <<clock, wall>>
        /\ lock' = Free /\ call' = [c \in Callers |-> NoCall]
    BY <1>6 DEF LimitersLost, CallsLost
  <2>2. {clock, wall} \subseteq 0..MaxTime
    BY DEF LimitersInv, WindowInv
  <2>3. WindowInv'
    BY <2>1, <2>2, EmptyDeque, EmptyLimiters, WindowConstants DEF WindowInv, Now
  <2>4. NoCall \in Call /\ NoCall.at = "none"
    BY McpPacingConstants DEF Call, NoCall
  <2>5. CallsTypeOK'
    BY <2>1, <2>4 DEF CallsTypeOK, Call
  <2>6. PaceInv'
    BY <2>1, <2>4, <2>5, Who DEF PaceInv, InCall
  <2>7. QED
    BY <2>3, <2>6 DEF LimitersInv
<1>7. QED
  BY <1>1, <1>2, <1>3, <1>4, <1>5, <1>6 DEF Next, vars, Restart

\* The times inside the window are among the latest, and the deque holds them.
LEMMA WindowHolds == WindowInv => LimitHolds
<1> SUFFICES ASSUME WindowInv, NEW k \in Keys
             PROVE  Cardinality({i \in DOMAIN admitted[k] : admitted[k][i] > Now(k) - Window[k]}) <= Limit[k]
  BY DEF LimitHolds
<1> DEFINE all == admitted[k]
           recent == {i \in DOMAIN all : all[i] > Now(k) - Window[k]}
           dropped == Len(all) - Len(log[k])
<1>1. /\ all \in Seq(0..MaxTime) /\ log[k] \in Seq(0..MaxTime) /\ MaxTime \in Nat
      /\ Len(log[k]) <= Limit[k] /\ Limit[k] \in Nat /\ Now(k) \in Int /\ Window[k] \in Int
      /\ Recent(log[k], all, Now(k) - Window[k])
  BY WindowConstants, Clocks DEF WindowInv
<1>2. /\ dropped \in Nat /\ Len(all) \in Nat /\ Len(log[k]) \in Nat
      /\ \A i \in 1..dropped : all[i] <= Now(k) - Window[k]
  <2>1. Len(all) \in Nat /\ Len(log[k]) \in Nat
    BY <1>1
  <2>2. dropped >= 0 /\ \A i \in 1..dropped : all[i] <= Now(k) - Window[k]
    <3> DEFINE start == Now(k) - Window[k]
    <3>1. Recent(log[k], all, start)
      BY <1>1
    <3> HIDE DEF start
    <3>2. dropped >= 0 /\ \A i \in 1..dropped : all[i] <= start
      BY <3>1, RecentFacts
    <3>3. QED
      BY <3>2 DEF start
  <2>3. dropped \in Nat
    BY <2>1, <2>2
  <2> HIDE DEF dropped, all
  <2>4. QED
    BY <2>1, <2>2, <2>3
<1>3. recent \subseteq (dropped + 1)..Len(all)
  <2> SUFFICES ASSUME NEW i \in 1..Len(all), all[i] > Now(k) - Window[k]
               PROVE  i >= dropped + 1
    <3>1. DOMAIN all = 1..Len(all) /\ dropped \in Int
      BY <1>1, <1>2
    <3> HIDE DEF dropped, all
    <3>2. QED
      BY <1>2, <3>1
  <2>1. all[i] \in Int
    BY <1>1, ElementOfSeq
  <2>2. ~(i \in 1..dropped)
    BY <1>1, <1>2, <2>1
  <2>3. QED
    BY <1>2, <2>2
<1>4. /\ IsFiniteSet((dropped + 1)..Len(all))
      /\ Cardinality((dropped + 1)..Len(all)) <= Len(log[k])
  <2>1. dropped + 1 \in Int /\ Len(all) \in Int
    BY <1>2
  <2>2. Cardinality((dropped + 1)..Len(all))
          = IF dropped + 1 > Len(all) THEN 0 ELSE Len(all) - (dropped + 1) + 1
    BY <2>1, FS_Interval
  <2>3. Len(all) - (dropped + 1) + 1 = Len(log[k])
    BY <1>2
  <2>4. IsFiniteSet((dropped + 1)..Len(all))
    BY <2>1, FS_Interval
  <2> HIDE DEF dropped
  <2>5. QED
    BY <1>2, <2>2, <2>3, <2>4
<1>5. Cardinality(recent) <= Cardinality((dropped + 1)..Len(all)) /\ IsFiniteSet(recent)
  BY <1>3, <1>4, FS_Subset
<1>6. Cardinality(recent) \in Nat /\ Cardinality((dropped + 1)..Len(all)) \in Nat
  BY <1>4, <1>5, FS_CardinalityType
<1> HIDE DEF recent, dropped
<1>7. Cardinality(recent) <= Limit[k]
  BY <1>1, <1>2, <1>4, <1>5, <1>6
<1>8. QED
  BY <1>7 DEF recent

-----------------------------------------------------------------------------
(* The theorems. *)

\* The three inductive invariants hold from the start and in every step.
THEOREM PartsInvariant == Spec => [](SourcesInv /\ LimitersInv /\ TelemetryInv)
<1>1. Init => SourcesInv /\ LimitersInv /\ TelemetryInv
  BY SourcesInitially, LimitersInitially, TelemetryInitially DEF Init
<1>2. SourcesInv /\ LimitersInv /\ TelemetryInv /\ [Next]_vars
        => (SourcesInv /\ LimitersInv /\ TelemetryInv)'
  BY SourcesStep, LimitersStep, TelemetryStep
<1>3. QED
  BY <1>1, <1>2, PTL DEF Spec

\* Every variable keeps its type, and a deque never holds more times than its limit.
THEOREM TypeCorrect == Spec => []TypeOK
<1>1. LimitersInv => LimitersTypeOK /\ CallsTypeOK
  BY DEF LimitersInv, WindowInv, PaceInv, LimitersTypeOK
<1>2. SourcesInv /\ LimitersInv /\ TelemetryInv /\ traffic \in Traffic => TypeOK
  BY <1>1 DEF SourcesInv, TelemetryInv, TypeOK
<1>3. Init => traffic \in Traffic
  BY DEF Init
<1>4. traffic \in Traffic /\ [Next]_vars => (traffic \in Traffic)'
  BY DEF Next, vars
<1>5. QED
  BY <1>2, <1>3, <1>4, PartsInvariant, PTL DEF Spec

\* A Telegram request runs on a source that one policy in force since it began
\* allowed, and that was this policy's default or a browser's own selection.
THEOREM SourcesAreJustified == Spec => []SourceWasJustified
<1>1. SourcesInv => SourceWasJustified
  BY DEF SourcesInv, ThreadInv, Justified, SourceWasJustified
<1>2. QED
  BY <1>1, PartsInvariant, PTL

\* Of the requests that read their limiter's clock within the window that ends
\* now, never more than the limit were admitted, and the requests to the MCP
\* server are never closer together than the interval.  The limiters of the
\* proxied reads, logins and MongoDB routes and the pacing count by a clock that
\* never goes back; for the diagnosis routes, which count by the time of day,
\* the promise begins again whenever that is set back.
THEOREM LimitsHold == Spec => []LimitHolds
<1>1. LimitersInv => LimitHolds
  BY WindowHolds DEF LimitersInv
<1>2. QED
  BY <1>1, PartsInvariant, PTL

\* A row of SQLite has at most one copy in MongoDB, and each row that was there
\* when a completed run of the backfill script began has one.
THEOREM CopiedOnce == Spec => []BackfillCopiesOnce
<1>1. TelemetryInv => BackfillCopiesOnce
  BY DEF TelemetryInv
<1>2. QED
  BY <1>1, PartsInvariant, PTL
=============================================================================
