------------------------------ MODULE Catalog ------------------------------
(***************************************************************************)
(* The club catalog of one observer node: the SQLite tables of             *)
(* observer/store.py and every operation that writes them.                 *)
(*                                                                         *)
(* Two kinds of threads write.  The drain thread (observer/ingest.py)      *)
(* ingests the lines clubd appended to the inbox.  The web threads serve   *)
(* the admin: they ingest this node's own reports a second time            *)
(* (clubd_client.publish_report), blacklist publishers and set the alias.  *)
(* Each thread has its own connection; a write transaction starts at the   *)
(* first write, so what ingest_message reads before its INSERT is read     *)
(* outside the transaction.                                                *)
(*                                                                         *)
(* A row's received_at is the value of clock when ingest_message read it;  *)
(* 0 stands for "no row".                                                  *)
(***************************************************************************)
EXTENDS Integers, FiniteSets

CONSTANTS
    Publishers,     \* peer ids that sign messages
    Me,             \* the peer id of this node's clubd
    Cids,           \* cid strings that occur in messages
    ValidCids,      \* those that cidutil.valid accepts
    Universe,       \* the signed messages that can reach this node
    Legacy,         \* classify rows an earlier version left in the tables
    AliasNames,     \* normalised aliases, "" among them
    GuestReports,   \* <<cid, reason>> pairs guests propose
    WebThreads,     \* threads that serve the web API
    AtCap,          \* the answers work.at_cap() can give
    SkipTtl,        \* fetch.skip_ttl_seconds
    MaxClock,       \* bound on clock
    MaxCrashes,     \* bound on the number of crashes
    NoRow           \* "no such row"

Drain == "drain"
Free == "free"
Threads == WebThreads \cup {Drain}

ReportReasons == {"wrong", "abusive", "clear"}
PersistSkipReasons == {"out_of_scope", "not_academic", "directory"}
SkipReasons == PersistSkipReasons \cup {"unprocessable"}

(***************************************************************************)
(* A message is its canonical payload: two messages have the same          *)
(* payload_hash exactly when they are equal.  Only what the catalog tells  *)
(* apart is kept: "by" is classifier.kind, "until" the end of a lease.  An *)
(* alias is modelled by its normalised text, "" when nothing is left.      *)
(***************************************************************************)
Message ==
         [kind : {"classify"}, publisher : Publishers, cid : Cids, by : {"model", "reuse"}]
    \cup [kind : {"skip"}, publisher : Publishers, cid : Cids, reason : SkipReasons]
    \cup [kind : {"claim"}, publisher : Publishers, cid : Cids, until : Nat]
    \cup [kind : {"alias"}, publisher : Publishers, alias : AliasNames]
    \cup [kind : {"report"}, publisher : Publishers, cid : Cids, reason : ReportReasons]

OfKind(k) == {m \in Universe : m.kind = k}

(***************************************************************************)
(* Cids is finite; a cid has at most one legacy classify.                  *)
(***************************************************************************)
ASSUME CatalogAssumption ==
    /\ Me \in Publishers
    /\ ValidCids \subseteq Cids
    /\ IsFiniteSet(Cids)
    /\ Universe \subseteq Message
    /\ Legacy \subseteq OfKind("classify")
    /\ \A m, n \in Legacy : m.cid = n.cid => m = n
    /\ GuestReports \subseteq Cids \X {"wrong", "abusive"}
    /\ Drain \notin WebThreads
    /\ Free \notin Threads
    /\ AtCap \subseteq BOOLEAN
    /\ "" \in AliasNames
    /\ SkipTtl \in Nat
    /\ MaxClock \in Nat
    /\ MaxCrashes \in Nat

\* NoRow is none of the values a table column holds.
ASSUME NoRowAssumption ==
    /\ NoRow \notin Universe
    /\ NoRow \notin ReportReasons
    /\ NoRow \notin [msg : Universe, at : Nat]

VARIABLES
    up,             \* the observer process runs
    crashes,        \* how often it has crashed
    clock,          \* time.time()
    messages,       \* table messages: payload -> received_at, 0 if absent
    classifies,     \* table classifies: payload -> received_at, 0 if absent
    docs,           \* tables docs and docs_fts: cid -> the classify shown for it
    docsCount,      \* settings.docs_count
    skips,          \* table skips: cid -> the skip and its received_at
    claims,         \* table claims: publisher -> the lease
    reports,        \* table reports: cid, publisher -> reason
    aliases,        \* table aliases: publisher -> the message, or the local row
    localAlias,     \* settings.alias
    blacklisted,    \* table blacklisted
    proposals,      \* table report_proposals
    reviews,        \* cids enqueue_review has put in the work queue
    pc,             \* what each thread is in the middle of
    lock            \* the thread whose open transaction has the write lock

denormalized == <<classifies, docs, docsCount, skips, claims, reports, aliases>>
tables == <<messages, denormalized, localAlias, blacklisted>>
vars == <<up, crashes, clock, tables, proposals, reviews, pc, lock>>

Idle == [stage |-> "idle"]
Busy ==
         [stage : {"insert"}, msg : Universe, at : Nat]
    \cup [stage : {"review", "drop"}, msg : OfKind("report"), at : Nat]
    \cup [stage : {"second"}, msg : OfKind("classify"), at : Nat]
LocalRow(a) == [kind |-> "local", alias |-> a]

TypeOK ==
    /\ up \in BOOLEAN
    /\ crashes \in Nat
    /\ clock \in Nat
    /\ messages \in [Universe -> Nat]
    /\ classifies \in [OfKind("classify") -> Nat]
    /\ docs \in [Cids -> OfKind("classify") \cup {NoRow}]
    /\ docsCount \in Int
    /\ skips \in [Cids -> [msg : OfKind("skip"), at : Nat] \cup {NoRow}]
    /\ claims \in [Publishers -> [cid : Cids, until : Nat] \cup {NoRow}]
    /\ reports \in [Cids -> [Publishers -> {"wrong", "abusive", NoRow}]]
    /\ aliases \in [Publishers -> OfKind("alias") \cup {NoRow}
                                   \cup {LocalRow(a) : a \in AliasNames}]
    /\ localAlias \in AliasNames
    /\ blacklisted \subseteq Publishers
    /\ proposals \subseteq GuestReports
    /\ reviews \subseteq Cids
    /\ pc \in [Threads -> Busy \cup {Idle}]
    /\ lock \in Threads \cup {Free}

-----------------------------------------------------------------------------
(***************************************************************************)
(* What the tables say.                                                    *)
(***************************************************************************)
\* The classify rows of cid c in table tab.
ClassifyRows(tab, c) == {m \in OfKind("classify") : m.cid = c /\ tab[m] # 0}

\* Mutant: ORDER BY received_at DESC.
Oldest_Descending(tab, c) ==
    LET rows == ClassifyRows(tab, c)
    IN  IF rows = {} THEN NoRow
        ELSE CHOOSE m \in rows : \A n \in rows : tab[m] >= tab[n]

\* SELECT ... ORDER BY received_at ASC LIMIT 1
Oldest(tab, c) ==
    LET rows == ClassifyRows(tab, c)
    IN  IF rows = {} THEN NoRow
        ELSE CHOOSE m \in rows : \A n \in rows : tab[m] <= tab[n]

Indexed(d) == {c \in Cids : d[c] # NoRow}

local_classified(c) == \E m \in ClassifyRows(classifies, c) : m.publisher = Me

\* Publishers with a non-reuse classify.
independent_publishers(c) ==
    {m.publisher : m \in {r \in ClassifyRows(classifies, c) : r.by # "reuse"}}

should_second_classify(c) ==
    /\ ~local_classified(c)
    /\ Cardinality(independent_publishers(c)) = 1

is_abusive(c) == \E p \in Publishers : reports[c][p] = "abusive"

needs_review(c) == \E p \in Publishers : reports[c][p] = "wrong"

skip_is_live(row) ==
    \/ row.msg.reason \in PersistSkipReasons
    \/ SkipTtl <= 0
    \/ row.at + SkipTtl > clock

-----------------------------------------------------------------------------
\* Mutant: the blacklist is not consulted.
Accepts_NoBlacklist(m) == m.kind # "alias" => m.cid \in ValidCids

(***************************************************************************)
(* ingest_message, first half: everything up to the INSERT.  The blacklist *)
(* and the clock are read here, outside any transaction.  A refused        *)
(* message changes nothing and is not a step.                              *)
(***************************************************************************)
Accepts(m) ==
    /\ m.publisher \notin blacklisted
    /\ m.kind # "alias" => m.cid \in ValidCids

\* The drain thread reads any message; a web thread the report it just published.
Hears(t, m) == t = Drain \/ (m.kind = "report" /\ m.publisher = Me)

\* Mutant: received_at is the sender's timestamp, whose clock is ahead.
IngestBegin_SenderClock(t, m) ==
    /\ up
    /\ clock < MaxClock
    /\ pc[t] = Idle
    /\ Hears(t, m)
    /\ Accepts(m)
    /\ pc' = [pc EXCEPT ![t] = [stage |-> "insert", msg |-> m, at |-> clock + 1]]
    /\ clock' = clock + 1
    /\ UNCHANGED <<up, crashes, tables, proposals, reviews, lock>>

IngestBegin(t, m) ==
    /\ up
    /\ clock < MaxClock
    /\ pc[t] = Idle
    /\ Hears(t, m)
    /\ Accepts(m)
    /\ pc' = [pc EXCEPT ![t] = [stage |-> "insert", msg |-> m, at |-> clock]]
    /\ clock' = clock + 1
    /\ UNCHANGED <<up, crashes, tables, proposals, reviews, lock>>

(***************************************************************************)
(* A statement that writes needs the write lock: nobody else may have it.  *)
(***************************************************************************)
CanWrite(t) == lock \in {Free, t}

-----------------------------------------------------------------------------
(***************************************************************************)
(* ingest_message, second half: the denormalized tables, one operator per  *)
(* kind.  m is the message and now its received_at.                        *)
(***************************************************************************)
\* DELETE FROM claims WHERE cid = ?
DropClaims(c) ==
    claims' = [p \in Publishers |->
                 IF claims[p] # NoRow /\ claims[p].cid = c THEN NoRow ELSE claims[p]]

\* INSERT OR IGNORE INTO docs; the counter moves only with a new row.
UpsertDoc(m) ==
    IF docs[m.cid] = NoRow
    THEN /\ docs' = [docs EXCEPT ![m.cid] = m]
         /\ docsCount' = docsCount + 1
    ELSE UNCHANGED <<docs, docsCount>>

InsertClassify(m, now) ==
    /\ m.kind = "classify"
    /\ classifies' = [classifies EXCEPT ![m] = now]
    /\ DropClaims(m.cid)
    /\ UpsertDoc(m)
    /\ UNCHANGED <<skips, reports, aliases>>

\* Mutant: an empty alias leaves the old name.
UpsertAlias_KeepsOld(m) ==
    /\ m.kind = "alias"
    /\ aliases' = IF m.alias = "" THEN aliases ELSE [aliases EXCEPT ![m.publisher] = m]
    /\ UNCHANGED <<classifies, docs, docsCount, skips, claims, reports>>

UpsertAlias(m) ==
    /\ m.kind = "alias"
    /\ aliases' = [aliases EXCEPT ![m.publisher] = IF m.alias = "" THEN NoRow ELSE m]
    /\ UNCHANGED <<classifies, docs, docsCount, skips, claims, reports>>

InsertSkip(m, now) ==
    /\ m.kind = "skip"
    /\ skips' = [skips EXCEPT ![m.cid] = [msg |-> m, at |-> now]]
    /\ DropClaims(m.cid)
    /\ UNCHANGED <<classifies, docs, docsCount, reports, aliases>>

\* Mutant: the publisher's other lease is not looked up.
LeaseOpen_NoOther(m) == m.until > clock

\* A lease is recorded while it runs, unless its publisher holds another one.
LeaseOpen(m) ==
    /\ m.until > clock
    /\ ~ /\ claims[m.publisher] # NoRow
         /\ claims[m.publisher].cid # m.cid
         /\ claims[m.publisher].until > clock

InsertClaim(m) ==
    /\ m.kind = "claim"
    /\ claims' = IF LeaseOpen(m)
                 THEN [claims EXCEPT ![m.publisher] = [cid |-> m.cid, until |-> m.until]]
                 ELSE claims
    /\ UNCHANGED <<classifies, docs, docsCount, skips, reports, aliases>>

\* Mutant: clear is stored as if it were a reason.
InsertReport_StoresClear(m) ==
    /\ m.kind = "report"
    /\ reports' = [reports EXCEPT ![m.cid][m.publisher] = m.reason]
    /\ UNCHANGED <<classifies, docs, docsCount, skips, claims, aliases>>

InsertReport(m) ==
    /\ m.kind = "report"
    /\ reports' = [reports EXCEPT ![m.cid][m.publisher] =
                       IF m.reason = "clear" THEN NoRow ELSE m.reason]
    /\ UNCHANGED <<classifies, docs, docsCount, skips, claims, aliases>>

\* t goes on with stage, or is done.
Proceed(t, stage) ==
    pc' = [pc EXCEPT ![t] = IF stage = "idle" THEN Idle ELSE [@ EXCEPT !.stage = stage]]

\* A web thread that has published a report other than clear drops the guest
\* proposals it answers.
LastStage(t, m) ==
    IF t # Drain /\ m.kind = "report" /\ m.reason # "clear" THEN "drop" ELSE "idle"

\* What is left to do after the commit, by whom.
NextStage(t, m) ==
    CASE m.kind = "report" /\ m.reason = "wrong" -> "review"
      [] m.kind = "classify" /\ t = Drain -> "second"
      [] OTHER -> LastStage(t, m)

IngestCommit(t) ==
    /\ pc[t].stage = "insert"
    /\ CanWrite(t)
    /\ LET m == pc[t].msg
           now == pc[t].at
       IN  /\ messages[m] = 0
           /\ messages' = [messages EXCEPT ![m] = now]
           /\ \/ InsertClassify(m, now)
              \/ UpsertAlias(m)
              \/ InsertSkip(m, now)
              \/ InsertClaim(m)
              \/ InsertReport(m)
           /\ Proceed(t, NextStage(t, m))
    /\ lock' = Free
    /\ UNCHANGED <<up, crashes, clock, localAlias, blacklisted, proposals, reviews>>

(***************************************************************************)
(* The payload_hash is already there: IntegrityError, and ingest_message   *)
(* returns False.  The INSERT has opened a transaction and nothing ends    *)
(* it, so the thread keeps the write lock until it next commits.           *)
(***************************************************************************)
IngestDuplicate(t) ==
    /\ pc[t].stage = "insert"
    /\ CanWrite(t)
    /\ messages[pc[t].msg] # 0
    /\ Proceed(t, LastStage(t, pc[t].msg))
    /\ lock' = t
    /\ UNCHANGED <<up, crashes, clock, tables, proposals, reviews>>

\* Mutant: the web thread swallows the error and drops the proposal.
Locked_Swallowed(t) ==
    /\ pc[t].stage \in {"insert", "drop"}
    /\ ~CanWrite(t)
    /\ Proceed(t, IF pc[t].stage = "drop" THEN "idle" ELSE LastStage(t, pc[t].msg))
    /\ UNCHANGED <<up, crashes, clock, tables, proposals, reviews, lock>>

\* Somebody else keeps the lock past busy_timeout: OperationalError, and the
\* thread gives up.  The drain thread starts over at its saved offset.
Locked(t) ==
    /\ pc[t].stage \in {"insert", "drop"}
    /\ ~CanWrite(t)
    /\ Proceed(t, "idle")
    /\ UNCHANGED <<up, crashes, clock, tables, proposals, reviews, lock>>

\* Mutant: any classify of the cid, not only this node's, excuses it.
EnqueueReview_AnyClassify(t) ==
    /\ pc[t].stage = "review"
    /\ LET c == pc[t].msg.cid
       IN  reviews' = IF ClassifyRows(classifies, c) # {} THEN reviews ELSE reviews \cup {c}
    /\ Proceed(t, LastStage(t, pc[t].msg))
    /\ UNCHANGED <<up, crashes, clock, tables, proposals, lock>>

(***************************************************************************)
(* After the commit: a wrong report asks for a review of its cid, a new    *)
(* classify read by the drain thread for a second vote.                    *)
(***************************************************************************)
EnqueueReview(t) ==
    /\ pc[t].stage = "review"
    /\ LET c == pc[t].msg.cid
       IN  reviews' = IF local_classified(c) THEN reviews ELSE reviews \cup {c}
    /\ Proceed(t, LastStage(t, pc[t].msg))
    /\ UNCHANGED <<up, crashes, clock, tables, proposals, lock>>

MaybeEnqueueSecond(t) ==
    /\ pc[t].stage = "second"
    /\ LET c == pc[t].msg.cid
       IN  \E full \in AtCap :
             reviews' = IF should_second_classify(c) /\ ~full
                        THEN reviews \cup {c} ELSE reviews
    /\ Proceed(t, "idle")
    /\ UNCHANGED <<up, crashes, clock, tables, proposals, lock>>

-----------------------------------------------------------------------------
(***************************************************************************)
(* Guest reports wait in report_proposals for the admin, who rejects them  *)
(* or publishes a report.                                                  *)
(***************************************************************************)
\* One statement and a commit of a web thread.
WebWrite(t) ==
    /\ t # Drain
    /\ CanWrite(t)
    /\ lock' = Free
    /\ UNCHANGED <<up, crashes, clock, tables, reviews>>

propose_report(t, c, r) ==
    /\ up
    /\ pc[t] = Idle
    /\ <<c, r>> \in GuestReports
    /\ c \in ValidCids
    /\ ~(r = "abusive" /\ is_abusive(c))
    /\ proposals' = proposals \cup {<<c, r>>}
    /\ WebWrite(t)
    /\ UNCHANGED pc

\* /api/reports/decide with action reject.
RejectProposal(t, c, r) ==
    /\ up
    /\ pc[t] = Idle
    /\ proposals' = proposals \ {<<c, r>>}
    /\ WebWrite(t)
    /\ UNCHANGED pc

\* The report is published: its proposal goes.
DropProposal(t) ==
    /\ pc[t].stage = "drop"
    /\ proposals' = proposals \ {<<pc[t].msg.cid, pc[t].msg.reason>>}
    /\ Proceed(t, "idle")
    /\ WebWrite(t)

-----------------------------------------------------------------------------
(***************************************************************************)
(* The other writers.  Each is one transaction of an otherwise idle thread *)
(* and ends in a commit.                                                   *)
(***************************************************************************)
Transaction(t) ==
    /\ up
    /\ pc[t] = Idle
    /\ CanWrite(t)
    /\ lock' = Free
    /\ UNCHANGED <<up, crashes, clock, proposals, reviews, pc>>

\* The cids whose search row blacklist rebuilds.
CidsOf(p) == {c \in Cids :
                \/ \E m \in ClassifyRows(classifies, c) : m.publisher = p
                \/ reports[c][p] # NoRow}

\* _rebuild_doc for each of cids, from the classify rows left in tab.
RebuildDocs(tab, cids) ==
    /\ docs' = [c \in Cids |-> IF c \in cids THEN Oldest(tab, c) ELSE docs[c]]
    /\ docsCount' = docsCount - Cardinality(cids \cap Indexed(docs))
                              + Cardinality({c \in cids : Oldest(tab, c) # NoRow})

Blacklist(t, p) ==
    /\ Transaction(t)
    /\ t # Drain
    /\ p # Me
    /\ blacklisted' = blacklisted \cup {p}
    /\ LET kept == [m \in OfKind("classify") |->
                       IF m.publisher = p THEN 0 ELSE classifies[m]]
       IN  /\ classifies' = kept
           /\ RebuildDocs(kept, CidsOf(p))
    /\ reports' = [c \in Cids |-> [reports[c] EXCEPT ![p] = NoRow]]
    /\ skips' = [c \in Cids |-> IF skips[c] # NoRow /\ skips[c].msg.publisher = p
                                THEN NoRow ELSE skips[c]]
    /\ claims' = [claims EXCEPT ![p] = NoRow]
    /\ aliases' = [aliases EXCEPT ![p] = NoRow]
    /\ messages' = [m \in Universe |-> IF m.publisher = p THEN 0 ELSE messages[m]]
    /\ UNCHANGED localAlias

Unblacklist(t, p) ==
    /\ Transaction(t)
    /\ t # Drain
    /\ blacklisted' = blacklisted \ {p}
    /\ UNCHANGED <<messages, denormalized, localAlias>>

SetLocalAlias(t, a) ==
    /\ Transaction(t)
    /\ t # Drain
    /\ localAlias' = a
    /\ aliases' = [aliases EXCEPT ![Me] = IF a = "" THEN NoRow ELSE LocalRow(a)]
    /\ UNCHANGED <<messages, classifies, docs, docsCount, skips, claims, reports, blacklisted>>

\* Mutant: every skip is subject to the TTL.
SkipExpired_AnyReason(row) == SkipTtl > 0 /\ row.at < clock - SkipTtl

\* The skips expire_claims deletes.
SkipExpired(row) ==
    /\ SkipTtl > 0
    /\ row.msg.reason \notin PersistSkipReasons
    /\ row.at < clock - SkipTtl

\* The end of every drain: leases that have run out and skips past their TTL go.
ExpireClaims ==
    /\ Transaction(Drain)
    /\ claims' = [p \in Publishers |->
                    IF claims[p] # NoRow /\ claims[p].until <= clock THEN NoRow ELSE claims[p]]
    /\ skips' = [c \in Cids |->
                   IF skips[c] # NoRow /\ SkipExpired(skips[c]) THEN NoRow ELSE skips[c]]
    /\ UNCHANGED <<messages, classifies, docs, docsCount, reports, aliases,
                   localAlias, blacklisted>>

-----------------------------------------------------------------------------
(***************************************************************************)
(* Start of the process: main() purges the catalog before any thread runs. *)
(***************************************************************************)
\* purge_unprocessable_skips: these cids lose their skip and their skip messages.
Unprocessable == {c \in Cids : skips[c] # NoRow /\ skips[c].msg.reason = "unprocessable"}

\* purge_invalid_cids: malformed cids that some row mentions.
Dead == {c \in Cids \ ValidCids :
            \/ ClassifyRows(classifies, c) # {}
            \/ skips[c] # NoRow
            \/ \E p \in Publishers : claims[p] # NoRow /\ claims[p].cid = c
            \/ \E m \in Universe : m.kind # "alias" /\ m.cid = c /\ messages[m] # 0}

Start ==
    /\ ~up
    /\ up' = TRUE
    /\ skips' = [c \in Cids |-> IF c \in Unprocessable \cup Dead THEN NoRow ELSE skips[c]]
    /\ messages' = [m \in Universe |->
                      IF \/ m.kind = "skip" /\ m.cid \in Unprocessable
                         \/ m.kind # "alias" /\ m.cid \in Dead
                      THEN 0 ELSE messages[m]]
    /\ classifies' = [m \in OfKind("classify") |->
                        IF m.cid \in Dead THEN 0 ELSE classifies[m]]
    /\ docs' = [c \in Cids |-> IF c \in Dead THEN NoRow ELSE docs[c]]
    /\ docsCount' = docsCount - Cardinality(Dead \cap Indexed(docs))
    /\ reports' = [c \in Cids |->
                     IF c \in Dead THEN [p \in Publishers |-> NoRow] ELSE reports[c]]
    /\ claims' = [p \in Publishers |->
                    IF claims[p] # NoRow /\ claims[p].cid \in Dead THEN NoRow ELSE claims[p]]
    /\ UNCHANGED <<crashes, clock, aliases, localAlias, blacklisted, proposals, reviews, pc, lock>>

\* The process dies: threads forget where they were, SQLite rolls back.
Crash ==
    /\ up
    /\ crashes < MaxCrashes
    /\ crashes' = crashes + 1
    /\ up' = FALSE
    /\ pc' = [t \in Threads |-> Idle]
    /\ lock' = Free
    /\ UNCHANGED <<clock, tables, proposals, reviews>>

Tick ==
    /\ clock < MaxClock
    /\ clock' = clock + 1
    /\ UNCHANGED <<up, crashes, tables, proposals, reviews, pc, lock>>

-----------------------------------------------------------------------------
(***************************************************************************)
(* The catalog file as connect() leaves it: the legacy classifies, and the *)
(* search rows _ensure_docs has filled in from them.                       *)
(***************************************************************************)
Init ==
    /\ up = FALSE
    /\ crashes = 0
    /\ clock = 2
    /\ messages = [m \in Universe |-> IF m \in Legacy THEN 1 ELSE 0]
    /\ classifies = [m \in OfKind("classify") |-> IF m \in Legacy THEN 1 ELSE 0]
    /\ docs = [c \in Cids |-> Oldest(classifies, c)]
    /\ docsCount = Cardinality(Indexed(docs))
    /\ skips = [c \in Cids |-> NoRow]
    /\ claims = [p \in Publishers |-> NoRow]
    /\ reports = [c \in Cids |-> [p \in Publishers |-> NoRow]]
    /\ aliases = [p \in Publishers |-> NoRow]
    /\ localAlias = ""
    /\ blacklisted = {}
    /\ proposals = {}
    /\ reviews = {}
    /\ pc = [t \in Threads |-> Idle]
    /\ lock = Free

Next ==
    \/ Start
    \/ Crash
    \/ Tick
    \/ ExpireClaims
    \/ \E t \in Threads :
         \/ \E m \in Universe : IngestBegin(t, m)
         \/ IngestCommit(t)
         \/ IngestDuplicate(t)
         \/ Locked(t)
         \/ EnqueueReview(t)
         \/ MaybeEnqueueSecond(t)
         \/ DropProposal(t)
         \/ \E c \in Cids, r \in {"wrong", "abusive"} :
              propose_report(t, c, r) \/ RejectProposal(t, c, r)
         \/ \E p \in Publishers : Blacklist(t, p) \/ Unblacklist(t, p)
         \/ \E a \in AliasNames : SetLocalAlias(t, a)

Spec == Init /\ [][Next]_vars

(***************************************************************************)
(* The threads run on: a step that is possible is eventually taken.        *)
(* Nothing is assumed of the admin, of crashes or of message arrival.      *)
(***************************************************************************)
Fairness ==
    /\ WF_vars(Start)
    /\ WF_vars(ExpireClaims)
    /\ \A t \in Threads :
         WF_vars(\/ IngestCommit(t) \/ IngestDuplicate(t) \/ Locked(t)
                 \/ EnqueueReview(t) \/ MaybeEnqueueSecond(t) \/ DropProposal(t))

FairSpec == Spec /\ Fairness

-----------------------------------------------------------------------------
(***************************************************************************)
(* Properties.                                                             *)
(***************************************************************************)
\* Table classifies is the classify part of table messages, whatever was
\* ingested, blacklisted or purged, in whatever order.
ClassifiesFollowLog ==
    \A m \in OfKind("classify") : classifies[m] = messages[m]

\* The report rows of a publisher come from its report messages: without one
\* there is no row, and the row of a foreign publisher is what replaying them in
\* received_at order gives: the last one counts, clear deletes.  Two threads
\* ingest this node's own reports, and the one with the older received_at may
\* commit last, so of those the row is the effect of some stored message.
ReportsFollowLog ==
    \A c \in Cids, p \in Publishers :
        LET log == {m \in OfKind("report") : m.cid = c /\ m.publisher = p /\ messages[m] # 0}
        IN  IF log = {} THEN reports[c][p] = NoRow
            ELSE \E m \in log :
                   /\ p # Me => \A n \in log : messages[n] <= messages[m]
                   /\ reports[c][p] = IF m.reason = "clear" THEN NoRow ELSE m.reason

\* The alias of a foreign publisher is its last alias message.  This node's own
\* row is also written by SetLocalAlias, and nothing is said of it.
AliasesFollowLog ==
    \A p \in Publishers \ {Me} :
        LET log == {m \in OfKind("alias") : m.publisher = p /\ messages[m] # 0}
        IN  IF log = {} THEN aliases[p] = NoRow
            ELSE \E m \in log :
                   /\ \A n \in log : messages[n] <= messages[m]
                   /\ aliases[p] = IF m.alias = "" THEN NoRow ELSE m

\* Reports and aliases are what the messages stored for them come to in order of
\* arrival, through withdrawals, repeats, blacklisting and purges.  A payload
\* repeated after others counts at its first arrival only, so this is less than
\* "Latest reason wins" of docs/OVERVIEW.md: clear, abusive and the same clear
\* again leave abusive.
TablesFollowLog == ReportsFollowLog /\ AliasesFollowLog

\* The search row of a cid is its oldest surviving classify, and there is
\* one exactly when some classify survives (docs: "one search row per CID,
\* first-seen"), through ingest, blacklist with its rebuild, and purges.
DocsFirstSeen ==
    \A c \in Cids :
        LET rows == ClassifyRows(classifies, c)
        IN  IF rows = {} THEN docs[c] = NoRow
            ELSE docs[c] \in rows /\ \A n \in rows : classifies[docs[c]] <= classifies[n]

\* The cached counter settings.docs_count never drifts from the table, though
\* three different code paths adjust it by deltas.
CountMatches == docsCount = Cardinality(Indexed(docs))

\* Log, labels, search rows and counter say the same, though ingest, blacklist
\* with its rebuild, and the purges at start adjust each of them separately.
Consistent == ClassifiesFollowLog /\ DocsFirstSeen /\ CountMatches

\* received_at is in the past, and the messages only the drain thread ingests
\* get it in the order of their commits, though it is read before the INSERT
\* and web threads commit in between.
ArrivalOrder ==
    /\ \A m \in Universe : messages[m] < clock
    /\ \A t \in Threads :
         pc[t].stage = "insert" =>
             pc[t].at > 0 /\ pc[t].at < clock /\ Hears(t, pc[t].msg)
    /\ pc[Drain].stage = "insert" =>
         \A m \in Universe : m.publisher # Me \/ m.kind # "report" => messages[m] < pc[Drain].at

\* What the club shows for a cid changes only when the publisher of the shown
\* classify is blacklisted, or the cid is malformed and purged.
FirstSeenStable ==
    [][\A c \in Cids :
          docs[c] # NoRow /\ docs'[c] # docs[c] =>
              docs[c].publisher \in blacklisted' \/ c \notin ValidCids]_vars

\* The messages of publisher p that threads ts hold between is_blacklisted and
\* the INSERT.
Passed(ts, p) ==
    {pc[t].msg : t \in {u \in ts : pc[u].stage = "insert" /\ pc[u].msg.publisher = p}}

\* What is left of p: the messages stored, and those that passed is_blacklisted.
Left(p) == {m \in Universe : m.publisher = p /\ messages[m] # 0} \cup Passed(Threads, p)

\* Every row that names p comes from a message of p in the log.
RowsOf(p) ==
    LET log == {m \in Universe : m.publisher = p /\ messages[m] # 0}
    IN  /\ \A m \in OfKind("classify") : m.publisher = p /\ classifies[m] # 0 => m \in log
        /\ \A c \in Cids :
             /\ docs[c] # NoRow /\ docs[c].publisher = p => docs[c] \in log
             /\ skips[c] # NoRow /\ skips[c].msg.publisher = p => skips[c].msg \in log
             /\ reports[c][p] # NoRow => \E m \in log : m.kind = "report" /\ m.cid = c
        /\ claims[p] # NoRow =>
             \E m \in log : m.kind = "claim" /\ m.cid = claims[p].cid /\ m.until = claims[p].until
        /\ aliases[p] # NoRow => aliases[p] \in log

\* Blacklisting leaves nothing of p but the message the drain thread holds, if
\* it is one of p's that passed is_blacklisted before: that one may still be
\* stored, though docs/OVERVIEW.md says that later messages of p are ignored.
\* Until p is unblacklisted nothing is added to what is left, and p has no row
\* in any table that does not come from it.
BlacklistSticks ==
    [][\A p \in blacklisted' :
          /\ Left(p)' \subseteq IF p \in blacklisted THEN Left(p) ELSE Passed({Drain}, p)
          /\ RowsOf(p)']_vars

\* Blacklisting is what takes a publisher's label off the page, and it lasts:
\* interleaved ingest, rebuilds and restarts do not replace the label shown, and
\* bring back of a blacklisted publisher at most the one message that was half
\* way through ingest_message.
BlacklistRules == FirstSeenStable /\ BlacklistSticks

\* A lease that still runs is not replaced by one of its publisher on another
\* cid; claims has one row per publisher.
LeaseNotStolen ==
    [][\A p \in Publishers :
          claims[p] # NoRow /\ claims'[p] # NoRow /\ claims[p].until > clock
              => claims'[p].cid = claims[p].cid]_vars

\* A skip that lookup_cid would still report is not deleted under it: only
\* blacklisting its publisher or the purge at start removes a live skip.
LiveSkipKept ==
    [][\A c \in Cids :
          skips[c] # NoRow /\ skip_is_live(skips[c]) /\ skips'[c] = NoRow
              => skips[c].msg.publisher \in blacklisted' \/ ~up]_vars

\* docs/PROTOCOL.md: a wrong report asks every node that has not classified the
\* cid to do so.  Once the report is in the table and no thread is about to
\* queue the cid, it has been queued.
WrongQueued ==
    up => \A c \in Cids :
        /\ needs_review(c)
        /\ ~local_classified(c)
        /\ \A t \in Threads : ~(pc[t].stage = "review" /\ pc[t].msg.cid = c)
        => c \in reviews

\* docs/OVERVIEW.md: a cid with one independent classify is queued for the
\* second vote, as long as the queue has room (AtCap = {FALSE}).
SecondQueued ==
    up => \A c \in Cids :
        /\ should_second_classify(c)
        /\ pc[Drain].stage = "second" => pc[Drain].msg.cid # c
        => c \in reviews

\* Everything the protocol asks this node to look at is queued, although
\* local_classified and the votes are read after the commit, when other threads
\* may have changed both.
ReviewsQueued == WrongQueued /\ SecondQueued

\* docs/PROTOCOL.md on guest reports: "that row stays local until the admin
\* accepts (then this node publishes) or rejects".  A proposal that is not
\* rejected goes only when this node's report has reached its catalog, also
\* when the write lock or a crash gets in between.
ProposalKept ==
    [][\A g \in proposals \ proposals' :
          \/ \E t \in WebThreads : RejectProposal(t, g[1], g[2])
          \/ \E m \in OfKind("report") :
               m.publisher = Me /\ m.cid = g[1] /\ m.reason = g[2] /\ messages[m] # 0]_vars

\* docs/OVERVIEW.md, "Publish and ingest": local ingest reads what clubd appended
\* into the catalog.  When the drain thread has a message to insert, nobody else
\* keeps the write lock for ever.
DrainNotStarved == pc[Drain].stage = "insert" ~> CanWrite(Drain)
=============================================================================
