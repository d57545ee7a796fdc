--------------------------- MODULE CatalogProofs ---------------------------
(***************************************************************************)
(* Proofs about Catalog, for every choice of its constants: first its      *)
(* inductive invariant, then the rules it keeps over time: what follows    *)
(* the log of messages, what blacklisting takes away for good, which rows  *)
(* may go, which cids are queued, and what a snapshot hands on.            *)
(***************************************************************************)
EXTENDS CatalogSnapshot, TLAPS, FiniteSetTheorems, WellFoundedInduction

-----------------------------------------------------------------------------
(***************************************************************************)
(* Facts about the data.                                                   *)
(***************************************************************************)
\* What the fields of a message hold, for the fields its kind has.
LEMMA MessageFields ==
    ASSUME NEW m \in Universe
    PROVE  /\ m.publisher \in Publishers
           /\ m.kind \in {"classify", "skip", "claim", "alias", "report"}
           /\ m.kind # "alias" => m.cid \in Cids
           /\ m.kind = "report" => m.reason \in ReportReasons
           /\ m.kind = "claim" => m.until \in Nat
           /\ m.kind = "alias" => m.alias \in AliasNames
BY CatalogAssumption DEF Message

\* A non-empty set of naturals has a least element: the least-number
\* principle, from the well-foundedness of <.
LEMMA LeastNatural ==
    ASSUME NEW S \in SUBSET Nat, S # {}
    PROVE  \E x \in S : \A y \in S : x <= y
<1>1. \E x \in S : \A y \in S : ~ (<<y, x>> \in OpToRel(<, Nat))
  BY WFMin, NatLessThanWellFounded
<1>2. OpToRel(<, Nat) = {ss \in Nat \X Nat : ss[1] < ss[2]}
  BY Zenon DEF OpToRel
<1>3. \A x, y \in S : <<y, x>> \in {ss \in Nat \X Nat : ss[1] < ss[2]} \/ x <= y
  OBVIOUS
<1> QED BY <1>1, <1>2, <1>3, Zenon

\* Oldest returns a row with the least received_at, and NoRow only when the
\* cid has no row: the query of _rebuild_doc and _ensure_docs.
LEMMA OldestSpec ==
    ASSUME NEW tab \in [OfKind("classify") -> Nat], NEW c \in Cids
    PROVE  LET rows == ClassifyRows(tab, c)
           IN  IF rows = {} THEN Oldest(tab, c) = NoRow
               ELSE /\ Oldest(tab, c) \in rows
                    /\ \A n \in rows : tab[Oldest(tab, c)] <= tab[n]
<1> DEFINE rows == ClassifyRows(tab, c)
           ats == {tab[m] : m \in rows}
<1>1. CASE rows = {}
  BY <1>1 DEF Oldest
<1>2. CASE rows # {}
  <2>1. ats \in SUBSET Nat /\ ats # {}
    BY <1>2 DEF ClassifyRows
  <2>2. PICK x \in ats : \A y \in ats : x <= y
    BY <2>1, LeastNatural
  <2>3. \E m \in rows : \A n \in rows : tab[m] <= tab[n]
    BY <2>2
  <2> QED BY <1>2, <2>3, Zenon DEF Oldest
<1> QED BY <1>1, <1>2

-----------------------------------------------------------------------------
(***************************************************************************)
(* Type correctness.                                                       *)
(***************************************************************************)
\* The catalog file a node starts from is well typed.
LEMMA TypeInit == Init => TypeOK
<1> SUFFICES ASSUME Init PROVE TypeOK
  OBVIOUS
<1>1. classifies \in [OfKind("classify") -> Nat] /\ messages \in [Universe -> Nat]
  BY DEF Init
<1>2. \A c \in Cids : docs[c] \in OfKind("classify") \cup {NoRow}
  <2> TAKE c \in Cids
  <2>1. docs[c] = Oldest(classifies, c)
    BY DEF Init
  <2> QED BY <1>1, <2>1, OldestSpec DEF ClassifyRows
<1>3. docs \in [Cids -> OfKind("classify") \cup {NoRow}]
  BY <1>2 DEF Init
<1>4. docsCount \in Int
  <2>1. IsFiniteSet(Indexed(docs))
    BY FS_Subset, CatalogAssumption DEF Indexed
  <2>2. Cardinality(Indexed(docs)) \in Nat
    BY <2>1, FS_CardinalityType
  <2>3. docsCount = Cardinality(Indexed(docs))
    BY DEF Init
  <2> QED BY <2>2, <2>3
<1> QED
  BY <1>1, <1>3, <1>4, CatalogAssumption DEF Init, TypeOK, Threads

\* The counters of rebuilt and purged rows are integers.
LEMMA CountType ==
    ASSUME NEW S, S \subseteq Cids
    PROVE  IsFiniteSet(S) /\ Cardinality(S) \in Nat
<1>1. IsFiniteSet(S)
  BY FS_Subset, CatalogAssumption
<1> QED BY <1>1, FS_CardinalityType

\* A thread that is not idle holds a message of the universe, and after its
\* commit one that names a cid.
LEMMA BusyThread ==
    ASSUME TypeOK, NEW t \in Threads, pc[t].stage # "idle"
    PROVE  /\ pc[t] \in Busy
           /\ pc[t].msg \in Universe
           /\ pc[t].at \in Nat
           /\ pc[t].stage # "insert" => pc[t].msg.cid \in Cids
<1>1. pc[t] \in Busy
  BY DEF TypeOK, Idle
<1>2. pc[t].msg \in Universe /\ pc[t].at \in Nat
  BY <1>1 DEF Busy, OfKind
<1>3. pc[t].stage # "insert" => pc[t].msg.kind # "alias"
  BY <1>1 DEF Busy, OfKind
<1> QED BY <1>1, <1>2, <1>3, MessageFields

\* A thread that goes on to a later stage keeps its message, and no thread is
\* about to insert that was not before.
LEMMA ProceedStage ==
    ASSUME TypeOK, NEW t \in Threads, pc[t].stage # "idle",
           NEW stage \in {"idle", LastStage(t, pc[t].msg), NextStage(t, pc[t].msg)},
           Proceed(t, stage)
    PROVE  /\ pc' \in [Threads -> Busy \cup {Idle}]
           /\ pc'[t].stage # "insert"
           /\ \A u \in Threads : u # t => pc'[u] = pc[u]
<1>1. pc[t] \in Busy /\ pc \in [Threads -> Busy \cup {Idle}]
  BY BusyThread DEF TypeOK
<1>2. stage \in {"idle", "drop", "review", "second"}
  BY DEF LastStage, NextStage
<1>3. stage = "idle" \/ [pc[t] EXCEPT !.stage = stage] \in Busy
  BY <1>1 DEF LastStage, NextStage, Busy, OfKind
<1>4. [pc[t] EXCEPT !.stage = stage].stage # "insert"
  BY <1>1, <1>2 DEF Busy
<1>5. pc' = [pc EXCEPT ![t] = IF stage = "idle" THEN Idle ELSE [pc[t] EXCEPT !.stage = stage]]
  BY DEF Proceed
<1> QED BY <1>1, <1>3, <1>4, <1>5 DEF Idle

\* What a committed message leaves in the denormalized tables is well typed.
LEMMA TypeCommit ==
    ASSUME TypeOK, NEW t \in Threads, IngestCommit(t)
    PROVE  TypeOK'
<1> DEFINE m == pc[t].msg
           now == pc[t].at
<1>1. m \in Universe /\ now \in Nat /\ pc[t] \in Busy
  BY BusyThread DEF IngestCommit
<1>2. m.publisher \in Publishers /\ (m.kind # "alias" => m.cid \in Cids)
  BY <1>1, MessageFields
<1>3. /\ up' \in BOOLEAN /\ crashes' \in Nat /\ clock' \in Nat
      /\ localAlias' \in AliasNames /\ blacklisted' \subseteq Publishers
      /\ reviews' \subseteq Cids /\ lock' \in Threads \cup {Free}
      /\ proposals' \subseteq GuestReports
      /\ messages' \in [Universe -> Nat]
  BY <1>1 DEF IngestCommit, TypeOK
<1>4. pc' \in [Threads -> Busy \cup {Idle}]
  BY ProceedStage DEF IngestCommit
<1> DEFINE DenormalizedOK ==
             /\ classifies' \in [OfKind("classify") -> Nat]
             /\ docs' \in [Cids -> OfKind("classify") \cup {NoRow}]
             /\ docsCount' \in Int
             /\ skips' \in [Cids -> [msg : OfKind("skip"), at : Nat] \cup {NoRow}]
             /\ claims' \in [Publishers -> [cid : Cids, until : Nat] \cup {NoRow}]
             /\ reports' \in [Cids -> [Publishers -> {"wrong", "abusive", NoRow}]]
             /\ aliases' \in [Publishers -> OfKind("alias") \cup {NoRow}
                                            \cup {LocalRow(a) : a \in AliasNames}]
<1>5. ASSUME InsertClassify(m, now) PROVE DenormalizedOK
  BY <1>1, <1>2, <1>5 DEF InsertClassify, DropClaims, UpsertDoc, TypeOK, OfKind
<1>6. ASSUME UpsertAlias(m) PROVE DenormalizedOK
  BY <1>1, <1>2, <1>6 DEF UpsertAlias, TypeOK, OfKind
<1>7. ASSUME InsertSkip(m, now) PROVE DenormalizedOK
  BY <1>1, <1>2, <1>7 DEF InsertSkip, DropClaims, TypeOK, OfKind
<1>8. ASSUME InsertClaim(m) PROVE DenormalizedOK
  <2>1. m.until \in Nat
    BY <1>1, <1>8, MessageFields DEF InsertClaim
  <2> QED BY <1>1, <1>2, <1>8, <2>1 DEF InsertClaim, TypeOK, OfKind
<1>9. ASSUME InsertReport(m) PROVE DenormalizedOK
  <2>1. m.reason \in ReportReasons
    BY <1>1, <1>9, MessageFields DEF InsertReport
  <2> QED BY <1>1, <1>2, <1>9, <2>1 DEF InsertReport, ReportReasons, TypeOK
<1>10. DenormalizedOK
  BY <1>5, <1>6, <1>7, <1>8, <1>9 DEF IngestCommit
<1> QED BY <1>3, <1>4, <1>10 DEF TypeOK

\* Blacklisting a publisher keeps every table well typed.
LEMMA TypeBlacklist ==
    ASSUME TypeOK, NEW t \in Threads, NEW p \in Publishers, Blacklist(t, p)
    PROVE  TypeOK'
<1> DEFINE kept == [m \in OfKind("classify") |-> IF m.publisher = p THEN 0 ELSE classifies[m]]
<1>1. kept \in [OfKind("classify") -> Nat]
  BY DEF TypeOK
<1>2. CidsOf(p) \subseteq Cids
  BY DEF CidsOf
<1>3. docs' \in [Cids -> OfKind("classify") \cup {NoRow}]
  <2>1. \A c \in Cids : Oldest(kept, c) \in OfKind("classify") \cup {NoRow}
    BY <1>1, OldestSpec DEF ClassifyRows
  <2>2. docs' = [c \in Cids |-> IF c \in CidsOf(p) THEN Oldest(kept, c) ELSE docs[c]]
    BY DEF Blacklist, RebuildDocs
  <2> QED BY <2>1, <2>2 DEF TypeOK
<1>4. docsCount' \in Int
  <2>1. Cardinality(CidsOf(p) \cap Indexed(docs)) \in Nat
    BY <1>2, CountType
  <2>2. Cardinality({c \in CidsOf(p) : Oldest(kept, c) # NoRow}) \in Nat
    BY <1>2, CountType
  <2>3. docsCount' = docsCount - Cardinality(CidsOf(p) \cap Indexed(docs))
                     + Cardinality({c \in CidsOf(p) : Oldest(kept, c) # NoRow})
    BY DEF Blacklist, RebuildDocs
  <2> QED BY <2>1, <2>2, <2>3 DEF TypeOK
<1>5. classifies' = kept
  BY DEF Blacklist
<1> QED
  BY <1>1, <1>3, <1>4, <1>5 DEF Blacklist, Transaction, TypeOK

\* So do the purges of main().
LEMMA TypeStart ==
    ASSUME TypeOK, Start
    PROVE  TypeOK'
<1>1. Cardinality(Dead \cap Indexed(docs)) \in Nat
  BY CountType DEF Dead
<1>2. docsCount' \in Int
  BY <1>1 DEF Start, TypeOK
<1> QED BY <1>2 DEF Start, TypeOK

\* So does every other step.
LEMMA TypeNext == TypeOK /\ [Next]_vars => TypeOK'
<1> SUFFICES ASSUME TypeOK, [Next]_vars PROVE TypeOK'
  OBVIOUS
<1>1. CASE Start
  BY <1>1, TypeStart
<1>2. CASE Crash
  <2>1. crashes' \in Nat
    BY <1>2 DEF Crash, TypeOK
  <2>2. /\ up' = FALSE
        /\ pc' \in [Threads -> Busy \cup {Idle}]
        /\ lock' = Free
        /\ UNCHANGED <<clock, tables, proposals, reviews>>
    BY <1>2 DEF Crash
  <2> QED BY <2>1, <2>2 DEF TypeOK, tables, denormalized
<1>3. CASE Tick
  BY <1>3 DEF Tick, TypeOK, tables, denormalized
<1>4. CASE ExpireClaims
  BY <1>4 DEF ExpireClaims, Transaction, TypeOK
<1>5. ASSUME NEW t \in Threads, NEW m \in Universe, IngestBegin(t, m) PROVE TypeOK'
  BY <1>5 DEF IngestBegin, TypeOK, tables, denormalized, Busy
<1>6. ASSUME NEW t \in Threads, IngestCommit(t) PROVE TypeOK'
  BY <1>6, TypeCommit
<1>7. ASSUME NEW t \in Threads, IngestDuplicate(t) \/ Locked(t) \/ DropProposal(t)
      PROVE  TypeOK'
  <2>1. pc' \in [Threads -> Busy \cup {Idle}]
    BY <1>7, ProceedStage DEF IngestDuplicate, Locked, DropProposal
  <2>2. /\ lock' \in Threads \cup {Free}
        /\ proposals' \subseteq GuestReports
        /\ UNCHANGED <<up, crashes, clock, tables, reviews>>
    BY <1>7 DEF IngestDuplicate, Locked, DropProposal, WebWrite, TypeOK
  <2> QED BY <2>1, <2>2 DEF TypeOK, tables, denormalized
<1>8. ASSUME NEW t \in Threads, EnqueueReview(t) \/ MaybeEnqueueSecond(t) PROVE TypeOK'
  <2>1. pc[t].msg.cid \in Cids
    BY <1>8, BusyThread DEF EnqueueReview, MaybeEnqueueSecond
  <2>2. reviews' \subseteq reviews \cup {pc[t].msg.cid}
    BY <1>8 DEF EnqueueReview, MaybeEnqueueSecond
  <2>3. UNCHANGED <<up, crashes, clock, tables, proposals, lock>>
    BY <1>8 DEF EnqueueReview, MaybeEnqueueSecond
  <2>4. pc' \in [Threads -> Busy \cup {Idle}]
    BY <1>8, ProceedStage DEF EnqueueReview, MaybeEnqueueSecond
  <2> QED
    BY <2>1, <2>2, <2>3, <2>4 DEF TypeOK, tables, denormalized
<1>9. ASSUME NEW t \in Threads, NEW p \in Publishers, Blacklist(t, p) PROVE TypeOK'
  BY <1>9, TypeBlacklist
<1>10. ASSUME NEW t \in Threads, NEW p \in Publishers, Unblacklist(t, p) PROVE TypeOK'
  BY <1>10 DEF Unblacklist, Transaction, TypeOK, denormalized
<1>11. ASSUME NEW t \in Threads, NEW a \in AliasNames, SetLocalAlias(t, a) PROVE TypeOK'
  BY <1>11 DEF SetLocalAlias, Transaction, TypeOK
<1>12. ASSUME NEW t \in Threads, NEW c \in Cids, NEW r \in {"wrong", "abusive"},
              propose_report(t, c, r) \/ RejectProposal(t, c, r)
       PROVE  TypeOK'
  <2>1. /\ proposals' \subseteq GuestReports
        /\ lock' = Free
        /\ UNCHANGED <<up, crashes, clock, tables, reviews, pc>>
    BY <1>12 DEF propose_report, RejectProposal, WebWrite, TypeOK
  <2> QED BY <2>1 DEF TypeOK, tables, denormalized
<1>13. CASE UNCHANGED vars
  BY <1>13 DEF vars, tables, denormalized, TypeOK
<1> QED
  BY <1>1, <1>2, <1>3, <1>4, <1>5, <1>6, <1>7, <1>8, <1>9, <1>10, <1>11, <1>12, <1>13
     DEF Next

\* The tables hold what their columns are declared to hold, in every reachable
\* state, whatever the messages, publishers and threads.
THEOREM TypeCorrect == Spec => []TypeOK
BY TypeInit, TypeNext, PTL DEF Spec

-----------------------------------------------------------------------------
(***************************************************************************)
(* The denormalized tables agree with the message log.  None of the three  *)
(* facts is inductive alone: that a new classify is younger than the row   *)
(* shown needs ArrivalOrder, and the counter needs DocsFirstSeen.          *)
(***************************************************************************)

IInv == TypeOK /\ ArrivalOrder /\ Consistent

\* The four variables Consistent is about.
consistentVars == <<messages, classifies, docs, docsCount>>

\* The rows _ensure_docs fills in agree with the legacy classifies.
LEMMA IInvInit == Init => IInv
<1> SUFFICES ASSUME Init PROVE IInv
  OBVIOUS
<1>1. TypeOK
  BY TypeInit
<1>2. ArrivalOrder
  <2>1. \A t \in Threads : pc[t].stage = "idle"
    BY DEF Init, Idle
  <2>2. \A m \in Universe : messages[m] < clock
    <3>1. clock = 2 /\ messages = [m \in Universe |-> IF m \in Legacy THEN 1 ELSE 0]
      BY DEF Init
    <3> QED BY <3>1
  <2> QED BY <2>1, <2>2 DEF ArrivalOrder, Threads
<1>3. ClassifiesFollowLog
  BY DEF Init, ClassifiesFollowLog, OfKind
<1>4. DocsFirstSeen
  <2>1. \A c \in Cids : docs[c] = Oldest(classifies, c)
    BY DEF Init
  <2>2. classifies \in [OfKind("classify") -> Nat]
    BY <1>1 DEF TypeOK
  <2> QED BY <2>1, <2>2, OldestSpec, Zenon DEF DocsFirstSeen
<1>5. CountMatches
  BY DEF Init, CountMatches
<1> QED BY <1>1, <1>2, <1>3, <1>4, <1>5 DEF IInv, Consistent

\* A step that leaves the four variables alone keeps the tables consistent.
LEMMA ConsistentStutter == Consistent /\ UNCHANGED consistentVars => Consistent'
BY DEF Consistent, consistentVars, ClassifiesFollowLog, DocsFirstSeen, CountMatches,
       ClassifyRows, Indexed, OfKind

\* A step that neither writes messages nor moves a thread into "insert" keeps
\* the arrival order, if the clock does not go back.
LEMMA ArrivalStutter ==
    ASSUME TypeOK, TypeOK', ArrivalOrder, UNCHANGED messages, clock' >= clock,
           \A t \in Threads : pc'[t] = pc[t] \/ pc'[t].stage # "insert"
    PROVE  ArrivalOrder'
<1>1. Drain \in Threads
  BY DEF Threads
<1>2. \A t \in Threads : pc'[t].stage = "insert" => pc'[t] = pc[t] /\ pc[t].at \in Nat
  BY BusyThread
<1> QED BY <1>1, <1>2 DEF ArrivalOrder, TypeOK, Hears

\* ingest_message of a classify: the first one of a cid becomes its search row
\* and is counted, a later one is younger than the row shown.
LEMMA ConsistentClassify ==
    ASSUME IInv, NEW t \in Threads, IngestCommit(t),
           InsertClassify(pc[t].msg, pc[t].at)
    PROVE  Consistent'
<1> DEFINE m == pc[t].msg
           now == pc[t].at
<1>1. m \in OfKind("classify") /\ now \in Nat /\ m.cid \in Cids /\ m.publisher \in Publishers
  BY BusyThread, MessageFields DEF IInv, IngestCommit, InsertClassify, OfKind
<1>2. t = Drain /\ now > 0
  BY <1>1 DEF IInv, ArrivalOrder, IngestCommit, InsertClassify, Hears
<1>3. \A n \in OfKind("classify") : classifies[n] < now /\ classifies[n] \in Nat
  <2>1. \A n \in OfKind("classify") : messages[n] < now
    BY <1>1, <1>2 DEF IInv, ArrivalOrder, IngestCommit, OfKind
  <2> QED BY <2>1 DEF IInv, Consistent, ClassifiesFollowLog, TypeOK
<1>4. /\ messages' = [messages EXCEPT ![m] = now]
      /\ classifies' = [classifies EXCEPT ![m] = now]
      /\ messages \in [Universe -> Nat]
      /\ classifies \in [OfKind("classify") -> Nat]
  BY DEF IngestCommit, InsertClassify, IInv, TypeOK
<1>5. ClassifiesFollowLog'
  BY <1>1, <1>4 DEF IInv, Consistent, ClassifiesFollowLog, OfKind
<1>6. classifies[m] = 0
  BY <1>1 DEF IInv, Consistent, ClassifiesFollowLog, IngestCommit
<1>7. \A c \in Cids : ClassifyRows(classifies', c)
                      = IF c = m.cid THEN ClassifyRows(classifies, c) \cup {m}
                        ELSE ClassifyRows(classifies, c)
  BY <1>1, <1>2, <1>4 DEF ClassifyRows
<1>8. docs \in [Cids -> OfKind("classify") \cup {NoRow}] /\ NoRow \notin OfKind("classify")
  BY NoRowAssumption DEF IInv, TypeOK, OfKind
<1>9. CASE docs[m.cid] = NoRow
  <2>1. docs' = [docs EXCEPT ![m.cid] = m] /\ docsCount' = docsCount + 1
    BY <1>9 DEF InsertClassify, UpsertDoc
  <2>2. ClassifyRows(classifies, m.cid) = {}
    BY <1>1, <1>8, <1>9 DEF IInv, Consistent, DocsFirstSeen, ClassifyRows
  <2>3. DocsFirstSeen'
    <3> SUFFICES ASSUME NEW c \in Cids
                 PROVE  LET rows == ClassifyRows(classifies', c)
                        IN  IF rows = {} THEN docs'[c] = NoRow
                            ELSE docs'[c] \in rows /\ \A n \in rows : classifies'[docs'[c]] <= classifies'[n]
      BY DEF DocsFirstSeen, ClassifyRows, OfKind
    <3>1. CASE c = m.cid
      <4>1. ClassifyRows(classifies', c) = {m}
        BY <1>7, <2>2, <3>1
      <4>2. docs'[c] = m
        BY <1>1, <1>8, <2>1, <3>1
      <4>3. classifies'[m] <= classifies'[m]
        BY <1>1, <1>4
      <4> QED BY <4>1, <4>2, <4>3
    <3>2. CASE c # m.cid
      <4>1. docs'[c] = docs[c] /\ ClassifyRows(classifies', c) = ClassifyRows(classifies, c)
        BY <1>7, <1>8, <2>1, <3>2
      <4>2. \A n \in ClassifyRows(classifies, c) : classifies'[n] = classifies[n]
        BY <1>4, <3>2 DEF ClassifyRows
      <4> QED BY <4>1, <4>2 DEF IInv, Consistent, DocsFirstSeen
    <3> QED BY <3>1, <3>2
  <2>4. CountMatches'
    <3>1. Indexed(docs') = Indexed(docs) \cup {m.cid}
      BY <1>1, <1>8, <2>1 DEF Indexed
    <3>2. m.cid \notin Indexed(docs)
      BY <1>9 DEF Indexed
    <3>3. IsFiniteSet(Indexed(docs)) /\ Cardinality(Indexed(docs)) \in Nat
      BY CountType DEF Indexed
    <3>4. Cardinality(Indexed(docs) \cup {m.cid}) = Cardinality(Indexed(docs)) + 1
      BY <3>2, <3>3, FS_AddElement
    <3>5. docsCount = Cardinality(Indexed(docs))
      BY DEF IInv, Consistent, CountMatches
    <3> QED BY <2>1, <3>1, <3>4, <3>5 DEF CountMatches
  <2> QED BY <1>5, <2>3, <2>4 DEF Consistent
<1>10. CASE docs[m.cid] # NoRow
  <2>1. docs' = docs /\ docsCount' = docsCount
    BY <1>10 DEF InsertClassify, UpsertDoc
  <2>2. DocsFirstSeen'
    <3> SUFFICES ASSUME NEW c \in Cids
                 PROVE  LET rows == ClassifyRows(classifies', c)
                        IN  IF rows = {} THEN docs[c] = NoRow
                            ELSE docs[c] \in rows /\ \A n \in rows : classifies'[docs[c]] <= classifies'[n]
      BY <2>1 DEF DocsFirstSeen, ClassifyRows, OfKind
    <3>1. IF ClassifyRows(classifies, c) = {} THEN docs[c] = NoRow
          ELSE /\ docs[c] \in ClassifyRows(classifies, c)
               /\ \A n \in ClassifyRows(classifies, c) : classifies[docs[c]] <= classifies[n]
      BY DEF IInv, Consistent, DocsFirstSeen
    <3>2. \A n \in ClassifyRows(classifies, c) : n \in OfKind("classify") /\ n # m
      BY <1>6 DEF ClassifyRows
    <3>3. \A n \in ClassifyRows(classifies, c) : classifies'[n] = classifies[n]
      BY <1>4, <3>2
    <3>4. classifies'[m] = now
      BY <1>1, <1>4
    <3>5. CASE c = m.cid
      <4>1. docs[c] \in ClassifyRows(classifies, c)
        BY <1>10, <3>1, <3>5
      <4>2. classifies'[docs[c]] = classifies[docs[c]] /\ classifies[docs[c]] < now
        BY <1>3, <3>2, <3>3, <4>1
      <4>3. classifies'[docs[c]] <= classifies'[m]
        BY <1>1, <1>3, <3>2, <3>4, <4>1, <4>2
      <4>4. \A n \in ClassifyRows(classifies, c) : classifies'[docs[c]] <= classifies'[n]
        BY <3>1, <3>3, <4>1
      <4>5. ClassifyRows(classifies', c) = ClassifyRows(classifies, c) \cup {m}
        BY <1>7, <3>5
      <4> QED BY <4>1, <4>3, <4>4, <4>5
    <3>6. CASE c # m.cid
      BY <1>7, <3>1, <3>3, <3>6
    <3> QED BY <3>5, <3>6
  <2>3. CountMatches'
    BY <2>1 DEF IInv, Consistent, CountMatches, Indexed
  <2> QED BY <1>5, <2>2, <2>3 DEF Consistent
<1> QED BY <1>9, <1>10

\* Any other message leaves classifies and the search rows alone.
LEMMA ConsistentOther ==
    ASSUME IInv, NEW t \in Threads, IngestCommit(t), pc[t].msg.kind # "classify"
    PROVE  Consistent'
<1>1. UNCHANGED <<classifies, docs, docsCount>>
  BY DEF IngestCommit, InsertClassify, UpsertAlias, InsertSkip, InsertClaim, InsertReport
<1>2. \A m \in OfKind("classify") : messages'[m] = messages[m]
  BY DEF IngestCommit, OfKind, IInv, TypeOK
<1> QED
  BY <1>1, <1>2 DEF IInv, Consistent, ClassifiesFollowLog, DocsFirstSeen, CountMatches,
                    ClassifyRows, Indexed, OfKind

\* Dropping the rows C and refilling R of them changes the number of rows as
\* the two counter updates say.
LEMMA RefillCount ==
    ASSUME NEW I \in SUBSET Cids, NEW C \in SUBSET Cids, NEW R \in SUBSET C
    PROVE  Cardinality((I \ C) \cup R) = Cardinality(I) - Cardinality(C \cap I) + Cardinality(R)
<1>1. /\ IsFiniteSet(I) /\ Cardinality(I) \in Nat
      /\ IsFiniteSet(R) /\ Cardinality(R) \in Nat
      /\ IsFiniteSet(I \ C) /\ Cardinality(I \ C) \in Nat
      /\ Cardinality(C \cap I) \in Nat
  <2>1. R \subseteq Cids /\ I \ C \subseteq Cids /\ C \cap I \subseteq Cids
    OBVIOUS
  <2> QED BY <2>1, CountType
<1>2. Cardinality(I \ C) = Cardinality(I) - Cardinality(I \cap C)
  BY <1>1, FS_Difference
<1>3. I \cap C = C \cap I /\ (I \ C) \cap R = {}
  OBVIOUS
<1>4. Cardinality((I \ C) \cup R)
        = Cardinality(I \ C) + Cardinality(R) - Cardinality((I \ C) \cap R)
  BY <1>1, FS_Union
<1>5. Cardinality((I \ C) \cap R) = 0
  BY <1>3, FS_EmptySet
<1>6. Cardinality(I \cap C) = Cardinality(C \cap I)
  BY <1>3
<1> QED BY <1>1, <1>2, <1>4, <1>5, <1>6

\* Blacklisting: rows of other publishers survive, the rows whose classify goes
\* are rebuilt from what is left, and the counter follows.
LEMMA ConsistentBlacklist ==
    ASSUME IInv, NEW t \in Threads, NEW p \in Publishers, Blacklist(t, p)
    PROVE  Consistent'
<1> DEFINE kept == [m \in OfKind("classify") |-> IF m.publisher = p THEN 0 ELSE classifies[m]]
           cids == CidsOf(p)
           refilled == {c \in cids : Oldest(kept, c) # NoRow}
<1>1. /\ classifies' = kept
      /\ messages' = [m \in Universe |-> IF m.publisher = p THEN 0 ELSE messages[m]]
      /\ docs' = [c \in Cids |-> IF c \in cids THEN Oldest(kept, c) ELSE docs[c]]
      /\ docsCount' = docsCount - Cardinality(cids \cap Indexed(docs)) + Cardinality(refilled)
  BY DEF Blacklist, RebuildDocs
<1>2. kept \in [OfKind("classify") -> Nat] /\ classifies \in [OfKind("classify") -> Nat]
  BY DEF IInv, TypeOK
<1>3. ClassifiesFollowLog'
  BY <1>1 DEF IInv, Consistent, ClassifiesFollowLog, OfKind
<1>4. DocsFirstSeen'
  <2> SUFFICES ASSUME NEW c \in Cids
               PROVE  LET rows == ClassifyRows(classifies', c)
                      IN  IF rows = {} THEN docs'[c] = NoRow
                          ELSE docs'[c] \in rows /\ \A n \in rows : classifies'[docs'[c]] <= classifies'[n]
    BY DEF DocsFirstSeen, ClassifyRows, OfKind
  <2> HIDE DEF kept
  <2>1. CASE c \in cids
    <3>1. docs'[c] = Oldest(kept, c)
      BY <1>1, <2>1
    <3> QED BY <1>1, <1>2, <3>1, OldestSpec, Zenon
  <2>2. CASE c \notin cids
    <3>1. \A m \in ClassifyRows(classifies, c) : m.publisher # p
      BY <2>2 DEF CidsOf
    <3>2. ClassifyRows(kept, c) = ClassifyRows(classifies, c)
      BY <3>1 DEF ClassifyRows, kept
    <3>3. \A m \in ClassifyRows(classifies, c) : kept[m] = classifies[m]
      BY <3>1 DEF ClassifyRows, kept
    <3>4. docs'[c] = docs[c]
      BY <1>1, <2>2
    <3> QED BY <1>1, <3>2, <3>3, <3>4 DEF IInv, Consistent, DocsFirstSeen
  <2> QED BY <2>1, <2>2
<1>5. CountMatches'
  <2>1. Indexed(docs') = (Indexed(docs) \ cids) \cup refilled
    BY <1>1 DEF Indexed, CidsOf
  <2>2. Indexed(docs) \in SUBSET Cids /\ cids \in SUBSET Cids /\ refilled \in SUBSET cids
    BY DEF Indexed, CidsOf
  <2>3. docsCount = Cardinality(Indexed(docs))
    BY DEF IInv, Consistent, CountMatches
  <2> HIDE DEF refilled, cids
  <2>4. Cardinality((Indexed(docs) \ cids) \cup refilled)
          = Cardinality(Indexed(docs)) - Cardinality(cids \cap Indexed(docs)) + Cardinality(refilled)
    BY <2>2, RefillCount
  <2> QED BY <1>1, <2>1, <2>3, <2>4 DEF CountMatches
<1> QED BY <1>3, <1>4, <1>5 DEF Consistent

\* The purge at start drops a malformed cid from every table at once.
LEMMA ConsistentStart ==
    ASSUME IInv, Start
    PROVE  Consistent'
<1>1. /\ classifies' = [m \in OfKind("classify") |-> IF m.cid \in Dead THEN 0 ELSE classifies[m]]
      /\ docs' = [c \in Cids |-> IF c \in Dead THEN NoRow ELSE docs[c]]
      /\ docsCount' = docsCount - Cardinality(Dead \cap Indexed(docs))
      /\ messages' = [m \in Universe |->
                        IF \/ m.kind = "skip" /\ m.cid \in Unprocessable
                           \/ m.kind # "alias" /\ m.cid \in Dead
                        THEN 0 ELSE messages[m]]
  BY DEF Start
<1>2. ClassifiesFollowLog'
  <2> SUFFICES ASSUME NEW m \in OfKind("classify")
               PROVE  classifies'[m] = messages'[m]
    BY DEF ClassifiesFollowLog, OfKind
  <2>1. m \in Universe /\ m.kind = "classify"
    BY DEF OfKind
  <2> QED BY <1>1, <2>1 DEF IInv, Consistent, ClassifiesFollowLog
<1>3. DocsFirstSeen'
  <2> SUFFICES ASSUME NEW c \in Cids
               PROVE  LET rows == ClassifyRows(classifies', c)
                      IN  IF rows = {} THEN docs'[c] = NoRow
                          ELSE docs'[c] \in rows /\ \A n \in rows : classifies'[docs'[c]] <= classifies'[n]
    BY DEF DocsFirstSeen, ClassifyRows, OfKind
  <2>1. CASE c \in Dead
    BY <1>1, <2>1 DEF ClassifyRows
  <2>2. CASE c \notin Dead
    <3>1. ClassifyRows(classifies', c) = ClassifyRows(classifies, c)
      BY <1>1, <2>2 DEF ClassifyRows
    <3>2. \A m \in ClassifyRows(classifies, c) : classifies'[m] = classifies[m]
      BY <1>1, <2>2 DEF ClassifyRows
    <3>3. docs'[c] = docs[c]
      BY <1>1, <2>2
    <3> QED BY <3>1, <3>2, <3>3 DEF IInv, Consistent, DocsFirstSeen
  <2> QED BY <2>1, <2>2
<1>4. CountMatches'
  <2>1. Indexed(docs') = Indexed(docs) \ Dead
    BY <1>1 DEF Indexed
  <2>2. IsFiniteSet(Indexed(docs))
    BY CountType DEF Indexed
  <2>3. Cardinality(Indexed(docs) \ Dead)
          = Cardinality(Indexed(docs)) - Cardinality(Indexed(docs) \cap Dead)
    BY <2>2, FS_Difference
  <2>4. Indexed(docs) \cap Dead = Dead \cap Indexed(docs)
    OBVIOUS
  <2>5. docsCount = Cardinality(Indexed(docs))
    BY DEF IInv, Consistent, CountMatches
  <2> QED BY <1>1, <2>1, <2>3, <2>4, <2>5 DEF CountMatches
<1> QED BY <1>2, <1>3, <1>4 DEF Consistent

\* The arrival order after a commit: the message gets the received_at read
\* before, and a web thread commits only this node's own reports.
LEMMA ArrivalCommit ==
    ASSUME IInv, TypeOK', NEW t \in Threads, IngestCommit(t)
    PROVE  ArrivalOrder'
<1> DEFINE m == pc[t].msg
           now == pc[t].at
<1>1. m \in Universe /\ now \in Nat /\ now < clock /\ Hears(t, m)
  BY BusyThread DEF IInv, ArrivalOrder, IngestCommit
<1>2. messages' = [messages EXCEPT ![m] = now] /\ messages \in [Universe -> Nat] /\ clock' = clock
  BY DEF IngestCommit, IInv, TypeOK
<1>3. pc'[t].stage # "insert" /\ \A u \in Threads : u # t => pc'[u] = pc[u]
  BY ProceedStage DEF IInv, IngestCommit
<1>4. \A n \in Universe : messages'[n] < clock'
  BY <1>1, <1>2 DEF IInv, ArrivalOrder
<1>5. \A u \in Threads : pc'[u].stage = "insert" =>
         pc'[u].at > 0 /\ pc'[u].at < clock' /\ Hears(u, pc'[u].msg)
  BY <1>2, <1>3 DEF IInv, ArrivalOrder
<1>6. pc'[Drain].stage = "insert" =>
         \A n \in Universe : n.publisher # Me \/ n.kind # "report" => messages'[n] < pc'[Drain].at
  <2> SUFFICES ASSUME pc'[Drain].stage = "insert",
                      NEW n \in Universe, n.publisher # Me \/ n.kind # "report"
               PROVE  messages'[n] < pc'[Drain].at
    OBVIOUS
  <2>1. Drain \in Threads /\ Drain # t /\ pc'[Drain] = pc[Drain]
    BY <1>3 DEF Threads
  <2>2. n # m
    BY <1>1, <2>1 DEF Hears
  <2> QED BY <1>1, <1>2, <2>1, <2>2 DEF IInv, ArrivalOrder
<1> QED BY <1>4, <1>5, <1>6 DEF ArrivalOrder, Hears

\* A step that only removes messages keeps the arrival order.
LEMMA ArrivalShrink ==
    ASSUME IInv, TypeOK', clock' = clock, pc' = pc,
           \A m \in Universe : messages'[m] \in {0, messages[m]}
    PROVE  ArrivalOrder'
<1>1. clock \in Nat /\ messages \in [Universe -> Nat] /\ Drain \in Threads
  BY DEF IInv, TypeOK, Threads
<1>2. \A m \in Universe : messages'[m] <= messages[m]
  BY <1>1
<1>3. pc[Drain].stage = "insert" => pc[Drain].at \in Nat
  BY <1>1, BusyThread DEF IInv
<1>4. \A m \in Universe : messages'[m] < clock
  BY <1>1, <1>2 DEF IInv, ArrivalOrder, TypeOK
<1>5. pc[Drain].stage = "insert" =>
         \A m \in Universe : m.publisher # Me \/ m.kind # "report" => messages'[m] < pc[Drain].at
  BY <1>1, <1>2, <1>3 DEF IInv, ArrivalOrder, TypeOK
<1> QED BY <1>4, <1>5 DEF IInv, ArrivalOrder, Hears

\* The purge and the blacklist delete messages and do nothing else to them.
LEMMA OnlyDeletes ==
    ASSUME TypeOK,
           Start \/ \E t \in Threads, p \in Publishers : Blacklist(t, p)
    PROVE  clock' = clock /\ pc' = pc /\ \A m \in Universe : messages'[m] \in {0, messages[m]}
BY DEF Start, Blacklist, Transaction, TypeOK

\* Every step keeps the order of arrival and the agreement of the four tables.
LEMMA IInvNext == IInv /\ [Next]_vars => IInv'
<1> SUFFICES ASSUME IInv, [Next]_vars PROVE IInv'
  OBVIOUS
<1>1. TypeOK /\ TypeOK'
  BY TypeNext DEF IInv
<1>2. SUFFICES ArrivalOrder' /\ Consistent'
  BY <1>1 DEF IInv
<1> DEFINE Quiet ==
             /\ UNCHANGED consistentVars
             /\ clock' >= clock
             /\ \A t \in Threads : pc'[t] = pc[t] \/ pc'[t].stage # "insert"
<1>3. ASSUME Quiet PROVE ArrivalOrder' /\ Consistent'
  BY <1>1, <1>3, ArrivalStutter, ConsistentStutter DEF IInv, consistentVars
<1>4. CASE Start
  BY <1>1, <1>4, OnlyDeletes, ArrivalShrink, ConsistentStart
<1>5. CASE Crash
  <2>1. Quiet
    BY <1>1, <1>5 DEF Crash, tables, denormalized, consistentVars, Idle, TypeOK
  <2> QED BY <1>3, <2>1
<1>6. CASE Tick
  <2>1. Quiet
    BY <1>1, <1>6 DEF Tick, tables, denormalized, consistentVars, TypeOK
  <2> QED BY <1>3, <2>1
<1>7. CASE ExpireClaims
  <2>1. Quiet
    BY <1>1, <1>7 DEF ExpireClaims, Transaction, consistentVars, TypeOK
  <2> QED BY <1>3, <2>1
<1>8. ASSUME NEW t \in Threads, NEW m \in Universe, IngestBegin(t, m)
      PROVE  ArrivalOrder' /\ Consistent'
  <2>1. UNCHANGED consistentVars
    BY <1>8 DEF IngestBegin, tables, denormalized, consistentVars
  <2>2. /\ clock' = clock + 1
        /\ pc' = [pc EXCEPT ![t] = [stage |-> "insert", msg |-> m, at |-> clock]]
        /\ messages' = messages
        /\ Hears(t, m)
    BY <1>8 DEF IngestBegin, tables
  <2>3. clock \in Nat /\ messages \in [Universe -> Nat] /\ pc \in [Threads -> Busy \cup {Idle}]
    BY <1>1 DEF TypeOK
  <2>4. \A n \in Universe : messages'[n] < clock /\ messages'[n] < clock'
    BY <2>2, <2>3 DEF IInv, ArrivalOrder
  <2>5. clock > 0
    <3>1. messages'[m] \in Nat /\ messages'[m] < clock
      BY <2>2, <2>3, <2>4
    <3> QED BY <2>3, <3>1
  <2>6. pc'[t].stage = "insert" /\ pc'[t].msg = m /\ pc'[t].at = clock
    BY <2>2, <2>3
  <2>7. \A u \in Threads : u # t => pc'[u] = pc[u]
    BY <2>2, <2>3
  <2>8. \A u \in Threads : pc[u].stage = "insert" => pc[u].at \in Nat
    BY <1>1, BusyThread
  <2>9. \A u \in Threads : pc'[u].stage = "insert" =>
           pc'[u].at > 0 /\ pc'[u].at < clock' /\ Hears(u, pc'[u].msg)
    BY <2>2, <2>3, <2>5, <2>6, <2>7, <2>8 DEF IInv, ArrivalOrder
  <2>10. pc'[Drain].stage = "insert" =>
           \A n \in Universe : n.publisher # Me \/ n.kind # "report" => messages'[n] < pc'[Drain].at
    BY <2>2, <2>4, <2>6, <2>7 DEF IInv, ArrivalOrder, Threads
  <2>11. ArrivalOrder'
    BY <2>4, <2>9, <2>10 DEF ArrivalOrder, Hears
  <2> QED BY <2>1, <2>11, ConsistentStutter DEF IInv
<1>9. ASSUME NEW t \in Threads, IngestCommit(t) PROVE ArrivalOrder' /\ Consistent'
  <2>1. ArrivalOrder'
    BY <1>1, <1>9, ArrivalCommit
  <2>2. pc[t].msg.kind = "classify" => InsertClassify(pc[t].msg, pc[t].at)
    BY <1>9 DEF IngestCommit, UpsertAlias, InsertSkip, InsertClaim, InsertReport
  <2> QED BY <1>9, <2>1, <2>2, ConsistentClassify, ConsistentOther
<1>10. ASSUME NEW t \in Threads,
              \/ IngestDuplicate(t) \/ Locked(t) \/ DropProposal(t)
              \/ EnqueueReview(t) \/ MaybeEnqueueSecond(t)
       PROVE  ArrivalOrder' /\ Consistent'
  <2>1. UNCHANGED <<clock, tables>>
    BY <1>10 DEF IngestDuplicate, Locked, DropProposal, WebWrite, EnqueueReview, MaybeEnqueueSecond
  <2>2. \A u \in Threads : pc'[u] = pc[u] \/ pc'[u].stage # "insert"
    BY <1>1, <1>10, ProceedStage
       DEF IngestDuplicate, Locked, DropProposal, EnqueueReview, MaybeEnqueueSecond
  <2>3. Quiet
    BY <1>1, <2>1, <2>2 DEF tables, denormalized, consistentVars, TypeOK
  <2> QED BY <1>3, <2>3
<1>11. ASSUME NEW t \in Threads, NEW p \in Publishers, Blacklist(t, p)
       PROVE  ArrivalOrder' /\ Consistent'
  BY <1>1, <1>11, OnlyDeletes, ArrivalShrink, ConsistentBlacklist
<1>12. ASSUME NEW t \in Threads, NEW p \in Publishers, Unblacklist(t, p)
       PROVE  ArrivalOrder' /\ Consistent'
  <2>1. Quiet
    BY <1>1, <1>12 DEF Unblacklist, Transaction, denormalized, consistentVars, TypeOK
  <2> QED BY <1>3, <2>1
<1>13. ASSUME NEW t \in Threads, NEW a \in AliasNames, SetLocalAlias(t, a)
       PROVE  ArrivalOrder' /\ Consistent'
  <2>1. Quiet
    <3>1. UNCHANGED <<messages, classifies, docs, docsCount, clock, pc>>
      BY <1>13 DEF SetLocalAlias, Transaction
    <3> QED BY <1>1, <3>1 DEF consistentVars, TypeOK
  <2> QED BY <1>3, <2>1
<1>14. ASSUME NEW t \in Threads, NEW c \in Cids, NEW r \in {"wrong", "abusive"},
              propose_report(t, c, r) \/ RejectProposal(t, c, r)
       PROVE  ArrivalOrder' /\ Consistent'
  <2>1. UNCHANGED <<clock, tables, pc>>
    BY <1>14 DEF propose_report, RejectProposal, WebWrite
  <2>2. Quiet
    BY <1>1, <2>1 DEF tables, denormalized, consistentVars, TypeOK
  <2> QED BY <1>3, <2>2
<1>15. CASE UNCHANGED vars
  <2>1. Quiet
    <3>1. UNCHANGED <<messages, classifies, docs, docsCount, clock, pc>>
      BY <1>15 DEF vars, tables, denormalized
    <3> QED BY <1>1, <3>1 DEF consistentVars, TypeOK
  <2> QED BY <1>3, <2>1
<1> QED
  BY <1>4, <1>5, <1>6, <1>7, <1>8, <1>9, <1>10, <1>11, <1>12, <1>13, <1>14,
     <1>15 DEF Next

\* Types, order of arrival and the agreement of log, history, search rows and
\* counter hold together; none of the last three is inductive by itself.
THEOREM InductiveInvariant == Spec => []IInv
BY IInvInit, IInvNext, PTL DEF Spec

\* received_at follows the order in which the drain thread commits.
THEOREM ArrivalOrderHolds == Spec => []ArrivalOrder
<1>1. IInv => ArrivalOrder
  BY DEF IInv
<1> QED BY <1>1, InductiveInvariant, PTL

\* Table classifies is the classify part of the message log.
THEOREM ClassifiesFollowLogHolds == Spec => []ClassifiesFollowLog
<1>1. IInv => ClassifiesFollowLog
  BY DEF IInv, Consistent
<1> QED BY <1>1, InductiveInvariant, PTL

\* A cid's search row is its oldest surviving classify, through any sequence of
\* ingests, blacklistings, purges and crashes.
THEOREM DocsFirstSeenHolds == Spec => []DocsFirstSeen
<1>1. IInv => DocsFirstSeen
  BY DEF IInv, Consistent
<1> QED BY <1>1, InductiveInvariant, PTL

\* settings.docs_count is the number of search rows.
THEOREM CountMatchesHolds == Spec => []CountMatches
<1>1. IInv => CountMatches
  BY DEF IInv, Consistent
<1> QED BY <1>1, InductiveInvariant, PTL

\* The three together: the copies of the log that ingest, blacklisting, crashes
\* and purges maintain by separate deltas agree with it and with each other.
THEOREM ConsistentHolds == Spec => []Consistent
<1>1. IInv => Consistent
  BY DEF IInv
<1> QED BY <1>1, InductiveInvariant, PTL

-----------------------------------------------------------------------------
(***************************************************************************)
(* Action properties.                                                      *)
(***************************************************************************)
\* A step changes a lease only by deleting it, by inserting one that LeaseOpen
\* lets through, or not at all.
LEMMA ClaimSteps ==
    ASSUME TypeOK, [Next]_vars, NEW p \in Publishers, claims'[p] # claims[p]
    PROVE  \/ claims'[p] = NoRow
           \/ \E m \in Universe :
                /\ m.kind = "claim" /\ m.publisher = p /\ LeaseOpen(m)
                /\ claims'[p] = [cid |-> m.cid, until |-> m.until]
<1>0. claims \in [Publishers -> [cid : Cids, until : Nat] \cup {NoRow}]
  BY DEF TypeOK
<1> DEFINE Goal == \/ claims'[p] = NoRow
                   \/ \E m \in Universe :
                        /\ m.kind = "claim" /\ m.publisher = p /\ LeaseOpen(m)
                        /\ claims'[p] = [cid |-> m.cid, until |-> m.until]
<1>1. ASSUME NEW t \in Threads, IngestCommit(t) PROVE Goal
  <2> DEFINE m == pc[t].msg
  <2>1. m \in Universe
    BY <1>1, BusyThread DEF IngestCommit
  <2>2. \/ InsertClassify(m, pc[t].at) \/ UpsertAlias(m) \/ InsertSkip(m, pc[t].at)
        \/ InsertClaim(m) \/ InsertReport(m)
    BY <1>1 DEF IngestCommit
  <2>3. CASE InsertClassify(m, pc[t].at) \/ InsertSkip(m, pc[t].at)
    BY <1>0, <2>3 DEF InsertClassify, InsertSkip, DropClaims
  <2>4. CASE InsertClaim(m)
    <3>1. LeaseOpen(m) /\ claims' = [claims EXCEPT ![m.publisher] = [cid |-> m.cid, until |-> m.until]]
      BY <2>4 DEF InsertClaim
    <3>2. m.publisher = p
      BY <1>0, <3>1
    <3>3. claims'[p] = [cid |-> m.cid, until |-> m.until]
      BY <1>0, <3>1, <3>2
    <3> QED BY <2>1, <2>4, <3>1, <3>2, <3>3 DEF InsertClaim
  <2>5. CASE UpsertAlias(m) \/ InsertReport(m)
    BY <2>5 DEF UpsertAlias, InsertReport
  <2> QED BY <2>2, <2>3, <2>4, <2>5
<1>2. ASSUME NEW t \in Threads, NEW q \in Publishers, Blacklist(t, q) PROVE Goal
  BY <1>0, <1>2 DEF Blacklist
<1>3. CASE Start \/ ExpireClaims
  BY <1>0, <1>3 DEF Start, ExpireClaims
<1>4. CASE Crash \/ Tick \/ UNCHANGED vars
  BY <1>4 DEF Crash, Tick, vars, tables, denormalized
<1>5. ASSUME NEW t \in Threads,
             \/ \E m \in Universe : IngestBegin(t, m)
             \/ IngestDuplicate(t) \/ Locked(t) \/ EnqueueReview(t)
             \/ MaybeEnqueueSecond(t) \/ DropProposal(t)
             \/ \E c \in Cids, r \in {"wrong", "abusive"} :
                  propose_report(t, c, r) \/ RejectProposal(t, c, r)
             \/ \E q \in Publishers : Unblacklist(t, q)
             \/ \E a \in AliasNames : SetLocalAlias(t, a)
      PROVE  Goal
  <2>1. UNCHANGED claims
    BY <1>5 DEF IngestBegin, IngestDuplicate, Locked, EnqueueReview, MaybeEnqueueSecond,
                DropProposal, propose_report, RejectProposal, WebWrite, Unblacklist,
                SetLocalAlias, tables, denormalized
  <2> QED BY <2>1
<1> QED BY <1>1, <1>2, <1>3, <1>4, <1>5 DEF Next

\* At most one live lease per node: whatever a publisher announces and in
\* whatever order it arrives, a lease that still runs is never replaced by one on
\* another cid.
THEOREM LeaseNotStolenHolds == Spec => LeaseNotStolen
<1> DEFINE Kept == \A p \in Publishers :
             claims[p] # NoRow /\ claims'[p] # NoRow /\ claims[p].until > clock
                 => claims'[p].cid = claims[p].cid
<1>1. TypeOK /\ [Next]_vars => [Kept]_vars
  <2> SUFFICES ASSUME TypeOK, [Next]_vars, NEW p \in Publishers,
                      claims[p] # NoRow, claims'[p] # NoRow, claims[p].until > clock
               PROVE  claims'[p].cid = claims[p].cid
    OBVIOUS
  <2>1. CASE claims'[p] = claims[p]
    BY <2>1
  <2>2. CASE claims'[p] # claims[p]
    <3>1. PICK m \in Universe :
            /\ m.kind = "claim" /\ m.publisher = p /\ LeaseOpen(m)
            /\ claims'[p] = [cid |-> m.cid, until |-> m.until]
      BY <2>2, ClaimSteps
    <3>2. claims[p].cid = m.cid
      BY <3>1 DEF LeaseOpen
    <3> QED BY <3>1, <3>2
  <2> QED BY <2>1, <2>2
<1> QED BY <1>1, TypeCorrect, PTL DEF Spec, LeaseNotStolen

-----------------------------------------------------------------------------
(***************************************************************************)
(* Steps that leave all tables alone, and what a commit does to the log.   *)
(***************************************************************************)
\* A thread goes on, or time passes, and only pc, the clock, the lock, the
\* proposals and the review queue change.
LEMMA TablesRest ==
    ASSUME NEW t \in Threads,
           \/ \E m \in Universe : IngestBegin(t, m)
           \/ IngestDuplicate(t) \/ Locked(t) \/ EnqueueReview(t)
           \/ MaybeEnqueueSecond(t) \/ DropProposal(t)
           \/ \E c \in Cids, r \in {"wrong", "abusive"} :
                propose_report(t, c, r) \/ RejectProposal(t, c, r)
    PROVE  UNCHANGED tables
BY DEF IngestBegin, IngestDuplicate, Locked, EnqueueReview, MaybeEnqueueSecond,
       DropProposal, propose_report, RejectProposal, WebWrite, tables

\* The same for a crash, for time, and for a stuttering step.
LEMMA TablesRestAlone == Crash \/ Tick \/ UNCHANGED vars => UNCHANGED tables
BY DEF Crash, Tick, vars

\* The message a thread commits, with the received_at it gets.
LEMMA Committed ==
    ASSUME IInv, NEW t \in Threads, IngestCommit(t)
    PROVE  /\ pc[t].msg \in Universe /\ pc[t].msg.publisher \in Publishers
           /\ pc[t].msg.kind # "alias" => pc[t].msg.cid \in Cids
           /\ pc[t].at \in Nat /\ pc[t].at > 0 /\ pc[t].at < clock
           /\ Hears(t, pc[t].msg)
           /\ messages[pc[t].msg] = 0
           /\ messages' = [messages EXCEPT ![pc[t].msg] = pc[t].at]
           /\ messages \in [Universe -> Nat]
           /\ \A n \in Universe : messages'[n] = IF n = pc[t].msg THEN pc[t].at ELSE messages[n]
           /\ pc[t].msg.publisher # Me \/ pc[t].msg.kind # "report" =>
                 t = Drain /\ \A n \in Universe :
                    n.publisher # Me \/ n.kind # "report" => messages[n] < pc[t].at
<1>1. pc[t].stage = "insert" /\ messages[pc[t].msg] = 0
      /\ messages' = [messages EXCEPT ![pc[t].msg] = pc[t].at]
  BY DEF IngestCommit
<1>2. pc[t].msg \in Universe /\ pc[t].at \in Nat
  BY <1>1, BusyThread DEF IInv
<1>3. messages \in [Universe -> Nat]
  BY DEF IInv, TypeOK
<1>4. pc[t].at > 0 /\ pc[t].at < clock /\ Hears(t, pc[t].msg)
  BY <1>1 DEF IInv, ArrivalOrder
<1>5. pc[t].msg.publisher # Me \/ pc[t].msg.kind # "report" => t = Drain
  BY <1>4 DEF Hears
<1>6. t = Drain => \A n \in Universe : n.publisher # Me \/ n.kind # "report" => messages[n] < pc[t].at
  BY <1>1 DEF IInv, ArrivalOrder
<1> QED BY <1>1, <1>2, <1>3, <1>4, <1>5, <1>6, MessageFields

\* One row of one kind changes with a commit.
LEMMA CommitKinds ==
    ASSUME NEW t \in Threads, IngestCommit(t)
    PROVE  \/ InsertClassify(pc[t].msg, pc[t].at)
           \/ UpsertAlias(pc[t].msg)
           \/ InsertSkip(pc[t].msg, pc[t].at)
           \/ InsertClaim(pc[t].msg)
           \/ InsertReport(pc[t].msg)
BY DEF IngestCommit

-----------------------------------------------------------------------------
(***************************************************************************)
(* Which rows may go.                                                      *)
(***************************************************************************)
\* lookup_cid and expire_claims agree on what a live skip is: a skip that is
\* still reported goes only with its publisher, or with the purge at start.
THEOREM LiveSkipKeptHolds == Spec => LiveSkipKept
<1> DEFINE Kept == \A c \in Cids :
             skips[c] # NoRow /\ skip_is_live(skips[c]) /\ skips'[c] = NoRow
                 => skips[c].msg.publisher \in blacklisted' \/ ~up
<1>1. TypeOK /\ [Next]_vars => [Kept]_vars
  <2> SUFFICES ASSUME TypeOK, [Next]_vars, NEW c \in Cids,
                      skips[c] # NoRow, skip_is_live(skips[c]), skips'[c] = NoRow
               PROVE  skips[c].msg.publisher \in blacklisted' \/ ~up
    OBVIOUS
  <2>0. /\ skips \in [Cids -> [msg : OfKind("skip"), at : Nat] \cup {NoRow}]
        /\ skips[c] \in [msg : OfKind("skip"), at : Nat] /\ skips[c].at \in Nat
        /\ clock \in Nat
    BY DEF TypeOK
  <2>1. CASE Start
    BY <2>1 DEF Start
  <2>2. CASE ExpireClaims
    <3>1. SkipExpired(skips[c])
      BY <2>0, <2>2 DEF ExpireClaims
    <3>2. SkipTtl \in Nat
      BY CatalogAssumption
    <3>3. SkipTtl > 0 /\ skips[c].at < clock - SkipTtl /\ skips[c].msg.reason \notin PersistSkipReasons
      BY <3>1 DEF SkipExpired
    <3>4. skips[c].at + SkipTtl > clock
      BY <3>2, <3>3 DEF skip_is_live
    <3> QED BY <2>0, <3>2, <3>3, <3>4
  <2>3. ASSUME NEW t \in Threads, NEW p \in Publishers, Blacklist(t, p)
        PROVE  skips[c].msg.publisher \in blacklisted'
    <3>1. skips[c].msg.publisher = p
      BY <2>0, <2>3 DEF Blacklist
    <3> QED BY <2>3, <3>1 DEF Blacklist
  <2>4. ASSUME NEW t \in Threads, IngestCommit(t)
        PROVE  FALSE
    <3>1. CASE InsertSkip(pc[t].msg, pc[t].at)
      <4>1. skips' = [skips EXCEPT ![pc[t].msg.cid] = [msg |-> pc[t].msg, at |-> pc[t].at]]
        BY <3>1 DEF InsertSkip
      <4>2. [msg |-> pc[t].msg, at |-> pc[t].at] # NoRow
        <5>1. pc[t].msg \in Universe /\ pc[t].at \in Nat
          BY <2>4, BusyThread DEF IngestCommit
        <5> QED BY <5>1, NoRowAssumption
      <4> QED BY <2>0, <4>1, <4>2
    <3>2. CASE UNCHANGED skips
      BY <3>2
    <3> QED BY <2>4, <3>1, <3>2, CommitKinds
            DEF InsertClassify, UpsertAlias, InsertClaim, InsertReport
  <2>5. ASSUME NEW t \in Threads,
               \/ \E p \in Publishers : Unblacklist(t, p)
               \/ \E a \in AliasNames : SetLocalAlias(t, a)
        PROVE  UNCHANGED skips
    BY <2>5 DEF Unblacklist, SetLocalAlias, denormalized
  <2> QED BY <2>1, <2>2, <2>3, <2>4, <2>5, TablesRest, TablesRestAlone DEF Next, tables, denormalized
<1> QED BY <1>1, TypeCorrect, PTL DEF Spec, LiveSkipKept

-----------------------------------------------------------------------------
(***************************************************************************)
(* Proposals of guests.                                                    *)
(***************************************************************************)
\* A web thread that is past its commit holds an own report the catalog has,
\* or had stored before; nobody is half way in a process that does not run.
OwnStored ==
    /\ \A t \in WebThreads :
         pc[t].stage \in {"review", "drop"} =>
             /\ pc[t].msg.publisher = Me
             /\ messages[pc[t].msg] # 0
    /\ ~up => \A t \in Threads : pc[t] = Idle

\* Initially every thread is idle.
LEMMA OwnStoredInit == Init => OwnStored
<1> SUFFICES ASSUME Init PROVE OwnStored
  OBVIOUS
<1>1. \A t \in Threads : pc[t] = Idle
  BY DEF Init
<1>2. \A t \in WebThreads : t \in Threads /\ pc[t].stage = "idle"
  BY <1>1 DEF Threads, Idle
<1> QED BY <1>1, <1>2 DEF OwnStored

\* A thread that goes on has the stage it goes on to, and the message it had.
LEMMA ProceedEffect ==
    ASSUME TypeOK, NEW t \in Threads, pc[t].stage # "idle", NEW stage, Proceed(t, stage)
    PROVE  /\ \A u \in Threads : u # t => pc'[u] = pc[u]
           /\ stage = "idle" => pc'[t] = Idle
           /\ stage # "idle" => pc'[t].stage = stage /\ pc'[t].msg = pc[t].msg /\ pc'[t].at = pc[t].at
<1>1. pc[t] \in Busy /\ pc \in [Threads -> Busy \cup {Idle}]
  BY BusyThread DEF TypeOK
<1>2. pc' = [pc EXCEPT ![t] = IF stage = "idle" THEN Idle ELSE [pc[t] EXCEPT !.stage = stage]]
  BY DEF Proceed
<1>3. pc'[t] = IF stage = "idle" THEN Idle ELSE [pc[t] EXCEPT !.stage = stage]
  BY <1>1, <1>2
<1>4. \A u \in Threads : u # t => pc'[u] = pc[u]
  BY <1>1, <1>2
<1> QED BY <1>1, <1>3, <1>4 DEF Busy

\* A report goes through ingest with its message in the table from the commit
\* on, and blacklisting deletes no message of this node.
LEMMA OwnStoredStep == IInv /\ OwnStored /\ [Next]_vars => OwnStored'
<1> SUFFICES ASSUME IInv, OwnStored, [Next]_vars PROVE OwnStored'
  OBVIOUS
<1>0. /\ TypeOK /\ messages \in [Universe -> Nat] /\ pc \in [Threads -> Busy \cup {Idle}]
      /\ \A t \in WebThreads : t \in Threads /\ t # Drain
      /\ Idle.stage = "idle"
  BY CatalogAssumption DEF IInv, TypeOK, Threads, Idle
<1>1. CASE Start
  <2>1. \A t \in Threads : pc'[t] = Idle /\ up'
    BY <1>1 DEF Start, OwnStored
  <2> QED BY <1>0, <2>1 DEF OwnStored
<1>2. CASE Crash
  <2>1. \A t \in Threads : pc'[t] = Idle
    BY <1>2 DEF Crash
  <2> QED BY <1>0, <2>1 DEF OwnStored
<1>3. CASE UNCHANGED <<messages, pc, up>>
  BY <1>3 DEF OwnStored
<1>4. CASE Tick \/ ExpireClaims \/ UNCHANGED vars
  <2>1. UNCHANGED <<messages, pc, up>>
    BY <1>4 DEF Tick, ExpireClaims, Transaction, vars, tables
  <2> QED BY <1>3, <2>1
<1>5. ASSUME NEW t \in Threads, NEW m \in Universe, IngestBegin(t, m) PROVE OwnStored'
  <2>1. UNCHANGED <<messages, up>> /\ up
    BY <1>5 DEF IngestBegin, tables
  <2>2. pc'[t].stage = "insert" /\ \A u \in Threads : u # t => pc'[u] = pc[u]
    BY <1>0, <1>5 DEF IngestBegin
  <2> QED BY <1>0, <2>1, <2>2 DEF OwnStored
\* A thread that is busy keeps its message or is done, while the process runs.
<1> DEFINE Moves(t) == /\ pc[t].stage # "idle" /\ UNCHANGED up
                       /\ \A u \in Threads : u # t => pc'[u] = pc[u]
                       /\ \A n \in Universe : messages[n] # 0 => messages'[n] # 0
                       /\ t \in WebThreads /\ pc'[t].stage \in {"review", "drop"} =>
                             pc'[t].msg.publisher = Me /\ messages'[pc'[t].msg] # 0
<1>6. ASSUME NEW t \in Threads, Moves(t) PROVE OwnStored'
  <2>1. up
    BY <1>0, <1>6 DEF OwnStored
  <2>2. \A u \in WebThreads : u # t => pc'[u] = pc[u]
    BY <1>0, <1>6
  <2>3. \A u \in WebThreads : pc[u].stage \in {"review", "drop"} => pc[u].msg \in Universe
    BY <1>0, BusyThread
  <2>4. \A u \in WebThreads : u # t /\ pc'[u].stage \in {"review", "drop"} =>
           pc'[u].msg.publisher = Me /\ messages'[pc'[u].msg] # 0
    BY <1>6, <2>2, <2>3 DEF OwnStored
  <2> QED BY <1>6, <2>1, <2>4 DEF OwnStored
<1>7. ASSUME NEW t \in Threads, IngestCommit(t) PROVE OwnStored'
  <2> DEFINE m == pc[t].msg
  <2>1. /\ m \in Universe /\ pc[t].at > 0 /\ Hears(t, m)
        /\ \A n \in Universe : messages'[n] = IF n = m THEN pc[t].at ELSE messages[n]
    BY <1>7, Committed
  <2>2. pc[t].stage = "insert" /\ Proceed(t, NextStage(t, m)) /\ UNCHANGED up
    BY <1>7 DEF IngestCommit
  <2>3. /\ \A u \in Threads : u # t => pc'[u] = pc[u]
        /\ pc'[t] = Idle \/ pc'[t].msg = m
    BY <1>0, <2>2, ProceedEffect
  <2>4. t \in WebThreads => m.publisher = Me
    BY <1>0, <2>1 DEF Hears
  <2>5. messages'[m] # 0 /\ \A n \in Universe : messages[n] # 0 => messages'[n] # 0
    BY <1>0, <2>1
  <2> QED BY <1>0, <1>6, <2>2, <2>3, <2>4, <2>5
<1>8. ASSUME NEW t \in Threads, IngestDuplicate(t) \/ Locked(t) \/ EnqueueReview(t)
                                \/ MaybeEnqueueSecond(t) \/ DropProposal(t)
      PROVE  OwnStored'
  <2> DEFINE m == pc[t].msg
  <2>1. UNCHANGED <<messages, up>> /\ pc[t].stage # "idle"
    BY <1>8 DEF IngestDuplicate, Locked, EnqueueReview, MaybeEnqueueSecond, DropProposal, WebWrite, tables
  <2>2. pc[t].msg \in Universe
    BY <1>0, <2>1, BusyThread
  <2>3. CASE Proceed(t, "idle")
    <3>1. pc'[t].stage = "idle" /\ \A u \in Threads : u # t => pc'[u] = pc[u]
      BY <1>0, <2>1, <2>3, ProceedEffect
    <3> QED BY <1>6, <2>1, <3>1
  <2>4. CASE (IngestDuplicate(t) \/ EnqueueReview(t)) /\ Proceed(t, LastStage(t, m))
    <3>1. /\ \A u \in Threads : u # t => pc'[u] = pc[u]
          /\ pc'[t] = Idle \/ pc'[t].msg = m
      BY <1>0, <2>1, <2>4, ProceedEffect
    <3>2. t \in WebThreads => m.publisher = Me /\ messages[m] # 0
      <4>1. CASE IngestDuplicate(t)
        <5>1. messages[m] # 0 /\ pc[t].stage = "insert"
          BY <4>1 DEF IngestDuplicate
        <5>2. Hears(t, m)
          BY <5>1 DEF IInv, ArrivalOrder
        <5> QED BY <1>0, <5>1, <5>2 DEF Hears
      <4>2. CASE EnqueueReview(t)
        BY <4>2 DEF EnqueueReview, OwnStored
      <4> QED BY <2>4, <4>1, <4>2
    <3> QED BY <1>0, <1>6, <2>1, <3>1, <3>2
  <2> QED BY <1>8, <2>3, <2>4 DEF IngestDuplicate, Locked, EnqueueReview, MaybeEnqueueSecond, DropProposal
<1>9. ASSUME NEW t \in Threads, NEW p \in Publishers, Blacklist(t, p) PROVE OwnStored'
  <2>1. /\ UNCHANGED <<pc, up>> /\ p # Me
        /\ messages' = [n \in Universe |-> IF n.publisher = p THEN 0 ELSE messages[n]]
    BY <1>9 DEF Blacklist, Transaction
  <2>2. \A u \in WebThreads : pc[u].stage \in {"review", "drop"} => pc[u].msg \in Universe
    BY <1>0, BusyThread
  <2> QED BY <2>1, <2>2 DEF OwnStored
<1>10. ASSUME NEW t \in Threads,
              \/ \E c \in Cids, r \in {"wrong", "abusive"} :
                   propose_report(t, c, r) \/ RejectProposal(t, c, r)
              \/ \E p \in Publishers : Unblacklist(t, p)
              \/ \E a \in AliasNames : SetLocalAlias(t, a)
       PROVE  OwnStored'
  <2>1. UNCHANGED <<messages, pc, up>>
    BY <1>10 DEF propose_report, RejectProposal, WebWrite, tables, Unblacklist, SetLocalAlias, Transaction
  <2> QED BY <1>3, <2>1
<1> QED BY <1>1, <1>2, <1>4, <1>5, <1>7, <1>8, <1>9, <1>10 DEF Next

\* Its two parts hold in every state.
LEMMA OwnStoredHolds == Spec => [](IInv /\ OwnStored)
BY InductiveInvariant, OwnStoredInit, OwnStoredStep, PTL DEF Spec

\* docs/PROTOCOL.md on guest reports: a proposal is rejected, or goes once this
\* node's own report is in its catalog, whatever the write lock and crashes do
\* to the thread that publishes it.
THEOREM ProposalKeptHolds == Spec => ProposalKept
<1> DEFINE Kept == \A g \in proposals \ proposals' :
             \/ \E t \in WebThreads : RejectProposal(t, g[1], g[2])
             \/ \E m \in OfKind("report") :
                  m.publisher = Me /\ m.cid = g[1] /\ m.reason = g[2] /\ messages[m] # 0
<1>1. IInv /\ OwnStored /\ [Next]_vars => [Kept]_vars
  <2> SUFFICES ASSUME IInv, OwnStored, [Next]_vars, NEW g \in proposals \ proposals'
               PROVE  \/ \E t \in WebThreads : RejectProposal(t, g[1], g[2])
                      \/ \E m \in OfKind("report") :
                           m.publisher = Me /\ m.cid = g[1] /\ m.reason = g[2] /\ messages[m] # 0
    OBVIOUS
  <2>1. ASSUME NEW t \in Threads, NEW c \in Cids, NEW r \in {"wrong", "abusive"}, RejectProposal(t, c, r)
        PROVE  \E w \in WebThreads : RejectProposal(w, g[1], g[2])
    <3>1. g = <<c, r>>
      BY <2>1 DEF RejectProposal
    <3>2. t \in WebThreads
      BY <2>1 DEF RejectProposal, WebWrite, Threads
    <3>3. g[1] = c /\ g[2] = r
      BY <3>1
    <3> QED BY <2>1, <3>2, <3>3
  <2>2. ASSUME NEW t \in Threads, DropProposal(t)
        PROVE  \E m \in OfKind("report") :
                 m.publisher = Me /\ m.cid = g[1] /\ m.reason = g[2] /\ messages[m] # 0
    <3>1. pc[t].stage = "drop" /\ t \in WebThreads /\ g = <<pc[t].msg.cid, pc[t].msg.reason>>
      BY <2>2 DEF DropProposal, WebWrite, Threads
    <3>2. pc[t].msg \in OfKind("report")
      BY <3>1, BusyThread DEF IInv, Busy
    <3>3. pc[t].msg.publisher = Me /\ messages[pc[t].msg] # 0
      BY <3>1 DEF OwnStored
    <3> QED BY <3>1, <3>2, <3>3
  <2>3. ASSUME NEW t \in Threads, NEW c \in Cids, NEW r \in {"wrong", "abusive"}, propose_report(t, c, r)
        PROVE  FALSE
    BY <2>3 DEF propose_report
  <2>4. ASSUME NEW t \in Threads,
               \/ \E m \in Universe : IngestBegin(t, m)
               \/ IngestCommit(t) \/ IngestDuplicate(t) \/ Locked(t)
               \/ EnqueueReview(t) \/ MaybeEnqueueSecond(t)
               \/ \E p \in Publishers : Blacklist(t, p) \/ Unblacklist(t, p)
               \/ \E a \in AliasNames : SetLocalAlias(t, a)
        PROVE  UNCHANGED proposals
    BY <2>4 DEF IngestBegin, IngestCommit, IngestDuplicate, Locked, EnqueueReview, MaybeEnqueueSecond,
                Blacklist, Unblacklist, SetLocalAlias, Transaction
  <2>5. ASSUME Start \/ Crash \/ Tick \/ ExpireClaims \/ UNCHANGED vars
        PROVE  UNCHANGED proposals
    BY <2>5 DEF Start, Crash, Tick, ExpireClaims, Transaction, vars
  <2> QED BY <2>1, <2>2, <2>3, <2>4, <2>5 DEF Next
<1> QED BY <1>1, OwnStoredHolds, PTL DEF Spec, ProposalKept

-----------------------------------------------------------------------------
(***************************************************************************)
(* Reports and aliases are what their messages come to.                    *)
(***************************************************************************)
\* The messages of the log that table reports and table aliases come from.
ReportLog(c, p) == {m \in OfKind("report") : m.cid = c /\ m.publisher = p /\ messages[m] # 0}
AliasLog(p) == {m \in OfKind("alias") : m.publisher = p /\ messages[m] # 0}

ReportFollows(c, p) ==
    IF ReportLog(c, p) = {} THEN reports[c][p] = NoRow
    ELSE \E m \in ReportLog(c, p) :
           /\ p # Me => \A n \in ReportLog(c, p) : messages[n] <= messages[m]
           /\ reports[c][p] = IF m.reason = "clear" THEN NoRow ELSE m.reason

AliasFollows(p) ==
    IF AliasLog(p) = {} THEN aliases[p] = NoRow
    ELSE \E m \in AliasLog(p) :
           /\ \A n \in AliasLog(p) : messages[n] <= messages[m]
           /\ aliases[p] = IF m.alias = "" THEN NoRow ELSE m

\* TablesFollowLog, one row at a time.
LEMMA FollowForm ==
    TablesFollowLog <=> /\ \A c \in Cids, p \in Publishers : ReportFollows(c, p)
                        /\ \A p \in Publishers \ {Me} : AliasFollows(p)
BY DEF TablesFollowLog, ReportsFollowLog, AliasesFollowLog, ReportFollows, AliasFollows,
       ReportLog, AliasLog

\* The same after a step.
LEMMA FollowFormNext ==
    ASSUME \A c \in Cids, p \in Publishers : ReportFollows(c, p)',
           \A p \in Publishers \ {Me} : AliasFollows(p)'
    PROVE  TablesFollowLog'
BY DEF TablesFollowLog, ReportsFollowLog, AliasesFollowLog, ReportFollows, AliasFollows,
       ReportLog, AliasLog, OfKind

\* A row keeps following its messages when neither changes, and when both go.
LEMMA RowSame ==
    ASSUME NEW c, NEW p
    PROVE  /\ /\ ReportFollows(c, p)
              /\ reports'[c][p] = reports[c][p]
              /\ \A m \in OfKind("report") : m.cid = c /\ m.publisher = p => messages'[m] = messages[m]
              => ReportFollows(c, p)'
           /\ /\ reports'[c][p] = NoRow
              /\ \A m \in OfKind("report") : m.cid = c /\ m.publisher = p => messages'[m] = 0
              => ReportFollows(c, p)'
           /\ /\ AliasFollows(p)
              /\ aliases'[p] = aliases[p]
              /\ \A m \in OfKind("alias") : m.publisher = p => messages'[m] = messages[m]
              => AliasFollows(p)'
           /\ /\ aliases'[p] = NoRow
              /\ \A m \in OfKind("alias") : m.publisher = p => messages'[m] = 0
              => AliasFollows(p)'
<1>1. ASSUME ReportFollows(c, p), reports'[c][p] = reports[c][p],
             \A m \in OfKind("report") : m.cid = c /\ m.publisher = p => messages'[m] = messages[m]
      PROVE  ReportFollows(c, p)'
  <2>1. ReportLog(c, p)' = ReportLog(c, p) /\ \A m \in ReportLog(c, p) : messages'[m] = messages[m]
    BY <1>1 DEF ReportLog, OfKind
  <2> QED BY <1>1, <2>1 DEF ReportFollows
<1>2. ASSUME reports'[c][p] = NoRow,
             \A m \in OfKind("report") : m.cid = c /\ m.publisher = p => messages'[m] = 0
      PROVE  ReportFollows(c, p)'
  <2>1. ReportLog(c, p)' = {}
    BY <1>2 DEF ReportLog, OfKind
  <2> QED BY <1>2, <2>1 DEF ReportFollows
<1>3. ASSUME AliasFollows(p), aliases'[p] = aliases[p],
             \A m \in OfKind("alias") : m.publisher = p => messages'[m] = messages[m]
      PROVE  AliasFollows(p)'
  <2>1. AliasLog(p)' = AliasLog(p) /\ \A m \in AliasLog(p) : messages'[m] = messages[m]
    BY <1>3 DEF AliasLog, OfKind
  <2> QED BY <1>3, <2>1 DEF AliasFollows
<1>4. ASSUME aliases'[p] = NoRow, \A m \in OfKind("alias") : m.publisher = p => messages'[m] = 0
      PROVE  AliasFollows(p)'
  <2>1. AliasLog(p)' = {}
    BY <1>4 DEF AliasLog, OfKind
  <2> QED BY <1>4, <2>1 DEF AliasFollows
<1> QED BY <1>1, <1>2, <1>3, <1>4

\* A foreign report or alias that is committed is younger than all of its row;
\* of an own report the row takes the effect.
LEMMA FollowCommit ==
    ASSUME IInv, NEW t \in Threads, IngestCommit(t), TablesFollowLog
    PROVE  TablesFollowLog'
<1> DEFINE m == pc[t].msg
           now == pc[t].at
<1>1. /\ m \in Universe /\ now \in Nat /\ now > 0
      /\ \A n \in Universe : messages'[n] = IF n = m THEN now ELSE messages[n]
      /\ m.publisher # Me \/ m.kind # "report" =>
            \A n \in Universe : n.publisher # Me \/ n.kind # "report" => messages[n] < now
      /\ m.publisher \in Publishers /\ (m.kind # "alias" => m.cid \in Cids)
      /\ messages \in [Universe -> Nat]
  BY Committed
<1>2. /\ reports \in [Cids -> [Publishers -> {"wrong", "abusive", NoRow}]]
      /\ DOMAIN aliases = Publishers
  BY DEF IInv, TypeOK
<1>3. ASSUME NEW c \in Cids, NEW p \in Publishers PROVE ReportFollows(c, p)'
  <2>1. ReportFollows(c, p)
    BY <1>3, FollowForm
  <2>2. CASE m.kind = "report" /\ m.cid = c /\ m.publisher = p
    <3>1. reports' = [reports EXCEPT ![c][p] = IF m.reason = "clear" THEN NoRow ELSE m.reason]
      BY <2>2, CommitKinds DEF InsertReport, InsertClassify, UpsertAlias, InsertSkip, InsertClaim
    <3>2. reports'[c][p] = IF m.reason = "clear" THEN NoRow ELSE m.reason
      BY <1>2, <1>3, <3>1
    <3>3. m \in ReportLog(c, p)'
      BY <1>1, <2>2 DEF ReportLog, OfKind
    <3>4. p # Me => \A n \in ReportLog(c, p)' : messages'[n] <= messages'[m]
      <4> SUFFICES ASSUME p # Me, NEW n \in OfKind("report"), n.publisher = p
                   PROVE  messages'[n] <= messages'[m]
        BY DEF ReportLog, OfKind
      <4>1. n \in Universe /\ (n # m => messages[n] < now) /\ messages[n] \in Nat
        BY <1>1, <1>3, <2>2 DEF OfKind
      <4> QED BY <1>1, <4>1
    <3> QED BY <3>2, <3>3, <3>4 DEF ReportFollows
  <2>3. CASE ~(m.kind = "report" /\ m.cid = c /\ m.publisher = p)
    <3>1. \A n \in OfKind("report") : n.cid = c /\ n.publisher = p => messages'[n] = messages[n]
      BY <1>1, <2>3 DEF OfKind
    <3>2. reports'[c][p] = reports[c][p]
      <4>1. CASE InsertReport(m)
        BY <1>2, <1>3, <2>3, <4>1 DEF InsertReport
      <4>2. CASE UNCHANGED reports
        BY <4>2
      <4> QED BY <4>1, <4>2, CommitKinds DEF InsertClassify, UpsertAlias, InsertSkip, InsertClaim
    <3> QED BY <2>1, <3>1, <3>2, RowSame
  <2> QED BY <2>2, <2>3
<1>4. ASSUME NEW p \in Publishers \ {Me} PROVE AliasFollows(p)'
  <2>1. AliasFollows(p)
    BY <1>4, FollowForm
  <2>2. CASE m.kind = "alias" /\ m.publisher = p
    <3>1. aliases' = [aliases EXCEPT ![p] = IF m.alias = "" THEN NoRow ELSE m]
      BY <2>2, CommitKinds DEF InsertReport, InsertClassify, UpsertAlias, InsertSkip, InsertClaim
    <3>2. aliases'[p] = IF m.alias = "" THEN NoRow ELSE m
      BY <1>2, <1>4, <3>1
    <3>3. m \in AliasLog(p)'
      BY <1>1, <2>2 DEF AliasLog, OfKind
    <3>4. \A n \in AliasLog(p)' : messages'[n] <= messages'[m]
      <4> SUFFICES ASSUME NEW n \in OfKind("alias"), n.publisher = p
                   PROVE  messages'[n] <= messages'[m]
        BY DEF AliasLog, OfKind
      <4>1. n \in Universe /\ (n # m => messages[n] < now) /\ messages[n] \in Nat
        BY <1>1, <1>4, <2>2 DEF OfKind
      <4> QED BY <1>1, <4>1
    <3> QED BY <3>2, <3>3, <3>4 DEF AliasFollows
  <2>3. CASE ~(m.kind = "alias" /\ m.publisher = p)
    <3>1. \A n \in OfKind("alias") : n.publisher = p => messages'[n] = messages[n]
      BY <1>1, <2>3 DEF OfKind
    <3>2. aliases'[p] = aliases[p]
      <4>1. CASE UpsertAlias(m)
        BY <1>2, <1>4, <2>3, <4>1 DEF UpsertAlias
      <4>2. CASE UNCHANGED aliases
        BY <4>2
      <4> QED BY <4>1, <4>2, CommitKinds DEF InsertClassify, InsertReport, InsertSkip, InsertClaim
    <3> QED BY <2>1, <3>1, <3>2, RowSame
  <2> QED BY <2>2, <2>3
<1> QED BY <1>3, <1>4, FollowFormNext

\* A catalog starts without reports and aliases, and legacy rows are neither.
LEMMA FollowInit == Init => TablesFollowLog
<1> SUFFICES ASSUME Init PROVE TablesFollowLog
  OBVIOUS
<1>1. \A m \in Universe : m.kind # "classify" => messages[m] = 0
  BY CatalogAssumption DEF Init, OfKind
<1>2. \A c \in Cids, p \in Publishers : ReportLog(c, p) = {} /\ AliasLog(p) = {}
  BY <1>1 DEF ReportLog, AliasLog, OfKind
<1>3. \A p \in Publishers : AliasLog(p) = {}
  BY <1>1 DEF AliasLog, OfKind
<1>4. \A p \in Publishers : aliases[p] = NoRow /\ \A c \in Cids : reports[c][p] = NoRow
  BY DEF Init
<1> QED BY <1>2, <1>3, <1>4, FollowForm DEF ReportFollows, AliasFollows

\* Other steps leave a row alone, or delete it with all its messages.
LEMMA FollowStep == IInv /\ TablesFollowLog /\ [Next]_vars => TablesFollowLog'
<1> SUFFICES ASSUME IInv, TablesFollowLog, [Next]_vars PROVE TablesFollowLog'
  OBVIOUS
<1>0. /\ messages \in [Universe -> Nat]
      /\ reports \in [Cids -> [Publishers -> {"wrong", "abusive", NoRow}]]
      /\ DOMAIN aliases = Publishers
  BY DEF IInv, TypeOK
<1>1. CASE UNCHANGED <<messages, reports, aliases>>
  <2>1. ASSUME NEW c \in Cids, NEW p \in Publishers PROVE ReportFollows(c, p)'
    BY <1>1, <2>1, RowSame, FollowForm
  <2>2. ASSUME NEW p \in Publishers \ {Me} PROVE AliasFollows(p)'
    BY <1>1, <2>2, RowSame, FollowForm
  <2> QED BY <2>1, <2>2, FollowFormNext
<1>2. CASE Start
  <2>1. ASSUME NEW c \in Cids, NEW p \in Publishers PROVE ReportFollows(c, p)'
    <3>1. CASE c \in Dead
      <4>1. reports'[c][p] = NoRow
        BY <1>2, <2>1, <3>1 DEF Start
      <4>2. \A m \in OfKind("report") : m.cid = c => messages'[m] = 0
        BY <1>2, <3>1 DEF Start, OfKind
      <4> QED BY <4>1, <4>2, RowSame
    <3>2. CASE c \notin Dead
      <4>1. reports'[c][p] = reports[c][p]
        BY <1>2, <2>1, <3>2 DEF Start
      <4>2. \A m \in OfKind("report") : m.cid = c => messages'[m] = messages[m]
        BY <1>2, <3>2 DEF Start, OfKind
      <4> QED BY <2>1, <4>1, <4>2, RowSame, FollowForm
    <3> QED BY <3>1, <3>2
  <2>2. ASSUME NEW p \in Publishers \ {Me} PROVE AliasFollows(p)'
    <3>1. aliases' = aliases /\ \A m \in OfKind("alias") : messages'[m] = messages[m]
      BY <1>2 DEF Start, OfKind
    <3> QED BY <2>2, <3>1, RowSame, FollowForm
  <2> QED BY <2>1, <2>2, FollowFormNext
<1>3. ASSUME NEW t \in Threads, NEW q \in Publishers, Blacklist(t, q) PROVE TablesFollowLog'
  <2>0. /\ messages' = [m \in Universe |-> IF m.publisher = q THEN 0 ELSE messages[m]]
        /\ reports' = [c \in Cids |-> [reports[c] EXCEPT ![q] = NoRow]]
        /\ aliases' = [aliases EXCEPT ![q] = NoRow]
    BY <1>3 DEF Blacklist
  <2>1. ASSUME NEW c \in Cids, NEW p \in Publishers PROVE ReportFollows(c, p)'
    <3>1. CASE p = q
      <4>1. reports'[c][p] = NoRow /\ \A m \in OfKind("report") : m.publisher = p => messages'[m] = 0
        BY <1>0, <2>0, <3>1 DEF OfKind
      <4> QED BY <4>1, RowSame
    <3>2. CASE p # q
      <4>1. /\ reports'[c][p] = reports[c][p]
            /\ \A m \in OfKind("report") : m.publisher = p => messages'[m] = messages[m]
        BY <1>0, <2>0, <2>1, <3>2 DEF OfKind
      <4> QED BY <2>1, <4>1, RowSame, FollowForm
    <3> QED BY <3>1, <3>2
  <2>2. ASSUME NEW p \in Publishers \ {Me} PROVE AliasFollows(p)'
    <3>1. CASE p = q
      <4>1. aliases'[p] = NoRow /\ \A m \in OfKind("alias") : m.publisher = p => messages'[m] = 0
        BY <1>0, <2>0, <3>1 DEF OfKind
      <4> QED BY <4>1, RowSame
    <3>2. CASE p # q
      <4>1. /\ aliases'[p] = aliases[p]
            /\ \A m \in OfKind("alias") : m.publisher = p => messages'[m] = messages[m]
        BY <1>0, <2>0, <2>2, <3>2 DEF OfKind
      <4> QED BY <2>2, <4>1, RowSame, FollowForm
    <3> QED BY <3>1, <3>2
  <2> QED BY <2>1, <2>2, FollowFormNext
<1>4. ASSUME NEW t \in Threads, NEW a \in AliasNames, SetLocalAlias(t, a) PROVE TablesFollowLog'
  <2>1. /\ UNCHANGED <<messages, reports>>
        /\ \A p \in Publishers \ {Me} : aliases'[p] = aliases[p]
    BY <1>0, <1>4 DEF SetLocalAlias
  <2>2. ASSUME NEW c \in Cids, NEW p \in Publishers PROVE ReportFollows(c, p)'
    BY <2>1, <2>2, RowSame, FollowForm
  <2>3. ASSUME NEW p \in Publishers \ {Me} PROVE AliasFollows(p)'
    BY <2>1, <2>3, RowSame, FollowForm
  <2> QED BY <2>2, <2>3, FollowFormNext
<1>5. CASE ExpireClaims \/ \E t \in Threads, p \in Publishers : Unblacklist(t, p)
  <2>1. UNCHANGED <<messages, reports, aliases>>
    BY <1>5 DEF ExpireClaims, Unblacklist, denormalized
  <2> QED BY <1>1, <2>1
<1>6. CASE UNCHANGED tables
  BY <1>1, <1>6 DEF tables, denormalized
<1> QED BY <1>2, <1>3, <1>4, <1>5, <1>6, FollowCommit, TablesRest, TablesRestAlone DEF Next

\* Of the messages that are stored, each payload at its first arrival, a foreign
\* publisher's last report and last alias are its rows, through blacklisting,
\* purges and crashes; this node's own report row is that of a stored report.
THEOREM TablesFollowLogHolds == Spec => []TablesFollowLog
<1>1. IInv /\ TablesFollowLog /\ [Next]_vars => TablesFollowLog'
  BY FollowStep
<1> QED BY <1>1, FollowInit, InductiveInvariant, PTL DEF Spec

-----------------------------------------------------------------------------
(***************************************************************************)
(* Which cids are queued.                                                  *)
(***************************************************************************)
\* The classify rows of a cid change by one that is committed, by blacklisting
\* and by the purge at start.
LEMMA RowsStep ==
    ASSUME IInv, [Next]_vars, NEW c \in Cids
    PROVE  \/ ClassifyRows(classifies', c) = ClassifyRows(classifies, c)
           \/ \E t \in Threads :
                /\ IngestCommit(t) /\ t = Drain
                /\ pc[t].msg.kind = "classify" /\ pc[t].msg.cid = c
                /\ ClassifyRows(classifies', c) = ClassifyRows(classifies, c) \cup {pc[t].msg}
           \/ \E p \in Publishers \ {Me} :
                ClassifyRows(classifies', c) = {m \in ClassifyRows(classifies, c) : m.publisher # p}
           \/ /\ ClassifyRows(classifies', c) = {}
              /\ \A p \in Publishers : reports'[c][p] = NoRow
<1> DEFINE Same == ClassifyRows(classifies', c) = ClassifyRows(classifies, c)
           Goal == \/ Same
                   \/ \E t \in Threads :
                        /\ IngestCommit(t) /\ t = Drain
                        /\ pc[t].msg.kind = "classify" /\ pc[t].msg.cid = c
                        /\ ClassifyRows(classifies', c) = ClassifyRows(classifies, c) \cup {pc[t].msg}
                   \/ \E p \in Publishers \ {Me} :
                        ClassifyRows(classifies', c) = {m \in ClassifyRows(classifies, c) : m.publisher # p}
                   \/ /\ ClassifyRows(classifies', c) = {}
                      /\ \A p \in Publishers : reports'[c][p] = NoRow
<1>0. classifies \in [OfKind("classify") -> Nat]
  BY DEF IInv, TypeOK
<1>1. CASE UNCHANGED classifies
  BY <1>1
<1>2. CASE Start
  <2>1. CASE c \in Dead
    <3>1. ClassifyRows(classifies', c) = {}
      BY <1>2, <2>1 DEF Start, ClassifyRows
    <3>2. \A p \in Publishers : reports'[c][p] = NoRow
      BY <1>2, <2>1 DEF Start
    <3> QED BY <3>1, <3>2
  <2>2. CASE c \notin Dead
    <3>1. Same
      BY <1>0, <1>2, <2>2 DEF Start, ClassifyRows
    <3> QED BY <3>1
  <2> QED BY <2>1, <2>2
<1>3. ASSUME NEW t \in Threads, NEW p \in Publishers, Blacklist(t, p) PROVE Goal
  <2>1. p # Me /\ classifies' = [m \in OfKind("classify") |-> IF m.publisher = p THEN 0 ELSE classifies[m]]
    BY <1>3 DEF Blacklist
  <2>2. ClassifyRows(classifies', c) = {m \in ClassifyRows(classifies, c) : m.publisher # p}
    BY <1>0, <2>1 DEF ClassifyRows
  <2> QED BY <2>1, <2>2
<1>4. ASSUME NEW t \in Threads, IngestCommit(t) PROVE Goal
  <2> DEFINE m == pc[t].msg
  <2>1. CASE InsertClassify(m, pc[t].at)
    <3>1. m.kind = "classify" /\ m \in OfKind("classify") /\ t = Drain /\ pc[t].at # 0
      BY <1>4, <2>1, Committed DEF InsertClassify, OfKind, Hears
    <3>2. classifies' = [classifies EXCEPT ![m] = pc[t].at]
      BY <2>1 DEF InsertClassify
    <3>3. CASE m.cid = c
      <4>1. ClassifyRows(classifies', c) = ClassifyRows(classifies, c) \cup {m}
        BY <1>0, <3>1, <3>2, <3>3 DEF ClassifyRows
      <4> QED BY <1>4, <3>1, <3>3, <4>1
    <3>4. CASE m.cid # c
      <4>1. Same
        BY <1>0, <3>1, <3>2, <3>4 DEF ClassifyRows
      <4> QED BY <4>1
    <3> QED BY <3>3, <3>4
  <2>2. CASE UNCHANGED classifies
    BY <1>1, <2>2
  <2> QED BY <1>4, <2>1, <2>2, CommitKinds DEF UpsertAlias, InsertSkip, InsertClaim, InsertReport
<1>5. CASE ExpireClaims \/ \E t \in Threads : \/ \E p \in Publishers : Unblacklist(t, p)
                                             \/ \E a \in AliasNames : SetLocalAlias(t, a)
  <2>1. UNCHANGED classifies
    BY <1>5 DEF ExpireClaims, Unblacklist, SetLocalAlias, denormalized
  <2> QED BY <1>1, <2>1
<1>6. CASE UNCHANGED tables
  BY <1>1, <1>6 DEF tables, denormalized
<1> QED BY <1>2, <1>3, <1>4, <1>5, <1>6, TablesRest, TablesRestAlone DEF Next

\* What the two questions of work.enqueue_* see of that.
LEMMA VotesChange ==
    ASSUME IInv, [Next]_vars, NEW c \in Cids
    PROVE  /\ local_classified(c) =>
                 \/ local_classified(c)'
                 \/ independent_publishers(c)' = {} /\ ~needs_review(c)'
           /\ \/ independent_publishers(c)' \subseteq independent_publishers(c)
              \/ \E t \in Threads :
                   /\ IngestCommit(t) /\ t = Drain
                   /\ pc[t].msg.kind = "classify" /\ pc[t].msg.cid = c
                   /\ independent_publishers(c)' \subseteq independent_publishers(c) \cup {pc[t].msg.publisher}
<1>1. CASE ClassifyRows(classifies', c) = ClassifyRows(classifies, c)
  BY <1>1 DEF local_classified, independent_publishers
<1>2. ASSUME NEW t \in Threads, IngestCommit(t), t = Drain,
             pc[t].msg.kind = "classify", pc[t].msg.cid = c,
             ClassifyRows(classifies', c) = ClassifyRows(classifies, c) \cup {pc[t].msg}
      PROVE  /\ local_classified(c) => local_classified(c)'
             /\ independent_publishers(c)' \subseteq independent_publishers(c) \cup {pc[t].msg.publisher}
  BY <1>2 DEF local_classified, independent_publishers
<1>3. ASSUME NEW p \in Publishers \ {Me},
             ClassifyRows(classifies', c) = {m \in ClassifyRows(classifies, c) : m.publisher # p}
      PROVE  /\ local_classified(c) => local_classified(c)'
             /\ independent_publishers(c)' \subseteq independent_publishers(c)
  BY <1>3 DEF local_classified, independent_publishers
<1>4. ASSUME ClassifyRows(classifies', c) = {}, \A p \in Publishers : reports'[c][p] = NoRow
      PROVE  independent_publishers(c)' = {} /\ ~needs_review(c)'
  <2>1. NoRow # "wrong"
    BY NoRowAssumption DEF ReportReasons
  <2> QED BY <1>4, <2>1 DEF independent_publishers, needs_review
<1> QED BY <1>1, <1>2, <1>3, <1>4, RowsStep

\* Every step but a crash ends a review or a second vote that is due only by
\* queueing its cid, or by finding that it need not.
LEMMA DueStep ==
    ASSUME IInv, [Next]_vars, ~Crash
    PROVE  /\ reviews \subseteq reviews'
           /\ \A t \in Threads :
                pc[t].stage = "review" =>
                    \/ pc'[t] = pc[t]
                    \/ /\ pc[t].msg.cid \in Cids
                       /\ pc[t].msg.cid \in reviews' \/ local_classified(pc[t].msg.cid)
                       /\ UNCHANGED <<classifies, reports>>
           /\ pc[Drain].stage = "second" =>
                 \/ pc'[Drain] = pc[Drain]
                 \/ MaybeEnqueueSecond(Drain)
<1>0. TypeOK /\ Idle.stage = "idle" /\ pc \in [Threads -> Busy \cup {Idle}] /\ Drain \in Threads
  BY DEF IInv, TypeOK, Idle, Threads
<1> DEFINE Goal ==
           /\ reviews \subseteq reviews'
           /\ \A t \in Threads :
                pc[t].stage = "review" =>
                    \/ pc'[t] = pc[t]
                    \/ /\ pc[t].msg.cid \in Cids
                       /\ pc[t].msg.cid \in reviews' \/ local_classified(pc[t].msg.cid)
                       /\ UNCHANGED <<classifies, reports>>
           /\ pc[Drain].stage = "second" =>
                 \/ pc'[Drain] = pc[Drain]
                 \/ MaybeEnqueueSecond(Drain)
<1>1. CASE UNCHANGED <<pc, reviews>>
  BY <1>1
<1>2. ASSUME NEW t \in Threads, UNCHANGED reviews, pc[t].stage \notin {"review", "second"},
             \A u \in Threads : u # t => pc'[u] = pc[u]
      PROVE  Goal
  BY <1>0, <1>2
<1>3. ASSUME NEW t \in Threads, \/ \E m \in Universe : IngestBegin(t, m)
                                \/ IngestCommit(t) \/ IngestDuplicate(t) \/ Locked(t) \/ DropProposal(t)
      PROVE  Goal
  <2>1. UNCHANGED reviews /\ pc[t].stage \notin {"review", "second"}
    BY <1>0, <1>3 DEF IngestBegin, IngestCommit, IngestDuplicate, Locked, DropProposal, WebWrite
  <2>2. \A u \in Threads : u # t => pc'[u] = pc[u]
    <3>1. CASE \E m \in Universe : IngestBegin(t, m)
      BY <1>0, <3>1 DEF IngestBegin
    <3>2. CASE IngestCommit(t) \/ IngestDuplicate(t) \/ Locked(t) \/ DropProposal(t)
      <4>1. \E stage : Proceed(t, stage)
        BY <3>2 DEF IngestCommit, IngestDuplicate, Locked, DropProposal
      <4> QED BY <1>0, <4>1 DEF Proceed
    <3> QED BY <1>3, <3>1, <3>2
  <2> QED BY <1>2, <2>1, <2>2
<1>4. ASSUME NEW t \in Threads, EnqueueReview(t) PROVE Goal
  <2>1. pc[t].stage = "review" /\ pc[t].msg.cid \in Cids
    BY <1>0, <1>4, BusyThread DEF EnqueueReview
  <2>2. /\ reviews' = IF local_classified(pc[t].msg.cid) THEN reviews ELSE reviews \cup {pc[t].msg.cid}
        /\ UNCHANGED <<classifies, reports>>
    BY <1>4 DEF EnqueueReview, tables, denormalized
  <2>3. \A u \in Threads : u # t => pc'[u] = pc[u]
    BY <1>0, <1>4 DEF EnqueueReview, Proceed
  <2>4. pc[t].msg.cid \in reviews' \/ local_classified(pc[t].msg.cid)
    BY <2>2
  <2>5. reviews \subseteq reviews'
    BY <2>2
  <2> QED BY <1>0, <2>1, <2>2, <2>3, <2>4, <2>5
<1>5. ASSUME NEW t \in Threads, MaybeEnqueueSecond(t) PROVE Goal
  <2>1. pc[t].stage = "second" /\ reviews \subseteq reviews'
    BY <1>5 DEF MaybeEnqueueSecond
  <2>2. \A u \in Threads : u # t => pc'[u] = pc[u]
    BY <1>0, <1>5 DEF MaybeEnqueueSecond, Proceed
  <2> QED BY <1>0, <1>5, <2>1, <2>2
<1>6. CASE Start \/ Tick \/ ExpireClaims \/ UNCHANGED vars
  BY <1>1, <1>6 DEF Start, Tick, ExpireClaims, Transaction, vars
<1>7. ASSUME NEW t \in Threads,
             \/ \E c \in Cids, r \in {"wrong", "abusive"} :
                  propose_report(t, c, r) \/ RejectProposal(t, c, r)
             \/ \E p \in Publishers : Blacklist(t, p) \/ Unblacklist(t, p)
             \/ \E a \in AliasNames : SetLocalAlias(t, a)
      PROVE  Goal
  BY <1>1, <1>7 DEF propose_report, RejectProposal, WebWrite, Blacklist, Unblacklist, SetLocalAlias, Transaction
<1> QED BY <1>3, <1>4, <1>5, <1>6, <1>7 DEF Next

\* The two parts of ReviewsQueued, as they are kept: of a cid whose second vote
\* the drain thread is about to ask for, the publisher it heard does not count.
Due(c) == \E t \in Threads : pc[t].stage = "review" /\ pc[t].msg.cid = c
WrongKept == \A c \in Cids : needs_review(c) /\ ~local_classified(c) /\ ~Due(c) => c \in reviews

Asked(c) == IF pc[Drain].stage = "second" /\ pc[Drain].msg.cid = c THEN {pc[Drain].msg.publisher} ELSE {}
SecondKept == \A c \in Cids : ~local_classified(c) /\ independent_publishers(c) \ Asked(c) # {} => c \in reviews

\* Where no process dies.
NoCrash == MaxCrashes = 0
\* Where the queue always has room, and no label is older than the rule.
AlwaysRoom == AtCap \subseteq {FALSE} /\ Legacy = {}

\* Without crashes no step is one.
LEMMA NeverCrash == NoCrash /\ TypeOK => ~Crash
BY DEF NoCrash, TypeOK, Crash

\* A wrong report is due for review from its commit on.
LEMMA WrongStep == ASSUME NoCrash, IInv, WrongKept, [Next]_vars PROVE WrongKept'
<1> SUFFICES ASSUME NEW c \in Cids, needs_review(c)', ~local_classified(c)', ~Due(c)'
             PROVE  c \in reviews'
  BY DEF WrongKept, needs_review, local_classified, ClassifyRows, OfKind, Due, Threads
<1>1. ~Crash
  BY NeverCrash DEF IInv
<1>2. ~local_classified(c)
  BY VotesChange
<1>3. CASE needs_review(c)
  <2>1. CASE Due(c)
    <3>1. PICK t \in Threads : pc[t].stage = "review" /\ pc[t].msg.cid = c
      BY <2>1 DEF Due
    <3>2. pc'[t] # pc[t]
      BY <3>1 DEF Due, Threads
    <3> QED BY <1>1, <1>2, <3>1, <3>2, DueStep
  <2>2. CASE ~Due(c)
    BY <1>1, <1>2, <1>3, <2>2, DueStep DEF WrongKept
  <2> QED BY <2>1, <2>2
<1>4. CASE ~needs_review(c)
  <2>1. PICK p \in Publishers : reports'[c][p] = "wrong"
    BY DEF needs_review
  <2>2. reports \in [Cids -> [Publishers -> {"wrong", "abusive", NoRow}]] /\ NoRow # "wrong"
    BY NoRowAssumption DEF IInv, TypeOK, ReportReasons
  <2>3. reports'[c][p] # reports[c][p]
    BY <1>4, <2>1 DEF needs_review
  <2>4. PICK t \in Threads : IngestCommit(t) /\ InsertReport(pc[t].msg)
    <3>1. ~Start
      BY <2>1, <2>2, <2>3 DEF Start
    <3>2. \A t \in Threads, q \in Publishers : ~Blacklist(t, q)
      BY <2>1, <2>2, <2>3 DEF Blacklist
    <3>3. ~UNCHANGED reports
      BY <2>3
    <3>4. /\ ~ExpireClaims /\ ~UNCHANGED tables
          /\ \A t \in Threads : /\ \A q \in Publishers : ~Unblacklist(t, q)
                                /\ \A a \in AliasNames : ~SetLocalAlias(t, a)
      BY <3>3 DEF ExpireClaims, tables, Unblacklist, SetLocalAlias, denormalized
    <3>5. PICK t \in Threads : IngestCommit(t)
      BY <3>1, <3>2, <3>4, TablesRest, TablesRestAlone DEF Next
    <3> QED BY <3>3, <3>5, CommitKinds DEF InsertClassify, UpsertAlias, InsertSkip, InsertClaim
  <2> DEFINE m == pc[t].msg
  <2>5. m.kind = "report" /\ m.cid \in Cids /\ m.publisher \in Publishers
    BY <2>4, Committed DEF InsertReport
  <2>6. reports' = [reports EXCEPT ![m.cid][m.publisher] = IF m.reason = "clear" THEN NoRow ELSE m.reason]
    BY <2>4 DEF InsertReport
  <2>7. m.cid = c /\ m.reason = "wrong"
    BY <2>1, <2>2, <2>3, <2>5, <2>6
  <2>8. pc[t].stage = "insert" /\ Proceed(t, NextStage(t, m)) /\ NextStage(t, m) = "review"
    BY <2>4, <2>5, <2>7 DEF IngestCommit, NextStage
  <2>9. pc'[t].stage = "review" /\ pc'[t].msg.cid = c
    BY <2>7, <2>8, ProceedEffect DEF IInv
  <2> QED BY <2>9 DEF Due, Threads
<1> QED BY <1>3, <1>4

\* A second vote is due from the commit of a label on, and asked for when it is
\* the only one.
LEMMA SecondStep == ASSUME NoCrash, AlwaysRoom, IInv, SecondKept, [Next]_vars PROVE SecondKept'
<1> SUFFICES ASSUME NEW c \in Cids, ~local_classified(c)', NEW p \in independent_publishers(c)' \ Asked(c)'
             PROVE  c \in reviews'
  BY DEF SecondKept, independent_publishers, local_classified, ClassifyRows, OfKind, Asked
<1>0. ~Crash /\ Drain \in Threads /\ TypeOK
  BY NeverCrash DEF IInv, Threads
<1>1. ~local_classified(c)
  BY VotesChange
<1>2. CASE p \in independent_publishers(c) \ Asked(c)
  BY <1>0, <1>1, <1>2, DueStep DEF SecondKept
<1>3. CASE p \in independent_publishers(c) /\ p \in Asked(c)
  <2>1. pc[Drain].stage = "second" /\ pc[Drain].msg.cid = c /\ pc'[Drain] # pc[Drain]
    BY <1>3 DEF Asked
  <2>2. MaybeEnqueueSecond(Drain)
    BY <1>0, <2>1, DueStep
  <2>3. CASE independent_publishers(c) \ Asked(c) = {}
    <3>1. independent_publishers(c) = {p}
      BY <1>3, <2>3 DEF Asked
    <3>2. should_second_classify(c)
      BY <1>1, <3>1, FS_Singleton DEF should_second_classify
    <3> QED BY <2>1, <2>2, <3>2 DEF MaybeEnqueueSecond, AlwaysRoom
  <2>4. CASE independent_publishers(c) \ Asked(c) # {}
    BY <1>0, <1>1, <2>4, DueStep DEF SecondKept
  <2> QED BY <2>3, <2>4
<1>4. CASE p \notin independent_publishers(c)
  <2>1. /\ IngestCommit(Drain) /\ pc[Drain].msg.kind = "classify" /\ pc[Drain].msg.cid = c
        /\ p = pc[Drain].msg.publisher
    BY <1>4, VotesChange
  <2>2. /\ pc[Drain].stage = "insert" /\ Proceed(Drain, NextStage(Drain, pc[Drain].msg))
        /\ NextStage(Drain, pc[Drain].msg) = "second"
    BY <2>1 DEF IngestCommit, NextStage
  <2>3. pc'[Drain].stage = "second" /\ pc'[Drain].msg = pc[Drain].msg
    BY <1>0, <2>2, ProceedEffect
  <2> QED BY <2>1, <2>3 DEF Asked
<1> QED BY <1>2, <1>3, <1>4

\* A new catalog has no reports, and no labels either.
LEMMA DueInit == /\ Init => WrongKept
                 /\ AlwaysRoom /\ Init => SecondKept
<1>1. ASSUME Init PROVE WrongKept
  <2>1. \A c \in Cids : ~needs_review(c)
    BY <1>1, NoRowAssumption DEF Init, needs_review, ReportReasons
  <2> QED BY <2>1 DEF WrongKept
<1>2. ASSUME AlwaysRoom, Init PROVE SecondKept
  <2>1. \A c \in Cids : independent_publishers(c) = {}
    BY <1>2 DEF Init, AlwaysRoom, independent_publishers, ClassifyRows
  <2> QED BY <2>1 DEF SecondKept
<1> QED BY <1>1, <1>2

\* docs/PROTOCOL.md: a wrong report asks a node that has not classified the cid
\* to do so.  The cid is queued for review, whatever web threads and the drain
\* thread do meanwhile, as long as the process does not die after the commit.
THEOREM WrongQueuedHolds == ASSUME NoCrash PROVE Spec => []WrongQueued
<1>1. IInv /\ WrongKept /\ [Next]_vars => WrongKept'
  BY WrongStep
<1>2. WrongKept => WrongQueued
  BY DEF WrongKept, WrongQueued, Due
<1> QED BY <1>1, <1>2, DueInit, InductiveInvariant, PTL DEF Spec

\* The same for second votes: of labels read in any order and blacklisted at any
\* time, the one that is left alone has been queued for a second vote, as long
\* as the queue has room and no label is older than the rule.
THEOREM ReviewsQueuedHolds == ASSUME NoCrash, AlwaysRoom PROVE Spec => []ReviewsQueued
<1>1. IInv /\ SecondKept /\ [Next]_vars => SecondKept'
  BY SecondStep
<1>2. SecondKept => SecondQueued
  <2> SUFFICES ASSUME SecondKept, NEW c \in Cids, should_second_classify(c),
                      pc[Drain].stage = "second" => pc[Drain].msg.cid # c
               PROVE  c \in reviews
    BY DEF SecondQueued
  <2>1. ~local_classified(c) /\ Cardinality(independent_publishers(c)) = 1
    BY DEF should_second_classify
  <2>2. independent_publishers(c) # {}
    BY <2>1, FS_EmptySet
  <2> QED BY <2>1, <2>2 DEF SecondKept, Asked
<1>3. WrongQueued /\ SecondQueued => ReviewsQueued
  BY DEF ReviewsQueued
<1> QED BY <1>1, <1>2, <1>3, DueInit, InductiveInvariant, WrongQueuedHolds, PTL DEF Spec

-----------------------------------------------------------------------------
(***************************************************************************)
(* received_at tells messages apart: every ingest_message reads another.   *)
(***************************************************************************)
Inserting(t) == pc[t].stage = "insert"

Distinct ==
    /\ \A m, n \in Universe :
         messages[m] # 0 /\ messages[m] = messages[n] => m = n \/ (m \in Legacy /\ n \in Legacy)
    /\ \A t \in Threads : Inserting(t) => \A m \in Universe : messages[m] # pc[t].at
    /\ \A t, u \in Threads : Inserting(t) /\ Inserting(u) /\ pc[t].at = pc[u].at => t = u

\* Only legacy rows have the time of another row.
LEMMA DistinctInit == Init => Distinct
<1> SUFFICES ASSUME Init PROVE Distinct
  OBVIOUS
<1>1. \A t \in Threads : ~Inserting(t)
  BY DEF Init, Inserting, Idle
<1>2. \A m \in Universe : messages[m] # 0 => m \in Legacy
  BY DEF Init
<1>3. \A m, n \in Universe :
         messages[m] # 0 /\ messages[m] = messages[n] => m = n \/ (m \in Legacy /\ n \in Legacy)
  BY <1>2
<1> QED BY <1>1, <1>3 DEF Distinct

\* A step that stores nothing and begins no ingest keeps times apart.
LEMMA DistinctQuiet ==
    ASSUME Distinct,
           \A m \in Universe : messages'[m] \in {0, messages[m]},
           \A t \in Threads : Inserting(t) => pc[t].at # 0,
           \A t \in Threads : pc'[t] = pc[t] \/ pc'[t].stage # "insert"
    PROVE  Distinct'
<1>1. \A t \in Threads : pc'[t].stage = "insert" => pc'[t] = pc[t] /\ Inserting(t)
  BY DEF Inserting
<1>2. \A m, n \in Universe :
         messages'[m] # 0 /\ messages'[m] = messages'[n] => m = n \/ (m \in Legacy /\ n \in Legacy)
  BY DEF Distinct
<1>3. \A t \in Threads : pc'[t].stage = "insert" => \A m \in Universe : messages'[m] # pc'[t].at
  BY <1>1 DEF Distinct
<1>4. \A t, u \in Threads :
         pc'[t].stage = "insert" /\ pc'[u].stage = "insert" /\ pc'[t].at = pc'[u].at => t = u
  BY <1>1 DEF Distinct
<1> QED BY <1>2, <1>3, <1>4 DEF Distinct, Inserting

\* The times a step leaves.
LEMMA DistinctStep == IInv /\ Distinct /\ [Next]_vars => Distinct'
<1> SUFFICES ASSUME IInv, Distinct, [Next]_vars PROVE Distinct'
  OBVIOUS
<1>0. /\ TypeOK /\ pc \in [Threads -> Busy \cup {Idle}] /\ messages \in [Universe -> Nat] /\ clock \in Nat
      /\ \A t \in Threads : Inserting(t) => pc[t].at # 0 /\ pc[t].at < clock
      /\ \A m \in Universe : messages[m] < clock
      /\ Idle.stage = "idle"
  BY DEF IInv, TypeOK, ArrivalOrder, Inserting, Idle
<1>1. CASE /\ \A m \in Universe : messages'[m] \in {0, messages[m]}
           /\ \A t \in Threads : pc'[t] = pc[t] \/ pc'[t].stage # "insert"
  BY <1>0, <1>1, DistinctQuiet
<1>2. CASE Start \/ \E t \in Threads, p \in Publishers : Blacklist(t, p)
  BY <1>0, <1>1, <1>2, OnlyDeletes
<1>3. CASE Crash
  <2>1. messages' = messages /\ \A t \in Threads : pc'[t] = Idle
    BY <1>3 DEF Crash, tables
  <2> QED BY <1>0, <1>1, <2>1
<1>4. CASE Tick \/ ExpireClaims \/ UNCHANGED vars
  <2>1. UNCHANGED <<messages, pc>>
    BY <1>4 DEF Tick, ExpireClaims, Transaction, tables, vars
  <2> QED BY <1>1, <2>1
<1>5. ASSUME NEW t \in Threads, \/ IngestDuplicate(t) \/ Locked(t) \/ EnqueueReview(t)
                                \/ MaybeEnqueueSecond(t) \/ DropProposal(t)
      PROVE  Distinct'
  <2>1. messages' = messages
    BY <1>5, TablesRest DEF tables
  <2>2. \A u \in Threads : pc'[u] = pc[u] \/ pc'[u].stage # "insert"
    BY <1>0, <1>5, ProceedStage
       DEF IngestDuplicate, Locked, DropProposal, EnqueueReview, MaybeEnqueueSecond
  <2> QED BY <1>1, <2>1, <2>2
<1>6. ASSUME NEW t \in Threads,
             \/ \E c \in Cids, r \in {"wrong", "abusive"} :
                  propose_report(t, c, r) \/ RejectProposal(t, c, r)
             \/ \E p \in Publishers : Unblacklist(t, p)
             \/ \E a \in AliasNames : SetLocalAlias(t, a)
      PROVE  Distinct'
  <2>1. UNCHANGED <<messages, pc>>
    BY <1>6 DEF propose_report, RejectProposal, WebWrite, tables, Unblacklist, SetLocalAlias, Transaction
  <2> QED BY <1>1, <2>1
<1>7. ASSUME NEW t \in Threads, NEW m \in Universe, IngestBegin(t, m) PROVE Distinct'
  <2>1. messages' = messages /\ pc' = [pc EXCEPT ![t] = [stage |-> "insert", msg |-> m, at |-> clock]]
    BY <1>7 DEF IngestBegin, tables
  <2>2. pc'[t].at = clock /\ \A u \in Threads : u # t => pc'[u] = pc[u]
    BY <1>0, <2>1
  <2>3. \A u \in Threads : pc'[u].stage = "insert" => \A n \in Universe : messages'[n] # pc'[u].at
    BY <1>0, <2>1, <2>2 DEF Distinct, Inserting
  <2>4. \A u, v \in Threads :
           pc'[u].stage = "insert" /\ pc'[v].stage = "insert" /\ pc'[u].at = pc'[v].at => u = v
    BY <1>0, <2>2 DEF Distinct, Inserting
  <2> QED BY <2>1, <2>3, <2>4 DEF Distinct, Inserting
<1>8. ASSUME NEW t \in Threads, IngestCommit(t) PROVE Distinct'
  <2> DEFINE m == pc[t].msg
             now == pc[t].at
  <2>1. /\ m \in Universe /\ now > 0 /\ now \in Nat
        /\ \A n \in Universe : messages'[n] = IF n = m THEN now ELSE messages[n]
    BY <1>8, Committed
  <2>2. Inserting(t) /\ \A n \in Universe : messages[n] # now
    BY <1>8 DEF IngestCommit, Inserting, Distinct
  <2>3. pc'[t].stage # "insert" /\ \A u \in Threads : u # t => pc'[u] = pc[u]
    BY <1>0, <1>8, ProceedStage DEF IngestCommit
  <2>4. \A k, n \in Universe :
           messages'[k] # 0 /\ messages'[k] = messages'[n] => k = n \/ (k \in Legacy /\ n \in Legacy)
    BY <2>1, <2>2 DEF Distinct
  <2>5. \A u \in Threads : pc'[u].stage = "insert" => \A n \in Universe : messages'[n] # pc'[u].at
    BY <2>1, <2>2, <2>3 DEF Distinct, Inserting
  <2>6. \A u, v \in Threads :
           pc'[u].stage = "insert" /\ pc'[v].stage = "insert" /\ pc'[u].at = pc'[v].at => u = v
    BY <2>3 DEF Distinct, Inserting
  <2> QED BY <2>4, <2>5, <2>6 DEF Distinct, Inserting
<1> QED BY <1>2, <1>3, <1>4, <1>5, <1>6, <1>7, <1>8 DEF Next

\* No two rows of a cid have one received_at, so its oldest classify is unique.
LEMMA OldestUnique ==
    ASSUME IInv, Distinct, NEW c \in Cids,
           NEW m \in ClassifyRows(classifies, c), NEW n \in ClassifyRows(classifies, c),
           classifies[m] = classifies[n]
    PROVE  m = n
<1>1. m \in Universe /\ n \in Universe /\ m.cid = n.cid /\ messages[m] # 0 /\ messages[m] = messages[n]
  BY DEF ClassifyRows, OfKind, IInv, Consistent, ClassifiesFollowLog
<1>2. m = n \/ (m \in Legacy /\ n \in Legacy)
  BY <1>1 DEF Distinct
<1> QED BY <1>1, <1>2, CatalogAssumption

-----------------------------------------------------------------------------
(***************************************************************************)
(* What blacklisting takes away, and for how long.                         *)
(***************************************************************************)
\* The label shown for a cid changes only with its publisher, or with the cid.
LEMMA FirstSeenStep ==
    ASSUME IInv, Distinct, [Next]_vars, NEW c \in Cids, docs[c] # NoRow, docs'[c] # docs[c]
    PROVE  docs[c].publisher \in blacklisted' \/ c \notin ValidCids
<1>0. /\ docs \in [Cids -> OfKind("classify") \cup {NoRow}]
      /\ classifies \in [OfKind("classify") -> Nat]
  BY DEF IInv, TypeOK
<1>1. ~UNCHANGED docs
  OBVIOUS
<1>2. CASE Start
  BY <1>2 DEF Start, Dead
<1>3. ASSUME NEW t \in Threads, IngestCommit(t) PROVE FALSE
  <2>1. InsertClassify(pc[t].msg, pc[t].at)
    BY <1>1, <1>3, CommitKinds DEF UpsertAlias, InsertSkip, InsertClaim, InsertReport
  <2>2. docs' = [docs EXCEPT ![pc[t].msg.cid] = pc[t].msg] /\ docs[pc[t].msg.cid] = NoRow
    BY <1>1, <2>1 DEF InsertClassify, UpsertDoc
  <2> QED BY <1>0, <2>2
<1>4. ASSUME NEW t \in Threads, NEW p \in Publishers, Blacklist(t, p), docs[c].publisher # p
      PROVE  FALSE
  <2> DEFINE kept == [m \in OfKind("classify") |-> IF m.publisher = p THEN 0 ELSE classifies[m]]
             shown == docs[c]
  <2>1. docs'[c] = Oldest(kept, c)
    BY <1>0, <1>4 DEF Blacklist, RebuildDocs
  <2>2. /\ shown \in ClassifyRows(classifies, c)
        /\ \A n \in ClassifyRows(classifies, c) : classifies[shown] <= classifies[n]
    BY DEF IInv, Consistent, DocsFirstSeen
  <2>3. shown \in ClassifyRows(kept, c) /\ kept \in [OfKind("classify") -> Nat]
    BY <1>0, <1>4, <2>2 DEF ClassifyRows
  <2>4. \A n \in ClassifyRows(kept, c) : n \in ClassifyRows(classifies, c) /\ kept[n] = classifies[n]
    BY <1>0 DEF ClassifyRows
  <2> HIDE DEF kept
  <2>5. PICK o \in ClassifyRows(kept, c) : o = Oldest(kept, c) /\ kept[o] <= kept[shown]
    BY <2>3, OldestSpec, Zenon
  <2>6. classifies[o] = classifies[shown]
    <3>1. classifies[o] <= classifies[shown] /\ classifies[shown] <= classifies[o]
      BY <2>2, <2>3, <2>4, <2>5
    <3>2. classifies[o] \in Nat /\ classifies[shown] \in Nat
      BY <1>0, <2>2, <2>4 DEF ClassifyRows
    <3> QED BY <3>1, <3>2
  <2>7. o = shown
    BY <2>2, <2>4, <2>6, OldestUnique
  <2> QED BY <2>1, <2>5, <2>7
<1>5. ASSUME NEW t \in Threads, NEW p \in Publishers, Blacklist(t, p), docs[c].publisher = p
      PROVE  docs[c].publisher \in blacklisted'
  BY <1>5 DEF Blacklist
<1>6. CASE ExpireClaims \/ \E t \in Threads : \/ \E p \in Publishers : Unblacklist(t, p)
                                             \/ \E a \in AliasNames : SetLocalAlias(t, a)
  BY <1>1, <1>6 DEF ExpireClaims, Unblacklist, SetLocalAlias, denormalized
<1> QED BY <1>1, <1>2, <1>3, <1>4, <1>5, <1>6, TablesRest, TablesRestAlone DEF Next, tables, denormalized

\* The admin never blacklists this node itself.
LEMMA MeStaysStep == TypeOK /\ Me \notin blacklisted /\ [Next]_vars => Me \notin blacklisted'
<1> SUFFICES ASSUME TypeOK, Me \notin blacklisted, [Next]_vars PROVE Me \notin blacklisted'
  OBVIOUS
<1>1. CASE UNCHANGED blacklisted
  BY <1>1
<1>2. ASSUME NEW t \in Threads, NEW p \in Publishers, Blacklist(t, p) \/ Unblacklist(t, p)
      PROVE  Me \notin blacklisted'
  BY <1>2 DEF Blacklist, Unblacklist
<1>3. CASE Start \/ ExpireClaims \/ \E t \in Threads : \/ IngestCommit(t)
                                                       \/ \E a \in AliasNames : SetLocalAlias(t, a)
  BY <1>1, <1>3 DEF Start, ExpireClaims, IngestCommit, SetLocalAlias
<1>4. CASE UNCHANGED tables
  BY <1>1, <1>4 DEF tables
<1> QED BY <1>1, <1>2, <1>3, <1>4, TablesRest, TablesRestAlone DEF Next

\* Only the admin's blacklisting adds a publisher to table blacklisted.
LEMMA BlacklistedStep ==
    ASSUME [Next]_vars, NEW p, p \notin blacklisted, p \in blacklisted'
    PROVE  p \in Publishers /\ \E t \in Threads : Blacklist(t, p)
<1>1. blacklisted' # blacklisted
  OBVIOUS
<1>2. ASSUME NEW t \in Threads, NEW q \in Publishers, Blacklist(t, q) PROVE q = p
  BY <1>2 DEF Blacklist
<1>3. ASSUME NEW t \in Threads, NEW q \in Publishers, Unblacklist(t, q) PROVE FALSE
  BY <1>3 DEF Unblacklist
<1>4. CASE Start \/ ExpireClaims \/ \E t \in Threads : \/ IngestCommit(t)
                                                       \/ \E a \in AliasNames : SetLocalAlias(t, a)
  BY <1>1, <1>4 DEF Start, ExpireClaims, IngestCommit, SetLocalAlias
<1>5. CASE UNCHANGED tables
  BY <1>1, <1>5 DEF tables
<1> QED BY <1>2, <1>3, <1>4, <1>5, TablesRest, TablesRestAlone DEF Next

\* The messages of publisher p that are stored.
LogOf(p) == {m \in Universe : m.publisher = p /\ messages[m] # 0}

\* A skip and a lease come from messages of the log that say the same.
SkipLogged(c) == skips[c] # NoRow =>
    /\ skips[c].msg \in OfKind("skip") /\ skips[c].msg.cid = c
    /\ messages[skips[c].msg] # 0
LeaseLogged(p) == claims[p] # NoRow =>
    \E m \in LogOf(p) : m.kind = "claim" /\ m.cid = claims[p].cid /\ m.until = claims[p].until
RowsLogged == (\A c \in Cids : SkipLogged(c)) /\ (\A p \in Publishers : LeaseLogged(p))

\* A row stays logged when neither it nor its messages change, or when it goes.
LEMMA LoggedSame ==
    /\ \A c \in Cids :
         /\ skips'[c] = NoRow => SkipLogged(c)'
         /\ /\ SkipLogged(c) /\ skips'[c] = skips[c]
            /\ messages'[skips[c].msg] = messages[skips[c].msg]
            => SkipLogged(c)'
    /\ \A p \in Publishers :
         /\ claims'[p] = NoRow => LeaseLogged(p)'
         /\ /\ LeaseLogged(p) /\ claims'[p] = claims[p]
            /\ \A m \in LogOf(p) : m.kind = "claim" /\ m.cid = claims[p].cid => messages'[m] = messages[m]
            => LeaseLogged(p)'
BY DEF SkipLogged, LeaseLogged, LogOf, OfKind

\* A commit stores the message with the row, and removes no message.
LEMMA LoggedCommit ==
    ASSUME IInv, RowsLogged, NEW t \in Threads, IngestCommit(t)
    PROVE  RowsLogged'
<1> DEFINE m == pc[t].msg
           now == pc[t].at
<1>1. /\ m \in Universe /\ m.publisher \in Publishers /\ (m.kind # "alias" => m.cid \in Cids)
      /\ now > 0 /\ messages[m] = 0
      /\ \A n \in Universe : messages'[n] = IF n = m THEN now ELSE messages[n]
  BY Committed
<1>2. /\ skips \in [Cids -> [msg : OfKind("skip"), at : Nat] \cup {NoRow}]
      /\ claims \in [Publishers -> [cid : Cids, until : Nat] \cup {NoRow}]
  BY DEF IInv, TypeOK
<1>3. \A n \in Universe : messages[n] # 0 => messages'[n] = messages[n]
  BY <1>1
<1>4. messages'[m] # 0
  BY <1>1
<1> HIDE DEF m, now
<1>5. ASSUME NEW c \in Cids PROVE SkipLogged(c)'
  <2>1. CASE skips'[c] = skips[c]
    <3>1. CASE skips[c] = NoRow
      BY <2>1, <3>1, LoggedSame
    <3>2. CASE skips[c] # NoRow
      <4>1. SkipLogged(c) /\ skips[c].msg \in Universe /\ messages[skips[c].msg] # 0
        BY <3>2 DEF RowsLogged, SkipLogged, OfKind
      <4> QED BY <1>3, <2>1, <4>1, LoggedSame
    <3> QED BY <3>1, <3>2
  <2>2. CASE InsertSkip(m, now) /\ m.cid = c
    <3>1. m.kind = "skip" /\ skips'[c] = [msg |-> m, at |-> now]
      BY <1>2, <2>2 DEF InsertSkip
    <3> QED BY <1>1, <1>4, <2>2, <3>1 DEF SkipLogged, OfKind
  <2>3. InsertSkip(m, now) /\ m.cid # c => skips'[c] = skips[c]
    BY <1>2 DEF InsertSkip
  <2> QED BY <2>1, <2>2, <2>3, CommitKinds DEF InsertClassify, UpsertAlias, InsertClaim, InsertReport, m, now
<1>6. ASSUME NEW p \in Publishers PROVE LeaseLogged(p)'
  <2>0. \A n \in LogOf(p) : messages'[n] = messages[n]
    BY <1>3 DEF LogOf
  <2>1. CASE claims'[p] = claims[p]
    BY <2>0, <2>1, LoggedSame DEF RowsLogged
  <2>2. CASE claims'[p] = NoRow
    BY <2>2, LoggedSame
  <2>3. CASE InsertClaim(m)
    <3>1. m.kind = "claim" /\ claims' \in {claims, [claims EXCEPT ![m.publisher] = [cid |-> m.cid, until |-> m.until]]}
      BY <2>3 DEF InsertClaim
    <3>2. CASE claims' = [claims EXCEPT ![m.publisher] = [cid |-> m.cid, until |-> m.until]] /\ m.publisher = p
      <4>1. claims'[p].cid = m.cid /\ claims'[p].until = m.until
        BY <1>2, <3>2
      <4>2. m \in LogOf(p)'
        BY <1>1, <1>4, <3>2 DEF LogOf
      <4> QED BY <3>1, <4>1, <4>2 DEF LeaseLogged
    <3>3. claims' # claims /\ m.publisher # p => claims'[p] = claims[p]
      BY <1>2, <3>1
    <3> QED BY <2>1, <3>1, <3>2, <3>3
  <2>4. \A d : DropClaims(d) => claims'[p] \in {NoRow, claims[p]}
    BY DEF DropClaims
  <2> QED BY <2>1, <2>2, <2>3, <2>4, CommitKinds DEF InsertClassify, UpsertAlias, InsertSkip, InsertReport, m, now
<1> QED BY <1>5, <1>6 DEF RowsLogged

\* A purge and a blacklisting take the row with the message, and the others
\* change no message.
LEMMA LoggedStep == IInv /\ RowsLogged /\ [Next]_vars => RowsLogged'
<1> SUFFICES ASSUME IInv, RowsLogged, [Next]_vars PROVE RowsLogged'
  OBVIOUS
<1>0. /\ skips \in [Cids -> [msg : OfKind("skip"), at : Nat] \cup {NoRow}]
      /\ claims \in [Publishers -> [cid : Cids, until : Nat] \cup {NoRow}]
      /\ messages \in [Universe -> Nat]
      /\ \A p \in Publishers : claims[p] # NoRow => claims[p].cid \in Cids
  BY DEF IInv, TypeOK
<1>1. ASSUME UNCHANGED messages, \A c \in Cids : skips'[c] \in {NoRow, skips[c]},
             \A p \in Publishers : claims'[p] \in {NoRow, claims[p]}
      PROVE  RowsLogged'
  BY <1>1, LoggedSame DEF RowsLogged
<1>2. CASE Start
  <2>1. ASSUME NEW c \in Cids PROVE SkipLogged(c)'
    <3>1. CASE c \in Unprocessable \cup Dead
      <4>1. skips'[c] = NoRow
        BY <1>2, <3>1 DEF Start
      <4> QED BY <4>1, LoggedSame
    <3>2. CASE c \notin Unprocessable \cup Dead /\ skips[c] # NoRow
      <4>1. skips'[c] = skips[c]
        BY <1>2, <3>2 DEF Start
      <4>2. skips[c].msg \in Universe /\ skips[c].msg.cid = c
        BY <3>2 DEF RowsLogged, SkipLogged, OfKind
      <4>3. messages'[skips[c].msg] = messages[skips[c].msg]
        BY <1>2, <3>2, <4>2 DEF Start
      <4> QED BY <4>1, <4>3, LoggedSame DEF RowsLogged
    <3>3. CASE skips[c] = NoRow
      <4>1. skips'[c] = NoRow
        BY <1>2, <3>3 DEF Start
      <4> QED BY <4>1, LoggedSame
    <3> QED BY <3>1, <3>2, <3>3
  <2>2. ASSUME NEW p \in Publishers PROVE LeaseLogged(p)'
    <3>1. CASE claims'[p] = NoRow
      BY <3>1, LoggedSame
    <3>2. CASE claims'[p] # NoRow
      <4>1. claims'[p] = claims[p] /\ claims[p].cid \notin Dead
        BY <1>2, <3>2 DEF Start
      <4>2. \A m \in LogOf(p) : m.kind = "claim" /\ m.cid = claims[p].cid => messages'[m] = messages[m]
        BY <1>2, <4>1 DEF Start, LogOf
      <4> QED BY <4>1, <4>2, LoggedSame DEF RowsLogged
    <3> QED BY <3>1, <3>2
  <2> QED BY <2>1, <2>2 DEF RowsLogged
<1>3. ASSUME NEW t \in Threads, NEW q \in Publishers, Blacklist(t, q) PROVE RowsLogged'
  <2>0. \A m \in Universe : m.publisher # q => messages'[m] = messages[m]
    BY <1>3 DEF Blacklist
  <2>1. ASSUME NEW c \in Cids PROVE SkipLogged(c)'
    <3>1. CASE skips'[c] = NoRow
      BY <3>1, LoggedSame
    <3>2. CASE skips'[c] # NoRow
      <4>1. skips'[c] = skips[c] /\ skips[c] # NoRow /\ skips[c].msg.publisher # q
        BY <1>3, <3>2 DEF Blacklist
      <4>2. skips[c].msg \in Universe
        BY <4>1 DEF RowsLogged, SkipLogged, OfKind
      <4> QED BY <2>0, <4>1, <4>2, LoggedSame DEF RowsLogged
    <3> QED BY <3>1, <3>2
  <2>2. ASSUME NEW p \in Publishers PROVE LeaseLogged(p)'
    <3>1. claims' = [claims EXCEPT ![q] = NoRow]
      BY <1>3 DEF Blacklist
    <3>2. CASE p = q
      <4>1. claims'[p] = NoRow
        BY <1>0, <3>1, <3>2
      <4> QED BY <4>1, LoggedSame
    <3>3. CASE p # q
      <4>1. claims'[p] = claims[p]
        BY <1>0, <3>1, <3>3
      <4>2. \A m \in LogOf(p) : messages'[m] = messages[m]
        BY <2>0, <3>3 DEF LogOf
      <4> QED BY <4>1, <4>2, LoggedSame DEF RowsLogged
    <3> QED BY <3>2, <3>3
  <2> QED BY <2>1, <2>2 DEF RowsLogged
<1>4. CASE ExpireClaims
  <2>1. /\ UNCHANGED messages
        /\ \A c \in Cids : skips'[c] \in {NoRow, skips[c]}
        /\ \A p \in Publishers : claims'[p] \in {NoRow, claims[p]}
    BY <1>4 DEF ExpireClaims
  <2> QED BY <1>1, <2>1
<1>5. CASE UNCHANGED <<messages, skips, claims>>
  BY <1>1, <1>5
<1>6. CASE \E t \in Threads : \/ \E p \in Publishers : Unblacklist(t, p)
                              \/ \E a \in AliasNames : SetLocalAlias(t, a)
  <2>1. UNCHANGED <<messages, skips, claims>>
    BY <1>6 DEF Unblacklist, SetLocalAlias, denormalized
  <2> QED BY <1>5, <2>1
<1>7. CASE UNCHANGED tables
  <2>1. UNCHANGED <<messages, skips, claims>>
    BY <1>7 DEF tables, denormalized
  <2> QED BY <1>5, <2>1
<1> QED BY <1>2, <1>3, <1>4, <1>6, <1>7, LoggedCommit, TablesRest, TablesRestAlone DEF Next

\* Tables that agree with the log have no row of a foreign publisher without a
\* message of its own.
LEMMA RowsLoggedForm ==
    ASSUME IInv, TablesFollowLog, RowsLogged, NEW p \in Publishers \ {Me}
    PROVE  RowsOf(p)
<1> DEFINE log == LogOf(p)
<1>0. /\ docs \in [Cids -> OfKind("classify") \cup {NoRow}]
      /\ \A m \in OfKind("classify") : classifies[m] = messages[m]
      /\ \A c \in Cids : \A m \in ClassifyRows(classifies, c) : m \in OfKind("classify") /\ classifies[m] # 0
  BY DEF IInv, TypeOK, Consistent, ClassifiesFollowLog, ClassifyRows
<1>1. \A m \in OfKind("classify") : m.publisher = p /\ classifies[m] # 0 => m \in log
  BY <1>0 DEF LogOf, OfKind
<1>2. ASSUME NEW c \in Cids, docs[c] # NoRow, docs[c].publisher = p PROVE docs[c] \in log
  <2>1. docs[c] \in ClassifyRows(classifies, c)
    BY <1>2 DEF IInv, Consistent, DocsFirstSeen
  <2> QED BY <1>0, <1>1, <1>2, <2>1
<1>3. ASSUME NEW c \in Cids, skips[c] # NoRow, skips[c].msg.publisher = p PROVE skips[c].msg \in log
  BY <1>3 DEF RowsLogged, SkipLogged, LogOf, OfKind
<1>4. ASSUME NEW c \in Cids, reports[c][p] # NoRow PROVE \E m \in log : m.kind = "report" /\ m.cid = c
  <2>1. ReportFollows(c, p)
    BY FollowForm
  <2>2. PICK m \in ReportLog(c, p) : TRUE
    BY <1>4, <2>1 DEF ReportFollows
  <2>3. m \in log /\ m.kind = "report" /\ m.cid = c
    BY <2>2 DEF ReportLog, LogOf, OfKind
  <2> QED BY <2>3
<1>5. claims[p] # NoRow =>
        \E m \in log : m.kind = "claim" /\ m.cid = claims[p].cid /\ m.until = claims[p].until
  BY DEF RowsLogged, LeaseLogged
<1>6. ASSUME aliases[p] # NoRow PROVE aliases[p] \in log
  <2>1. AliasFollows(p)
    BY FollowForm
  <2>2. PICK m \in AliasLog(p) : aliases[p] = IF m.alias = "" THEN NoRow ELSE m
    BY <1>6, <2>1 DEF AliasFollows
  <2>3. aliases[p] = m
    BY <1>6, <2>2
  <2> QED BY <2>3 DEF AliasLog, LogOf, OfKind
<1> QED BY <1>1, <1>2, <1>3, <1>4, <1>5, <1>6 DEF RowsOf, LogOf

\* The same after a step.
ForeignRows == \A p \in Publishers \ {Me} : RowsOf(p)
LEMMA ForeignRowsNext ==
    (IInv /\ TablesFollowLog /\ RowsLogged)' => \A p \in Publishers \ {Me} : RowsOf(p)'
<1>1. IInv /\ TablesFollowLog /\ RowsLogged => ForeignRows
  BY RowsLoggedForm DEF ForeignRows
<1>2. (IInv /\ TablesFollowLog /\ RowsLogged)' => ForeignRows'
  BY <1>1, PTL
<1> QED BY <1>2 DEF ForeignRows

\* A message that is new in a thread's hands has just passed is_blacklisted.
LEMMA PassedStep ==
    ASSUME TypeOK, [Next]_vars, NEW p, NEW n \in Passed(Threads, p)', n \notin Passed(Threads, p)
    PROVE  \E t \in Threads : IngestBegin(t, n) /\ n.publisher = p
<1>0. pc \in [Threads -> Busy \cup {Idle}] /\ Idle.stage = "idle"
  BY DEF TypeOK, Idle
<1>1. PICK v \in Threads : pc'[v].stage = "insert" /\ pc'[v].msg = n /\ n.publisher = p
  BY DEF Passed
<1>2. pc'[v] # pc[v]
  BY <1>1 DEF Passed
<1>3. ASSUME NEW t \in Threads, NEW m \in Universe, IngestBegin(t, m)
      PROVE  t = v /\ m = n
  <2>1. pc' = [pc EXCEPT ![t] = [stage |-> "insert", msg |-> m, at |-> clock]]
    BY <1>3 DEF IngestBegin
  <2> QED BY <1>0, <1>1, <1>2, <2>1
<1>4. ASSUME NEW t \in Threads, \/ IngestCommit(t) \/ IngestDuplicate(t) \/ Locked(t)
                                \/ EnqueueReview(t) \/ MaybeEnqueueSecond(t) \/ DropProposal(t)
      PROVE  FALSE
  <2>1. pc[t].stage # "idle" /\ \E stage : stage # "insert" /\ Proceed(t, stage)
    BY <1>4 DEF IngestCommit, IngestDuplicate, Locked, EnqueueReview, MaybeEnqueueSecond,
                DropProposal, NextStage, LastStage
  <2>2. /\ \A u \in Threads : u # t => pc'[u] = pc[u]
        /\ pc'[t] = Idle \/ pc'[t].stage # "insert"
    BY <1>0, <2>1, ProceedEffect
  <2> QED BY <1>0, <1>1, <1>2, <2>2
<1>5. CASE Crash
  <2>1. pc'[v] = Idle
    BY <1>5 DEF Crash
  <2> QED BY <1>0, <1>1, <2>1
<1>6. ASSUME NEW t \in Threads,
             \/ \E c \in Cids, r \in {"wrong", "abusive"} :
                  propose_report(t, c, r) \/ RejectProposal(t, c, r)
             \/ \E q \in Publishers : Blacklist(t, q) \/ Unblacklist(t, q)
             \/ \E a \in AliasNames : SetLocalAlias(t, a)
      PROVE  FALSE
  BY <1>2, <1>6 DEF propose_report, RejectProposal, Blacklist, Unblacklist, SetLocalAlias, Transaction
<1>7. CASE Start \/ Tick \/ ExpireClaims \/ UNCHANGED vars
  BY <1>2, <1>7 DEF Start, Tick, ExpireClaims, Transaction, vars
<1> QED BY <1>1, <1>3, <1>4, <1>5, <1>6, <1>7 DEF Next

\* A message is stored only by a thread that had it in hand.
LEMMA StoredStep ==
    ASSUME IInv, [Next]_vars, NEW n \in Universe, messages[n] = 0, messages'[n] # 0
    PROVE  \E t \in Threads : IngestCommit(t) /\ pc[t].msg = n
<1>1. ASSUME NEW t \in Threads, IngestCommit(t) PROVE pc[t].msg = n
  BY <1>1, Committed
<1>2. CASE Start \/ \E t \in Threads, p \in Publishers : Blacklist(t, p)
  BY <1>2, OnlyDeletes DEF IInv
<1>3. CASE ExpireClaims \/ \E t \in Threads : \/ \E p \in Publishers : Unblacklist(t, p)
                                             \/ \E a \in AliasNames : SetLocalAlias(t, a)
  BY <1>3 DEF ExpireClaims, Unblacklist, SetLocalAlias
<1>4. CASE UNCHANGED tables
  BY <1>4 DEF tables
<1> QED BY <1>1, <1>2, <1>3, <1>4, TablesRest, TablesRestAlone DEF Next

\* Nothing is added to what is left of a publisher that is_blacklisted knows.
LEMMA LeftStep ==
    ASSUME IInv, [Next]_vars, NEW p \in blacklisted
    PROVE  Left(p)' \subseteq Left(p)
<1> SUFFICES ASSUME NEW n \in Left(p)' PROVE n \in Left(p)
  OBVIOUS
<1>1. CASE n \in Passed(Threads, p)'
  <2>1. ASSUME n \notin Passed(Threads, p) PROVE FALSE
    BY <1>1, <2>1, PassedStep DEF IInv, IngestBegin, Accepts
  <2> QED BY <2>1 DEF Left
<1>2. CASE n \in Universe /\ n.publisher = p /\ messages'[n] # 0
  <2>1. CASE messages[n] # 0
    BY <1>2, <2>1 DEF Left
  <2>2. CASE messages[n] = 0
    <3>1. PICK t \in Threads : IngestCommit(t) /\ pc[t].msg = n
      BY <1>2, <2>2, StoredStep
    <3>2. n \in Passed(Threads, p)
      BY <1>2, <3>1 DEF IngestCommit, Passed
    <3> QED BY <3>2 DEF Left
  <2> QED BY <2>1, <2>2
<1> QED BY <1>1, <1>2 DEF Left

\* Blacklisting leaves at most the message in the drain thread's hands: web
\* threads ingest only this node's own.
LEMMA BlacklistLeaves ==
    ASSUME IInv, NEW t \in Threads, NEW p \in Publishers, Blacklist(t, p)
    PROVE  Left(p)' \subseteq Passed({Drain}, p)
<1> SUFFICES ASSUME NEW n \in Left(p)' PROVE n \in Passed({Drain}, p)
  OBVIOUS
<1>1. /\ pc' = pc /\ p # Me
      /\ messages' = [m \in Universe |-> IF m.publisher = p THEN 0 ELSE messages[m]]
  BY DEF Blacklist, Transaction
<1>2. n \in Passed(Threads, p)
  BY <1>1 DEF Left, Passed
<1>3. PICK u \in Threads : pc[u].stage = "insert" /\ pc[u].msg = n /\ n.publisher = p
  BY <1>2 DEF Passed
<1>4. u = Drain
  BY <1>1, <1>3 DEF IInv, ArrivalOrder, Hears
<1> QED BY <1>3, <1>4 DEF Passed

\* What blacklisting took off the page stays off: the label shown for a cid
\* changes only with the blacklisting of its publisher or the purge of a
\* malformed cid; of a blacklisted publisher nothing is left or added but the
\* one message that had passed is_blacklisted, and every row of it comes from
\* what is left.
THEOREM BlacklistRulesHolds == Spec => BlacklistRules
<1> DEFINE Rules == IInv /\ Distinct /\ TablesFollowLog /\ RowsLogged /\ Me \notin blacklisted
           Stable == \A c \in Cids :
             docs[c] # NoRow /\ docs'[c] # docs[c] =>
                 docs[c].publisher \in blacklisted' \/ c \notin ValidCids
           Sticks == \A p \in blacklisted' :
             /\ Left(p)' \subseteq IF p \in blacklisted THEN Left(p) ELSE Passed({Drain}, p)
             /\ RowsOf(p)'
<1>1. Init => Rules
  <2>1. Init => RowsLogged
    BY DEF Init, RowsLogged, SkipLogged, LeaseLogged
  <2> QED BY <2>1, IInvInit, DistinctInit, FollowInit DEF Init
<1>2. Rules /\ [Next]_vars => Rules'
  BY IInvNext, DistinctStep, FollowStep, LoggedStep, MeStaysStep DEF IInv
<1>3. Rules /\ [Next]_vars => [Stable]_vars
  <2> SUFFICES ASSUME Rules, [Next]_vars PROVE Stable
    OBVIOUS
  <2> QED BY FirstSeenStep
<1>4. Rules /\ Rules' /\ [Next]_vars => [Sticks]_vars
  <2> SUFFICES ASSUME Rules, Rules', [Next]_vars, NEW p \in blacklisted'
               PROVE  /\ Left(p)' \subseteq IF p \in blacklisted THEN Left(p) ELSE Passed({Drain}, p)
                      /\ RowsOf(p)'
    OBVIOUS
  <2>1. p \in Publishers \ {Me}
    BY DEF IInv, TypeOK
  <2>2. RowsOf(p)'
    BY <2>1, ForeignRowsNext
  <2>3. CASE p \in blacklisted
    BY <2>2, <2>3, LeftStep
  <2>4. CASE p \notin blacklisted
    <3>1. \E t \in Threads : Blacklist(t, p)
      BY <2>4, BlacklistedStep
    <3> QED BY <2>1, <2>2, <2>4, <3>1, BlacklistLeaves
  <2> QED BY <2>2, <2>3, <2>4
<1> QED BY <1>1, <1>2, <1>3, <1>4, PTL DEF Spec, BlacklistRules, FirstSeenStable, BlacklistSticks

-----------------------------------------------------------------------------
(***************************************************************************)
(* export_snapshot, for every choice of the constants with a finite set of *)
(* messages: what a joiner gets, and what a limit cuts off.                *)
(***************************************************************************)

(***************************************************************************)
(* ORDER BY received_at DESC LIMIT n.                                      *)
(***************************************************************************)
\* Only finitely many messages can reach this node.
FewMessages == IsFiniteSet(Universe)

\* The rows of S that are younger than m.
Younger(S, m) == {k \in S : messages[k] > messages[m]}

\* Rows are messages, and messages can be counted.
LEMMA RowsFinite ==
    ASSUME FewMessages, NEW S \in SUBSET Universe
    PROVE  /\ IsFiniteSet(S) /\ Cardinality(S) \in Nat /\ Cardinality(S) <= Cardinality(Universe)
           /\ \A T \in SUBSET S : IsFiniteSet(T) /\ Cardinality(T) \in Nat /\ Cardinality(T) <= Cardinality(S)
           /\ \A m \in S : Cardinality(S \ {m}) = Cardinality(S) - 1
<1>1. IsFiniteSet(Universe)
  BY DEF FewMessages
<1>2. IsFiniteSet(S) /\ Cardinality(S) <= Cardinality(Universe)
  BY <1>1, FS_Subset
<1>3. Cardinality(S) \in Nat
  BY <1>2, FS_CardinalityType
<1>4. \A T \in SUBSET S : IsFiniteSet(T) /\ Cardinality(T) <= Cardinality(S)
  BY <1>2, FS_Subset
<1>5. \A T \in SUBSET S : Cardinality(T) \in Nat
  BY <1>4, FS_CardinalityType
<1>6. \A m \in S : Cardinality(S \ {m}) = Cardinality(S) - 1
  BY <1>2, FS_RemoveElement
<1> QED BY <1>2, <1>3, <1>4, <1>5, <1>6

\* The answer is part of the rows, and takes with a row everything younger.
LEMMA NewestUpward ==
    ASSUME TypeOK, FewMessages, NEW S \in SUBSET Universe, NEW n \in Int
    PROVE  /\ Newest(S, n) \subseteq S
           /\ \A m \in Newest(S, n), k \in S : messages[k] > messages[m] => k \in Newest(S, n)
<1>1. messages \in [Universe -> Nat]
  BY DEF TypeOK
<1>2. ASSUME NEW m \in Newest(S, n), NEW k \in S, messages[k] > messages[m]
      PROVE  k \in Newest(S, n)
  <2>1. m \in S /\ Cardinality(Younger(S, m)) < n
    BY <1>2 DEF Newest, Younger
  <2>2. Younger(S, k) \subseteq Younger(S, m) /\ Younger(S, m) \subseteq S
    <3>1. \A j \in S : messages[j] \in Nat /\ messages[m] \in Nat /\ messages[k] \in Nat
      BY <1>1, <2>1
    <3> QED BY <1>2, <3>1 DEF Younger
  <2>3. Cardinality(Younger(S, k)) <= Cardinality(Younger(S, m))
    BY <2>2, RowsFinite
  <2>4. Cardinality(Younger(S, k)) \in Nat /\ Cardinality(Younger(S, m)) \in Nat
    BY <2>2, RowsFinite
  <2> QED BY <2>1, <2>3, <2>4 DEF Newest, Younger
<1> QED BY <1>2 DEF Newest

\* A limit of all messages cuts nothing off.
LEMMA NewestWhole ==
    ASSUME TypeOK, FewMessages, NEW S \in SUBSET Universe
    PROVE  Newest(S, Cardinality(Universe)) = S
<1>1. messages \in [Universe -> Nat]
  BY DEF TypeOK
<1>2. ASSUME NEW m \in S PROVE Cardinality(Younger(S, m)) < Cardinality(Universe)
  <2>1. Younger(S, m) \subseteq S \ {m}
    BY <1>1 DEF Younger
  <2>2. Cardinality(Younger(S, m)) <= Cardinality(S \ {m})
    BY <2>1, RowsFinite
  <2>3. Cardinality(S \ {m}) = Cardinality(S) - 1 /\ Cardinality(S) \in Nat
        /\ Cardinality(S) <= Cardinality(Universe) /\ Cardinality(Universe) \in Nat
    BY RowsFinite
  <2>4. Cardinality(Younger(S, m)) \in Nat
    BY <2>1, RowsFinite
  <2> QED BY <2>2, <2>3, <2>4
<1> QED BY <1>2 DEF Newest, Younger

\* Rows with times of their own: the answer has no more rows than the limit, and
\* no fewer when it leaves some out.
LEMMA NewestCount ==
    ASSUME TypeOK, FewMessages, NEW S \in SUBSET Universe, NEW n \in Nat, ArrivalOrder,
           \A k, m \in S : messages[k] = messages[m] => k = m
    PROVE  /\ Cardinality(Newest(S, n)) <= n
           /\ Newest(S, n) # S => Cardinality(Newest(S, n)) = n
<1>1. messages \in [Universe -> Nat] /\ clock \in Nat
  BY DEF TypeOK
<1> DEFINE N == Newest(S, n)
<1>2. N \subseteq S /\ IsFiniteSet(N) /\ Cardinality(N) \in Nat
  BY NewestUpward, RowsFinite
<1>3. Cardinality(N) <= n
  <2>1. CASE N = {}
    BY <2>1, FS_EmptySet
  <2>2. CASE N # {}
    <3> DEFINE ats == {messages[m] : m \in N}
    <3>1. ats \in SUBSET Nat /\ ats # {}
      BY <1>1, <1>2, <2>2
    <3>2. PICK x \in ats : \A y \in ats : x <= y
      BY <3>1, LeastNatural
    <3>3. PICK m \in N : \A k \in N : messages[m] <= messages[k]
      BY <3>2
    <3>4. N \ {m} \subseteq Younger(S, m) /\ Younger(S, m) \subseteq S
      <4>1. \A k \in N \ {m} : messages[k] \in Nat /\ messages[m] \in Nat /\ messages[k] # messages[m]
        BY <1>1, <1>2
      <4> QED BY <1>2, <3>3, <4>1 DEF Younger
    <3>5. Cardinality(Younger(S, m)) < n
      BY DEF Newest, Younger
    <3>6. /\ Younger(S, m) \in SUBSET Universe
          /\ Cardinality(N \ {m}) <= Cardinality(Younger(S, m)) /\ Cardinality(Younger(S, m)) \in Nat
      BY <3>4, RowsFinite
    <3>7. Cardinality(N \ {m}) = Cardinality(N) - 1
      BY <1>2, RowsFinite
    <3> QED BY <1>2, <3>5, <3>6, <3>7
  <2> QED BY <2>1, <2>2
<1>4. ASSUME N # S PROVE Cardinality(N) >= n
  <2>1. PICK m \in S \ N : \A k \in S \ N : messages[k] <= messages[m]
    <3> DEFINE Top == {b \in Nat : \A k \in S \ N : messages[k] <= b}
    <3>1. \E b \in Nat : \A k \in S : messages[k] <= b
      BY <1>1 DEF ArrivalOrder
    <3>2. Top \in SUBSET Nat /\ Top # {}
      BY <3>1
    <3>3. PICK b \in Top : \A y \in Top : b <= y
      BY <3>2, LeastNatural
    <3>4. \E m \in S \ N : messages[m] = b
      <4> SUFFICES ASSUME \A m \in S \ N : messages[m] # b PROVE FALSE
        OBVIOUS
      <4>1. PICK o \in S \ N : TRUE
        BY <1>2, <1>4
      <4>2. messages[o] \in Nat /\ messages[o] <= b /\ messages[o] # b
        BY <1>1, <3>3
      <4>3. b - 1 \in Nat
        BY <3>3, <4>2
      <4>4. b - 1 \in Top
        <5>1. \A k \in S \ N : messages[k] \in Nat /\ messages[k] <= b /\ messages[k] # b
          BY <1>1, <3>3
        <5> QED BY <3>3, <4>3, <5>1
      <4> QED BY <3>3, <4>4
    <3> QED BY <3>3, <3>4
  <2>2. Younger(S, m) \subseteq N
    <3>1. \A k \in S : messages[k] \in Nat
      BY <1>1
    <3> QED BY <2>1, <3>1 DEF Younger
  <2>3. ~(Cardinality(Younger(S, m)) < n)
    BY <2>1 DEF Newest, Younger
  <2>4. Cardinality(Younger(S, m)) <= Cardinality(N) /\ Cardinality(Younger(S, m)) \in Nat
    BY <1>2, <2>2, RowsFinite
  <2> QED BY <1>2, <2>3, <2>4
<1> QED BY <1>2, <1>3, <1>4

-----------------------------------------------------------------------------
(***************************************************************************)
(* The two parts of a snapshot.                                            *)
(***************************************************************************)
\* Documents are messages, and so are skips; no skip is a document.
LEMMA PartsOfUniverse ==
    /\ SnapshotDocs \subseteq Universe /\ SnapshotSkips \subseteq Universe
    /\ \A m \in SnapshotDocs : m.kind # "skip" /\ messages[m] # 0
    /\ \A m \in SnapshotSkips : m.kind = "skip"
BY DEF SnapshotDocs, SnapshotSkips, Stored, OfKind

\* What a joiner makes of the reports of one publisher about one cid, when the
\* file has one of them and everything younger.
LEMMA JoinerReportRight ==
    ASSUME IInv, Distinct, TablesFollowLog, NEW c \in Cids, NEW p \in Publishers \ {Me}, NEW S,
           \A m \in S : m.kind = "report" /\ m.cid = c /\ m.publisher = p => m \in ReportLog(c, p),
           \A m \in S, k \in ReportLog(c, p) :
              m.kind = "report" /\ m.cid = c /\ m.publisher = p /\ messages[k] > messages[m] => k \in S,
           ReportLog(c, p) # {} => ReportLog(c, p) \cap S # {}
    PROVE  JoinerReport(S, c, p) = reports[c][p]
<1> DEFINE log == {m \in S : m.kind = "report" /\ m.cid = c /\ m.publisher = p}
           last == CHOOSE m \in log : \A n \in log : messages[n] <= messages[m]
<1>0. JoinerReport(S, c, p) = IF log = {} \/ last.reason = "clear" THEN NoRow ELSE last.reason
  BY DEF JoinerReport
<1>1. log \subseteq ReportLog(c, p) /\ ReportFollows(c, p)
  BY FollowForm
<1>2. CASE ReportLog(c, p) = {}
  <2>1. log = {} /\ reports[c][p] = NoRow
    BY <1>1, <1>2 DEF ReportFollows
  <2> QED BY <1>0, <2>1
<1>3. CASE ReportLog(c, p) # {}
  <2>1. PICK top \in ReportLog(c, p) :
           /\ \A n \in ReportLog(c, p) : messages[n] <= messages[top]
           /\ reports[c][p] = IF top.reason = "clear" THEN NoRow ELSE top.reason
    BY <1>1, <1>3 DEF ReportFollows
  <2>2. \A n \in ReportLog(c, p) : messages[n] \in Nat /\ (messages[n] = messages[top] => n = top)
    <3> SUFFICES ASSUME NEW n \in ReportLog(c, p)
                 PROVE  messages[n] \in Nat /\ (messages[n] = messages[top] => n = top)
      OBVIOUS
    <3>1. /\ n \in Universe /\ top \in Universe /\ messages[n] # 0 /\ n.kind = "report"
          /\ messages \in [Universe -> Nat]
      BY DEF ReportLog, OfKind, IInv, TypeOK
    <3>2. n \notin Legacy
      BY <3>1, CatalogAssumption DEF OfKind
    <3> QED BY <3>1, <3>2 DEF Distinct
  <2>3. PICK m \in ReportLog(c, p) \cap S : TRUE
    BY <1>3
  <2>4. top \in S
    <3>1. CASE m = top
      BY <2>3, <3>1
    <3>2. CASE m # top
      <4>1. messages[top] > messages[m]
        BY <2>1, <2>2, <2>3, <3>2
      <4>2. m.kind = "report" /\ m.cid = c /\ m.publisher = p
        BY <2>3 DEF ReportLog, OfKind
      <4> QED BY <2>3, <4>1, <4>2
    <3> QED BY <3>1, <3>2
  <2>5. top \in log
    BY <2>4 DEF ReportLog, OfKind
  <2>6. \A n \in log : messages[n] <= messages[top]
    BY <1>1, <2>1
  <2>7. last \in log /\ \A n \in log : messages[n] <= messages[last]
    BY <2>5, <2>6, Zenon
  <2>8. messages[last] = messages[top]
    BY <1>1, <2>2, <2>5, <2>6, <2>7
  <2>9. last = top
    BY <1>1, <2>2, <2>7, <2>8
  <2> HIDE DEF last
  <2> QED BY <1>0, <2>1, <2>5, <2>9
<1> QED BY <1>2, <1>3

\* Every state's tables: consistent, in order, following the log, and with
\* times of their own.
SnapshotInv == IInv /\ Distinct /\ TablesFollowLog

\* It holds throughout.
LEMMA SnapshotInvHolds == Spec => []SnapshotInv
<1>1. Init => SnapshotInv
  BY IInvInit, DistinctInit, FollowInit DEF SnapshotInv
<1>2. SnapshotInv /\ [Next]_vars => SnapshotInv'
  BY IInvNext, DistinctStep, FollowStep DEF SnapshotInv
<1> QED BY <1>1, <1>2, PTL DEF Spec

\* A file without a limit carries all documents, and skips.
LEMMA WholeFile ==
    ASSUME TypeOK, FewMessages, NEW S, S = export_snapshot(Cardinality(Universe))
    PROVE  SnapshotDocs \subseteq S /\ \A m \in S : m \in SnapshotDocs \/ m.kind = "skip"
<1> DEFINE rest == Cardinality(Universe) - Cardinality(SnapshotDocs)
<1>1. Newest(SnapshotDocs, Cardinality(Universe)) = SnapshotDocs
  BY PartsOfUniverse, NewestWhole
<1>2. S = SnapshotDocs \cup Newest(SnapshotSkips, rest)
  BY <1>1 DEF export_snapshot
<1>3. Newest(SnapshotSkips, rest) \subseteq SnapshotSkips
  BY DEF Newest
<1> QED BY <1>2, <1>3, PartsOfUniverse

\* The search row a joiner builds is the one the server shows.
LEMMA JoinerDocRight ==
    ASSUME SnapshotInv, NEW c \in Cids, NEW S,
           SnapshotDocs \subseteq S, \A m \in S : m \in SnapshotDocs \/ m.kind = "skip"
    PROVE  JoinerDoc(S, c) = docs[c]
<1> DEFINE rows == {m \in S : m.kind = "classify" /\ m.cid = c}
           first == CHOOSE m \in rows : \A n \in rows : messages[m] <= messages[n]
<1>0. JoinerDoc(S, c) = IF rows = {} THEN NoRow ELSE first
  BY DEF JoinerDoc
<1>1. IInv /\ Distinct /\ classifies \in [OfKind("classify") -> Nat]
  BY DEF SnapshotInv, IInv, TypeOK
<1>2. \A m \in OfKind("classify") : classifies[m] = messages[m]
  BY <1>1 DEF IInv, Consistent, ClassifiesFollowLog
<1>3. rows = ClassifyRows(classifies, c)
  BY <1>2 DEF ClassifyRows, SnapshotDocs, Stored, OfKind
<1>4. IF rows = {} THEN docs[c] = NoRow
      ELSE docs[c] \in rows /\ \A n \in rows : classifies[docs[c]] <= classifies[n]
  BY <1>1, <1>3 DEF IInv, Consistent, DocsFirstSeen
<1>5. CASE rows = {}
  BY <1>0, <1>4, <1>5
<1>6. CASE rows # {}
  <2>1. \A n \in rows : n \in OfKind("classify") /\ messages[n] = classifies[n] /\ classifies[n] \in Nat
    BY <1>1, <1>2, <1>3 DEF ClassifyRows
  <2>2. docs[c] \in rows /\ \A n \in rows : messages[docs[c]] <= messages[n]
    BY <1>4, <1>6, <2>1
  <2>3. first \in rows /\ \A n \in rows : messages[first] <= messages[n]
    BY <2>2, Zenon
  <2>4. messages[first] = messages[docs[c]]
    BY <2>1, <2>2, <2>3
  <2>5. first = docs[c]
    BY <1>1, <1>3, <2>1, <2>2, <2>3, <2>4, OldestUnique
  <2> HIDE DEF first
  <2> QED BY <1>0, <1>6, <2>5
<1> QED BY <1>5, <1>6

\* The foreign aliases of the file are the rows of table aliases.
LEMMA JoinerAliasRight ==
    ASSUME SnapshotInv, NEW p \in Publishers \ {Me}, NEW S,
           SnapshotDocs \subseteq S, \A m \in S : m \in SnapshotDocs \/ m.kind = "skip"
    PROVE  {m \in S : m.kind = "alias" /\ m.publisher = p} = {aliases[p]} \ {NoRow}
<1>1. AliasFollows(p) /\ NoRow \notin Universe
  BY FollowForm, NoRowAssumption DEF SnapshotInv
<1>2. aliases[p] = NoRow \/ aliases[p] \in AliasLog(p)
  BY <1>1 DEF AliasFollows
<1>3. {m \in S : m.kind = "alias" /\ m.publisher = p}
        = {m \in AliasLog(p) : aliases[p] = m}
  BY DEF SnapshotDocs, Stored, OfKind, AliasLog
<1>4. AliasLog(p) \subseteq Universe
  BY DEF AliasLog, OfKind
<1> QED BY <1>1, <1>2, <1>3, <1>4

\* docs/PROTOCOL.md, "Snapshot": a late joiner that pulls a whole snapshot shows
\* the same search rows, foreign reports and foreign aliases as its server.
THEOREM JoinerAgreesHolds == ASSUME FewMessages PROVE Spec => []JoinerAgrees
<1>1. SnapshotInv => JoinerAgrees
  <2> SUFFICES ASSUME SnapshotInv PROVE JoinerAgrees
    OBVIOUS
  <2> DEFINE S == export_snapshot(Cardinality(Universe))
  <2>1. IInv /\ Distinct /\ TablesFollowLog /\ TypeOK
    BY DEF SnapshotInv, IInv
  <2>2. SnapshotDocs \subseteq S /\ \A m \in S : m \in SnapshotDocs \/ m.kind = "skip"
    BY <2>1, WholeFile
  <2> HIDE DEF S
  <2>3. \A c \in Cids : JoinerDoc(S, c) = docs[c]
    BY <2>2, JoinerDocRight
  <2>4. ASSUME NEW c \in Cids, NEW p \in Publishers \ {Me}
        PROVE  JoinerReport(S, c, p) = reports[c][p]
    <3>1. \A m \in S : m.kind = "report" /\ m.cid = c /\ m.publisher = p => m \in ReportLog(c, p)
      BY <2>2 DEF SnapshotDocs, Stored, OfKind, ReportLog
    <3>2. ReportLog(c, p) \subseteq S
      BY <2>2 DEF SnapshotDocs, Stored, OfKind, ReportLog
    <3> QED BY <2>1, <3>1, <3>2, JoinerReportRight
  <2>5. \A p \in Publishers \ {Me} :
           {m \in S : m.kind = "alias" /\ m.publisher = p} = {aliases[p]} \ {NoRow}
    BY <2>2, JoinerAliasRight
  <2> QED BY <2>3, <2>4, <2>5 DEF JoinerAgrees, S
<1> QED BY <1>1, SnapshotInvHolds, PTL

\* However tight the limit, a report in the file comes with everything its
\* publisher said about the cid later, so that a withdrawn one is not revived.
LEMMA TruncationSafeAlways ==
    ASSUME FewMessages, SnapshotInv PROVE TruncationSafe
<1> SUFFICES ASSUME NEW limit \in 0 .. Cardinality(Stored(Universe)),
                    NEW m \in export_snapshot(limit), m.kind = "report", m.publisher # Me
             PROVE  JoinerReport(export_snapshot(limit), m.cid, m.publisher) = reports[m.cid][m.publisher]
  BY DEF TruncationSafe
<1> DEFINE S == export_snapshot(limit)
           part == Newest(SnapshotDocs, limit)
           c == m.cid
           p == m.publisher
<1>0. IInv /\ Distinct /\ TablesFollowLog /\ TypeOK
  BY DEF SnapshotInv, IInv
<1>1. /\ part \subseteq SnapshotDocs
      /\ \A j \in part, k \in SnapshotDocs : messages[k] > messages[j] => k \in part
  BY <1>0, PartsOfUniverse, NewestUpward
<1>2. /\ part \subseteq S
      /\ \A k \in S : k.kind # "skip" => k \in part
  <2>1. S = part \cup Newest(SnapshotSkips, limit - Cardinality(part))
    BY DEF export_snapshot
  <2>2. Newest(SnapshotSkips, limit - Cardinality(part)) \subseteq SnapshotSkips
    BY DEF Newest
  <2> QED BY <2>1, <2>2, PartsOfUniverse
<1> HIDE DEF S, part
<1>3. m \in part /\ m \in Universe
  BY <1>1, <1>2, PartsOfUniverse DEF S
<1>4. c \in Cids /\ p \in Publishers \ {Me}
  BY <1>3, MessageFields
<1>5. ReportLog(c, p) \subseteq SnapshotDocs
  BY DEF ReportLog, SnapshotDocs, Stored, OfKind
<1>6. \A k \in S : k.kind = "report" /\ k.cid = c /\ k.publisher = p => k \in ReportLog(c, p)
  BY <1>1, <1>2 DEF ReportLog, SnapshotDocs, Stored, OfKind
<1>7. \A j \in S, k \in ReportLog(c, p) :
         j.kind = "report" /\ j.cid = c /\ j.publisher = p /\ messages[k] > messages[j] => k \in S
  BY <1>1, <1>2, <1>5
<1>8. ReportLog(c, p) \cap S # {}
  BY <1>2, <1>3, <1>6
<1>9. JoinerReport(S, c, p) = reports[c][p]
  BY <1>0, <1>4, <1>6, <1>7, <1>8, JoinerReportRight
<1> QED BY <1>9 DEF S

\* At most one row is older than the rule that each message has its own time.
OneLegacy == \A m, n \in Legacy : m = n

\* store.py: "If the cap is tight, classifies / aliases / reports win over
\* out-of-scope skips", and the file keeps to its limit.
LEMMA DocumentsWinAlways ==
    ASSUME FewMessages, OneLegacy, SnapshotInv PROVE DocumentsWin
<1> SUFFICES ASSUME NEW limit \in 0 .. Cardinality(Stored(Universe))
             PROVE  /\ Cardinality(export_snapshot(limit)) <= limit
                    /\ export_snapshot(limit) \cap OfKind("skip") # {} => SnapshotDocs \subseteq export_snapshot(limit)
  BY DEF DocumentsWin
<1> DEFINE part == Newest(SnapshotDocs, limit)
           rest == Newest(SnapshotSkips, limit - Cardinality(part))
<1>0. TypeOK /\ ArrivalOrder /\ Distinct /\ limit \in Nat
  BY DEF SnapshotInv, IInv
<1>1. \A k, m \in Universe : messages[k] # 0 /\ messages[k] = messages[m] => k = m
  BY <1>0 DEF Distinct, OneLegacy
<1>2. /\ \A k, m \in SnapshotDocs : messages[k] = messages[m] => k = m
      /\ \A k, m \in SnapshotSkips : messages[k] = messages[m] => k = m
  <2>1. \A m \in SnapshotSkips : messages[m] # 0
    BY DEF SnapshotSkips, Stored
  <2> QED BY <1>1, <2>1, PartsOfUniverse
<1>3. /\ Cardinality(part) <= limit
      /\ part # SnapshotDocs => Cardinality(part) = limit
      /\ part \subseteq SnapshotDocs
  BY <1>0, <1>2, PartsOfUniverse, NewestCount, NewestUpward
<1>4. IsFiniteSet(part) /\ Cardinality(part) \in Nat
  BY <1>3, PartsOfUniverse, RowsFinite
<1>5. limit - Cardinality(part) \in Nat
  BY <1>0, <1>3, <1>4
<1>6. Cardinality(rest) <= limit - Cardinality(part) /\ rest \subseteq SnapshotSkips
  BY <1>0, <1>2, <1>5, PartsOfUniverse, NewestCount, NewestUpward
<1>7. IsFiniteSet(rest) /\ Cardinality(rest) \in Nat
  BY <1>6, PartsOfUniverse, RowsFinite
<1>8. export_snapshot(limit) = part \cup rest
  BY DEF export_snapshot
<1> HIDE DEF part, rest
<1>9. Cardinality(part \cup rest) <= limit
  <2>1. /\ Cardinality(part \cup rest) = Cardinality(part) + Cardinality(rest) - Cardinality(part \cap rest)
        /\ IsFiniteSet(part \cap rest)
    BY <1>4, <1>7, FS_Union, FS_Intersection
  <2>2. Cardinality(part \cap rest) \in Nat
    BY <2>1, FS_CardinalityType
  <2> QED BY <1>0, <1>4, <1>6, <1>7, <2>1, <2>2
<1>10. ASSUME export_snapshot(limit) \cap OfKind("skip") # {} PROVE SnapshotDocs \subseteq export_snapshot(limit)
  <2>1. PICK m \in rest : TRUE
    BY <1>3, <1>8, <1>10, PartsOfUniverse DEF OfKind
  <2>2. Cardinality(rest) # 0
    BY <1>7, <2>1, FS_EmptySet
  <2>3. Cardinality(part) # limit
    BY <1>0, <1>4, <1>6, <1>7, <2>2
  <2> QED BY <1>3, <1>8, <2>3
<1> QED BY <1>8, <1>9, <1>10

\* What a snapshot cut at any limit may leave out, and what it may not distort:
\* in a catalog that is not older than the times of its rows.
THEOREM CutSafelyHolds == ASSUME FewMessages, OneLegacy PROVE Spec => []CutSafely
<1>1. SnapshotInv => CutSafely
  BY TruncationSafeAlways, DocumentsWinAlways DEF CutSafely
<1> QED BY <1>1, SnapshotInvHolds, PTL
=============================================================================
