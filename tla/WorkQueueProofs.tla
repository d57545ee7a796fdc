-------------------------- MODULE WorkQueueProofs --------------------------
(***************************************************************************)
(* Proofs about WorkQueue, for every choice of its constants: any number   *)
(* of CIDs, peers and workers, any limits, any sequence of WANTs, reviews  *)
(* and crashes.                                                            *)
(***************************************************************************)
EXTENDS WorkQueue, TLAPS, FiniteSetTheorems, SequenceTheorems

-----------------------------------------------------------------------------
(***************************************************************************)
(* Facts about the operations.                                             *)
(***************************************************************************)
\* The retry budget allows at least one attempt.
LEMMA CapPositive == AttemptCap \in Nat /\ AttemptCap >= 1 /\ SlowMax \in Nat
BY LimitsAssumption DEF AttemptCap, SlowMax, GenericMax

\* A column of a row may be set to any value of its domain.
LEMMA RowEdits ==
    ASSUME NEW r \in Row
    PROVE  /\ \A v \in Statuses : [r EXCEPT !.status = v] \in Row
           /\ \A v \in Sources : [r EXCEPT !.source = v] \in Row
           /\ \A v \in Nat \ {0} : [r EXCEPT !.peers = v] \in Row
           /\ \A v \in 0 .. AttemptCap : [r EXCEPT !.attempts = v] \in Row
           /\ \A v \in Names : [r EXCEPT !.name = v] \in Row
           /\ \A v \in Errors : [r EXCEPT !.error = v] \in Row
BY DEF Row

\* enqueue_review and COALESCE(filename, ?) keep the schema of the row.
LEMMA ReviewedType ==
    ASSUME NEW r \in Row
    PROVE  Reviewed(r) \in Row /\ Named(r) \in Row
<1>1. (IF r.peers > 1 THEN r.peers ELSE 1) \in Nat \ {0}
      /\ (IF r.name = "none" THEN "pdf" ELSE r.name) \in Names
      /\ "report" \in Sources /\ "discovered" \in Statuses /\ "none" \in Errors
      /\ 0 \in 0 .. AttemptCap
  BY CapPositive DEF Row, Names, Sources, Statuses, Errors
<1> QED BY <1>1, RowEdits, Zenon DEF Reviewed, Named

\* Skips that are queued again keep the schema.
LEMMA RequeuedType ==
    ASSUME NEW r \in Row
    PROVE  [r EXCEPT !.status = "discovered", !.attempts = 0, !.error = "none"] \in Row
<1>1. "discovered" \in Statuses /\ 0 \in 0 .. AttemptCap /\ "none" \in Errors
  BY CapPositive DEF Statuses, Errors
<1> QED BY <1>1, RowEdits, Zenon

\* What prune does to the row of a CID: it deletes it, leaves it, or queues an
\* expired skip again.
PrunedRow(c) ==
    \/ cids'[c] = NoRow
    \/ cids'[c] = cids[c]
    \/ /\ cids[c] \in Row /\ cids[c].status = "skipped"
       /\ cids'[c] = [cids[c] EXCEPT !.status = "discovered", !.attempts = 0, !.error = "none"]

\* The tables once the deletes are done and the skips are back.
LEMMA RequeuedRows ==
    ASSUME TypeOK, NEW deleted, NEW due \in SUBSET ExpiringSkips, NEW gone,
           Requeued(deleted, due, gone)
    PROVE  /\ cids' \in [Cids -> Row \cup {NoRow}]
           /\ cid_peers' \in [Cids -> SUBSET Peers]
           /\ \A c \in Cids : /\ PrunedRow(c)
                              /\ cids'[c] # NoRow => cid_peers'[c] = cid_peers[c]
<1>1. \A c \in due : c \in Cids /\ cids[c] \in Row /\ cids[c].status = "skipped"
  BY DEF ExpiringSkips, WithStatus, Rows, TypeOK
<1> DEFINE all == AllOf(deleted)
           again(r) == [r EXCEPT !.status = "discovered", !.attempts = 0, !.error = "none"]
<1>2. /\ cids' = [c \in Cids |-> IF c \in all \cup gone THEN NoRow
                                 ELSE IF c \in due THEN again(cids[c]) ELSE cids[c]]
      /\ cid_peers' = Without(cid_peers, all \ deleted[2], {})
  BY Zenon DEF Requeued
<1>3. \A r \in Row : again(r) \in Row
  BY RequeuedType, Zenon
<1>4. \A c \in Cids : PrunedRow(c) <=> \/ cids'[c] = NoRow \/ cids'[c] = cids[c]
                                       \/ /\ cids[c] \in Row /\ cids[c].status = "skipped"
                                          /\ cids'[c] = again(cids[c])
  BY Zenon DEF PrunedRow
<1> HIDE DEF all, again
<1>5. cids' \in [Cids -> Row \cup {NoRow}] /\ \A c \in Cids : PrunedRow(c)
  BY <1>1, <1>2, <1>3, <1>4 DEF TypeOK
<1>6. /\ cid_peers' \in [Cids -> SUBSET Peers]
      /\ \A c \in Cids : cids'[c] # NoRow => cid_peers'[c] = cid_peers[c]
  BY <1>2 DEF TypeOK, Without
<1> QED BY <1>5, <1>6

\* A whole prune takes the peers of no row that stays.
LEMMA PruneRows ==
    ASSUME TypeOK, PruneQueue(FALSE)
    PROVE  /\ cids' \in [Cids -> Row \cup {NoRow}]
           /\ cid_peers' \in [Cids -> SUBSET Peers]
           /\ \A c \in Cids : /\ PrunedRow(c)
                              /\ cids'[c] # NoRow => cid_peers'[c] = cid_peers[c]
<1>1. PICK deleted, due : due \subseteq ExpiringSkips /\ Pruned(deleted, due)
  BY Zenon DEF PruneQueue
<1> QED BY <1>1, RequeuedRows DEF Pruned

\* A prune that is cut off may leave a row whose peers are gone.
LEMMA PrunePartRows ==
    ASSUME TypeOK, PruneQueue(TRUE)
    PROVE  /\ cids' \in [Cids -> Row \cup {NoRow}]
           /\ cid_peers' \in [Cids -> SUBSET Peers]
           /\ \A c \in Cids : PrunedRow(c) /\ cid_peers'[c] \in {cid_peers[c], {}}
<1>1. PICK deleted, due : due \subseteq ExpiringSkips /\ PrunedInPart(deleted, due)
  BY Zenon DEF PruneQueue
<1>2. CASE \E gone : Requeued(deleted, due, gone)
  <2>1. PICK gone : Requeued(deleted, due, gone)
    BY <1>2
  <2>2. \A c \in Cids : cid_peers'[c] \in {cid_peers[c], {}}
    <3> DEFINE taken == AllOf(deleted) \ deleted[2]
    <3>1. cid_peers' = Without(cid_peers, taken, {})
      BY <2>1, Zenon DEF Requeued
    <3> HIDE DEF taken
    <3> QED BY <3>1 DEF Without
  <2> QED BY <1>1, <2>1, <2>2, RequeuedRows
<1>3. CASE \E S, T : cids' = Without(cids, S, NoRow) /\ cid_peers' = Without(cid_peers, T, {})
  <2>1. PICK S, T : cids' = Without(cids, S, NoRow) /\ cid_peers' = Without(cid_peers, T, {})
    BY <1>3
  <2> QED BY <2>1 DEF Without, TypeOK, PrunedRow
<1>4. \/ \E gone : Requeued(deleted, due, gone)
      \/ \E S, T : cids' = Without(cids, S, NoRow) /\ cid_peers' = Without(cid_peers, T, {})
  BY <1>1, Zenon DEF PrunedInPart
<1> QED BY <1>2, <1>3, <1>4

\* What recording one WANT can do to the tables.
LEMMA RecordRows ==
    ASSUME TypeOK, NEW c \in Cids, NEW p \in Peers, _record(c, p)
    PROVE  /\ cids' \in [Cids -> Row \cup {NoRow}]
           /\ cid_peers' \in [Cids -> SUBSET Peers]
           /\ evicted' \in [Cids -> Nat \cup {NoRow}]
           /\ \A d \in Cids \ {c} : /\ cids'[d] = cids[d]
                                    /\ cid_peers'[d] = cid_peers[d]
                                    /\ evicted'[d] = evicted[d]
           /\ c \notin unprocessable /\ unprocessable' = unprocessable
           /\ \/ cids[c] = NoRow /\ cids'[c] = NoRow
              \/ /\ cids'[c] = cids[c] /\ evicted'[c] = evicted[c] /\ evicted[c] # NoRow
                 /\ Cardinality(cid_peers'[c]) <= evicted[c]
              \/ /\ cids[c] # NoRow
                 /\ cids'[c] = [cids[c] EXCEPT !.peers = Cardinality(cid_peers'[c])]
                 /\ evicted'[c] = NoRow
              \/ /\ cids[c] = NoRow /\ evicted'[c] = NoRow
                 /\ cids'[c] = [status |-> "discovered", source |-> "sniff",
                                peers |-> Cardinality(cid_peers'[c]),
                                attempts |-> 0, name |-> "none", error |-> "none"]
<1> DEFINE n == Cardinality(cid_peers'[c])
<1>1. cid_peers' \in [Cids -> SUBSET Peers] /\ cid_peers'[c] = cid_peers[c] \cup {p}
  BY DEF _record, TypeOK
<1>2. IsFiniteSet(cid_peers'[c]) /\ cid_peers'[c] # {}
  BY <1>1, DataAssumption, FS_Subset
<1>3. n \in Nat \ {0}
  BY <1>2, FS_CardinalityType, FS_EmptySet
<1>4. \A r \in Row : [r EXCEPT !.peers = n] \in Row
  BY <1>3 DEF Row
<1>5. [status |-> "discovered", source |-> "sniff", peers |-> n, attempts |-> 0,
       name |-> "none", error |-> "none"] \in Row
  BY <1>3, CapPositive DEF Row, Statuses, Sources, Names, Errors
<1> HIDE DEF n
<1>6. CASE EvictionHolds(c)
  <2>1. /\ UNCHANGED <<cids, evicted>> /\ c \notin unprocessable /\ unprocessable' = unprocessable
        /\ cid_peers' = [cid_peers EXCEPT ![c] = @ \cup {p}]
    BY <1>6 DEF _record
  <2>2. IsFiniteSet(cid_peers[c]) /\ Cardinality(cid_peers[c]) \in Nat
    BY DataAssumption, FS_Subset, FS_CardinalityType DEF TypeOK
  <2>3. n <= Cardinality(cid_peers[c]) + 1
    <3>1. \/ Cardinality(cid_peers[c] \cup {p}) = Cardinality(cid_peers[c])
          \/ Cardinality(cid_peers[c] \cup {p}) = Cardinality(cid_peers[c]) + 1
      BY <2>2, FS_AddElement
    <3> QED BY <1>1, <2>2, <3>1 DEF n
  <2>4. evicted[c] \in Nat /\ Cardinality(cid_peers[c]) + 1 <= evicted[c] /\ evicted[c] # NoRow
    BY <1>6 DEF EvictionHolds, TypeOK
  <2>5. n <= evicted[c]
    BY <1>3, <2>2, <2>3, <2>4
  <2> QED BY <1>1, <2>1, <2>4, <2>5 DEF TypeOK, n
<1>7. CASE ~EvictionHolds(c) /\ cids[c] # NoRow
  <2>1. cids' = [cids EXCEPT ![c].peers = n] /\ evicted' = [evicted EXCEPT ![c] = NoRow]
        /\ cid_peers' = [cid_peers EXCEPT ![c] = @ \cup {p}]
        /\ c \notin unprocessable /\ unprocessable' = unprocessable
    BY <1>7 DEF _record, n
  <2>2. cids[c] \in Row
    BY <1>7 DEF TypeOK
  <2> QED BY <1>1, <1>4, <1>7, <2>1, <2>2 DEF TypeOK, n
<1>8. CASE ~EvictionHolds(c) /\ cids[c] = NoRow /\ Admits(c, n)
  <2>1. cids' = Insert(c, "sniff", n, "none") /\ evicted' = [evicted EXCEPT ![c] = NoRow]
        /\ cid_peers' = [cid_peers EXCEPT ![c] = @ \cup {p}]
        /\ c \notin unprocessable /\ unprocessable' = unprocessable
    BY <1>8 DEF _record, n
  <2> QED BY <1>1, <1>5, <1>8, <2>1 DEF TypeOK, n, Insert
<1>9. CASE ~EvictionHolds(c) /\ cids[c] = NoRow /\ ~Admits(c, n)
  <2>1. cids' = cids /\ evicted' = [evicted EXCEPT ![c] = NoRow]
        /\ cid_peers' = [cid_peers EXCEPT ![c] = @ \cup {p}]
        /\ c \notin unprocessable /\ unprocessable' = unprocessable
    BY <1>9 DEF _record, n
  <2> QED BY <1>1, <1>9, <2>1 DEF TypeOK
<1> QED BY <1>6, <1>7, <1>8, <1>9

\* A crash: at rest, or in the middle of the function a thread is in.
Crashing ==
    \/ Crash \/ CrashPruning \/ CrashEvicting
    \/ \E w \in Workers : CrashForgetting(w) \/ CrashRemembering(w) \/ CrashDropping(w)

\* What a crash can leave of a CID: rows may be gone, peers may be gone from under
\* a row that stays, and the count of such a row may be in the evicted table.
CutRow(c) ==
    /\ PrunedRow(c)
    /\ cid_peers'[c] \in {cid_peers[c], {}}
    /\ cids'[c] # NoRow => evicted'[c] \in {evicted[c], cids[c].peers}

CutTables ==
    /\ cids' \in [Cids -> Row \cup {NoRow}]
    /\ cid_peers' \in [Cids -> SUBSET Peers]
    /\ evicted' \in [Cids -> Nat \cup {NoRow}]
    /\ unprocessable' \subseteq Cids
    /\ \A c \in Cids : CutRow(c)

\* forget_cid in part, with the counts of some rows in the evicted table.
LEMMA ForgottenRows ==
    ASSUME TypeOK, NEW S, ForgottenInPart(S)
    PROVE  /\ cids' \in [Cids -> Row \cup {NoRow}]
           /\ cid_peers' \in [Cids -> SUBSET Peers]
           /\ \A c \in Cids : /\ cids'[c] \in {NoRow, cids[c]}
                              /\ cid_peers'[c] \in {cid_peers[c], {}}
<1>1. PICK gone, taken : cids' = Without(cids, gone, NoRow) /\ cid_peers' = Without(cid_peers, taken, {})
  BY Zenon DEF ForgottenInPart
<1> QED BY <1>1 DEF Without, TypeOK

LEMMA CrashTables ==
    ASSUME TypeOK, Crashing
    PROVE  Stop /\ CutTables
<1>0. \A c \in Cids : cids[c] # NoRow => cids[c].peers \in Nat
  BY DEF TypeOK, Row
<1>1. CASE Crash
  BY <1>1 DEF Crash, db, TypeOK, CutTables, CutRow, PrunedRow
<1>2. CASE CrashPruning
  <2>1. Stop /\ PruneQueue(TRUE) /\ UNCHANGED <<evicted, unprocessable>>
    BY <1>2 DEF CrashPruning
  <2> QED BY <2>1, PrunePartRows DEF CutTables, CutRow, TypeOK
<1>3. CASE CrashEvicting
  <2>1. PICK gone \in Limit(Rows, Batch) : \E done \in SUBSET gone : \E next \in AtMostOne(gone \ done) :
          /\ evicted' = [c \in Cids |-> IF c \in done \cup next THEN cids[c].peers ELSE evicted[c]]
          /\ cids' = Without(cids, done, NoRow)
          /\ \E half \in {{}, next} : cid_peers' = Without(cid_peers, done \cup half, {})
    BY <1>3 DEF CrashEvicting
  <2>2. PICK done \in SUBSET gone : \E next \in AtMostOne(gone \ done) :
          /\ evicted' = [c \in Cids |-> IF c \in done \cup next THEN cids[c].peers ELSE evicted[c]]
          /\ cids' = Without(cids, done, NoRow)
          /\ \E half \in {{}, next} : cid_peers' = Without(cid_peers, done \cup half, {})
    BY <2>1
  <2>3. PICK next \in AtMostOne(gone \ done) :
          /\ evicted' = [c \in Cids |-> IF c \in done \cup next THEN cids[c].peers ELSE evicted[c]]
          /\ cids' = Without(cids, done, NoRow)
          /\ \E half \in {{}, next} : cid_peers' = Without(cid_peers, done \cup half, {})
    BY <2>2
  <2>4. PICK half : cid_peers' = Without(cid_peers, done \cup half, {})
    BY <2>3
  <2>5. done \cup next \subseteq Rows
    BY DEF Limit, kSubset, AtMostOne
  <2>6. Stop /\ unprocessable' = unprocessable
    BY <1>3 DEF CrashEvicting
  <2>7. evicted' \in [Cids -> Nat \cup {NoRow}]
    BY <1>0, <2>3, <2>5 DEF TypeOK, Rows
  <2>8. \A c \in Cids : evicted'[c] \in {evicted[c], cids[c].peers}
    BY <2>3
  <2>9. /\ cids' \in [Cids -> Row \cup {NoRow}] /\ cid_peers' \in [Cids -> SUBSET Peers]
        /\ \A c \in Cids : cids'[c] \in {NoRow, cids[c]} /\ cid_peers'[c] \in {cid_peers[c], {}}
    BY <2>3, <2>4 DEF Without, TypeOK
  <2> QED BY <2>6, <2>7, <2>8, <2>9 DEF CutTables, CutRow, PrunedRow, TypeOK
<1>4. ASSUME NEW w \in Workers, CrashForgetting(w) PROVE Stop /\ CutTables
  <2>1. PICK S : ForgottenInPart(S)
    BY <1>4, Zenon DEF CrashForgetting
  <2>2. Stop /\ UNCHANGED <<evicted, unprocessable>>
    BY <1>4 DEF CrashForgetting
  <2> QED BY <2>1, <2>2, ForgottenRows DEF CutTables, CutRow, PrunedRow, TypeOK
<1>5. ASSUME NEW w \in Workers, CrashRemembering(w) \/ CrashDropping(w) PROVE Stop /\ CutTables
  <2>1. Stop /\ ForgottenInPart({hand[w]})
    BY <1>5 DEF CrashRemembering, CrashDropping
  <2>2. hand[w] \in Cids
    BY <1>5 DEF CrashRemembering, CrashDropping, At, TypeOK
  <2>3. unprocessable' \subseteq Cids
    BY <1>5, <2>2 DEF CrashRemembering, CrashDropping, TypeOK
  <2>4. PeerCount(hand[w]) \in Nat /\ (cids[hand[w]] # NoRow => PeerCount(hand[w]) = cids[hand[w]].peers)
    BY <1>0, <2>2 DEF PeerCount
  <2>5. evicted' = evicted \/ evicted' = [evicted EXCEPT ![hand[w]] = PeerCount(hand[w])]
    BY <1>5 DEF CrashRemembering, CrashDropping
  <2>6. evicted' \in [Cids -> Nat \cup {NoRow}]
    BY <2>2, <2>4, <2>5 DEF TypeOK
  <2>7. \A c \in Cids : cids[c] # NoRow => evicted'[c] \in {evicted[c], cids[c].peers}
    BY <2>2, <2>4, <2>5 DEF TypeOK
  <2> QED BY <2>1, <2>3, <2>6, <2>7, ForgottenRows DEF CutTables, CutRow, PrunedRow
<1> QED BY <1>1, <1>2, <1>3, <1>4, <1>5 DEF Crashing

-----------------------------------------------------------------------------
(***************************************************************************)
(* Type correctness.                                                       *)
(***************************************************************************)
LEMMA TypeInit == Init => TypeOK
BY CapPositive, LimitsAssumption DEF Init, TypeOK

\* A worker that is done has empty hands, and the tables are what it wrote.
LEMMA TypeIdle ==
    ASSUME TypeOK, NEW w \in Workers, Idle(w),
           cids' \in [Cids -> Row \cup {NoRow}],
           cid_peers' \in [Cids -> SUBSET Peers],
           evicted' \in [Cids -> Nat \cup {NoRow}],
           unprocessable' \subseteq Cids,
           UNCHANGED <<janitor, phase, budget>>
    PROVE  TypeOK'
BY CapPositive DEF TypeOK, Idle, budget

\* The one UPDATE that ends process_one keeps the schema.
LEMMA TypeFinish ==
    ASSUME TypeOK, NEW w \in Workers, hand[w] # NoRow, NEW row, Finish(w, row),
           cids[hand[w]] # NoRow => row \in Row
    PROVE  TypeOK'
<1>1. cids' \in [Cids -> Row \cup {NoRow}]
  BY DEF TypeOK, Finish, Update
<1> QED BY <1>1, TypeIdle DEF Finish, TypeOK

\* forget_cid for a set of CIDs keeps the schema.
LEMMA WithoutType ==
    ASSUME NEW T, NEW gone, NEW e \in T, NEW f \in [Cids -> T]
    PROVE  Without(f, gone, e) \in [Cids -> T]
BY DEF Without

LEMMA InsertType ==
    ASSUME TypeOK, NEW c \in Cids, NEW s \in Sources, NEW n \in Names
    PROVE  Insert(c, s, 1, n) \in [Cids -> Row \cup {NoRow}]
BY CapPositive DEF TypeOK, Insert, Row, Statuses, Errors

\* Every outcome of process_one that is an UPDATE of the row in hand.
LEMMA TypeOutcome ==
    ASSUME TypeOK, NEW w \in Workers, hand[w] # NoRow,
           \/ HookSkipped(w) \/ HookIndexed(w) \/ HookClaimed(w)
           \/ MarkSkipped(w) \/ MarkIndexed(w) \/ RetryLater(w) \/ WorkerError(w)
    PROVE  TypeOK'
<1> DEFINE r == cids[hand[w]]
<1>1. r # NoRow => r \in Row
  BY DEF TypeOK
<1>2. tries[w] \in 0 .. AttemptCap
  BY CapPositive DEF TypeOK
<1>3. {"discovered", "indexed", "skipped"} \subseteq Statuses
      /\ {"none", "publish_failed", "scope", "local"} \subseteq Errors
      /\ SkipErrors \subseteq Errors /\ FetchNames \subseteq Names
  BY DataAssumption DEF Statuses, Errors
<1> HIDE DEF r
<1>4. CASE HookSkipped(w)
  <2>1. PICK e \in (SkipErrors \ {"scope_pdf"}) \cup {"none"} :
           Finish(w, [r EXCEPT !.status = "skipped", !.error = e])
    BY <1>4 DEF HookSkipped, r
  <2>2. r # NoRow => [r EXCEPT !.status = "skipped", !.error = e] \in Row
    BY <1>1, <1>3, RowEdits, Zenon
  <2> QED BY <2>1, <2>2, TypeFinish DEF r
<1>5. CASE HookIndexed(w) \/ MarkIndexed(w)
  <2>1. PICK n \in FetchNames :
           Finish(w, [r EXCEPT !.status = "indexed", !.name = n, !.error = "none"])
    BY <1>5 DEF HookIndexed, MarkIndexed, r
  <2>2. r # NoRow => [r EXCEPT !.status = "indexed", !.name = n, !.error = "none"] \in Row
    BY <1>1, <1>3, RowEdits, Zenon
  <2> QED BY <2>1, <2>2, TypeFinish DEF r
<1>6. CASE HookClaimed(w)
  <2>1. r # NoRow => [r EXCEPT !.status = "discovered"] \in Row
    BY <1>1, <1>3, RowEdits, Zenon
  <2> QED BY <1>6, <2>1, TypeFinish DEF HookClaimed, r
<1>7. CASE MarkSkipped(w)
  <2>1. PICK e \in SkipErrors, n \in FetchNames :
           Finish(w, [r EXCEPT !.status = "skipped", !.name = n, !.error = e])
    BY <1>7 DEF MarkSkipped, r
  <2>2. r # NoRow => [r EXCEPT !.status = "skipped", !.name = n, !.error = e] \in Row
    BY <1>1, <1>3, RowEdits, Zenon
  <2> QED BY <2>1, <2>2, TypeFinish DEF r
<1>8. CASE RetryLater(w)
  <2>1. PICK e \in {"publish_failed", "none"}, n \in FetchNames :
           Finish(w, [r EXCEPT !.status = "discovered", !.name = n,
                               !.error = e, !.attempts = tries[w]])
    BY <1>8 DEF RetryLater, r
  <2>2. r # NoRow => [r EXCEPT !.status = "discovered", !.name = n,
                               !.error = e, !.attempts = tries[w]] \in Row
    BY <1>1, <1>2, <1>3, RowEdits, Zenon
  <2> QED BY <2>1, <2>2, TypeFinish DEF r
<1>9. CASE WorkerError(w)
  <2>1. r # NoRow => [r EXCEPT !.status = "discovered", !.error = "none",
                               !.attempts = tries[w]] \in Row
    BY <1>1, <1>2, <1>3, RowEdits, Zenon
  <2> QED BY <1>9, <2>1, TypeFinish DEF WorkerError, r
<1> QED BY <1>4, <1>5, <1>6, <1>7, <1>8, <1>9

\* The names a directory lists, and what is left of them after one.
LEMMA LinksType ==
    ASSUME TypeOK, NEW w \in Workers
    PROVE  /\ hand[w] # NoRow =>
                SubSeq(Links[hand[w]], 1, Least(MaxDirDocs, Len(Links[hand[w]]))) \in Seq(Cids)
           /\ links[w] # <<>> => Head(links[w]) \in Cids /\ Tail(links[w]) \in Seq(Cids)
<1>1. links[w] # <<>> => Head(links[w]) \in Cids /\ Tail(links[w]) \in Seq(Cids)
  BY HeadTailProperties DEF TypeOK
<1>2. ASSUME hand[w] # NoRow
      PROVE  SubSeq(Links[hand[w]], 1, Least(MaxDirDocs, Len(Links[hand[w]]))) \in Seq(Cids)
  <2> DEFINE s == Links[hand[w]]
             n == Least(MaxDirDocs, Len(s))
  <2>1. s \in Seq(Cids)
    BY <1>2, DataAssumption DEF TypeOK
  <2>2. n \in Int /\ n <= Len(s)
    BY <2>1, LimitsAssumption DEF Least
  <2>3. \A i \in 1 .. n : s[i] \in Cids
    BY <2>1, <2>2
  <2> HIDE DEF s, n
  <2>4. SubSeq(s, 1, n) \in Seq(Cids)
    BY <2>2, <2>3, SubSeqProperties
  <2> QED BY <2>4 DEF s, n
<1> QED BY <1>1, <1>2

\* The steps of a worker that has fetched a directory.
LEMMA TypeDirectory ==
    ASSUME TypeOK, NEW w \in Workers, hand[w] # NoRow,
           FetchedDirectory(w) \/ EnqueueChild(w) \/ DropDirectory(w)
    PROVE  TypeOK'
<1>1. CASE FetchedDirectory(w)
  <2> DEFINE picked == Picked(hand[w])
  <2>1. picked \in Seq(Cids)
    BY LinksType DEF Picked
  <2>2. cids' \in [Cids -> Row \cup {NoRow}] /\ cid_peers' \in [Cids -> SUBSET Peers]
    <3>1. Without(cids, NamedNonPdf, NoRow) \in [Cids -> Row \cup {NoRow}]
      BY WithoutType DEF TypeOK
    <3>2. Without(cid_peers, NamedNonPdf, {}) \in [Cids -> SUBSET Peers]
      BY WithoutType DEF TypeOK
    <3> QED BY <1>1, <3>1, <3>2 DEF FetchedDirectory, TypeOK
  <2>3. \/ stage' = [stage EXCEPT ![w] = "drop"] /\ links' = links /\ links[w] = <<>>
        \/ /\ stage' = [stage EXCEPT ![w] = "listing"]
           /\ links' = [links EXCEPT ![w] = picked] /\ picked # <<>>
    BY <1>1 DEF FetchedDirectory, At, TypeOK
  <2>4. UNCHANGED <<evicted, unprocessable, hand, tries, janitor, phase, budget>>
    BY <1>1 DEF FetchedDirectory
  <2> HIDE DEF picked
  <2> QED BY <2>1, <2>2, <2>3, <2>4 DEF TypeOK, budget
<1>2. CASE EnqueueChild(w)
  <2> DEFINE c == Head(links[w])
  <2>1. stage[w] = "listing" /\ links[w] # <<>>
    BY <1>2 DEF EnqueueChild, TypeOK
  <2>2. c \in Cids /\ Tail(links[w]) \in Seq(Cids)
    BY <2>1, LinksType
  <2>3. PICK rest : Listed(w, rest) /\ rest \in {<<>>, Tail(links[w])}
    BY <1>2 DEF EnqueueChild
  <2>4. cids' \in [Cids -> Row \cup {NoRow}] /\ cid_peers' \in [Cids -> SUBSET Peers]
    <3>1. \A gone : Without(Insert(c, "named", 1, "pdf"), gone, NoRow) \in [Cids -> Row \cup {NoRow}]
      BY <2>2, InsertType, WithoutType DEF Sources, Names
    <3>2. \A gone : Without(cid_peers, gone, {}) \in [Cids -> SUBSET Peers]
      BY WithoutType DEF TypeOK
    <3>3. cids[c] # NoRow => Named(cids[c]) \in Row
      BY <2>2, ReviewedType DEF TypeOK
    <3>4. \/ UNCHANGED <<cids, cid_peers>>
          \/ /\ cids[c] # NoRow
             /\ cids' = [cids EXCEPT ![c] = Named(@)]
             /\ UNCHANGED cid_peers
          \/ \E gone : /\ cids' = Without(Insert(c, "named", 1, "pdf"), gone, NoRow)
                       /\ cid_peers' = Without(cid_peers, gone, {})
      BY <1>2, Zenon DEF EnqueueChild
    <3>5. CASE UNCHANGED <<cids, cid_peers>>
      BY <3>5 DEF TypeOK
    <3>6. CASE cids[c] # NoRow /\ cids' = [cids EXCEPT ![c] = Named(@)] /\ UNCHANGED cid_peers
      BY <2>2, <3>3, <3>6 DEF TypeOK
    <3>7. ASSUME NEW gone, cids' = Without(Insert(c, "named", 1, "pdf"), gone, NoRow),
                 cid_peers' = Without(cid_peers, gone, {})
          PROVE  cids' \in [Cids -> Row \cup {NoRow}] /\ cid_peers' \in [Cids -> SUBSET Peers]
      BY <3>1, <3>2, <3>7, Zenon
    <3> QED BY <3>4, <3>5, <3>6, <3>7, Zenon
  <2>5. UNCHANGED <<evicted, unprocessable, hand, tries, janitor, phase, budget>>
    BY <1>2 DEF EnqueueChild
  <2>6. rest \in Seq(Cids)
    <3>1. <<>> \in Seq(Cids)
      OBVIOUS
    <3>2. rest = <<>> \/ rest = Tail(links[w])
      BY <2>3
    <3> QED BY <2>2, <3>1, <3>2, Zenon
  <2>7. /\ links' = [links EXCEPT ![w] = rest]
        /\ \/ rest = <<>> /\ stage' = [stage EXCEPT ![w] = "drop"]
           \/ rest # <<>> /\ stage' = [stage EXCEPT ![w] = "listing"]
    BY <2>3 DEF Listed
  <2> QED BY <2>1, <2>4, <2>5, <2>6, <2>7 DEF TypeOK, budget
<1>3. CASE DropDirectory(w)
  <2>1. cids' \in [Cids -> Row \cup {NoRow}] /\ cid_peers' \in [Cids -> SUBSET Peers]
    BY <1>3 DEF DropDirectory, TypeOK
  <2>2. PeerCount(hand[w]) \in Nat
    BY DEF PeerCount, TypeOK, Row
  <2>3. evicted' \in [Cids -> Nat \cup {NoRow}]
    BY <1>3, <2>2 DEF DropDirectory, TypeOK
  <2> QED BY <1>3, <2>1, <2>3, TypeIdle DEF DropDirectory, TypeOK
<1> QED BY <1>1, <1>2, <1>3

\* A picked row is discovered and within the retry budget.
LEMMA PicksSelectable ==
    ASSUME NEW ready, NEW c \in Picks(ready)
    PROVE  c \in Discovered /\ cids[c].attempts < AttemptCap
BY DEF Picks, LanePick, NextPdf, NextHtml, First, HtmlRows, Probes, Selectable

LEMMA TypeNext == TypeOK /\ [Next]_vars => TypeOK'
<1> SUFFICES ASSUME TypeOK, [Next]_vars PROVE TypeOK'
  OBVIOUS
<1>1. ASSUME NEW c \in Cids, NEW p \in Peers, Want(c, p) PROVE TypeOK'
  <2>1. _record(c, p) /\ UNCHANGED <<worker, janitor, phase, reviews, crashes>>
        /\ wants' \in 0 .. MaxWants
    BY <1>1, LimitsAssumption DEF Want, TypeOK
  <2> QED BY <2>1, RecordRows DEF TypeOK, worker
<1>2. ASSUME NEW c \in Cids, EnqueueReview(c) PROVE TypeOK'
  <2>1. Insert(c, "report", 1, "none") \in [Cids -> Row \cup {NoRow}]
    BY InsertType DEF Sources, Names
  <2>2. cids[c] # NoRow => Reviewed(cids[c]) \in Row
    BY ReviewedType DEF TypeOK
  <2>3. cids' \in [Cids -> Row \cup {NoRow}]
    BY <1>2, <2>1, <2>2 DEF EnqueueReview, TypeOK
  <2> QED BY <1>2, <2>3, LimitsAssumption DEF EnqueueReview, TypeOK, worker
<1>3. ASSUME NEW w \in Workers, TakeBatch(w) PROVE TypeOK'
  <2>0. PICK ready : \E c \in Picks(ready) :
          /\ cids' = [cids EXCEPT ![c].status = "processing"]
          /\ hand' = [hand EXCEPT ![w] = c]
          /\ tries' = [tries EXCEPT ![w] = cids[c].attempts]
    BY <1>3 DEF TakeBatch
  <2>1. PICK c \in Picks(ready) :
          /\ cids' = [cids EXCEPT ![c].status = "processing"]
          /\ hand' = [hand EXCEPT ![w] = c]
          /\ tries' = [tries EXCEPT ![w] = cids[c].attempts]
    BY <2>0
  <2>2. c \in Cids /\ cids[c] \in Row /\ cids[c].attempts < AttemptCap
    BY PicksSelectable DEF Discovered, WithStatus, Rows, TypeOK
  <2>3. [cids[c] EXCEPT !.status = "processing"] \in Row
    BY <2>2, RowEdits DEF Statuses
  <2>4. cids' \in [Cids -> Row \cup {NoRow}] /\ cids[c].attempts \in 0 .. (AttemptCap - 1)
    BY <2>1, <2>2, <2>3, CapPositive DEF TypeOK, Row
  <2>5. stage[w] = "idle" /\ stage' = [stage EXCEPT ![w] = "hook"]
        /\ UNCHANGED <<cid_peers, evicted, unprocessable, links, janitor, phase, budget>>
    BY <1>3 DEF TakeBatch
  <2> QED BY <2>1, <2>2, <2>4, <2>5, DataAssumption DEF TypeOK, budget
<1>4. ASSUME NEW w \in Workers, WorkerStep(w), ~TakeBatch(w) PROVE TypeOK'
  <2>0. stage[w] # "idle" /\ hand[w] # NoRow /\ hand[w] \in Cids
    BY <1>4 DEF WorkerStep, HookSkipped, HookIndexed, HookClaimed, BumpAttempts,
             FetchFailed, MarkSkipped, RememberBinary, MarkIndexed, RetryLater,
             WorkerError, FetchedDirectory, EnqueueChild, DropDirectory, At, TypeOK
  <2>1. CASE BumpAttempts(w)
    <3>1. tries[w] + 1 \in 0 .. AttemptCap
      BY CapPositive DEF TypeOK
    <3>2. cids[hand[w]] # NoRow => [cids[hand[w]] EXCEPT !.attempts = tries[w] + 1] \in Row
      BY <2>0, <3>1, RowEdits DEF TypeOK
    <3>3. cids' \in [Cids -> Row \cup {NoRow}]
      BY <2>1, <3>2 DEF BumpAttempts, Update, TypeOK
    <3> QED BY <2>0, <2>1, <3>3 DEF BumpAttempts, At, TypeOK, budget
  <2>2. CASE FetchFailed(w)
    <3>1. cids[hand[w]] # NoRow =>
            [cids[hand[w]] EXCEPT !.status = "discovered", !.error = "none"] \in Row
      <4>1. "discovered" \in Statuses /\ "none" \in Errors
        BY DEF Statuses, Errors
      <4>2. cids[hand[w]] # NoRow => cids[hand[w]] \in Row
        BY <2>0 DEF TypeOK
      <4> QED BY <4>1, <4>2, RowEdits, Zenon
    <3>2. \/ cids' = [cids EXCEPT ![hand[w]] = NoRow]
          \/ cids' = Update(hand[w], [cids[hand[w]] EXCEPT !.status = "discovered",
                                                           !.error = "none"])
      BY <2>2 DEF FetchFailed
    <3>3. cids' \in [Cids -> Row \cup {NoRow}]
      BY <3>1, <3>2 DEF TypeOK, Update
    <3>4. cid_peers' \in [Cids -> SUBSET Peers]
      BY <2>2 DEF FetchFailed, TypeOK
    <3> QED BY <2>2, <3>3, <3>4, TypeIdle DEF FetchFailed, TypeOK
  <2>3. CASE RememberBinary(w)
    <3>1. /\ cids' \in [Cids -> Row \cup {NoRow}]
          /\ cid_peers' \in [Cids -> SUBSET Peers]
          /\ unprocessable' \subseteq Cids
      BY <2>0, <2>3 DEF RememberBinary, TypeOK
    <3> QED BY <2>3, <3>1, TypeIdle DEF RememberBinary, TypeOK
  <2> QED BY <1>4, <2>0, <2>1, <2>2, <2>3, TypeOutcome, TypeDirectory DEF WorkerStep
<1>5. CASE Prune \/ StartupPrune
  <2>1. PruneQueue(FALSE) /\ UNCHANGED <<evicted, unprocessable, worker, budget>>
        /\ janitor' \in {"idle", "over", "evict"} /\ phase' \in {"down", "released", "requeued", "up"}
    BY <1>5 DEF Prune, StartupPrune, Starting, TypeOK
  <2> QED BY <2>1, PruneRows DEF TypeOK, worker, budget
<1>6. CASE TrimEvicted
  <2>1. PICK gone : evicted' = Without(evicted, gone, NoRow)
    BY <1>6 DEF TrimEvicted
  <2>2. evicted' \in [Cids -> Nat \cup {NoRow}]
    BY <2>1, WithoutType DEF TypeOK
  <2> QED BY <1>6, <2>2 DEF TrimEvicted, TypeOK, worker, budget
<1>7. CASE EvictBatch
  <2>1. PICK gone \in Limit(Rows, Batch) :
          /\ evicted' = [c \in Cids |-> IF c \in gone THEN cids[c].peers ELSE evicted[c]]
          /\ cids' = Without(cids, gone, NoRow)
          /\ cid_peers' = Without(cid_peers, gone, {})
    BY <1>7 DEF EvictBatch
  <2>2. gone \subseteq Rows
    BY <2>1 DEF Limit, kSubset
  <2>3. evicted' \in [Cids -> Nat \cup {NoRow}]
    BY <2>1, <2>2 DEF TypeOK, Rows, Row
  <2>4. cids' \in [Cids -> Row \cup {NoRow}] /\ cid_peers' \in [Cids -> SUBSET Peers]
    BY <2>1, WithoutType DEF TypeOK
  <2> QED BY <1>7, <2>3, <2>4 DEF EvictBatch, TypeOK, worker, budget
<1>8. CASE Crashing
  <2>1. Stop /\ CutTables
    BY <1>8, CrashTables
  <2> QED BY <2>1, CapPositive, LimitsAssumption DEF CutTables, Stop, TypeOK
<1>9. CASE ReleaseOrphans
  <2>1. \A r \in Row : [r EXCEPT !.status = "discovered"] \in Row
    BY RowEdits DEF Statuses
  <2>2. cids' \in [Cids -> Row \cup {NoRow}]
    BY <1>9, <2>1 DEF ReleaseOrphans, Processing, WithStatus, Rows, TypeOK
  <2> QED BY <1>9, <2>2 DEF ReleaseOrphans, Starting, TypeOK, worker, budget
<1>10. CASE RequeueUnpublished
  <2>1. \A r \in Row : /\ [r EXCEPT !.status = "discovered", !.attempts = 0,
                                    !.error = "none"] \in Row
                       /\ [r EXCEPT !.status = "discovered", !.attempts = 0] \in Row
    <3>1. "discovered" \in Statuses /\ 0 \in 0 .. AttemptCap /\ "none" \in Errors
      BY CapPositive DEF Statuses, Errors
    <3> QED BY <3>1, RowEdits, Zenon
  <2>2. cids' \in [Cids -> Row \cup {NoRow}]
    <3>1. PICK published : cids' = [c \in Cids |->
                     IF c \in Unpublished(published)
                     THEN [cids[c] EXCEPT !.status = "discovered", !.attempts = 0,
                                          !.error = "none"]
                     ELSE IF c \in Rows /\ cids[c].error = "publish_failed"
                     THEN [cids[c] EXCEPT !.status = "discovered", !.attempts = 0]
                     ELSE cids[c]]
      BY <1>10 DEF RequeueUnpublished
    <3>2. Unpublished(published) \subseteq Rows /\ \A c \in Rows : cids[c] \in Row
      BY DEF Unpublished, Rows, TypeOK
    <3>3. ASSUME NEW c \in Cids PROVE cids'[c] \in Row \cup {NoRow}
      BY <2>1, <3>1, <3>2 DEF TypeOK
    <3> QED BY <3>1, <3>3
  <2> QED BY <1>10, <2>2 DEF RequeueUnpublished, Starting, TypeOK, worker, budget
<1>11. CASE UNCHANGED vars
  BY <1>11 DEF TypeOK, vars, db, worker, budget
<1> QED BY <1>1, <1>2, <1>3, <1>4, <1>5, <1>6, <1>7, <1>8, <1>9, <1>10, <1>11 DEF Next, Crashing

\* Rows, workers and counters keep their types, and no row is ever charged more
\* attempts than the retry budget, in every reachable state of the queue.
THEOREM WorkQueueTypeCorrect == Spec => []TypeOK
<1>1. Init => TypeOK
  BY TypeInit
<1>2. TypeOK /\ [Next]_vars => TypeOK'
  BY TypeNext
<1> QED BY <1>1, <1>2, PTL DEF Spec

-----------------------------------------------------------------------------
(***************************************************************************)
(* The invariants of the rows.  Follows says how a step may change a row   *)
(* and what is recorded of its CID; Quiet, how it may change a row that is *)
(* being processed.  Every step is of the first kind, and every step but   *)
(* take_batch of the second.                                               *)
(***************************************************************************)
\* The count of a sniffed row covers its recorded peers; and the count it was
\* evicted with, if a crash has cut the eviction off, so that _record, which adds
\* a peer and leaves the row alone when an eviction holds, cannot overtake it.
PeersKept ==
    \A c \in Rows : cids[c].source = "sniff" =>
        /\ Cardinality(cid_peers[c]) <= cids[c].peers
        /\ evicted[c] # NoRow => evicted[c] <= cids[c].peers
        /\ crashes = 0 => evicted[c] = NoRow /\ Cardinality(cid_peers[c]) = cids[c].peers

\* take_batch keeps the sniffed folders in processing within the budget.
ProbeRowsBounded == Cardinality(Probes(Processing)) <= MaxDirProbes

QueueInv == TypeOK /\ NoOrphan /\ ProbeRowsBounded /\ PeersKept

Follows(c) ==
    \/ cids'[c] = NoRow
    \/ /\ cids[c] # NoRow
       /\ cids'[c].source = cids[c].source /\ cids'[c].peers = cids[c].peers
       /\ cid_peers'[c] = cid_peers[c]
       /\ evicted'[c] \in {evicted[c], NoRow}
       /\ c \in unprocessable' => c \in unprocessable
    \/ /\ cids[c] # NoRow
       /\ cids'[c].source = cids[c].source /\ cids'[c].peers = cids[c].peers
       /\ cid_peers'[c] \in {cid_peers[c], {}}
       /\ evicted'[c] \in {evicted[c], cids[c].peers}
       /\ phase' = "down" /\ crashes' # 0
    \/ cids'[c].source = "report"
    \/ cids'[c].source = "named" /\ c \notin unprocessable'
    \/ /\ c \notin unprocessable' /\ evicted'[c] = NoRow
       /\ cids'[c].peers = Cardinality(cid_peers'[c])
    \/ /\ c \notin unprocessable' /\ evicted[c] # NoRow
       /\ evicted'[c] = evicted[c] /\ Cardinality(cid_peers'[c]) <= evicted[c]
       /\ cids[c] # NoRow /\ cids'[c] = cids[c]

Quiet(c) ==
    cids'[c] # NoRow /\ cids'[c].status = "processing" =>
       /\ cids[c] # NoRow /\ cids[c].status = "processing"
       /\ cids'[c].source = cids[c].source
       /\ cids'[c].name \in {cids[c].name, "pdf"}
       /\ phase' # "down" => phase # "down"
       /\ phase' # "down" => \A v \in Workers : hand[v] = c => hand'[v] = c

Steady == \A c \in Cids : Follows(c) /\ Quiet(c)

LEMMA FollowsKeeps ==
    ASSUME QueueInv, TypeOK', crashes' = 0 => crashes = 0, \A c \in Cids : Follows(c)
    PROVE  PeersKept'
<1> SUFFICES ASSUME NEW c \in Cids, cids'[c] # NoRow, cids'[c].source = "sniff"
             PROVE  /\ Cardinality(cid_peers'[c]) <= cids'[c].peers
                    /\ evicted'[c] # NoRow => evicted'[c] <= cids'[c].peers
                    /\ crashes' = 0 => /\ evicted'[c] = NoRow
                                       /\ Cardinality(cid_peers'[c]) = cids'[c].peers
  BY DEF PeersKept, Rows
<1>1. cids'[c].peers \in Nat
  BY DEF TypeOK, Row
<1>2. Cardinality(cid_peers'[c]) \in Nat
  BY DataAssumption, FS_Subset, FS_CardinalityType DEF TypeOK
<1>3. cids[c] # NoRow /\ cids[c].source = "sniff" =>
        /\ Cardinality(cid_peers[c]) <= cids[c].peers
        /\ evicted[c] # NoRow => evicted[c] <= cids[c].peers
        /\ crashes = 0 => evicted[c] = NoRow /\ Cardinality(cid_peers[c]) = cids[c].peers
  BY DEF QueueInv, PeersKept, Rows
<1>4. Cardinality({}) = 0
  BY FS_EmptySet
<1>5. evicted[c] # NoRow => evicted[c] \in Nat
  BY DEF QueueInv, TypeOK
<1> DEFINE same == /\ cids[c] # NoRow
                   /\ cids'[c].source = cids[c].source /\ cids'[c].peers = cids[c].peers
<1>6. \/ same /\ cid_peers'[c] = cid_peers[c] /\ evicted'[c] \in {evicted[c], NoRow}
      \/ /\ same /\ cid_peers'[c] \in {cid_peers[c], {}}
         /\ evicted'[c] \in {evicted[c], cids[c].peers} /\ crashes' # 0
      \/ evicted'[c] = NoRow /\ cids'[c].peers = Cardinality(cid_peers'[c])
      \/ /\ evicted[c] # NoRow /\ evicted'[c] = evicted[c] /\ cids[c] # NoRow
         /\ Cardinality(cid_peers'[c]) <= evicted[c] /\ cids'[c] = cids[c]
  <2>1. Follows(c)
    OBVIOUS
  <2> QED BY <2>1 DEF Follows
<1>7. CASE same /\ cid_peers'[c] = cid_peers[c] /\ evicted'[c] \in {evicted[c], NoRow}
  BY <1>3, <1>7
<1>8. CASE /\ same /\ cid_peers'[c] \in {cid_peers[c], {}}
           /\ evicted'[c] \in {evicted[c], cids[c].peers} /\ crashes' # 0
  <2>1. Cardinality(cid_peers'[c]) <= cids'[c].peers
    BY <1>1, <1>3, <1>4, <1>8
  <2>2. evicted'[c] # NoRow => evicted'[c] <= cids'[c].peers
    BY <1>1, <1>3, <1>5, <1>8
  <2> QED BY <1>8, <2>1, <2>2
<1>9. CASE evicted'[c] = NoRow /\ cids'[c].peers = Cardinality(cid_peers'[c])
  BY <1>1, <1>9
<1>10. CASE /\ evicted[c] # NoRow /\ evicted'[c] = evicted[c] /\ cids[c] # NoRow
            /\ Cardinality(cid_peers'[c]) <= evicted[c] /\ cids'[c] = cids[c]
  BY <1>1, <1>2, <1>3, <1>5, <1>10
<1> QED BY <1>6, <1>7, <1>8, <1>9, <1>10

\* What Follows says of a known binary.
StaysOut(c) ==
    cids'[c] # NoRow /\ c \in unprocessable' =>
       \/ cids'[c].source = "report"
       \/ cids[c] # NoRow /\ (c \in unprocessable \/ phase' = "down")

LEMMA FollowsStaysOut ==
    ASSUME NEW c \in Cids, Follows(c)
    PROVE  StaysOut(c)
BY DEF Follows, StaysOut

\* A quiet step takes no row for a worker and turns no row into a probe.
LEMMA QuietKeeps ==
    ASSUME QueueInv, \A c \in Cids : Quiet(c)
    PROVE  NoOrphan' /\ ProbeRowsBounded'
<1>1. NoOrphan'
  <2> SUFFICES ASSUME phase' # "down", NEW c \in Processing'
               PROVE  \E w \in Workers : hand'[w] = c
    BY DEF NoOrphan
  <2>1. c \in Cids /\ cids'[c] # NoRow /\ cids'[c].status = "processing"
    BY DEF Processing, WithStatus, Rows
  <2>2. c \in Processing /\ phase # "down" /\ \A v \in Workers : hand[v] = c => hand'[v] = c
    BY <2>1 DEF Quiet, Processing, WithStatus, Rows
  <2> QED BY <2>2 DEF QueueInv, NoOrphan
<1>2. Probes(Processing)' \subseteq Probes(Processing)
  BY DEF Quiet, Probes, Probe, KeepSrc, IsPdf, Processing, WithStatus, Rows
<1>3. IsFiniteSet(Probes(Processing))
  BY DataAssumption, FS_Subset DEF Probes, Processing, WithStatus, Rows
<1>4. Cardinality(Probes(Processing)') <= Cardinality(Probes(Processing))
      /\ Cardinality(Probes(Processing)') \in Nat /\ Cardinality(Probes(Processing)) \in Nat
  BY <1>2, <1>3, FS_Subset, FS_CardinalityType
<1>5. ProbeRowsBounded'
  BY <1>4, LimitsAssumption DEF QueueInv, ProbeRowsBounded
<1> QED BY <1>1, <1>5

LEMMA SteadyKeeps ==
    ASSUME QueueInv, TypeOK', crashes' = 0 => crashes = 0, Steady
    PROVE  QueueInv'
BY FollowsKeeps, QuietKeeps DEF Steady, QueueInv

\* The UPDATE that ends process_one leaves no trace of the worker on the row.
LEMMA FinishSteady ==
    ASSUME TypeOK, NEW w \in Workers, hand[w] # NoRow, NEW row, Finish(w, row),
           cids[hand[w]] # NoRow => /\ row.source = cids[hand[w]].source
                                    /\ row.peers = cids[hand[w]].peers
                                    /\ row.status # "processing"
    PROVE  Steady
<1> SUFFICES ASSUME NEW c \in Cids PROVE Follows(c) /\ Quiet(c)
  BY DEF Steady
<1>1. UNCHANGED <<cid_peers, evicted, unprocessable, phase>>
      /\ hand' = [hand EXCEPT ![w] = NoRow]
  BY DEF Finish, Idle
<1>2. cids'[c] = IF c = hand[w] /\ cids[c] # NoRow THEN row ELSE cids[c]
  BY DEF Finish, Update, TypeOK
<1>3. Follows(c)
  BY <1>1, <1>2 DEF Follows
<1>4. \A v \in Workers : v # w => hand'[v] = hand[v]
  BY <1>1 DEF TypeOK
<1>5. Quiet(c)
  BY <1>1, <1>2, <1>4 DEF Quiet
<1> QED BY <1>3, <1>5

\* Deleting rows together with their peers, and nothing else.
LEMMA ForgetSteady ==
    ASSUME TypeOK, NEW gone,
           cids' = Without(cids, gone, NoRow), cid_peers' = Without(cid_peers, gone, {}),
           \A c \in Cids : evicted'[c] \in {evicted[c], NoRow} \/ c \in gone,
           \A c \in Cids : c \in unprocessable' => c \in unprocessable \/ c \in gone,
           phase' = phase,
           \A c \in Cids \ gone : \A v \in Workers : hand[v] = c => hand'[v] = c
    PROVE  Steady
<1> SUFFICES ASSUME NEW c \in Cids PROVE Follows(c) /\ Quiet(c)
  BY DEF Steady
<1>1. CASE c \in gone
  BY <1>1 DEF Without, Follows, Quiet
<1>2. CASE c \notin gone
  BY <1>2 DEF Without, Follows, Quiet
<1> QED BY <1>1, <1>2

LEMMA OutcomeSteady ==
    ASSUME TypeOK, NEW w \in Workers, hand[w] # NoRow,
           \/ HookSkipped(w) \/ HookIndexed(w) \/ HookClaimed(w)
           \/ MarkSkipped(w) \/ MarkIndexed(w) \/ RetryLater(w) \/ WorkerError(w)
    PROVE  Steady
<1> DEFINE r == cids[hand[w]]
<1>1. r # NoRow => r \in Row
  BY DEF TypeOK
<1> HIDE DEF r
<1>2. CASE HookSkipped(w)
  <2>1. PICK e : Finish(w, [r EXCEPT !.status = "skipped", !.error = e])
    BY <1>2 DEF HookSkipped, r
  <2> QED BY <1>1, <2>1, FinishSteady DEF Row, r
<1>3. CASE HookIndexed(w) \/ MarkIndexed(w)
  <2>1. PICK n : Finish(w, [r EXCEPT !.status = "indexed", !.name = n, !.error = "none"])
    BY <1>3 DEF HookIndexed, MarkIndexed, r
  <2> QED BY <1>1, <2>1, FinishSteady DEF Row, r
<1>4. CASE HookClaimed(w)
  BY <1>1, <1>4, FinishSteady DEF HookClaimed, Row, r
<1>5. CASE MarkSkipped(w)
  <2>1. PICK e \in SkipErrors, n \in FetchNames :
           Finish(w, [r EXCEPT !.status = "skipped", !.name = n, !.error = e])
    BY <1>5 DEF MarkSkipped, r
  <2> QED BY <1>1, <2>1, FinishSteady DEF Row, r
<1>6. CASE RetryLater(w)
  <2>1. PICK e \in {"publish_failed", "none"}, n \in FetchNames :
           Finish(w, [r EXCEPT !.status = "discovered", !.name = n,
                               !.error = e, !.attempts = tries[w]])
    BY <1>6 DEF RetryLater, r
  <2> QED BY <1>1, <2>1, FinishSteady DEF Row, r
<1>7. CASE WorkerError(w)
  BY <1>1, <1>7, FinishSteady DEF WorkerError, Row, r
<1> QED BY <1>2, <1>3, <1>4, <1>5, <1>6, <1>7

\* The other writes of a worker that has fetched, or tried to.
LEMMA FetchSteady ==
    ASSUME TypeOK, NEW w \in Workers, hand[w] # NoRow,
           BumpAttempts(w) \/ FetchFailed(w) \/ RememberBinary(w) \/ DropDirectory(w)
    PROVE  Steady
<1>0. hand[w] \in Cids
  BY DEF TypeOK
<1>1. CASE BumpAttempts(w)
  <2> SUFFICES ASSUME NEW c \in Cids PROVE Follows(c) /\ Quiet(c)
    BY DEF Steady
  <2>1. UNCHANGED <<cid_peers, evicted, unprocessable, phase, hand>>
    BY <1>1 DEF BumpAttempts
  <2>2. cids'[c] = cids[c]
        \/ (cids[c] # NoRow /\ cids'[c] = [cids[c] EXCEPT !.attempts = tries[w] + 1])
    BY <1>1 DEF BumpAttempts, Update, TypeOK
  <2>3. cids[c] # NoRow => cids[c] \in Row
    BY DEF TypeOK
  <2>4. cids[c] # NoRow => /\ cids'[c].source = cids[c].source
                           /\ cids'[c].peers = cids[c].peers
                           /\ cids'[c].status = cids[c].status
                           /\ cids'[c].name = cids[c].name
    BY <2>2, <2>3 DEF Row
  <2>5. cids[c] = NoRow => cids'[c] = NoRow
    BY <2>2
  <2> QED BY <2>1, <2>4, <2>5 DEF Follows, Quiet
<1>2. CASE FetchFailed(w)
  <2>1. Idle(w) /\ UNCHANGED <<evicted, unprocessable, phase>>
    BY <1>2 DEF FetchFailed
  <2>2. \/ /\ cids' = [cids EXCEPT ![hand[w]] = NoRow]
           /\ cid_peers' = [cid_peers EXCEPT ![hand[w]] = {}]
        \/ /\ cids' = Update(hand[w], [cids[hand[w]] EXCEPT !.status = "discovered",
                                                            !.error = "none"])
           /\ cid_peers' = cid_peers
    BY <1>2 DEF FetchFailed
  <2>3. CASE /\ cids' = [cids EXCEPT ![hand[w]] = NoRow]
             /\ cid_peers' = [cid_peers EXCEPT ![hand[w]] = {}]
    <3>1. cids' = Without(cids, {hand[w]}, NoRow) /\ cid_peers' = Without(cid_peers, {hand[w]}, {})
      BY <2>3 DEF Without, TypeOK
    <3>2. /\ \A c \in Cids : evicted'[c] \in {evicted[c], NoRow} \/ c \in {hand[w]}
          /\ \A c \in Cids : c \in unprocessable' => c \in unprocessable \/ c \in {hand[w]}
          /\ phase' = phase
      BY <2>1
    <3>3. \A c \in Cids \ {hand[w]} : \A v \in Workers : hand[v] = c => hand'[v] = c
      BY <2>1 DEF Idle, TypeOK
    <3> QED BY <3>1, <3>2, <3>3, ForgetSteady
  <2>4. CASE /\ cids' = Update(hand[w], [cids[hand[w]] EXCEPT !.status = "discovered",
                                                              !.error = "none"])
             /\ cid_peers' = cid_peers
    <3>1. Finish(w, [cids[hand[w]] EXCEPT !.status = "discovered", !.error = "none"])
      BY <1>2, <2>1, <2>4 DEF FetchFailed, Finish
    <3> DEFINE r == cids[hand[w]]
    <3>2. r # NoRow => r \in Row
      BY <1>0 DEF TypeOK
    <3>3. Finish(w, [r EXCEPT !.status = "discovered", !.error = "none"])
      BY <3>1 DEF r
    <3> HIDE DEF r
    <3> QED BY <3>2, <3>3, FinishSteady DEF Row, r
  <2> QED BY <2>2, <2>3, <2>4
<1>3. CASE RememberBinary(w) \/ DropDirectory(w)
  <2>1. cids' = Without(cids, {hand[w]}, NoRow) /\ cid_peers' = Without(cid_peers, {hand[w]}, {})
    BY <1>3 DEF RememberBinary, DropDirectory, Without, TypeOK
  <2>2. /\ \A c \in Cids : evicted'[c] \in {evicted[c], NoRow} \/ c \in {hand[w]}
        /\ unprocessable' \subseteq unprocessable \cup {hand[w]}
        /\ Idle(w) /\ phase' = phase
    BY <1>3 DEF RememberBinary, DropDirectory, TypeOK
  <2> QED BY <2>1, <2>2, ForgetSteady DEF Idle, TypeOK
<1> QED BY <1>1, <1>2, <1>3

\* A directory forgets misnamed rows, then gives a row a name or queues a new one.
LEMMA ListingSteady ==
    ASSUME TypeOK, NEW w \in Workers, hand[w] # NoRow, FetchedDirectory(w) \/ EnqueueChild(w)
    PROVE  Steady
<1>1. CASE FetchedDirectory(w)
  <2>1. UNCHANGED <<evicted, unprocessable, hand, phase>>
    BY <1>1 DEF FetchedDirectory
  <2>2. \/ cids' = cids /\ cid_peers' = cid_peers
        \/ cids' = Without(cids, NamedNonPdf, NoRow) /\ cid_peers' = Without(cid_peers, NamedNonPdf, {})
    BY <1>1 DEF FetchedDirectory
  <2>3. CASE cids' = cids /\ cid_peers' = cid_peers
    BY <2>1, <2>3 DEF Steady, Follows, Quiet
  <2>4. CASE cids' = Without(cids, NamedNonPdf, NoRow) /\ cid_peers' = Without(cid_peers, NamedNonPdf, {})
    BY <2>1, <2>4, ForgetSteady
  <2> QED BY <2>2, <2>3, <2>4
<1>2. CASE EnqueueChild(w)
  <2> DEFINE c == Head(links[w])
  <2>1. c \in Cids
    BY <1>2, LinksType DEF EnqueueChild, TypeOK
  <2>2. UNCHANGED <<evicted, unprocessable, hand, phase>>
    BY <1>2 DEF EnqueueChild
  <2>3. \/ UNCHANGED <<cids, cid_peers>>
        \/ /\ cids[c] # NoRow
           /\ cids' = [cids EXCEPT ![c] = Named(@)]
           /\ UNCHANGED cid_peers
        \/ \E gone : /\ cids[c] = NoRow /\ c \notin unprocessable
                     /\ cids' = Without(Insert(c, "named", 1, "pdf"), gone, NoRow)
                     /\ cid_peers' = Without(cid_peers, gone, {})
    BY <1>2, Zenon DEF EnqueueChild, NeedsSlot, Queueable
  <2> HIDE DEF c
  <2>4. CASE UNCHANGED <<cids, cid_peers>>
    BY <2>2, <2>4 DEF Steady, Follows, Quiet
  <2>5. CASE cids[c] # NoRow /\ cids' = [cids EXCEPT ![c] = Named(@)] /\ UNCHANGED cid_peers
    <3>1. cids[c] \in Row
      BY <2>1, <2>5 DEF TypeOK
    <3>2. /\ Named(cids[c]).source = cids[c].source /\ Named(cids[c]).peers = cids[c].peers
          /\ Named(cids[c]).status = cids[c].status
          /\ Named(cids[c]).name \in {cids[c].name, "pdf"}
      BY <3>1 DEF Named, Row
    <3>3. \A d \in Cids : cids'[d] = IF d = c THEN Named(cids[c]) ELSE cids[d]
      BY <2>1, <2>5 DEF TypeOK
    <3> QED BY <2>2, <2>5, <3>2, <3>3 DEF Steady, Follows, Quiet
  <2>6. ASSUME NEW gone, cids[c] = NoRow, c \notin unprocessable,
               cids' = Without(Insert(c, "named", 1, "pdf"), gone, NoRow),
               cid_peers' = Without(cid_peers, gone, {})
        PROVE  Steady
    <3>1. \A d \in Cids : /\ d \in gone => cids'[d] = NoRow
                          /\ d \notin gone /\ d # c => cids'[d] = cids[d]
                          /\ d \notin gone => cid_peers'[d] = cid_peers[d]
      BY <2>6 DEF Without, Insert, TypeOK
    <3>2. c \notin gone => cids'[c].source = "named" /\ cids'[c].status = "discovered"
      BY <2>1, <2>6 DEF Without, Insert, TypeOK
    <3> SUFFICES ASSUME NEW d \in Cids PROVE Follows(d) /\ Quiet(d)
      BY DEF Steady
    <3>3. CASE d \in gone
      BY <3>1, <3>3 DEF Follows, Quiet
    <3>4. CASE d \notin gone /\ d = c
      BY <2>2, <2>6, <3>2, <3>4 DEF Follows, Quiet
    <3>5. CASE d \notin gone /\ d # c
      BY <2>2, <3>1, <3>5 DEF Follows, Quiet
    <3> QED BY <3>3, <3>4, <3>5
  <2> QED BY <2>3, <2>4, <2>5, <2>6
<1> QED BY <1>1, <1>2

\* A WANT and a review, of the spool, ingest and web threads.
LEMMA AdmissionSteady ==
    ASSUME TypeOK, NEW c \in Cids,
           EnqueueReview(c) \/ \E p \in Peers : Want(c, p)
    PROVE  Steady
<1>1. UNCHANGED <<hand, phase>>
  BY DEF EnqueueReview, Want, worker
<1>2. CASE EnqueueReview(c)
  <2>1. \A d \in Cids \ {c} : cids'[d] = cids[d]
    BY <1>2 DEF EnqueueReview, Insert, TypeOK
  <2>2. cids'[c].source = "report" /\ cids'[c].status = "discovered"
    <3>1. CASE cids[c] = NoRow
      BY <1>2, <3>1 DEF EnqueueReview, Insert, TypeOK
    <3>2. CASE cids[c] # NoRow
      <4>1. cids'[c] = Reviewed(cids[c]) /\ cids[c] \in Row
        BY <1>2, <3>2 DEF EnqueueReview, TypeOK
      <4>2. \A r \in Row : Reviewed(r).source = "report" /\ Reviewed(r).status = "discovered"
        BY DEF Reviewed, Row
      <4> QED BY <4>1, <4>2
    <3> QED BY <3>1, <3>2
  <2>3. UNCHANGED <<cid_peers, evicted, unprocessable>>
    BY <1>2 DEF EnqueueReview
  <2> SUFFICES ASSUME NEW d \in Cids PROVE Follows(d) /\ Quiet(d)
    BY DEF Steady
  <2>4. CASE d = c
    BY <2>2, <2>4 DEF Follows, Quiet
  <2>5. CASE d # c
    BY <1>1, <2>1, <2>3, <2>5 DEF Follows, Quiet
  <2> QED BY <2>4, <2>5
<1>3. ASSUME NEW p \in Peers, Want(c, p) PROVE Steady
  <2>1. _record(c, p)
    BY <1>3 DEF Want
  <2> SUFFICES ASSUME NEW d \in Cids PROVE Follows(d) /\ Quiet(d)
    BY DEF Steady
  <2>2. CASE d # c
    BY <1>1, <2>1, <2>2, RecordRows DEF Follows, Quiet
  <2>3. CASE d = c
    <3>1. cids[c] # NoRow => cids[c] \in Row
      BY DEF TypeOK
    <3>2. c \notin unprocessable'
      BY <2>1, RecordRows
    <3>3. \/ cids[c] = NoRow /\ cids'[c] = NoRow
          \/ /\ cids'[c] = cids[c] /\ evicted'[c] = evicted[c] /\ evicted[c] # NoRow
             /\ Cardinality(cid_peers'[c]) <= evicted[c]
          \/ /\ cids[c] # NoRow
             /\ cids'[c] = [cids[c] EXCEPT !.peers = Cardinality(cid_peers'[c])]
             /\ evicted'[c] = NoRow
          \/ /\ cids[c] = NoRow /\ evicted'[c] = NoRow
             /\ cids'[c] = [status |-> "discovered", source |-> "sniff",
                            peers |-> Cardinality(cid_peers'[c]),
                            attempts |-> 0, name |-> "none", error |-> "none"]
      BY <2>1, RecordRows
    <3>4. CASE \/ cids[c] = NoRow /\ cids'[c] = NoRow
               \/ /\ cids'[c] = cids[c] /\ evicted'[c] = evicted[c] /\ evicted[c] # NoRow
                  /\ Cardinality(cid_peers'[c]) <= evicted[c]
      BY <1>1, <2>3, <3>2, <3>4 DEF Follows, Quiet
    <3>5. CASE /\ cids[c] # NoRow
               /\ cids'[c] = [cids[c] EXCEPT !.peers = Cardinality(cid_peers'[c])]
               /\ evicted'[c] = NoRow
      <4>1. /\ cids'[c].peers = Cardinality(cid_peers'[c])
            /\ cids'[c].source = cids[c].source
            /\ cids'[c].status = cids[c].status
            /\ cids'[c].name = cids[c].name
        BY <3>1, <3>5 DEF Row
      <4> QED BY <1>1, <2>3, <3>2, <3>5, <4>1 DEF Follows, Quiet
    <3>6. CASE /\ evicted'[c] = NoRow
               /\ cids'[c] = [status |-> "discovered", source |-> "sniff",
                              peers |-> Cardinality(cid_peers'[c]),
                              attempts |-> 0, name |-> "none", error |-> "none"]
      BY <2>3, <3>2, <3>6 DEF Follows, Quiet
    <3> QED BY <3>3, <3>4, <3>5, <3>6
  <2> QED BY <2>2, <2>3
<1> QED BY <1>2, <1>3

\* The janitor's steps and those of main() before the threads start.
LEMMA HouseSteady ==
    ASSUME TypeOK,
           \/ Prune \/ TrimEvicted \/ EvictBatch
           \/ Crashing \/ ReleaseOrphans \/ RequeueUnpublished \/ StartupPrune
    PROVE  Steady
<1>0. \A c \in Cids : cids[c] # NoRow => cids[c] \in Row
  BY DEF TypeOK
<1>1. CASE Prune \/ StartupPrune
  <2>1. /\ PruneQueue(FALSE) /\ UNCHANGED <<evicted, unprocessable>>
        /\ hand' = hand /\ (phase' # "down" => phase # "down")
    BY <1>1 DEF Prune, StartupPrune, Starting, worker
  <2> SUFFICES ASSUME NEW c \in Cids PROVE Follows(c) /\ Quiet(c)
    BY DEF Steady
  <2>2. UNCHANGED <<evicted, unprocessable>>
        /\ (cids'[c] # NoRow => cid_peers'[c] = cid_peers[c])
        /\ \/ cids'[c] = NoRow
           \/ cids'[c] = cids[c]
           \/ /\ cids[c] \in Row
              /\ cids'[c] = [cids[c] EXCEPT !.status = "discovered",
                                            !.attempts = 0, !.error = "none"]
    BY <2>1, PruneRows DEF PrunedRow
  <2>3. CASE cids'[c] = NoRow
    BY <2>3 DEF Follows, Quiet
  <2>4. CASE cids'[c] = cids[c]
    BY <2>1, <2>2, <2>4 DEF Follows, Quiet
  <2>5. ASSUME cids[c] \in Row, cids'[c] # NoRow,
               cids'[c] = [cids[c] EXCEPT !.status = "discovered",
                                          !.attempts = 0, !.error = "none"]
        PROVE  Follows(c) /\ Quiet(c)
    <3> DEFINE r == cids[c]
    <3>1. r \in Row /\ cids'[c] = [r EXCEPT !.status = "discovered",
                                            !.attempts = 0, !.error = "none"]
      BY <2>5 DEF r
    <3> HIDE DEF r
    <3>2. /\ cids'[c].source = r.source /\ cids'[c].peers = r.peers
          /\ cids'[c].status = "discovered"
      BY <3>1 DEF Row
    <3> QED BY <2>2, <2>5, <3>2, DataAssumption DEF Follows, Quiet, r
  <2> QED BY <2>2, <2>3, <2>4, <2>5
<1>2. CASE TrimEvicted
  <2>1. PICK gone : evicted' = Without(evicted, gone, NoRow)
    BY <1>2 DEF TrimEvicted
  <2>2. \A c \in Cids : evicted'[c] \in {evicted[c], NoRow}
    BY <2>1 DEF Without, TypeOK
  <2>3. UNCHANGED <<cids, cid_peers, unprocessable, hand, phase>>
    BY <1>2 DEF TrimEvicted, worker
  <2> QED BY <2>2, <2>3 DEF Steady, Follows, Quiet
<1>3. CASE EvictBatch
  <2>1. PICK gone :
          /\ evicted' = [c \in Cids |-> IF c \in gone THEN cids[c].peers ELSE evicted[c]]
          /\ cids' = Without(cids, gone, NoRow)
          /\ cid_peers' = Without(cid_peers, gone, {})
    BY <1>3 DEF EvictBatch
  <2>2. UNCHANGED <<unprocessable, hand, phase>>
    BY <1>3 DEF EvictBatch, worker
  <2> QED BY <2>1, <2>2, ForgetSteady
<1>4. CASE Crashing
  <2>1. Stop /\ CutTables
    BY <1>4, CrashTables
  <2>2. phase' = "down" /\ crashes' # 0
    BY <2>1 DEF Stop, TypeOK
  <2> SUFFICES ASSUME NEW c \in Cids PROVE Follows(c) /\ Quiet(c)
    BY DEF Steady
  <2>3. /\ cid_peers'[c] \in {cid_peers[c], {}}
        /\ cids'[c] # NoRow => evicted'[c] \in {evicted[c], cids[c].peers}
        /\ \/ cids'[c] = NoRow
           \/ cids'[c] = cids[c]
           \/ /\ cids[c] \in Row
              /\ cids'[c] = [cids[c] EXCEPT !.status = "discovered",
                                            !.attempts = 0, !.error = "none"]
    BY <2>1, Zenon DEF CutTables, CutRow, PrunedRow
  <2>4. CASE cids'[c] = NoRow
    BY <2>4 DEF Follows, Quiet
  <2>5. CASE cids'[c] = cids[c] /\ cids'[c] # NoRow
    BY <2>2, <2>3, <2>5 DEF Follows, Quiet
  <2>6. ASSUME cids[c] \in Row, cids'[c] # NoRow,
               cids'[c] = [cids[c] EXCEPT !.status = "discovered",
                                          !.attempts = 0, !.error = "none"]
        PROVE  Follows(c) /\ Quiet(c)
    <3> DEFINE r == cids[c]
    <3>1. r \in Row /\ cids'[c] = [r EXCEPT !.status = "discovered",
                                            !.attempts = 0, !.error = "none"]
      BY <2>6 DEF r
    <3> HIDE DEF r
    <3>2. /\ cids'[c].source = r.source /\ cids'[c].peers = r.peers
          /\ cids'[c].status = "discovered"
      BY <3>1 DEF Row
    <3> QED BY <2>2, <2>3, <2>6, <3>2, DataAssumption DEF Follows, Quiet, r
  <2> QED BY <2>3, <2>4, <2>5, <2>6
<1>5. CASE ReleaseOrphans
  <2> SUFFICES ASSUME NEW c \in Cids PROVE Follows(c) /\ Quiet(c)
    BY DEF Steady
  <2>1. UNCHANGED <<cid_peers, evicted, unprocessable>>
    BY <1>5 DEF ReleaseOrphans
  <2>2. cids'[c] = IF c \in Processing THEN [cids[c] EXCEPT !.status = "discovered"] ELSE cids[c]
    BY <1>5 DEF ReleaseOrphans
  <2>3. CASE c \in Processing
    <3>1. cids[c] # NoRow /\ cids[c] \in Row
      BY <1>0, <2>3 DEF Processing, WithStatus, Rows
    <3>2. /\ cids'[c].source = cids[c].source /\ cids'[c].peers = cids[c].peers
          /\ cids'[c].status = "discovered"
      BY <2>2, <2>3, <3>1 DEF Row
    <3> QED BY <2>1, <3>1, <3>2 DEF Follows, Quiet
  <2>4. CASE c \notin Processing
    <3>1. cids'[c] = cids[c]
      BY <2>2, <2>4
    <3>2. cids[c] = NoRow \/ cids[c].status # "processing"
      BY <2>4 DEF Processing, WithStatus, Rows
    <3> QED BY <2>1, <3>1, <3>2 DEF Follows, Quiet
  <2> QED BY <2>3, <2>4
<1>6. CASE RequeueUnpublished
  <2> SUFFICES ASSUME NEW c \in Cids PROVE Follows(c) /\ Quiet(c)
    BY DEF Steady
  <2>1. UNCHANGED <<cid_peers, evicted, unprocessable, hand>> /\ phase # "down"
    BY <1>6 DEF RequeueUnpublished, Starting, worker
  <2>2. \/ cids'[c] = cids[c]
        \/ /\ cids[c] # NoRow
           /\ \/ cids'[c] = [cids[c] EXCEPT !.status = "discovered", !.attempts = 0,
                                            !.error = "none"]
              \/ cids'[c] = [cids[c] EXCEPT !.status = "discovered", !.attempts = 0]
    BY <1>6 DEF RequeueUnpublished, Unpublished, Rows
  <2>3. CASE cids'[c] = cids[c]
    BY <2>1, <2>3 DEF Follows, Quiet
  <2>4. ASSUME cids[c] # NoRow,
               \/ cids'[c] = [cids[c] EXCEPT !.status = "discovered", !.attempts = 0,
                                             !.error = "none"]
               \/ cids'[c] = [cids[c] EXCEPT !.status = "discovered", !.attempts = 0]
        PROVE  Follows(c) /\ Quiet(c)
    <3> DEFINE r == cids[c]
    <3>1. r \in Row
          /\ \/ cids'[c] = [r EXCEPT !.status = "discovered", !.attempts = 0, !.error = "none"]
             \/ cids'[c] = [r EXCEPT !.status = "discovered", !.attempts = 0]
      BY <1>0, <2>4 DEF r
    <3> HIDE DEF r
    <3>2. /\ cids'[c].source = r.source /\ cids'[c].peers = r.peers
          /\ cids'[c].status = "discovered"
      BY <3>1 DEF Row
    <3> QED BY <2>1, <2>4, <3>2 DEF Follows, Quiet, r
  <2> QED BY <2>2, <2>3, <2>4
<1> QED BY <1>1, <1>2, <1>3, <1>4, <1>5, <1>6

\* A probe is picked only while fewer than max_dir_probes are being fetched.
LEMMA PickedProbe ==
    ASSUME NEW ready, NEW c \in Picks(ready), Probe(c)
    PROVE  Cardinality(Probes(Processing)) < MaxDirProbes
BY DEF Picks, LanePick, NextPdf, NextHtml, First, HtmlRows, HtmlLane, PdfLane,
       Probes, Probe, KeepSrc

\* take_batch gives one discovered row to an idle worker.
Taken(w, c) ==
    /\ c \in Cids /\ cids[c] \in Row /\ cids[c] # NoRow /\ cids[c].status = "discovered"
    /\ UNCHANGED <<cid_peers, evicted, unprocessable, phase>>
    /\ hand[w] = NoRow /\ phase = "up" /\ crashes' = crashes
    /\ hand' = [hand EXCEPT ![w] = c]
    /\ \A d \in Cids \ {c} : cids'[d] = cids[d]
    /\ cids'[c] # NoRow /\ cids'[c].status = "processing"
    /\ cids'[c].source = cids[c].source /\ cids'[c].peers = cids[c].peers
    /\ cids'[c].name = cids[c].name
    /\ Probe(c) => Cardinality(Probes(Processing)) < MaxDirProbes

LEMMA TakeOne ==
    ASSUME TypeOK, NEW w \in Workers, TakeBatch(w)
    PROVE  \E c \in Cids : Taken(w, c)
<1>1. PICK ready : \E c \in Picks(ready) :
        /\ cids' = [cids EXCEPT ![c].status = "processing"]
        /\ hand' = [hand EXCEPT ![w] = c]
  BY DEF TakeBatch
<1>2. PICK c \in Picks(ready) :
        /\ cids' = [cids EXCEPT ![c].status = "processing"]
        /\ hand' = [hand EXCEPT ![w] = c]
  BY <1>1
<1>3. c \in Cids /\ cids[c] \in Row /\ cids[c] # NoRow /\ cids[c].status = "discovered"
  BY PicksSelectable DEF Discovered, WithStatus, Rows, TypeOK
<1>4. /\ UNCHANGED <<cid_peers, evicted, unprocessable, phase>>
      /\ hand[w] = NoRow /\ phase = "up" /\ crashes' = crashes
  BY DEF TakeBatch, Up, TypeOK, budget
<1>5. \A d \in Cids \ {c} : cids'[d] = cids[d]
  BY <1>2 DEF TypeOK
<1>6. /\ cids'[c] # NoRow /\ cids'[c].status = "processing"
      /\ cids'[c].source = cids[c].source /\ cids'[c].peers = cids[c].peers
      /\ cids'[c].name = cids[c].name
  <2>1. cids'[c] = [cids[c] EXCEPT !.status = "processing"]
    BY <1>2, <1>3 DEF TypeOK
  <2>2. [cids[c] EXCEPT !.status = "processing"] \in Row
    BY <1>3, RowEdits DEF Statuses
  <2> QED BY <1>3, <2>1, <2>2, DataAssumption DEF Row
<1>7. Probe(c) => Cardinality(Probes(Processing)) < MaxDirProbes
  BY PickedProbe
<1> QED BY <1>2, <1>3, <1>4, <1>5, <1>6, <1>7 DEF Taken

LEMMA TakeFollows ==
    ASSUME TypeOK, NEW w \in Workers, TakeBatch(w)
    PROVE  \A d \in Cids : Follows(d)
BY TakeOne DEF Taken, Follows

LEMMA TakeKeeps ==
    ASSUME QueueInv, TypeOK', NEW w \in Workers, TakeBatch(w)
    PROVE  QueueInv'
<1>0. TypeOK
  BY DEF QueueInv
<1>2. PICK c \in Cids : Taken(w, c)
  BY <1>0, TakeOne
<1>3. c \in Cids /\ cids[c] \in Row /\ cids[c] # NoRow /\ cids[c].status = "discovered"
  BY <1>2 DEF Taken
<1>4. /\ UNCHANGED <<cid_peers, evicted, unprocessable, phase>>
      /\ hand[w] = NoRow /\ phase = "up" /\ crashes' = crashes
      /\ hand' = [hand EXCEPT ![w] = c]
  BY <1>2 DEF Taken
<1>5. \A d \in Cids \ {c} : cids'[d] = cids[d]
  BY <1>2 DEF Taken
<1>6. /\ cids'[c] # NoRow /\ cids'[c].status = "processing"
      /\ cids'[c].source = cids[c].source /\ cids'[c].peers = cids[c].peers
      /\ cids'[c].name = cids[c].name
  BY <1>2 DEF Taken
<1>7. \A d \in Cids : Follows(d)
  BY <1>0, TakeFollows
<1>8. NoOrphan'
  <2> SUFFICES ASSUME NEW d \in Processing' PROVE \E v \in Workers : hand'[v] = d
    BY DEF NoOrphan
  <2>1. CASE d = c
    BY <1>0, <1>4, <2>1 DEF TypeOK
  <2>2. CASE d # c
    <3>1. d \in Processing
      BY <1>5, <2>2 DEF Processing, WithStatus, Rows
    <3>2. PICK v \in Workers : hand[v] = d
      BY <1>4, <3>1 DEF QueueInv, NoOrphan
    <3>3. v # w
      BY <1>4, <3>1, <3>2, DataAssumption DEF Processing, WithStatus, Rows
    <3>4. hand'[v] = d
      BY <1>0, <1>4, <3>2, <3>3 DEF TypeOK
    <3> QED BY <3>4
  <2> QED BY <2>1, <2>2
<1>9. ProbeRowsBounded'
  <2> DEFINE now  == Probes(Processing)
             next == Probes(Processing)'
  <2>1. IsFiniteSet(now)
    BY DataAssumption, FS_Subset DEF Probes, Processing, WithStatus, Rows
  <2>2. \A d \in Cids : Probe(d)' <=> Probe(d)
    BY <1>5, <1>6 DEF Probe, KeepSrc, IsPdf
  <2>3. next \subseteq now \cup {c}
    BY <1>5, <2>2 DEF Probes, Processing, WithStatus, Rows
  <2>4. CASE Probe(c)
    <3>1. Cardinality(now) < MaxDirProbes
      BY <1>2, <2>4 DEF Taken
    <3>2. IsFiniteSet(now \cup {c}) /\ Cardinality(now \cup {c}) <= Cardinality(now) + 1
      <4> HIDE DEF now
      <4>1. Cardinality(now) \in Nat
        BY <2>1, FS_CardinalityType
      <4>2. IsFiniteSet(now \cup {c})
        BY <2>1, FS_AddElement
      <4>3. Cardinality(now \cup {c}) = Cardinality(now) \/ Cardinality(now \cup {c}) = Cardinality(now) + 1
        BY <2>1, FS_AddElement
      <4> QED BY <4>1, <4>2, <4>3
    <3>3. Cardinality(next) <= Cardinality(now \cup {c})
      BY <2>3, <3>2, FS_Subset
    <3>4. Cardinality(next) \in Nat /\ Cardinality(now) \in Nat /\ Cardinality(now \cup {c}) \in Nat
      BY <2>1, <2>3, <3>2, FS_Subset, FS_CardinalityType
    <3> HIDE DEF now, next
    <3>5. Cardinality(next) <= MaxDirProbes
      BY <3>1, <3>2, <3>3, <3>4, LimitsAssumption
    <3> QED BY <3>5 DEF ProbeRowsBounded, next
  <2>5. CASE ~Probe(c)
    <3>1. next \subseteq now
      BY <2>2, <2>3, <2>5, <1>3 DEF Probes
    <3>2. /\ Cardinality(next) <= Cardinality(now)
          /\ Cardinality(next) \in Nat /\ Cardinality(now) \in Nat
      BY <2>1, <3>1, FS_Subset, FS_CardinalityType
    <3>3. Cardinality(now) <= MaxDirProbes
      BY DEF QueueInv, ProbeRowsBounded
    <3> HIDE DEF now, next
    <3>4. Cardinality(next) <= MaxDirProbes
      BY <3>2, <3>3, LimitsAssumption
    <3> QED BY <3>4 DEF ProbeRowsBounded, next
  <2> QED BY <2>4, <2>5
<1> QED BY <1>4, <1>7, <1>8, <1>9, FollowsKeeps DEF QueueInv

\* Every step but take_batch and the environment's idling is steady.
LEMMA StepSteady ==
    ASSUME TypeOK, [Next]_vars, \A w \in Workers : ~TakeBatch(w)
    PROVE  Steady
<1>1. CASE \E c \in Cids, p \in Peers : Want(c, p)
  BY <1>1, AdmissionSteady
<1>2. CASE \E c \in Cids : EnqueueReview(c)
  BY <1>2, AdmissionSteady
<1>3. ASSUME NEW w \in Workers, WorkerStep(w) PROVE Steady
  <2>1. hand[w] # NoRow
    BY <1>3 DEF WorkerStep, HookSkipped, HookIndexed, HookClaimed,
             BumpAttempts, FetchFailed, MarkSkipped, RememberBinary, MarkIndexed,
             RetryLater, WorkerError, FetchedDirectory, EnqueueChild, DropDirectory,
             At, TypeOK
  <2> QED BY <1>3, <2>1, OutcomeSteady, FetchSteady, ListingSteady DEF WorkerStep
<1>4. CASE \/ Prune \/ TrimEvicted \/ EvictBatch
           \/ Crashing \/ ReleaseOrphans \/ RequeueUnpublished \/ StartupPrune
  BY <1>4, HouseSteady
<1>5. CASE UNCHANGED vars
  <2>1. UNCHANGED <<cids, cid_peers, evicted, unprocessable, hand, phase>>
    BY <1>5 DEF vars, db, worker
  <2> QED BY <2>1 DEF Steady, Follows, Quiet
<1> QED BY <1>1, <1>2, <1>3, <1>4, <1>5 DEF Next, Crashing

\* A process that has never crashed had not crashed before.
LEMMA CrashesGrow ==
    ASSUME TypeOK, [Next]_vars, crashes' = 0
    PROVE  crashes = 0
<1>1. ASSUME NEW w \in Workers, WorkerStep(w) PROVE crashes' = crashes
  BY <1>1 DEF WorkerStep, TakeBatch, HookSkipped, HookIndexed, HookClaimed,
           BumpAttempts, FetchFailed, MarkSkipped, RememberBinary, MarkIndexed,
           RetryLater, WorkerError, FetchedDirectory, EnqueueChild, DropDirectory,
           Finish, budget
<1>2. CASE Crashing
  BY <1>2, CrashTables DEF Stop, TypeOK
<1>3. CASE \/ \E c \in Cids, p \in Peers : Want(c, p)
           \/ \E c \in Cids : EnqueueReview(c)
  BY <1>3 DEF Want, EnqueueReview
<1>4. CASE \/ Prune \/ TrimEvicted \/ EvictBatch
           \/ ReleaseOrphans \/ RequeueUnpublished \/ StartupPrune
  BY <1>4 DEF Prune, TrimEvicted, EvictBatch, ReleaseOrphans, RequeueUnpublished,
           StartupPrune, Starting, budget
<1>5. CASE UNCHANGED vars
  BY <1>5 DEF vars, budget
<1> QED BY <1>1, <1>2, <1>3, <1>4, <1>5 DEF Next, Crashing

LEMMA QueueNext == QueueInv /\ [Next]_vars => QueueInv'
<1> SUFFICES ASSUME QueueInv, [Next]_vars PROVE QueueInv'
  OBVIOUS
<1>1. TypeOK /\ TypeOK' /\ (crashes' = 0 => crashes = 0)
  BY TypeNext, CrashesGrow DEF QueueInv
<1>2. CASE \E w \in Workers : TakeBatch(w)
  BY <1>1, <1>2, TakeKeeps
<1>3. CASE \A w \in Workers : ~TakeBatch(w)
  BY <1>1, <1>3, StepSteady, SteadyKeeps
<1> QED BY <1>2, <1>3

LEMMA QueueInit == Init => QueueInv
<1> SUFFICES ASSUME Init PROVE QueueInv
  OBVIOUS
<1>1. TypeOK /\ Rows = {}
  BY TypeInit DEF Init, Rows
<1>2. Processing = {} /\ Probes(Processing) = {}
  BY <1>1 DEF Processing, WithStatus, Probes
<1>3. ProbeRowsBounded
  BY <1>2, FS_EmptySet, LimitsAssumption DEF ProbeRowsBounded
<1> QED BY <1>1, <1>2, <1>3 DEF QueueInv, NoOrphan, PeersKept

\* The invariants of the queue hold together, over whole and cut-off functions:
\* the budget of take_batch, and the peer counts with what a crash in the middle
\* of an eviction leaves in the evicted table.
THEOREM QueueInvariant == Spec => []QueueInv
<1>1. Init => QueueInv
  BY QueueInit
<1>2. QueueInv /\ [Next]_vars => QueueInv'
  BY QueueNext
<1> QED BY <1>1, <1>2, PTL DEF Spec

\* A row in status processing is in the hands of a worker, for any number of
\* workers and whatever the other threads do, from the moment main() has
\* released what a crash left.
THEOREM NoOrphanHolds == Spec => []NoOrphan
<1>1. QueueInv => NoOrphan
  BY DEF QueueInv
<1> QED BY <1>1, QueueInvariant, PTL

\* Workers that hold different rows, each a probe in processing, are no more than
\* those rows.
LEMMA FewFetching ==
    ASSUME TypeOK, ProbeRowsBounded
    PROVE  ProbesBounded
<1> DEFINE fetching == {w \in Workers : /\ hand[w] # NoRow /\ Codec[hand[w]] = "dag-pb"
                                        /\ cids[hand[w]] # NoRow => Probe(hand[w])}
           held == [w \in fetching |-> hand[w]]
<1> SUFFICES ASSUME \A w \in fetching : /\ hand[w] \in Processing
                                        /\ \A v \in fetching \ {w} : hand[v] # hand[w]
             PROVE  Cardinality(fetching) <= MaxDirProbes
  BY DEF ProbesBounded
<1>1. held \in [fetching -> Probes(Processing)]
  BY DEF Probes, Processing, WithStatus, Rows
<1>2. held \in Injection(fetching, Probes(Processing))
  BY <1>1 DEF Injection, IsInjective
<1>3. IsFiniteSet(Probes(Processing))
  BY DataAssumption, FS_Subset DEF Probes, Processing, WithStatus, Rows
<1> HIDE DEF fetching, held
<1>4. /\ Cardinality(fetching) <= Cardinality(Probes(Processing))
      /\ Cardinality(fetching) \in Nat /\ Cardinality(Probes(Processing)) \in Nat
  BY <1>2, <1>3, FS_Injection, FS_CardinalityType
<1> QED BY <1>4, LimitsAssumption DEF ProbeRowsBounded

\* No more than max_dir_probes workers fetch sniffed folders at once, as long as
\* each of them still holds a row of its own.
THEOREM ProbesBoundedHolds == Spec => []ProbesBounded
<1>1. QueueInv => ProbesBounded
  BY FewFetching DEF QueueInv
<1> QED BY <1>1, QueueInvariant, PTL

\* The stored peer count of a sniffed row is the number of its recorded peers, and
\* no less after a crash that cut a delete off.
THEOREM PeersMatchHolds == Spec => []PeersMatch
<1>1. QueueInv => PeersMatch
  BY DEF QueueInv, PeersKept, PeersMatch
<1> QED BY <1>1, QueueInvariant, PTL

\* A known binary is back in the queue only for a review, and stays in it only when
\* the step that was to forget it is cut off.
THEOREM BinaryStaysOutHolds == Spec => BinaryStaysOut
<1>1. TypeOK /\ [Next]_vars => \A c \in Cids : StaysOut(c)
  <2> SUFFICES ASSUME TypeOK, [Next]_vars, NEW c \in Cids PROVE StaysOut(c)
    OBVIOUS
  <2>1. CASE \A w \in Workers : ~TakeBatch(w)
    BY <2>1, StepSteady, FollowsStaysOut DEF Steady
  <2>2. CASE \E w \in Workers : TakeBatch(w)
    BY <2>2, TakeFollows, FollowsStaysOut
  <2> QED BY <2>1, <2>2
<1>2. TypeOK /\ [Next]_vars =>
        [\A c \in Rows' \cap unprocessable' :
          \/ cids'[c].source = "report"
          \/ c \in Rows /\ (c \in unprocessable \/ phase' = "down")]_vars
  BY <1>1 DEF StaysOut, Rows
<1> QED BY <1>2, WorkQueueTypeCorrect, PTL DEF Spec, BinaryStaysOut
------------------------------------------------------------------------------
(***************************************************************************)
(* What prune leaves.                                                      *)
(***************************************************************************)
\* Deleting the first n rows of S leaves at most n fewer, or no row of S.
LEMMA LimitLeaves ==
    ASSUME NEW Q, IsFiniteSet(Q), NEW S \in SUBSET Q, NEW cap \in Nat,
           NEW gone \in Limit(S, Cardinality(Q) - cap)
    PROVE  Cardinality(Q \ gone) <= cap \/ gone = S
<1> DEFINE n == Cardinality(Q) - cap
<1>1. IsFiniteSet(S) /\ Cardinality(S) \in Nat /\ Cardinality(Q) \in Nat
  BY FS_Subset, FS_CardinalityType
<1>2. gone \subseteq S /\ Cardinality(gone) = (IF n < 0 THEN 0 ELSE Least(n, Cardinality(S)))
  BY DEF Limit, kSubset
<1>3. gone \subseteq Q /\ IsFiniteSet(gone)
  BY <1>1, <1>2, FS_Subset
<1>4. Q \cap gone = gone
  BY <1>3
<1>5. Cardinality(Q \ gone) = Cardinality(Q) - Cardinality(gone)
  BY <1>3, <1>4, FS_Difference
<1>6. CASE n < 0
  BY <1>1, <1>2, <1>5, <1>6
<1>7. CASE n >= 0 /\ n <= Cardinality(S)
  <2>1. Cardinality(gone) = n
    BY <1>1, <1>2, <1>7 DEF Least
  <2> QED BY <1>1, <1>5, <2>1
<1>8. CASE n > Cardinality(S)
  <2>1. Cardinality(gone) = Cardinality(S)
    BY <1>1, <1>2, <1>8 DEF Least
  <2>2. gone = S
    BY <1>1, <1>2, <2>1, FS_Subset
  <2> QED BY <2>2
<1> QED BY <1>1, <1>6, <1>7, <1>8

\* The live rows that prune keeps are within both caps, or protected.  A skip
\* that it requeues was not live before.
LEMMA PruneLeaves ==
    ASSUME TypeOK, PruneQueue(FALSE)
    PROVE  LET left == Live \cap Live' IN
           /\ Cardinality(left) <= MaxQueue \/ \A c \in left : KeepSrc(c)
           /\ MaxDirQueue > 0 =>
                \/ Cardinality({c \in left : Probe(c)}) <= MaxDirQueue
                \/ \A c \in left : Probe(c) => c \in Processing
<1> DEFINE lonely == LonelyRaw(Discovered)
           Left(old) == Live \ (NamedNonPdf \cup lonely \cup old)
           left == Live \cap Live'
           keep(S) == {c \in S : ~KeepSrc(c)}
<1>1. PICK old, due, lanes, over, dirs :
        /\ due \subseteq ExpiringSkips
        /\ over \in QueueOverflow(Left(old) \ lanes)
        /\ dirs \in DirOverflow(Left(old) \ (lanes \cup over))
        /\ Pruned(<<NamedNonPdf, lonely, old, lanes, over, dirs>>, due)
  BY Zenon DEF PruneQueue
<1> DEFINE Q == Left(old) \ lanes
           R == Left(old) \ (lanes \cup over)
<1>2. Live \subseteq Cids /\ IsFiniteSet(Q) /\ IsFiniteSet(R) /\ IsFiniteSet(Probes(R))
  <2>1. /\ Live \subseteq Cids /\ Q \subseteq Cids /\ R \subseteq Cids
        /\ Probes(R) \subseteq Cids
    BY DEF Live, Discovered, Processing, WithStatus, Rows, Probes
  <2> QED BY <2>1, DataAssumption, FS_Subset
<1>3. left \subseteq R \ dirs
  <2> SUFFICES ASSUME NEW c \in left, c \notin R \ dirs PROVE FALSE
    OBVIOUS
  <2>1. c \in Cids /\ c \in Live /\ cids'[c] # NoRow
    BY DEF Live, Discovered, Processing, WithStatus, Rows
  <2>2. c \in NamedNonPdf \cup old \cup lanes \cup over \cup dirs \cup lonely
    BY <2>1
  <2> DEFINE deleted == <<NamedNonPdf, lonely, old, lanes, over, dirs>>
  <2>3. c \in AllOf(deleted)
    BY <2>2 DEF AllOf
  <2>4. cids'[c] = NoRow
    BY <1>1, <2>1, <2>3, Zenon DEF Pruned, Requeued
  <2> QED BY <2>1, <2>4
<1>4. Cardinality(left) <= MaxQueue \/ \A c \in left : KeepSrc(c)
  <2>1. over \in Limit(keep(Q), Cardinality(Q) - MaxQueue)
    BY <1>1 DEF QueueOverflow, LimitExtra
  <2>2. Cardinality(Q \ over) <= MaxQueue \/ over = keep(Q)
    BY <1>2, <2>1, LimitLeaves, LimitsAssumption
  <2>3. left \subseteq Q \ over
    BY <1>3
  <2>4. CASE over = keep(Q)
    BY <2>3, <2>4
  <2>5. CASE Cardinality(Q \ over) <= MaxQueue
    <3>1. IsFiniteSet(Q \ over)
      BY <1>2, FS_Subset
    <3>2. Cardinality(left) <= Cardinality(Q \ over) /\ IsFiniteSet(left)
      BY <2>3, <3>1, FS_Subset
    <3>3. Cardinality(left) \in Nat /\ Cardinality(Q \ over) \in Nat
      BY <3>1, <3>2, FS_CardinalityType
    <3> QED BY <2>5, <3>2, <3>3, LimitsAssumption
  <2> QED BY <2>2, <2>4, <2>5
<1>5. ASSUME MaxDirQueue > 0
      PROVE  \/ Cardinality({c \in left : Probe(c)}) <= MaxDirQueue
             \/ \A c \in left : Probe(c) => c \in Processing
  <2>1. dirs \in Limit(Probes(R \cap Discovered), Cardinality(Probes(R)) - MaxDirQueue)
    BY <1>1, <1>5, LimitsAssumption DEF DirOverflow
  <2>2. Probes(R \cap Discovered) \subseteq Probes(R)
    BY DEF Probes
  <2>3. Cardinality(Probes(R) \ dirs) <= MaxDirQueue \/ dirs = Probes(R \cap Discovered)
    BY <1>2, <2>1, <2>2, LimitLeaves, LimitsAssumption
  <2>4. {c \in left : Probe(c)} \subseteq Probes(R) \ dirs
    BY <1>3 DEF Probes
  <2>5. CASE dirs = Probes(R \cap Discovered)
    BY <1>3, <2>5 DEF Probes, Live
  <2>6. CASE Cardinality(Probes(R) \ dirs) <= MaxDirQueue
    <3>1. IsFiniteSet(Probes(R) \ dirs)
      BY <1>2, FS_Subset
    <3>2. /\ Cardinality({c \in left : Probe(c)}) <= Cardinality(Probes(R) \ dirs)
          /\ IsFiniteSet({c \in left : Probe(c)})
      BY <2>4, <3>1, FS_Subset
    <3>3. Cardinality({c \in left : Probe(c)}) \in Nat /\ Cardinality(Probes(R) \ dirs) \in Nat
      BY <3>1, <3>2, FS_CardinalityType
    <3> QED BY <2>6, <3>2, <3>3, LimitsAssumption
  <2> QED BY <2>3, <2>5, <2>6
<1> QED BY <1>4, <1>5

\* work.py, prune: max_queue and max_dir_queue hold for what it leaves, at start
\* and under the janitor, whatever workers have in hand and whichever rows the
\* lanes, the age and the lonely rule have already taken.
THEOREM PruneCapsHolds == Spec => PruneCaps
<1>1. TypeOK /\ [Next]_vars =>
        [LET left == Live \cap Live' IN
         \/ /\ Cardinality(left) <= MaxQueue \/ \A c \in left : KeepSrc(c)
            /\ MaxDirQueue > 0 =>
                 \/ Cardinality({c \in left : Probe(c)}) <= MaxDirQueue
                 \/ \A c \in left : Probe(c) => c \in Processing
         \/ ~(Prune \/ StartupPrune)]_vars
  BY PruneLeaves DEF Prune, StartupPrune
<1> QED BY <1>1, WorkQueueTypeCorrect, PTL DEF Spec, PruneCaps
=============================================================================
