----------------------------- MODULE MCCatalog -----------------------------
(***************************************************************************)
(* Messages for the model-checking runs of the catalog.  A run asks        *)
(* several questions, each about some of the kinds: its Universe is the    *)
(* union of one set of messages per question, and its CONSTRAINT keeps the *)
(* messages of one state within one of these sets.                         *)
(***************************************************************************)
EXTENDS CatalogSnapshot

CONSTANTS p1, p2, me, c1, c2, bad

Classify(p, c, b) == [kind |-> "classify", publisher |-> p, cid |-> c, by |-> b]
Skip(p, c, r) == [kind |-> "skip", publisher |-> p, cid |-> c, reason |-> r]
Claim(p, c, u) == [kind |-> "claim", publisher |-> p, cid |-> c, until |-> u]
Alias(p, a) == [kind |-> "alias", publisher |-> p, alias |-> a]
Report(p, c, r) == [kind |-> "report", publisher |-> p, cid |-> c, reason |-> r]

\* The messages stored or being ingested are of S; legacy rows are not counted.
Within(S) ==
    /\ \A m \in Universe \ Legacy : messages[m] # 0 => m \in S
    /\ \A t \in Threads : pc[t] # Idle => pc[t].msg \in S

-----------------------------------------------------------------------------
\* Who labelled what: two foreign publishers and this node on one cid, one of
\* them twice, a second cid, a malformed cid, and a report that makes
\* blacklist rebuild a row of somebody else.
Labels ==
    {Classify(p1, c1, "model"), Classify(p1, c1, "reuse"), Classify(p2, c1, "model"),
     Classify(me, c1, "model"), Classify(p1, c2, "reuse"), Classify(p2, bad, "model"),
     Report(p1, c1, "abusive")}
LegacyLabel == {Classify(p2, bad, "model")}

\* Leases of one publisher on two cids, and skips that persist, expire, or are
\* purged at start.
Leases ==
    {Claim(p1, c1, 5), Claim(p1, c2, 6), Claim(p2, c1, 6), Classify(p2, c1, "model"),
     Skip(p1, c1, "unprocessable"), Skip(p2, c1, "out_of_scope")}

\* This node's reports and a foreign one, next to the proposals of guests; three
\* ingests, one fewer than elsewhere.
Proposals ==
    {Report(me, c1, "wrong"), Report(me, c1, "abusive"), Report(me, c1, "clear"),
     Report(p1, c1, "abusive")}
Guests == {<<c1, "wrong">>, <<c1, "abusive">>}

TablesUniverse == Labels \cup Leases \cup Proposals
OneOfTables ==
    \/ Within(Labels) /\ proposals = {}
    \/ Within(Leases) /\ proposals = {}
    \/ Within(Proposals) /\ clock < MaxClock

-----------------------------------------------------------------------------
\* Reports and aliases, of a foreign publisher and of this node, and the
\* classifies that decide whether a review or a second vote is due.
Reports ==
    {Report(p1, c1, "wrong"), Report(p1, c1, "abusive"), Report(p1, c1, "clear"),
     Report(me, c1, "wrong"), Report(me, c1, "clear"), Alias(p1, "a"), Alias(p1, ""),
     Classify(p1, c1, "model"), Classify(me, c1, "model")}

\* What a snapshot carries: labels of two publishers, a report that is
\* withdrawn, an alias that is, and a skip about scope.
Snapshot ==
    {Classify(p1, c1, "model"), Classify(p2, c1, "model"), Report(p1, c1, "wrong"),
     Report(p1, c1, "clear"), Alias(p1, "a"), Alias(p1, ""), Skip(p2, c2, "out_of_scope")}

ReportsUniverse == Reports \cup Snapshot
OneOfReports == Within(Reports) \/ Within(Snapshot)

-----------------------------------------------------------------------------
\* This node's own report, which both a web thread and the drain thread ingest.
OwnReportUniverse == {Report(me, c1, "clear"), Alias(p1, "a")}

NoLegacy == {}
=============================================================================
