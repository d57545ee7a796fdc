-------------------------- MODULE CatalogSnapshot --------------------------
(***************************************************************************)
(* export_snapshot of observer/store.py, the catch-up a peer pulls, and    *)
(* what a late joiner's empty catalog makes of it.                         *)
(***************************************************************************)
EXTENDS Catalog

\* Mutant: ORDER BY received_at ASC LIMIT n.
Newest_Ascending(S, n) == {m \in S : Cardinality({k \in S : messages[k] < messages[m]}) < n}

\* The rows of S that "ORDER BY received_at DESC LIMIT n" returns.
Newest(S, n) == {m \in S : Cardinality({k \in S : messages[k] > messages[m]}) < n}

Stored(S) == {m \in S : messages[m] # 0}

\* Mutant: every alias message ever stored, cleared names included.
SnapshotDocs_AllAliases ==
    Stored(OfKind("classify") \cup OfKind("report") \cup OfKind("alias"))

\* _SNAPSHOT_DOCS_SQL: every classify and report, and the alias message a row
\* of table aliases came from.
SnapshotDocs ==
    Stored(OfKind("classify") \cup OfKind("report")
           \cup {m \in OfKind("alias") : aliases[m.publisher] = m})

\* _SNAPSHOT_SKIPS_SQL: the skip messages of cids whose live skip is about scope.
SnapshotSkips ==
    Stored({m \in OfKind("skip") :
              /\ skips[m.cid] # NoRow
              /\ skips[m.cid].msg.reason \in {"out_of_scope", "not_academic"}})

\* Both parts go out oldest first, so a set and messages[] determine the file.
export_snapshot(limit) ==
    LET part == Newest(SnapshotDocs, limit)
    IN  part \cup Newest(SnapshotSkips, limit - Cardinality(part))

-----------------------------------------------------------------------------
\* What ingest_message of a fresh node leaves in reports for (c, p), and in
\* docs for c, after the messages S in order.
JoinerReport(S, c, p) ==
    LET log == {m \in S : m.kind = "report" /\ m.cid = c /\ m.publisher = p}
        last == CHOOSE m \in log : \A n \in log : messages[n] <= messages[m]
    IN  IF log = {} \/ last.reason = "clear" THEN NoRow ELSE last.reason

JoinerDoc(S, c) ==
    LET rows == {m \in S : m.kind = "classify" /\ m.cid = c}
    IN  IF rows = {} THEN NoRow
        ELSE CHOOSE m \in rows : \A n \in rows : messages[m] <= messages[n]

\* A late joiner that pulls a whole snapshot shows the same search rows, foreign
\* reports and foreign aliases as the node that served it.
JoinerAgrees ==
    LET S == export_snapshot(Cardinality(Universe))
    IN  /\ \A c \in Cids : JoinerDoc(S, c) = docs[c]
        /\ \A c \in Cids, p \in Publishers \ {Me} : JoinerReport(S, c, p) = reports[c][p]
        /\ \A p \in Publishers \ {Me} :
             {m \in S : m.kind = "alias" /\ m.publisher = p} = {aliases[p]} \ {NoRow}

\* However tight the limit, a snapshot never brings back a report its publisher
\* has withdrawn or replaced: a pair (c, p) it mentions ends up as it is here.
TruncationSafe ==
    \A limit \in 0 .. Cardinality(Stored(Universe)) :
        LET S == export_snapshot(limit)
        IN  \A m \in S : m.kind = "report" /\ m.publisher # Me =>
              JoinerReport(S, m.cid, m.publisher) = reports[m.cid][m.publisher]

\* store.py: "If the cap is tight, classifies / aliases / reports win over
\* out-of-scope skips."  The file also never exceeds the limit.
DocumentsWin ==
    \A limit \in 0 .. Cardinality(Stored(Universe)) :
        LET S == export_snapshot(limit)
        IN  /\ Cardinality(S) <= limit
            /\ S \cap OfKind("skip") # {} => SnapshotDocs \subseteq S

\* What a snapshot cut at any limit may leave out, and what it may not distort.
CutSafely == TruncationSafe /\ DocumentsWin
=============================================================================
