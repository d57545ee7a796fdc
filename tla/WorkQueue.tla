------------------------------ MODULE WorkQueue ------------------------------
(***************************************************************************)
(* work.sqlite, the queue of sniffed CIDs this node has still to look at,  *)
(* and the threads that share it: the spool thread that admits WANTs, the  *)
(* ingest and web threads that queue reviews, the janitor that prunes and  *)
(* evicts, the workers that take a row, fetch the CID and write the        *)
(* outcome back, and the start of the process after a crash.               *)
(*                                                                         *)
(* Every function of work.py runs under the process-wide lock _db_lock, so *)
(* one call is one step; between two calls of one thread all others run.   *)
(* The exception is enqueue_doc_children, whose children are one step each *)
(* with the lock held (Locked).  Statements commit one by one, so a crash  *)
(* inside a function leaves the first of them: those are the Crash actions *)
(* at the end.                                                             *)
(*                                                                         *)
(* There is no clock.  The code compares first_seen, last_seen and         *)
(* last_checked with the current time when it takes, prunes and expires;   *)
(* any time may pass between two steps, so the rows that are old enough    *)
(* are chosen where they are read.  ORDER BY last_seen is such a choice    *)
(* too.  What the club catalog knows of a CID is chosen where it is asked. *)
(***************************************************************************)
EXTENDS Integers, Sequences, FiniteSets, FiniteSetsExt

CONSTANTS
    Cids,           \* valid CIDs
    Codec,          \* Codec[c]: the codec in the CID itself
    Links,          \* Links[c]: the PDF names a directory c lists, in order
    Peers,          \* Bitswap peers
    Workers,        \* worker threads
    FetchNames,     \* what the name of a fetched file can be
    SkipErrors,     \* why a skip is written: the ones told apart below
    NoRow,          \* no row with this key, no CID in hand
    MaxQueue, MaxDirQueue, MaxDirProbes, MaxDirDocs, MaxNamed,
    LaneWorkers, MinPeerCount, PreferMinPeerCount,
    MaxRetries, MaxTimeoutRetries,
    Batch, EvictedKeep,
    MaxWants, MaxReviews, MaxCrashes    \* bounds of the environment

Codecs == {"dag-pb", "raw", "json", "dag-cbor"}

VARIABLES
    cids,           \* table cids: a row or NoRow for every CID
    cid_peers,      \* table cid_peers: the peers seen asking for a CID
    evicted,        \* table evicted: the peer count at eviction, or NoRow
    unprocessable,  \* table unprocessable
    stage,          \* where each worker is in process_one
    hand,           \* the CID a worker has taken, NoRow when idle
    tries,          \* row["attempts"] when the worker took the row
    links,          \* names a worker has still to queue
    janitor,        \* where the janitor is in run_once
    phase,          \* the process: down, starting, or up
    wants, reviews, crashes

db == <<cids, cid_peers, evicted, unprocessable>>
worker == <<stage, hand, tries, links>>
budget == <<wants, reviews, crashes>>
vars == <<db, worker, janitor, phase, budget>>
------------------------------------------------------------------------------
(***************************************************************************)
(* Rows.  A name is a *.pdf name, another name, or NULL.  An error is only *)
(* told apart where some query reads it: a scope skip of a PDF, a scope    *)
(* skip of something else, a local skip that expires, a failed publish.    *)
(***************************************************************************)
Statuses == {"discovered", "processing", "indexed", "skipped"}
Sources  == {"sniff", "named", "report"}
Names    == {"none", "pdf", "html"}
Errors   == {"none", "scope", "scope_pdf", "local", "publish_failed"}

SlowMax    == MaxTimeoutRetries + 1
GenericMax == MaxRetries + 1
AttemptCap == IF SlowMax > GenericMax THEN SlowMax ELSE GenericMax

Row == [status: Statuses, source: Sources, peers: Nat \ {0},
        attempts: 0 .. AttemptCap, name: Names, error: Errors]

LaneCap == IF MaxQueue \div 2 > 1 THEN MaxQueue \div 2 ELSE 1

Least(a, b) == IF a < b THEN a ELSE b

Rows == {c \in Cids : cids[c] # NoRow}
WithStatus(s) == {c \in Rows : cids[c].status = s}
Discovered == WithStatus("discovered")
Processing == WithStatus("processing")
Live == Discovered \cup Processing

KeepSrc(c) == cids[c].source \in {"report", "named"}
IsPdf(c)   == cids[c].name = "pdf"

\* A sniffed dag-pb root: a folder or a PDF, not known before it is fetched.
Probe(c) == Codec[c] = "dag-pb" /\ ~KeepSrc(c) /\ ~IsPdf(c)
PdfLane(c)  == IsPdf(c) \/ cids[c].source = "named" \/ Codec[c] = "dag-pb"
HtmlLane(c) == ~PdfLane(c)

Probes(S)   == {c \in S : Probe(c)}
PdfRows(S)  == {c \in S : PdfLane(c)}
HtmlRows(S) == {c \in S : HtmlLane(c)}

ASSUME DataAssumption ==
    /\ IsFiniteSet(Cids) /\ NoRow \notin Cids
    /\ IsFiniteSet(Peers)
    /\ NoRow \notin Row /\ NoRow \notin Nat
    /\ Codec \in [Cids -> Codecs]
    /\ Links \in [Cids -> Seq(Cids)]
    /\ FetchNames \subseteq Names
    /\ SkipErrors \subseteq {"scope", "scope_pdf", "local"}

ASSUME LimitsAssumption ==
    /\ MaxQueue \in Nat /\ MaxDirQueue \in Nat /\ MaxDirProbes \in Nat
    /\ MaxRetries \in Nat /\ MaxTimeoutRetries \in Nat /\ MaxDirDocs \in Nat
    /\ MaxWants \in Nat /\ MaxReviews \in Nat /\ MaxCrashes \in Nat

\* One lane may use what the other leaves of its half.
pdf_can_admit ==
    Cardinality(PdfRows(Live)) < MaxQueue - Least(Cardinality(HtmlRows(Live)), LaneCap)
html_can_admit ==
    Cardinality(HtmlRows(Live)) < MaxQueue - Least(Cardinality(PdfRows(Live)), LaneCap)

\* Any n of the rows S: ORDER BY last_seen ASC LIMIT n.
Limit(S, n) == kSubset(IF n < 0 THEN 0 ELSE Least(n, Cardinality(S)), S)

\* UPDATE cids ... WHERE cid = c, which does nothing when the row is gone.
Update(c, row) == IF cids[c] = NoRow THEN cids ELSE [cids EXCEPT ![c] = row]

Insert(c, source, peers, name) ==
    [cids EXCEPT ![c] = [status |-> "discovered", source |-> source, peers |-> peers,
                         attempts |-> 0, name |-> name, error |-> "none"]]

\* forget_cid for the CIDs S.
Without(table, S, empty) == [c \in Cids |-> IF c \in S THEN empty ELSE table[c]]

AtMostOne(S) == {{}} \cup {{c} : c \in S}

Locked == \E w \in Workers : stage[w] = "listing"
Up == phase = "up" /\ ~Locked
------------------------------------------------------------------------------
(***************************************************************************)
(* The spool thread: one WANT line.  Lines the sniffer repeats, lines read *)
(* again after a crash and CIDs ingest_file finds in the catalog are all   *)
(* covered by which WANTs come, and how often.                             *)
(***************************************************************************)
EvictionHolds(c) ==
    evicted[c] # NoRow /\ Cardinality(cid_peers[c]) + 1 <= evicted[c]

Admits(c, n) ==
    IF Codec[c] = "dag-pb"
    THEN pdf_can_admit /\ Cardinality(Probes(Live)) < MaxDirQueue
    ELSE n >= PreferMinPeerCount /\ html_can_admit

\* Mutant: the count goes up with every WANT, as want_count does.
_record_CountsWants(c, p) ==
    /\ Codec[c] \notin {"json", "dag-cbor"}
    /\ c \notin unprocessable
    /\ cid_peers' = [cid_peers EXCEPT ![c] = @ \cup {p}]
    /\ LET n == Cardinality(cid_peers'[c]) IN
       IF EvictionHolds(c)
       THEN UNCHANGED <<cids, evicted>>
       ELSE /\ evicted' = [evicted EXCEPT ![c] = NoRow]
            /\ cids' = IF cids[c] # NoRow THEN [cids EXCEPT ![c].peers = @ + 1]
                       ELSE IF Admits(c, n) THEN Insert(c, "sniff", n, "none")
                       ELSE cids
    /\ UNCHANGED unprocessable

_record(c, p) ==
    /\ Codec[c] \notin {"json", "dag-cbor"}
    /\ c \notin unprocessable
    /\ cid_peers' = [cid_peers EXCEPT ![c] = @ \cup {p}]
    /\ LET n == Cardinality(cid_peers'[c]) IN
       IF EvictionHolds(c)
       THEN UNCHANGED <<cids, evicted>>
       ELSE /\ evicted' = [evicted EXCEPT ![c] = NoRow]
            /\ cids' = IF cids[c] # NoRow THEN [cids EXCEPT ![c].peers = n]
                       ELSE IF Admits(c, n) THEN Insert(c, "sniff", n, "none")
                       ELSE cids
    /\ UNCHANGED unprocessable

Want(c, p) ==
    /\ Up
    /\ wants < MaxWants
    /\ wants' = wants + 1
    /\ _record(c, p)
    /\ UNCHANGED <<worker, janitor, phase, reviews, crashes>>

(***************************************************************************)
(* The ingest and web threads: a wrong report, or the second vote.  That   *)
(* this node has not classified the CID itself is asked before the lock.   *)
(***************************************************************************)
Reviewed(row) ==
    [row EXCEPT !.source = "report", !.peers = IF row.peers > 1 THEN row.peers ELSE 1,
                !.status = "discovered", !.attempts = 0, !.error = "none"]

EnqueueReview(c) ==
    /\ Up
    /\ reviews < MaxReviews
    /\ reviews' = reviews + 1
    /\ cids' = IF cids[c] = NoRow THEN Insert(c, "report", 1, "none")
               ELSE [cids EXCEPT ![c] = Reviewed(@)]
    /\ UNCHANGED <<cid_peers, evicted, unprocessable, worker, janitor, phase,
                   wants, crashes>>
------------------------------------------------------------------------------
(***************************************************************************)
(* take_batch(limit=1).  ready are the sniffed rows whose first_seen is    *)
(* old enough and whose last_seen is recent enough; a report or named row  *)
(* is inserted with an old first_seen and exempt from the second test.     *)
(***************************************************************************)
Selectable(c, peers, ready) ==
    /\ cids[c].peers >= peers
    /\ cids[c].attempts < AttemptCap
    /\ Codec[c] # "json"
    /\ KeepSrc(c) \/ c \in ready

TakeRank(c) ==
    IF KeepSrc(c) \/ IsPdf(c) THEN 0
    ELSE IF cids[c].name = "html" THEN 1
    ELSE IF Codec[c] = "dag-pb" THEN 2 ELSE 3

Before(c, d) ==
    \/ TakeRank(c) < TakeRank(d)
    \/ TakeRank(c) = TakeRank(d) /\ cids[c].peers >= cids[d].peers

First(S) == {c \in S : \A d \in S : Before(c, d)}

HigherPeers == IF MinPeerCount > PreferMinPeerCount THEN MinPeerCount ELSE PreferMinPeerCount

\* Mutant: the probe budget is not asked.
NextPdf_NoBudget(ready) ==
    LET able  == {c \in Discovered : Selectable(c, MinPeerCount, ready)}
        named == {c \in able : KeepSrc(c) \/ IsPdf(c)} IN
    IF named # {} THEN First(named) ELSE First(Probes(able))

NextPdf(ready) ==
    LET able  == {c \in Discovered : Selectable(c, MinPeerCount, ready)}
        named == {c \in able : KeepSrc(c) \/ IsPdf(c)} IN
    IF named # {} THEN First(named)
    ELSE IF Cardinality(Probes(Processing)) < MaxDirProbes THEN First(Probes(able))
    ELSE {}

NextHtml(ready) ==
    First({c \in HtmlRows(Discovered) : Selectable(c, HigherPeers, ready)})

\* Half the workers hunt PDFs, half hunt HTML, when both exist.
LanePick(pdf, html) ==
    LET pdfBusy  == Cardinality(PdfRows(Processing))
        htmlBusy == Cardinality(HtmlRows(Processing)) IN
    IF pdf # {} /\ html # {}
    THEN IF pdfBusy < LaneWorkers /\ pdfBusy <= htmlBusy THEN pdf
         ELSE IF htmlBusy < LaneWorkers THEN html
         ELSE IF pdfBusy < LaneWorkers THEN pdf
         ELSE {}
    ELSE pdf \cup html

Picks(ready) ==
    LET reports == {c \in Discovered : /\ cids[c].source = "report"
                                       /\ Selectable(c, MinPeerCount, ready)} IN
    IF reports # {} THEN First(reports)
    ELSE LanePick(NextPdf(ready), NextHtml(ready))

TakeBatch(w) ==
    /\ Up
    /\ stage[w] = "idle"
    /\ \E ready \in SUBSET {c \in Discovered : ~KeepSrc(c)} : \E c \in Picks(ready) :
          /\ cids' = [cids EXCEPT ![c].status = "processing"]
          /\ hand' = [hand EXCEPT ![w] = c]
          /\ tries' = [tries EXCEPT ![w] = cids[c].attempts]
    /\ stage' = [stage EXCEPT ![w] = "hook"]
    /\ UNCHANGED <<cid_peers, evicted, unprocessable, links, janitor, phase, budget>>
------------------------------------------------------------------------------
(***************************************************************************)
(* process_one: every write a worker makes to the row it has taken.        *)
(***************************************************************************)
Idle(w) ==
    /\ stage' = [stage EXCEPT ![w] = "idle"]
    /\ hand' = [hand EXCEPT ![w] = NoRow]
    /\ tries' = [tries EXCEPT ![w] = 0]
    /\ links' = [links EXCEPT ![w] = <<>>]

\* The outcome of a row is one UPDATE; the worker then returns.
Finish(w, row) ==
    /\ cids' = Update(hand[w], row)
    /\ Idle(w)
    /\ UNCHANGED <<cid_peers, evicted, unprocessable, janitor, phase, budget>>

At(w, s) == Up /\ stage[w] = s

\* The skip-hook: the club has a skip, a classify or a foreign live claim.
HookSkipped(w) ==
    /\ At(w, "hook")
    /\ \E e \in (SkipErrors \ {"scope_pdf"}) \cup {"none"} :
          Finish(w, [cids[hand[w]] EXCEPT !.status = "skipped", !.error = e])

HookIndexed(w) ==
    /\ At(w, "hook")
    /\ \E n \in FetchNames :
          Finish(w, [cids[hand[w]] EXCEPT !.status = "indexed", !.name = n, !.error = "none"])

\* Mutant: a CID claimed elsewhere is parked without a write.
HookClaimed_NoMark(w) ==
    /\ At(w, "hook")
    /\ Finish(w, cids[hand[w]])

HookClaimed(w) ==
    /\ At(w, "hook")
    /\ Finish(w, [cids[hand[w]] EXCEPT !.status = "discovered"])

\* Mutant: attempts = attempts + 1 in the table, instead of from the row taken.
BumpAttempts_InPlace(w) ==
    /\ At(w, "hook")
    /\ cids' = Update(hand[w], [cids[hand[w]] EXCEPT !.attempts = @ + 1])
    /\ stage' = [stage EXCEPT ![w] = "fetch"]
    /\ UNCHANGED <<cid_peers, evicted, unprocessable, hand, tries, links, janitor,
                   phase, budget>>

BumpAttempts(w) ==
    /\ At(w, "hook")
    /\ cids' = Update(hand[w], [cids[hand[w]] EXCEPT !.attempts = tries[w] + 1])
    /\ stage' = [stage EXCEPT ![w] = "fetch"]
    /\ UNCHANGED <<cid_peers, evicted, unprocessable, hand, tries, links, janitor,
                   phase, budget>>

\* A fetch that failed: the host said it is gone, was slow, or anything else.
FetchFailed(w) ==
    /\ At(w, "fetch")
    /\ \E why \in {"dead", "slow", "other"} :
          LET attempts == tries[w] + 1
              giveUp == \/ why = "dead"
                        \/ why = "slow" /\ attempts >= SlowMax
                        \/ why = "other" /\ attempts >= GenericMax IN
          /\ cids' = IF giveUp THEN [cids EXCEPT ![hand[w]] = NoRow]
                     ELSE Update(hand[w], [cids[hand[w]] EXCEPT !.status = "discovered",
                                                                !.error = "none"])
          /\ cid_peers' = IF giveUp THEN [cid_peers EXCEPT ![hand[w]] = {}] ELSE cid_peers
    /\ Idle(w)
    /\ UNCHANGED <<evicted, unprocessable, janitor, phase, budget>>

\* A truncated PDF, no text, out of scope by the heuristic or the model.  The
\* file name of the fetched node replaces the name of the row.
MarkSkipped(w) ==
    /\ At(w, "fetch")
    /\ \E e \in SkipErrors, n \in FetchNames :
          Finish(w, [cids[hand[w]] EXCEPT !.status = "skipped", !.name = n, !.error = e])

\* Images, CSS and scripts leave the queue for good.
RememberBinary(w) ==
    /\ At(w, "fetch")
    /\ unprocessable' = unprocessable \cup {hand[w]}
    /\ cids' = [cids EXCEPT ![hand[w]] = NoRow]
    /\ cid_peers' = [cid_peers EXCEPT ![hand[w]] = {}]
    /\ Idle(w)
    /\ UNCHANGED <<evicted, janitor, phase, budget>>

MarkIndexed(w) ==
    /\ At(w, "fetch")
    /\ \E n \in FetchNames :
          Finish(w, [cids[hand[w]] EXCEPT !.status = "indexed", !.name = n, !.error = "none"])

\* clubd refused the record, or the model is down: attempts are given back.
RetryLater(w) ==
    /\ At(w, "fetch")
    /\ \E e \in {"publish_failed", "none"}, n \in FetchNames :
          Finish(w, [cids[hand[w]] EXCEPT !.status = "discovered", !.name = n,
                                          !.error = e, !.attempts = tries[w]])

\* An exception anywhere in process_one.
WorkerError(w) ==
    /\ phase = "up"
    /\ stage[w] # "idle"
    /\ Locked => stage[w] = "listing"
    /\ Finish(w, [cids[hand[w]] EXCEPT !.status = "discovered", !.error = "none",
                                       !.attempts = tries[w]])
------------------------------------------------------------------------------
(***************************************************************************)
(* A fetched directory: queue the PDFs it names, then forget the folder.   *)
(***************************************************************************)
NamedNonPdf == {c \in Discovered : cids[c].source = "named" /\ ~IsPdf(c)}

Picked(c) == SubSeq(Links[c], 1, Least(MaxDirDocs, Len(Links[c])))

FetchedDirectory(w) ==
    /\ At(w, "fetch")
    /\ Codec[hand[w]] = "dag-pb"
    /\ IF Picked(hand[w]) = <<>>
       THEN /\ stage' = [stage EXCEPT ![w] = "drop"]
            /\ UNCHANGED <<cids, cid_peers, links>>
       ELSE /\ stage' = [stage EXCEPT ![w] = "listing"]
            /\ links' = [links EXCEPT ![w] = Picked(hand[w])]
            /\ cids' = Without(cids, NamedNonPdf, NoRow)
            /\ cid_peers' = Without(cid_peers, NamedNonPdf, {})
    /\ UNCHANGED <<evicted, unprocessable, hand, tries, janitor, phase, budget>>

\* After the last name, or at a break, the lock is released.
Listed(w, rest) ==
    /\ links' = [links EXCEPT ![w] = rest]
    /\ stage' = [stage EXCEPT ![w] = IF rest = <<>> THEN "drop" ELSE "listing"]

\* Mutant: a directory may name a known binary.
Queueable_AnyBinary(w, c) == c # hand[w]

Queueable(w, c) == c # hand[w] /\ c \notin unprocessable

NamedLive == {c \in Live : cids[c].source = "named"}

\* filename = COALESCE(filename, ?)
Named(row) == [row EXCEPT !.name = IF row.name = "none" THEN "pdf" ELSE row.name]

\* The next name is a CID to be inserted.
NeedsSlot(w) ==
    /\ phase = "up" /\ stage[w] = "listing"
    /\ Cardinality(NamedLive) < MaxNamed
    /\ Queueable(w, Head(links[w])) /\ cids[Head(links[w])] = NoRow

EnqueueChild(w) ==
    /\ phase = "up"
    /\ stage[w] = "listing"
    /\ LET c == Head(links[w])
           rest == Tail(links[w]) IN
       \/ /\ Cardinality(NamedLive) >= MaxNamed
          /\ Listed(w, <<>>)
          /\ UNCHANGED <<cids, cid_peers>>
       \/ \* the folder itself, a known binary, or already in the catalog
          /\ Cardinality(NamedLive) < MaxNamed
          /\ Listed(w, rest)
          /\ UNCHANGED <<cids, cid_peers>>
       \/ /\ Cardinality(NamedLive) < MaxNamed
          /\ Queueable(w, c)
          /\ cids[c] # NoRow
          /\ cids' = [cids EXCEPT ![c] = Named(@)]
          /\ Listed(w, rest)
          /\ UNCHANGED cid_peers
       \/ /\ NeedsSlot(w)
          /\ \E gone \in IF pdf_can_admit THEN {{}} ELSE Limit(Probes(Discovered), 1) :
                IF ~pdf_can_admit /\ gone = {}
                THEN Listed(w, <<>>) /\ UNCHANGED <<cids, cid_peers>>
                ELSE /\ cids' = Without(Insert(c, "named", 1, "pdf"), gone, NoRow)
                     /\ cid_peers' = Without(cid_peers, gone, {})
                     /\ Listed(w, rest)
    /\ UNCHANGED <<evicted, unprocessable, hand, tries, janitor, phase, budget>>

PeerCount(c) == IF cids[c] = NoRow THEN 1 ELSE cids[c].peers

DropDirectory(w) ==
    /\ At(w, "drop")
    /\ evicted' = [evicted EXCEPT ![hand[w]] = PeerCount(hand[w])]
    /\ cids' = [cids EXCEPT ![hand[w]] = NoRow]
    /\ cid_peers' = [cid_peers EXCEPT ![hand[w]] = {}]
    /\ Idle(w)
    /\ UNCHANGED <<unprocessable, janitor, phase, budget>>
------------------------------------------------------------------------------
(***************************************************************************)
(* prune.  Each set is what one of its queries deletes, from what the ones *)
(* before it left; due are the skips expire_local_skips finds expired.     *)
(***************************************************************************)
Lonely(c) ==
    /\ ~KeepSrc(c) /\ Codec[c] # "dag-pb" /\ ~IsPdf(c)
    /\ cids[c].peers < PreferMinPeerCount

LonelyRaw(S) == {c \in S : Lonely(c)}

ExpiringSkips == {c \in WithStatus("skipped") : cids[c].error \in {"scope_pdf", "local"}}

\* CASE WHEN codec = 'dag-pb' AND not a *.pdf THEN 0 WHEN 'raw' THEN 1 ELSE 2
ExtraRank(c) ==
    IF Codec[c] = "dag-pb" /\ ~IsPdf(c) THEN 0 ELSE IF Codec[c] = "raw" THEN 1 ELSE 2

\* LIMIT n with that order: nothing stays that ranks before something deleted.
\* Mutant: rows a worker has in hand are spared.
LimitExtra_SparesTaken(S, n) ==
    {D \in Limit(S \cap Discovered, n) :
        \A c \in D, d \in (S \cap Discovered) \ D : ExtraRank(c) <= ExtraRank(d)}

LimitExtra(S, n) ==
    {D \in Limit(S, n) : \A c \in D, d \in S \ D : ExtraRank(c) <= ExtraRank(d)}

AllOf(deleted) == UNION {deleted[k] : k \in DOMAIN deleted}

\* The tables when the six loops have deleted theirs, the skips are back and some
\* of those are gone again; drop_lonely_raw, the second loop, keeps the peers.
Requeued(deleted, due, gone) ==
    /\ cids' = [c \in Cids |->
                  IF c \in AllOf(deleted) \cup gone THEN NoRow
                  ELSE IF c \in due
                  THEN [cids[c] EXCEPT !.status = "discovered", !.attempts = 0, !.error = "none"]
                  ELSE cids[c]]
    /\ cid_peers' = Without(cid_peers, AllOf(deleted) \ deleted[2], {})

\* drop_lonely_raw runs a second time at the end.
Pruned(deleted, due) == Requeued(deleted, due, LonelyRaw(due))

\* The first loops have run, the next one has come as far as done, and has deleted
\* the peers of another row; or some skips are back.
PrunedInPart(deleted, due) ==
    \/ \E k \in {j \in DOMAIN deleted : deleted[j] # {}} :
          LET before == UNION {deleted[j] : j \in 1 .. (k - 1)} IN
          \E done \in SUBSET deleted[k] : \E half \in AtMostOne(deleted[k] \ done) :
             /\ cids' = Without(cids, before \cup done, NoRow)
             /\ cid_peers' = Without(cid_peers, (before \cup done \cup half) \ deleted[2], {})
    \/ \E gone \in (SUBSET LonelyRaw(due)) \ {LonelyRaw(due)} : Requeued(deleted, due, gone)

\* Each lane down to what the other leaves of the queue.  html_n is reduced by
\* the whole excess, also when fewer rows could be deleted.
LaneOverflow(left) ==
    LET pdf  == Cardinality(PdfRows(left))
        html == Cardinality(HtmlRows(left))
        extraHtml == html - (MaxQueue - Least(pdf, LaneCap))
        htmlLeft  == IF extraHtml > 0 THEN html - extraHtml ELSE html
        extraPdf  == pdf - (MaxQueue - Least(htmlLeft, LaneCap)) IN
    {h \cup p : h \in Limit(HtmlRows(left \cap Discovered), extraHtml),
                p \in Limit(Probes(left \cap Discovered), extraPdf)}

QueueOverflow(left) ==
    LimitExtra({c \in left : ~KeepSrc(c)}, Cardinality(left) - MaxQueue)

DirOverflow(left) ==
    IF MaxDirQueue = 0 THEN {{}}
    ELSE Limit(Probes(left \cap Discovered), Cardinality(Probes(left)) - MaxDirQueue)

\* One run of prune, whole or cut off by a crash.
PruneQueue(cut) ==
    \E old \in SUBSET {c \in Live : ~KeepSrc(c)}, due \in SUBSET ExpiringSkips :
    LET lonely == LonelyRaw(Discovered)
        left   == Live \ (NamedNonPdf \cup lonely \cup old) IN
    \E lanes \in LaneOverflow(left) :
    \E over  \in QueueOverflow(left \ lanes) :
    \E dirs  \in DirOverflow(left \ (lanes \cup over)) :
    LET deleted == <<NamedNonPdf, lonely, old, lanes, over, dirs>> IN
       IF cut THEN PrunedInPart(deleted, due) ELSE Pruned(deleted, due)

\* janitor.run_once: prune, and over the disk budget trim and evict batches.
Prune ==
    /\ Up
    /\ janitor = "idle"
    /\ PruneQueue(FALSE)
    /\ janitor' \in {"idle", "over"}
    /\ UNCHANGED <<evicted, unprocessable, worker, phase, budget>>

TrimEvicted ==
    /\ Up
    /\ janitor = "over"
    /\ LET held == {c \in Cids : evicted[c] # NoRow} IN
       \E gone \in Limit(held, Cardinality(held) - EvictedKeep) :
          evicted' = Without(evicted, gone, NoRow)
    /\ janitor' \in {"idle", "evict"}
    /\ UNCHANGED <<cids, cid_peers, unprocessable, worker, phase, budget>>

EvictBatch ==
    /\ Up
    /\ janitor = "evict"
    /\ \E gone \in Limit(Rows, Batch) :
          /\ evicted' = [c \in Cids |-> IF c \in gone THEN cids[c].peers ELSE evicted[c]]
          /\ cids' = Without(cids, gone, NoRow)
          /\ cid_peers' = Without(cid_peers, gone, {})
    /\ janitor' \in IF Rows = {} THEN {"idle"} ELSE {"idle", "evict"}
    /\ UNCHANGED <<unprocessable, worker, phase, budget>>
------------------------------------------------------------------------------
(***************************************************************************)
(* The process: it stops anywhere, and main() runs three steps before it   *)
(* starts a thread.  published are the CIDs whose record is in the club.   *)
(***************************************************************************)
Stop ==
    /\ phase # "down"
    /\ crashes < MaxCrashes
    /\ crashes' = crashes + 1
    /\ phase' = "down"
    /\ janitor' = "idle"
    /\ stage' = [w \in Workers |-> "idle"]
    /\ hand' = [w \in Workers |-> NoRow]
    /\ tries' = [w \in Workers |-> 0]
    /\ links' = [w \in Workers |-> <<>>]
    /\ UNCHANGED <<wants, reviews>>

Crash == Stop /\ UNCHANGED db

\* forget_cid has come as far as done, and has deleted the peers of another row.
ForgottenInPart(S) ==
    \E done \in SUBSET S : \E half \in AtMostOne(S \ done) :
       /\ cids' = Without(cids, done, NoRow)
       /\ cid_peers' = Without(cid_peers, done \cup half, {})

\* In FetchFailed, in drop_named_non_pdf of FetchedDirectory, and in EnqueueChild
\* before the INSERT.
CrashForgetting(w) ==
    /\ Stop
    /\ \/ At(w, "fetch") /\ ForgottenInPart({hand[w]})
       \/ /\ At(w, "fetch")
          /\ Codec[hand[w]] = "dag-pb" /\ Picked(hand[w]) # <<>>
          /\ ForgottenInPart(NamedNonPdf)
       \/ /\ NeedsSlot(w) /\ ~pdf_can_admit
          /\ \E gone \in Limit(Probes(Discovered), 1) : ForgottenInPart(gone)
    /\ UNCHANGED <<evicted, unprocessable>>

CrashRemembering(w) ==
    /\ Stop
    /\ At(w, "fetch")
    /\ unprocessable' = unprocessable \cup {hand[w]}
    /\ ForgottenInPart({hand[w]})
    /\ UNCHANGED evicted

CrashDropping(w) ==
    /\ Stop
    /\ At(w, "drop")
    /\ evicted' = [evicted EXCEPT ![hand[w]] = PeerCount(hand[w])]
    /\ ForgottenInPart({hand[w]})
    /\ UNCHANGED unprocessable

CrashPruning ==
    /\ Stop
    /\ (Up /\ janitor = "idle") \/ phase = "requeued"
    /\ PruneQueue(TRUE)
    /\ UNCHANGED <<evicted, unprocessable>>

CrashEvicting ==
    /\ Stop
    /\ Up /\ janitor = "evict"
    /\ \E gone \in Limit(Rows, Batch) : \E done \in SUBSET gone : \E next \in AtMostOne(gone \ done) :
          /\ evicted' = [c \in Cids |-> IF c \in done \cup next THEN cids[c].peers ELSE evicted[c]]
          /\ cids' = Without(cids, done, NoRow)
          /\ \E half \in {{}, next} : cid_peers' = Without(cid_peers, done \cup half, {})
    /\ UNCHANGED unprocessable

Starting(from, to) ==
    /\ phase = from
    /\ phase' = to
    /\ UNCHANGED <<worker, janitor, budget>>

ReleaseOrphans ==
    /\ Starting("down", "released")
    /\ cids' = [c \in Cids |-> IF c \in Processing
                               THEN [cids[c] EXCEPT !.status = "discovered"] ELSE cids[c]]
    /\ UNCHANGED <<cid_peers, evicted, unprocessable>>

Unpublished(published) ==
    {c \in Rows : /\ c \notin published
                  /\ \/ cids[c].status = "indexed"
                     \/ cids[c].status = "skipped" /\ cids[c].error \in {"scope", "scope_pdf"}}

RequeueUnpublished ==
    /\ Starting("released", "requeued")
    /\ \E published \in SUBSET Cids :
          cids' = [c \in Cids |->
                     IF c \in Unpublished(published)
                     THEN [cids[c] EXCEPT !.status = "discovered", !.attempts = 0,
                                          !.error = "none"]
                     ELSE IF c \in Rows /\ cids[c].error = "publish_failed"
                     THEN [cids[c] EXCEPT !.status = "discovered", !.attempts = 0]
                     ELSE cids[c]]
    /\ UNCHANGED <<cid_peers, evicted, unprocessable>>

StartupPrune ==
    /\ Starting("requeued", "up")
    /\ PruneQueue(FALSE)
    /\ UNCHANGED <<evicted, unprocessable>>
------------------------------------------------------------------------------
Init ==
    /\ cids = [c \in Cids |-> NoRow]
    /\ cid_peers = [c \in Cids |-> {}]
    /\ evicted = [c \in Cids |-> NoRow]
    /\ unprocessable = {}
    /\ stage = [w \in Workers |-> "idle"]
    /\ hand = [w \in Workers |-> NoRow]
    /\ tries = [w \in Workers |-> 0]
    /\ links = [w \in Workers |-> <<>>]
    /\ janitor = "idle"
    /\ phase = "up"
    /\ wants = 0
    /\ reviews = 0
    /\ crashes = 0

WorkerStep(w) ==
    \/ TakeBatch(w)
    \/ HookSkipped(w) \/ HookIndexed(w) \/ HookClaimed(w) \/ BumpAttempts(w)
    \/ FetchFailed(w) \/ MarkSkipped(w) \/ RememberBinary(w) \/ MarkIndexed(w)
    \/ RetryLater(w) \/ WorkerError(w)
    \/ FetchedDirectory(w) \/ EnqueueChild(w) \/ DropDirectory(w)

Next ==
    \/ \E c \in Cids, p \in Peers : Want(c, p)
    \/ \E c \in Cids : EnqueueReview(c)
    \/ \E w \in Workers : WorkerStep(w)
    \/ Prune \/ TrimEvicted \/ EvictBatch
    \/ \E w \in Workers : CrashForgetting(w) \/ CrashRemembering(w) \/ CrashDropping(w)
    \/ CrashPruning \/ CrashEvicting
    \/ Crash \/ ReleaseOrphans \/ RequeueUnpublished \/ StartupPrune

Spec == Init /\ [][Next]_vars
------------------------------------------------------------------------------
(***************************************************************************)
(* Properties.                                                             *)
(***************************************************************************)

\* Every table holds rows of its schema, no row has more attempts than the retry
\* budget, and a worker has a CID in hand exactly while it is in process_one.
TypeOK ==
    /\ cids \in [Cids -> Row \cup {NoRow}]
    /\ cid_peers \in [Cids -> SUBSET Peers]
    /\ evicted \in [Cids -> Nat \cup {NoRow}]
    /\ unprocessable \subseteq Cids
    /\ stage \in [Workers -> {"idle", "hook", "fetch", "listing", "drop"}]
    /\ hand \in [Workers -> Cids \cup {NoRow}]
    /\ tries \in [Workers -> 0 .. (AttemptCap - 1)]
    /\ links \in [Workers -> Seq(Cids)]
    /\ janitor \in {"idle", "over", "evict"}
    /\ phase \in {"down", "released", "requeued", "up"}
    /\ wants \in 0 .. MaxWants /\ reviews \in 0 .. MaxReviews /\ crashes \in 0 .. MaxCrashes
    /\ \A w \in Workers : /\ (hand[w] = NoRow) <=> (stage[w] = "idle")
                          /\ (links[w] # <<>>) <=> (stage[w] = "listing")

\* A row in status processing is in the hands of a worker: no outcome of
\* process_one, no race of a worker with enqueue_review, prune, the janitor or
\* a second worker on the same CID, leaves a row that nobody will finish.  Only
\* a crash does, and main() releases those rows before any thread starts.
NoOrphan ==
    phase # "down" =>
        \A c \in Processing : \E w \in Workers : hand[w] = c

\* config.toml.example, max_dir_probes: "At most this many workers fetch sniffed
\* folders at once", however rows change lanes by getting a name, a report or a new
\* life while taken.  A worker whose row was forgotten or put back is not counted
\* any more, and works on: unless there is one, the number of workers is bounded.
ProbesBounded ==
    LET fetching == {w \in Workers : /\ hand[w] # NoRow /\ Codec[hand[w]] = "dag-pb"
                                     /\ cids[hand[w]] # NoRow => Probe(hand[w])} IN
    \/ Cardinality(fetching) <= MaxDirProbes
    \/ \E w \in fetching : \/ hand[w] \notin Processing
                            \/ \E v \in fetching \ {w} : hand[v] = hand[w]

\* The peer count of a sniffed row is the number of peers recorded for it, so
\* min_peer_count and the take order rest on distinct peers: every path that
\* deletes peers deletes the row, and drop_lonely_raw, which keeps them, leaves
\* no row behind that a later WANT would miscount.  A crash between the DELETE of
\* the peers and that of the row leaves a count too high, and never one too low.
PeersMatch ==
    \A c \in Rows : cids[c].source = "sniff" =>
        /\ Cardinality(cid_peers[c]) <= cids[c].peers
        /\ crashes = 0 => Cardinality(cid_peers[c]) = cids[c].peers

\* A CID remembered as binary comes into the queue only for a review, whatever
\* directory names it and whatever a second worker on the same CID writes; and it
\* leaves when it is remembered, unless that very step is cut off by a crash.
BinaryStaysOut ==
    [][\A c \in Rows' \cap unprocessable' :
          \/ cids'[c].source = "report"
          \/ c \in Rows /\ (c \in unprocessable \/ phase' = "down")]_vars

\* prune leaves at most max_queue live rows and max_dir_queue unidentified
\* dag-pb ones, not counting the skips it has just requeued, unless what is left
\* is protected: reports and named PDFs, or probes a worker has in hand.
PruneCaps ==
    [][LET left == Live \cap Live' IN
       \/ /\ Cardinality(left) <= MaxQueue \/ \A c \in left : KeepSrc(c)
          /\ MaxDirQueue > 0 =>
               \/ Cardinality({c \in left : Probe(c)}) <= MaxDirQueue
               \/ \A c \in left : Probe(c) => c \in Processing
       \/ ~(Prune \/ StartupPrune)]_vars
==============================================================================
