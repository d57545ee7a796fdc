------------------------------ MODULE Indexer ------------------------------
(***************************************************************************)
(* The workers of one node (observer/indexer.py) with what they meet: the  *)
(* rows of the work queue, the tables of the catalog they look into, the   *)
(* claim slot and the inbox of clubd, and the drain that carries what      *)
(* clubd appended into the catalog.                                        *)
(*                                                                         *)
(* process_one is a step per call that other threads can see: it reads the *)
(* catalog, fetches, reads the catalog again, claims, asks the model,      *)
(* publishes, marks the row, and frees its claim.  A publish or a claim is *)
(* a call into clubd, which applies its claim policy, appends and gossips  *)
(* in steps of its own, and goes on when the worker no longer waits.  The  *)
(* rows are reduced to status and kind of error (WorkQueue has their       *)
(* lanes, budgets and prunes) and the catalog to the tables read here      *)
(* (Catalog has the rest).  A lease or a hold-off may run out between any  *)
(* two steps.                                                              *)
(***************************************************************************)
EXTENDS Integers, FiniteSets, Sequences

CONSTANTS
    Cids,           \* content ids
    Pdfs,           \* those whose skips are not trusted (pdf_deserves_retry)
    TextOf,         \* the text of a cid; equal texts have equal fingerprints
    Queued,         \* cids in the work queue at the start
    Self,           \* this node's peer id
    Peers,          \* the other publishers
    Heard,          \* the messages of peers the drain may come upon
    Workers,        \* worker threads
    MaxEvents,      \* bound on WANTs and messages of peers
    MaxFailures,    \* bound on failures of fetch, model, clubd and workers, and crashes
    MaxInbox,       \* bound on own messages in the inbox or about to be appended
    None            \* "no value"

Publishers == Peers \cup {Self}

ASSUME IndexerAssumption ==
    /\ IsFiniteSet(Cids) /\ IsFiniteSet(Workers)
    /\ Pdfs \subseteq Cids /\ Queued \subseteq Cids
    /\ DOMAIN TextOf = Cids
    /\ Self \notin Peers
    /\ Heard \subseteq [by : Peers, kind : {"llm", "reuse", "skip", "claim", "wrong"}, cid : Cids]
    /\ None \notin Cids \cup Publishers
    /\ MaxEvents \in Nat /\ MaxFailures \in Nat /\ MaxInbox \in Nat

VARIABLES
    \* work.sqlite
    row,            \* cid -> status and error
    \* club.sqlite
    labels,         \* classifies: who labelled what, by model or by reuse
    skips,          \* skips: cid -> publisher
    claims,         \* claims of peers that have not run out: peer -> cid
    wrong,          \* reports with reason wrong: cid and publisher
    banned,         \* blacklisted publishers
    logged,         \* messages: the skips in the log, by publisher and cid
    \* clubd
    up,             \* clubd answers
    slot,           \* ClaimTracker: the cid of this node's live claim
    inbox,          \* own messages appended and not yet drained
    post,           \* worker -> the call of it that clubd is serving
    \* the observer process
    running,        \* main() has started the threads
    pc,             \* where each worker is in process_one
    drain,          \* what the drain thread still has to queue
    claimSlot,      \* _claim_slot, a semaphore
    holdoff,        \* time.time() < _claimed_until
    \* what happened
    announced,      \* this node's leases as its peers see them, while not forgot
    once,           \* cids the club has had a label for
    purged,         \* cids with a record that blacklisting removed since the start
    votes,          \* cid -> classifies of this node appended to the inbox
    reviews,        \* cid -> calls of enqueue_review that queued it
    excused,        \* crashes, exceptions between publish and mark, and publishes
                    \* that clubd did not confirm
    forgot,         \* clubd lost its claim, could not tell that it ended, or told
                    \* of it after it had ended
    events, failures    \* see MaxEvents and MaxFailures

catalog == <<labels, skips, claims, wrong, banned, logged>>
clubd == <<up, slot, inbox, post, announced>>
claim == <<claimSlot, holdoff>>
worker == <<pc, claim>>
history == <<once, purged, votes, reviews, excused, forgot>>
world == <<catalog, clubd, running, drain, history>>
bounds == <<events, failures>>
vars == <<row, world, worker, bounds>>

Statuses == {"none", "discovered", "processing", "indexed", "skipped"}
Errors == {"none", "scope", "publish_failed"}      \* none, or one that nobody looks at
EndErrors == Errors \cup {"keep"}      \* "keep": the column is not written
Row(status, error) == [status |-> status, error |-> error]
NoRow == Row("none", "none")

\* A worker's locals: what it will publish (act), what it will then mark (end),
\* and whether it holds the claim slot and clears the hold-off in the end.  In
\* claiming and publishing it waits for clubd.
Stages == {"idle", "lookup", "fetch", "claim", "claiming", "chat", "publish", "publishing", "mark"}
Acts == {"none", "llm", "reuse", "skip"}
Local == [at : Stages, cid : Cids \cup {None}, act : Acts, end : [status : Statuses, error : EndErrors],
          chatted : BOOLEAN, claimed : BOOLEAN]
Idle == [at |-> "idle", cid |-> None, act |-> "none", end |-> NoRow,
         chatted |-> FALSE, claimed |-> FALSE]

Labels == [cid : Cids, by : Publishers, kind : {"llm", "reuse"}]
Own == [kind : {"llm", "reuse", "skip"}, cid : Cids]

\* What handlePublish still has to do for a call: append and broadcast, or only
\* broadcast.  The line of a claim is not followed: no worker looks at its own.
Post(at, kind, c) == [at |-> at, kind |-> kind, cid |-> c]
NoPost == Post("none", "claim", None)
Posts == {NoPost} \cup [at : {"broadcast"}, kind : {"claim"}, cid : Cids]
         \cup [at : {"append", "broadcast"}, kind : {"llm", "reuse", "skip"}, cid : Cids]

TypeOK ==
    /\ row \in [Cids -> [status : Statuses, error : Errors]]
    /\ labels \subseteq Labels
    /\ skips \in [Cids -> Publishers \cup {None}]
    /\ claims \in [Peers -> Cids \cup {None}]
    /\ wrong \subseteq Cids \X Publishers
    /\ banned \subseteq Peers
    /\ logged \subseteq Publishers \X Cids
    /\ up \in BOOLEAN
    /\ slot \in Cids \cup {None}
    /\ inbox \in Seq(Own)
    /\ post \in [Workers -> Posts]
    /\ running \in BOOLEAN
    /\ pc \in [Workers -> Local]
    /\ drain \in [why : {"second", "wrong", "none"}, cid : Cids \cup {None}]
    /\ claimSlot \in 0 .. 1
    /\ holdoff \in BOOLEAN
    /\ announced \subseteq Cids
    /\ once \subseteq Cids /\ purged \subseteq Cids
    /\ votes \in [Cids -> Nat]
    /\ reviews \in [Cids -> Nat]
    /\ excused \in Nat
    /\ forgot \in BOOLEAN
    /\ events \in Nat /\ failures \in Nat

-----------------------------------------------------------------------------
(***************************************************************************)
(* What the code reads (store.py, clubd_client.py).                        *)
(***************************************************************************)
\* This node's id is known: a worker takes a row only when clubd answers, and
\* clubd_client.peer_id() keeps the first answer.
local_classified(c) == \E l \in labels : l.cid = c /\ l.by = Self

Independent(c) == {l.by : l \in {k \in labels : k.cid = c /\ k.kind = "llm"}}

should_second_classify(c) == ~local_classified(c) /\ Cardinality(Independent(c)) = 1
needs_review(c) == \E p \in Publishers : <<c, p>> \in wrong
must_classify(c) == ~local_classified(c) /\ (needs_review(c) \/ should_second_classify(c))

Labelled(c) == \E l \in labels : l.cid = c
ForeignClaim(c) == \E p \in Peers : claims[p] = c

lookup_cid(c) ==
    CASE Labelled(c) -> "classify"
      [] ~Labelled(c) /\ ForeignClaim(c) -> "claim"
      [] ~Labelled(c) /\ ~ForeignClaim(c) /\ skips[c] # None -> "skip"
      [] OTHER -> "none"

already_catalogued(c) ==
    /\ lookup_cid(c) \in {"classify", "skip"}
    /\ ~(lookup_cid(c) = "skip" /\ c \in Pdfs)
    /\ ~must_classify(c)

classify_by_text_hash(c) == \E l \in labels : TextOf[l.cid] = TextOf[c]

-----------------------------------------------------------------------------
(***************************************************************************)
(* process_one.                                                            *)
(***************************************************************************)
Go(w, stage) == pc' = [pc EXCEPT ![w].at = stage]
ToPublish(w, act, end) ==
    pc' = [pc EXCEPT ![w] = [@ EXCEPT !.at = "publish", !.act = act, !.end = end]]
Event == events < MaxEvents /\ events' = events + 1 /\ failures' = failures
Failure == failures < MaxFailures /\ failures' = failures + 1 /\ events' = events

\* work.mark: an UPDATE, which does nothing when the row is gone.
Marked(c, status, error) ==
    CASE row[c].status = "none" -> row
      [] row[c].status # "none" /\ error = "keep" -> [row EXCEPT ![c].status = status]
      [] OTHER -> [row EXCEPT ![c] = Row(status, error)]

\* The finally of the claimed section: the slot is given back, if it was taken.
Release(w) == claimSlot' = IF pc[w].claimed THEN claimSlot + 1 ELSE claimSlot

\* process_one returns.
Return(w) == pc' = [pc EXCEPT ![w] = Idle] /\ Release(w)

\* Mutant: a failure leaves process_one without the finally.
RetryLater_KeepsSlot(w, error) ==
    /\ row' = Marked(pc[w].cid, "discovered", error)
    /\ pc' = [pc EXCEPT ![w] = Idle]
    /\ UNCHANGED <<claimSlot, holdoff>>

\* _retry_later; the hold-off stays.
RetryLater(w, error) ==
    /\ row' = Marked(pc[w].cid, "discovered", error)
    /\ Return(w)
    /\ holdoff' = holdoff

\* Mutant: the row is not marked as being processed.
TakeBatch_NotMarked(w, c) ==
    /\ running /\ up
    /\ pc[w] = Idle
    /\ row[c].status = "discovered"
    /\ pc' = [pc EXCEPT ![w] = [Idle EXCEPT !.at = "lookup", !.cid = c]]
    /\ UNCHANGED <<row, world, claim, bounds>>

TakeBatch(w, c) ==
    /\ running /\ up
    /\ pc[w] = Idle
    /\ row[c].status = "discovered"
    /\ row' = [row EXCEPT ![c].status = "processing"]
    /\ pc' = [pc EXCEPT ![w] = [Idle EXCEPT !.at = "lookup", !.cid = c]]
    /\ UNCHANGED <<world, claim, bounds>>

\* What the skip-hook says about c, or NoRow if c is to be fetched.
Hook(c) ==
    CASE lookup_cid(c) = "skip" /\ ~must_classify(c) /\ c \notin Pdfs -> Row("skipped", "scope")
      [] lookup_cid(c) = "classify" /\ ~must_classify(c) -> Row("indexed", "none")
      [] lookup_cid(c) = "claim" -> Row("discovered", "keep")
      [] OTHER -> NoRow

Lookup(w) ==
    /\ pc[w].at = "lookup"
    /\ LET end == Hook(pc[w].cid)
       IN  pc' = [pc EXCEPT ![w].at = IF end = NoRow THEN "fetch" ELSE "mark", ![w].end = end]
    /\ UNCHANGED <<world, claim, row, bounds>>

\* The fetch failed: once more later, or never.
FetchFailed(w) ==
    /\ pc[w].at = "fetch"
    /\ Failure
    /\ \/ row' = [row EXCEPT ![pc[w].cid] = NoRow]
       \/ row' = Marked(pc[w].cid, "discovered", "none")
    /\ pc' = [pc EXCEPT ![w] = Idle]
    /\ UNCHANGED <<world, claim>>

\* A folder, a binary, a file without text, half a PDF: not for the club.
Unusable(w) ==
    /\ pc[w].at = "fetch"
    /\ \/ row' = [row EXCEPT ![pc[w].cid] = NoRow]
       \/ row' = Marked(pc[w].cid, "skipped", "none")
    /\ pc' = [pc EXCEPT ![w] = Idle]
    /\ UNCHANGED <<world, claim, bounds>>

Reuse(c) == classify_by_text_hash(c) /\ ~must_classify(c)

\* There is text.  A second look into the catalog, and the prior of the club
\* profile: reuse a label of the same text, skip without the model, or ask it.
Decide(w) ==
    /\ pc[w].at = "fetch"
    /\ IF Reuse(pc[w].cid)
       THEN ToPublish(w, "reuse", Row("indexed", "none"))
       ELSE ToPublish(w, "skip", Row("skipped", "scope")) \/ Go(w, "claim")
    /\ UNCHANGED <<world, claim, row, bounds>>

\* classify.available() is False.
ModelDown(w) ==
    /\ pc[w].at = "fetch"
    /\ Failure
    /\ ~Reuse(pc[w].cid)
    /\ RetryLater(w, "none")
    /\ UNCHANGED world

-----------------------------------------------------------------------------
(***************************************************************************)
(* Calls into clubd (clubd_client.publish and handlePublish).              *)
(***************************************************************************)
\* A worker calls only when clubd is done with its last call, which it may have
\* given up: in between it has at least fetched.
Call(w, p) == post[w] = NoPost /\ post' = [post EXCEPT ![w] = p]
Served(w) == post' = [post EXCEPT ![w] = NoPost]

\* From now on peers see the leases S; they are not followed once forgot.
Announce(S) == announced' = IF forgot' THEN {} ELSE S

\* handlePublish fails in clubd, on the disk or in gossip: of a record the peers
\* have not heard, though its lease is no longer remembered.
HandlerFails(w) ==
    /\ post[w] # NoPost
    /\ Failure
    /\ Served(w)
    /\ forgot' = (forgot \/ post[w].kind # "claim")
    /\ Announce(announced)
    /\ UNCHANGED <<catalog, worker, row, up, slot, inbox, running, drain, once, purged,
                   votes, reviews, excused>>

-----------------------------------------------------------------------------
(***************************************************************************)
(* _try_claim, the model, and the end of the claim.                        *)
(***************************************************************************)
\* Mutant: clubd does not remember the claim it announced.
SlotOpen_Any(c, ended) == TRUE

\* clubd's answer to a claim, as in Clubd.
SlotOpen(c, ended) == slot \in {None, c} \cup ended

\* The leases that clubd or its peers know, and that may have ended.
Leases == announced \cup ({slot} \ {None})

\* _try_claim.  The hold-off is read without a lock and the claim slot is tried
\* without waiting.  When clubd is down, or refuses, the slot is given back and
\* the others hold off.  When clubd's policy lets the claim pass, the worker
\* waits.  Time is looked at here only: the hold-off may be over, and leases
\* have ended.
TryClaim(w, over, ended) ==
    LET c == pc[w].cid
        free == (~holdoff \/ over) /\ claimSlot > 0
        ok == free /\ up /\ SlotOpen(c, ended)
    IN  /\ pc[w].at = "claim"
        /\ IF ok THEN Call(w, Post("broadcast", "claim", c)) ELSE post' = post
        /\ pc' = [pc EXCEPT ![w] = [@ EXCEPT !.at = IF ok THEN "claiming" ELSE "chat",
                                             !.chatted = TRUE, !.claimed = ok]]
        /\ holdoff' = (holdoff \/ (free /\ ~ok))
        /\ claimSlot' = IF ok THEN claimSlot - 1 ELSE claimSlot
        /\ slot' = IF ok THEN c ELSE slot
        /\ UNCHANGED <<catalog, history, row, up, inbox, running, drain, bounds>>
        /\ Announce(IF ok THEN announced \ ended ELSE announced)

\* broadcast of a claim: the peers hear of the lease, and the worker goes on
\* with it, if it still waits.
Advertise(w) ==
    /\ post[w].at = "broadcast" /\ post[w].kind = "claim"
    /\ Served(w)
    /\ forgot' = (forgot \/ slot # post[w].cid)
    /\ Announce(announced \cup {post[w].cid})
    /\ IF pc[w].at = "claiming" THEN Go(w, "chat") /\ holdoff' = TRUE
       ELSE UNCHANGED <<pc, holdoff>>
    /\ UNCHANGED <<catalog, row, up, slot, inbox, running, drain, claimSlot, once, purged,
                   votes, reviews, excused, bounds>>

\* No answer to a claim: the slot is given back, and all hold off.
ClaimFailed(w) ==
    /\ pc[w].at = "claiming"
    /\ pc' = [pc EXCEPT ![w] = [@ EXCEPT !.at = "chat", !.claimed = FALSE]]
    /\ claimSlot' = claimSlot + 1
    /\ holdoff' = TRUE
    /\ UNCHANGED <<catalog, clubd, history, row, running, drain>>

\* classify.classify answers: in scope, out of scope, or out of scope against
\* the prior, which is not published.
Chat(w) ==
    /\ pc[w].at = "chat"
    /\ \/ ToPublish(w, "llm", Row("indexed", "none"))
       \/ ToPublish(w, "skip", Row("skipped", "scope"))
       \/ pc' = [pc EXCEPT ![w] = [@ EXCEPT !.at = "mark", !.end = Row("skipped", "none")]]
    /\ UNCHANGED <<world, claim, row, bounds>>

\* No backend gave an answer.
ChatFailed(w) ==
    /\ pc[w].at = "chat"
    /\ Failure
    /\ RetryLater(w, "none")
    /\ UNCHANGED world

-----------------------------------------------------------------------------
(***************************************************************************)
(* Publishing and the mark.                                                *)
(***************************************************************************)
\* handlePublish up to applyClaimPolicy, which frees the slot of the cid.
Publish(w) ==
    LET c == pc[w].cid
    IN  /\ pc[w].at = "publish"
        /\ up
        /\ Len(inbox) + Cardinality({v \in Workers : post[v].at = "append"}) < MaxInbox
        /\ Call(w, Post("append", pc[w].act, c))
        /\ slot' = IF slot = c THEN None ELSE slot
        /\ pc' = [pc EXCEPT ![w] = [@ EXCEPT !.at = "publishing", !.act = "none"]]
        /\ UNCHANGED <<catalog, claim, history, row, up, inbox, announced, running, drain, bounds>>

\* clubd is down.
PublishRefused(w) ==
    /\ pc[w].at = "publish"
    /\ ~up
    /\ RetryLater(w, "publish_failed")
    /\ UNCHANGED <<world, bounds>>

\* appendInbox: the record is on its way to the catalog.
AppendLine(w) ==
    LET m == [kind |-> post[w].kind, cid |-> post[w].cid]
    IN  /\ post[w].at = "append"
        /\ inbox' = Append(inbox, m)
        /\ post' = [post EXCEPT ![w].at = "broadcast"]
        /\ IF m.kind = "skip" THEN UNCHANGED <<votes, once>>
           ELSE votes' = [votes EXCEPT ![m.cid] = @ + 1] /\ once' = once \cup {m.cid}
        /\ UNCHANGED <<catalog, worker, row, up, slot, announced, running, drain, purged,
                       reviews, excused, forgot, bounds>>

\* broadcast of a record: the peers drop the lease, and the worker has its
\* answer, if it still waits.
Broadcast(w) ==
    /\ post[w].at = "broadcast" /\ post[w].kind # "claim"
    /\ Served(w)
    /\ IF pc[w].at = "publishing" THEN Go(w, "mark") ELSE pc' = pc
    /\ UNCHANGED <<catalog, claim, history, row, up, slot, inbox, running, drain, bounds>>
    /\ Announce(announced \ {post[w].cid})

\* No answer to a publish, which may have been appended and gossiped or not.
PublishFailed(w) ==
    /\ pc[w].at = "publishing"
    /\ excused' = excused + 1
    /\ pc' = [pc EXCEPT ![w] = [@ EXCEPT !.at = "mark", !.end = Row("discovered", "publish_failed")]]
    /\ UNCHANGED <<catalog, clubd, claim, row, running, drain, once, purged, votes, reviews,
                   forgot>>

\* clubd's handler has failed or clubd is gone; or its answer comes too late,
\* while the handler goes on.
NoAnswer(w) == post[w] = NoPost /\ (ClaimFailed(w) \/ PublishFailed(w)) /\ UNCHANGED bounds
LateAnswer(w) == post[w] # NoPost /\ (ClaimFailed(w) \/ PublishFailed(w)) /\ Failure

\* work.mark with the outcome, then _claim_cleared, also by a worker that holds
\* no claim; or _retry_later after a failure.
Mark(w) ==
    /\ pc[w].at = "mark"
    /\ row' = Marked(pc[w].cid, pc[w].end.status, pc[w].end.error)
    /\ holdoff' = (holdoff /\ (pc[w].chatted => pc[w].end.status = "discovered"))
    /\ Return(w)
    /\ UNCHANGED <<world, bounds>>

\* worker_loop catches an exception of process_one.
WorkerError(w) ==
    /\ pc[w].at \in {"lookup", "fetch", "chat", "publish", "mark"}
    /\ Failure
    /\ RetryLater(w, "none")
    /\ excused' = IF pc[w].at = "mark" THEN excused + 1 ELSE excused
    /\ UNCHANGED <<catalog, clubd, running, drain, once, purged, votes, reviews,
                   forgot>>

-----------------------------------------------------------------------------
(***************************************************************************)
(* The drain thread, the spool and the admin.                              *)
(***************************************************************************)
NoDrain == [why |-> "none", cid |-> None]
Unclaimed(c) == [p \in Peers |-> IF claims[p] = c THEN None ELSE claims[p]]
Claimed(p, c) == IF claims[p] = None THEN [claims EXCEPT ![p] = c] ELSE claims

\* ingest_message for a classify, skip or claim of p.  The payload of a skip has
\* no time in it: a second one is in the log already and changes nothing.
Stored(p, kind, c) ==
    IF kind = "skip" /\ <<p, c>> \in logged
    THEN UNCHANGED <<labels, once, skips, claims, drain, logged>>
    ELSE
    /\ logged' = IF kind = "skip" THEN logged \cup {<<p, c>>} ELSE logged
    /\ labels' = IF kind \in {"llm", "reuse"}
                 THEN labels \cup {[cid |-> c, by |-> p, kind |-> kind]} ELSE labels
    /\ once' = IF kind \in {"llm", "reuse"} THEN once \cup {c} ELSE once
    /\ skips' = IF kind = "skip" THEN [skips EXCEPT ![c] = p] ELSE skips
    /\ claims' = IF kind = "claim" THEN Claimed(p, c) ELSE Unclaimed(c)
    /\ drain' = IF kind \in {"llm", "reuse"} THEN [why |-> "second", cid |-> c] ELSE drain

\* The drain reaches the next message of this node.
DrainOwn ==
    /\ running /\ drain = NoDrain
    /\ inbox # <<>>
    /\ inbox' = Tail(inbox)
    /\ Stored(Self, Head(inbox).kind, Head(inbox).cid)
    /\ UNCHANGED <<worker, row, wrong, banned, up, slot, post, announced, running, purged,
                   votes, reviews, excused, forgot, bounds>>

\* The drain reaches a message of a peer.
DrainForeign(m) ==
    /\ running /\ drain = NoDrain
    /\ m.kind # "wrong" /\ m.by \notin banned
    /\ Event
    /\ Stored(m.by, m.kind, m.cid)
    /\ UNCHANGED <<clubd, worker, row, wrong, banned, running, purged, votes,
                   reviews, excused, forgot>>

\* A report with reason wrong is committed.
DrainWrong(m) ==
    /\ running /\ drain = NoDrain
    /\ m.kind = "wrong" /\ m.by \notin banned
    /\ Event
    /\ wrong' = wrong \cup {<<m.cid, m.by>>}
    /\ drain' = [why |-> "wrong", cid |-> m.cid]
    /\ UNCHANGED <<clubd, worker, history, row, labels, skips, claims, banned, logged, running>>

\* enqueue_review after the commit, for a wrong report or for a second vote,
\* which is not queued when the queue is full.
EnqueueReview ==
    LET c == drain.cid
        asks == ~local_classified(c) /\ (drain.why = "second" => should_second_classify(c))
    IN  /\ drain # NoDrain
        /\ drain' = NoDrain
        /\ \/ /\ asks
              /\ row' = [row EXCEPT ![c] = Row("discovered", "none")]
              /\ reviews' = [reviews EXCEPT ![c] = @ + 1]
           \/ /\ ~asks \/ drain.why = "second"
              /\ UNCHANGED <<row, reviews>>
        /\ UNCHANGED <<catalog, clubd, worker, running, once, purged, votes,
                       excused, forgot, bounds>>

\* A WANT for a cid that has no row and no record.
Want(c) ==
    /\ running
    /\ Event
    /\ row[c] = NoRow
    /\ ~already_catalogued(c)
    /\ row' = [row EXCEPT ![c] = Row("discovered", "none")]
    /\ UNCHANGED <<world, worker>>

\* store.blacklist of a p that has records: they go, and what comes later is
\* refused.
Blacklist(p) ==
    LET gone == {c \in Cids : (\E l \in labels : l.cid = c /\ l.by = p) \/ skips[c] = p}
    IN  /\ running
        /\ p \notin banned
        /\ gone # {}
        /\ banned' = banned \cup {p}
        /\ labels' = {l \in labels : l.by # p}
        /\ skips' = [c \in Cids |-> IF skips[c] = p THEN None ELSE skips[c]]
        /\ claims' = [claims EXCEPT ![p] = None]
        /\ wrong' = {r \in wrong : r[2] # p}
        /\ logged' = {s \in logged : s[1] # p}
        /\ purged' = purged \cup gone
        /\ UNCHANGED <<clubd, worker, row, bounds, running, drain, once, votes,
                       reviews, excused, forgot>>

-----------------------------------------------------------------------------
(***************************************************************************)
(* Time, clubd and the observer process.                                   *)
(***************************************************************************)
\* A lease runs out in the catalog of this node.
ExpireRow(p) ==
    /\ claims[p] # None
    /\ claims' = [claims EXCEPT ![p] = None]
    /\ UNCHANGED <<clubd, worker, history, row, labels, skips, wrong, banned, logged, running,
                   drain, bounds>>

ClubdStop ==
    /\ up
    /\ Failure
    /\ up' = FALSE
    /\ slot' = None
    /\ post' = [w \in Workers |-> NoPost]
    /\ forgot' = TRUE
    /\ Announce({})
    /\ UNCHANGED <<catalog, worker, row, inbox, running, drain, once,
                   purged, votes, reviews, excused>>

ClubdStart ==
    /\ ~up
    /\ up' = TRUE
    /\ UNCHANGED <<catalog, worker, history, row, slot, inbox, post, announced, running,
                   drain, bounds>>

\* The observer dies; clubd goes on with what it was asked.
Crash ==
    /\ running
    /\ Failure
    /\ excused' = excused + 1
    /\ running' = FALSE
    /\ pc' = [w \in Workers |-> Idle]
    /\ drain' = NoDrain
    /\ claimSlot' = 1
    /\ holdoff' = FALSE
    /\ UNCHANGED <<catalog, clubd, row, once, purged, votes, reviews, forgot>>

\* requeue_unpublished: rows whose record is not in the catalog, and rows that
\* could not be published.
Unpublished(c) ==
    \/ row[c].status = "indexed" /\ ~Labelled(c)
    \/ row[c] = Row("skipped", "scope") /\ skips[c] = None
    \/ row[c].error = "publish_failed"

\* Mutant: rows that were being processed are left as they are.
Start_KeepsOrphans ==
    /\ ~running
    /\ running' = TRUE
    /\ row' = [c \in Cids |-> IF Unpublished(c) THEN Row("discovered", "none") ELSE row[c]]
    /\ purged' = {}
    /\ UNCHANGED <<catalog, clubd, worker, drain, once, votes, reviews, excused,
                   forgot, bounds>>

\* Mutant: only rows that failed to publish are queued again.
Start_FailedOnly ==
    /\ ~running
    /\ running' = TRUE
    /\ row' = [c \in Cids |-> IF row[c].status = "processing" \/ row[c].error = "publish_failed"
                              THEN Row("discovered", row[c].error) ELSE row[c]]
    /\ purged' = {}
    /\ UNCHANGED <<catalog, clubd, worker, drain, once, votes, reviews, excused,
                   forgot, bounds>>

\* main(): orphans are released, then requeue_unpublished.
Start ==
    /\ ~running
    /\ running' = TRUE
    /\ row' = [c \in Cids |->
                 CASE Unpublished(c) -> Row("discovered", IF row[c].error = "publish_failed"
                                                          THEN row[c].error ELSE "none")
                   [] ~Unpublished(c) /\ row[c].status = "processing" -> Row("discovered", row[c].error)
                   [] OTHER -> row[c]]
    /\ purged' = {}
    /\ UNCHANGED <<catalog, clubd, worker, drain, once, votes, reviews, excused,
                   forgot, bounds>>

-----------------------------------------------------------------------------
Init ==
    /\ row = [c \in Cids |-> IF c \in Queued THEN Row("discovered", "none") ELSE NoRow]
    /\ labels = {}
    /\ skips = [c \in Cids |-> None]
    /\ claims = [p \in Peers |-> None]
    /\ wrong = {} /\ banned = {} /\ logged = {}
    /\ up = TRUE
    /\ slot = None
    /\ inbox = <<>>
    /\ post = [w \in Workers |-> NoPost]
    /\ running = TRUE
    /\ pc = [w \in Workers |-> Idle]
    /\ drain = NoDrain
    /\ claimSlot = 1
    /\ holdoff = FALSE
    /\ announced = {}
    /\ once = {} /\ purged = {}
    /\ votes = [c \in Cids |-> 0]
    /\ reviews = [c \in Cids |-> 0]
    /\ excused = 0 /\ forgot = FALSE
    /\ events = 0 /\ failures = 0

\* What a worker does by itself.
Work(w) ==
    \/ \E c \in Cids : TakeBatch(w, c)
    \/ Lookup(w) \/ Unusable(w) \/ Decide(w)
    \/ \E over \in BOOLEAN, ended \in SUBSET Leases : TryClaim(w, over, ended)
    \/ Chat(w) \/ Publish(w) \/ NoAnswer(w) \/ Mark(w)

\* What clubd does for it.
Serve(w) == Advertise(w) \/ AppendLine(w) \/ Broadcast(w)

\* What goes wrong for it.
Fails(w) ==
    \/ FetchFailed(w) \/ ModelDown(w) \/ ChatFailed(w)
    \/ PublishRefused(w) \/ LateAnswer(w) \/ HandlerFails(w) \/ WorkerError(w)

Next ==
    \/ \E w \in Workers : Work(w) \/ Serve(w) \/ Fails(w)
    \/ DrainOwn
    \/ EnqueueReview
    \/ \E m \in Heard : DrainForeign(m) \/ DrainWrong(m)
    \/ \E c \in Cids : Want(c)
    \/ \E p \in Peers : ExpireRow(p) \/ Blacklist(p)
    \/ ClubdStop \/ ClubdStart \/ Crash \/ Start

\* Threads go on, time passes, what is down is started again.  The numbers of
\* failures, messages and crashes are bounded, so that after the last one the
\* node is left alone; nothing is assumed of when they come.
Fairness ==
    /\ \A w \in Workers : WF_vars(Work(w) \/ Serve(w))
    /\ WF_vars(DrainOwn \/ EnqueueReview)
    /\ WF_vars(ClubdStart \/ Start \/ \E p \in Peers : ExpireRow(p))

Spec == Init /\ [][Next]_vars /\ Fairness

-----------------------------------------------------------------------------
(***************************************************************************)
(* Properties.                                                             *)
(***************************************************************************)
Holders == {w \in Workers : pc[w].claimed}

\* indexer.py, _release_claim in the finally: the semaphore is released once
\* per acquire, so it never admits two workers, whichever way they leave.
SlotConserved == claimSlot + Cardinality(Holders) = 1

\* The workers' locals and the semaphore they share fit together.
IndexerInv == TypeOK /\ SlotConserved

\* Records that clubd has let pass, so that their leases are over for it, and
\* that its peers have not yet heard.
Ending == {post[w].cid : w \in {v \in Workers : post[v].kind # "claim"}}

\* indexer.py, _try_claim: "Advertise at most one live claim."  Peers see one
\* lease of this node at a time, although _claimed_until is read without a lock
\* and cleared by workers that hold no claim, and besides it only leases whose
\* record is on its way out of clubd, unless clubd lost its tracker, could not
\* tell them that a lease ended, or told of a lease after it had ended.
OneLiveClaim ==
    ~forgot => Cardinality(announced \ Ending) <= 1

\* Records of this node or of others about c, in the catalog or on the way.
HasLabel(c) == Labelled(c) \/ \E i \in DOMAIN inbox : inbox[i].cid = c /\ inbox[i].kind \in {"llm", "reuse"}
HasSkip(c) == skips[c] # None \/ \E i \in DOMAIN inbox : inbox[i].cid = c /\ inbox[i].kind = "skip"

\* The skip of this node was heard, was replaced by the skip of a peer and went
\* with it when the peer was blacklisted: sent again, it is a duplicate.
Displaced(c) == <<Self, c>> \in logged /\ banned # {}

\* indexer.py, requeue_unpublished: a row that is settled by a club record has
\* that record, across failed publishing, crashes between publish and mark, and
\* a lagging drain; what blacklisting took away is repaired at the next start,
\* except for a skip of this node that blacklisting took away with a peer's.
SettledHasRecord ==
    \A c \in Cids \ purged :
        /\ row[c].status = "indexed" => HasLabel(c)
        /\ row[c] = Row("skipped", "scope") => HasSkip(c) \/ Displaced(c)

\* A node labels a cid once.  Every further classify it publishes is explained
\* by a review that was queued, by an answer of clubd that did not arrive, or by
\* an exception or a crash before the row was marked.
VotesExplained ==
    \A c \in Cids : votes[c] <= 1 + reviews[c] + excused

\* docs/OVERVIEW.md, the table of report reasons: for wrong, "every node that
\* has not classified this CID fetches and runs the model (no skip-hook, no
\* reuse)".  When nothing is going on about a reported cid, its row is not
\* settled by somebody else's label.
ReviewAnswered ==
    \A c \in Cids :
        /\ excused = 0
        /\ needs_review(c)
        /\ drain = NoDrain
        /\ row[c].status = "indexed"
        /\ \A w \in Workers : pc[w].cid # c
        => votes[c] > 0

\* The node implements the abstract service.
Pending == {c \in Cids : row[c].status \in {"discovered", "processing"}}
Service == INSTANCE LabelService WITH
    asked <- Pending,
    known <- once,
    labelled <- {c \in Cids : row[c].status = "indexed"}
=============================================================================
