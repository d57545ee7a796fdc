# TLA+ verification of IPFS-Observer-Club

An observer node watches IPFS traffic, labels the documents it finds and shares
the labels with the other members of its club. This directory models the parts
of a node that decide what its catalog contains and what it shows: the catalog
itself, the `clubd` daemon that talks to the peers, the inbox directory between
them, the queue of sniffed CIDs, the workers that fetch, label and publish, the
assembly of files from blocks, the pool of model hosts, and the vote over the
labels of the club.

Contents: [inventory](#inventory), [modules](#modules-and-code),
[runs](#runs), [disagreements](#where-code-and-documents-disagree),
[proofs](#proofs), [limits](#what-is-not-modelled), [plan](#plan).

## Inventory

| part | state | operations | how it meets the others |
|---|---|---|---|
| catalog (`observer/store.py`) | `club.sqlite`: messages, classifies, docs + FTS, skips, claims, reports, aliases, settings, blacklisted, report_proposals | `ingest_message`, `blacklist`, `unblacklist`, `set_local_alias`, `propose_report`, `drop_proposal`, `expire_claims`, the purges, `export_snapshot` | written by the drain thread and by web threads; read by workers, search, snapshots |
| ingest (`observer/ingest.py`) | offsets file | `drain_once`, `prune_inbox` | reads the inbox, calls the catalog, queues second votes |
| inbox (`clubd/inbox.go`, `appendInbox`) | one JSONL file per UTC day | append, prune by age and by size | the only channel from clubd to the observer |
| clubd (`clubd/*.go`) | limiter (hashes, hits), claim tracker, pull times, key | `acceptGossip`, `handlePublish`, `requestSnapshot`, `handleSnapshotStream` | gossipsub topics, snapshot streams, HTTP API for the observer |
| work queue (`observer/work.py`, `spool.py`, `janitor.py`) | `work.sqlite`: cids with status, source, attempts; peers; evicted; unprocessable | spool admission, `take_batch`, `mark`, `prune`, `enqueue_review`, eviction | filled by the sniffer, by directories and by reports; emptied by workers |
| indexer (`observer/indexer.py`, `clubd_client.py`, `main.py`) | claim slot, `_claimed_until` | `process_one`, `requeue_unpublished` | work queue, fetch, classify, clubd |
| labels (`observer/labels.py`) | none | the vote over classifies | read by search and by the catalog |
| fetch (`observer/fetch.py`, `unixfs.py`) | token bucket of the rate limiter; per call the queue of links and bytes | `fetch_cid`, `_assemble_file`, `_fetch_children` in parallel | Kubo and gateways; called by workers |
| classify (`observer/classify.py`, `llm.py`) | per provider: slot, pause, backoff, last probe; the settings | `classify`, `available`, saves that call `reset` | model servers; called by workers and by the admin |
| web, auth, search, static pages | sessions | the HTTP API | catalog, clubd |
| sniffer (`sniffer/main.go`) | spool files | one line per Bitswap WANT | work queue |
| configuration, text conversion | none | parsing, formatting, extraction | everywhere |

What is hard here:

* **Threads and transactions.** Every thread has its own SQLite connection. A
  write transaction starts at the first write, so what `ingest_message` reads
  before its INSERT (blacklist, clock) is read outside it. What it does after
  the commit (queue a review) is in another database.
* **Duplicates.** A payload has no timestamp of its own; equal payloads have
  equal hashes. Own reports are ingested twice, by a web thread and by the
  drain. The same payload comes by gossip and in several snapshots.
* **Denormalized copies.** docs, docs_fts, classifies, messages and a cached
  counter are kept in step by separate code paths.
* **Two processes on one directory.** clubd and the observer both prune the
  inbox the observer is reading; offsets are saved after the fact.
* **Goroutines.** Consumers, snapshot pullers and HTTP handlers share the
  limiter, the claim tracker and the inbox, each under its own mutex.
* **Workers on one table.** A row's status is the only claim a worker has on
  it. Reviews, prune, eviction and directories change or delete rows that are
  being fetched, and a CID can come back while its old worker still runs.
* **Looked up, then used.** A worker reads the catalog, then fetches and asks a
  model for minutes, then publishes and marks. Reports, labels and claims of
  peers come in meanwhile, clubd may stop answering after it has appended, and
  a crash may fall between any two of these.
* **Objects that are replaced.** A save of the model settings replaces the hosts
  that calls and probes are holding.
* **Parallel blocks.** Siblings are fetched at once, arrive in any order or not
  at all, and lead to further blocks that belong between them.
* **Orders that differ.** Nodes hear the same labels in different orders.
* **Bounds.** A rate window, the lanes and caps of the work queue, a hash table
  with a cap, a size cap, leases and skips with TTLs, a token bucket.

`PROJECT.json` lists these as hazards, each at its line and with the properties
that would catch it going wrong.

What makes the parts correct, in a sentence each: the catalog's tables always
say what its message log says; a blacklisted publisher has no influence; what
the protocol asks to be queued is queued; a snapshot reproduces the catalog it
was taken from; clubd appends a payload once, within the rate limit, before it
tells anybody; no line of the inbox is skipped, and lines are lost only where
the retention rules say so; a row of the work queue that is taken is finished
or given back, within the budgets of its lane; a CID that is asked for is
settled in the end, and by a label only if the club has one; a node has one
live claim and explains every repeated vote; a file's sample is a prefix of it
and is called truncated unless it is whole; a model host that asked for a pause
gets it and is found again afterwards; nodes with the same ballots show the
same labels.

## Modules and code

### Catalog

Variables are the tables. `messages` and `classifies` map a payload to its
`received_at`, 0 for "no row"; `docs` maps a cid to the classify its search row
was made from, which stands for the tables docs and docs_fts together;
`docsCount` is `settings.docs_count`; `skips`, `claims`, `reports`, `aliases`,
`localAlias`, `blacklisted` and `proposals` are the tables of these names.
`reviews` are the cids `work.enqueue_review` was asked to queue. `pc` says what
each thread is in the middle of and `lock` who has SQLite's write lock.

A message is its canonical payload, reduced to what the catalog tells apart.
Refused messages (unknown kind, other club, no publisher) are not steps.

| action | code |
|---|---|
| `IngestBegin` | `ingest_message` up to the INSERT: blacklist and cid checks, `now` |
| `IngestCommit` | INSERT, the branch of the kind, `commit` |
| `IngestDuplicate` | `IntegrityError`: returns False, the transaction stays open |
| `Locked` | `OperationalError` after `busy_timeout`; the drain thread or the request gives up |
| `EnqueueReview`, `MaybeEnqueueSecond` | what follows the commit |
| `propose_report`, `RejectProposal`, `DropProposal` | guest reports and the admin's answer (`web.py`) |
| `Blacklist`, `Unblacklist`, `SetLocalAlias` | the admin's other writes |
| `ExpireClaims` | `expire_claims`, at the end of each drain |
| `Start` | `main()`: both purges, before any thread runs |
| `Crash` | the process dies; SQLite rolls back what was not committed |

`time.time()` is read once per ingest and never twice the same (`IngestBegin`
advances `clock`). The two purges of `main()` are two commits in a row with
nothing running beside them, and are one step. `clubd_client.peer_id()` is
known whenever the admin acts.

### CatalogSnapshot

`export_snapshot(limit)` as a set of messages, which with `messages[]` fixes
the order of the file, and what an empty catalog makes of it.

### Clubd

One process per goroutine: a consumer per topic, a puller per peer, a handler
per publish request. `pc[g]` is the next call that takes a mutex:
`acceptGossip` (with `limiter.Duplicate`), `Allow`, `Policy`, `AppendInbox`;
`handlePublish` (with the claim policy), `Record`, `AppendInbox`, `Broadcast`.
What fails verification is dropped before any state is touched and is not a
step. Peers publish a payload on the topic of its kind. `Restart` loses
everything but the inbox.

### Inbox

Files are days, lines are numbered in order of arrival, and sizes and offsets
count lines. `drain_once` is a step per file opened, per line and per end of
file. `prune_inbox` follows with a step for its listing (`PruneList`), a step per
file of each of its two loops (`PruneAge`, `PruneCap`) and the ends of the loops
(`PruneNext`): clubd may delete a listed file in between, `_remove` then fails and
the total stays too high. `_save_offsets` is one more step. clubd's `appendInbox`
is the line and then, with the mutex still held (`pruning`), `pruneInboxDir`;
steps of the observer fall between them. A file whose age is
exactly the keep period is stale or not depending on the hour, so both answers
are explored. Lines are complete when they are seen: clubd writes a line with
one `write`.

### WorkQueue

Variables are the tables `cids`, `cid_peers`, `evicted` and `unprocessable`; a
row has the columns the queries tell apart (status, source, peer count,
attempts, and the kinds of file name and of error). `stage`, `hand`, `tries`
and `links` are a worker's locals: where it is in `process_one`, the CID it
took, `row["attempts"]` as it was then, and the names it has still to queue.
Every function of `work.py` holds `_db_lock`, so to other threads a call is a step,
and all threads interleave between calls. Its statements commit one by one, so to
a crash it is not: a function of several statements that change rows also has a
crash action, which leaves any number of them done. `enqueue_doc_children` is a
step per child, with the lock held.

| action | code |
|---|---|
| `Want` | `spool._record` for one line: eviction, peers, admission by lane |
| `EnqueueReview` | `work.enqueue_review`, from the ingest and web threads |
| `TakeBatch` | `take_batch(limit=1)`: reports, then the lanes, the probe budget |
| `HookSkipped`, `HookIndexed`, `HookClaimed`, `BumpAttempts` | `process_one` before the fetch |
| `FetchFailed`, `MarkSkipped`, `RememberBinary`, `MarkIndexed`, `RetryLater`, `WorkerError` | how it ends for a file |
| `FetchedDirectory`, `EnqueueChild`, `DropDirectory` | how it ends for a folder |
| `Prune`, `TrimEvicted`, `EvictBatch` | `janitor.run_once` |
| `Crash` | the process dies between two calls |
| `CrashForgetting`, `CrashRemembering`, `CrashDropping`, `CrashPruning`, `CrashEvicting` | it dies in the middle of `forget_cid`, `remember_binary`, `drop_directory`, `prune`, a batch of the eviction |
| `ReleaseOrphans`, `RequeueUnpublished`, `StartupPrune` | `main()` before it starts threads |

There is no clock: any time may pass between two steps, so which rows are old
enough to be taken, pruned or expired, and which were seen last, is chosen
where the code reads it. Rows that prune calls old can therefore still be taken
in the model, which only adds behaviours. What the catalog, clubd, the gateways
and the model answer is chosen too.

### Indexer and LabelService

`Indexer` composes what `WorkQueue`, `Catalog` and `Clubd` model apart: workers
in `process_one`, the rows they take, the catalog tables they look into, the
claim slot and the inbox of clubd, and the drain that carries appended messages
into the catalog. Each of these is reduced to what the workers see: a row is a
status and a kind of error, the catalog is labels, skips, claims of peers and
`wrong` reports, clubd is one slot and one inbox.

| action | code |
|---|---|
| `TakeBatch`, `Lookup` | `worker_loop`; the skip-hook of `process_one` |
| `FetchFailed`, `Unusable`, `Decide`, `ModelDown` | after the fetch: forget, skip, reuse a label of the same text, skip by the prior, or go on |
| `TryClaim`, `Advertise` | `_try_claim` with clubd's policy; the broadcast of the claim, and the answer |
| `Chat`, `ChatFailed` | the model's answer |
| `Publish`, `AppendLine`, `Broadcast` | `clubd_client.publish` with `handlePublish`: the policy, which frees the slot of the cid; the line in the inbox; the broadcast, and the answer |
| `PublishRefused`, `HandlerFails`, `NoAnswer`, `LateAnswer` | clubd is down; the handler fails at any point; the worker goes on without an answer, or before it comes |
| `Mark`, `WorkerError` | `work.mark` with `_claim_cleared` and the `finally`; the handlers of `worker_loop` |
| `DrainOwn`, `DrainForeign`, `DrainWrong`, `EnqueueReview` | the drain thread, one message at a time, and what follows the commit |
| `Want`, `Blacklist`, `ExpireRow` | the spool, the admin, time |
| `ClubdStop`, `ClubdStart`, `Crash`, `Start` | the processes; `main()` with `requeue_unpublished` |

`post[w]` is the call that clubd is serving for worker w. The policy, the line and
the broadcast are steps of clubd, each under a mutex of its own, and the steps of
other workers and their calls fall between them. A worker that gives up
(`LateAnswer`) goes on while clubd still serves its call. A claim writes no line
that others look at, so its policy and its line are one step, and its broadcast
another. The log keeps a skip once (`logged`): a payload without a time in it is
a duplicate when it is sent again, and restores no row. Time is looked at
where the code looks at it: a hold-off may be over, and a lease ended, at any
call. The mark, the clearing of the hold-off and the release of the slot have
no effect on others in between and are one step. This node's peer id is known,
since a worker only takes rows while clubd answers. Own claims are in clubd's
slot only: `lookup_cid` ignores them in the catalog.

`LabelService` is what the labelling half of a node promises: what is asked for
is settled, and counts as labelled only once the club has had a label for it.
`Indexer` implements it under the mapping *asked* = rows discovered or in
processing, *known* = cids the club has had a label for, *labelled* = rows
indexed. Both the safety and the fairness part of `LabelService!Spec` are
checked.

### Classify

A `_Host` is its slot, the time left of its pause, its backoff, the time since
the last HTTP 429, and the last probe. `gen` numbers the tables of hosts: a
save (`Save`, then `reset`, as `_save` sets the cache first) starts a new one,
and calls and probes go on with the object they had. A call of `classify` is
`StartCall`, `Choose`, `Acquire` (the slot, and the second look at the pause),
and then one of `Answered`, `NoModel`, `BadRequest`, `Refused`, until
`ReturnNone`. `AskUp` and `ProbeEnds` are the two locked sections of
`_host_up`. `Tick` is 20 seconds. `pace()` sleeps less than that and keeps the
slot; which ready provider has not chatted for the longest time is left open.

### Fetch

One call of `fetch_cid`. A byte is its place in the file, so that lost and
misplaced bytes show. `GetRoot` asks the sources in order and keeps the error
of the last; `GetChild` and `Consume` are a child's request and its wait for
tokens, for all blocks of a wave at once. `SniffNext`, `SniffArrived`,
`Sniffed` are the first phase, `NextWave`, `Sweep`, `WaveArrived`, `Finish` the
second. `extract.sniff_mime` is the file's kind once there are `SniffMin`
bytes. A block also has the bytes it is `stored` as, its protobuf envelope: a
child that holds neither bytes nor links contributes these (`_child_bytes`).

### Labels

The vote of `labels.py`, with a dict as the sequence of its items, at several
nodes that store the same classifies in any order and blacklist publishers.
Each loop is a fold over the rows, and the sort by (-votes, keyword) gives each
keyword the place after all those that come before it.
The reference is a definition of the ballots with sets.

### The MC modules

Message sets, files and symmetries for the runs. A run of MCCatalog asks
several questions, each about some kinds of messages; its universe is the union
of one set per question, and a state constraint keeps each state within one of
these sets (a sum of state spaces instead of their product).

## Runs

| run | what it shows |
|---|---|
| `catalog_tables` | `ArrivalOrder`, `Consistent`, `BlacklistRules` with labels of three publishers, a malformed legacy row, blacklisting and a crash; `LeaseNotStolen`, `LiveSkipKept` with leases and skips; `ProposalKept` with guest proposals under lock contention and a crash |
| `catalog_reports` | `TablesFollowLog`: reports and aliases replay the log. `ReviewsQueued`: what must be queued is. `JoinerAgrees`, `CutSafely`: the snapshot of every reachable catalog, at every limit |
| `clubd_inbox` | `InboxExact`, `DuplicatesAreFree`, `SlotAnnounced` with consumers, a puller and publish requests interleaved, two claims of a peer or one of this node, a rate limit that is met and a disk that fails |
| `clubd_rate` | `RateBound`, `LimiterInv` with more payloads than the limit and the hash table allow, disk errors and a restart |
| `inbox` | `InboxInv`, `UnreadLoss` and the liveness property `Delivered` over four days with a crash, clubd pruning between the listing and each deletion of the observer |
| `work_queue` | `NoOrphan`, `ProbesBounded`, `PeersMatch`, `BinaryStaysOut`, `PruneCaps` with two workers, a raw leaf, a folder that lists a PDF and itself, and that PDF; a crash falls between two statements of any function |
| `indexer` | `IndexerInv`, `OneLiveClaim`, `SettledHasRecord`, `VotesExplained` and the refinement `ServiceSpec` with two workers, a peer, a WANT or a message of the peer, and a failure, a stop of clubd or a crash |
| `classify` | `HostsInv`, `NoneMeansNobody` and the liveness properties `CallsReturn`, `AvailableAgain` with two workers, two providers, a probe and a save |
| `fetch` | `SampleInv`, `WholeOrTruncated` and the liveness property `FetchEnds` with flat, deep and mixed files, PDFs, texts and others, blocks that are empty or hold both bytes and links, blocks missing or too large |
| `labels` | `TallyInv`, `AgreementFirst`, `NodesAgree` with two nodes and five classifies of three publishers in all orders |
| `lock_leak`, `review_overwritten` | counterexamples, see below |

Some invariants are conjunctions of parts that are checked, and break,
together:

| name | parts |
|---|---|
| `Consistent` | `ClassifiesFollowLog`, `DocsFirstSeen`, `CountMatches`: table classifies is the classify part of the log, a search row is the oldest surviving classify, the cached count is right |
| `BlacklistRules` | `FirstSeenStable`, `BlacklistSticks`: the shown classify changes only by blacklisting or a purge; blacklisting leaves of a publisher at most the message the drain thread holds, nothing is added to that until it is unblacklisted, and each of its rows comes from it |
| `TablesFollowLog` | `ReportsFollowLog`, `AliasesFollowLog`: the report and the alias of a foreign publisher are those of its last message; an own report row is the effect of an own report in the log, though not always of the last one sent |
| `ReviewsQueued` | `WrongQueued`, `SecondQueued` |
| `CutSafely` | `TruncationSafe`, `DocumentsWin`: a cut snapshot revives nothing, and drops documents last |
| `InboxExact` | `NoDoubleAppend`, `AppendFirst`, `HashedAccepted`: an accepted payload is appended once and before its broadcast; a step after which copies of a payload are dropped leaves it in the inbox or on its way, unless it was throttled, turned down by the claim policy, or could not be written |
| `LimiterInv`, `InboxInv`, `IndexerInv`, `HostsInv`, `SampleInv`, `TallyInv` | `TypeOK` with `HashBound`, `HitsBound`; `OffsetsBehind`, `CapHolds`; `SlotConserved`; `CoolingDown`; `SampleIsPrefix`, `HeadIsLink`; `Plurality` |

Bounds. Two foreign publishers and this node are the fewest for which
first-seen, blacklisting the first, and the second vote differ; two valid cids
and a malformed one suffice because no operation relates three. `MaxClock`
allows four ingests, enough for a report to be sent, replaced, withdrawn and
repeated, and for a lease or a skip of TTL 1 to expire beside a running one;
beside the proposals of guests, three. One
web thread beside the drain thread suffices for every two-thread race; locks
are held pairwise. One crash suffices since a restart keeps nothing but the
tables. In Clubd, `OneOfInbox` keeps a state to the payloads of the peer (claims on two
cids and a classify) or to this node's own (a claim and a classify); with one
payload per window the second and the third are throttled, unless time passes, and
any write may fail. In `clubd_rate`, `HashCap = 2` with three payloads overflows the table and
`Window = 2` within `MaxClock = 4` gives windows that overlap. In Inbox, three
lines of four exceed `MaxSize = 2` and four days exceed `KeepDays = 1` with
days to spare on both sides, and a file that clubd deletes between listing and
deletion makes the observer delete one more. In WorkQueue, three CIDs, one per lane and one the
folder names, exceed `MaxQueue = 2`, `MaxDirQueue = 1` and `MaxDirProbes = 1`;
two workers and one review put two workers on one CID; three WANTs of two peers
admit a raw leaf and leave one to repeat. Retries are 0, so that the first
attempt is the last. The constraint `FewEvents` keeps a state to one of review,
run of the janitor over budget, evicted CID, known binary and crash, except that a
crash may come with an evicted CID or a known binary, which is what it can leave
half done; and to one finished row, none beside that pair. A review takes the
place of a WANT. Each of these races with the workers, and the theorems below
cover their combinations. Workers, and peers, are interchangeable (`Symmetry`); no
temporal property is checked in that run but action properties, which are
symmetric too.

In Indexer, two cids with one text are the fewest for which a label is reused,
and two workers the fewest that compete for the claim slot or hold one cid. One
event (a WANT or a message of the peer) and one failure (of a fetch, of the model,
of a worker, of a handler of clubd, of clubd, or a crash) fall in any order at any
step; `review_overwritten` has two events and no failure. `MaxInbox = 1` lets the
drain lag behind by one publish, in the inbox or about to be appended; the worker
whose publish would exceed it waits. In
Classify, pauses of one and two units, a backoff window of one and two attempts
per text keep every comparison with both outcomes; two providers are the fewest
with a next one to try, and one save makes an old and a new host. In Fetch,
waves of two over up to six blocks, byte budgets of four (text) and eight (PDF)
and block budgets of three and six are below the size of some files and above
that of others, and a block of six exceeds `MAX_BLOCK`. Two shapes are not `WellMade`:
an empty block between two leaves, and a block below the root with bytes and
links. Of these the run checks only that resolved bytes never wait at the head of
the queue (`HeadIsLink`) and that the fetch ends. In Labels, one publisher
classifies twice, one spells a topic in another way, one copies and judges, and
five keywords exceed `Kept = 3`; the two nodes are interchangeable and only
invariants are checked.

Deadlock checking is off for Clubd, Inbox, Indexer and Labels, whose models
stop when their bounds on lines, days, clock, events and messages are used up.
In Catalog, WorkQueue, Classify and Fetch something can always go on.

Fairness. `DrainNotStarved` assumes that a thread that can go on does, that
`main()` runs and that the drain thread comes round to `expire_claims`: these
are loops and straight-line code without waits other than the lock. `Delivered`
assumes that the drain goes on: `ingest.loop` calls `drain_once` again after
every pause and every exception. `ServiceSpec` assumes that each worker goes on,
or clubd with the call of that worker, that the drain thread goes on with the inbox
and with what it queues, and that leases run out or clubd and the observer are
started again; `CallsReturn` and `AvailableAgain` assume that
some worker in `classify` goes on, that a request ends by its timeout, that
`worker_loop` asks `available()` again and again, and that time passes;
`FetchEnds` assumes the same of requests, of the assembling thread and of the
limiter's clock. Failures, messages, calls and saves are bounded and may come
at any time; what is shown is that the node recovers after the last. Nothing is
assumed of the admin, of arrivals, of crashes, or of which of two workers gets
a slot.

Every property of a passing run is violated by at least one mutant of the
model, the `_Suffix` operators before the definitions they change.

## Where code and documents disagree

* `lock_leak`: after an `IntegrityError`, `ingest_message` returns with its
  transaction open. On the drain thread the next commit ends it. On a web
  thread that repeated the report `clear`, nothing does; the thread keeps the
  write lock and the drain thread cannot write.
* `review_overwritten`: a worker asks `must_classify` once and marks the row
  later. A `wrong` report that is drained in between puts the row back to
  discovered, and the mark then settles it with the label that was complained
  about. The documents say that every node that has not classified the CID runs
  the model.

Also seen, without a run:

* A message that passed the blacklist check before its publisher was
  blacklisted is stored afterwards and stays (`store.py:595`), although a
  blacklisted publisher is ignored (docs/OVERVIEW.md:132). `BlacklistSticks`
  allows this one message and no other.
* Reporting clear, abusive, clear leaves abusive, since the second clear is a
  duplicate of the first (`store.py:612`), although the latest reason wins
  (docs/OVERVIEW.md:129). An own report that two threads ingest leaves what the
  later commit stored. `TablesFollowLog` therefore says of own reports only that
  the row is the effect of one that was sent. The alias A, B, A leaves this node's
  own alias out of its snapshots.
* A crash between the commit of a `wrong` report and `enqueue_review` loses the
  review; the replayed line is a duplicate (`store.py:649`).
* clubd records a payload's hash before the rate limit refuses it or the disk fails,
  so its copy in a snapshot is dropped as well (`clubd/main.go:406`), as one that
  was "already accepted". `InboxExact` names these ways out.
* A claim whose line cannot be written keeps its publisher's slot until it is
  over (`clubd/main.go:315`).
* A file that clubd deletes after `prune_inbox` has listed it is not taken off the
  total, so a further file can be deleted unread although the directory is
  within its cap (`ingest.py:107-155`). `UnreadLoss` states what bounds this.
* clubd's slot is freed before the record that ends the lease is written and
  broadcast (`clubd/main.go:300-319`), so another worker's claim can be
  broadcast first, and peers see two live leases for as long as it takes. A lease
  can also be told after its slot was freed, when the worker gave up waiting.
  `_try_claim` says "Advertise at most one live claim"; `OneLiveClaim` says what
  peers see.
* The skip of this node that a peer's skip replaced goes when the peer is
  blacklisted. `requeue_unpublished` queues its CID at every start, and the skip
  that is sent again is a duplicate that restores nothing (`store.py:605-612`).
* A crash between the statements of `remember_binary`, `forget_cid` or
  `drop_directory` (`work.py:184-221`) leaves a known binary in the queue, or a row
  whose count is above its recorded peers.
* A worker whose row was forgotten or put back works on and is not counted when
  the next probe is taken, so more than `max_dir_probes` workers can fetch folders
  (`work.py:597`, config.toml.example:81).
* `_record` adds one to the peers recorded since an eviction even when the WANT
  is from one of them, so a CID evicted with one peer is back after two WANTs of
  that peer (`spool.py:60`).
* When a PDF that a directory named cannot be published, `_retry_later`
  overwrites its name, and `drop_named_non_pdf` deletes the row.
* The HTML trim of `prune` does not spare rows with source report
  (`work.py:373`); an expired skip of a sniffed row goes back to discovered with
  an old `last_seen` and is forgotten by the next prune (`work.py:448`); a crash
  after the bump of the last attempt leaves a report row at the cap, which is
  never taken and never deleted (`main.py:67`).
* `_assemble_file` drops the inline bytes of a child block that has links as
  well when it comes in a wave, and keeps them while sniffing
  (`fetch.py:364`); a child that is an empty file contributes its protobuf
  envelope (`fetch.py:240`), although the docstring says "never the protobuf
  envelope" (`fetch.py:230`). Usual writers produce neither, and the sample of a file that is
  `WellMade` has neither problem.
* Only the error of the last gateway decides whether a CID is dead or slow, and
  the sniffing phase has no limit on blocks.
* The backoff of a host starts again after each longest pause (300 s), since it
  is forgotten 180 s after the last HTTP 429; a save of the settings forgets all
  pauses; two saves at once overwrite each other (`llm.py:132`, no lock).
* When a vote is tied, a node shows the field it heard of first, so nodes can
  differ (docs/PROTOCOL.md:102).

## Proofs

Each theorem is about every choice of the constants that satisfies the ASSUMEs
of its module: any number of publishers, messages, cids, workers, peers and
threads, any limits, any number of crashes. Every proof has one step per
action. Where an invariant is not inductive, the strengthening is named in the
proof module and explained below. A theorem that needs more than the module's
assumptions says so: its statement is `ASSUME ... PROVE`, and the hypothesis is
one the code really needs.

| proof module | about | properties of runs it proves |
|---|---|---|
| `CatalogProofs` | `Catalog` | `TypeOK`, `ArrivalOrder`, `Consistent`, `LeaseNotStolen`, `LiveSkipKept`, `ProposalKept`, `TablesFollowLog`, `BlacklistRules`; `ReviewsQueued` under hypotheses |
| `CatalogProofs`, last part | `CatalogSnapshot` | `JoinerAgrees`, `CutSafely`, under hypotheses |
| `InboxProofs` | `Inbox` | `InboxInv`, `UnreadLoss` |
| `ClubdProofs` | `Clubd` | `LimiterInv`, `DuplicatesAreFree`, `RateBound`, `SlotAnnounced`, `InboxExact` |
| `WorkQueueProofs` | `WorkQueue` | `TypeOK`, `NoOrphan`, `ProbesBounded`, `PeersMatch`, `BinaryStaysOut`, `PruneCaps` |
| `IndexerProofs` | `Indexer` | `IndexerInv`, `OneLiveClaim`, `SettledHasRecord`, `VotesExplained`; the safety half of the refinement of `LabelService` |
| `ClassifyProofs` | `Classify` | `HostsInv`, `NoneMeansNobody` |
| `FetchProofs` | `Fetch` | `SampleInv`, `WholeOrTruncated`, under a hypothesis |
| `LabelsProofs` | `Labels` | `TallyInv`, `AgreementFirst`, `NodesAgree` |

### Catalog

`CatalogAssumption` and `NoRowAssumption`: cids are finite, messages are well
formed, a cid has at most one legacy classify, thread names are distinct, NoRow
is no value.

`IInv == TypeOK /\ ArrivalOrder /\ Consistent` is inductive, with `Consistent`
the conjunction of `ClassifiesFollowLog`, `DocsFirstSeen` and `CountMatches`.
`DocsFirstSeen` is not inductive by itself: a commit keeps the row that is there
because its classify is older than the new one, which follows only from
`ArrivalOrder`, that the message the drain thread is about to insert has a later
`received_at` than everything that only the drain thread stores. `ArrivalOrder`
in turn needs that web threads ingest nothing but this node's reports (`Hears`),
so it carries that fact for messages in flight. The rebuild after blacklisting
rests on the lemma `OldestSpec` (the query returns a least row, by the
least-number principle), the counter on cardinality lemmas for adding and
removing sets of rows.

The rules that `Catalog` keeps over time go on from `IInv`.

* `LiveSkipKept` follows from the steps: each action that takes a skip is shown
  to take only rows that are expired, purged or of a blacklisted publisher.
* `ProposalKept` needs `OwnStored`: a web thread that is past its commit has
  this node's own report in the log, and none is past it in a stopped process.
* `TablesFollowLog` is inductive together with `IInv`: what a commit writes over
  a report or an alias is later than all rows of that publisher, and what
  blacklisting and the purges take, they take from the log and the table alike.
* `WrongQueued` and `ReviewsQueued` say that the drain thread queues what a
  commit made due. The invariant carries the message between its commit and the
  queueing (`Due`). Both are proved from `NoCrash` (no crash), since a crash
  between the commit and `enqueue_review` loses the review (see "Also seen");
  `ReviewsQueued` also from `AlwaysRoom`: the queue is not at its cap, where
  the code skips the second vote, and no label is older than the rule of second
  votes (`Legacy`).
* `BlacklistRules` needs `Distinct`, that `received_at` tells messages apart:
  two rows with the same time could take each other's place on the page at a
  rebuild. Times are taken by the clock of one process and the times in flight
  are part of the invariant. Only rows of earlier versions may share a time, and
  a cid has at most one. It also needs `RowsLogged`: a skip and a lease come from
  a message that is still in the log. That labels, reports and aliases do is
  `Consistent` and `TablesFollowLog`. What a publisher has left is then what of
  its messages is in the log or has passed the blacklist check, and only
  `Blacklist` adds to `blacklisted`.

Snapshots: `JoinerAgrees` and `CutSafely` speak of one state, so they are
consequences of `IInv`, `Distinct` and `TablesFollowLog`. `FewMessages` says that
messages are finite, so that a limit above all of them exists. `CutSafely`
needs `OneLegacy`, at most one legacy row: rows with equal times are sorted
by nothing, and the file could end between two of them.

### Inbox, Clubd

Inbox: `Behind` says that everything before the saved offset of any file has
been ingested, `CopyBehind` the same of `drain_once`'s copy of the offsets and of
its position in the file it reads, and that `prune_inbox` counts no more lines than
the files it has listed hold, wherever they are by then; `NoFuture`, that no file
is of a day to come, makes the offset of a line stable when lines are appended.
`UnreadLoss` is then a fact about one step: the first loop deletes what was read,
and the second goes on only while the listed files and those in the directory
are above the cap.

Clubd: `StagesFit` says who is where. `LimiterInv`, `AppendFirst` are inductive
with it. `RateBound` is not: lines pass the limiter before they reach the
inbox, and old hits are forgotten. `HitsCover` says that of the hits that are
later than any time within the window, there are as many as lines that passed
since (written or on their way); `RateKept` is `RateBound` with what is on its
way. It rests on lemmas about how `Allow` drops the oldest hits, for which hits
have to be in order: times are read under the limiter's mutex. `DuplicatesAreFree`
counts consumers between `Duplicate` and `Allow` (`HitsPaid`), `NoDoubleAppend`
foreign payloads on their way (`OnceOnly`).

`SlotAnnounced` and `HashedAccepted` are about steps. `OnItsWayStays` follows a claim
that passed the policy to its line, `KeptStep` a payload that the limiter knows
through `Allow`, the policy and the disk: each step hands it on, writes it, or
is one of the three named ways of losing it. No limit, disk or hash table is
assumed; only `NoDoubleAppend` itself says "while the hash table does not
overflow".

### Work queue, indexer, classify

WorkQueue (`DataAssumption`, `LimitsAssumption`): `QueueInv` is the conjunction of
`TypeOK`, `NoOrphan`, `ProbeRowsBounded` and `PeersKept`. `PeersMatch` is not
inductive: `_record` adds a peer and returns early when the CID's eviction holds,
without touching the row. `PeersKept` adds that a sniffed row has no eviction, or,
after a crash has cut an eviction off, one with no more peers than the row counts,
so that `_record` cannot overtake it. `ProbesBounded` speaks of workers and
`ProbeRowsBounded` of rows: workers that each have a row in processing, and no two
the same one, are no more than those rows. Two relations sum up what a step does
to a row: `Follows` (it goes away, keeps source and peers, is cut off by a crash,
or is a review, a named child or a counted WANT) and `Quiet` (a row that is in
processing afterwards was before, in the same hands and lane, or left the lane by
getting a name); a step that is both for all rows is `Steady`. `CutTables` is what
every crash leaves, wherever it falls in whichever function. `take_batch`, the one
action that is not quiet, is treated by itself, where the probe budget is asked in
the same step that takes the row. `BinaryStaysOut` follows from `Follows` step by
step. `PruneCaps` rests on `LimitLeaves`: deleting the first n rows of a
query, where n is the excess over the cap, ends within the cap or takes every
row the query finds.

Indexer (`IndexerAssumption`; workers are finite, so that they can be counted):
`SlotHeld` says that the semaphore is free and nobody holds a claim, or taken
and one worker holds it; `PostsFit`, that a worker that waits for clubd waits for
its own call. `SlotLive` says that peers see no lease but the one clubd remembers
and those whose records it has let pass and not yet broadcast (`Ending`).
`VotesDue` accounts for each label of a cid: those appended, those clubd is about
to append (`Posting`), those that workers in some stage can still publish, and
whether the row may be taken again, against the reviews and what is excused (an
unconfirmed publish, a crash, an exception). `MarksHaveRecord` carries the record
between the line in the inbox and the mark of the row (`Told`), `OwnSkipsKept` says
that a skip of this node that was heard is there until somebody is blacklisted,
which is what a dropped duplicate relies on, and `LabelsKnown` is what makes each
step of the node a step of `LabelService` or a stutter.

Classify (`ClassifyAssumption`): `SlotTaken` and `Alone` say that one chat is out
on a host, so that only the holder of its slot can have it paused. `MustReady`
is what a call owes before it may say None: each provider that has been ready
all the time is still in use, not paused, and not asked yet unless it is the one
in hand; `Fresh` says that a table which a save is about to put in place has no
paused hosts, and the object a call holds from an earlier table is not paused
while its provider is owed.

### Fetch

The theorems assume `NoFileHasCycles`: the links of a file have finite depth, since a
block is named by the hash of what it holds, its links among it, so no block leads
back to itself. Without it a file would have no content to speak of. The files
may be of any shape, depth and size, the limits and the capacity any numbers, any
block may be missing, and the blocks of a wave arrive in any order.
`SampleIsPrefix` and `WholeOrTruncated` themselves speak of files that are
`WellMade`; of the others, the code loses or adds bytes (see "Also seen").

The invariant at the centre is `NothingLost`: the bytes assembled, then the
content of the blocks being fetched, then that of what is pending, make up
`Content(file)`. It is an equation, so each way of replacing a link by what it leads
to must keep it, and `SampleIsPrefix` follows from it: `out` is the head
of a sum. `Sniffing` (one block at a time until the kind is known, and only links
are pending then) and `Below` (what is fetched lies below the root) make it
inductive for a file that is `WellMade`, since the root is the one block whose bytes and links are both kept.
`WholeOrTruncated` is `NothingLost` with nothing left in the wave or pending, on
the one way to a result that is not marked as truncated.

`FlattenSeq` and `Content` are recursive functions, which exist and are unique
only by induction. `GathersExists`, `ContentsExists` and the lemmas of uniqueness
next to them make that induction by the least-number principle, over the length
of a sequence and over the depth of a block. The other lemmas say that the content of a
sequence of links and bytes distributes over concatenation (`ExpandConcat`) and
over the replacement of links by their blocks (`ExpandFlatten`).

### Labels

`LabelsAssumption`: a classify is a judgement or a copy, its keywords are finite.

The invariant itself is small, and holds step by step: no node has a message twice
(`TypeOK`; a row is ignored if its hash is there, and blacklisting only takes rows
away). The three properties speak of one state, and the work lies in what the
loops of `labels.py` compute from rows in any number and order:

1. `IterExists` and `LoopOf` show, by the least-number principle, that a
   `FoldLeft` has a value after each item. `KeepLoop`, `PutLoop`, `AddLoop` and
   `KeywordsLoop` apply this to the four loops; a lemma cannot have the step
   of the loop as a parameter.
2. `KeepSpec` says what a comprehension picks, in which order; `LatestSpec`
   that the ballots are the last row of each publisher (`LastOf`), one each;
   `CountSpec` that a count has each key once with the number of its items;
   `WinnerSpec` that the winner has as many as any; `ListSpec` that a keyword is
   listed once for each voter that has it.
3. `SortedSpec`: (-votes, keyword) is a strict order of keywords that are there
   once, so the number of those ahead is a different place for each.
   `ShownSpec` is what is left after the cut.
4. `TallySpec` puts these together, `PicksCompose` and `PicksLast` take the ballots
   back to the rows of the node, and `ConsensusSpec` says that what a node shows
   satisfies `Tallied` of the set `Ballots(n, c)`.

`NodesAgree` follows because `Tallied` fixes keywords and voters by the set of
ballots alone, and the field as soon as one has more votes than every other.

### What is only model-checked

* Liveness (`DrainNotStarved`, `Delivered`, `ServiceSpec` with its fairness,
  `CallsReturn`, `AvailableAgain`, `FetchEnds`): the proof system does not treat
  fairness.
* The two findings, which are counterexamples.

## What is not modelled

* Verification of signatures and the canonical encoding
  (`canon.go`, `protocol.py`): a payload is a record, and equal records have
  equal hashes.
* Dialling: bootstrap peers, mDNS, the serving side of a snapshot with its
  cooldown.
* The date clubd computes for a file name just before midnight may be
  yesterday's when the line is written; the model takes both at once.
* clubd's `pruneInboxDir` lists the directory and deletes one file after another
  with `d.mu` held; the model does it in one step.
* Schema migrations. A catalog of an earlier version is represented by its
  legacy classifies.
* Search, pages, authentication, configuration, text extraction: reads,
  formatting and sequential checks without shared state.
* In the work queue: the times of a row (see WorkQueue), spool offsets and
  files, and SQLite errors in the middle of a function, which would cut it off like
  a crash without ending the process.
* In the indexer: `SnifferManager`, statistics, and rows with an invalid CID,
  which are forgotten at once. The lanes and budgets of rows are in WorkQueue.
* In fetch: `peek_hamt_pdfs`, file names, the wire format of dag-pb and UnixFS,
  and several calls that share the limiter.
* In classify: prompts, parsing of answers, the file of the settings, gaps
  between chats, the age of probes, and a probe that ends with an exception other than a
  `RequestException`, after which `probing` stays set (`classify.py:246-256`).
* In labels: normalisation of topics and keywords.

## Plan

Done: Catalog, CatalogSnapshot, Clubd, Inbox, WorkQueue, Indexer with
LabelService, Classify, Fetch, Labels, and the proofs of their safety properties.
To come, in order:

1. **ClubNet**: two nodes, each a small catalog behind gossip that is lost,
   duplicated and reordered between topics, and snapshots. Properties:
   convergence of docs and reports, stale leases end. An abstract specification
   of a replicated log, refined by it.
2. **Settings**: the file and cache of `llm.py` with two admins at once.
