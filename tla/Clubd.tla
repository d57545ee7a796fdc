------------------------------- MODULE Clubd -------------------------------
(***************************************************************************)
(* clubd of one node: it signs and publishes what the observer hands it,   *)
(* verifies gossip and snapshots of peers, and appends what passes to the  *)
(* inbox the observer drains (clubd/main.go, sync.go, claims.go and        *)
(* internal/limit).                                                        *)
(*                                                                         *)
(* Many goroutines run acceptGossip and handlePublish at the same time:    *)
(* one consumer per topic, one puller per peer and one handler per HTTP    *)
(* request.  The limiter, the claim tracker and the inbox have a mutex     *)
(* each, so a goroutine's calls of them are separate steps.                *)
(*                                                                         *)
(* A payload stands for its canonical bytes.  What fails verification      *)
(* (signature, club, cid, reason) is dropped before any state is touched   *)
(* and is not a step.                                                      *)
(***************************************************************************)
EXTENDS Integers, FiniteSets, Sequences

CONSTANTS
    Publishers,     \* peer ids that sign payloads
    Self,           \* host.ID()
    Cids,           \* content ids
    Universe,       \* verified payloads that can reach this node
    Peers,          \* connected peers, who serve snapshots
    Requests,       \* concurrent POST /v1/publish requests
    MaxPerWindow,   \* limiter.max, club.max_msgs_per_peer_per_min
    Window,         \* limiter.window
    HashCap,        \* limiter.hashCap
    PullCooldown,   \* snapshotPullAllow: 10 minutes
    DiskOk,         \* the outcomes of writing a line to the inbox
    PublishOk,      \* the outcomes of handing a line to gossipsub
    MaxClock,       \* bound on clock
    MaxLines,       \* bound on the length of the inbox
    MaxRestarts,    \* bound on restarts of clubd
    None            \* "no value"

Kinds == {"claim", "skip", "classify", "alias", "report"}
Payload == [kind : Kinds, publisher : Publishers, cid : Cids, until : Nat]

\* The goroutines; a consumer is named by its topic.
Goroutines == Kinds \cup Peers \cup Requests

ASSUME ClubdAssumption ==
    /\ Self \in Publishers
    /\ Universe \subseteq Payload
    /\ IsFiniteSet(Universe)
    /\ Kinds \cap Peers = {} /\ Kinds \cap Requests = {} /\ Peers \cap Requests = {}
    /\ MaxPerWindow \in Nat \ {0}
    /\ Window \in Nat \ {0}
    /\ HashCap \in Nat \ {0}
    /\ PullCooldown \in Nat
    /\ DiskOk \subseteq BOOLEAN
    /\ PublishOk \subseteq BOOLEAN
    /\ MaxClock \in Nat /\ MaxLines \in Nat /\ MaxRestarts \in Nat

VARIABLES
    clock,          \* time.Now()
    restarts,       \* how often clubd was restarted
    hashes,         \* limiter.hashes: payload -> time, 0 if absent
    hits,           \* limiter.hits: publisher -> times
    live,           \* claims.live: publisher -> slot
    pulledAt,       \* daemon.pulledAt: peer -> time, 0 if absent
    inbox,          \* the lines appended to the inbox directory
    booted,         \* the length of inbox when clubd last started
    sent,           \* own payloads handed to gossipsub
    pc              \* what each goroutine is about to do

vars == <<clock, restarts, hashes, hits, live, pulledAt, inbox, booted, sent, pc>>

Idle == [stage |-> "idle"]
Lines == [stage |-> "lines"]        \* requestSnapshot, between two lines
Busy == [stage : {"allow", "policy", "record", "append", "broadcast"},
         msg : Universe, at : Nat]

\* A line of the inbox; "by" is the goroutine that wrote it and "at" the time
\* gossip passed the limiter, 0 for other payloads.
Line == [msg : Universe, by : Goroutines, at : Nat]

TypeOK ==
    /\ clock \in Nat
    /\ restarts \in Nat
    /\ hashes \in [Universe -> Nat]
    /\ hits \in [Publishers -> Seq(Nat)]
    /\ live \in [Publishers -> [cid : Cids, until : Nat] \cup {None}]
    /\ pulledAt \in [Peers -> Nat]
    /\ inbox \in Seq(Line)
    /\ booted \in Nat
    /\ sent \subseteq Universe
    /\ pc \in [Goroutines -> Busy \cup {Idle, Lines}]

-----------------------------------------------------------------------------
\* acceptGossip or handlePublish returns: a puller goes on with its next line.
Rest(g) == IF g \in Peers THEN Lines ELSE Idle
Return(g) == pc' = [pc EXCEPT ![g] = Rest(g)]
Goto(g, stage) == pc' = [pc EXCEPT ![g].stage = stage]

(***************************************************************************)
(* limit.go.                                                               *)
(***************************************************************************)
Hashed == {m \in Universe : hashes[m] # 0}
Fresh == {m \in Hashed : hashes[m] >= clock - Window}

\* Mutant: the stale entries go, but a table full of fresh ones grows on.
Evicted_NoFlush == IF Cardinality(Hashed) < HashCap THEN Hashed ELSE Fresh

\* What a full table keeps: the entries of this window, or nothing.
Evicted ==
    CASE Cardinality(Hashed) < HashCap -> Hashed
      [] Cardinality(Hashed) >= HashCap /\ Cardinality(Fresh) < HashCap -> Fresh
      [] OTHER -> {}

\* The new value of hashes after Duplicate(m).
Remembered(m) ==
    IF m \in Hashed THEN hashes
    ELSE [n \in Universe |-> CASE n = m -> clock
                               [] n # m /\ n \in Evicted -> hashes[n]
                               [] OTHER -> 0]

\* Mutant: the publisher's hits start over when the oldest has left the window.
InWindow_Restart(p) ==
    IF hits[p] # <<>> /\ Head(hits[p]) <= clock - Window THEN <<>> ELSE hits[p]

\* The publisher's hits that are still inside the window.  Their times are taken
\* under the mutex and so in order: what goes are the n oldest.
InWindow(p) ==
    LET n == CHOOSE k \in 0 .. Len(hits[p]) :
                \A i \in DOMAIN hits[p] : hits[p][i] > clock - Window <=> i > k
    IN  SubSeq(hits[p], n + 1, Len(hits[p]))

Allow(g) ==
    /\ pc[g].stage = "allow"
    /\ LET p == pc[g].msg.publisher
           kept == InWindow(p)
       IN  IF Len(kept) >= MaxPerWindow
           THEN /\ hits' = [hits EXCEPT ![p] = kept]
                /\ Return(g)
           ELSE /\ hits' = [hits EXCEPT ![p] = Append(kept, clock)]
                /\ pc' = [pc EXCEPT ![g] = [stage |-> "policy", msg |-> @.msg, at |-> clock]]
    /\ UNCHANGED <<clock, restarts, hashes, live, pulledAt, inbox, booted, sent>>

-----------------------------------------------------------------------------
(***************************************************************************)
(* claims.go and applyClaimPolicy.                                         *)
(***************************************************************************)
\* ClaimTracker.Allow.
SlotOpen(m) ==
    /\ m.until > clock
    /\ ~ /\ live[m.publisher] # None
         /\ live[m.publisher].until > clock
         /\ live[m.publisher].cid # m.cid

Slot(m) == [cid |-> m.cid, until |-> m.until]

\* ClaimTracker.Clear.
Cleared(m) ==
    IF live[m.publisher] # None /\ live[m.publisher].cid = m.cid
    THEN [live EXCEPT ![m.publisher] = None] ELSE live

Refused(m) == m.kind = "claim" /\ ~SlotOpen(m)

\* Mutant: the slot is taken whether or not the claim is allowed.
applyClaimPolicy_TakesSlot(m) ==
    live' = CASE m.kind = "claim" -> [live EXCEPT ![m.publisher] = Slot(m)]
              [] m.kind \in {"classify", "skip"} -> Cleared(m)
              [] OTHER -> live

applyClaimPolicy(m) ==
    live' = CASE m.kind = "claim" /\ ~Refused(m) -> [live EXCEPT ![m.publisher] = Slot(m)]
              [] m.kind \in {"classify", "skip"} -> Cleared(m)
              [] OTHER -> live

\* acceptGossip drops a refused claim.
Policy(g) ==
    /\ pc[g].stage = "policy"
    /\ applyClaimPolicy(pc[g].msg)
    /\ IF Refused(pc[g].msg) THEN Return(g) ELSE Goto(g, "append")
    /\ UNCHANGED <<clock, restarts, hashes, hits, pulledAt, inbox, booted, sent>>

-----------------------------------------------------------------------------
(***************************************************************************)
(* main.go: from the network or the HTTP API to the inbox.                 *)
(***************************************************************************)
\* g is free to take m: a consumer has one topic, a puller reads any line.
Takes(g, m) == (pc[g] = Idle /\ g = m.kind) \/ pc[g] = Lines

\* Only gossip is rate-limited.
Admit(g, m) ==
    pc' = [pc EXCEPT ![g] = [stage |-> IF g \in Kinds THEN "allow" ELSE "policy",
                             msg |-> m, at |-> 0]]

\* Mutant: catch-up does not ask for duplicates.
acceptGossip_SnapshotUnchecked(g, m) ==
    /\ Takes(g, m)
    /\ hashes' = Remembered(m)
    /\ IF m \in Hashed /\ g \in Kinds THEN pc' = pc ELSE Admit(g, m)
    /\ UNCHANGED <<clock, restarts, hits, live, pulledAt, inbox, booted, sent>>

\* Mutant: the limiter counts a payload before it is known to be new.
acceptGossip_AllowFirst(g, m) ==
    /\ Takes(g, m)
    /\ hashes' = Remembered(m)
    /\ IF m \in Hashed
       THEN hits' = [hits EXCEPT ![m.publisher] = Append(InWindow(m.publisher), clock)] /\ pc' = pc
       ELSE hits' = hits /\ Admit(g, m)
    /\ UNCHANGED <<clock, restarts, live, pulledAt, inbox, booted, sent>>

\* consume takes a message off its topic, or requestSnapshot reads a line, and
\* acceptGossip asks the limiter whether it is a duplicate.
acceptGossip(g, m) ==
    /\ Takes(g, m)
    /\ hashes' = Remembered(m)
    /\ IF m \in Hashed THEN pc' = pc ELSE Admit(g, m)
    /\ UNCHANGED <<clock, restarts, hits, live, pulledAt, inbox, booted, sent>>

\* handlePublish signs a payload as Self; a refused claim is a 429.
handlePublish(g, m) ==
    /\ g \in Requests
    /\ pc[g] = Idle
    /\ m.publisher = Self
    /\ ~Refused(m)
    /\ applyClaimPolicy(m)
    /\ pc' = [pc EXCEPT ![g] = [stage |-> "record", msg |-> m, at |-> 0]]
    /\ UNCHANGED <<clock, restarts, hashes, hits, pulledAt, inbox, booted, sent>>

\* handlePublish calls limiter.Duplicate and ignores the answer.
Record(g) ==
    /\ pc[g].stage = "record"
    /\ hashes' = Remembered(pc[g].msg)
    /\ Goto(g, "append")
    /\ UNCHANGED <<clock, restarts, hits, live, pulledAt, inbox, booted, sent>>

\* appendInbox; an I/O error ends acceptGossip, or handlePublish with a 500.
AppendInbox(g) ==
    /\ pc[g].stage = "append"
    /\ \E ok \in DiskOk :
         /\ inbox' = IF ok THEN Append(inbox, [msg |-> pc[g].msg, by |-> g, at |-> pc[g].at])
                     ELSE inbox
         /\ IF ok /\ g \in Requests THEN Goto(g, "broadcast") ELSE Return(g)
    /\ Len(inbox) < MaxLines
    /\ UNCHANGED <<clock, restarts, hashes, hits, live, pulledAt, booted, sent>>

\* broadcast; an error is a 500 although the line is in the inbox.
Broadcast(g) ==
    /\ pc[g].stage = "broadcast"
    /\ \E ok \in PublishOk : sent' = IF ok THEN sent \cup {pc[g].msg} ELSE sent
    /\ Return(g)
    /\ UNCHANGED <<clock, restarts, hashes, hits, live, pulledAt, inbox, booted>>

\* snapshotPullAllow, then the stream is opened; it fails or lines follow.
requestSnapshot(g) ==
    /\ g \in Peers
    /\ pc[g] = Idle
    /\ pulledAt[g] = 0 \/ clock - pulledAt[g] >= PullCooldown
    /\ pulledAt' = [pulledAt EXCEPT ![g] = clock]
    /\ pc' = [pc EXCEPT ![g] = Lines] \/ pc' = pc
    /\ UNCHANGED <<clock, restarts, hashes, hits, live, inbox, booted, sent>>

\* End of the stream, or its deadline.
EndSnapshot(g) ==
    /\ pc[g] = Lines
    /\ pc' = [pc EXCEPT ![g] = Idle]
    /\ UNCHANGED <<clock, restarts, hashes, hits, live, pulledAt, inbox, booted, sent>>

\* clubd dies and is started again: only the inbox is on disk.
Restart ==
    /\ restarts < MaxRestarts
    /\ restarts' = restarts + 1
    /\ hashes' = [m \in Universe |-> 0]
    /\ hits' = [p \in Publishers |-> <<>>]
    /\ live' = [p \in Publishers |-> None]
    /\ pulledAt' = [q \in Peers |-> 0]
    /\ booted' = Len(inbox)
    /\ pc' = [g \in Goroutines |-> Idle]
    /\ UNCHANGED <<clock, inbox, sent>>

Tick ==
    /\ clock < MaxClock
    /\ clock' = clock + 1
    /\ UNCHANGED <<restarts, hashes, hits, live, pulledAt, inbox, booted, sent, pc>>

-----------------------------------------------------------------------------
Init ==
    /\ clock = 1
    /\ restarts = 0
    /\ hashes = [m \in Universe |-> 0]
    /\ hits = [p \in Publishers |-> <<>>]
    /\ live = [p \in Publishers |-> None]
    /\ pulledAt = [q \in Peers |-> 0]
    /\ inbox = <<>>
    /\ booted = 0
    /\ sent = {}
    /\ pc = [g \in Goroutines |-> Idle]

Next ==
    \/ Tick
    \/ Restart
    \/ \E g \in Goroutines :
         \/ \E m \in Universe : acceptGossip(g, m) \/ handlePublish(g, m)
         \/ Allow(g)
         \/ Policy(g)
         \/ Record(g)
         \/ AppendInbox(g)
         \/ Broadcast(g)
         \/ requestSnapshot(g)
         \/ EndSnapshot(g)

Spec == Init /\ [][Next]_vars

-----------------------------------------------------------------------------
(***************************************************************************)
(* Properties.                                                             *)
(***************************************************************************)
\* The lines appended since clubd started.
Since == (booted + 1) .. Len(inbox)

Appended(m) == \E i \in Since : inbox[i].msg = m
InFlight(m) == \E g \in Goroutines : pc[g] \in Busy /\ pc[g].msg = m
NoEviction == Cardinality(Universe) <= HashCap

\* The same foreign payload, coming in on its topic and in any number of
\* snapshots at the same time, is appended once per run of clubd, as long as
\* the hash table does not overflow.
NoDoubleAppend ==
    NoEviction =>
        \A i, j \in Since : i # j /\ inbox[i].msg = inbox[j].msg =>
            inbox[i].by \in Requests \/ inbox[j].by \in Requests

\* How acceptGossip or handlePublish may drop a payload it has taken: the rate
\* limit, the claim policy, a line that cannot be written.
Throttled(m) ==
    \E g \in Goroutines :
        Allow(g) /\ pc[g].msg = m /\ Len(InWindow(m.publisher)) >= MaxPerWindow
TurnedDown(m) == \E g \in Goroutines : Policy(g) /\ pc[g].msg = m /\ Refused(m)
Unwritten(m) == \E g \in Goroutines : AppendInbox(g) /\ pc[g].msg = m /\ inbox' = inbox

\* limit.go, Duplicate: "reports whether payloadHash was already accepted
\* recently".  A payload whose copies it has dropped from now on is in the inbox
\* or on its way there until one of the three drops it; between the critical
\* sections of the limiter, the claims and the file nothing else loses one.  (A
\* dropped payload stays hashed although it was not accepted, and its copies
\* are dropped too: nothing is said of it from then on.)
HashedAccepted ==
    [][\A m \in Hashed' :
          (m \in Hashed => Appended(m) \/ InFlight(m)) =>
              \/ (Appended(m) \/ InFlight(m))'
              \/ Throttled(m) \/ TurnedDown(m) \/ Unwritten(m)]_vars

\* docs/PROTOCOL.md limits "new verified payloads per publisher": each hit of a
\* publisher is for another payload of it, copies cost nothing.
DuplicatesAreFree ==
    NoEviction => \A p \in Publishers :
        Len(hits[p]) <= Cardinality({m \in Hashed : m.publisher = p})

\* Of the gossip of one publisher that reached the inbox, no window of the
\* limiter's length saw more than MaxPerWindow arrive, wherever it begins.
RateBound ==
    \A p \in Publishers, t \in 0 .. clock :
        Cardinality({i \in Since : /\ inbox[i].by \in Kinds
                                   /\ inbox[i].msg.publisher = p
                                   /\ inbox[i].at > t - Window
                                   /\ inbox[i].at <= t}) <= MaxPerWindow

\* The hash table stays within its cap, also when all entries are recent.
HashBound == Cardinality(Hashed) <= HashCap

\* No publisher has more hits than the limit, whatever the window.
HitsBound == \A p \in Publishers : Len(hits[p]) <= MaxPerWindow

\* The limiter's tables are well formed and within their caps.
LimiterInv == TypeOK /\ HashBound /\ HitsBound

\* docs/OVERVIEW.md, "append verified line first": a peer never hears of a
\* payload that this node's own observer cannot read.
AppendFirst == \A m \in sent : \E i \in DOMAIN inbox : inbox[i].msg = m

\* Consumers, pullers and requests share the hash table and the file, each under
\* a mutex of its own: a payload is appended once, before the peers hear of it,
\* and one that was taken is lost only to the rate limit, the claim policy or
\* the disk.
InboxExact == [](NoDoubleAppend /\ AppendFirst) /\ HashedAccepted

\* The slot of p is for a claim in the inbox, or on its way past the policy.
Announced(p) ==
    \E m \in Universe :
        /\ m.kind = "claim" /\ m.publisher = p /\ Slot(m) = live[p]
        /\ \/ Appended(m)
           \/ \E g \in Goroutines : pc[g].stage \in {"record", "append"} /\ pc[g].msg = m

\* A slot is taken only for a claim that goes on to the inbox, and is held for
\* it or for its line from then on; a refused claim never blocks its publisher.
\* The one exception is a claim whose line could not be written: its slot stays
\* taken.  (Whether peers hear of an own claim is up to the broadcast that
\* follows, which may fail.)
SlotAnnounced ==
    [][\A p \in Publishers :
          live'[p] # None /\ (live'[p] = live[p] => Announced(p)) =>
              Announced(p)' \/ \E m \in Universe : Slot(m) = live[p] /\ Unwritten(m)]_vars
=============================================================================
