------------------------------- MODULE Fetch -------------------------------
(***************************************************************************)
(* observer/fetch.py: one call of fetch_cid, from the root block to the    *)
(* sample of the file, with the blocks it fetches in parallel and the rate *)
(* limiter they share.                                                     *)
(*                                                                         *)
(* A file is a tree of blocks.  The bytes of its content are numbered, so  *)
(* that lost and misplaced bytes can be told; of a block only the bytes    *)
(* and the links matter (unixfs.parse_dag_pb), how it is stored, and of    *)
(* the bytes what extract.sniff_mime says about the first of them.         *)
(* Whether a gateway has a block, each time it is asked, is open.          *)
(***************************************************************************)
EXTENDS Integers, Sequences, SequencesExt

CONSTANTS
    Files,              \* the files that may be asked for
    Sources,            \* Kubo and the gateways, as asked one after the other
    SniffMin,           \* _SNIFF_MIN
    MAX_BYTES, MAX_CHILD_BLOCKS, MAX_PDF_BYTES, MAX_PDF_CHILD_BLOCKS,
    MAX_BLOCK,          \* largest block taken
    CHILD_CONCURRENCY,
    Rate                \* tokens of the rate limiter per unit of time

\* A block of a file, as stored and as read: a raw leaf, a UnixFS file with bytes,
\* links, both or neither, a folder.  A file: its blocks, what filesize says (0:
\* nothing), and its kind.
IsFile(f) ==
    /\ f.root \in DOMAIN f.block
    /\ \A c \in DOMAIN f.block :
          /\ f.block[c].kind \in {"leaf", "file", "folder"}
          /\ f.block[c].stored \in Seq(Nat)
          /\ f.block[c].data \in Seq(Nat)
          /\ f.block[c].links \in Seq(DOMAIN f.block)
          /\ f.block[c].kind = "leaf" => f.block[c].links = <<>>
    /\ f.filesize \in Nat
    /\ f.mime \in {"pdf", "text", "other"}

ASSUME FetchAssumption ==
    /\ \A f \in Files : IsFile(f)
    /\ {SniffMin, MAX_BYTES, MAX_CHILD_BLOCKS, MAX_PDF_BYTES, MAX_PDF_CHILD_BLOCKS,
        MAX_BLOCK, CHILD_CONCURRENCY, Rate, Sources} \subseteq Nat \ {0}

VARIABLES
    file,       \* the file asked for
    at,         \* where fetch_cid is
    wave,       \* the blocks being fetched, in link order
    swept,      \* the blocks that were missing have been asked for again
    mime,       \* what the sample was sniffed as, or "none"
    out,        \* the bytes so far
    pending,    \* links to follow and bytes to add, in the order of the file
    used,       \* child blocks spent
    tokens,     \* RATE_LIMITER
    result      \* what fetch_cid returns

vars == <<file, at, wave, swept, mime, out, pending, used, tokens, result>>

Link(c) == [kind |-> "link", cid |-> c]
Resolved(data) == [kind |-> "data", data |-> data]
Links(cids) == [i \in DOMAIN cids |-> Link(cids[i])]
Fetching(cids) == [i \in DOMAIN cids |-> [cid |-> cids[i], state |-> "asked"]]

NoResult == [ok |-> FALSE, data |-> <<>>, truncated |-> FALSE, dead |-> FALSE, slow |-> FALSE]
Sample(data, truncated) == [NoResult EXCEPT !.ok = TRUE, !.data = data, !.truncated = truncated]

Block(c) == file.block[c]
Contribution(data, links) == [data |-> data, links |-> links]
Size(b) == Len(b.stored)

\* Mutant: the capacity follows from the rate alone.
Capacity_Rate == 2 * Rate

\* RateLimiter.__init__
Capacity == IF 2 * Rate > MAX_BLOCK THEN 2 * Rate ELSE MAX_BLOCK

TypeOK ==
    /\ file \in Files
    /\ at \in {"root", "sniff", "sniffed", "wave", "done"}
    /\ wave \in Seq([cid : DOMAIN file.block, state : {"asked", "arrived", "have", "missing"}])
    /\ swept \in BOOLEAN
    /\ mime \in {"none", "pdf", "text", "other"}
    /\ out \in Seq(Nat)
    /\ pending \in Seq([kind : {"link"}, cid : DOMAIN file.block] \cup [kind : {"data"}, data : Seq(Nat)])
    /\ used \in Nat
    /\ tokens \in 0 .. Capacity
    /\ result \in [ok : BOOLEAN, data : Seq(Nat), truncated : BOOLEAN, dead : BOOLEAN, slow : BOOLEAN]

-----------------------------------------------------------------------------
(***************************************************************************)
(* One block.                                                              *)
(***************************************************************************)
Answers == {"ok", "dead", "slow", "other"}

\* get_block_ex: the first source that has the block; otherwise the error of the
\* last one.  A block that is too large, or not what the cid says, is an error.
get_block_ex(b, answers) ==
    IF Size(b) <= MAX_BLOCK /\ \E i \in DOMAIN answers : answers[i] = "ok" THEN "ok"
    ELSE IF answers[Len(answers)] = "ok" THEN "other"
    ELSE answers[Len(answers)]

\* A source has answered for a child.
GetChild(i) ==
    /\ at # "root"
    /\ i \in DOMAIN wave
    /\ wave[i].state = "asked"
    /\ \/ /\ Size(Block(wave[i].cid)) <= MAX_BLOCK
          /\ wave' = [wave EXCEPT ![i].state = "arrived"]
       \/ wave' = [wave EXCEPT ![i].state = "missing"]
    /\ UNCHANGED <<file, at, swept, mime, out, pending, used, tokens, result>>

GetRoot(answers) ==
    LET err == get_block_ex(Block(file.root), answers)
    IN  /\ at = "root"
        /\ wave # <<>> /\ wave[1].state = "asked"
        /\ IF err = "ok"
           THEN wave' = [wave EXCEPT ![1].state = "arrived"] /\ UNCHANGED <<at, result>>
           ELSE /\ at' = "done"
                /\ wave' = <<>>
                /\ result' = [NoResult EXCEPT !.dead = (err = "dead"), !.slow = (err = "slow")]
        /\ UNCHANGED <<file, swept, mime, out, pending, used, tokens>>

\* RateLimiter.consume: it is tried again until there are tokens enough.
Consume(i) ==
    /\ i \in DOMAIN wave
    /\ wave[i].state = "arrived"
    /\ tokens >= Size(Block(wave[i].cid))
    /\ tokens' = tokens - Size(Block(wave[i].cid))
    /\ wave' = [wave EXCEPT ![i].state = "have"]
    /\ UNCHANGED <<file, at, swept, mime, out, pending, used, result>>

Refill ==
    /\ tokens' = IF tokens + Rate > Capacity THEN Capacity ELSE tokens + Rate
    /\ UNCHANGED <<file, at, wave, swept, mime, out, pending, used, result>>

Settled == \A i \in DOMAIN wave : wave[i].state \in {"have", "missing"}
Missing == {i \in DOMAIN wave : wave[i].state = "missing"}

\* What a child block contributes: a folder nothing, a leaf and a file with bytes or
\* links just those; a file that has neither is taken as it is stored.
_child_bytes(c) ==
    LET b == Block(c)
    IN  CASE b.kind = "folder" -> Contribution(<<>>, <<>>)
          [] b.kind = "file" /\ b.data = <<>> /\ b.links = <<>> -> Contribution(b.stored, <<>>)
          [] OTHER -> Contribution(b.data, b.links)

-----------------------------------------------------------------------------
(***************************************************************************)
(* _assemble_file.                                                         *)
(***************************************************************************)
processable(m) == m \in {"pdf", "text"}
Cut(data, n) == SubSeq(data, 1, IF Len(data) < n THEN Len(data) ELSE n)

Return(data, truncated) ==
    /\ at' = "done"
    /\ wave' = <<>>
    /\ result' = Sample(data, truncated)

\* _budget_for
Budget ==
    CASE mime # "pdf" -> [bytes |-> MAX_BYTES, blocks |-> MAX_CHILD_BLOCKS]
      [] mime = "pdf" /\ file.filesize > MAX_PDF_BYTES -> [bytes |-> 0, blocks |-> 0]
      [] OTHER -> [bytes |-> MAX_PDF_BYTES, blocks |-> MAX_PDF_CHILD_BLOCKS]

\* What the sample is sniffed as, once there is enough of it.
Sniff(data) == IF Len(data) >= SniffMin THEN file.mime ELSE "none"

\* The root block is here: a leaf is the sample, a folder has none, a file starts
\* with its inline bytes and may end there.
RootArrived ==
    LET b == Block(file.root)
        m == Sniff(b.data)
    IN  /\ at = "root"
        /\ Settled
        /\ CASE b.kind = "leaf" -> Return(b.data, FALSE) /\ UNCHANGED <<mime, out, pending>>
             [] b.kind = "folder" -> Return(<<>>, FALSE) /\ UNCHANGED <<mime, out, pending>>
             [] b.kind = "file" /\ m = "other" -> Return(Cut(b.data, MAX_BYTES), FALSE)
                                                  /\ UNCHANGED <<mime, out, pending>>
             [] OTHER -> /\ at' = "sniff"
                         /\ wave' = <<>>
                         /\ mime' = m
                         /\ out' = b.data
                         /\ pending' = Links(b.links)
                         /\ result' = result
        /\ UNCHANGED <<file, swept, used, tokens>>

\* "One block at a time until the MIME is known".
SniffNext ==
    /\ at = "sniff"
    /\ wave = <<>>
    /\ mime = "none" /\ pending # <<>>
    /\ wave' = Fetching(<<Head(pending).cid>>)
    /\ pending' = Tail(pending)
    /\ used' = used + 1
    /\ UNCHANGED <<file, at, swept, mime, out, tokens, result>>

SniffArrived ==
    LET b == _child_bytes(wave[1].cid)
    IN  /\ at = "sniff"
        /\ wave # <<>> /\ Settled
        /\ IF Missing # {}
           THEN Return(out, TRUE) /\ UNCHANGED <<mime, out, pending>>
           ELSE /\ out' = out \o b.data
                /\ pending' = Links(b.links) \o pending
                /\ mime' = Sniff(out')
                /\ wave' = <<>>
                /\ UNCHANGED <<at, result>>
        /\ UNCHANGED <<file, swept, used, tokens>>

\* The MIME is known, or the file has ended before.
Sniffed ==
    /\ at = "sniff"
    /\ wave = <<>>
    /\ mime # "none" \/ pending = <<>>
    /\ CASE ~processable(mime) -> Return(Cut(out, MAX_BYTES), pending # <<>>)
         [] processable(mime) /\ Len(out) > Budget.bytes -> Return(out, TRUE)
         [] OTHER -> at' = "wave" /\ UNCHANGED <<wave, result>>
    /\ UNCHANGED <<file, swept, mime, out, pending, used, tokens>>

More == pending # <<>> /\ Len(out) < Budget.bytes /\ used < Budget.blocks

\* The links at the head of pending, up to the first bytes and within the room.
NextLinks ==
    LET free == Budget.blocks - used
        room == IF free < CHILD_CONCURRENCY THEN free ELSE CHILD_CONCURRENCY
        n == CHOOSE k \in 0 .. Len(pending) :
                /\ k <= room
                /\ \A i \in 1 .. k : pending[i].kind = "link"
                /\ k = room \/ k = Len(pending) \/ pending[k + 1].kind = "data"
    IN  [i \in 1 .. n |-> pending[i].cid]

NextWave ==
    /\ at = "wave"
    /\ wave = <<>>
    /\ More /\ NextLinks # <<>>
    /\ wave' = Fetching(NextLinks)
    /\ pending' = SubSeq(pending, Len(NextLinks) + 1, Len(pending))
    /\ swept' = FALSE
    /\ used' = used + Len(NextLinks)
    /\ UNCHANGED <<file, at, mime, out, tokens, result>>

\* _fetch_children, the second sweep: unless all of several blocks are missing.
Sweep ==
    /\ at = "wave"
    /\ wave # <<>> /\ Settled
    /\ Missing # {} /\ ~swept
    /\ ~(Missing = DOMAIN wave /\ Len(wave) > 1)
    /\ swept' = TRUE
    /\ wave' = [i \in DOMAIN wave |-> IF i \in Missing THEN [wave[i] EXCEPT !.state = "asked"]
                                                       ELSE wave[i]]
    /\ UNCHANGED <<file, at, mime, out, pending, used, tokens, result>>

\* What a block of a wave is replaced by: its links, or its bytes.
Replacement(b) == IF b.links # <<>> THEN Links(b.links)
                  ELSE IF b.data # <<>> THEN <<Resolved(b.data)>> ELSE <<>>

\* How many items at the head of a queue are bytes; they go to the sample.
Resolvable(queue) ==
    LET link == SelectInSeq(queue, LAMBDA item : item.kind = "link")
    IN  IF link = 0 THEN Len(queue) ELSE link - 1
Bytes(items) == FlattenSeq([i \in DOMAIN items |-> items[i].data])

\* Mutant: what has arrived is put behind what is still to come.
Queue_Behind(items) == pending \o items

\* pending.extendleft
Queue(items) == items \o pending

\* Mutant: a file with a block missing is returned as if it ended there.
WaveArrived_Whole ==
    /\ at = "wave"
    /\ wave # <<>> /\ Settled
    /\ IF Missing # {}
       THEN /\ swept \/ (Missing = DOMAIN wave /\ Len(wave) > 1)
            /\ Return(Cut(out, Budget.bytes), FALSE)
            /\ UNCHANGED <<out, pending>>
       ELSE LET queue == Queue(FlattenSeq([i \in DOMAIN wave |-> Replacement(_child_bytes(wave[i].cid))]))
            IN  /\ out' = out \o Bytes(SubSeq(queue, 1, Resolvable(queue)))
                /\ pending' = SubSeq(queue, Resolvable(queue) + 1, Len(queue))
                /\ wave' = <<>>
                /\ UNCHANGED <<at, result>>
    /\ UNCHANGED <<file, swept, mime, used, tokens>>

WaveArrived ==
    /\ at = "wave"
    /\ wave # <<>> /\ Settled
    /\ IF Missing # {}
       THEN /\ swept \/ (Missing = DOMAIN wave /\ Len(wave) > 1)
            /\ Return(Cut(out, Budget.bytes), TRUE)
            /\ UNCHANGED <<out, pending>>
       ELSE LET queue == Queue(FlattenSeq([i \in DOMAIN wave |-> Replacement(_child_bytes(wave[i].cid))]))
            IN  /\ out' = out \o Bytes(SubSeq(queue, 1, Resolvable(queue)))
                /\ pending' = SubSeq(queue, Resolvable(queue) + 1, Len(queue))
                /\ wave' = <<>>
                /\ UNCHANGED <<at, result>>
    /\ UNCHANGED <<file, swept, mime, used, tokens>>

Finish ==
    LET data == Cut(out, Budget.bytes)
    IN  /\ at = "wave"
        /\ wave = <<>>
        /\ ~More \/ NextLinks = <<>>
        /\ Return(data, \/ pending # <<>> \/ Len(out) > Budget.bytes
                        \/ file.filesize > 0 /\ Len(data) < file.filesize)
        /\ UNCHANGED <<file, swept, mime, out, pending, used, tokens>>

-----------------------------------------------------------------------------
Init ==
    /\ file \in Files
    /\ at = "root"
    /\ wave = Fetching(<<file.root>>)
    /\ swept = FALSE
    /\ mime = "none"
    /\ out = <<>> /\ pending = <<>>
    /\ used = 0
    /\ tokens = Capacity
    /\ result = NoResult

Assemble == RootArrived \/ SniffNext \/ SniffArrived \/ Sniffed \/ NextWave \/ Sweep \/ WaveArrived \/ Finish
Fetched == \E i \in DOMAIN wave : GetChild(i) \/ Consume(i)
AskedRoot == \E answers \in [1 .. Sources -> Answers] : GetRoot(answers)

Next == Assemble \/ Fetched \/ AskedRoot \/ Refill

\* The thread goes on, a request ends by its timeout, and time passes.
Spec ==
    /\ Init /\ [][Next]_vars
    /\ WF_vars(Assemble) /\ WF_vars(Fetched) /\ WF_vars(AskedRoot) /\ WF_vars(Refill)

-----------------------------------------------------------------------------
(***************************************************************************)
(* Properties.                                                             *)
(***************************************************************************)
\* The content of a file: the bytes of a block, then those of its links; a folder
\* has none.
Content(f) ==
    LET content[c \in DOMAIN f.block] ==
            IF f.block[c].kind = "folder" THEN <<>> ELSE
            f.block[c].data \o
            FlattenSeq([i \in DOMAIN f.block[c].links |-> content[f.block[c].links[i]]])
    IN  content[f.root]

\* Below the root a block of a file has bytes or links, and not both.  In any other
\* file the sample need not be the content: an empty block adds its envelope, and a
\* wave leaves out the bytes of a block that also has links.
WellMade(f) ==
    \A c \in DOMAIN f.block : \A i \in DOMAIN f.block[c].links :
       LET b == f.block[f.block[c].links[i]]
       IN  b.kind = "file" => (b.data = <<>>) # (b.links = <<>>)

\* fetch.py, _assemble_file: "truncated means the sample is a prefix of the real
\* file".  The bytes gathered from a file that is well made are the file's, in its
\* order and without a gap, although blocks come in waves and a link is replaced by
\* what it leads to.
SampleIsPrefix ==
    WellMade(file) => IsPrefix(out, Content(file)) /\ IsPrefix(result.data, Content(file))

\* docs/OVERVIEW.md: "PDFs are all-or-nothing."  A processable sample of a file that
\* is well made, if it is not called truncated, is the whole file, whichever blocks
\* were missing, small or cut off by a budget.
WholeOrTruncated ==
    at = "done" /\ result.ok /\ processable(mime) /\ ~result.truncated /\ WellMade(file)
        => result.data = Content(file)

\* fetch.py, the inner loop "if isinstance(item, _Resolved)": bytes that have
\* arrived never wait at the head of the queue, where they would end the assembly
\* early with everything at hand.
HeadIsLink == at = "wave" /\ wave = <<>> /\ pending # <<>> => pending[1].kind = "link"

\* What holds of the bytes and links at hand after every block.
SampleInv == TypeOK /\ SampleIsPrefix /\ HeadIsLink

\* fetch.py, RateLimiter: "Capacity must clear the largest single block or
\* consume() could never gather enough tokens and would spin forever."  Every fetch
\* ends, with several blocks of a wave waiting for tokens at the same time.
FetchEnds == <>(at = "done")
=============================================================================
