------------------------------- MODULE Inbox -------------------------------
(***************************************************************************)
(* The inbox directory between clubd and the observer: one JSONL file per  *)
(* UTC day.  clubd appends verified lines to today's file and prunes       *)
(* (clubd/main.go appendInbox, clubd/inbox.go); the observer's drain       *)
(* thread reads every file from its saved offset, ingests line by line,    *)
(* prunes in its turn and saves the offsets (observer/ingest.py).          *)
(*                                                                         *)
(* A file is named by its day and a line by its number in the order of     *)
(* arrival; sizes and offsets count lines.  A file on the last day of its  *)
(* keep period is stale from some hour on, so both answers are possible.   *)
(***************************************************************************)
EXTENDS Integers, FiniteSets, FiniteSetsExt, Sequences

CONSTANTS
    KeepDays,       \* club.inbox_keep_days
    MaxSize,        \* club.inbox_max_bytes
    MaxDay,         \* bound on the date
    MaxLines,       \* bound on the number of lines
    MaxCrashes      \* bound on crashes of the observer

ASSUME InboxAssumption ==
    /\ KeepDays \in Nat \ {0}
    /\ MaxSize \in Nat
    /\ MaxDay \in Nat \ {0} /\ MaxLines \in Nat /\ MaxCrashes \in Nat

VARIABLES
    day,            \* today
    log,            \* line -> the day whose file it went to
    files,          \* the days whose file is in the directory
    saved,          \* inbox-offsets.json: day -> offset
    ingested,       \* lines handed to ingest_message
    crashes,        \* how often the observer has crashed
    pruning,        \* clubd has written a line and has yet to prune
    drain           \* where drain_once is

vars == <<day, log, files, saved, ingested, crashes, pruning, drain>>

Days == 1 .. MaxDay
Ids == 1 .. MaxLines
Idle == [stage |-> "idle"]

\* offsets is drain_once's copy, todo the names not yet visited, cur the open file
\* and pos its reading position; listed, total and today are prune_inbox's.
Reading == [stage : {"read"}, offsets : [Days -> Nat],
            todo : SUBSET Days, cur : Days, pos : Nat]
Pausing == [stage : {"next", "save"}, offsets : [Days -> Nat],
            todo : SUBSET Days]
Pruning == [stage : {"age", "cap"}, offsets : [Days -> Nat],
            todo : SUBSET Days, listed : SUBSET Days, total : Int, today : Days]

TypeOK ==
    /\ day \in Days
    /\ log \in Seq(Days) /\ Len(log) <= MaxLines
    /\ files \subseteq Days
    /\ saved \in [Days -> Nat]
    /\ ingested \subseteq DOMAIN log
    /\ crashes \in Nat
    /\ pruning \in BOOLEAN
    /\ drain \in Reading \cup Pausing \cup Pruning \cup {Idle}

-----------------------------------------------------------------------------
LinesOf(f) == {i \in DOMAIN log : log[i] = f}
Size(f) == Cardinality(LinesOf(f))

\* The line at offset n of file f.
LineAt(f, n) == CHOOSE i \in LinesOf(f) : Cardinality({j \in LinesOf(f) : j < i}) = n

\* Bytes in the files of E, where log is the sequence l.
Total(l, E) == Cardinality({i \in DOMAIN l : l[i] \in E})

\* The days before which a file is stale, on the day d.
Cutoffs(d) == {d - KeepDays, d - KeepDays + 1}

\* pruneInboxDir, the cap: the oldest file goes while the total exceeds it, but
\* never today's.
CapKept(l, E) ==
    LET fits == {k \in Days : k <= day /\ Total(l, E \cap k .. day) <= MaxSize} \cup {day}
    IN  {f \in E : f >= Min(fits)}

\* appendInbox, the line; d.mu is held until the directory is pruned.
appendInbox ==
    /\ ~pruning
    /\ Len(log) < MaxLines
    /\ log' = Append(log, day)
    /\ files' = files \cup {day}
    /\ pruning' = TRUE
    /\ UNCHANGED <<day, saved, ingested, crashes, drain>>

\* Stale files go whether or not they were read.  One step: a file that the observer
\* has deleted meanwhile counts as deleted here, and is none newer than those kept.
pruneInboxDir ==
    /\ pruning
    /\ pruning' = FALSE
    /\ \E cutoff \in Cutoffs(day) : files' = CapKept(log, {f \in files : f >= cutoff \/ f = day})
    /\ UNCHANGED <<day, log, saved, ingested, crashes, drain>>

-----------------------------------------------------------------------------
(***************************************************************************)
(* drain_once.                                                             *)
(***************************************************************************)
\* Mutant: only the files of past days are read.
DrainStart_ClosedDays ==
    /\ drain = Idle
    /\ drain' = [stage |-> "next", offsets |-> saved, todo |-> files \ {day}]
    /\ UNCHANGED <<day, log, files, saved, ingested, crashes, pruning>>

\* The offsets are loaded and the directory is listed.
DrainStart ==
    /\ drain = Idle
    /\ drain' = [stage |-> "next", offsets |-> saved, todo |-> files]
    /\ UNCHANGED <<day, log, files, saved, ingested, crashes, pruning>>

\* The next name is opened at its offset; a file that is gone is passed over.
DrainOpen ==
    /\ drain.stage = "next"
    /\ drain.todo # {}
    /\ LET f == Min(drain.todo)
           rest == drain.todo \ {f}
           pos == drain.offsets[f]
       IN  drain' = IF f \in files
                    THEN [stage |-> "read", offsets |-> drain.offsets,
                          todo |-> rest, cur |-> f, pos |-> IF pos > Size(f) THEN 0 ELSE pos]
                    ELSE [drain EXCEPT !.todo = rest]
    /\ UNCHANGED <<day, log, files, saved, ingested, crashes, pruning>>

\* One line is read and ingested.  An unlinked file stays readable.
DrainLine ==
    /\ drain.stage = "read"
    /\ drain.pos < Size(drain.cur)
    /\ ingested' = ingested \cup {LineAt(drain.cur, drain.pos)}
    /\ drain' = [drain EXCEPT !.pos = @ + 1]
    /\ UNCHANGED <<day, log, files, saved, crashes, pruning>>

\* Mutant: the file's size when it was opened, or is closed, is its offset.
DrainEof_FullSize ==
    /\ drain.stage = "read"
    /\ drain' = [stage |-> "next", todo |-> drain.todo,
                 offsets |-> [drain.offsets EXCEPT ![drain.cur] = Size(drain.cur)]]
    /\ UNCHANGED <<day, log, files, saved, ingested, crashes, pruning>>

\* End of file: its offset is set.
DrainEof ==
    /\ drain.stage = "read"
    /\ drain.pos >= Size(drain.cur)
    /\ drain' = [stage |-> "next", todo |-> drain.todo,
                 offsets |-> [drain.offsets EXCEPT ![drain.cur] = drain.pos]]
    /\ UNCHANGED <<day, log, files, saved, ingested, crashes, pruning>>

\* prune_inbox: the names and sizes are listed ...
PruneList ==
    /\ drain.stage = "next"
    /\ drain.todo = {}
    /\ drain' = [stage |-> "age", offsets |-> drain.offsets, todo |-> files,
                 listed |-> files, total |-> Total(log, files), today |-> day]
    /\ UNCHANGED <<day, log, files, saved, ingested, crashes, pruning>>

\* _remove: neither today's file nor one that is gone; the offset is forgotten.
Removable(f) == f # drain.today /\ f \in files

Remove(f) ==
    /\ files' = files \ {f}
    /\ drain' = [drain EXCEPT !.todo = @ \ {f}, !.listed = @ \ {f},
                              !.total = @ - Size(f), !.offsets[f] = 0]

Pass(f) ==
    /\ files' = files
    /\ drain' = [drain EXCEPT !.todo = @ \ {f}]

\* Mutant: age alone decides.
Expired_Unread(f, cutoff) == f < cutoff

\* A file goes in the first loop when it is old, and read to the end.
Expired(f, cutoff) == f < cutoff /\ drain.offsets[f] >= Size(f)

\* ... the first loop takes them one by one ...
PruneAge ==
    /\ drain.stage = "age"
    /\ drain.todo # {}
    /\ LET f == Min(drain.todo)
       IN  \E cutoff \in Cutoffs(drain.today) :
              IF Expired(f, cutoff) /\ Removable(f) THEN Remove(f) ELSE Pass(f)
    /\ UNCHANGED <<day, log, saved, ingested, crashes, pruning>>

\* ... and the second what is left of them, while the total is above the cap.  A
\* file that clubd has deleted since is not taken off the total.
PruneCap ==
    /\ drain.stage = "cap"
    /\ drain.todo # {} /\ drain.total > MaxSize
    /\ LET f == Min(drain.todo)
       IN  IF Removable(f) THEN Remove(f) ELSE Pass(f)
    /\ UNCHANGED <<day, log, saved, ingested, crashes, pruning>>

\* The end of a loop.
PruneNext ==
    /\ \/ /\ drain.stage = "age"
          /\ drain.todo = {}
          /\ drain' = [drain EXCEPT !.stage = "cap", !.todo = drain.listed]
       \/ /\ drain.stage = "cap"
          /\ drain.todo = {} \/ drain.total <= MaxSize
          /\ drain' = [stage |-> "save", offsets |-> drain.offsets, todo |-> {}]
    /\ UNCHANGED <<day, log, files, saved, ingested, crashes, pruning>>

prune_inbox == PruneList \/ PruneAge \/ PruneCap \/ PruneNext

\* _save_offsets replaces the file atomically.
save_offsets ==
    /\ drain.stage = "save"
    /\ saved' = drain.offsets
    /\ drain' = Idle
    /\ UNCHANGED <<day, log, files, ingested, crashes, pruning>>

\* The observer dies, or drain_once raises: the offsets in memory are lost.
Crash ==
    /\ crashes < MaxCrashes
    /\ drain # Idle
    /\ crashes' = crashes + 1
    /\ drain' = Idle
    /\ UNCHANGED <<day, log, files, saved, ingested, pruning>>

Midnight ==
    /\ day < MaxDay
    /\ day' = day + 1
    /\ UNCHANGED <<log, files, saved, ingested, crashes, pruning, drain>>

-----------------------------------------------------------------------------
Init ==
    /\ day = 1
    /\ log = <<>>
    /\ files = {}
    /\ saved = [f \in Days |-> 0]
    /\ ingested = {}
    /\ crashes = 0
    /\ pruning = FALSE
    /\ drain = Idle

Drain == DrainStart \/ DrainOpen \/ DrainLine \/ DrainEof \/ prune_inbox \/ save_offsets

Next == appendInbox \/ pruneInboxDir \/ Drain \/ Crash \/ Midnight

Spec == Init /\ [][Next]_vars

(***************************************************************************)
(* ingest.loop calls drain_once again after every pause or exception.      *)
(***************************************************************************)
FairSpec == Spec /\ WF_vars(Drain)

-----------------------------------------------------------------------------
(***************************************************************************)
(* Properties.                                                             *)
(***************************************************************************)
\* The saved offset of a file never runs ahead of what has been ingested from
\* it, whatever clubd appends or prunes during a drain and wherever it crashes.
OffsetsBehind ==
    \A f \in files :
        \A i \in LinesOf(f) :
            Cardinality({j \in LinesOf(f) : j < i}) < saved[f] => i \in ingested

\* docs/PROTOCOL.md, "total size is capped": once clubd has pruned, only a single
\* file can exceed the cap.
CapHolds == ~pruning /\ Total(log, files) > MaxSize => Cardinality(files) <= 1

\* What two processes on one directory, without a lock between them, keep true.
InboxInv == TypeOK /\ OffsetsBehind /\ CapHolds

\* prune_inbox, "Drop old jsonl once ingested; cap total inbox size".  A line that
\* is deleted before it was read was old, or in a directory over its cap, when clubd
\* pruned; or the observer's second loop deleted it, and with the files that clubd
\* has deleted since prune_inbox listed them the directory was over its cap.
UnreadLoss ==
    [][\A i \in DOMAIN log :
          log[i] \in files \ files' /\ i \notin ingested =>
             \/ /\ pruning /\ ~pruning'
                /\ Total(log, files) > MaxSize \/ log[i] + KeepDays <= day
             \/ /\ drain.stage = "cap" /\ UNCHANGED pruning
                /\ Total(log, files \cup drain.listed) > MaxSize]_vars

\* docs/OVERVIEW.md, "local ingest reads the same inbox": every line is ingested
\* or its file is deleted, which UnreadLoss confines to old files and a full
\* directory; no line is left behind an offset, after a crash or otherwise.
Delivered ==
    \A i \in Ids : i \in DOMAIN log ~> i \in DOMAIN log /\ (i \in ingested \/ log[i] \notin files)
=============================================================================
