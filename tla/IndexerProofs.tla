--------------------------- MODULE IndexerProofs ---------------------------
(***************************************************************************)
(* Proofs about Indexer, for every choice of its constants: any number of  *)
(* cids, workers and peers, any texts, any number of failures and crashes. *)
(***************************************************************************)
EXTENDS Indexer, TLAPS, FiniteSetTheorems, SequenceTheorems

-----------------------------------------------------------------------------
(***************************************************************************)
(* The inductive invariant.                                                *)
(***************************************************************************)
Indexed == Row("indexed", "none")
Scoped == Row("skipped", "scope")
Ends == {Indexed, Scoped, Row("skipped", "none"),
         Row("discovered", "keep"), Row("discovered", "publish_failed")}

\* What a worker's locals hold at each stage of process_one.
LocalFits(l) ==
    /\ l.at = "idle" => l = Idle
    /\ l.at # "idle" => l.cid \in Cids
    /\ l.claimed => l.at \in {"claiming", "chat", "publish", "publishing", "mark"}
    /\ l.at = "claiming" => l.claimed
    /\ l.at = "publish" => \/ l.act \in {"llm", "reuse"} /\ l.end = Indexed
                           \/ l.act = "skip" /\ l.end = Scoped
    /\ l.at = "publishing" => l.end \in {Indexed, Scoped}
    /\ l.at = "mark" => l.end \in Ends
LocalsFit == \A w \in Workers : LocalFits(pc[w])

\* A worker that waits for clubd waits for its own call, of the kind it made.
PostFits(w) ==
    /\ (post[w] # NoPost /\ pc[w].at = "publishing") =>
         /\ post[w].cid = pc[w].cid /\ post[w].kind # "claim"
         /\ post[w].kind = "skip" <=> pc[w].end = Scoped
    /\ (post[w] # NoPost /\ pc[w].at = "claiming") => post[w].kind = "claim"
PostsFit == \A w \in Workers : PostFits(w)

\* The drain thread queues reviews of cids, and nothing runs in a stopped process.
ThreadsFit ==
    /\ drain # NoDrain => drain.cid \in Cids
    /\ ~running => drain = NoDrain /\ \A w \in Workers : pc[w].at = "idle"

\* The semaphore is free and nobody holds it, or taken and one worker holds it.
SlotHeld ==
    \/ claimSlot = 1 /\ \A w \in Workers : ~pc[w].claimed
    \/ claimSlot = 0 /\ \E w \in Workers : /\ pc[w].claimed
                                           /\ \A v \in Workers : pc[v].claimed => v = w

Fits == TypeOK /\ LocalsFit /\ PostsFit /\ ThreadsFit /\ SlotHeld

\* Besides the leases of records on their way out, peers see the one that clubd
\* remembers.
SlotLive == ~forgot => announced \subseteq {slot} \cup Ending

\* Workers that may still publish a label of c, or put its row back, and those
\* for which clubd may still append one.
MayAsk(l) == \/ l.at \in Stages \ {"idle", "publishing", "mark"}
             \/ l.at = "mark" /\ l.end.status = "discovered"
Trying(c) == {w \in Workers : pc[w].cid = c /\ MayAsk(pc[w])}
Posting(c) == {w \in Workers : post[w].cid = c /\ post[w].at = "append"}

\* 1 when a worker may yet take c: it waits, may be asked for, or a start may
\* queue it again.
Open(c) == IF ~running \/ row[c].status \in {"none", "discovered"} THEN 1 ELSE 0

\* Every label of c that was or can be published is accounted for.
VotesDue ==
    \A c \in Cids : votes[c] + Open(c) + Cardinality(Trying(c)) + Cardinality(Posting(c))
                    <= 1 + reviews[c] + excused

\* A row or an outcome that claims a record of c, and the record.
Settles(r, c) == /\ r.status = "indexed" => HasLabel(c)
                 /\ r = Scoped => HasSkip(c) \/ Displaced(c)

\* What a worker is about to mark, or will when clubd answers, has its record.
Told(w) == pc[w].at = "mark" \/ (pc[w].at = "publishing" /\ post[w].at = "broadcast")
MarksHaveRecord ==
    \A w \in Workers : (Told(w) /\ pc[w].cid \notin purged) => Settles(pc[w].end, pc[w].cid)

\* A skip of this node goes from the tables only when somebody is blacklisted.
OwnSkipsKept == \A c \in Cids : <<Self, c>> \in logged => skips[c] # None \/ banned # {}

\* Labels of the catalog and of the inbox, and rows and workers that say so,
\* are about cids the club had a label for.
LabelsKnown ==
    /\ \A l \in labels : l.cid \in once
    /\ \A i \in DOMAIN inbox : inbox[i].kind # "skip" => inbox[i].cid \in once
    /\ \A c \in Cids : row[c].status = "indexed" => c \in once
    /\ \A w \in Workers : (Told(w) /\ pc[w].end.status = "indexed") => pc[w].cid \in once

IInv ==
    /\ Fits
    /\ SlotLive
    /\ VotesDue
    /\ SettledHasRecord /\ MarksHaveRecord /\ OwnSkipsKept
    /\ LabelsKnown

-----------------------------------------------------------------------------
(***************************************************************************)
(* Type correctness, and what the locals of a worker hold.                 *)
(***************************************************************************)
\* A node starts with idle workers, a free semaphore and rows that wait.
LEMMA InitFits == Init => Fits
<1> SUFFICES ASSUME Init PROVE Fits
  OBVIOUS
<1>1. Idle \in Local /\ Idle.at = "idle" /\ ~Idle.claimed
  BY DEF Idle, Local, Stages, Acts, NoRow, Row, Statuses, EndErrors, Errors
<1>2. row \in [Cids -> [status : Statuses, error : Errors]]
  BY DEF Init, NoRow, Row, Statuses, Errors
<1>3. drain \in [why : {"second", "wrong", "none"}, cid : Cids \cup {None}]
  BY DEF Init, NoDrain
<1>4. inbox \in Seq(Own) /\ claimSlot \in 0 .. 1 /\ skips \in [Cids -> Publishers \cup {None}]
  BY EmptySeq DEF Init
<1>5. pc \in [Workers -> Local] /\ claims \in [Peers -> Cids \cup {None}]
  BY <1>1 DEF Init
<1>9. post \in [Workers -> Posts]
  BY DEF Init, Posts
<1>6. TypeOK
  BY <1>2, <1>3, <1>4, <1>5, <1>9, Zenon DEF Init, TypeOK
<1>7. LocalFits(Idle)
  BY <1>1 DEF LocalFits
<1>8. LocalsFit /\ PostsFit /\ ThreadsFit /\ SlotHeld
  BY <1>1, <1>7 DEF Init, LocalsFit, PostsFit, PostFits, ThreadsFit, SlotHeld
<1> QED BY <1>6, <1>8 DEF Fits

\* work.mark leaves a row of the schema, of the cid it was called for only.
LEMMA MarkedType ==
    ASSUME TypeOK, NEW c \in Cids, NEW status \in Statuses, NEW error \in EndErrors
    PROVE  /\ Marked(c, status, error) \in [Cids -> [status : Statuses, error : Errors]]
           /\ \A d \in Cids \ {c} : Marked(c, status, error)[d] = row[d]
           /\ row[c].status = "none" => Marked(c, status, error)[c] = row[c]
           /\ row[c].status # "none" => /\ Marked(c, status, error)[c].status = status
                                        /\ error # "keep" => Marked(c, status, error)[c] = Row(status, error)
<1>1. row \in [Cids -> [status : Statuses, error : Errors]]
  BY DEF TypeOK
<1>2. CASE row[c].status = "none"
  <2>1. Marked(c, status, error) = row
    BY <1>2 DEF Marked
  <2> QED BY <1>1, <1>2, <2>1
<1>3. CASE row[c].status # "none" /\ error = "keep"
  <2>1. Marked(c, status, error) = [row EXCEPT ![c].status = status]
    BY <1>3 DEF Marked
  <2> QED BY <1>1, <1>3, <2>1
<1>4. CASE row[c].status # "none" /\ error # "keep"
  <2>1. Marked(c, status, error) = [row EXCEPT ![c] = Row(status, error)]
    BY <1>4 DEF Marked
  <2>2. Row(status, error) \in [status : Statuses, error : Errors] /\ Row(status, error).status = status
    BY <1>4 DEF Row, EndErrors
  <2> QED BY <1>1, <1>4, <2>1, <2>2
<1> QED BY <1>2, <1>3, <1>4

\* A worker's locals may be set to other values of their domains.
LEMMA LocalEdits ==
    ASSUME NEW l \in Local
    PROVE  /\ \A s \in Stages : [l EXCEPT !.at = s] \in Local
           /\ \A s \in Stages, e \in [status : Statuses, error : EndErrors] :
                [l EXCEPT !.at = s, !.end = e] \in Local
           /\ \A s \in Stages, a \in Acts, e \in [status : Statuses, error : EndErrors] :
                [l EXCEPT !.at = s, !.act = a, !.end = e] \in Local
           /\ \A s \in Stages, b \in BOOLEAN, d \in BOOLEAN :
                [l EXCEPT !.at = s, !.chatted = b, !.claimed = d] \in Local
BY DEF Local

\* The outcomes of process_one.
LEMMA EndsType ==
    /\ Idle \in Local /\ LocalFits(Idle)
    /\ NoRow \in [status : Statuses, error : EndErrors]
    /\ Ends \subseteq [status : Statuses, error : EndErrors]
    /\ \A c : Hook(c) \in {NoRow, Indexed, Scoped, Row("discovered", "keep")}
BY DEF Idle, NoRow, Row, Ends, Indexed, Scoped, Statuses, EndErrors, Errors, Hook, Local, Stages, Acts,
   LocalFits

\* A worker that is in process_one runs in a started process and has a cid.
LEMMA BusyWorker ==
    ASSUME Fits, NEW w \in Workers, pc[w].at # "idle"
    PROVE  running /\ pc[w] \in Local /\ LocalFits(pc[w]) /\ pc[w].cid \in Cids
BY DEF Fits, TypeOK, LocalsFit, LocalFits, ThreadsFit

\* Failures and messages are counted.
LEMMA Counted ==
    ASSUME TypeOK, Event \/ Failure \/ UNCHANGED bounds
    PROVE  events' \in Nat /\ failures' \in Nat
BY DEF TypeOK, Event, Failure, bounds

\* A step of one worker that leaves it with locals that fit.
LEMMA WorkerMoved ==
    ASSUME Fits, NEW w \in Workers, NEW l \in Local, LocalFits(l),
           running, UNCHANGED <<catalog, up, running, drain, purged, reviews>>,
           pc' = [pc EXCEPT ![w] = l],
           \/ l.claimed = pc[w].claimed /\ claimSlot' = claimSlot
           \/ pc[w].claimed /\ ~l.claimed /\ claimSlot' = claimSlot + 1
           \/ l.claimed /\ claimSlot = 1 /\ claimSlot' = 0,
           l.at \in {"claiming", "publishing"} => PostFits(w)',
           \A v \in Workers \ {w} : post'[v] = post[v],
           row' \in [Cids -> [status : Statuses, error : Errors]],
           holdoff' \in BOOLEAN /\ slot' \in Cids \cup {None} /\ inbox' \in Seq(Own),
           post' \in [Workers -> Posts],
           announced' \subseteq Cids /\ once' \subseteq Cids,
           votes' \in [Cids -> Nat] /\ excused' \in Nat /\ forgot' \in BOOLEAN,
           events' \in Nat /\ failures' \in Nat
    PROVE  Fits'
<1>1. pc \in [Workers -> Local] /\ claimSlot \in 0 .. 1
  BY DEF Fits, TypeOK
<1>2. pc' \in [Workers -> Local] /\ pc'[w] = l /\ \A v \in Workers : v # w => pc'[v] = pc[v]
  BY <1>1
<1>3. LocalsFit'
  BY <1>2 DEF Fits, LocalsFit, LocalFits
<1>4. SlotHeld' /\ claimSlot' \in 0 .. 1
  <2>1. CASE l.claimed = pc[w].claimed /\ claimSlot' = claimSlot
    BY <1>1, <1>2, <2>1 DEF Fits, SlotHeld
  <2>2. CASE pc[w].claimed /\ ~l.claimed /\ claimSlot' = claimSlot + 1
    BY <1>1, <1>2, <2>2 DEF Fits, SlotHeld
  <2>3. CASE l.claimed /\ claimSlot = 1 /\ claimSlot' = 0
    BY <1>1, <1>2, <2>3 DEF Fits, SlotHeld
  <2> QED BY <2>1, <2>2, <2>3
<1>5. ThreadsFit'
  BY DEF Fits, ThreadsFit
<1>6. TypeOK'
  BY <1>2, <1>4 DEF Fits, TypeOK, catalog
<1>7. PostsFit'
  <2> SUFFICES ASSUME NEW v \in Workers PROVE PostFits(v)'
    BY DEF PostsFit
  <2>1. CASE v = w
    BY <1>2, <2>1 DEF PostFits
  <2>2. CASE v # w
    <3>1. PostFits(v) /\ pc'[v] = pc[v] /\ post'[v] = post[v]
      BY <1>2, <2>2 DEF Fits, PostsFit
    <3> QED BY <3>1 DEF PostFits
  <2> QED BY <2>1, <2>2
<1> QED BY <1>3, <1>4, <1>5, <1>6, <1>7 DEF Fits

-----------------------------------------------------------------------------
(***************************************************************************)
(* What the steps of a worker amount to.                                   *)
(***************************************************************************)
\* It goes on with its cid.  What it is about to mark was in the catalog, and
\* it asks for no more than before.
GoesOn(w, l) ==
    /\ pc[w].at # "idle"
    /\ pc' = [pc EXCEPT ![w] = l]
    /\ l.cid = pc[w].cid
    /\ MayAsk(pc[w])
    /\ l.at # "publishing"
    /\ l.at = "mark" => /\ l.end.status = "indexed" => Labelled(l.cid)
                        /\ l.end = Scoped => skips[l.cid] # None
    /\ \A v \in Workers \ {w} : post'[v] = post[v]
    /\ post' = post \/ (post[w].kind = "claim" /\ post'[w].kind = "claim")
    /\ UNCHANGED <<row, catalog, up, inbox, running, drain, once, purged, votes, reviews, excused>>

GoesOnBy(w) ==
    \/ Lookup(w) \/ Decide(w) \/ Chat(w)
    \/ ClaimFailed(w) /\ (UNCHANGED bounds \/ Failure)
    \/ Advertise(w) /\ pc[w].at = "claiming"
    \/ \E over \in BOOLEAN, ended \in SUBSET Leases : TryClaim(w, over, ended)

\* It leaves without a label: the row is put back, is given up or is gone, and
\* what may have been published is excused.
Leaves(w) ==
    LET c == pc[w].cid
    IN  /\ pc[w].at # "idle"
        /\ pc' = [pc EXCEPT ![w] = Idle]
        /\ \A d \in Cids \ {c} : row'[d] = row[d]
        /\ \/ row'[c] = row[c] /\ row[c].status = "none"
           \/ row'[c].status = "discovered"
           \/ row'[c] \in {NoRow, Row("skipped", "none")}
        /\ \/ MayAsk(pc[w]) /\ excused' = excused
           \/ excused' = excused + 1
        /\ UNCHANGED <<catalog, clubd, running, drain, once, purged, votes, reviews, forgot>>

\* work.take_batch hands a cid to an idle worker.
LEMMA TakeBatchFits ==
    ASSUME Fits, NEW w \in Workers, NEW c \in Cids, TakeBatch(w, c)
    PROVE  Fits'
<1> DEFINE l == [Idle EXCEPT !.at = "lookup", !.cid = c]
<1>1. l \in Local /\ LocalFits(l) /\ l.claimed = FALSE /\ l.at = "lookup"
  BY DEF Local, Idle, LocalFits, Stages, Acts, NoRow, Row, Statuses, EndErrors, Errors
<1>2. pc[w].claimed = FALSE
  BY DEF TakeBatch, Idle
<1>3. row' \in [Cids -> [status : Statuses, error : Errors]]
  BY ZenonT(40) DEF TakeBatch, Fits, TypeOK, Statuses
<1>4. /\ running /\ pc' = [pc EXCEPT ![w] = l] /\ claimSlot' = claimSlot
      /\ UNCHANGED <<world, holdoff, bounds>>
  BY DEF TakeBatch, claim
<1> HIDE DEF l
<1> QED BY <1>1, <1>2, <1>3, <1>4, WorkerMoved DEF world, catalog, clubd, history, bounds, Fits, TypeOK

\* Looking up, deciding, claiming and asking the model.
LEMMA WorkerGoesOn ==
    ASSUME Fits, NEW w \in Workers, GoesOnBy(w)
    PROVE  Fits' /\ \E l \in Local : GoesOn(w, l)
<1>0. pc[w].at \in {"lookup", "fetch", "chat", "claim", "claiming"}
  BY DEF GoesOnBy, Lookup, Decide, Chat, TryClaim, ClaimFailed
<1>1. /\ running /\ pc[w] \in Local /\ LocalFits(pc[w]) /\ pc[w].cid \in Cids /\ MayAsk(pc[w])
      /\ pc \in [Workers -> Local]
  BY <1>0, BusyWorker DEF MayAsk, Stages, Fits, TypeOK
<1>2. CASE Lookup(w)
  <2> DEFINE end == Hook(pc[w].cid)
             l == [pc[w] EXCEPT !.at = IF end = NoRow THEN "fetch" ELSE "mark", !.end = end]
  <2>1. pc' = [pc EXCEPT ![w] = l] /\ UNCHANGED <<world, claim, row, bounds>> /\ pc[w].at = "lookup"
    BY <1>2 DEF Lookup
  <2>2. end \in {NoRow, Indexed, Scoped, Row("discovered", "keep")}
    BY EndsType
  <2>3. /\ end.status = "indexed" => Labelled(pc[w].cid)
        /\ end = Scoped => skips[pc[w].cid] # None
    BY DEF Hook, lookup_cid, NoRow, Indexed, Scoped, Row
  <2> HIDE DEF end
  <2>4. l \in Local /\ l.cid = pc[w].cid /\ l.end = end /\ l.claimed = pc[w].claimed
        /\ l.at = IF end = NoRow THEN "fetch" ELSE "mark"
    BY <1>1, <2>2, EndsType DEF Local, Stages, Ends
  <2>5. LocalFits(l)
    BY <1>1, <2>1, <2>2, <2>4 DEF LocalFits, Ends
  <2> HIDE DEF l
  <2>6. Fits'
    BY <1>1, <2>1, <2>4, <2>5, WorkerMoved DEF world, catalog, clubd, history, claim, bounds, Fits, TypeOK
  <2>7. GoesOn(w, l)
    BY <1>1, <2>1, <2>3, <2>4 DEF GoesOn, world, clubd, history
  <2> QED BY <2>4, <2>6, <2>7
<1>3. ASSUME NEW act \in {"llm", "reuse", "skip"},
             NEW end \in {Indexed, Scoped}, act = "skip" <=> end = Scoped,
             ToPublish(w, act, end), UNCHANGED <<world, claim, row, bounds>>,
             pc[w].at \in {"fetch", "chat"}
      PROVE  Fits' /\ \E l \in Local : GoesOn(w, l)
  <2> DEFINE l == [pc[w] EXCEPT !.at = "publish", !.act = act, !.end = end]
  <2>1. pc' = [pc EXCEPT ![w] = l]
    BY <1>3 DEF ToPublish
  <2>2. l \in Local /\ l.cid = pc[w].cid /\ l.act = act /\ l.end = end /\ l.at = "publish"
        /\ l.claimed = pc[w].claimed
    BY <1>1, <1>3, EndsType DEF Local, Stages, Acts, Ends
  <2>3. LocalFits(l)
    BY <1>1, <1>3, <2>2 DEF LocalFits, Indexed, Scoped, Row
  <2> HIDE DEF l
  <2>4. Fits'
    BY <1>1, <1>3, <2>1, <2>2, <2>3, WorkerMoved DEF world, catalog, clubd, history, claim, bounds, Fits, TypeOK
  <2>5. GoesOn(w, l)
    BY <1>1, <1>3, <2>1, <2>2 DEF GoesOn, world, clubd, history
  <2> QED BY <2>2, <2>4, <2>5
<1>4. Indexed # Scoped
  BY DEF Indexed, Scoped, Row
<1>5. CASE Decide(w)
  <2>1. CASE Reuse(pc[w].cid)
    BY <1>3, <1>4, <1>5, <2>1 DEF Decide, Indexed, Scoped
  <2>2. CASE ToPublish(w, "skip", Row("skipped", "scope"))
    BY <1>3, <1>4, <1>5, <2>2 DEF Decide, Indexed, Scoped
  <2>3. CASE Go(w, "claim")
    <3> DEFINE l == [pc[w] EXCEPT !.at = "claim"]
    <3>1. pc' = [pc EXCEPT ![w] = l] /\ UNCHANGED <<world, claim, row, bounds>> /\ pc[w].at = "fetch"
      BY <1>5, <2>3 DEF Decide, Go
    <3>2. l \in Local /\ l.cid = pc[w].cid /\ l.at = "claim" /\ l.claimed = pc[w].claimed
      BY <1>1 DEF Local, Stages
    <3>3. LocalFits(l)
      BY <1>1, <3>1, <3>2 DEF LocalFits
    <3> HIDE DEF l
    <3>4. Fits'
      BY <1>1, <3>1, <3>2, <3>3, WorkerMoved DEF world, catalog, clubd, history, claim, bounds, Fits, TypeOK
    <3>5. GoesOn(w, l)
      BY <1>1, <3>1, <3>2 DEF GoesOn, world, clubd, history
    <3> QED BY <3>2, <3>4, <3>5
  <2> QED BY <1>5, <2>1, <2>2, <2>3 DEF Decide
<1>6. CASE Chat(w)
  <2>1. CASE ToPublish(w, "llm", Row("indexed", "none"))
    BY <1>3, <1>4, <1>6, <2>1 DEF Chat, Indexed, Scoped
  <2>2. CASE ToPublish(w, "skip", Row("skipped", "scope"))
    BY <1>3, <1>4, <1>6, <2>2 DEF Chat, Indexed, Scoped
  <2>3. CASE pc' = [pc EXCEPT ![w] = [@ EXCEPT !.at = "mark", !.end = Row("skipped", "none")]]
    <3> DEFINE end == Row("skipped", "none")
               l == [pc[w] EXCEPT !.at = "mark", !.end = end]
    <3>1. pc' = [pc EXCEPT ![w] = l] /\ UNCHANGED <<world, claim, row, bounds>> /\ pc[w].at = "chat"
      BY <1>6, <2>3 DEF Chat
    <3>2. end \in Ends /\ end.status # "indexed" /\ end # Scoped
      BY DEF Ends, Row, Scoped
    <3> HIDE DEF end
    <3>3. l \in Local /\ l.cid = pc[w].cid /\ l.at = "mark" /\ l.end = end /\ l.claimed = pc[w].claimed
      BY <1>1, <3>2, EndsType DEF Local, Stages
    <3>4. LocalFits(l)
      BY <1>1, <3>1, <3>2, <3>3 DEF LocalFits
    <3> HIDE DEF l
    <3>5. Fits'
      BY <1>1, <3>1, <3>3, <3>4, WorkerMoved DEF world, catalog, clubd, history, claim, bounds, Fits, TypeOK
    <3>6. GoesOn(w, l)
      BY <1>1, <3>1, <3>2, <3>3 DEF GoesOn, world, clubd, history
    <3> QED BY <3>3, <3>5, <3>6
  <2> QED BY <1>6, <2>1, <2>2, <2>3 DEF Chat
<1>7. ASSUME NEW over \in BOOLEAN, NEW ended \in SUBSET Leases, TryClaim(w, over, ended)
      PROVE  Fits' /\ \E l \in Local : GoesOn(w, l)
  <2> DEFINE free == (~holdoff \/ over) /\ claimSlot > 0
             ok == free /\ up /\ SlotOpen(pc[w].cid, ended)
             l == [pc[w] EXCEPT !.at = IF ok THEN "claiming" ELSE "chat", !.chatted = TRUE,
                                !.claimed = ok]
             p == Post("broadcast", "claim", pc[w].cid)
  <2>1. /\ pc[w].at = "claim"
        /\ IF ok THEN Call(w, p) ELSE post' = post
        /\ pc' = [pc EXCEPT ![w] = l]
        /\ holdoff' = (holdoff \/ (free /\ ~ok))
        /\ claimSlot' = IF ok THEN claimSlot - 1 ELSE claimSlot
        /\ slot' = IF ok THEN pc[w].cid ELSE slot
        /\ announced' = IF forgot' THEN {} ELSE IF ok THEN announced \ ended ELSE announced
        /\ UNCHANGED <<catalog, history, row, up, inbox, running, drain, bounds>>
    BY <1>7 DEF TryClaim, Announce
  <2>2. free \in BOOLEAN /\ ok \in BOOLEAN /\ (ok => claimSlot > 0) /\ claimSlot \in 0 .. 1
    BY DEF Fits, TypeOK
  <2> HIDE DEF ok, free
  <2>3. l \in Local /\ l.cid = pc[w].cid /\ l.at = (IF ok THEN "claiming" ELSE "chat") /\ l.claimed = ok
    BY <1>1, <2>2 DEF Local, Stages
  <2>4. LocalFits(l) /\ pc[w].claimed = FALSE
    BY <1>1, <2>1, <2>2, <2>3 DEF LocalFits, Local
  <2>5. \/ l.claimed = pc[w].claimed /\ claimSlot' = claimSlot
        \/ l.claimed /\ claimSlot = 1 /\ claimSlot' = 0
    <3>1. CASE ok = TRUE
      <4>1. claimSlot' = claimSlot - 1 /\ claimSlot > 0
        BY <2>1, <2>2, <3>1
      <4>2. claimSlot = 1 /\ claimSlot' = 0
        BY <2>2, <4>1
      <4>3. l.claimed
        BY <2>3, <3>1
      <4> QED BY <4>2, <4>3
    <3>2. CASE ok = FALSE
      BY <2>1, <2>3, <2>4, <3>2
    <3> QED BY <2>2, <3>1, <3>2
  <2> HIDE DEF l
  <2>6. slot' \in Cids \cup {None} /\ announced' \subseteq Cids /\ holdoff' \in BOOLEAN
    BY <1>1, <2>1, <2>2 DEF Fits, TypeOK
  <2>9. p \in Posts /\ p.kind = "claim" /\ NoPost.kind = "claim"
    BY <1>1 DEF Posts, Post, NoPost
  <2> HIDE DEF p
  <2>10. /\ post' \in [Workers -> Posts]
         /\ \A v \in Workers \ {w} : post'[v] = post[v]
         /\ post' = post \/ (post[w].kind = "claim" /\ post'[w].kind = "claim")
         /\ ok => post'[w] = p
    <3>1. post \in [Workers -> Posts]
      BY DEF Fits, TypeOK
    <3>2. CASE ok
      BY <2>1, <2>9, <3>1, <3>2 DEF Call
    <3>3. CASE ~ok
      BY <2>1, <3>1, <3>3
    <3> QED BY <3>2, <3>3
  <2>11. l.at \in {"claiming", "publishing"} => PostFits(w)'
    BY <1>1, <2>1, <2>3, <2>9, <2>10 DEF PostFits
  <2>12. once' \subseteq Cids /\ inbox' \in Seq(Own) /\ votes' \in [Cids -> Nat] /\ excused' \in Nat
         /\ forgot' \in BOOLEAN /\ events' \in Nat /\ failures' \in Nat
         /\ row' \in [Cids -> [status : Statuses, error : Errors]]
         /\ UNCHANGED <<catalog, up, running, drain, purged, reviews>>
    BY <2>1 DEF history, bounds, Fits, TypeOK
  <2>7. Fits'
    BY <1>1, <2>1, <2>3, <2>4, <2>5, <2>6, <2>10, <2>11, <2>12, WorkerMoved
  <2>8. GoesOn(w, l)
    BY <1>1, <2>1, <2>3, <2>10 DEF GoesOn, history
  <2> QED BY <2>3, <2>7, <2>8
<1>8. CASE ClaimFailed(w) /\ (UNCHANGED bounds \/ Failure)
  <2> DEFINE l == [pc[w] EXCEPT !.at = "chat", !.claimed = FALSE]
  <2>1. /\ pc' = [pc EXCEPT ![w] = l] /\ pc[w].at = "claiming"
        /\ claimSlot' = claimSlot + 1 /\ holdoff' = TRUE
        /\ UNCHANGED <<catalog, clubd, history, row, running, drain>>
    BY <1>8 DEF ClaimFailed
  <2>2. l \in Local /\ l.cid = pc[w].cid /\ l.at = "chat" /\ ~l.claimed
    BY <1>1 DEF Local, Stages
  <2>3. LocalFits(l) /\ pc[w].claimed
    BY <1>1, <2>1, <2>2 DEF LocalFits
  <2>4. events' \in Nat /\ failures' \in Nat
    BY <1>8, Counted DEF Fits
  <2> HIDE DEF l
  <2>5. Fits'
    BY <1>1, <2>1, <2>2, <2>3, <2>4, WorkerMoved DEF clubd, history, Fits, TypeOK
  <2>6. GoesOn(w, l)
    BY <1>1, <2>1, <2>2 DEF GoesOn, clubd, history
  <2> QED BY <2>2, <2>5, <2>6
<1>9. CASE Advertise(w) /\ pc[w].at = "claiming"
  <2> DEFINE l == [pc[w] EXCEPT !.at = "chat"]
  <2>1. /\ pc' = [pc EXCEPT ![w] = l] /\ pc[w].at = "claiming"
        /\ post[w].kind = "claim" /\ post[w].at = "broadcast"
        /\ post' = [post EXCEPT ![w] = NoPost]
        /\ forgot' = (forgot \/ slot # post[w].cid)
        /\ announced' = IF forgot' THEN {} ELSE announced \cup {post[w].cid}
        /\ holdoff' = TRUE
        /\ UNCHANGED <<catalog, row, up, slot, inbox, running, drain, claimSlot, once, purged,
                       votes, reviews, excused, bounds>>
    BY <1>9 DEF Advertise, Served, Announce, Go
  <2>2. l \in Local /\ l.cid = pc[w].cid /\ l.at = "chat" /\ l.claimed = pc[w].claimed
    BY <1>1 DEF Local, Stages
  <2>3. LocalFits(l)
    BY <1>1, <2>1, <2>2 DEF LocalFits
  <2> HIDE DEF l
  <2>4. post \in [Workers -> Posts] /\ NoPost \in Posts /\ NoPost.kind = "claim" /\ forgot \in BOOLEAN
    BY DEF Fits, TypeOK, Posts, NoPost, Post
  <2>5. post[w].cid \in Cids
    BY <2>1, <2>4 DEF Posts, NoPost, Post
  <2>6. /\ post' \in [Workers -> Posts] /\ post'[w].kind = "claim"
        /\ \A v \in Workers \ {w} : post'[v] = post[v]
    BY <2>1, <2>4
  <2>7. announced' \subseteq Cids /\ forgot' \in BOOLEAN
    BY <2>1, <2>4, <2>5 DEF Fits, TypeOK
  <2>8. slot' \in Cids \cup {None} /\ once' \subseteq Cids /\ inbox' \in Seq(Own)
        /\ votes' \in [Cids -> Nat] /\ excused' \in Nat /\ events' \in Nat /\ failures' \in Nat
        /\ row' \in [Cids -> [status : Statuses, error : Errors]]
        /\ UNCHANGED <<catalog, up, running, drain, purged, reviews>>
    BY <2>1 DEF bounds, Fits, TypeOK
  <2>9. Fits'
    BY <1>1, <2>1, <2>2, <2>3, <2>6, <2>7, <2>8, WorkerMoved
  <2>10. GoesOn(w, l)
    BY <1>1, <2>1, <2>2, <2>6 DEF GoesOn
  <2> QED BY <2>2, <2>9, <2>10
<1> QED BY <1>2, <1>5, <1>6, <1>7, <1>8, <1>9 DEF GoesOnBy

\* A worker returns, with the slot if it held it, and the row it wrote.
LEMMA WorkerReturns ==
    ASSUME Fits, NEW w \in Workers, pc[w].at # "idle", Return(w),
           row' \in [Cids -> [status : Statuses, error : Errors]],
           holdoff' \in BOOLEAN /\ excused' \in Nat /\ events' \in Nat /\ failures' \in Nat,
           UNCHANGED <<catalog, clubd, running, drain, once, purged, votes, reviews, forgot>>
    PROVE  Fits'
<1>1. running /\ pc[w] \in Local /\ Idle \in Local /\ LocalFits(Idle) /\ Idle.claimed = FALSE /\ Idle.at = "idle"
  BY BusyWorker, EndsType DEF Idle
<1>2. pc' = [pc EXCEPT ![w] = Idle]
  BY DEF Return
<1>3. pc[w].claimed \in BOOLEAN
  BY <1>1 DEF Local
<1>4. \/ Idle.claimed = pc[w].claimed /\ claimSlot' = claimSlot
      \/ pc[w].claimed /\ ~Idle.claimed /\ claimSlot' = claimSlot + 1
  <2>1. CASE pc[w].claimed = TRUE
    BY <1>1, <2>1 DEF Return, Release
  <2>2. CASE pc[w].claimed = FALSE
    BY <1>1, <2>2 DEF Return, Release
  <2> QED BY <1>3, <2>1, <2>2
<1>5. /\ slot' \in Cids \cup {None} /\ inbox' \in Seq(Own) /\ forgot' \in BOOLEAN
      /\ announced' \subseteq Cids /\ once' \subseteq Cids /\ votes' \in [Cids -> Nat]
      /\ post' = post /\ post' \in [Workers -> Posts]
  BY DEF Fits, TypeOK, clubd
<1> QED BY <1>1, <1>2, <1>4, <1>5, WorkerMoved DEF clubd

\* Failures, and files that are not for the club.
LEMMA WorkerLeaves ==
    ASSUME Fits, NEW w \in Workers,
           \/ FetchFailed(w) \/ Unusable(w) \/ ModelDown(w) \/ ChatFailed(w)
           \/ PublishRefused(w) \/ WorkerError(w)
    PROVE  Fits' /\ Leaves(w)
<1> DEFINE c == pc[w].cid
<1>0. pc[w].at \in {"lookup", "fetch", "chat", "publish", "mark"}
  BY DEF FetchFailed, Unusable, ModelDown, ChatFailed, PublishRefused, WorkerError
<1>1. /\ running /\ pc[w] \in Local /\ LocalFits(pc[w]) /\ c \in Cids
      /\ pc[w].at # "mark" => MayAsk(pc[w])
      /\ pc[w].at \in {"lookup", "fetch"} => pc[w].claimed = FALSE
  BY <1>0, BusyWorker DEF MayAsk, Stages, LocalFits, Local
<1>2. /\ row \in [Cids -> [status : Statuses, error : Errors]]
      /\ TypeOK /\ excused \in Nat /\ holdoff \in BOOLEAN
  BY DEF Fits, TypeOK
<1>3. ASSUME NEW status \in {"discovered", "skipped"}, NEW error \in {"none", "publish_failed"},
             status = "skipped" => error = "none", row' = Marked(c, status, error)
      PROVE  /\ row' \in [Cids -> [status : Statuses, error : Errors]]
             /\ \A d \in Cids \ {c} : row'[d] = row[d]
             /\ \/ row'[c] = row[c] /\ row[c].status = "none"
                \/ row'[c].status = "discovered"
                \/ row'[c] \in {NoRow, Row("skipped", "none")}
  <2>1. status \in Statuses /\ error \in EndErrors /\ error # "keep"
    BY DEF Statuses, EndErrors, Errors
  <2>2. TypeOK
    BY DEF Fits
  <2> HIDE DEF c
  <2>3. /\ row' \in [Cids -> [status : Statuses, error : Errors]]
        /\ \A d \in Cids \ {c} : row'[d] = row[d]
        /\ row[c].status = "none" => row'[c] = row[c]
        /\ row[c].status # "none" => row'[c].status = status /\ row'[c] = Row(status, error)
    BY <1>1, <1>3, <2>1, <2>2, MarkedType
  <2> QED BY <1>3, <2>3
<1>4. ASSUME row' = [row EXCEPT ![c] = NoRow]
      PROVE  /\ row' \in [Cids -> [status : Statuses, error : Errors]]
             /\ \A d \in Cids \ {c} : row'[d] = row[d]
             /\ row'[c] = NoRow
  BY <1>1, <1>2, <1>4 DEF NoRow, Row, Statuses, Errors
<1>5. ASSUME NEW error \in {"none", "publish_failed"}, RetryLater(w, error),
             events' \in Nat /\ failures' \in Nat,
             \/ MayAsk(pc[w]) /\ excused' = excused
             \/ excused' = excused + 1,
             UNCHANGED <<catalog, clubd, running, drain, once, purged, votes, reviews, forgot>>
      PROVE  Fits' /\ Leaves(w)
  <2>1. row' = Marked(c, "discovered", error) /\ Return(w) /\ holdoff' = holdoff
    BY <1>5 DEF RetryLater
  <2>2. excused' \in Nat /\ holdoff' \in BOOLEAN
    BY <1>2, <1>5, <2>1
  <2>3. /\ row' \in [Cids -> [status : Statuses, error : Errors]]
        /\ \A d \in Cids \ {c} : row'[d] = row[d]
        /\ \/ row'[c] = row[c] /\ row[c].status = "none"
           \/ row'[c].status = "discovered"
           \/ row'[c] \in {NoRow, Row("skipped", "none")}
    BY <1>3, <2>1
  <2>4. Fits'
    BY <1>0, <1>5, <2>1, <2>2, <2>3, WorkerReturns
  <2>5. pc' = [pc EXCEPT ![w] = Idle]
    BY <2>1 DEF Return
  <2> QED BY <1>0, <1>5, <2>3, <2>4, <2>5 DEF Leaves
<1>6. ASSUME FetchFailed(w) \/ Unusable(w)
      PROVE  Fits' /\ Leaves(w)
  <2>1. /\ pc' = [pc EXCEPT ![w] = Idle] /\ UNCHANGED <<world, claim>> /\ pc[w].at = "fetch"
        /\ events' \in Nat /\ failures' \in Nat
    BY <1>2, <1>6, Counted DEF FetchFailed, Unusable
  <2>2. /\ row' \in [Cids -> [status : Statuses, error : Errors]]
        /\ \A d \in Cids \ {c} : row'[d] = row[d]
        /\ \/ row'[c] = row[c] /\ row[c].status = "none"
           \/ row'[c].status = "discovered"
           \/ row'[c] \in {NoRow, Row("skipped", "none")}
    <3>1. \/ row' = [row EXCEPT ![c] = NoRow]
          \/ row' = Marked(c, "discovered", "none")
          \/ row' = Marked(c, "skipped", "none")
      BY <1>6 DEF FetchFailed, Unusable
    <3>2. CASE row' = [row EXCEPT ![c] = NoRow]
      BY <1>4, <3>2
    <3>3. CASE row' = Marked(c, "discovered", "none")
      BY <1>3, <3>3
    <3>4. CASE row' = Marked(c, "skipped", "none")
      BY <1>3, <3>4
    <3> QED BY <3>1, <3>2, <3>3, <3>4
  <2>3. Return(w)
    BY <1>1, <2>1 DEF Return, Release, claim
  <2>4. UNCHANGED <<catalog, clubd, running, drain, once, purged, votes, reviews, forgot, excused, holdoff>>
    BY <2>1 DEF world, history, claim
  <2>5. Fits'
    BY <1>2, <2>1, <2>2, <2>3, <2>4, WorkerReturns
  <2> QED BY <1>1, <2>1, <2>2, <2>4, <2>5 DEF Leaves
<1>7. CASE ModelDown(w) \/ ChatFailed(w)
  <2>1. RetryLater(w, "none") /\ UNCHANGED world /\ events' \in Nat /\ failures' \in Nat
        /\ pc[w].at \in {"fetch", "chat"}
    BY <1>2, <1>7, Counted DEF ModelDown, ChatFailed
  <2> QED BY <1>1, <1>5, <2>1 DEF world, history
<1>8. CASE PublishRefused(w)
  <2>1. RetryLater(w, "publish_failed") /\ UNCHANGED world /\ pc[w].at = "publish"
        /\ events' \in Nat /\ failures' \in Nat
    BY <1>2, <1>8, Counted DEF PublishRefused
  <2> QED BY <1>1, <1>2, <1>5, <2>1 DEF world, history
<1>9. CASE WorkerError(w)
  <2>1. /\ RetryLater(w, "none") /\ events' \in Nat /\ failures' \in Nat
        /\ excused' = IF pc[w].at = "mark" THEN excused + 1 ELSE excused
        /\ UNCHANGED <<catalog, clubd, running, drain, once, purged, votes, reviews, forgot>>
    BY <1>2, <1>9, Counted DEF WorkerError
  <2> QED BY <1>1, <1>5, <2>1
<1> QED BY <1>6, <1>7, <1>8, <1>9

\* A step that leaves workers and semaphore alone, and at most serves calls.
LEMMA OthersMoved ==
    ASSUME Fits, TypeOK', UNCHANGED <<pc, claimSlot, running>>,
           \A w \in Workers : \/ post'[w] \in {post[w], NoPost}
                              \/ /\ post[w] # NoPost
                                 /\ post'[w].cid = post[w].cid /\ post'[w].kind = post[w].kind,
           running \/ drain' = drain,
           drain' # drain => drain' = NoDrain \/ drain'.cid \in Cids
    PROVE  Fits'
<1>1. PostsFit'
  <2> SUFFICES ASSUME NEW w \in Workers PROVE PostFits(w)'
    BY DEF PostsFit
  <2>1. PostFits(w) /\ pc'[w] = pc[w]
    BY DEF Fits, PostsFit
  <2>2. CASE post'[w] \in {post[w], NoPost}
    BY <2>1, <2>2 DEF PostFits
  <2>3. CASE post[w] # NoPost /\ post'[w].cid = post[w].cid /\ post'[w].kind = post[w].kind
    BY <2>1, <2>3 DEF PostFits
  <2> QED BY <2>2, <2>3
<1>2. LocalsFit' /\ ThreadsFit' /\ SlotHeld'
  BY DEF Fits, LocalsFit, LocalFits, ThreadsFit, SlotHeld
<1> QED BY <1>1, <1>2 DEF Fits

\* _publish begins: the call of the worker is clubd's to append.
LEMMA PublishFits ==
    ASSUME Fits, NEW w \in Workers, Publish(w)
    PROVE  /\ Fits'
           /\ pc[w].at = "publish" /\ MayAsk(pc[w]) /\ pc[w].cid \in Cids
           /\ pc[w].act \in {"llm", "reuse", "skip"} /\ pc[w].end \in {Indexed, Scoped}
           /\ post[w] = NoPost /\ post'[w] = Post("append", pc[w].act, pc[w].cid)
           /\ pc'[w].at = "publishing" /\ pc'[w].cid = pc[w].cid /\ pc'[w].end = pc[w].end
           /\ \A v \in Workers \ {w} : pc'[v] = pc[v] /\ post'[v] = post[v]
<1> DEFINE l == [pc[w] EXCEPT !.at = "publishing", !.act = "none"]
           p == Post("append", pc[w].act, pc[w].cid)
<1>1. /\ pc[w].at = "publish" /\ up
      /\ post[w] = NoPost /\ post' = [post EXCEPT ![w] = p]
      /\ slot' = IF slot = pc[w].cid THEN None ELSE slot
      /\ pc' = [pc EXCEPT ![w] = l]
      /\ UNCHANGED <<catalog, claim, history, row, up, inbox, announced, running, drain, bounds>>
  BY DEF Publish, Call
<1>2. /\ running /\ pc[w] \in Local /\ LocalFits(pc[w]) /\ pc[w].cid \in Cids /\ MayAsk(pc[w])
      /\ pc \in [Workers -> Local] /\ post \in [Workers -> Posts]
  BY <1>1, BusyWorker DEF MayAsk, Stages, Fits, TypeOK
<1>3. /\ pc[w].act \in {"llm", "reuse", "skip"} /\ pc[w].end \in {Indexed, Scoped}
      /\ pc[w].act = "skip" <=> pc[w].end = Scoped
  BY <1>1, <1>2 DEF LocalFits, Indexed, Scoped, Row
<1>4. /\ l \in Local /\ l.at = "publishing" /\ l.cid = pc[w].cid /\ l.claimed = pc[w].claimed
      /\ l.end = pc[w].end
  BY <1>2 DEF Local, Stages, Acts
<1>5. LocalFits(l)
  BY <1>2, <1>3, <1>4 DEF LocalFits
<1>6. p \in Posts /\ p.cid = pc[w].cid /\ p.kind = pc[w].act
  BY <1>2, <1>3 DEF Posts, Post
<1> HIDE DEF l
<1>7. pc'[w] = l /\ \A v \in Workers \ {w} : pc'[v] = pc[v]
  BY <1>1, <1>2
<1>8. post' \in [Workers -> Posts] /\ post'[w] = p /\ \A v \in Workers \ {w} : post'[v] = post[v]
  BY <1>1, <1>2, <1>6
<1>9. PostFits(w)'
  BY <1>3, <1>4, <1>6, <1>7, <1>8 DEF PostFits
<1>10. slot' \in Cids \cup {None}
  BY <1>1 DEF Fits, TypeOK
<1> HIDE DEF p
<1>11. Fits'
  BY <1>1, <1>2, <1>4, <1>5, <1>8, <1>9, <1>10, WorkerMoved DEF claim, history, bounds, Fits, TypeOK
<1> QED BY <1>1, <1>2, <1>3, <1>4, <1>7, <1>8, <1>11 DEF p

\* _publish gives up: the row is to be put back.
LEMMA PublishFailedFits ==
    ASSUME Fits, NEW w \in Workers, PublishFailed(w), UNCHANGED bounds \/ Failure
    PROVE  /\ Fits'
           /\ pc[w].at = "publishing" /\ pc[w].cid \in Cids
           /\ pc'[w].at = "mark" /\ pc'[w].cid = pc[w].cid
           /\ pc'[w].end = Row("discovered", "publish_failed")
           /\ \A v \in Workers \ {w} : pc'[v] = pc[v]
<1> DEFINE end == Row("discovered", "publish_failed")
           l == [pc[w] EXCEPT !.at = "mark", !.end = end]
<1>1. /\ pc[w].at = "publishing" /\ pc' = [pc EXCEPT ![w] = l] /\ excused' = excused + 1
      /\ UNCHANGED <<catalog, clubd, claim, row, running, drain, once, purged, votes, reviews, forgot>>
  BY DEF PublishFailed
<1>2. running /\ pc[w] \in Local /\ LocalFits(pc[w]) /\ pc[w].cid \in Cids /\ pc \in [Workers -> Local]
  BY <1>1, BusyWorker DEF Fits, TypeOK
<1>3. end \in Ends
  BY DEF Ends
<1> HIDE DEF end
<1>4. l \in Local /\ l.at = "mark" /\ l.cid = pc[w].cid /\ l.claimed = pc[w].claimed /\ l.end = end
  BY <1>2, <1>3, EndsType DEF Local, Stages
<1>5. LocalFits(l)
  BY <1>2, <1>3, <1>4 DEF LocalFits
<1> HIDE DEF l
<1>6. pc'[w] = l /\ \A v \in Workers \ {w} : pc'[v] = pc[v]
  BY <1>1, <1>2
<1>7. events' \in Nat /\ failures' \in Nat
  BY Counted DEF Fits
<1>9. /\ holdoff' \in BOOLEAN /\ slot' \in Cids \cup {None} /\ inbox' \in Seq(Own)
      /\ post' \in [Workers -> Posts] /\ post' = post /\ claimSlot' = claimSlot
      /\ announced' \subseteq Cids /\ once' \subseteq Cids
      /\ votes' \in [Cids -> Nat] /\ excused' \in Nat /\ forgot' \in BOOLEAN
      /\ row' \in [Cids -> [status : Statuses, error : Errors]]
      /\ UNCHANGED <<catalog, up, running, drain, purged, reviews>>
  BY <1>1 DEF clubd, claim, Fits, TypeOK
<1>8. Fits'
  BY <1>1, <1>2, <1>4, <1>5, <1>7, <1>9, WorkerMoved
<1> QED BY <1>1, <1>2, <1>4, <1>6, <1>8 DEF end

\* What clubd serves is a claim, or a record on its way.
LEMMA ServedCall ==
    ASSUME TypeOK, NEW w \in Workers
    PROVE  /\ post \in [Workers -> Posts] /\ NoPost \in Posts
           /\ post[w] = NoPost <=> post[w].at = "none"
           /\ post[w] # NoPost => post[w].cid \in Cids
           /\ post[w].kind # "claim" => /\ post[w] # NoPost
                                        /\ post[w].kind \in {"llm", "reuse", "skip"}
           /\ post[w].at = "append" => post[w].kind # "claim"
           /\ (post[w].kind # "claim" /\ post[w].at # "append") => post[w].at = "broadcast"
BY DEF TypeOK, Posts, NoPost, Post

\* The line that clubd appends for a worker.
Line(w) == [kind |-> post[w].kind, cid |-> post[w].cid]

\* A line of this node reaches the inbox: it is the last, the others stay, and a
\* label is counted and known.
LEMMA AppendFits ==
    ASSUME Fits, NEW w \in Workers, AppendLine(w)
    PROVE  /\ Fits'
           /\ Line(w) \in Own /\ post[w].at = "append" /\ post[w] # NoPost /\ post[w].kind # "claim"
           /\ post'[w] = [post[w] EXCEPT !.at = "broadcast"]
           /\ \A v \in Workers \ {w} : post'[v] = post[v]
           /\ inbox' \in Seq(Own) /\ Len(inbox') = Len(inbox) + 1
           /\ inbox'[Len(inbox')] = Line(w)
           /\ \A i \in 1 .. Len(inbox) : inbox'[i] = inbox[i]
           /\ once' = IF post[w].kind = "skip" THEN once ELSE once \cup {post[w].cid}
           /\ \A d \in Cids : votes'[d] \in {votes[d], votes[d] + 1}
           /\ \A d \in Cids \ {post[w].cid} : votes'[d] = votes[d]
           /\ UNCHANGED <<catalog, worker, row, up, slot, announced, running, drain, purged,
                          reviews, excused, forgot, bounds>>
<1> DEFINE m == Line(w)
<1>1. /\ post[w].at = "append" /\ inbox' = Append(inbox, m)
      /\ post' = [post EXCEPT ![w].at = "broadcast"]
      /\ IF post[w].kind = "skip" THEN UNCHANGED <<votes, once>>
         ELSE votes' = [votes EXCEPT ![post[w].cid] = @ + 1] /\ once' = once \cup {post[w].cid}
      /\ UNCHANGED <<catalog, worker, row, up, slot, announced, running, drain, purged,
                     reviews, excused, forgot, bounds>>
  BY DEF AppendLine, Line
<1>2. /\ inbox \in Seq(Own) /\ once \subseteq Cids /\ votes \in [Cids -> Nat]
      /\ post \in [Workers -> Posts] /\ post[w] # NoPost /\ post[w].cid \in Cids
      /\ post[w].kind \in {"llm", "reuse", "skip"} /\ post[w].kind # "claim"
  BY <1>1, ServedCall DEF Fits, TypeOK, NoPost, Post
<1>3. m \in Own
  BY <1>2 DEF Line, Own
<1> HIDE DEF m
<1>4. /\ inbox' \in Seq(Own) /\ Len(inbox') = Len(inbox) + 1
      /\ inbox'[Len(inbox')] = m
      /\ \A i \in 1 .. Len(inbox) : inbox'[i] = inbox[i]
  BY <1>1, <1>2, <1>3, AppendProperties
<1> DEFINE p == [post[w] EXCEPT !.at = "broadcast"]
<1>5. p \in Posts /\ p.cid = post[w].cid /\ p.kind = post[w].kind
  BY <1>1, <1>2 DEF Posts, NoPost, Post
<1>6. post' = [post EXCEPT ![w] = p]
  BY <1>1
<1> HIDE DEF p
<1>7. post' \in [Workers -> Posts] /\ post'[w] = p /\ \A v \in Workers \ {w} : post'[v] = post[v]
  BY <1>2, <1>5, <1>6
<1>8. /\ once' = IF post[w].kind = "skip" THEN once ELSE once \cup {post[w].cid}
      /\ once' \subseteq Cids /\ votes' \in [Cids -> Nat]
      /\ \A d \in Cids : votes'[d] \in {votes[d], votes[d] + 1}
      /\ \A d \in Cids \ {post[w].cid} : votes'[d] = votes[d]
  <2>1. CASE post[w].kind = "skip"
    BY <1>1, <1>2, <2>1
  <2>2. CASE post[w].kind # "skip"
    <3>1. votes' = [votes EXCEPT ![post[w].cid] = @ + 1] /\ once' = once \cup {post[w].cid}
      BY <1>1, <2>2
    <3> QED BY <1>2, <2>2, <3>1
  <2> QED BY <2>1, <2>2
<1>9. TypeOK'
  BY <1>1, <1>4, <1>7, <1>8 DEF Fits, TypeOK, catalog, worker, claim, bounds
<1>10. Fits'
  BY <1>1, <1>2, <1>5, <1>7, <1>9, OthersMoved DEF worker, claim
<1> QED BY <1>1, <1>2, <1>3, <1>4, <1>7, <1>8, <1>10 DEF m, p

\* clubd is done with a record, and a worker that waits for it marks its row.
LEMMA BroadcastFits ==
    ASSUME Fits, NEW w \in Workers, Broadcast(w)
    PROVE  /\ Fits'
           /\ post[w].at = "broadcast" /\ post[w].kind # "claim" /\ post[w] # NoPost
           /\ post' = [post EXCEPT ![w] = NoPost]
           /\ UNCHANGED <<catalog, claim, history, row, up, slot, inbox, running, drain, bounds>>
           /\ announced' = IF forgot THEN {} ELSE announced \ {post[w].cid}
           /\ \A v \in Workers \ {w} : pc'[v] = pc[v]
           /\ \/ pc' = pc /\ pc[w].at # "publishing"
              \/ /\ pc[w].at = "publishing" /\ pc'[w].at = "mark" /\ pc[w].cid \in Cids
                 /\ pc'[w].cid = pc[w].cid /\ pc'[w].end = pc[w].end
                 /\ pc[w].end \in {Indexed, Scoped}
<1>1. /\ post[w].at = "broadcast" /\ post[w].kind # "claim"
      /\ post' = [post EXCEPT ![w] = NoPost]
      /\ UNCHANGED <<catalog, claim, history, row, up, slot, inbox, running, drain, bounds>>
      /\ announced' = IF forgot THEN {} ELSE announced \ {post[w].cid}
  BY DEF Broadcast, Served, Announce, history
<1>2. post \in [Workers -> Posts] /\ NoPost \in Posts /\ post[w] # NoPost /\ pc \in [Workers -> Local]
  BY <1>1, ServedCall DEF Fits, TypeOK
<1>3. /\ post' \in [Workers -> Posts] /\ post'[w] = NoPost
      /\ \A v \in Workers \ {w} : post'[v] = post[v]
      /\ announced' \subseteq Cids
  BY <1>1, <1>2 DEF Fits, TypeOK
<1>4. CASE pc[w].at = "publishing"
  <2> DEFINE l == [pc[w] EXCEPT !.at = "mark"]
  <2>1. pc' = [pc EXCEPT ![w] = l]
    BY <1>4 DEF Broadcast, Go
  <2>2. running /\ pc[w] \in Local /\ LocalFits(pc[w]) /\ pc[w].cid \in Cids
    BY <1>4, BusyWorker
  <2>3. pc[w].end \in {Indexed, Scoped}
    BY <1>4, <2>2 DEF LocalFits
  <2>4. /\ l \in Local /\ l.at = "mark" /\ l.cid = pc[w].cid /\ l.claimed = pc[w].claimed
        /\ l.end = pc[w].end
    BY <2>2 DEF Local, Stages
  <2>5. LocalFits(l)
    BY <2>2, <2>3, <2>4 DEF LocalFits, Ends
  <2> HIDE DEF l
  <2>6. Fits'
    BY <1>1, <1>3, <2>1, <2>2, <2>4, <2>5, WorkerMoved DEF claim, history, bounds, Fits, TypeOK
  <2> QED BY <1>1, <1>2, <1>4, <2>1, <2>2, <2>3, <2>4, <2>6
<1>5. CASE pc[w].at # "publishing"
  <2>1. pc' = pc
    BY <1>5 DEF Broadcast
  <2>2. TypeOK'
    BY <1>1, <1>3, <2>1 DEF Fits, TypeOK, catalog, claim, history, bounds
  <2>3. Fits'
    BY <1>1, <1>2, <1>3, <2>1, <2>2, OthersMoved DEF claim
  <2> QED BY <1>1, <1>2, <1>5, <2>1, <2>3
<1> QED BY <1>4, <1>5

\* clubd is done with a claim that nobody waits for, or fails.
ServedBy(w) == HandlerFails(w) \/ (Advertise(w) /\ pc[w].at # "claiming")

LEMMA ServedFits ==
    ASSUME Fits, NEW w \in Workers, ServedBy(w)
    PROVE  /\ Fits'
           /\ post[w] # NoPost /\ post' = [post EXCEPT ![w] = NoPost]
           /\ UNCHANGED <<catalog, worker, row, up, slot, inbox, running, drain, once, purged,
                          votes, reviews, excused>>
<1>1. /\ post[w] # NoPost /\ post' = [post EXCEPT ![w] = NoPost]
      /\ UNCHANGED <<catalog, worker, row, up, slot, inbox, running, drain, once, purged,
                     votes, reviews, excused>>
      /\ forgot' \in BOOLEAN
      /\ announced' = {} \/ announced' = announced \/ announced' = announced \cup {post[w].cid}
      /\ UNCHANGED bounds \/ Failure
  <2>1. CASE HandlerFails(w)
    BY <2>1 DEF HandlerFails, Served, Announce, Fits, TypeOK
  <2>2. CASE Advertise(w) /\ pc[w].at # "claiming"
    <3>1. post[w] # NoPost
      BY <2>2, ServedCall DEF Advertise, Fits, NoPost, Post
    <3> QED BY <2>2, <3>1 DEF Advertise, Served, Announce, Fits, TypeOK, worker, claim
  <2> QED BY <2>1, <2>2 DEF ServedBy
<1>2. post \in [Workers -> Posts] /\ NoPost \in Posts /\ post[w].cid \in Cids
  BY <1>1, ServedCall DEF Fits
<1>3. /\ post' \in [Workers -> Posts] /\ post'[w] = NoPost
      /\ \A v \in Workers \ {w} : post'[v] = post[v]
      /\ announced' \subseteq Cids
  BY <1>1, <1>2 DEF Fits, TypeOK
<1>4. events' \in Nat /\ failures' \in Nat
  BY <1>1, Counted DEF Fits
<1>5. TypeOK'
  BY <1>1, <1>3, <1>4 DEF Fits, TypeOK, catalog, worker, claim
<1>6. Fits'
  BY <1>1, <1>3, <1>5, OthersMoved DEF worker, claim
<1> QED BY <1>1, <1>6

\* work.mark writes the worker's row, and the semaphore is given back.
LEMMA MarkFits ==
    ASSUME Fits, NEW w \in Workers, Mark(w)
    PROVE  /\ Fits'
           /\ running /\ pc[w].at = "mark" /\ pc[w].cid \in Cids /\ pc[w].end \in Ends
           /\ pc' = [pc EXCEPT ![w] = Idle]
           /\ \A d \in Cids \ {pc[w].cid} : row'[d] = row[d]
           /\ row[pc[w].cid].status = "none" => row'[pc[w].cid] = row[pc[w].cid]
           /\ row[pc[w].cid].status # "none" =>
                /\ row'[pc[w].cid].status = pc[w].end.status
                /\ pc[w].end.status # "discovered" => row'[pc[w].cid] = pc[w].end
           /\ UNCHANGED world
<1> DEFINE c == pc[w].cid
           end == pc[w].end
<1>1. pc[w].at = "mark" /\ row' = Marked(c, end.status, end.error) /\ Return(w)
      /\ UNCHANGED <<world, bounds>>
      /\ holdoff' = (holdoff /\ (pc[w].chatted => end.status = "discovered"))
  BY DEF Mark
<1>2. running /\ pc[w] \in Local /\ LocalFits(pc[w]) /\ c \in Cids
  BY <1>1, BusyWorker
<1>3. end \in Ends
  BY <1>1, <1>2 DEF LocalFits
<1>4. end.status \in Statuses /\ end.error \in EndErrors /\ end = Row(end.status, end.error)
      /\ (end.error = "keep" => end.status = "discovered")
  BY <1>3 DEF Ends, Row, Indexed, Scoped, Statuses, EndErrors, Errors
<1>5. TypeOK
  BY DEF Fits
<1> HIDE DEF c, end
<1>6. /\ row' \in [Cids -> [status : Statuses, error : Errors]]
      /\ \A d \in Cids \ {c} : row'[d] = row[d]
      /\ row[c].status = "none" => row'[c] = row[c]
      /\ row[c].status # "none" => /\ row'[c].status = end.status
                                   /\ end.error # "keep" => row'[c] = Row(end.status, end.error)
  BY <1>1, <1>2, <1>4, <1>5, MarkedType
<1>7. holdoff' \in BOOLEAN /\ excused' \in Nat /\ events' \in Nat /\ failures' \in Nat
  BY <1>1, <1>2, <1>5 DEF TypeOK, world, history, bounds, Local
<1>8. Fits'
  BY <1>1, <1>6, <1>7, WorkerReturns DEF world, history
<1>9. pc' = [pc EXCEPT ![w] = Idle]
  BY <1>1 DEF Return
<1> QED BY <1>1, <1>2, <1>3, <1>4, <1>6, <1>8, <1>9 DEF c, end

-----------------------------------------------------------------------------
(***************************************************************************)
(* The same for the other threads, clubd and the process.                  *)
(***************************************************************************)
\* What the drain stores is well typed.
LEMMA StoredType ==
    ASSUME TypeOK, NEW p \in Publishers, NEW kind \in {"llm", "reuse", "skip", "claim"},
           kind = "claim" => p \in Peers, NEW c \in Cids, Stored(p, kind, c)
    PROVE  /\ labels' \subseteq Labels /\ once' \subseteq Cids
           /\ skips' \in [Cids -> Publishers \cup {None}]
           /\ claims' \in [Peers -> Cids \cup {None}]
           /\ logged' \subseteq Publishers \X Cids
           /\ drain' \in [why : {"second", "wrong", "none"}, cid : Cids \cup {None}]
           /\ drain' # drain => drain'.cid \in Cids
<1>1. CASE UNCHANGED <<labels, once, skips, claims, drain, logged>>
  BY <1>1 DEF TypeOK
<1>2. CASE ~(kind = "skip" /\ <<p, c>> \in logged)
  <2>1. labels' \subseteq Labels /\ once' \subseteq Cids
    BY <1>2 DEF Stored, TypeOK, Labels
  <2>2. skips' \in [Cids -> Publishers \cup {None}]
    BY <1>2 DEF Stored, TypeOK
  <2>3. claims' \in [Peers -> Cids \cup {None}]
    <3>1. claims' = IF kind = "claim" THEN Claimed(p, c) ELSE Unclaimed(c)
      BY <1>2 DEF Stored
    <3> QED BY <3>1 DEF Claimed, Unclaimed, TypeOK
  <2>4. /\ drain' \in [why : {"second", "wrong", "none"}, cid : Cids \cup {None}]
        /\ drain' # drain => drain'.cid \in Cids
    BY <1>2 DEF Stored, TypeOK
  <2>5. logged' \subseteq Publishers \X Cids
    BY <1>2 DEF Stored, TypeOK
  <2> QED BY <2>1, <2>2, <2>3, <2>4, <2>5
<1> QED BY <1>1, <1>2 DEF Stored

\* The messages of peers that the drain comes upon.
LEMMA HeardType ==
    ASSUME NEW m \in Heard
    PROVE  /\ m.by \in Peers /\ m.by \in Publishers /\ m.by # Self /\ m.cid \in Cids
           /\ m.kind \in {"llm", "reuse", "skip", "claim", "wrong"}
BY IndexerAssumption DEF Publishers

\* The drain thread stores own lines, and messages and labels of peers.
LEMMA DrainFits ==
    ASSUME Fits, DrainOwn \/ \E m \in Heard : DrainForeign(m) \/ DrainWrong(m)
    PROVE  Fits'
<1>1. CASE DrainOwn
  <2> DEFINE m == Head(inbox)
  <2>1. inbox \in Seq(Own) /\ inbox # <<>> /\ inbox' = Tail(inbox) /\ running
    BY <1>1 DEF DrainOwn, Fits, TypeOK
  <2>2. m \in Own /\ inbox' \in Seq(Own)
    BY <2>1, HeadTailProperties
  <2>3. m.cid \in Cids /\ m.kind \in {"llm", "reuse", "skip"} /\ Self \in Publishers
    BY <2>2 DEF Own, Publishers
  <2>4. Stored(Self, m.kind, m.cid)
    BY <1>1 DEF DrainOwn
  <2>5. /\ UNCHANGED <<worker, row, wrong, banned, up, slot, post, announced, running, purged,
                       votes, reviews, excused, forgot, bounds>>
    BY <1>1 DEF DrainOwn
  <2> HIDE DEF m
  <2>6. /\ labels' \subseteq Labels /\ once' \subseteq Cids
        /\ skips' \in [Cids -> Publishers \cup {None}]
        /\ claims' \in [Peers -> Cids \cup {None}]
        /\ logged' \subseteq Publishers \X Cids
        /\ drain' \in [why : {"second", "wrong", "none"}, cid : Cids \cup {None}]
        /\ drain' # drain => drain'.cid \in Cids
    BY <2>3, <2>4, StoredType DEF Fits
  <2>7. TypeOK'
    BY <2>2, <2>5, <2>6 DEF Fits, TypeOK, worker, claim, bounds
  <2> QED BY <2>1, <2>5, <2>6, <2>7, OthersMoved DEF worker, claim
<1>2. ASSUME NEW m \in Heard, DrainForeign(m)
      PROVE  Fits'
  <2>1. m.kind \in {"llm", "reuse", "skip", "claim"} /\ m.by \in Publishers /\ m.by \in Peers
        /\ m.cid \in Cids
    BY <1>2, HeardType DEF DrainForeign
  <2>2. Stored(m.by, m.kind, m.cid) /\ running
    BY <1>2 DEF DrainForeign
  <2>3. UNCHANGED <<clubd, worker, row, wrong, banned, running, purged, votes,
                    reviews, excused, forgot>>
    BY <1>2 DEF DrainForeign
  <2>4. events' \in Nat /\ failures' \in Nat
    BY <1>2, Counted DEF DrainForeign, Fits
  <2>5. /\ labels' \subseteq Labels /\ once' \subseteq Cids
        /\ skips' \in [Cids -> Publishers \cup {None}]
        /\ claims' \in [Peers -> Cids \cup {None}]
        /\ logged' \subseteq Publishers \X Cids
        /\ drain' \in [why : {"second", "wrong", "none"}, cid : Cids \cup {None}]
        /\ drain' # drain => drain'.cid \in Cids
    BY <2>1, <2>2, StoredType DEF Fits
  <2>6. TypeOK'
    BY <2>3, <2>4, <2>5 DEF Fits, TypeOK, worker, claim, clubd
  <2> QED BY <2>2, <2>3, <2>5, <2>6, OthersMoved DEF worker, claim, clubd
<1>3. ASSUME NEW m \in Heard, DrainWrong(m)
      PROVE  Fits'
  <2>1. m.by \in Publishers /\ m.cid \in Cids
    BY HeardType
  <2>2. /\ running /\ wrong' = wrong \cup {<<m.cid, m.by>>}
        /\ drain' = [why |-> "wrong", cid |-> m.cid]
        /\ UNCHANGED <<clubd, worker, history, row, labels, skips, claims, banned, logged, running>>
    BY <1>3 DEF DrainWrong
  <2>3. events' \in Nat /\ failures' \in Nat
    BY <1>3, Counted DEF DrainWrong, Fits
  <2>4. wrong' \subseteq Cids \X Publishers
        /\ drain' \in [why : {"second", "wrong", "none"}, cid : Cids \cup {None}]
        /\ drain'.cid \in Cids
    BY <2>1, <2>2 DEF Fits, TypeOK
  <2>5. TypeOK'
    BY <2>2, <2>3, <2>4 DEF Fits, TypeOK, worker, claim, clubd, history
  <2> QED BY <2>2, <2>4, <2>5, OthersMoved DEF worker, claim, clubd
<1> QED BY <1>1, <1>2, <1>3

\* work.enqueue_review after a second label or a wrong vote, in the drain thread.
LEMMA ReviewFits ==
    ASSUME Fits, EnqueueReview
    PROVE  /\ Fits' /\ running /\ drain.cid \in Cids
           /\ \/ UNCHANGED <<row, reviews>>
              \/ /\ row' = [row EXCEPT ![drain.cid] = Row("discovered", "none")]
                 /\ reviews' = [reviews EXCEPT ![drain.cid] = @ + 1]
<1> DEFINE c == drain.cid
<1>1. c \in Cids /\ running
  BY DEF EnqueueReview, Fits, ThreadsFit
<1>2. /\ drain' = NoDrain
      /\ UNCHANGED <<catalog, clubd, worker, running, once, purged, votes, excused, forgot, bounds>>
      /\ \/ UNCHANGED <<row, reviews>>
         \/ /\ row' = [row EXCEPT ![c] = Row("discovered", "none")]
            /\ reviews' = [reviews EXCEPT ![c] = @ + 1]
  BY DEF EnqueueReview
<1>3. row' \in [Cids -> [status : Statuses, error : Errors]] /\ reviews' \in [Cids -> Nat]
  <2>1. row \in [Cids -> [status : Statuses, error : Errors]] /\ reviews \in [Cids -> Nat]
    BY DEF Fits, TypeOK
  <2>2. Row("discovered", "none") \in [status : Statuses, error : Errors]
    BY DEF Row, Statuses, Errors
  <2> QED BY <1>1, <1>2, <2>1, <2>2
<1>4. drain' \in [why : {"second", "wrong", "none"}, cid : Cids \cup {None}]
  BY <1>2 DEF NoDrain
<1>5. TypeOK'
  BY <1>2, <1>3, <1>4 DEF Fits, TypeOK, worker, claim, clubd, catalog, bounds
<1>6. Fits'
  BY <1>1, <1>2, <1>5, OthersMoved DEF worker, claim, clubd
<1> QED BY <1>1, <1>2, <1>6

\* A WANT of the sniffer adds a row, and leaves workers and threads alone.
LEMMA WantFits ==
    ASSUME Fits, NEW c \in Cids, Want(c)
    PROVE  Fits'
<1>1. row' = [row EXCEPT ![c] = Row("discovered", "none")] /\ UNCHANGED <<world, worker>> /\ running
  BY DEF Want
<1>2. row' \in [Cids -> [status : Statuses, error : Errors]] /\ events' \in Nat /\ failures' \in Nat
  <2>1. row \in [Cids -> [status : Statuses, error : Errors]]
    BY DEF Fits, TypeOK
  <2>2. Row("discovered", "none") \in [status : Statuses, error : Errors]
    BY DEF Row, Statuses, Errors
  <2>3. events' \in Nat /\ failures' \in Nat
    BY Counted DEF Want, Fits
  <2> QED BY <1>1, <2>1, <2>2, <2>3
<1>3. TypeOK'
  BY <1>1, <1>2 DEF Fits, TypeOK, worker, claim, world, clubd, catalog, history
<1> QED BY <1>1, <1>3, OthersMoved DEF worker, claim, world, clubd

\* Blacklisting a publisher, or the expiry of its row, changes the catalog only.
LEMMA BlacklistFits ==
    ASSUME Fits, NEW p \in Peers, Blacklist(p) \/ ExpireRow(p)
    PROVE  Fits'
<1>1. claims' = [claims EXCEPT ![p] = None] /\ UNCHANGED <<clubd, worker, row, bounds, running, drain>>
  BY DEF Blacklist, ExpireRow
<1>2. claims' \in [Peers -> Cids \cup {None}]
  BY <1>1 DEF Fits, TypeOK
<1>3. CASE Blacklist(p)
  <2>1. /\ banned' \subseteq Peers /\ labels' \subseteq Labels
        /\ wrong' \subseteq Cids \X Publishers /\ purged' \subseteq Cids
        /\ logged' \subseteq Publishers \X Cids
    BY <1>3 DEF Blacklist, Fits, TypeOK
  <2>2. skips' \in [Cids -> Publishers \cup {None}]
    BY <1>3 DEF Blacklist, Fits, TypeOK
  <2>3. UNCHANGED <<once, votes, reviews, excused, forgot>>
    BY <1>3 DEF Blacklist
  <2>4. TypeOK'
    BY <1>1, <1>2, <2>1, <2>2, <2>3 DEF Fits, TypeOK, worker, claim, clubd, bounds
  <2> QED BY <1>1, <2>4, OthersMoved DEF worker, claim, clubd
<1>4. CASE ExpireRow(p)
  <2>1. UNCHANGED <<history, labels, skips, wrong, banned, logged>>
    BY <1>4 DEF ExpireRow
  <2>2. TypeOK'
    BY <1>1, <1>2, <2>1 DEF Fits, TypeOK, worker, claim, clubd, history, bounds
  <2> QED BY <1>1, <2>2, OthersMoved DEF worker, claim, clubd
<1> QED BY <1>3, <1>4

\* clubd stops and starts: its slot is forgotten, the node's threads go on.
LEMMA ClubdFits ==
    ASSUME Fits, ClubdStop \/ ClubdStart
    PROVE  Fits'
<1>1. CASE ClubdStop
  <2>1. /\ up' = FALSE /\ slot' = None /\ forgot' = TRUE /\ announced' = {}
        /\ post' = [w \in Workers |-> NoPost]
        /\ UNCHANGED <<catalog, worker, row, inbox, running, drain, once,
                       purged, votes, reviews, excused>>
    BY <1>1 DEF ClubdStop, Announce
  <2>2. events' \in Nat /\ failures' \in Nat
    BY <1>1, Counted DEF ClubdStop, Fits
  <2>4. post' \in [Workers -> Posts] /\ \A w \in Workers : post'[w] = NoPost
    BY <2>1 DEF Posts
  <2>3. TypeOK'
    BY <2>1, <2>2, <2>4 DEF Fits, TypeOK, worker, claim, catalog
  <2> QED BY <2>1, <2>3, <2>4, OthersMoved DEF worker, claim
<1>2. CASE ClubdStart
  <2>1. TypeOK'
    BY <1>2 DEF ClubdStart, Fits, TypeOK, worker, claim, catalog, history, bounds
  <2> QED BY <1>2, <2>1, OthersMoved DEF ClubdStart, worker, claim
<1> QED BY <1>1, <1>2

\* A crash of the observer ends its threads and leaves the semaphore free.
LEMMA CrashFits ==
    ASSUME Fits, Crash
    PROVE  Fits'
<1>1. Idle \in Local /\ LocalFits(Idle) /\ Idle.at = "idle" /\ Idle.claimed = FALSE
  BY EndsType DEF Idle
<1>2. /\ pc' = [w \in Workers |-> Idle] /\ drain' = NoDrain /\ claimSlot' = 1 /\ holdoff' = FALSE
      /\ running' = FALSE /\ excused' = excused + 1
      /\ UNCHANGED <<catalog, clubd, row, once, purged, votes, reviews, forgot>>
  BY DEF Crash
<1>3. pc' \in [Workers -> Local] /\ \A w \in Workers : pc'[w] = Idle
  BY <1>1, <1>2
<1>4. drain' \in [why : {"second", "wrong", "none"}, cid : Cids \cup {None}]
  BY <1>2 DEF NoDrain
<1>5. events' \in Nat /\ failures' \in Nat /\ excused' \in Nat /\ claimSlot' \in 0 .. 1
  <2>1. excused \in Nat
    BY DEF Fits, TypeOK
  <2>2. events' \in Nat /\ failures' \in Nat
    BY Counted DEF Crash, Fits
  <2> QED BY <1>2, <2>1, <2>2
<1>6. TypeOK'
  BY <1>2, <1>3, <1>4, <1>5, Zenon DEF Fits, TypeOK, catalog, clubd
<1>7. LocalsFit' /\ PostsFit' /\ ThreadsFit' /\ SlotHeld'
  BY <1>1, <1>2, <1>3 DEF LocalsFit, LocalFits, PostsFit, PostFits, ThreadsFit, SlotHeld
<1> QED BY <1>6, <1>7 DEF Fits

\* main() queues again what was in processing or is not in the catalog, and
\* leaves every other row as it is.
LEMMA StartRows ==
    ASSUME Fits, Start
    PROVE  /\ row' \in [Cids -> [status : Statuses, error : Errors]]
           /\ \A c \in Cids :
                \/ /\ row'[c] = row[c] /\ row[c].status # "processing"
                   /\ ~Unpublished(c)
                \/ /\ row'[c].status = "discovered"
                   /\ Unpublished(c) \/ row[c].status = "processing"
<1>1. row \in [Cids -> [status : Statuses, error : Errors]]
  BY DEF Fits, TypeOK
<1> DEFINE new(c) == CASE Unpublished(c) -> Row("discovered", IF row[c].error = "publish_failed"
                                                           THEN row[c].error ELSE "none")
                       [] ~Unpublished(c) /\ row[c].status = "processing" -> Row("discovered", row[c].error)
                       [] OTHER -> row[c]
<1>2. row' = [c \in Cids |-> new(c)]
  BY DEF Start
<1>3. ASSUME NEW c \in Cids
      PROVE  /\ new(c) \in [status : Statuses, error : Errors]
             /\ \/ new(c) = row[c] /\ row[c].status # "processing" /\ ~Unpublished(c)
                \/ new(c).status = "discovered" /\ (Unpublished(c) \/ row[c].status = "processing")
  <2>1. row[c] \in [status : Statuses, error : Errors]
    BY <1>1
  <2>2. CASE Unpublished(c)
    <3>1. new(c) = Row("discovered", IF row[c].error = "publish_failed" THEN row[c].error ELSE "none")
      BY <2>2
    <3> QED BY <2>2, <3>1 DEF Row, Statuses, Errors
  <2>3. CASE ~Unpublished(c) /\ row[c].status = "processing"
    <3>1. new(c) = Row("discovered", row[c].error)
      BY <2>3
    <3> QED BY <2>1, <2>3, <3>1 DEF Row, Statuses
  <2>4. CASE ~Unpublished(c) /\ row[c].status # "processing"
    <3>1. new(c) = row[c]
      BY <2>4
    <3> QED BY <2>1, <2>4, <3>1
  <2> QED BY <2>2, <2>3, <2>4
<1> HIDE DEF new
<1> QED BY <1>2, <1>3

\* main() queues what was interrupted or has no record, before threads start.
LEMMA StartFits ==
    ASSUME Fits, Start
    PROVE  Fits'
<1>1. row' \in [Cids -> [status : Statuses, error : Errors]]
  BY StartRows
<1>2. /\ running' = TRUE /\ purged' = {}
      /\ UNCHANGED <<catalog, clubd, worker, drain, once, votes, reviews, excused, forgot, bounds>>
  BY DEF Start
<1>3. TypeOK'
  BY <1>1, <1>2 DEF Fits, TypeOK, catalog, clubd, worker, claim, bounds
<1>4. LocalsFit' /\ PostsFit' /\ ThreadsFit' /\ SlotHeld'
  BY <1>2 DEF Fits, LocalsFit, LocalFits, PostsFit, PostFits, ThreadsFit, SlotHeld, worker, claim, clubd
<1> QED BY <1>3, <1>4 DEF Fits

\* The steps of a worker and of clubd for it, as the lemmas take them.
LEMMA WorkerSteps ==
    ASSUME NEW w \in Workers, Work(w) \/ Serve(w) \/ Fails(w)
    PROVE  \/ \E c \in Cids : TakeBatch(w, c)
           \/ GoesOnBy(w)
           \/ \/ FetchFailed(w) \/ Unusable(w) \/ ModelDown(w) \/ ChatFailed(w)
              \/ PublishRefused(w) \/ WorkerError(w)
           \/ Publish(w)
           \/ PublishFailed(w) /\ (UNCHANGED bounds \/ Failure)
           \/ AppendLine(w) \/ Broadcast(w) \/ ServedBy(w) \/ Mark(w)
BY DEF Work, Serve, Fails, NoAnswer, LateAnswer, GoesOnBy, ServedBy

\* Every step keeps the types, the workers' locals and the semaphore's account.
LEMMA FitsStep == Fits /\ [Next]_vars => Fits'
<1> SUFFICES ASSUME Fits, [Next]_vars PROVE Fits'
  OBVIOUS
<1>1. ASSUME NEW w \in Workers, Work(w) \/ Serve(w) \/ Fails(w)
      PROVE  Fits'
  <2>1. ASSUME NEW c \in Cids, TakeBatch(w, c) PROVE Fits'
    BY <2>1, TakeBatchFits
  <2>2. CASE GoesOnBy(w)
    BY <2>2, WorkerGoesOn
  <2>3. CASE \/ FetchFailed(w) \/ Unusable(w) \/ ModelDown(w) \/ ChatFailed(w)
             \/ PublishRefused(w) \/ WorkerError(w)
    BY <2>3, WorkerLeaves, Zenon
  <2>4. CASE Publish(w)
    BY <2>4, PublishFits
  <2>5. CASE PublishFailed(w) /\ (UNCHANGED bounds \/ Failure)
    BY <2>5, PublishFailedFits
  <2>6. CASE AppendLine(w)
    BY <2>6, AppendFits
  <2>7. CASE Broadcast(w)
    BY <2>7, BroadcastFits
  <2>8. CASE ServedBy(w)
    BY <2>8, ServedFits
  <2>9. CASE Mark(w)
    BY <2>9, MarkFits
  <2> QED BY <1>1, <2>1, <2>2, <2>3, <2>4, <2>5, <2>6, <2>7, <2>8, <2>9, WorkerSteps
<1>2. CASE DrainOwn \/ \E m \in Heard : DrainForeign(m) \/ DrainWrong(m)
  BY <1>2, DrainFits
<1>3. CASE EnqueueReview
  BY <1>3, ReviewFits
<1>4. ASSUME NEW c \in Cids, Want(c) PROVE Fits'
  BY <1>4, WantFits
<1>5. ASSUME NEW p \in Peers, ExpireRow(p) \/ Blacklist(p) PROVE Fits'
  BY <1>5, BlacklistFits
<1>6. CASE ClubdStop \/ ClubdStart
  BY <1>6, ClubdFits
<1>7. CASE Crash
  BY <1>7, CrashFits
<1>8. CASE Start
  BY <1>8, StartFits
<1>9. CASE UNCHANGED vars
  <2>1. TypeOK'
    BY <1>9 DEF Fits, TypeOK, vars, world, worker, claim, clubd, catalog, history, bounds
  <2> QED BY <1>9, <2>1, OthersMoved DEF vars, world, worker, claim, clubd
<1> QED BY <1>1, <1>2, <1>3, <1>4, <1>5, <1>6, <1>7, <1>8, <1>9, Zenon DEF Next

-----------------------------------------------------------------------------
(***************************************************************************)
(* The lease that peers see.                                               *)
(***************************************************************************)
\* Calls with records go on being served.
LEMMA EndingKept ==
    ASSUME NEW S \in SUBSET Workers,
           \A v \in S : post[v].kind # "claim"
                        => post'[v].kind # "claim" /\ post'[v].cid = post[v].cid
    PROVE  \A x \in Ending : x \in Ending' \/ \E v \in Workers \ S : x = post[v].cid
<1> SUFFICES ASSUME NEW x \in Ending
             PROVE  x \in Ending' \/ \E v \in Workers \ S : x = post[v].cid
  OBVIOUS
<1>1. PICK w \in Workers : post[w].kind # "claim" /\ x = post[w].cid
  BY DEF Ending
<1>2. CASE w \in S
  BY <1>1, <1>2 DEF Ending
<1> QED BY <1>1, <1>2

\* Peers are told of a lease only after clubd took its slot for it, and clubd
\* forgets a slot only by stopping (forgot), for a lease that has ended, or for
\* one whose record is on its way out.
LEMMA SlotLiveStep ==
    ASSUME Fits, SlotLive, [Next]_vars
    PROVE  SlotLive'
<1>0. /\ announced \subseteq Cids /\ slot \in Cids \cup {None} /\ forgot \in BOOLEAN
      /\ None \notin Cids /\ post \in [Workers -> Posts] /\ NoPost.kind = "claim"
  BY IndexerAssumption DEF Fits, TypeOK, NoPost, Post
<1>1. ASSUME announced' \subseteq announced \/ announced' \subseteq announced \cup {slot},
             slot' = slot, forgot' = FALSE => forgot = FALSE,
             \A v \in Workers : post[v].kind # "claim"
                                => post'[v].kind # "claim" /\ post'[v].cid = post[v].cid,
             forgot' \in BOOLEAN
      PROVE  SlotLive'
  <2>1. Ending \subseteq Ending'
    BY <1>1, EndingKept
  <2> QED BY <1>1, <2>1 DEF SlotLive
<1>2. ASSUME UNCHANGED clubd, forgot' = forgot PROVE SlotLive'
  <2>1. UNCHANGED <<slot, announced, post>>
    BY <1>2 DEF clubd
  <2> QED BY <1>0, <1>1, <1>2, <2>1
<1>3. ASSUME NEW w \in Workers, Work(w) \/ Serve(w) \/ Fails(w)
      PROVE  SlotLive'
  <2>1. ASSUME NEW over \in BOOLEAN, NEW ended \in SUBSET Leases, TryClaim(w, over, ended)
        PROVE  SlotLive'
    <3> DEFINE c == pc[w].cid
               ok == (~holdoff \/ over) /\ claimSlot > 0 /\ up /\ SlotOpen(c, ended)
    <3>1. /\ slot' = IF ok THEN c ELSE slot
          /\ announced' = IF forgot' THEN {} ELSE IF ok THEN announced \ ended ELSE announced
          /\ forgot' = forgot
          /\ IF ok THEN post[w] = NoPost /\ post' = [post EXCEPT ![w] = Post("broadcast", "claim", c)]
             ELSE post' = post
      BY <2>1 DEF TryClaim, history, Announce, Call
    <3>2. CASE ok /\ ~forgot
      <4>1. announced \subseteq {slot} \cup Ending /\ slot \in {None, c} \cup ended
        BY <3>2 DEF SlotLive, SlotOpen
      <4>2. \A v \in Workers : post[v].kind # "claim" => post'[v] = post[v]
        BY <1>0, <3>1, <3>2
      <4>3. Ending \subseteq Ending'
        BY <4>2, EndingKept
      <4>4. announced \ ended \subseteq {c} \cup Ending
        BY <1>0, <4>1
      <4> HIDE DEF c
      <4> QED BY <3>1, <3>2, <4>3, <4>4 DEF SlotLive
    <3>3. CASE ~ok
      <4> HIDE DEF ok
      <4> QED BY <1>0, <1>1, <3>1, <3>3
    <3>4. CASE forgot
      BY <3>1, <3>4 DEF SlotLive
    <3> QED BY <1>0, <3>2, <3>3, <3>4
  <2>2. CASE Advertise(w)
    <3>1. /\ post[w].kind = "claim" /\ post' = [post EXCEPT ![w] = NoPost]
          /\ forgot' = (forgot \/ slot # post[w].cid)
          /\ announced' = IF forgot' THEN {} ELSE announced \cup {post[w].cid}
          /\ slot' = slot
      BY <2>2 DEF Advertise, Served, Announce
    <3>2. \A v \in Workers : post[v].kind # "claim" => post'[v] = post[v]
      BY <1>0, <3>1
    <3>3. announced' \subseteq announced \cup {slot}
      BY <3>1
    <3> QED BY <1>0, <1>1, <3>1, <3>2, <3>3
  <2>3. CASE Publish(w)
    <3> DEFINE c == pc[w].cid
    <3>1. /\ post[w] = NoPost /\ post'[w].kind # "claim" /\ post'[w].cid = c
          /\ \A v \in Workers \ {w} : post'[v] = post[v]
      <4>1. /\ post[w] = NoPost /\ post'[w] = Post("append", pc[w].act, c)
            /\ pc[w].act \in {"llm", "reuse", "skip"}
            /\ \A v \in Workers \ {w} : pc'[v] = pc[v] /\ post'[v] = post[v]
        BY <2>3, PublishFits
      <4>2. post'[w].kind = pc[w].act /\ post'[w].cid = c
        BY <4>1 DEF Post
      <4> QED BY <4>1, <4>2
    <3>2. /\ slot' = IF slot = c THEN None ELSE slot
          /\ announced' = announced /\ forgot' = forgot
      BY <2>3 DEF Publish, history
    <3>3. \A v \in Workers : post[v].kind # "claim" => post'[v] = post[v]
      BY <1>0, <3>1
    <3>4. Ending \subseteq Ending'
      BY <3>3, EndingKept
    <3>5. c \in Ending'
      BY <3>1 DEF Ending
    <3> HIDE DEF c
    <3> QED BY <3>2, <3>4, <3>5 DEF SlotLive
  <2>4. CASE AppendLine(w)
    <3>1. /\ \A v \in Workers \ {w} : post'[v] = post[v]
          /\ post'[w] = [post[w] EXCEPT !.at = "broadcast"] /\ post[w] # NoPost
          /\ UNCHANGED <<slot, announced, forgot>>
      BY <2>4, AppendFits
    <3>2. post'[w].kind = post[w].kind /\ post'[w].cid = post[w].cid
      BY <1>0, <3>1 DEF Posts
    <3>3. \A v \in Workers : post'[v].kind = post[v].kind /\ post'[v].cid = post[v].cid
      BY <3>1, <3>2
    <3> QED BY <1>0, <1>1, <3>1, <3>3
  <2>5. CASE Broadcast(w)
    <3>1. /\ post' = [post EXCEPT ![w] = NoPost]
          /\ announced' = IF forgot THEN {} ELSE announced \ {post[w].cid}
          /\ slot' = slot /\ forgot' = forgot
      BY <2>5, BroadcastFits DEF history
    <3>2. \A v \in Workers \ {w} : post'[v] = post[v]
      BY <1>0, <3>1
    <3>3. \A x \in Ending : x \in Ending' \/ x = post[w].cid
      <4> DEFINE S == Workers \ {w}
      <4>1. /\ S \in SUBSET Workers
            /\ \A v \in S : post[v].kind # "claim"
                            => post'[v].kind # "claim" /\ post'[v].cid = post[v].cid
        BY <3>2
      <4> HIDE DEF S
      <4>2. \A x \in Ending : x \in Ending' \/ \E v \in Workers \ S : x = post[v].cid
        BY <4>1, EndingKept
      <4> QED BY <4>2 DEF S
    <3> QED BY <3>1, <3>3 DEF SlotLive
  <2>6. CASE HandlerFails(w)
    <3>1. /\ post' = [post EXCEPT ![w] = NoPost]
          /\ forgot' = (forgot \/ post[w].kind # "claim")
          /\ announced' = IF forgot' THEN {} ELSE announced
          /\ slot' = slot
      BY <2>6 DEF HandlerFails, Served, Announce
    <3>2. CASE post[w].kind = "claim"
      <4>1. \A v \in Workers : post[v].kind # "claim" => post'[v] = post[v]
        BY <1>0, <3>1, <3>2
      <4> QED BY <1>0, <1>1, <3>1, <4>1
    <3>3. CASE post[w].kind # "claim"
      BY <3>1, <3>3 DEF SlotLive
    <3> QED BY <3>2, <3>3
  <2>7. CASE \/ FetchFailed(w) \/ Unusable(w) \/ ModelDown(w) \/ ChatFailed(w)
             \/ PublishRefused(w) \/ WorkerError(w)
    BY <1>2, <2>7, WorkerLeaves DEF Leaves
  <2>8. CASE Lookup(w) \/ Decide(w) \/ Chat(w) \/ Mark(w) \/ \E c \in Cids : TakeBatch(w, c)
    BY <1>2, <2>8 DEF Lookup, Decide, Chat, Mark, TakeBatch, world, history
  <2>9. CASE ClaimFailed(w) \/ PublishFailed(w)
    BY <1>2, <2>9 DEF ClaimFailed, PublishFailed, history
  <2>10. \/ \E c \in Cids : TakeBatch(w, c)
         \/ Lookup(w) \/ Decide(w) \/ Chat(w) \/ Mark(w)
         \/ \E over \in BOOLEAN, ended \in SUBSET Leases : TryClaim(w, over, ended)
         \/ Advertise(w) \/ Publish(w) \/ AppendLine(w) \/ Broadcast(w) \/ HandlerFails(w)
         \/ FetchFailed(w) \/ Unusable(w) \/ ModelDown(w) \/ ChatFailed(w)
         \/ PublishRefused(w) \/ WorkerError(w)
         \/ ClaimFailed(w) \/ PublishFailed(w)
    BY <1>3 DEF Work, Serve, Fails, NoAnswer, LateAnswer
  <2> QED BY <2>1, <2>2, <2>3, <2>4, <2>5, <2>6, <2>7, <2>8, <2>9, <2>10, Zenon
<1>4. ASSUME UNCHANGED <<slot, announced, post, forgot>> PROVE SlotLive'
  BY <1>0, <1>1, <1>4
<1>5. CASE DrainOwn
  BY <1>4, <1>5 DEF DrainOwn
<1>6. CASE \E m \in Heard : DrainForeign(m) \/ DrainWrong(m)
  BY <1>2, <1>6 DEF DrainForeign, DrainWrong, history
<1>7. CASE EnqueueReview \/ Crash \/ Start
  BY <1>2, <1>7 DEF EnqueueReview, Crash, Start
<1>8. CASE \/ \E c \in Cids : Want(c)
           \/ \E p \in Peers : ExpireRow(p) \/ Blacklist(p)
  BY <1>2, <1>8 DEF Want, ExpireRow, Blacklist, world, history
<1>9. CASE ClubdStop
  BY <1>9 DEF ClubdStop, SlotLive
<1>10. CASE ClubdStart
  BY <1>4, <1>10 DEF ClubdStart, history
<1>11. CASE UNCHANGED vars
  BY <1>2, <1>11 DEF vars, world, history
<1> QED BY <1>3, <1>5, <1>6, <1>7, <1>8, <1>9, <1>10, <1>11, Zenon DEF Next

-----------------------------------------------------------------------------
(***************************************************************************)
(* Labels are accounted for.                                               *)
(***************************************************************************)
\* 1 when a worker with these locals may ask for c.
Asks(l, c) == IF l.cid = c /\ MayAsk(l) THEN 1 ELSE 0

\* 1 when clubd has a record of c to append.
Owes(p, c) == IF p.cid = c /\ p.at = "append" THEN 1 ELSE 0

\* One worker counted apart from the others.
LEMMA CountApart ==
    ASSUME NEW S \in SUBSET Workers, NEW w \in Workers
    PROVE  /\ Cardinality(S) \in Nat /\ Cardinality(S \ {w}) \in Nat
           /\ Cardinality(S) = Cardinality(S \ {w}) + (IF w \in S THEN 1 ELSE 0)
<1>1. IsFiniteSet(S)
  BY IndexerAssumption, FS_Subset
<1>2. IsFiniteSet(S \ {w}) /\ Cardinality(S \ {w}) = IF w \in S THEN Cardinality(S) - 1 ELSE Cardinality(S)
  BY <1>1, FS_RemoveElement
<1>3. Cardinality(S) \in Nat /\ Cardinality(S \ {w}) \in Nat
  BY <1>1, <1>2, FS_CardinalityType
<1> QED BY <1>2, <1>3

\* The account is kept by a step of one worker, or of clubd for it, that adds no
\* more than it takes.
LEMMA VotesWorker ==
    ASSUME Fits, Fits', VotesDue, NEW w \in Workers,
           \A v \in Workers \ {w} : pc'[v] = pc[v] /\ post'[v] = post[v],
           \A c \in Cids : votes'[c] + Open(c)' + Asks(pc'[w], c) + Owes(post'[w], c)
                             + reviews[c] + excused
                           <= votes[c] + Open(c) + Asks(pc[w], c) + Owes(post[w], c)
                              + reviews'[c] + excused'
    PROVE  VotesDue'
<1> SUFFICES ASSUME NEW c \in Cids
             PROVE  votes'[c] + Open(c)' + Cardinality(Trying(c)') + Cardinality(Posting(c)')
                    <= 1 + reviews'[c] + excused'
  BY DEF VotesDue
<1> DEFINE S == Trying(c)
           T == Trying(c)'
           P == Posting(c)
           Q == Posting(c)'
<1>1. /\ S \in SUBSET Workers /\ T \in SUBSET Workers /\ S \ {w} = T \ {w}
      /\ P \in SUBSET Workers /\ Q \in SUBSET Workers /\ P \ {w} = Q \ {w}
  BY DEF Trying, MayAsk, Posting
<1>2. /\ (IF w \in S THEN 1 ELSE 0) = Asks(pc[w], c) /\ (IF w \in T THEN 1 ELSE 0) = Asks(pc'[w], c)
      /\ (IF w \in P THEN 1 ELSE 0) = Owes(post[w], c) /\ (IF w \in Q THEN 1 ELSE 0) = Owes(post'[w], c)
  BY DEF Trying, Asks, MayAsk, Posting, Owes
<1>3. /\ votes[c] \in Nat /\ votes'[c] \in Nat /\ reviews[c] \in Nat /\ reviews'[c] \in Nat
      /\ excused \in Nat /\ excused' \in Nat /\ Open(c) \in 0 .. 1 /\ Open(c)' \in 0 .. 1
  BY DEF Fits, TypeOK, Open
<1>4. /\ Asks(pc[w], c) \in 0 .. 1 /\ Asks(pc'[w], c) \in 0 .. 1
      /\ Owes(post[w], c) \in 0 .. 1 /\ Owes(post'[w], c) \in 0 .. 1
  BY DEF Asks, Owes
<1>5. votes[c] + Open(c) + Cardinality(S) + Cardinality(P) <= 1 + reviews[c] + excused
  BY DEF VotesDue
<1> HIDE DEF S, T, P, Q
<1> DEFINE n == Cardinality(S \ {w})
           m == Cardinality(P \ {w})
<1>6. /\ n \in Nat /\ Cardinality(S) = n + Asks(pc[w], c) /\ Cardinality(T) = n + Asks(pc'[w], c)
      /\ m \in Nat /\ Cardinality(P) = m + Owes(post[w], c) /\ Cardinality(Q) = m + Owes(post'[w], c)
  BY <1>1, <1>2, CountApart
<1>7. votes'[c] + Open(c)' + Asks(pc'[w], c) + Owes(post'[w], c) + reviews[c] + excused
        <= votes[c] + Open(c) + Asks(pc[w], c) + Owes(post[w], c) + reviews'[c] + excused'
  OBVIOUS
<1> HIDE DEF n, m
<1>8. votes'[c] + Open(c)' + Cardinality(T) + Cardinality(Q) <= 1 + reviews'[c] + excused'
  BY <1>3, <1>4, <1>5, <1>6, <1>7
<1> QED BY <1>8 DEF T, Q

\* The same for a step that leaves the workers alone, and at most ends calls.
LEMMA VotesOthers ==
    ASSUME Fits, Fits', VotesDue, pc' = pc,
           \A w \in Workers : post'[w] \in {post[w], NoPost},
           \A c \in Cids : votes'[c] + Open(c)' + reviews[c] + excused
                           <= votes[c] + Open(c) + reviews'[c] + excused'
    PROVE  VotesDue'
<1> SUFFICES ASSUME NEW c \in Cids
             PROVE  votes'[c] + Open(c)' + Cardinality(Trying(c)') + Cardinality(Posting(c)')
                    <= 1 + reviews'[c] + excused'
  BY DEF VotesDue
<1>1. Trying(c)' = Trying(c) /\ Trying(c) \in SUBSET Workers
  BY DEF Trying, MayAsk
<1>2. Posting(c)' \subseteq Posting(c) /\ Posting(c) \in SUBSET Workers
  BY DEF Posting, NoPost, Post
<1>3. IsFiniteSet(Posting(c)) /\ IsFiniteSet(Trying(c))
  BY <1>1, <1>2, IndexerAssumption, FS_Subset
<1>4. /\ Cardinality(Trying(c)) \in Nat /\ Cardinality(Posting(c)) \in Nat
      /\ Cardinality(Posting(c)') \in Nat /\ Cardinality(Posting(c)') <= Cardinality(Posting(c))
  BY <1>2, <1>3, FS_Subset, FS_CardinalityType
<1>5. /\ votes[c] \in Nat /\ votes'[c] \in Nat /\ reviews[c] \in Nat /\ reviews'[c] \in Nat
      /\ excused \in Nat /\ excused' \in Nat /\ Open(c) \in 0 .. 1 /\ Open(c)' \in 0 .. 1
  BY DEF Fits, TypeOK, Open
<1>6. votes[c] + Open(c) + Cardinality(Trying(c)) + Cardinality(Posting(c)) <= 1 + reviews[c] + excused
  BY DEF VotesDue
<1>7. votes'[c] + Open(c)' + reviews[c] + excused <= votes[c] + Open(c) + reviews'[c] + excused'
  OBVIOUS
<1> QED BY <1>1, <1>4, <1>5, <1>6, <1>7

\* Every step pays for the labels it makes possible: a review, an unconfirmed
\* publish, or a crash or exception before the mark.
LEMMA VotesStep ==
    ASSUME Fits, Fits', VotesDue, [Next]_vars
    PROVE  VotesDue'
<1>0. /\ \A c \in Cids : /\ votes[c] \in Nat /\ reviews[c] \in Nat /\ Open(c) \in 0 .. 1
                         /\ votes'[c] \in Nat /\ reviews'[c] \in Nat /\ Open(c)' \in 0 .. 1
      /\ excused \in Nat /\ excused' \in Nat
      /\ row \in [Cids -> [status : Statuses, error : Errors]]
      /\ pc \in [Workers -> Local] /\ post \in [Workers -> Posts]
  <2>1. /\ votes \in [Cids -> Nat] /\ votes' \in [Cids -> Nat] /\ excused \in Nat
        /\ reviews \in [Cids -> Nat] /\ reviews' \in [Cids -> Nat] /\ excused' \in Nat
        /\ row \in [Cids -> [status : Statuses, error : Errors]] /\ pc \in [Workers -> Local]
        /\ post \in [Workers -> Posts]
    BY DEF Fits, TypeOK
  <2>2. \A c \in Cids : Open(c) \in 0 .. 1 /\ Open(c)' \in 0 .. 1
    BY DEF Open
  <2> QED BY <2>1, <2>2
<1>1. ASSUME NEW l, NEW c PROVE Asks(l, c) \in 0 .. 1 /\ Asks(Idle, c) = 0
  BY DEF Asks, MayAsk, Idle, Stages
<1>11. ASSUME NEW p, NEW c
       PROVE  /\ Owes(p, c) \in 0 .. 1 /\ Owes(NoPost, c) = 0
              /\ p \in Posts /\ p.kind = "claim" => Owes(p, c) = 0
  BY DEF Owes, Posts, NoPost, Post
<1>2. ASSUME NEW w \in Workers, Work(w) \/ Serve(w) \/ Fails(w)
      PROVE  VotesDue'
  <2>1. ASSUME NEW d \in Cids, TakeBatch(w, d) PROVE VotesDue'
    <3>1. /\ pc[w] = Idle /\ \A v \in Workers \ {w} : pc'[v] = pc[v]
          /\ \A c \in Cids : row'[c] = IF c = d THEN [row[d] EXCEPT !.status = "processing"] ELSE row[c]
          /\ pc'[w].cid = d /\ row[d].status = "discovered" /\ running /\ running' = running
          /\ UNCHANGED <<votes, reviews, excused, post>>
      BY <1>0, <2>1 DEF TakeBatch, Idle, world, history, clubd
    <3>2. ASSUME NEW c \in Cids
          PROVE  votes'[c] + Open(c)' + Asks(pc'[w], c) + Owes(post'[w], c) + reviews[c] + excused
                 <= votes[c] + Open(c) + Asks(pc[w], c) + Owes(post[w], c) + reviews'[c] + excused'
      <4>1. Asks(pc[w], c) = 0 /\ Asks(pc'[w], c) \in 0 .. 1
        BY <1>1, <3>1
      <4>2. CASE c = d
        <5>1. row'[c].status = "processing"
          BY <1>0, <3>1, <4>2
        <5>2. Open(c) = 1 /\ Open(c)' = 0
          BY <3>1, <4>2, <5>1 DEF Open
        <5> QED BY <1>0, <1>11, <3>1, <4>1, <5>2
      <4>3. CASE c # d
        <5>1. Asks(pc'[w], c) = 0 /\ Open(c)' = Open(c)
          BY <3>1, <4>3 DEF Asks, Open
        <5> QED BY <1>0, <1>11, <3>1, <4>1, <5>1
      <4> QED BY <4>2, <4>3
    <3> QED BY <3>1, <3>2, VotesWorker
  <2>2. ASSUME NEW l \in Local, GoesOn(w, l) PROVE VotesDue'
    <3>1. /\ \A v \in Workers \ {w} : pc'[v] = pc[v]
          /\ pc'[w].cid = pc[w].cid /\ MayAsk(pc[w])
          /\ \A v \in Workers \ {w} : post'[v] = post[v]
          /\ post' = post \/ (post[w].kind = "claim" /\ post'[w].kind = "claim")
          /\ UNCHANGED <<row, votes, reviews, excused, running>>
      BY <1>0, <2>2 DEF GoesOn
    <3>2. ASSUME NEW c \in Cids
          PROVE  votes'[c] + Open(c)' + Asks(pc'[w], c) + Owes(post'[w], c) + reviews[c] + excused
                 <= votes[c] + Open(c) + Asks(pc[w], c) + Owes(post[w], c) + reviews'[c] + excused'
      <4>1. Asks(pc'[w], c) \in 0 .. 1 /\ Asks(pc[w], c) \in 0 .. 1 /\ Asks(pc'[w], c) <= Asks(pc[w], c)
        BY <3>1 DEF Asks
      <4>2. Open(c)' = Open(c)
        BY <3>1 DEF Open
      <4>3. Owes(post'[w], c) = Owes(post[w], c)
        <5>1. post[w] \in Posts /\ post'[w] \in Posts
          BY <1>0 DEF Fits, TypeOK
        <5> QED BY <1>11, <3>1, <5>1
      <4> QED BY <1>0, <1>11, <3>1, <4>1, <4>2, <4>3
    <3> QED BY <3>1, <3>2, VotesWorker
  <2>3. ASSUME Leaves(w) PROVE VotesDue'
    <3>1. /\ \A v \in Workers \ {w} : pc'[v] = pc[v]
          /\ pc'[w] = Idle /\ UNCHANGED <<votes, reviews, running, post>>
          /\ \A d \in Cids \ {pc[w].cid} : row'[d] = row[d]
          /\ \/ MayAsk(pc[w]) /\ excused' = excused
             \/ excused' = excused + 1
      BY <1>0, <2>3 DEF Leaves, clubd
    <3>2. ASSUME NEW c \in Cids
          PROVE  votes'[c] + Open(c)' + Asks(pc'[w], c) + Owes(post'[w], c) + reviews[c] + excused
                 <= votes[c] + Open(c) + Asks(pc[w], c) + Owes(post[w], c) + reviews'[c] + excused'
      <4>1. Asks(pc'[w], c) = 0 /\ Asks(pc[w], c) \in 0 .. 1
        BY <1>1, <3>1
      <4>2. CASE c # pc[w].cid
        <5>1. Open(c)' = Open(c)
          BY <3>1, <4>2 DEF Open
        <5> QED BY <1>0, <1>11, <3>1, <4>1, <5>1
      <4>3. CASE c = pc[w].cid
        <5>1. (MayAsk(pc[w]) => Asks(pc[w], c) = 1)
          BY <4>3 DEF Asks
        <5> QED BY <1>0, <1>11, <3>1, <4>1, <5>1
      <4> QED BY <4>2, <4>3
    <3> QED BY <3>1, <3>2, VotesWorker
  <2>4. CASE Publish(w)
    <3>1. /\ pc[w].at = "publish" /\ MayAsk(pc[w])
          /\ post[w] = NoPost /\ post'[w] = Post("append", pc[w].act, pc[w].cid)
          /\ pc'[w].at = "publishing" /\ pc'[w].cid = pc[w].cid
          /\ \A v \in Workers \ {w} : pc'[v] = pc[v] /\ post'[v] = post[v]
      BY <2>4, PublishFits
    <3>2. UNCHANGED <<row, running, votes, reviews, excused>>
      BY <2>4 DEF Publish, history
    <3>3. ASSUME NEW c \in Cids
          PROVE  votes'[c] + Open(c)' + Asks(pc'[w], c) + Owes(post'[w], c) + reviews[c] + excused
                 <= votes[c] + Open(c) + Asks(pc[w], c) + Owes(post[w], c) + reviews'[c] + excused'
      <4>1. Open(c)' = Open(c)
        BY <3>2 DEF Open
      <4>2. Asks(pc'[w], c) = 0 /\ Owes(post[w], c) = 0
        BY <1>11, <3>1 DEF Asks, MayAsk
      <4>3. Owes(post'[w], c) = Asks(pc[w], c)
        BY <3>1 DEF Owes, Asks, Post
      <4> QED BY <1>0, <1>1, <3>2, <4>1, <4>2, <4>3
    <3> QED BY <3>1, <3>3, VotesWorker
  <2>12. CASE PublishFailed(w) /\ (UNCHANGED bounds \/ Failure)
    <3>1. /\ \A v \in Workers \ {w} : pc'[v] = pc[v]
          /\ pc'[w].cid = pc[w].cid
      BY <2>12, PublishFailedFits
    <3>2. UNCHANGED <<row, running, votes, reviews, post>> /\ excused' = excused + 1
      BY <2>12 DEF PublishFailed, clubd
    <3>3. ASSUME NEW c \in Cids
          PROVE  votes'[c] + Open(c)' + Asks(pc'[w], c) + Owes(post'[w], c) + reviews[c] + excused
                 <= votes[c] + Open(c) + Asks(pc[w], c) + Owes(post[w], c) + reviews'[c] + excused'
      <4>1. Open(c)' = Open(c)
        BY <3>2 DEF Open
      <4>2. Asks(pc'[w], c) \in 0 .. 1 /\ Asks(pc[w], c) \in 0 .. 1
        BY <1>1
      <4> QED BY <1>0, <1>11, <3>2, <4>1, <4>2
    <3> QED BY <3>1, <3>2, <3>3, VotesWorker
  <2>13. CASE AppendLine(w)
    <3>1. /\ post[w].at = "append" /\ post'[w] = [post[w] EXCEPT !.at = "broadcast"]
          /\ \A v \in Workers \ {w} : post'[v] = post[v]
          /\ \A d \in Cids : votes'[d] \in {votes[d], votes[d] + 1}
          /\ \A d \in Cids \ {post[w].cid} : votes'[d] = votes[d]
          /\ UNCHANGED <<worker, row, running, reviews, excused>>
      BY <2>13, AppendFits
    <3>2. pc' = pc
      BY <3>1 DEF worker
    <3>3. ASSUME NEW c \in Cids
          PROVE  votes'[c] + Open(c)' + Asks(pc'[w], c) + Owes(post'[w], c) + reviews[c] + excused
                 <= votes[c] + Open(c) + Asks(pc[w], c) + Owes(post[w], c) + reviews'[c] + excused'
      <4>1. Open(c)' = Open(c) /\ Asks(pc'[w], c) = Asks(pc[w], c)
        BY <3>1, <3>2 DEF Open
      <4>2. post'[w].at = "broadcast"
        BY <1>0, <3>1 DEF Posts, NoPost, Post
      <4>3. Owes(post'[w], c) = 0
        BY <4>2 DEF Owes
      <4>4. c = post[w].cid => Owes(post[w], c) = 1
        BY <3>1 DEF Owes
      <4> QED BY <1>0, <1>1, <1>11, <3>1, <4>1, <4>3, <4>4
    <3> QED BY <3>1, <3>2, <3>3, VotesWorker
  <2>14. CASE Broadcast(w)
    <3>1. /\ post[w].at = "broadcast" /\ post' = [post EXCEPT ![w] = NoPost]
          /\ \A v \in Workers \ {w} : pc'[v] = pc[v]
          /\ \/ pc' = pc
             \/ /\ pc[w].at = "publishing" /\ pc'[w].at = "mark"
                /\ pc'[w].end = pc[w].end /\ pc[w].end \in {Indexed, Scoped}
          /\ UNCHANGED <<history, row, running>>
      BY <2>14, BroadcastFits
    <3>2. /\ post'[w] = NoPost /\ \A v \in Workers \ {w} : post'[v] = post[v]
          /\ UNCHANGED <<votes, reviews, excused>>
      BY <1>0, <3>1 DEF history
    <3>3. ASSUME NEW c \in Cids
          PROVE  votes'[c] + Open(c)' + Asks(pc'[w], c) + Owes(post'[w], c) + reviews[c] + excused
                 <= votes[c] + Open(c) + Asks(pc[w], c) + Owes(post[w], c) + reviews'[c] + excused'
      <4>1. Open(c)' = Open(c) /\ Owes(post'[w], c) = 0
        BY <1>11, <3>1, <3>2 DEF Open
      <4>2. Asks(pc'[w], c) = 0 \/ Asks(pc'[w], c) = Asks(pc[w], c)
        <5>1. CASE pc' = pc
          BY <5>1
        <5>2. CASE pc'[w].at = "mark" /\ pc'[w].end \in {Indexed, Scoped}
          BY <5>2 DEF Asks, MayAsk, Indexed, Scoped, Row
        <5> QED BY <3>1, <5>1, <5>2
      <4> QED BY <1>0, <1>1, <1>11, <3>2, <4>1, <4>2
    <3> QED BY <3>1, <3>2, <3>3, VotesWorker
  <2>15. CASE ServedBy(w)
    <3>1. /\ post' = [post EXCEPT ![w] = NoPost]
          /\ UNCHANGED <<worker, row, running, votes, reviews, excused>>
      BY <2>15, ServedFits
    <3>2. pc' = pc /\ \A v \in Workers : post'[v] \in {post[v], NoPost}
      BY <1>0, <3>1 DEF worker
    <3>3. \A c \in Cids : Open(c)' = Open(c)
      BY <3>1 DEF Open
    <3> QED BY <1>0, <3>1, <3>2, <3>3, VotesOthers
  <2>5. CASE Mark(w)
    <3>1. /\ running /\ pc[w].at = "mark" /\ pc[w].cid \in Cids /\ pc[w].end \in Ends
          /\ pc' = [pc EXCEPT ![w] = Idle]
          /\ \A d \in Cids \ {pc[w].cid} : row'[d] = row[d]
          /\ row[pc[w].cid].status = "none" => row'[pc[w].cid] = row[pc[w].cid]
          /\ row[pc[w].cid].status # "none" => row'[pc[w].cid].status = pc[w].end.status
          /\ UNCHANGED world
      BY <2>5, MarkFits
    <3>2. UNCHANGED <<votes, reviews, excused, running, post>> /\ pc'[w] = Idle
          /\ \A v \in Workers \ {w} : pc'[v] = pc[v]
      BY <1>0, <3>1 DEF world, history, clubd
    <3>3. ASSUME NEW c \in Cids
          PROVE  votes'[c] + Open(c)' + Asks(pc'[w], c) + Owes(post'[w], c) + reviews[c] + excused
                 <= votes[c] + Open(c) + Asks(pc[w], c) + Owes(post[w], c) + reviews'[c] + excused'
      <4>1. Asks(pc'[w], c) = 0 /\ Asks(pc[w], c) \in 0 .. 1
        BY <1>1, <3>2
      <4>2. CASE c # pc[w].cid \/ row[c].status = "none"
        <5>1. Open(c)' = Open(c)
          BY <3>1, <3>2, <4>2 DEF Open
        <5> QED BY <1>0, <1>11, <3>2, <4>1, <5>1
      <4>3. CASE c = pc[w].cid /\ row[c].status # "none" /\ pc[w].end.status = "discovered"
        <5>1. Asks(pc[w], c) = 1
          BY <3>1, <4>3 DEF Asks, MayAsk
        <5> QED BY <1>0, <1>11, <3>2, <4>1, <5>1
      <4>4. CASE c = pc[w].cid /\ row[c].status # "none" /\ pc[w].end.status # "discovered"
        <5>1. pc[w].end.status \in {"indexed", "skipped"}
          BY <3>1, <4>4 DEF Ends, Indexed, Scoped, Row
        <5>2. Open(c)' = 0
          BY <3>1, <3>2, <4>4, <5>1 DEF Open
        <5> QED BY <1>0, <1>11, <3>2, <4>1, <5>2
      <4> QED BY <4>2, <4>3, <4>4
    <3> QED BY <3>2, <3>3, VotesWorker
  <2>6. CASE GoesOnBy(w)
    BY <2>2, <2>6, WorkerGoesOn
  <2>7. CASE \/ FetchFailed(w) \/ Unusable(w) \/ ModelDown(w) \/ ChatFailed(w)
             \/ PublishRefused(w) \/ WorkerError(w)
    BY <2>3, <2>7, WorkerLeaves, Zenon
  <2> QED BY <1>2, <2>1, <2>4, <2>5, <2>6, <2>7, <2>12, <2>13, <2>14, <2>15, WorkerSteps
<1>3. ASSUME UNCHANGED <<row, running, votes, reviews, excused, pc>>,
             \A w \in Workers : post'[w] \in {post[w], NoPost}
      PROVE  VotesDue'
  <2>1. ASSUME NEW c \in Cids PROVE Open(c)' = Open(c)
    BY <1>3 DEF Open
  <2> QED BY <1>0, <1>11, <1>3, <2>1, VotesOthers
<1>4. CASE \/ DrainOwn \/ \E m \in Heard : DrainForeign(m) \/ DrainWrong(m)
  BY <1>3, <1>4 DEF DrainOwn, DrainForeign, DrainWrong, worker, history, clubd
<1>5. CASE \E p \in Peers : ExpireRow(p) \/ Blacklist(p)
  BY <1>3, <1>5 DEF ExpireRow, Blacklist, worker, history, clubd
<1>6. CASE ClubdStop \/ ClubdStart \/ UNCHANGED vars
  BY <1>3, <1>6 DEF ClubdStop, ClubdStart, vars, world, worker, history, clubd
<1>7. CASE EnqueueReview
  <2>1. drain.cid \in Cids /\ \/ UNCHANGED <<row, reviews>>
                              \/ /\ row' = [row EXCEPT ![drain.cid] = Row("discovered", "none")]
                                 /\ reviews' = [reviews EXCEPT ![drain.cid] = @ + 1]
    BY <1>7, ReviewFits
  <2>2. UNCHANGED <<running, votes, excused, pc, post>> /\ reviews \in [Cids -> Nat]
    BY <1>7 DEF EnqueueReview, worker, clubd, Fits, TypeOK
  <2>3. CASE UNCHANGED <<row, reviews>>
    BY <1>3, <2>2, <2>3
  <2>4. CASE /\ row' = [row EXCEPT ![drain.cid] = Row("discovered", "none")]
             /\ reviews' = [reviews EXCEPT ![drain.cid] = @ + 1]
    <3>1. ASSUME NEW c \in Cids
          PROVE  votes'[c] + Open(c)' + reviews[c] + excused <= votes[c] + Open(c) + reviews'[c] + excused'
      <4>1. CASE c = drain.cid
        <5>1. reviews'[c] = reviews[c] + 1
          BY <2>2, <2>4, <4>1
        <5> QED BY <1>0, <1>11, <2>2, <5>1
      <4>2. CASE c # drain.cid
        <5>1. row'[c] = row[c] /\ reviews'[c] = reviews[c]
          BY <1>0, <2>2, <2>4, <4>2
        <5>2. Open(c)' = Open(c)
          BY <2>2, <5>1 DEF Open
        <5> QED BY <1>0, <1>11, <2>2, <5>1, <5>2
      <4> QED BY <4>1, <4>2
    <3> QED BY <2>2, <3>1, VotesOthers
  <2> QED BY <2>1, <2>3, <2>4
<1>8. ASSUME NEW d \in Cids, Want(d) PROVE VotesDue'
  <2>1. /\ row[d] = NoRow /\ row' = [row EXCEPT ![d] = Row("discovered", "none")]
        /\ UNCHANGED <<votes, reviews, excused, pc, post, running>> /\ running
    BY <1>8 DEF Want, world, worker, history, clubd
  <2>2. ASSUME NEW c \in Cids PROVE Open(c)' = Open(c)
    <3>1. CASE c = d
      BY <1>0, <2>1, <3>1 DEF Open, NoRow, Row
    <3>2. CASE c # d
      BY <1>0, <2>1, <3>2 DEF Open
    <3> QED BY <3>1, <3>2
  <2> QED BY <1>0, <1>11, <2>1, <2>2, VotesOthers
<1>9. CASE Crash
  <2>1. pc' = [w \in Workers |-> Idle] /\ excused' = excused + 1
        /\ UNCHANGED <<votes, reviews, post>>
    BY <1>9 DEF Crash, clubd
  <2>2. ASSUME NEW c \in Cids
        PROVE  votes'[c] + Open(c)' + Cardinality(Trying(c)') + Cardinality(Posting(c)')
               <= 1 + reviews'[c] + excused'
    <3>1. /\ Trying(c)' = {} /\ Trying(c) \in SUBSET Workers
          /\ Posting(c)' = Posting(c) /\ Posting(c) \in SUBSET Workers
      BY <2>1 DEF Trying, MayAsk, Idle, Stages, Posting
    <3>2. Cardinality(Trying(c)') = 0 /\ Cardinality(Trying(c)) \in Nat /\ Cardinality(Posting(c)) \in Nat
      BY <3>1, FS_EmptySet, IndexerAssumption, FS_Subset, FS_CardinalityType
    <3>4. Cardinality(Posting(c)') = Cardinality(Posting(c))
      BY <3>1
    <3>3. votes[c] + Open(c) + Cardinality(Trying(c)) + Cardinality(Posting(c)) <= 1 + reviews[c] + excused
      BY DEF VotesDue
    <3> QED BY <1>0, <2>1, <3>2, <3>3, <3>4
  <2> QED BY <2>2 DEF VotesDue
<1>10. CASE Start
  <2>1. ~running /\ UNCHANGED <<votes, reviews, excused, pc, post>>
    BY <1>10 DEF Start, worker, clubd
  <2>2. \A c \in Cids : Open(c) = 1
    BY <2>1 DEF Open
  <2> QED BY <1>0, <1>11, <2>1, <2>2, VotesOthers
<1> QED BY <1>2, <1>4, <1>5, <1>6, <1>7, <1>8, <1>9, <1>10, Zenon DEF Next

-----------------------------------------------------------------------------
(***************************************************************************)
(* Settled rows have their records.                                        *)
(***************************************************************************)
\* The first part of the invariant in the words of the second.
LEMMA RecordsForm == SettledHasRecord <=> \A c \in Cids \ purged : Settles(row[c], c)
BY DEF SettledHasRecord, Settles, Scoped

\* Records stay, in the catalog or on the way to it, or what is displaced.
LEMMA RecordsStay ==
    ASSUME labels \subseteq labels',
           \A c \in Cids : skips[c] # None => skips'[c] # None,
           logged \subseteq logged', banned' = banned,
           \/ inbox' = inbox
           \/ /\ DOMAIN inbox \subseteq DOMAIN inbox'
              /\ \A i \in DOMAIN inbox : inbox'[i] = inbox[i]
    PROVE  \A c \in Cids : /\ HasLabel(c) => HasLabel(c)'
                           /\ HasSkip(c) \/ Displaced(c) => HasSkip(c)' \/ Displaced(c)'
BY DEF HasLabel, HasSkip, Labelled, Displaced

\* A step under which records stay, and that settles no row and starts no mark
\* without one.
LEMMA RecordsKept ==
    ASSUME Fits, SettledHasRecord, MarksHaveRecord,
           \A c \in Cids : /\ HasLabel(c) => HasLabel(c)'
                           /\ HasSkip(c) \/ Displaced(c) => HasSkip(c)' \/ Displaced(c)',
           \A c \in Cids \ purged' :
                \/ row'[c] = row[c] /\ c \notin purged
                \/ row'[c].status # "indexed" /\ row'[c] # Scoped
                \/ Settles(row[c], c)',
           \A w \in Workers :
                \/ pc'[w] = pc[w] /\ (Told(w)' => Told(w)) /\ purged \subseteq purged'
                \/ ~Told(w)'
                \/ pc'[w].cid \in purged'
                \/ Settles(pc[w].end, pc[w].cid)'
    PROVE  SettledHasRecord' /\ MarksHaveRecord'
<1>1. \A c \in Cids \ purged : Settles(row[c], c)
  BY RecordsForm
<1>2. ASSUME NEW c \in Cids \ purged' PROVE Settles(row[c], c)'
  <2>1. CASE row'[c] = row[c] /\ c \notin purged
    BY <1>1, <1>2, <2>1 DEF Settles
  <2>2. CASE row'[c].status # "indexed" /\ row'[c] # Scoped
    BY <2>2 DEF Settles, Scoped
  <2> QED BY <2>1, <2>2
<1>3. ASSUME NEW w \in Workers, Told(w)', pc'[w].cid \notin purged'
      PROVE  Settles(pc[w].end, pc[w].cid)'
  <2>1. CASE pc'[w] = pc[w] /\ (Told(w)' => Told(w)) /\ purged \subseteq purged'
    <3>1. Told(w) /\ pc[w].cid \notin purged
      BY <1>3, <2>1
    <3>2. pc[w].cid \in Cids
      BY <3>1, BusyWorker DEF Told
    <3>3. Settles(pc[w].end, pc[w].cid)
      BY <3>1 DEF MarksHaveRecord
    <3> QED BY <2>1, <3>2, <3>3 DEF Settles
  <2> QED BY <1>3, <2>1
<1>4. \A c \in Cids \ purged' : Settles(row[c], c)'
  BY <1>2
<1>5. SettledHasRecord'
  BY <1>4 DEF SettledHasRecord, Settles, Scoped
<1>6. MarksHaveRecord'
  BY <1>3 DEF MarksHaveRecord, Settles, HasLabel, HasSkip, Displaced, Labelled
<1> QED BY <1>5, <1>6

\* Every step keeps a record for what is settled: a record is only deleted with
\* its cid purged or its row back in the queue, and a mark follows its record.
LEMMA RecordsStep ==
    ASSUME Fits, Fits', SettledHasRecord, MarksHaveRecord, OwnSkipsKept, [Next]_vars
    PROVE  SettledHasRecord' /\ MarksHaveRecord'
<1> DEFINE Stay == \A c \in Cids : /\ HasLabel(c) => HasLabel(c)'
                                   /\ HasSkip(c) \/ Displaced(c) => HasSkip(c)' \/ Displaced(c)'
<1>0. /\ row \in [Cids -> [status : Statuses, error : Errors]]
      /\ pc \in [Workers -> Local] /\ inbox \in Seq(Own) /\ purged \subseteq Cids
      /\ skips \in [Cids -> Publishers \cup {None}] /\ None \notin Publishers
      /\ post \in [Workers -> Posts]
  BY IndexerAssumption DEF Fits, TypeOK
<1>1. ASSUME UNCHANGED <<labels, skips, logged, banned, inbox>> PROVE Stay
  BY <1>1, RecordsStay
<1>2. ASSUME NEW w \in Workers, Work(w) \/ Serve(w) \/ Fails(w)
      PROVE  SettledHasRecord' /\ MarksHaveRecord'
  <2>1. ASSUME NEW d \in Cids, TakeBatch(w, d) PROVE SettledHasRecord' /\ MarksHaveRecord'
    <3>1. /\ \A v \in Workers \ {w} : pc'[v] = pc[v]
          /\ \A c \in Cids \ {d} : row'[c] = row[c]
          /\ row'[d].status = "processing" /\ pc'[w].at = "lookup"
          /\ UNCHANGED <<labels, skips, logged, banned, inbox, purged, post>>
      BY <1>0, <2>1 DEF TakeBatch, Idle, world, history, catalog, clubd
    <3>2. Stay
      BY <1>1, <3>1
    <3>3. row'[d].status # "indexed" /\ row'[d] # Scoped
      BY <3>1 DEF Scoped, Row
    <3>4. \A v \in Workers : v # w => (Told(v)' => Told(v))
      BY <3>1 DEF Told
    <3>5. ~Told(w)'
      BY <3>1 DEF Told
    <3> QED BY <3>1, <3>2, <3>3, <3>4, <3>5, RecordsKept
  <2>2. ASSUME NEW l \in Local, GoesOn(w, l) PROVE SettledHasRecord' /\ MarksHaveRecord'
    <3>1. /\ \A v \in Workers \ {w} : pc'[v] = pc[v]
          /\ pc'[w] = l /\ UNCHANGED <<row, labels, skips, logged, banned, inbox, purged>>
          /\ l.at # "publishing" /\ \A v \in Workers \ {w} : post'[v] = post[v]
          /\ l.at = "mark" => /\ l.end.status = "indexed" => Labelled(l.cid)
                              /\ l.end = Scoped => skips[l.cid] # None
      BY <1>0, <2>2 DEF GoesOn, catalog
    <3>2. Stay
      BY <1>1, <3>1
    <3>3. ~Told(w)' \/ Settles(pc[w].end, pc[w].cid)'
      BY <3>1 DEF Told, Settles, HasLabel, HasSkip, Labelled
    <3>4. \A v \in Workers : v # w => (Told(v)' => Told(v))
      BY <3>1 DEF Told
    <3> QED BY <3>1, <3>2, <3>3, <3>4, RecordsKept
  <2>3. ASSUME Leaves(w) PROVE SettledHasRecord' /\ MarksHaveRecord'
    <3>1. /\ \A v \in Workers \ {w} : pc'[v] = pc[v]
          /\ pc'[w] = Idle /\ UNCHANGED <<labels, skips, logged, banned, inbox, purged, post>>
          /\ \A d \in Cids \ {pc[w].cid} : row'[d] = row[d]
          /\ \/ row'[pc[w].cid] = row[pc[w].cid]
             \/ row'[pc[w].cid].status = "discovered"
             \/ row'[pc[w].cid] \in {NoRow, Row("skipped", "none")}
      BY <1>0, <2>3 DEF Leaves, catalog, clubd
    <3>2. Stay
      BY <1>1, <3>1
    <3>3. ~Told(w)'
      BY <3>1 DEF Told, Idle
    <3>5. \A v \in Workers : v # w => (Told(v)' => Told(v))
      BY <3>1 DEF Told
    <3>4. \/ row'[pc[w].cid] = row[pc[w].cid]
          \/ row'[pc[w].cid].status # "indexed" /\ row'[pc[w].cid] # Scoped
      BY <3>1 DEF Scoped, Row, NoRow
    <3> QED BY <3>1, <3>2, <3>3, <3>4, <3>5, RecordsKept
  <2>4. CASE Publish(w)
    <3>1. /\ pc'[w].at = "publishing" /\ post'[w] = Post("append", pc[w].act, pc[w].cid)
          /\ \A v \in Workers \ {w} : pc'[v] = pc[v] /\ post'[v] = post[v]
      BY <2>4, PublishFits
    <3>2. UNCHANGED <<row, labels, skips, logged, banned, inbox, purged>>
      BY <2>4 DEF Publish, catalog, history
    <3>3. Stay
      BY <1>1, <3>2
    <3>4. ~Told(w)' /\ \A v \in Workers : v # w => (Told(v)' => Told(v))
      BY <3>1 DEF Told, Post
    <3> QED BY <3>1, <3>2, <3>3, <3>4, RecordsKept
  <2>8. CASE PublishFailed(w) /\ (UNCHANGED bounds \/ Failure)
    <3>1. /\ pc'[w].end = Row("discovered", "publish_failed")
          /\ \A v \in Workers \ {w} : pc'[v] = pc[v]
      BY <2>8, PublishFailedFits
    <3>2. UNCHANGED <<row, labels, skips, logged, banned, inbox, purged, post>>
      BY <2>8 DEF PublishFailed, catalog, clubd
    <3>3. Stay
      BY <1>1, <3>2
    <3>4. Settles(pc[w].end, pc[w].cid)'
      BY <3>1 DEF Settles, Scoped, Row
    <3>5. \A v \in Workers : v # w => (Told(v)' => Told(v))
      BY <3>1, <3>2 DEF Told
    <3> QED BY <3>1, <3>2, <3>3, <3>4, <3>5, RecordsKept
  <2>9. CASE AppendLine(w)
    <3>1. /\ Line(w) \in Own /\ post[w].at = "append" /\ post[w] # NoPost
          /\ \A v \in Workers \ {w} : post'[v] = post[v]
          /\ inbox' \in Seq(Own) /\ Len(inbox') = Len(inbox) + 1
          /\ inbox'[Len(inbox')] = Line(w)
          /\ \A i \in 1 .. Len(inbox) : inbox'[i] = inbox[i]
          /\ UNCHANGED <<catalog, worker, row, purged>>
      BY <2>9, AppendFits
    <3>2. UNCHANGED <<row, pc, labels, skips, logged, banned, purged>>
      BY <3>1 DEF catalog, worker
    <3>3. /\ DOMAIN inbox \subseteq DOMAIN inbox'
          /\ \A i \in DOMAIN inbox : inbox'[i] = inbox[i]
          /\ \E i \in DOMAIN inbox' : inbox'[i] = Line(w)
      <4>1. DOMAIN inbox = 1 .. Len(inbox) /\ DOMAIN inbox' = 1 .. Len(inbox') /\ Len(inbox) \in Nat
        BY <1>0, <3>1, LenProperties
      <4>2. Len(inbox') \in DOMAIN inbox' /\ DOMAIN inbox \subseteq DOMAIN inbox'
        BY <3>1, <4>1
      <4> QED BY <3>1, <4>1, <4>2
    <3>4. Stay
      BY <3>2, <3>3, RecordsStay
    <3>5. \/ Told(w)' => Told(w)
          \/ Settles(pc[w].end, pc[w].cid)'
      <4>1. CASE pc[w].at # "publishing"
        BY <3>2, <4>1 DEF Told
      <4>2. CASE pc[w].at = "publishing"
        <5>1. /\ Line(w).cid = pc[w].cid /\ Line(w).kind \in {"llm", "reuse", "skip"}
              /\ Line(w).kind = "skip" <=> pc[w].end = Scoped
          BY <3>1, <4>2 DEF Fits, PostsFit, PostFits, Line, Own
        <5>2. pc[w].end \in {Indexed, Scoped}
          BY <4>2, BusyWorker DEF LocalFits
        <5>3. HasLabel(pc[w].cid)' \/ (pc[w].end = Scoped /\ HasSkip(pc[w].cid)')
          BY <3>2, <3>3, <5>1 DEF HasLabel, HasSkip
        <5>4. pc[w].end = Scoped => pc[w].end.status # "indexed" /\ HasSkip(pc[w].cid)'
          BY <3>2, <3>3, <5>1 DEF HasSkip, Scoped, Row
        <5>5. pc'[w] = pc[w] /\ (pc[w].end = Indexed => pc[w].end # Scoped)
          BY <3>2 DEF Indexed, Scoped, Row
        <5> QED BY <5>2, <5>3, <5>4, <5>5 DEF Settles
      <4> QED BY <4>1, <4>2
    <3>6. \A v \in Workers : v # w => (Told(v)' => Told(v))
      BY <3>1, <3>2 DEF Told
    <3> QED BY <3>2, <3>4, <3>5, <3>6, RecordsKept
  <2>10. CASE Broadcast(w)
    <3>1. /\ post[w].at = "broadcast" /\ post' = [post EXCEPT ![w] = NoPost]
          /\ \A v \in Workers \ {w} : pc'[v] = pc[v]
          /\ \/ pc' = pc /\ pc[w].at # "publishing"
             \/ /\ pc[w].at = "publishing" /\ pc'[w].at = "mark" /\ pc[w].cid \in Cids
                /\ pc'[w].cid = pc[w].cid /\ pc'[w].end = pc[w].end
          /\ UNCHANGED <<catalog, history, row, inbox>>
      BY <2>10, BroadcastFits
    <3>2. /\ UNCHANGED <<row, labels, skips, logged, banned, inbox, purged>>
          /\ \A v \in Workers : v # w => post'[v] = post[v]
      BY <1>0, <3>1 DEF catalog, history
    <3>3. Stay
      BY <1>1, <3>2
    <3>4. \A v \in Workers : v # w => (Told(v)' => Told(v))
      BY <3>1, <3>2 DEF Told
    <3>5. CASE pc' = pc /\ pc[w].at # "publishing"
      <4>1. Told(w)' => Told(w)
        BY <3>5 DEF Told
      <4> QED BY <3>2, <3>3, <3>4, <3>5, <4>1, RecordsKept
    <3>6. CASE /\ pc[w].at = "publishing" /\ pc[w].cid \in Cids
               /\ pc'[w].cid = pc[w].cid /\ pc'[w].end = pc[w].end
      <4>1. pc[w].cid \in purged \/ Settles(pc[w].end, pc[w].cid)
        BY <3>1, <3>6 DEF MarksHaveRecord, Told
      <4>2. pc'[w].cid \in purged' \/ Settles(pc[w].end, pc[w].cid)'
        BY <3>2, <3>3, <3>6, <4>1 DEF Settles
      <4> QED BY <3>1, <3>2, <3>3, <3>4, <4>2, RecordsKept
    <3> QED BY <3>1, <3>5, <3>6
  <2>11. CASE ServedBy(w)
    <3>1. /\ post' = [post EXCEPT ![w] = NoPost]
          /\ UNCHANGED <<catalog, worker, row, inbox, purged>>
      BY <2>11, ServedFits
    <3>2. UNCHANGED <<row, pc, labels, skips, logged, banned, inbox, purged>>
      BY <3>1 DEF catalog, worker
    <3>3. \A v \in Workers : Told(v)' => Told(v)
      BY <1>0, <3>1, <3>2 DEF Told, NoPost, Post
    <3>4. Stay
      BY <1>1, <3>2
    <3> QED BY <3>2, <3>3, <3>4, RecordsKept
  <2>5. CASE Mark(w)
    <3>1. /\ pc[w].at = "mark" /\ pc[w].cid \in Cids /\ pc[w].end \in Ends
          /\ pc' = [pc EXCEPT ![w] = Idle]
          /\ UNCHANGED world
      BY <2>5, MarkFits
    <3>2. \A c \in Cids :
            \/ row'[c] = row[c]
            \/ /\ c = pc[w].cid
               /\ row'[c].status = pc[w].end.status
               /\ pc[w].end.status # "discovered" => row'[c] = pc[w].end
      BY <2>5, MarkFits
    <3>3. /\ UNCHANGED <<labels, skips, logged, banned, inbox, purged, post>> /\ ~Told(w)'
          /\ \A v \in Workers \ {w} : pc'[v] = pc[v]
      BY <1>0, <3>1 DEF world, history, catalog, clubd, Idle, Told
    <3>6. \A v \in Workers : v # w => (Told(v)' => Told(v))
      BY <3>3 DEF Told
    <3>4. Stay
      BY <1>1, <3>3
    <3>5. ASSUME NEW c \in Cids \ purged
          PROVE  \/ row'[c] = row[c]
                 \/ row'[c].status # "indexed" /\ row'[c] # Scoped
                 \/ Settles(row[c], c)'
      <4>1. c = pc[w].cid => Settles(pc[w].end, c)
        BY <3>1 DEF MarksHaveRecord, Told
      <4>2. CASE row'[c] = row[c]
        BY <4>2
      <4>3. CASE row'[c].status = "discovered"
        BY <4>3 DEF Scoped, Row
      <4>4. CASE c = pc[w].cid /\ row'[c] = pc[w].end
        BY <3>4, <4>1, <4>4 DEF Settles
      <4> QED BY <3>2, <4>2, <4>3, <4>4
    <3> QED BY <3>3, <3>4, <3>5, <3>6, RecordsKept
  <2>6. CASE GoesOnBy(w)
    BY <2>2, <2>6, WorkerGoesOn
  <2>7. CASE \/ FetchFailed(w) \/ Unusable(w) \/ ModelDown(w) \/ ChatFailed(w)
             \/ PublishRefused(w) \/ WorkerError(w)
    BY <2>3, <2>7, WorkerLeaves, Zenon
  <2> QED BY <1>2, <2>1, <2>4, <2>5, <2>6, <2>7, <2>8, <2>9, <2>10, <2>11, WorkerSteps
<1>3. ASSUME Stay, UNCHANGED <<row, purged, pc>>,
             \A w \in Workers : post'[w] \in {post[w], NoPost}
      PROVE  SettledHasRecord' /\ MarksHaveRecord'
  <2>1. \A w \in Workers : Told(w)' => Told(w)
    BY <1>3 DEF Told, NoPost, Post
  <2> QED BY <1>3, <2>1, RecordsKept
<1>4. CASE DrainOwn
  <2> DEFINE m == Head(inbox)
  <2>1. /\ inbox # <<>> /\ inbox' = Tail(inbox) /\ Stored(Self, m.kind, m.cid)
        /\ UNCHANGED <<row, purged, pc, post, banned>>
    BY <1>4 DEF DrainOwn, worker
  <2>2. /\ m = inbox[1] /\ m \in Own /\ Len(inbox) \in Nat
        /\ DOMAIN inbox = 1 .. Len(inbox) /\ DOMAIN inbox' = 1 .. Len(inbox) - 1
        /\ \A i \in 1 .. Len(inbox) - 1 : inbox'[i] = inbox[i + 1]
    BY <1>0, <2>1, HeadTailProperties, LenProperties
  <2>3. \A i \in DOMAIN inbox : i = 1 \/ (i - 1 \in DOMAIN inbox' /\ inbox'[i - 1] = inbox[i])
    BY <2>2
  <2>4. m.kind \in {"llm", "reuse", "skip"} /\ m.cid \in Cids /\ Self \in Publishers /\ Self # None
    BY <2>2, IndexerAssumption DEF Own, Publishers
  <2>5. /\ labels \subseteq labels' /\ logged \subseteq logged'
        /\ m.kind \in {"llm", "reuse"} => \E l \in labels' : l.cid = m.cid
        /\ \A c \in Cids : skips[c] # None => skips'[c] # None
        /\ m.kind = "skip" => skips'[m.cid] # None \/ (<<Self, m.cid>> \in logged /\ banned # {})
    <3> HIDE DEF m
    <3>1. CASE m.kind = "skip" /\ <<Self, m.cid>> \in logged
      <4>1. UNCHANGED <<labels, skips, logged>>
        BY <2>1, <3>1 DEF Stored
      <4> QED BY <2>4, <3>1, <4>1 DEF OwnSkipsKept
    <3>2. CASE ~(m.kind = "skip" /\ <<Self, m.cid>> \in logged)
      <4>1. /\ labels' = IF m.kind \in {"llm", "reuse"}
                         THEN labels \cup {[cid |-> m.cid, by |-> Self, kind |-> m.kind]} ELSE labels
            /\ skips' = IF m.kind = "skip" THEN [skips EXCEPT ![m.cid] = Self] ELSE skips
            /\ logged \subseteq logged'
        BY <2>1, <3>2 DEF Stored
      <4>2. labels \subseteq labels' /\ (m.kind \in {"llm", "reuse"} => \E l \in labels' : l.cid = m.cid)
        <5>1. CASE m.kind \in {"llm", "reuse"}
          <6> DEFINE l == [cid |-> m.cid, by |-> Self, kind |-> m.kind]
          <6>1. labels' = labels \cup {l} /\ l.cid = m.cid
            BY <4>1, <5>1
          <6> QED BY <6>1
        <5>2. CASE m.kind \notin {"llm", "reuse"}
          BY <4>1, <5>2
        <5> QED BY <5>1, <5>2
      <4>3. /\ \A c \in Cids : skips[c] # None => skips'[c] # None
            /\ m.kind = "skip" => skips'[m.cid] # None
        BY <1>0, <2>4, <4>1
      <4> QED BY <4>1, <4>2, <4>3
    <3> QED BY <3>1, <3>2
  <2> HIDE DEF m
  <2>6. ASSUME NEW c \in Cids, HasLabel(c) PROVE HasLabel(c)'
    <3>1. CASE Labelled(c)
      BY <2>5, <3>1 DEF HasLabel, Labelled
    <3>2. ASSUME NEW i \in DOMAIN inbox, inbox[i].cid = c, inbox[i].kind \in {"llm", "reuse"}
          PROVE  HasLabel(c)'
      <4>1. CASE i = 1
        BY <2>2, <2>5, <3>2, <4>1 DEF HasLabel, Labelled
      <4>2. CASE i # 1
        BY <2>3, <3>2, <4>2 DEF HasLabel
      <4> QED BY <4>1, <4>2
    <3> QED BY <2>6, <3>1, <3>2 DEF HasLabel
  <2>7. ASSUME NEW c \in Cids, HasSkip(c) PROVE HasSkip(c)' \/ Displaced(c)'
    <3>1. CASE skips[c] # None
      BY <2>5, <3>1 DEF HasSkip
    <3>2. ASSUME NEW i \in DOMAIN inbox, inbox[i].cid = c, inbox[i].kind = "skip"
          PROVE  HasSkip(c)' \/ Displaced(c)'
      <4>1. CASE i = 1
        BY <2>1, <2>2, <2>5, <3>2, <4>1 DEF HasSkip, Displaced
      <4>2. CASE i # 1
        BY <2>3, <3>2, <4>2 DEF HasSkip
      <4> QED BY <4>1, <4>2
    <3> QED BY <2>7, <3>1, <3>2 DEF HasSkip
  <2>8. ASSUME NEW c \in Cids, Displaced(c) PROVE Displaced(c)'
    BY <2>1, <2>5, <2>8 DEF Displaced
  <2> QED BY <1>3, <2>1, <2>6, <2>7, <2>8
<1>5. ASSUME NEW m \in Heard, DrainForeign(m) PROVE SettledHasRecord' /\ MarksHaveRecord'
  <2>1. /\ Stored(m.by, m.kind, m.cid) /\ UNCHANGED <<row, purged, pc, inbox, post, banned>>
    BY <1>5 DEF DrainForeign, worker, clubd
  <2>2. m.by \in Publishers /\ m.by # None /\ m.cid \in Cids
    BY <1>0, HeardType
  <2>3. /\ labels \subseteq labels' /\ logged \subseteq logged'
        /\ \A c \in Cids : skips[c] # None => skips'[c] # None
    BY <1>0, <2>1, <2>2 DEF Stored
  <2>4. Stay
    BY <2>1, <2>3, RecordsStay
  <2> QED BY <1>3, <2>1, <2>4
<1>6. CASE \/ \E m \in Heard : DrainWrong(m)
           \/ \E p \in Peers : ExpireRow(p)
           \/ ClubdStop \/ ClubdStart \/ UNCHANGED vars
  <2>1. /\ UNCHANGED <<row, purged, pc, inbox, labels, skips, logged, banned>>
        /\ \A w \in Workers : post'[w] \in {post[w], NoPost}
    BY <1>6 DEF DrainWrong, ExpireRow, ClubdStop, ClubdStart, vars, world, worker, history, catalog, clubd
  <2> QED BY <1>1, <1>3, <2>1
<1>7. CASE EnqueueReview \/ \E c \in Cids : Want(c)
  <2>1. UNCHANGED <<purged, pc, inbox, labels, skips, logged, banned, post>>
    BY <1>7 DEF EnqueueReview, Want, world, worker, history, catalog, clubd
  <2>2. \A c \in Cids : row'[c] = row[c] \/ row'[c].status = "discovered"
    <3>1. CASE EnqueueReview
      <4>1. drain.cid \in Cids /\ \/ row' = row
                                  \/ row' = [row EXCEPT ![drain.cid] = Row("discovered", "none")]
        BY <3>1, ReviewFits
      <4> QED BY <1>0, <4>1 DEF Row
    <3>2. ASSUME NEW d \in Cids, Want(d) PROVE \A c \in Cids : row'[c] = row[c] \/ row'[c].status = "discovered"
      BY <1>0, <3>2 DEF Want, Row
    <3> QED BY <1>7, <3>1, <3>2
  <2>3. \A c \in Cids : row'[c] = row[c] \/ (row'[c].status # "indexed" /\ row'[c] # Scoped)
    BY <2>2 DEF Scoped, Row
  <2>4. Stay /\ \A w \in Workers : Told(w)' => Told(w)
    BY <1>1, <2>1 DEF Told
  <2> QED BY <2>1, <2>3, <2>4, RecordsKept
<1>8. CASE Crash
  <2>1. /\ UNCHANGED <<row, purged, inbox, labels, skips, logged, banned>>
        /\ \A w \in Workers : pc'[w].at = "idle"
    BY <1>8 DEF Crash, Idle, catalog, clubd
  <2>2. Stay /\ \A w \in Workers : ~Told(w)'
    BY <1>1, <2>1 DEF Told
  <2> QED BY <2>1, <2>2, RecordsKept
<1>9. CASE Start
  <2>1. UNCHANGED <<pc, inbox, labels, skips, logged, banned>> /\ ~running
    BY <1>9 DEF Start, worker, catalog, clubd
  <2>2. \A w \in Workers : ~Told(w)'
    BY <2>1 DEF Fits, ThreadsFit, Told
  <2>3. Stay
    BY <1>1, <2>1
  <2>4. ASSUME NEW c \in Cids
        PROVE  \/ row'[c].status # "indexed" /\ row'[c] # Scoped
               \/ Settles(row[c], c)'
    <3>1. \/ row'[c] = row[c] /\ ~Unpublished(c)
          \/ row'[c].status = "discovered"
      BY <1>9, StartRows
    <3>2. CASE row'[c].status = "discovered"
      BY <3>2 DEF Scoped, Row
    <3>3. CASE row'[c] = row[c] /\ ~Unpublished(c)
      BY <2>1, <3>3 DEF Unpublished, Settles, HasLabel, HasSkip, Labelled, Scoped
    <3> QED BY <3>1, <3>2, <3>3
  <2> QED BY <2>2, <2>3, <2>4, RecordsKept
<1>10. ASSUME NEW p \in Peers, Blacklist(p) PROVE SettledHasRecord' /\ MarksHaveRecord'
  <2>1. /\ labels' = {l \in labels : l.by # p}
        /\ skips' = [c \in Cids |-> IF skips[c] = p THEN None ELSE skips[c]]
        /\ purged' = purged \cup {c \in Cids : (\E l \in labels : l.cid = c /\ l.by = p) \/ skips[c] = p}
        /\ banned' = banned \cup {p} /\ logged' = {s \in logged : s[1] # p}
        /\ UNCHANGED <<row, pc, inbox, post>>
    BY <1>10 DEF Blacklist, worker, clubd
  <2>2. ASSUME NEW c \in Cids, c \notin purged'
        PROVE  /\ c \notin purged /\ (HasLabel(c) => HasLabel(c)') /\ (HasSkip(c) => HasSkip(c)')
               /\ Displaced(c) => Displaced(c)'
    <3>1. Displaced(c) => Displaced(c)'
      BY <2>1, IndexerAssumption DEF Displaced
    <3> QED BY <2>1, <2>2, <3>1 DEF HasLabel, HasSkip, Labelled
  <2>3. \A c \in Cids \ purged : Settles(row[c], c)
    BY RecordsForm
  <2>4. \A c \in Cids \ purged' : Settles(row[c], c)'
    BY <2>1, <2>2, <2>3 DEF Settles
  <2>5. ASSUME NEW w \in Workers, Told(w)', pc'[w].cid \notin purged'
        PROVE  Settles(pc[w].end, pc[w].cid)'
    <3>1. Told(w) /\ pc'[w] = pc[w]
      BY <2>1, <2>5 DEF Told
    <3>2. pc[w].cid \in Cids
      BY <3>1, BusyWorker DEF Told
    <3>3. pc[w].cid \notin purged
      BY <2>2, <2>5, <3>1, <3>2
    <3>4. Settles(pc[w].end, pc[w].cid)
      BY <3>1, <3>3 DEF MarksHaveRecord
    <3> QED BY <2>2, <2>5, <3>1, <3>2, <3>4 DEF Settles
  <2>6. SettledHasRecord'
    BY <2>4 DEF SettledHasRecord, Settles, Scoped
  <2>7. MarksHaveRecord'
    BY <2>5 DEF MarksHaveRecord, Settles, HasLabel, HasSkip, Displaced, Labelled
  <2> QED BY <2>6, <2>7
<1> QED BY <1>2, <1>4, <1>5, <1>6, <1>7, <1>8, <1>9, <1>10, Zenon DEF Next

\* A skip of this node that was logged is in the tables, until somebody is
\* blacklisted: another record of its cid does not take it away.
LEMMA OwnSkipsStep ==
    ASSUME Fits, OwnSkipsKept, [Next]_vars
    PROVE  OwnSkipsKept'
<1>0. /\ skips \in [Cids -> Publishers \cup {None}] /\ None \notin Publishers /\ Self \in Publishers
      /\ inbox \in Seq(Own) /\ Self \notin Peers
  BY IndexerAssumption DEF Fits, TypeOK, Publishers
<1>1. CASE UNCHANGED <<skips, logged, banned>>
  BY <1>1 DEF OwnSkipsKept
<1>2. ASSUME NEW p \in Publishers, NEW kind, NEW c \in Cids, Stored(p, kind, c), banned' = banned
      PROVE  OwnSkipsKept'
  <2>1. CASE UNCHANGED <<skips, logged>>
    BY <1>1, <1>2, <2>1
  <2>2. CASE kind = "skip" /\ logged' = logged \cup {<<p, c>>} /\ skips' = [skips EXCEPT ![c] = p]
    <3> SUFFICES ASSUME NEW d \in Cids, <<Self, d>> \in logged'
                 PROVE  skips'[d] # None \/ banned' # {}
      BY DEF OwnSkipsKept
    <3>1. CASE d = c
      BY <1>0, <2>2, <3>1
    <3>2. CASE d # c
      <4>1. <<Self, d>> \in logged
        BY <2>2, <3>2
      <4> QED BY <1>0, <1>2, <2>2, <3>2, <4>1 DEF OwnSkipsKept
    <3> QED BY <3>1, <3>2
  <2> QED BY <1>2, <2>1, <2>2 DEF Stored
<1>3. CASE DrainOwn
  <2>1. inbox # <<>> /\ Stored(Self, Head(inbox).kind, Head(inbox).cid) /\ banned' = banned
    BY <1>3 DEF DrainOwn
  <2>2. Head(inbox) \in Own
    BY <1>0, <2>1, HeadTailProperties
  <2>3. Head(inbox).cid \in Cids
    BY <2>2 DEF Own
  <2> QED BY <1>0, <1>2, <2>1, <2>3
<1>4. ASSUME NEW m \in Heard, DrainForeign(m) PROVE OwnSkipsKept'
  BY <1>2, <1>4, HeardType DEF DrainForeign
<1>5. ASSUME NEW p \in Peers, Blacklist(p) PROVE OwnSkipsKept'
  BY <1>5 DEF Blacklist, OwnSkipsKept
<1>6. ASSUME NEW w \in Workers, Work(w) \/ Serve(w) \/ Fails(w) PROVE UNCHANGED <<skips, logged, banned>>
  <2>1. CASE \E c \in Cids : TakeBatch(w, c)
    BY <2>1 DEF TakeBatch, world, catalog
  <2>2. CASE GoesOnBy(w)
    BY <2>2, WorkerGoesOn DEF GoesOn, catalog
  <2>3. CASE \/ FetchFailed(w) \/ Unusable(w) \/ ModelDown(w) \/ ChatFailed(w)
             \/ PublishRefused(w) \/ WorkerError(w)
    BY <2>3, WorkerLeaves DEF Leaves, catalog
  <2>4. CASE Publish(w) \/ PublishFailed(w)
    BY <2>4 DEF Publish, PublishFailed, catalog
  <2>5. CASE AppendLine(w) \/ Broadcast(w) \/ ServedBy(w)
    BY <2>5, AppendFits, BroadcastFits, ServedFits DEF catalog
  <2>6. CASE Mark(w)
    BY <2>6, MarkFits DEF world, catalog
  <2> QED BY <1>6, <2>1, <2>2, <2>3, <2>4, <2>5, <2>6, WorkerSteps
<1>7. CASE \/ EnqueueReview \/ \E m \in Heard : DrainWrong(m)
           \/ \E c \in Cids : Want(c)
           \/ \E p \in Peers : ExpireRow(p)
           \/ ClubdStop \/ ClubdStart \/ Crash \/ Start \/ UNCHANGED vars
  <2>1. UNCHANGED <<skips, logged, banned>>
    BY <1>7 DEF EnqueueReview, DrainWrong, Want, ExpireRow, ClubdStop, ClubdStart, Crash, Start, vars, world, catalog
  <2> QED BY <1>1, <2>1
<1> QED BY <1>1, <1>3, <1>4, <1>5, <1>6, <1>7, Zenon DEF Next

-----------------------------------------------------------------------------
(***************************************************************************)
(* Labels are known to the club.                                           *)
(***************************************************************************)
\* A step that forgets no label, and adds none that is not known.
LEMMA KnownKept ==
    ASSUME LabelsKnown, once \subseteq once',
           \A l \in labels' : l \in labels \/ l.cid \in once',
           \A i \in DOMAIN inbox' : \/ \E j \in DOMAIN inbox : inbox'[i] = inbox[j]
                                    \/ inbox'[i].kind = "skip" \/ inbox'[i].cid \in once',
           \A c \in Cids : row'[c] = row[c] \/ row'[c].status # "indexed" \/ c \in once',
           \A w \in Workers : \/ pc'[w] = pc[w] /\ (Told(w)' => Told(w))
                              \/ ~Told(w)'
                              \/ pc'[w].end.status # "indexed" \/ pc'[w].cid \in once'
    PROVE  LabelsKnown'
BY DEF LabelsKnown

\* A label enters the catalog, the inbox or a row only for a cid the club has,
\* or now gets, a label for.
LEMMA KnownStep ==
    ASSUME Fits, Fits', LabelsKnown, [Next]_vars
    PROVE  LabelsKnown'
<1>0. /\ row \in [Cids -> [status : Statuses, error : Errors]]
      /\ pc \in [Workers -> Local] /\ inbox \in Seq(Own) /\ post \in [Workers -> Posts]
  BY DEF Fits, TypeOK
<1>1. ASSUME NEW w \in Workers, Work(w) \/ Serve(w) \/ Fails(w)
      PROVE  LabelsKnown'
  <2>1. ASSUME NEW d \in Cids, TakeBatch(w, d) PROVE LabelsKnown'
    <3>1. /\ \A v \in Workers \ {w} : pc'[v] = pc[v]
          /\ \A c \in Cids \ {d} : row'[c] = row[c]
          /\ row'[d].status # "indexed" /\ pc'[w].at = "lookup"
          /\ UNCHANGED <<labels, inbox, once, post>>
      BY <1>0, <2>1 DEF TakeBatch, Idle, world, history, catalog, clubd
    <3>2. ~Told(w)' /\ \A v \in Workers : v # w => (Told(v)' => Told(v))
      BY <3>1 DEF Told
    <3> QED BY <3>1, <3>2, KnownKept
  <2>2. ASSUME NEW l \in Local, GoesOn(w, l) PROVE LabelsKnown'
    <3>1. /\ \A v \in Workers \ {w} : pc'[v] = pc[v]
          /\ pc'[w] = l /\ UNCHANGED <<row, labels, inbox, once>>
          /\ l.at # "publishing" /\ \A v \in Workers \ {w} : post'[v] = post[v]
          /\ l.at = "mark" /\ l.end.status = "indexed" => Labelled(l.cid)
      BY <1>0, <2>2 DEF GoesOn, catalog
    <3>2. l.at = "mark" /\ l.end.status = "indexed" => l.cid \in once
      BY <3>1 DEF LabelsKnown, Labelled
    <3>3. \/ ~Told(w)'
          \/ pc'[w].end.status # "indexed" \/ pc'[w].cid \in once'
      BY <3>1, <3>2 DEF Told
    <3>4. \A v \in Workers : v # w => (Told(v)' => Told(v))
      BY <3>1 DEF Told
    <3> QED BY <3>1, <3>3, <3>4, KnownKept
  <2>3. ASSUME Leaves(w) PROVE LabelsKnown'
    <3>1. /\ \A v \in Workers \ {w} : pc'[v] = pc[v]
          /\ pc'[w].at = "idle" /\ UNCHANGED <<labels, inbox, once, post>>
          /\ \A c \in Cids : row'[c] = row[c] \/ row'[c].status # "indexed"
      BY <1>0, <2>3 DEF Leaves, catalog, clubd, Idle, NoRow, Row
    <3>2. ~Told(w)' /\ \A v \in Workers : v # w => (Told(v)' => Told(v))
      BY <3>1 DEF Told
    <3> QED BY <3>1, <3>2, KnownKept
  <2>4. CASE Publish(w)
    <3>1. /\ pc'[w].at = "publishing" /\ post'[w] = Post("append", pc[w].act, pc[w].cid)
          /\ \A v \in Workers \ {w} : pc'[v] = pc[v] /\ post'[v] = post[v]
      BY <2>4, PublishFits
    <3>2. UNCHANGED <<row, labels, inbox, once>>
      BY <2>4 DEF Publish, catalog, history
    <3>3. ~Told(w)' /\ \A v \in Workers : v # w => (Told(v)' => Told(v))
      BY <3>1 DEF Told, Post
    <3> QED BY <3>1, <3>2, <3>3, KnownKept
  <2>8. CASE PublishFailed(w) /\ (UNCHANGED bounds \/ Failure)
    <3>1. /\ pc'[w].end = Row("discovered", "publish_failed")
          /\ \A v \in Workers \ {w} : pc'[v] = pc[v]
      BY <2>8, PublishFailedFits
    <3>2. UNCHANGED <<row, labels, inbox, once, post>>
      BY <2>8 DEF PublishFailed, catalog, clubd
    <3>3. /\ pc'[w].end.status # "indexed"
          /\ \A v \in Workers : v # w => (Told(v)' => Told(v))
      BY <3>1, <3>2 DEF Told, Row
    <3> QED BY <3>1, <3>2, <3>3, KnownKept
  <2>9. CASE AppendLine(w)
    <3>1. /\ Line(w) \in Own /\ post[w].at = "append" /\ post[w] # NoPost
          /\ \A v \in Workers \ {w} : post'[v] = post[v]
          /\ inbox' \in Seq(Own) /\ Len(inbox') = Len(inbox) + 1
          /\ inbox'[Len(inbox')] = Line(w)
          /\ \A i \in 1 .. Len(inbox) : inbox'[i] = inbox[i]
          /\ once' = IF post[w].kind = "skip" THEN once ELSE once \cup {post[w].cid}
          /\ UNCHANGED <<catalog, worker, row>>
      BY <2>9, AppendFits
    <3>2. UNCHANGED <<row, pc, labels>>
      BY <3>1 DEF catalog, worker
    <3>3. /\ once \subseteq once'
          /\ Line(w).kind = "skip" \/ Line(w).cid \in once'
      BY <3>1 DEF Line
    <3>4. \A i \in DOMAIN inbox' : \/ \E j \in DOMAIN inbox : inbox'[i] = inbox[j]
                                   \/ inbox'[i].kind = "skip" \/ inbox'[i].cid \in once'
      <4>1. DOMAIN inbox = 1 .. Len(inbox) /\ DOMAIN inbox' = 1 .. Len(inbox') /\ Len(inbox) \in Nat
        BY <1>0, <3>1, LenProperties
      <4>2. \A i \in DOMAIN inbox' : i \in DOMAIN inbox \/ i = Len(inbox')
        BY <3>1, <4>1
      <4>3. \A i \in DOMAIN inbox' : \/ i \in DOMAIN inbox /\ inbox'[i] = inbox[i]
                                     \/ inbox'[i] = Line(w)
        BY <3>1, <4>1, <4>2
      <4> QED BY <3>3, <4>3
    <3>5. \/ Told(w)' => Told(w)
          \/ pc'[w].end.status # "indexed" \/ pc'[w].cid \in once'
      <4>1. CASE pc[w].at # "publishing"
        BY <3>2, <4>1 DEF Told
      <4>2. CASE pc[w].at = "publishing"
        <5>1. Line(w).cid = pc[w].cid /\ (Line(w).kind = "skip" => pc[w].end = Scoped)
          BY <3>1, <4>2 DEF Fits, PostsFit, PostFits, Line
        <5> QED BY <3>2, <3>3, <5>1 DEF Scoped, Row
      <4> QED BY <4>1, <4>2
    <3>6. \A v \in Workers : v # w => (Told(v)' => Told(v))
      BY <3>1, <3>2 DEF Told
    <3> QED BY <3>2, <3>3, <3>4, <3>5, <3>6, KnownKept
  <2>10. CASE Broadcast(w)
    <3>1. /\ post[w].at = "broadcast" /\ post' = [post EXCEPT ![w] = NoPost]
          /\ \A v \in Workers \ {w} : pc'[v] = pc[v]
          /\ \/ pc' = pc /\ pc[w].at # "publishing"
             \/ /\ pc[w].at = "publishing"
                /\ pc'[w].cid = pc[w].cid /\ pc'[w].end = pc[w].end
          /\ UNCHANGED <<catalog, history, row, inbox>>
      BY <2>10, BroadcastFits
    <3>2. /\ UNCHANGED <<row, labels, inbox, once>>
          /\ \A v \in Workers : v # w => post'[v] = post[v]
      BY <3>1 DEF catalog, history
    <3>3. \A v \in Workers : v # w => (Told(v)' => Told(v))
      BY <3>1, <3>2 DEF Told
    <3>4. \/ pc' = pc /\ (Told(w)' => Told(w))
          \/ pc'[w].end.status # "indexed" \/ pc'[w].cid \in once'
      <4>1. CASE pc' = pc /\ pc[w].at # "publishing"
        BY <4>1 DEF Told
      <4>2. CASE pc[w].at = "publishing" /\ pc'[w].cid = pc[w].cid /\ pc'[w].end = pc[w].end
        BY <3>1, <3>2, <4>2 DEF LabelsKnown, Told
      <4> QED BY <3>1, <4>1, <4>2
    <3> QED BY <3>1, <3>2, <3>3, <3>4, KnownKept
  <2>11. CASE ServedBy(w)
    <3>1. /\ post' = [post EXCEPT ![w] = NoPost]
          /\ UNCHANGED <<catalog, worker, row, inbox, once>>
      BY <2>11, ServedFits
    <3>2. UNCHANGED <<row, pc, labels, inbox, once>>
      BY <3>1 DEF catalog, worker
    <3>3. \A v \in Workers : Told(v)' => Told(v)
      BY <1>0, <3>1, <3>2 DEF Told, NoPost, Post
    <3> QED BY <3>2, <3>3, KnownKept
  <2>5. CASE Mark(w)
    <3>1. /\ pc[w].at = "mark" /\ pc[w].cid \in Cids
          /\ pc' = [pc EXCEPT ![w] = Idle]
          /\ UNCHANGED world
          /\ \A c \in Cids : \/ row'[c] = row[c]
                             \/ c = pc[w].cid /\ row'[c].status = pc[w].end.status
      BY <2>5, MarkFits
    <3>2. /\ UNCHANGED <<labels, inbox, once, post>> /\ pc'[w].at = "idle"
          /\ \A v \in Workers \ {w} : pc'[v] = pc[v]
      BY <1>0, <3>1 DEF world, history, catalog, clubd, Idle
    <3>3. \A c \in Cids : row'[c] = row[c] \/ row'[c].status # "indexed" \/ c \in once'
      BY <3>1, <3>2 DEF LabelsKnown, Told
    <3>4. ~Told(w)' /\ \A v \in Workers : v # w => (Told(v)' => Told(v))
      BY <3>2 DEF Told
    <3> QED BY <3>2, <3>3, <3>4, KnownKept
  <2>6. CASE GoesOnBy(w)
    BY <2>2, <2>6, WorkerGoesOn
  <2>7. CASE \/ FetchFailed(w) \/ Unusable(w) \/ ModelDown(w) \/ ChatFailed(w)
             \/ PublishRefused(w) \/ WorkerError(w)
    BY <2>3, <2>7, WorkerLeaves, Zenon
  <2> QED BY <1>1, <2>1, <2>4, <2>5, <2>6, <2>7, <2>8, <2>9, <2>10, <2>11, WorkerSteps
<1>2. CASE DrainOwn
  <2> DEFINE m == Head(inbox)
  <2>1. /\ inbox # <<>> /\ inbox' = Tail(inbox) /\ Stored(Self, m.kind, m.cid)
        /\ UNCHANGED <<row, pc, post>>
    BY <1>2 DEF DrainOwn, worker
  <2>2. /\ DOMAIN inbox = 1 .. Len(inbox) /\ DOMAIN inbox' = 1 .. Len(inbox) - 1 /\ Len(inbox) \in Nat
        /\ \A i \in 1 .. Len(inbox) - 1 : inbox'[i] = inbox[i + 1]
    BY <1>0, <2>1, HeadTailProperties, LenProperties
  <2>3. \A i \in DOMAIN inbox' : \E j \in DOMAIN inbox : inbox'[i] = inbox[j]
    BY <2>2
  <2> HIDE DEF m
  <2>4. once \subseteq once' /\ \A l \in labels' : l \in labels \/ l.cid \in once'
    BY <2>1 DEF Stored
  <2>5. \A w \in Workers : Told(w)' => Told(w)
    BY <2>1 DEF Told
  <2> QED BY <2>1, <2>3, <2>4, <2>5, KnownKept
<1>3. ASSUME NEW m \in Heard, DrainForeign(m) PROVE LabelsKnown'
  <2>1. Stored(m.by, m.kind, m.cid) /\ UNCHANGED <<row, pc, inbox, post>>
    BY <1>3 DEF DrainForeign, worker, clubd
  <2>2. once \subseteq once' /\ \A l \in labels' : l \in labels \/ l.cid \in once'
    BY <2>1 DEF Stored
  <2>3. \A w \in Workers : Told(w)' => Told(w)
    BY <2>1 DEF Told
  <2> QED BY <2>1, <2>2, <2>3, KnownKept
<1>4. CASE \/ \E m \in Heard : DrainWrong(m)
           \/ \E p \in Peers : ExpireRow(p)
           \/ ClubdStop \/ ClubdStart \/ UNCHANGED vars
  <2>1. /\ UNCHANGED <<row, pc, inbox, labels, once>>
        /\ \A w \in Workers : post'[w] \in {post[w], NoPost}
    BY <1>4 DEF DrainWrong, ExpireRow, ClubdStop, ClubdStart, vars, world, worker, history, catalog, clubd
  <2>2. \A w \in Workers : Told(w)' => Told(w)
    BY <2>1 DEF Told, NoPost, Post
  <2> QED BY <2>1, <2>2, KnownKept
<1>5. CASE EnqueueReview \/ \E c \in Cids : Want(c)
  <2>1. UNCHANGED <<pc, inbox, labels, once, post>>
    BY <1>5 DEF EnqueueReview, Want, world, worker, history, catalog, clubd
  <2>2. \A c \in Cids : row'[c] = row[c] \/ row'[c].status # "indexed"
    <3>1. CASE EnqueueReview
      <4>1. drain.cid \in Cids /\ \/ row' = row
                                  \/ row' = [row EXCEPT ![drain.cid] = Row("discovered", "none")]
        BY <3>1, ReviewFits
      <4> QED BY <1>0, <4>1 DEF Row
    <3>2. ASSUME NEW d \in Cids, Want(d) PROVE \A c \in Cids : row'[c] = row[c] \/ row'[c].status # "indexed"
      BY <1>0, <3>2 DEF Want, Row
    <3> QED BY <1>5, <3>1, <3>2
  <2>3. \A w \in Workers : Told(w)' => Told(w)
    BY <2>1 DEF Told
  <2> QED BY <2>1, <2>2, <2>3, KnownKept
<1>6. CASE Crash
  <2>1. UNCHANGED <<row, inbox, labels, once>> /\ \A w \in Workers : pc'[w].at = "idle"
    BY <1>6 DEF Crash, Idle, catalog, clubd
  <2>2. \A w \in Workers : ~Told(w)'
    BY <2>1 DEF Told
  <2> QED BY <2>1, <2>2, KnownKept
<1>7. CASE Start
  <2>1. UNCHANGED <<pc, inbox, labels, once, post>>
    BY <1>7 DEF Start, worker, catalog, clubd
  <2>2. \A c \in Cids : row'[c] = row[c] \/ row'[c].status # "indexed"
    BY <1>7, StartRows
  <2>3. \A w \in Workers : Told(w)' => Told(w)
    BY <2>1 DEF Told
  <2> QED BY <2>1, <2>2, <2>3, KnownKept
<1>8. ASSUME NEW p \in Peers, Blacklist(p) PROVE LabelsKnown'
  <2>1. labels' \subseteq labels /\ UNCHANGED <<row, pc, inbox, once, post>>
    BY <1>8 DEF Blacklist, worker, clubd
  <2>2. \A w \in Workers : Told(w)' => Told(w)
    BY <2>1 DEF Told
  <2> QED BY <2>1, <2>2, KnownKept
<1> QED BY <1>1, <1>2, <1>3, <1>4, <1>5, <1>6, <1>7, <1>8, Zenon DEF Next

-----------------------------------------------------------------------------
(***************************************************************************)
(* The theorems.                                                           *)
(***************************************************************************)
\* Initially rows wait, and there are no labels, records or claims.
LEMMA IInvInit == Init => IInv
<1> SUFFICES ASSUME Init PROVE IInv
  OBVIOUS
<1>1. Fits
  BY InitFits
<1>2. SlotLive
  BY DEF Init, SlotLive
<1>3. VotesDue
  <2> SUFFICES ASSUME NEW c \in Cids
               PROVE  votes[c] + Open(c) + Cardinality(Trying(c)) + Cardinality(Posting(c))
                      <= 1 + reviews[c] + excused
    BY DEF VotesDue
  <2>1. Trying(c) = {} /\ Posting(c) = {}
    BY DEF Init, Trying, MayAsk, Idle, Stages, Posting, NoPost, Post
  <2>2. Cardinality(Trying(c)) = 0 /\ Cardinality(Posting(c)) = 0
    BY <2>1, FS_EmptySet
  <2>3. Open(c) \in 0 .. 1 /\ votes[c] = 0 /\ reviews[c] = 0 /\ excused = 0
    BY DEF Init, Open
  <2> QED BY <2>2, <2>3
<1>4. \A c \in Cids : row[c].status # "indexed" /\ row[c] # Scoped
  BY DEF Init, Row, NoRow, Scoped
<1>5. \A w \in Workers : ~Told(w)
  BY DEF Init, Idle, Told
<1>6. SettledHasRecord /\ MarksHaveRecord /\ OwnSkipsKept
  BY <1>4, <1>5 DEF Init, SettledHasRecord, MarksHaveRecord, OwnSkipsKept, Scoped
<1>7. LabelsKnown
  BY <1>4, <1>5 DEF Init, LabelsKnown
<1> QED BY <1>1, <1>2, <1>3, <1>6, <1>7 DEF IInv

\* The invariant is inductive.
LEMMA IInvStep == IInv /\ [Next]_vars => IInv'
<1> SUFFICES ASSUME IInv, [Next]_vars PROVE IInv'
  OBVIOUS
<1>1. /\ Fits /\ Fits' /\ SlotLive /\ VotesDue
      /\ SettledHasRecord /\ MarksHaveRecord /\ OwnSkipsKept /\ LabelsKnown
  BY FitsStep DEF IInv
<1>2. SlotLive'
  BY <1>1, SlotLiveStep
<1>3. VotesDue'
  BY <1>1, VotesStep
<1>4. SettledHasRecord' /\ MarksHaveRecord' /\ OwnSkipsKept'
  BY <1>1, RecordsStep, OwnSkipsStep
<1>5. LabelsKnown'
  BY <1>1, KnownStep
<1> QED BY <1>1, <1>2, <1>3, <1>4, <1>5 DEF IInv

\* The invariant of the workers, the rows, the claim slot and the catalog is
\* kept by every step of process_one, of the drain, of clubd and of main().
THEOREM InductiveInvariant == Spec => []IInv
BY IInvInit, IInvStep, PTL DEF Spec

\* indexer.py, _try_claim and the finally of process_one: every reachable state
\* is well typed, and the semaphore and its holders add up to one.
THEOREM IndexerInvHolds == Spec => []IndexerInv
<1>1. IInv => IndexerInv
  <2> SUFFICES ASSUME IInv PROVE TypeOK /\ SlotConserved
    BY DEF IndexerInv
  <2>1. TypeOK /\ SlotHeld
    BY DEF IInv, Fits
  <2>2. CASE claimSlot = 1 /\ \A w \in Workers : ~pc[w].claimed
    <3>1. Holders = {}
      BY <2>2 DEF Holders
    <3>2. Cardinality(Holders) = 0
      BY <3>1, FS_EmptySet
    <3> QED BY <2>1, <2>2, <3>2 DEF SlotConserved
  <2>3. ASSUME claimSlot = 0, NEW w \in Workers, pc[w].claimed,
               \A v \in Workers : pc[v].claimed => v = w
        PROVE  SlotConserved
    <3>1. Holders = {w}
      BY <2>3 DEF Holders
    <3>2. Cardinality(Holders) = 1
      BY <3>1, FS_Singleton
    <3> QED BY <2>3, <3>2 DEF SlotConserved
  <2> QED BY <2>1, <2>2, <2>3 DEF SlotHeld
<1> QED BY <1>1, InductiveInvariant, PTL

\* indexer.py, "Advertise at most one live claim", for any number of workers,
\* although _claimed_until is read without a lock, and although clubd clears a
\* lease, appends the record and broadcasts it in steps of its own.
THEOREM OneLiveClaimHolds == Spec => []OneLiveClaim
<1>1. IInv => OneLiveClaim
  <2> SUFFICES ASSUME IInv, ~forgot PROVE Cardinality(announced \ Ending) <= 1
    BY DEF OneLiveClaim
  <2>1. announced \ Ending = {} \/ announced \ Ending = {slot}
    BY DEF IInv, SlotLive
  <2>2. Cardinality(announced \ Ending) = 0 \/ Cardinality(announced \ Ending) = 1
    BY <2>1, FS_EmptySet, FS_Singleton
  <2> QED BY <2>2
<1> QED BY <1>1, InductiveInvariant, PTL

\* indexer.py, requeue_unpublished: a row settled by a club record has that
\* record, in the catalog or in the inbox, whatever failed or crashed before,
\* except a skip of this node that went with the skip of a blacklisted peer.
THEOREM SettledHasRecordHolds == Spec => []SettledHasRecord
<1>1. IInv => SettledHasRecord
  BY DEF IInv
<1> QED BY <1>1, InductiveInvariant, PTL

\* indexer.py, process_one: a node labels a cid once, and again only for a
\* review, an unconfirmed publish, or a crash or exception before the mark.
THEOREM VotesExplainedHolds == Spec => []VotesExplained
<1>1. IInv => VotesExplained
  <2> SUFFICES ASSUME IInv, NEW c \in Cids PROVE votes[c] <= 1 + reviews[c] + excused
    BY DEF VotesExplained
  <2>1. votes[c] \in Nat /\ reviews[c] \in Nat /\ excused \in Nat /\ Open(c) \in 0 .. 1
    BY DEF IInv, Fits, TypeOK, Open
  <2>2. Cardinality(Trying(c)) \in Nat /\ Cardinality(Posting(c)) \in Nat
    BY IndexerAssumption, FS_Subset, FS_CardinalityType DEF Trying, Posting
  <2>3. votes[c] + Open(c) + Cardinality(Trying(c)) + Cardinality(Posting(c)) <= 1 + reviews[c] + excused
    BY DEF IInv, VotesDue
  <2> QED BY <2>1, <2>2, <2>3
<1> QED BY <1>1, InductiveInvariant, PTL

-----------------------------------------------------------------------------
(***************************************************************************)
(* The safety half of the refinement: every step of the node is a step of  *)
(* LabelService, or none.                                                  *)
(***************************************************************************)
Done == {c \in Cids : row[c].status = "indexed"}
ServiceStep == [Service!Next]_(Service!vars)

\* Rows that keep their side of the interface: nothing happens there.
LEMMA QuietStep ==
    ASSUME once' = once,
           \A c \in Cids : /\ row[c].status = "indexed" <=> row'[c].status = "indexed"
                           /\ row[c].status \in {"discovered", "processing"}
                              <=> row'[c].status \in {"discovered", "processing"}
    PROVE  ServiceStep
<1>1. Pending' = Pending /\ Done' = Done
  BY DEF Pending, Done
<1> QED BY <1>1 DEF ServiceStep, Service!vars, Done

\* A label becomes known.
LEMMA KnowStep ==
    ASSUME row' = row, NEW c \in Cids, once' = once \cup {c}
    PROVE  ServiceStep
<1>1. Pending' = Pending /\ Done' = Done
  BY DEF Pending, Done
<1>2. Service!Know(c)
  BY <1>1 DEF Service!Know, Done
<1> QED BY <1>2 DEF ServiceStep, Service!Next

\* Rows are put back into the queue.
LEMMA AskStep ==
    ASSUME once' = once, NEW S \in SUBSET Cids,
           \A c \in S : row'[c].status = "discovered",
           \A c \in Cids \ S : row'[c].status = row[c].status
    PROVE  ServiceStep
<1>1. Pending' = Pending \cup S /\ Done' = Done \ S
  BY DEF Pending, Done
<1>2. Service!Ask(S)
  BY <1>1 DEF Service!Ask, Done
<1> QED BY <1>2 DEF ServiceStep, Service!Next

\* A row is settled: labelled when the club knows a label, given up otherwise.
LEMMA SettleStep ==
    ASSUME once' = once, NEW c \in Cids,
           \A d \in Cids \ {c} : row'[d] = row[d],
           \/ row'[c].status = "indexed" /\ c \in once
           \/ row'[c].status \in {"none", "skipped"}
    PROVE  ServiceStep
<1>1. CASE row'[c].status = "indexed" /\ c \in once
  <2>1. Pending' = Pending \ {c} /\ Done' = Done \cup {c}
    BY <1>1 DEF Pending, Done
  <2>2. Service!Label(c)
    BY <1>1, <2>1 DEF Service!Label, Done
  <2> QED BY <2>2 DEF ServiceStep, Service!Next
<1>2. CASE row'[c].status \in {"none", "skipped"}
  <2>1. Pending' = Pending \ {c} /\ Done' = Done \ {c}
    BY <1>2 DEF Pending, Done
  <2>2. Service!GiveUp(c)
    BY <2>1 DEF Service!GiveUp, Done
  <2> QED BY <2>2 DEF ServiceStep, Service!Next
<1> QED BY <1>1, <1>2

\* A step of process_one knows a label, settles a row, puts it back, or is no
\* step of the service.
LEMMA WorkerRefines ==
    ASSUME IInv, NEW w \in Workers, Work(w) \/ Serve(w) \/ Fails(w)
    PROVE  ServiceStep
<1>0. /\ Fits /\ LabelsKnown
      /\ row \in [Cids -> [status : Statuses, error : Errors]]
      /\ pc \in [Workers -> Local]
  BY DEF IInv, Fits, TypeOK
<1>1. ASSUME NEW c \in Cids, TakeBatch(w, c) PROVE ServiceStep
  <2>1. row[c].status = "discovered" /\ row' = [row EXCEPT ![c].status = "processing"] /\ once' = once
    BY <1>1 DEF TakeBatch, world, history
  <2>2. \A d \in Cids : row'[d].status = IF d = c THEN "processing" ELSE row[d].status
    BY <1>0, <2>1
  <2> QED BY <2>1, <2>2, QuietStep
<1>2. ASSUME NEW l \in Local, GoesOn(w, l) PROVE ServiceStep
  <2>1. row' = row /\ once' = once
    BY <1>2 DEF GoesOn
  <2> QED BY <2>1, QuietStep
<1>3. ASSUME Leaves(w) PROVE ServiceStep
  <2>1. pc[w].cid \in Cids
    BY <1>0, <1>3, BusyWorker DEF Leaves
  <2>2. PICK c \in Cids : c = pc[w].cid
    BY <2>1
  <2>3. /\ \A d \in Cids \ {c} : row'[d] = row[d]
        /\ once' = once
        /\ \/ row'[c] = row[c]
           \/ row'[c].status = "discovered"
           \/ row'[c].status \in {"none", "skipped"}
    BY <1>3, <2>2 DEF Leaves, NoRow, Row
  <2>4. CASE row'[c] = row[c]
    BY <2>3, <2>4, QuietStep
  <2>5. CASE row'[c].status = "discovered"
    <3>1. {c} \in SUBSET Cids
      OBVIOUS
    <3> QED BY <2>3, <2>5, <3>1, AskStep
  <2>6. CASE row'[c].status \in {"none", "skipped"}
    BY <2>3, <2>6, SettleStep
  <2> QED BY <2>3, <2>4, <2>5, <2>6
<1>4. CASE Publish(w) \/ PublishFailed(w) \/ Broadcast(w) \/ ServedBy(w)
  <2>1. row' = row /\ once' = once
    BY <1>0, <1>4, BroadcastFits, ServedFits DEF Publish, PublishFailed, history
  <2> QED BY <2>1, QuietStep
<1>8. CASE AppendLine(w)
  <2>1. /\ Line(w) \in Own /\ row' = row
        /\ once' = IF post[w].kind = "skip" THEN once ELSE once \cup {post[w].cid}
    BY <1>0, <1>8, AppendFits
  <2>2. PICK c \in Cids : c = post[w].cid
    BY <2>1 DEF Line, Own
  <2>3. CASE once' = once
    BY <2>1, <2>3, QuietStep
  <2>4. CASE once' = once \cup {c}
    BY <2>1, <2>4, KnowStep
  <2> QED BY <2>1, <2>2, <2>3, <2>4
<1>5. CASE Mark(w)
  <2>1. /\ pc[w].at = "mark" /\ pc[w].cid \in Cids /\ pc[w].end \in Ends /\ UNCHANGED world
    BY <1>0, <1>5, MarkFits
  <2>2. PICK c \in Cids : c = pc[w].cid
    BY <2>1
  <2>3. /\ \A d \in Cids \ {c} : row'[d] = row[d]
        /\ \/ row'[c] = row[c]
           \/ row'[c].status = pc[w].end.status
    BY <1>0, <1>5, <2>2, MarkFits
  <2>4. pc[w].end.status \in {"discovered", "indexed", "skipped"}
    BY <2>1 DEF Ends, Indexed, Scoped, Row
  <2>5. pc[w].end.status = "indexed" => c \in once
    BY <1>0, <2>1, <2>2 DEF LabelsKnown, Told
  <2>6. once' = once
    BY <2>1 DEF world, history
  <2>7. CASE row'[c] = row[c]
    BY <2>3, <2>6, <2>7, QuietStep
  <2>8. CASE row'[c].status = "discovered"
    <3>1. {c} \in SUBSET Cids
      OBVIOUS
    <3> QED BY <2>3, <2>6, <2>8, <3>1, AskStep
  <2>9. CASE row'[c].status = pc[w].end.status /\ pc[w].end.status # "discovered"
    BY <2>3, <2>4, <2>5, <2>6, <2>9, SettleStep
  <2> QED BY <2>3, <2>7, <2>8, <2>9
<1>6. CASE GoesOnBy(w)
  BY <1>0, <1>2, <1>6, WorkerGoesOn
<1>7. CASE \/ FetchFailed(w) \/ Unusable(w) \/ ModelDown(w) \/ ChatFailed(w)
           \/ PublishRefused(w) \/ WorkerError(w)
  BY <1>0, <1>3, <1>7, WorkerLeaves, Zenon
<1> QED BY <1>1, <1>4, <1>5, <1>6, <1>7, <1>8, WorkerSteps

\* Every step of the node is a step of the service or a stutter.
LEMMA NextRefines ==
    ASSUME IInv, [Next]_vars
    PROVE  ServiceStep
<1>0. /\ Fits /\ row \in [Cids -> [status : Statuses, error : Errors]] /\ inbox \in Seq(Own)
  BY DEF IInv, Fits, TypeOK
<1>1. ASSUME row' = row, NEW p, NEW kind, NEW c \in Cids, Stored(p, kind, c) PROVE ServiceStep
  <2>1. once' = once \/ once' = once \cup {c}
    BY <1>1 DEF Stored
  <2>2. CASE once' = once
    BY <1>1, <2>2, QuietStep
  <2>3. CASE once' = once \cup {c}
    BY <1>1, <2>3, KnowStep
  <2> QED BY <2>1, <2>2, <2>3
<1>2. CASE DrainOwn
  <2>1. inbox # <<>> /\ Stored(Self, Head(inbox).kind, Head(inbox).cid) /\ row' = row
    BY <1>2 DEF DrainOwn
  <2>2. Head(inbox) \in Own
    BY <1>0, <2>1, HeadTailProperties
  <2>3. PICK c \in Cids, kind \in {"llm", "reuse", "skip"} : c = Head(inbox).cid /\ kind = Head(inbox).kind
    BY <2>2 DEF Own
  <2> QED BY <1>1, <2>1, <2>3
<1>3. ASSUME NEW m \in Heard, DrainForeign(m) PROVE ServiceStep
  <2>1. Stored(m.by, m.kind, m.cid) /\ row' = row /\ m.cid \in Cids
    BY <1>3, HeardType DEF DrainForeign
  <2> QED BY <1>1, <2>1
<1>4. CASE \/ \E m \in Heard : DrainWrong(m)
           \/ \E p \in Peers : ExpireRow(p) \/ Blacklist(p)
           \/ ClubdStop \/ ClubdStart \/ Crash \/ UNCHANGED vars
  <2>1. row' = row /\ once' = once
    BY <1>4 DEF DrainWrong, ExpireRow, Blacklist, ClubdStop, ClubdStart, Crash, vars, world, history
  <2> QED BY <2>1, QuietStep
<1>5. CASE EnqueueReview
  <2>1. once' = once
    BY <1>5 DEF EnqueueReview
  <2>2. PICK c \in Cids : c = drain.cid
    BY <1>0, <1>5, ReviewFits
  <2>3. row' = row \/ row' = [row EXCEPT ![c] = Row("discovered", "none")]
    BY <1>0, <1>5, <2>2, ReviewFits
  <2>4. CASE row' = row
    BY <2>1, <2>4, QuietStep
  <2>5. CASE row' = [row EXCEPT ![c] = Row("discovered", "none")]
    <3>1. {c} \in SUBSET Cids /\ row'[c].status = "discovered" /\ \A d \in Cids \ {c} : row'[d] = row[d]
      BY <1>0, <2>5 DEF Row
    <3> QED BY <2>1, <3>1, AskStep
  <2> QED BY <2>3, <2>4, <2>5
<1>6. ASSUME NEW c \in Cids, Want(c) PROVE ServiceStep
  <2>1. row' = [row EXCEPT ![c] = Row("discovered", "none")] /\ once' = once
    BY <1>6 DEF Want, world, history
  <2>2. {c} \in SUBSET Cids /\ row'[c].status = "discovered" /\ \A d \in Cids \ {c} : row'[d] = row[d]
    BY <1>0, <2>1 DEF Row
  <2> QED BY <2>1, <2>2, AskStep
<1>7. CASE Start
  <2>1. PICK S \in SUBSET Cids : S = {c \in Cids : row'[c].status = "discovered"}
    OBVIOUS
  <2>2. once' = once
    BY <1>7 DEF Start
  <2>3. \A c \in Cids \ S : row'[c].status = row[c].status
    BY <1>0, <1>7, <2>1, StartRows
  <2>4. \A c \in S : row'[c].status = "discovered"
    BY <2>1
  <2> QED BY <2>2, <2>3, <2>4, AskStep
<1>8. ASSUME NEW w \in Workers, Work(w) \/ Serve(w) \/ Fails(w) PROVE ServiceStep
  BY <1>8, WorkerRefines
<1> QED BY <1>2, <1>3, <1>4, <1>5, <1>6, <1>7, <1>8, Zenon DEF Next

\* A node keeps the safety half of what LabelService promises: a cid counts as
\* labelled only once the club has had a label for it, through retries, lost
\* answers of clubd, reviews, blacklisting and restarts.
THEOREM ImplementsService == Spec => Service!Safety
<1>1. Init => Service!Init
  BY DEF Init, Service!Init, Pending, Row, NoRow
<1>2. IInv /\ [Next]_vars => [Service!Next]_(Service!vars)
  BY NextRefines DEF ServiceStep
<1> QED BY <1>1, <1>2, InductiveInvariant, PTL DEF Spec, Service!Safety
=============================================================================
