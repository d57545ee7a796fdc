---------------------------- MODULE ClubdProofs ----------------------------
(***************************************************************************)
(* Proofs about Clubd, for every choice of its constants: any number of    *)
(* publishers, payloads, snapshot pullers and publish requests, any        *)
(* limits, any outcome of disk and gossip, any number of restarts.         *)
(***************************************************************************)
EXTENDS Clubd, TLAPS, FiniteSetTheorems, SequenceTheorems, WellFoundedInduction

-----------------------------------------------------------------------------
(***************************************************************************)
(* The inductive invariants.                                               *)
(***************************************************************************)
Stage(g) == pc[g].stage
Stages == {"allow", "policy", "record", "append", "broadcast"}

\* Who is where in acceptGossip and handlePublish.
StagesFit ==
    /\ clock >= 1 /\ booted <= Len(inbox)
    /\ \A g \in Goroutines :
         /\ Stage(g) \in {"record", "broadcast"} => g \in Requests
         /\ Stage(g) = "allow" => g \in Kinds
         /\ pc[g] = Lines => g \in Peers
         /\ \A m \in Universe : Stage(g) = "broadcast" /\ pc[g].msg = m => Appended(m)

\* The payloads of others on their way to the inbox are known to the limiter,
\* and none is on its way twice, or there already.
Foreign(g) == g \notin Requests /\ pc[g] \in Busy
OnceOnly ==
    /\ \A g \in Goroutines : Foreign(g) => pc[g].msg \in Hashed
    /\ \A g, h \in Goroutines : Foreign(g) /\ Foreign(h) /\ g # h => pc[g].msg # pc[h].msg
    /\ \A i \in Since : inbox[i].by \notin Requests =>
         /\ inbox[i].msg \in Hashed
         /\ \A g \in Goroutines : Foreign(g) => pc[g].msg # inbox[i].msg
    /\ \A i, j \in Since : i # j /\ inbox[i].msg = inbox[j].msg =>
         inbox[i].by \in Requests \/ inbox[j].by \in Requests

\* Each hit of a publisher, and each consumer about to add one, is for another
\* payload of it.
AtLimiter(p) == {g \in Kinds : Stage(g) = "allow" /\ pc[g].msg.publisher = p}
HashedOf(p) == {m \in Hashed : m.publisher = p}
HitsPaid == \A p \in Publishers : Len(hits[p]) + Cardinality(AtLimiter(p)) <= Cardinality(HashedOf(p))

\* The limiter keeps times in order and at most MaxPerWindow of them.
HitsOrdered ==
    \A p \in Publishers :
        /\ Len(hits[p]) <= MaxPerWindow
        /\ \A i \in DOMAIN hits[p] : hits[p][i] <= clock
        /\ \A i, j \in DOMAIN hits[p] : i <= j => hits[p][i] <= hits[p][j]

\* The gossip of p that passed the limiter after lo and not after hi, in the
\* inbox and on its way.
LinesIn(p, lo, hi) == {i \in Since : /\ inbox[i].by \in Kinds /\ inbox[i].msg.publisher = p
                                     /\ inbox[i].at > lo /\ inbox[i].at <= hi}
PassedIn(p, lo, hi) == {g \in Kinds : /\ Stage(g) \in {"policy", "append"} /\ pc[g].msg.publisher = p
                                      /\ pc[g].at > lo /\ pc[g].at <= hi}
Gossip(p, lo, hi) == Cardinality(LinesIn(p, lo, hi)) + Cardinality(PassedIn(p, lo, hi))

\* What passed within the window is among the hits that are left when those up
\* to a time s are dropped.
HitsCover ==
    /\ \A i \in DOMAIN inbox : inbox[i].by \in Kinds => inbox[i].at <= clock
    /\ \A g \in Kinds : Stage(g) \in {"policy", "append"} => pc[g].at <= clock
    /\ \A p \in Publishers, s \in Int, hi \in Nat : s >= clock - Window =>
         \A k \in 0 .. Len(hits[p]) :
           (\A i \in 1 .. k : hits[p][i] <= s) => Gossip(p, s, hi) <= Len(hits[p]) - k

\* RateBound, with what is on its way.
RateKept ==
    \A p \in Publishers, t \in Nat : Gossip(p, t - Window, t) <= MaxPerWindow

IInv == TypeOK /\ StagesFit /\ HashBound /\ AppendFirst /\ HitsOrdered
RateInv == HitsCover /\ RateKept

-----------------------------------------------------------------------------
(***************************************************************************)
(* Facts about the operators.                                              *)
(***************************************************************************)
\* A non-empty set of naturals has a least element.
LEMMA LeastNatural ==
    ASSUME NEW S \in SUBSET Nat, S # {}
    PROVE  \E x \in S : \A y \in S : x <= y
<1>1. \E x \in S : \A y \in S : ~ (<<y, x>> \in OpToRel(<, Nat))
  BY WFMin, NatLessThanWellFounded
<1>2. OpToRel(<, Nat) = {ss \in Nat \X Nat : ss[1] < ss[2]}
  BY Zenon DEF OpToRel
<1>3. \A x, y \in S : ~ (<<y, x>> \in {ss \in Nat \X Nat : ss[1] < ss[2]}) => x <= y
  OBVIOUS
<1> QED BY <1>1, <1>2, <1>3, Zenon

\* In a list of times in order, what lies at or before a cutoff is a prefix.
LEMMA StalePrefix ==
    ASSUME NEW s \in Seq(Nat), NEW cutoff \in Int,
           \A i, j \in DOMAIN s : i <= j => s[i] <= s[j]
    PROVE  \E k \in 0 .. Len(s) : \A i \in DOMAIN s : s[i] > cutoff <=> i > k
<1> DEFINE F == {k \in 0 .. Len(s) : \A i \in DOMAIN s : i > k => s[i] > cutoff}
<1>1. Len(s) \in Nat /\ DOMAIN s = 1 .. Len(s) /\ \A i \in DOMAIN s : s[i] \in Nat
  BY LenProperties, ElementOfSeq
<1>2. F \in SUBSET Nat /\ Len(s) \in F
  BY <1>1
<1>3. PICK k \in F : \A j \in F : k <= j
  BY <1>2, LeastNatural
<1>4. ASSUME NEW i \in DOMAIN s, i <= k PROVE s[i] <= cutoff
  <2>1. k \in 1 .. Len(s) /\ k \in DOMAIN s
    BY <1>1, <1>3, <1>4
  <2>2. k - 1 \notin F
    BY <1>1, <1>3, <2>1
  <2>3. PICK j \in DOMAIN s : j > k - 1 /\ ~(s[j] > cutoff)
    BY <1>1, <2>1, <2>2
  <2>4. j = k
    BY <1>1, <1>3, <2>1, <2>3
  <2>5. s[i] <= s[k]
    BY <1>4, <2>1
  <2> QED BY <1>1, <2>1, <2>3, <2>4, <2>5
<1>5. \A i \in DOMAIN s : s[i] > cutoff <=> i > k
  BY <1>1, <1>3, <1>4
<1> QED BY <1>3, <1>5

\* InWindow drops the n oldest hits, which are those outside the window.
LEMMA WindowSpec ==
    ASSUME TypeOK, HitsOrdered, NEW p \in Publishers
    PROVE  \E n \in 0 .. Len(hits[p]) :
             /\ InWindow(p) \in Seq(Nat) /\ Len(InWindow(p)) = Len(hits[p]) - n
             /\ \A i \in 1 .. Len(hits[p]) - n : InWindow(p)[i] = hits[p][n + i]
             /\ \A i \in 1 .. n : hits[p][i] <= clock - Window
<1> DEFINE s == hits[p]
           cutoff == clock - Window
           Cut(k) == \A i \in DOMAIN s : s[i] > cutoff <=> i > k
           n == CHOOSE k \in 0 .. Len(s) : Cut(k)
<1>1. s \in Seq(Nat) /\ cutoff \in Int /\ \A i, j \in DOMAIN s : i <= j => s[i] <= s[j]
  BY ClubdAssumption DEF TypeOK, HitsOrdered
<1>2. Len(s) \in Nat /\ DOMAIN s = 1 .. Len(s) /\ \A i \in DOMAIN s : s[i] \in Nat
  BY <1>1, LenProperties, ElementOfSeq
<1> HIDE DEF s, cutoff
<1>3. \E k \in 0 .. Len(s) : Cut(k)
  BY <1>1, StalePrefix
<1>4. n \in 0 .. Len(s) /\ Cut(n)
  BY <1>3
<1> HIDE DEF Cut
<1>5. InWindow(p) = SubSeq(s, n + 1, Len(s))
  BY DEF InWindow, s, cutoff, Cut
<1> HIDE DEF n
<1>6. \A i \in n + 1 .. Len(s) : s[i] \in Nat
  BY <1>2, <1>4
<1>7. /\ SubSeq(s, n + 1, Len(s)) \in Seq(Nat)
      /\ Len(SubSeq(s, n + 1, Len(s))) = IF n + 1 <= Len(s) THEN Len(s) - (n + 1) + 1 ELSE 0
      /\ \A i \in 1 .. Len(s) - (n + 1) + 1 : SubSeq(s, n + 1, Len(s))[i] = s[n + 1 + i - 1]
  BY <1>2, <1>4, <1>6, SubSeqProperties
<1>8. \A i \in 1 .. n : s[i] <= cutoff
  BY <1>1, <1>2, <1>4, SMTT(40) DEF Cut
<1>9. Len(InWindow(p)) = Len(s) - n
  <2>1. CASE n + 1 <= Len(s)
    BY <1>2, <1>4, <1>5, <1>7, <2>1
  <2>2. CASE ~(n + 1 <= Len(s))
    <3>1. \A a, b : b \in Nat /\ a \in 0 .. b /\ ~(a + 1 <= b) => a \in Nat /\ a = b
      OBVIOUS
    <3>3. n \in Nat /\ n = Len(s)
      BY <1>2, <1>4, <2>2, <3>1, Zenon
    <3>2. Len(InWindow(p)) = 0
      BY <1>5, <1>7, <2>2
    <3> QED BY <1>2, <3>2, <3>3
  <2> QED BY <2>1, <2>2
<1>10. ASSUME NEW i \in 1 .. Len(s) - n PROVE InWindow(p)[i] = s[n + i]
  <2>1. i \in 1 .. Len(s) - (n + 1) + 1 /\ n + 1 + i - 1 = n + i
    BY <1>2, <1>4
  <2>2. InWindow(p)[i] = s[n + 1 + i - 1]
    BY <1>5, <1>7, <2>1
  <2> QED BY <2>1, <2>2
<1> QED BY <1>4, <1>5, <1>7, <1>8, <1>9, <1>10 DEF s, cutoff

\* The fields of a payload.
LEMMA PayloadFields ==
    ASSUME NEW m \in Universe
    PROVE  m.kind \in Kinds /\ m.publisher \in Publishers /\ m.cid \in Cids /\ m.until \in Nat
BY ClubdAssumption DEF Payload

\* The names of the goroutines are apart.
LEMMA Names ==
    /\ \A g \in Goroutines : g \in Kinds => g \notin Peers /\ g \notin Requests
    /\ \A g \in Goroutines : g \in Peers => g \notin Requests
BY ClubdAssumption DEF Goroutines

\* A goroutine that is not idle or between two lines has a payload in hand.
LEMMA BusyFields ==
    ASSUME TypeOK, NEW g \in Goroutines, Stage(g) \notin {"idle", "lines"} \/ pc[g] \in Busy
    PROVE  /\ pc[g] \in Busy /\ pc[g].msg \in Universe /\ pc[g].at \in Nat
           /\ Stage(g) \in Stages
<1>1. pc[g] \in Busy
  BY DEF TypeOK, Idle, Lines, Stage
<1> QED BY <1>1 DEF Busy, Stage, Stages

\* The two resting points are no stages of acceptGossip or handlePublish.
LEMMA RestFields ==
    ASSUME NEW g \in Goroutines
    PROVE  /\ Idle \notin Busy /\ Lines \notin Busy /\ Idle # Lines
           /\ Rest(g) \in {Idle, Lines}
           /\ Rest(g) = Lines => g \in Peers
           /\ Rest(g).stage \in {"idle", "lines"}
<1>1. Idle.stage = "idle" /\ Lines.stage = "lines"
  BY DEF Idle, Lines
<1>2. \A b \in Busy : b.stage \in Stages
  BY DEF Busy, Stages
<1>3. Idle \notin Busy /\ Lines \notin Busy /\ Idle # Lines
  BY <1>1, <1>2 DEF Stages
<1> QED BY <1>1, <1>3 DEF Rest

\* acceptGossip and handlePublish end for g, and no other goroutine moves.
LEMMA ReturnEffect ==
    ASSUME TypeOK, NEW g \in Goroutines, Return(g)
    PROVE  /\ pc' \in [Goroutines -> Busy \cup {Idle, Lines}]
           /\ pc'[g] = Rest(g) /\ pc'[g] \notin Busy
           /\ \A h \in Goroutines \ {g} : pc'[h] = pc[h]
BY RestFields DEF TypeOK, Return

\* g goes on to another stage with the same payload.
LEMMA GotoEffect ==
    ASSUME TypeOK, NEW g \in Goroutines, pc[g] \in Busy, NEW s \in Stages, Goto(g, s)
    PROVE  /\ pc' \in [Goroutines -> Busy \cup {Idle, Lines}]
           /\ pc'[g] \in Busy
           /\ pc'[g].stage = s /\ pc'[g].msg = pc[g].msg /\ pc'[g].at = pc[g].at
           /\ \A h \in Goroutines \ {g} : pc'[h] = pc[h]
<1>1. pc'[g] = [pc[g] EXCEPT !.stage = s] /\ \A h \in Goroutines \ {g} : pc'[h] = pc[h]
  BY DEF TypeOK, Goto
<1>2. pc'[g] \in Busy /\ pc'[g].stage = s /\ pc'[g].msg = pc[g].msg /\ pc'[g].at = pc[g].at
  BY <1>1 DEF Busy, Stages
<1>3. pc' \in [Goroutines -> Busy \cup {Idle, Lines}]
  BY <1>1, <1>2 DEF TypeOK, Goto
<1> QED BY <1>1, <1>2, <1>3

\* g gets a payload m in hand.
LEMMA TakeEffect ==
    ASSUME TypeOK, NEW g \in Goroutines, NEW s \in Stages, NEW m \in Universe, NEW t \in Nat,
           pc' = [pc EXCEPT ![g] = [stage |-> s, msg |-> m, at |-> t]]
    PROVE  /\ pc' \in [Goroutines -> Busy \cup {Idle, Lines}]
           /\ pc'[g] \in Busy
           /\ pc'[g].stage = s /\ pc'[g].msg = m /\ pc'[g].at = t
           /\ \A h \in Goroutines \ {g} : pc'[h] = pc[h]
<1>1. [stage |-> s, msg |-> m, at |-> t] \in Busy
  BY DEF Busy, Stages
<1>2. pc'[g] = [stage |-> s, msg |-> m, at |-> t]
  BY DEF TypeOK
<1>3. pc' \in [Goroutines -> Busy \cup {Idle, Lines}] /\ \A h \in Goroutines \ {g} : pc'[h] = pc[h]
  BY <1>1 DEF TypeOK
<1> QED BY <1>1, <1>2, <1>3

\* What a full table keeps leaves room for one more payload.
LEMMA Remembers ==
    ASSUME TypeOK, HashBound, clock >= 1, NEW m \in Universe, hashes' = Remembered(m)
    PROVE  /\ hashes' \in [Universe -> Nat]
           /\ m \in Hashed' /\ Hashed' \subseteq Hashed \cup {m}
           /\ Cardinality(Hashed') <= HashCap
<1>1. hashes \in [Universe -> Nat] /\ clock \in Nat /\ IsFiniteSet(Universe) /\ HashCap \in Nat \ {0}
  BY ClubdAssumption DEF TypeOK
<1>2. CASE m \in Hashed
  <2>1. hashes' = hashes
    BY <1>2 DEF Remembered
  <2>2. Hashed' = Hashed
    BY <2>1 DEF Hashed
  <2> QED BY <1>1, <1>2, <2>1, <2>2 DEF HashBound
<1>3. CASE m \notin Hashed
  <2>1. hashes' = [n \in Universe |-> CASE n = m -> clock
                                        [] n # m /\ n \in Evicted -> hashes[n]
                                        [] OTHER -> 0]
    BY <1>3 DEF Remembered
  <2>2. Evicted \subseteq Hashed
    BY DEF Evicted, Fresh
  <2>3. \A n \in Universe : hashes'[n] = IF n = m THEN clock ELSE IF n \in Evicted THEN hashes[n] ELSE 0
    BY <2>1
  <2>4. hashes' \in [Universe -> Nat]
    BY <1>1, <2>1
  <2>5. Hashed' = Evicted \cup {m}
    BY <1>1, <2>2, <2>3 DEF Hashed
  <2>6. IsFiniteSet(Evicted) /\ Cardinality(Evicted) \in Nat
    BY <1>1, <2>2, FS_Subset, FS_CardinalityType DEF Hashed
  <2>7. Cardinality(Evicted) < HashCap
    <3>1. CASE Cardinality(Hashed) < HashCap
      BY <3>1 DEF Evicted
    <3>2. CASE Cardinality(Hashed) >= HashCap /\ Cardinality(Fresh) < HashCap
      <4>1. ~(Cardinality(Hashed) < HashCap)
        <5>1. Cardinality(Hashed) \in Nat
          BY <1>1, FS_Subset, FS_CardinalityType DEF Hashed
        <5> QED BY <1>1, <3>2, <5>1
      <4> QED BY <3>2, <4>1 DEF Evicted
    <3>3. CASE ~(Cardinality(Hashed) < HashCap) /\ ~(Cardinality(Hashed) >= HashCap /\ Cardinality(Fresh) < HashCap)
      <4>1. Evicted = {}
        BY <3>3 DEF Evicted
      <4> QED BY <1>1, <4>1, FS_EmptySet
    <3>4. Cardinality(Hashed) < HashCap \/ Cardinality(Hashed) >= HashCap
      <4>1. Cardinality(Hashed) \in Nat
        BY <1>1, FS_Subset, FS_CardinalityType DEF Hashed
      <4> QED BY <1>1, <4>1
    <3> QED BY <3>1, <3>2, <3>3, <3>4
  <2>8. m \notin Evicted
    BY <1>3, <2>2
  <2>9. Cardinality(Hashed') = Cardinality(Evicted) + 1
    BY <2>5, <2>6, <2>8, FS_AddElement
  <2> QED BY <1>1, <2>2, <2>4, <2>5, <2>6, <2>7, <2>9
<1> QED BY <1>2, <1>3

\* As long as everything fits, the table forgets nothing.
LEMMA NothingEvicted ==
    ASSUME NoEviction, NEW m \in Universe, hashes' = Remembered(m), TypeOK, clock >= 1
    PROVE  /\ Hashed' = Hashed \cup {m}
           /\ \A n \in Hashed : hashes'[n] = hashes[n]
<1>1. hashes \in [Universe -> Nat] /\ clock \in Nat /\ IsFiniteSet(Universe) /\ HashCap \in Nat \ {0}
  BY ClubdAssumption DEF TypeOK
<1>2. CASE m \in Hashed
  BY <1>2 DEF Remembered, Hashed
<1>3. CASE m \notin Hashed
  <2>1. Hashed \in SUBSET Universe /\ Hashed # Universe
    BY <1>3 DEF Hashed
  <2>2. Cardinality(Hashed) <= Cardinality(Universe) /\ Cardinality(Hashed) # Cardinality(Universe)
    BY <1>1, <2>1, FS_Subset
  <2>3. Cardinality(Hashed) \in Nat /\ Cardinality(Universe) \in Nat
    BY <1>1, <2>1, FS_Subset, FS_CardinalityType
  <2>4. Cardinality(Hashed) < HashCap /\ ~(Cardinality(Hashed) >= HashCap)
    BY <1>1, <2>2, <2>3 DEF NoEviction
  <2>5. Evicted = Hashed
    BY <2>4 DEF Evicted
  <2>6. hashes' = [n \in Universe |-> CASE n = m -> clock
                                        [] n # m /\ n \in Hashed -> hashes[n]
                                        [] OTHER -> 0]
    BY <1>3, <2>5 DEF Remembered
  <2>7. \A n \in Universe : hashes'[n] = IF n = m THEN clock ELSE IF n \in Hashed THEN hashes[n] ELSE 0
    BY <2>6
  <2> QED BY <1>1, <1>3, <2>7 DEF Hashed
<1> QED BY <1>2, <1>3

-----------------------------------------------------------------------------
(***************************************************************************)
(* The invariant IInv: types, stages, the caps and the order of the hits,  *)
(* and the line before the broadcast.                                      *)
(***************************************************************************)
\* The inbox only grows: what was in it since clubd started stays in it.
LEMMA InboxGrows ==
    ASSUME TypeOK, StagesFit, booted' = booted, NEW l \in Line, inbox' = Append(inbox, l)
    PROVE  /\ inbox' \in Seq(Line) /\ Len(inbox') = Len(inbox) + 1
           /\ \A i \in DOMAIN inbox : i \in DOMAIN inbox' /\ inbox'[i] = inbox[i]
           /\ inbox'[Len(inbox) + 1] = l
           /\ Since \subseteq DOMAIN inbox /\ Since' = Since \cup {Len(inbox) + 1}
           /\ Len(inbox) + 1 \notin Since
           /\ \A m : Appended(m) => Appended(m)'
           /\ Appended(l.msg)'
<1>1. inbox \in Seq(Line) /\ Len(inbox) \in Nat /\ booted \in Nat /\ booted <= Len(inbox)
  BY LenProperties DEF TypeOK, StagesFit
<1>2. inbox' \in Seq(Line) /\ Len(inbox') = Len(inbox) + 1
  BY <1>1, AppendProperties
<1>3. DOMAIN inbox = 1 .. Len(inbox) /\ DOMAIN inbox' = 1 .. Len(inbox) + 1
  BY <1>1, <1>2, LenProperties
<1>4. \A i \in 1 .. Len(inbox) : inbox'[i] = inbox[i]
  BY <1>1, AppendProperties
<1>5. inbox'[Len(inbox) + 1] = l
  BY <1>1, AppendProperties
<1>6. Since \subseteq 1 .. Len(inbox) /\ Len(inbox) + 1 \notin Since
  BY <1>1 DEF Since
<1>7. Since' = Since \cup {Len(inbox) + 1}
  BY <1>1, <1>2 DEF Since
<1>8. ASSUME NEW m, Appended(m) PROVE Appended(m)'
  BY <1>4, <1>6, <1>7, <1>8 DEF Appended
<1>9. Appended(l.msg)'
  BY <1>5, <1>7 DEF Appended
<1> QED BY <1>1, <1>2, <1>3, <1>4, <1>5, <1>6, <1>7, <1>8, <1>9

\* Stages stay in place when one goroutine moves to a place that fits it.
LEMMA StagesStep ==
    ASSUME TypeOK, StagesFit, UNCHANGED <<clock, booted>>, NEW g \in Goroutines,
           inbox' = inbox \/ \E l \in Line : inbox' = Append(inbox, l),
           \A h \in Goroutines \ {g} : pc'[h] = pc[h],
           pc'[g].stage \in {"record", "broadcast"} => g \in Requests,
           pc'[g].stage = "allow" => g \in Kinds,
           pc'[g] = Lines => g \in Peers,
           \A m \in Universe : pc'[g].stage = "broadcast" /\ pc'[g].msg = m => Appended(m)'
    PROVE  StagesFit'
<1>1. \A m : Appended(m) => Appended(m)'
  <2>1. CASE inbox' = inbox
    BY <2>1 DEF Appended, Since
  <2>2. CASE \E l \in Line : inbox' = Append(inbox, l)
    BY <2>2, InboxGrows
  <2> QED BY <2>1, <2>2
<1>2. Len(inbox) \in Nat /\ booted \in Nat /\ (inbox' = inbox \/ Len(inbox') = Len(inbox) + 1)
  BY InboxGrows, LenProperties DEF TypeOK
<1>3. clock' >= 1 /\ booted' <= Len(inbox')
  BY <1>2 DEF StagesFit
<1>4. ASSUME NEW h \in Goroutines
      PROVE  /\ pc'[h].stage \in {"record", "broadcast"} => h \in Requests
             /\ pc'[h].stage = "allow" => h \in Kinds
             /\ pc'[h] = Lines => h \in Peers
             /\ \A m \in Universe : pc'[h].stage = "broadcast" /\ pc'[h].msg = m => Appended(m)'
  <2>1. CASE h = g
    BY <2>1
  <2>2. CASE h # g
    <3>1. pc'[h] = pc[h]
      BY <2>2
    <3>2. \A m \in Universe : pc[h].stage = "broadcast" /\ pc[h].msg = m => Appended(m)'
      BY <1>1 DEF StagesFit, Stage
    <3>3. /\ pc[h].stage \in {"record", "broadcast"} => h \in Requests
          /\ pc[h].stage = "allow" => h \in Kinds
          /\ pc[h] = Lines => h \in Peers
      BY DEF StagesFit, Stage
    <3> QED BY <3>1, <3>2, <3>3, Zenon
  <2> QED BY <2>1, <2>2, Zenon
<1> QED BY <1>3, <1>4 DEF StagesFit, Stage

\* applyClaimPolicy keeps one slot per publisher, or none.
LEMMA PolicyFits ==
    ASSUME TypeOK, NEW m \in Universe, applyClaimPolicy(m)
    PROVE  live' \in [Publishers -> [cid : Cids, until : Nat] \cup {None}]
<1>1. Slot(m) \in [cid : Cids, until : Nat] /\ m.publisher \in Publishers
  BY PayloadFields DEF Slot
<1>2. [live EXCEPT ![m.publisher] = Slot(m)] \in [Publishers -> [cid : Cids, until : Nat] \cup {None}]
  BY <1>1 DEF TypeOK
<1>3. Cleared(m) \in [Publishers -> [cid : Cids, until : Nat] \cup {None}]
  BY <1>1 DEF TypeOK, Cleared
<1>4. live \in [Publishers -> [cid : Cids, until : Nat] \cup {None}]
  BY DEF TypeOK
<1>5. live' \in {[live EXCEPT ![m.publisher] = Slot(m)], Cleared(m), live}
  <2>1. CASE m.kind = "claim" /\ ~Refused(m)
    BY <2>1 DEF applyClaimPolicy
  <2>2. CASE m.kind \in {"classify", "skip"}
    BY <2>2 DEF applyClaimPolicy
  <2>3. CASE ~(m.kind = "claim" /\ ~Refused(m)) /\ m.kind \notin {"classify", "skip"}
    BY <2>3 DEF applyClaimPolicy
  <2> QED BY <2>1, <2>2, <2>3
<1> QED BY <1>2, <1>3, <1>4, <1>5

\* What an action leaves alone stays true.
LEMMA Untouched ==
    /\ HitsOrdered /\ UNCHANGED <<clock, hits>> => HitsOrdered'
    /\ AppendFirst /\ UNCHANGED <<sent, inbox>> => AppendFirst'
    /\ HashBound /\ UNCHANGED hashes => HashBound'
BY DEF HitsOrdered, AppendFirst, HashBound, Hashed

\* acceptGossip: the limiter's table stays within its cap, and what is new goes
\* to the rate limiter or, from a snapshot, to the claim policy.
LEMMA AcceptKeeps ==
    ASSUME IInv, NEW g \in Goroutines, NEW m \in Universe, acceptGossip(g, m)
    PROVE  IInv'
<1> USE DEF IInv
<1>1. /\ hashes' = Remembered(m)
      /\ UNCHANGED <<clock, restarts, hits, live, pulledAt, inbox, booted, sent>>
      /\ Takes(g, m)
  BY DEF acceptGossip
<1>2. hashes' \in [Universe -> Nat] /\ Cardinality(Hashed') <= HashCap
  BY <1>1, Remembers DEF StagesFit
<1>3. HitsOrdered' /\ AppendFirst' /\ HashBound'
  BY <1>1, <1>2, Untouched DEF HashBound
<1>4. CASE pc' = pc
  <2>1. StagesFit'
    BY <1>1, <1>4 DEF StagesFit, Stage, Appended, Since
  <2>2. TypeOK'
    BY <1>1, <1>2, <1>4 DEF TypeOK
  <2> QED BY <1>3, <2>1, <2>2
<1>5. CASE Admit(g, m)
  <2> DEFINE s == IF g \in Kinds THEN "allow" ELSE "policy"
  <2>1. s \in Stages
    BY DEF Stages
  <2>2. /\ pc' \in [Goroutines -> Busy \cup {Idle, Lines}]
        /\ pc'[g] \in Busy /\ pc'[g].stage = s
        /\ \A h \in Goroutines \ {g} : pc'[h] = pc[h]
    BY <1>5, <2>1, TakeEffect DEF Admit
  <2>3. TypeOK'
    BY <1>1, <1>2, <2>2 DEF TypeOK
  <2>4. pc'[g] # Lines
    BY <2>2, RestFields
  <2>5. StagesFit'
    BY <1>1, <2>2, <2>4, StagesStep
  <2> QED BY <1>3, <2>3, <2>5
<1> QED BY <1>4, <1>5 DEF acceptGossip

\* handlePublish: a request takes a payload, the claim policy its slot.
LEMMA PublishKeeps ==
    ASSUME IInv, NEW g \in Goroutines, NEW m \in Universe, handlePublish(g, m)
    PROVE  IInv'
<1> USE DEF IInv
<1>1. /\ g \in Requests /\ applyClaimPolicy(m)
      /\ pc' = [pc EXCEPT ![g] = [stage |-> "record", msg |-> m, at |-> 0]]
      /\ UNCHANGED <<clock, restarts, hashes, hits, pulledAt, inbox, booted, sent>>
  BY DEF handlePublish
<1>2. /\ pc' \in [Goroutines -> Busy \cup {Idle, Lines}]
      /\ pc'[g] \in Busy /\ pc'[g].stage = "record"
      /\ \A h \in Goroutines \ {g} : pc'[h] = pc[h]
  BY <1>1, TakeEffect DEF Stages
<1>3. live' \in [Publishers -> [cid : Cids, until : Nat] \cup {None}]
  BY <1>1, PolicyFits
<1>4. TypeOK'
  BY <1>1, <1>2, <1>3 DEF TypeOK
<1>5. pc'[g] # Lines
  BY <1>2, RestFields
<1>6. StagesFit'
  BY <1>1, <1>2, <1>5, StagesStep
<1> QED BY <1>1, <1>4, <1>6, Untouched

\* The hits of a publisher after a limiter call: the window's, in order, and
\* one more only below the cap.
LEMMA AllowHits ==
    ASSUME IInv, NEW p \in Publishers, NEW kept, kept = InWindow(p)
    PROVE  /\ kept \in Seq(Nat) /\ Len(kept) <= MaxPerWindow
           /\ \A i \in DOMAIN kept : kept[i] <= clock
           /\ \A i, j \in DOMAIN kept : i <= j => kept[i] <= kept[j]
<1>1. PICK n \in 0 .. Len(hits[p]) :
             /\ InWindow(p) \in Seq(Nat) /\ Len(InWindow(p)) = Len(hits[p]) - n
             /\ \A i \in 1 .. Len(hits[p]) - n : InWindow(p)[i] = hits[p][n + i]
  BY WindowSpec DEF IInv
<1>2. hits[p] \in Seq(Nat) /\ Len(hits[p]) \in Nat /\ Len(hits[p]) <= MaxPerWindow /\ MaxPerWindow \in Nat
  BY ClubdAssumption, LenProperties DEF IInv, TypeOK, HitsOrdered
<1>3. DOMAIN kept = 1 .. Len(hits[p]) - n /\ DOMAIN hits[p] = 1 .. Len(hits[p])
  BY <1>1, <1>2, LenProperties
<1>4. /\ \A i \in 1 .. Len(hits[p]) : hits[p][i] <= clock
      /\ \A i, j \in 1 .. Len(hits[p]) : i <= j => hits[p][i] <= hits[p][j]
  BY <1>3 DEF IInv, HitsOrdered
<1>5. ASSUME NEW i \in DOMAIN kept PROVE n + i \in 1 .. Len(hits[p]) /\ kept[i] = hits[p][n + i]
  <2>1. i \in 1 .. Len(hits[p]) - n
    BY <1>3
  <2>2. n + i \in 1 .. Len(hits[p])
    BY <1>2, <2>1
  <2>3. InWindow(p)[i] = hits[p][n + i]
    BY <1>1, <2>1
  <2> QED BY <2>2, <2>3
<1>6. \A i, j \in DOMAIN kept : i <= j => n + i <= n + j
  BY <1>2, <1>3
<1>7. kept \in Seq(Nat) /\ Len(kept) <= MaxPerWindow
  BY <1>1, <1>2
<1>8. \A i \in DOMAIN kept : kept[i] <= clock
  BY <1>4, <1>5
<1>9. ASSUME NEW i \in DOMAIN kept, NEW j \in DOMAIN kept, i <= j PROVE kept[i] <= kept[j]
  <2>1. hits[p][n + i] <= hits[p][n + j]
    BY <1>4, <1>5, <1>6, <1>9
  <2> QED BY <1>5, <2>1
<1> QED BY <1>7, <1>8, <1>9

\* One more hit, now, at the end of a list in order.
LEMMA OneMoreHit ==
    ASSUME NEW s \in Seq(Nat), NEW t \in Nat,
           \A i \in DOMAIN s : s[i] <= t,
           \A i, j \in DOMAIN s : i <= j => s[i] <= s[j]
    PROVE  /\ Append(s, t) \in Seq(Nat) /\ Len(Append(s, t)) = Len(s) + 1
           /\ \A i \in DOMAIN Append(s, t) : Append(s, t)[i] <= t
           /\ \A i, j \in DOMAIN Append(s, t) : i <= j => Append(s, t)[i] <= Append(s, t)[j]
<1>1. /\ Len(s) \in Nat /\ DOMAIN s = 1 .. Len(s)
      /\ Append(s, t) \in Seq(Nat) /\ Len(Append(s, t)) = Len(s) + 1
      /\ \A i \in 1 .. Len(s) : Append(s, t)[i] = s[i]
      /\ Append(s, t)[Len(s) + 1] = t
  BY LenProperties, AppendProperties
<1> DEFINE a == Append(s, t)
<1>2. DOMAIN a = 1 .. Len(s) + 1
  BY <1>1, LenProperties
<1> HIDE DEF a
<1>3. \A i \in DOMAIN a : i \in DOMAIN s \/ i = Len(s) + 1
  BY <1>1, <1>2
<1>4. /\ \A i \in DOMAIN s : a[i] = s[i]
      /\ a[Len(s) + 1] = t
  BY <1>1 DEF a
<1>5. \A i \in DOMAIN a : a[i] <= t
  BY <1>3, <1>4
<1>6. ASSUME NEW i \in DOMAIN a, NEW j \in DOMAIN a, i <= j PROVE a[i] <= a[j]
  <2>1. CASE j = Len(s) + 1
    BY <1>4, <1>5, <2>1
  <2>2. CASE j \in DOMAIN s
    <3>1. i \in DOMAIN s
      BY <1>1, <1>2, <1>6, <2>2
    <3> QED BY <1>4, <1>6, <2>2, <3>1
  <2> QED BY <1>3, <2>1, <2>2
<1> QED BY <1>1, <1>5, <1>6 DEF a

\* limiter.Allow: no publisher gets more than MaxPerWindow hits.
LEMMA AllowKeeps ==
    ASSUME IInv, NEW g \in Goroutines, Allow(g)
    PROVE  IInv'
<1> USE DEF IInv
<1>1. pc[g] \in Busy /\ pc[g].msg \in Universe /\ pc[g].msg.publisher \in Publishers
  BY BusyFields, PayloadFields DEF Allow, Stage
<1> DEFINE p == pc[g].msg.publisher
           kept == InWindow(p)
<1>2. UNCHANGED <<clock, restarts, hashes, live, pulledAt, inbox, booted, sent>>
  BY DEF Allow
<1>3. \/ /\ Len(kept) >= MaxPerWindow
         /\ hits' = [hits EXCEPT ![p] = kept]
         /\ Return(g)
      \/ /\ ~(Len(kept) >= MaxPerWindow)
         /\ hits' = [hits EXCEPT ![p] = Append(kept, clock)]
         /\ pc' = [pc EXCEPT ![g] = [stage |-> "policy", msg |-> pc[g].msg, at |-> clock]]
  BY <1>1 DEF Allow, TypeOK
<1>4. /\ kept \in Seq(Nat) /\ Len(kept) <= MaxPerWindow
      /\ \A i \in DOMAIN kept : kept[i] <= clock
      /\ \A i, j \in DOMAIN kept : i <= j => kept[i] <= kept[j]
  BY <1>1, AllowHits
<1>5. clock \in Nat /\ MaxPerWindow \in Nat /\ Len(kept) \in Nat /\ hits \in [Publishers -> Seq(Nat)]
  BY <1>4, ClubdAssumption, LenProperties DEF TypeOK
<1> HIDE DEF kept, p
<1>6. ASSUME NEW new, hits' = [hits EXCEPT ![p] = new],
             new \in Seq(Nat), Len(new) <= MaxPerWindow, \A i \in DOMAIN new : new[i] <= clock,
             \A i, j \in DOMAIN new : i <= j => new[i] <= new[j]
      PROVE  HitsOrdered' /\ hits' \in [Publishers -> Seq(Nat)]
  <2>1. p \in Publishers
    BY <1>1 DEF p
  <2>2. hits'[p] = new /\ \A q \in Publishers \ {p} : hits'[q] = hits[q]
    BY <1>5, <1>6, <2>1
  <2>3. hits' \in [Publishers -> Seq(Nat)]
    BY <1>5, <1>6, <2>1
  <2>4. ASSUME NEW q \in Publishers
        PROVE  /\ Len(hits'[q]) <= MaxPerWindow
               /\ \A i \in DOMAIN hits'[q] : hits'[q][i] <= clock
               /\ \A i, j \in DOMAIN hits'[q] : i <= j => hits'[q][i] <= hits'[q][j]
    <3>1. CASE q = p
      BY <1>6, <2>2, <3>1
    <3>2. CASE q # p
      BY <2>2, <3>2 DEF HitsOrdered
    <3> QED BY <3>1, <3>2
  <2> QED BY <1>2, <2>3, <2>4 DEF HitsOrdered
<1>7. CASE Return(g) /\ hits' = [hits EXCEPT ![p] = kept]
  <2>1. HitsOrdered' /\ hits' \in [Publishers -> Seq(Nat)]
    BY <1>4, <1>6, <1>7
  <2>2. /\ pc' \in [Goroutines -> Busy \cup {Idle, Lines}]
        /\ pc'[g] = Rest(g) /\ \A h \in Goroutines \ {g} : pc'[h] = pc[h]
    BY <1>7, ReturnEffect
  <2>3. TypeOK'
    BY <1>2, <2>1, <2>2 DEF TypeOK
  <2>4. StagesFit'
    BY <1>2, <2>2, RestFields, StagesStep
  <2> QED BY <1>2, <2>1, <2>3, <2>4, Untouched
<1>8. CASE /\ ~(Len(kept) >= MaxPerWindow)
           /\ hits' = [hits EXCEPT ![p] = Append(kept, clock)]
           /\ pc' = [pc EXCEPT ![g] = [stage |-> "policy", msg |-> pc[g].msg, at |-> clock]]
  <2>0. /\ Append(kept, clock) \in Seq(Nat) /\ Len(Append(kept, clock)) = Len(kept) + 1
        /\ \A i \in DOMAIN Append(kept, clock) : Append(kept, clock)[i] <= clock
        /\ \A i, j \in DOMAIN Append(kept, clock) : i <= j => Append(kept, clock)[i] <= Append(kept, clock)[j]
    BY <1>4, <1>5, OneMoreHit
  <2>1. Len(Append(kept, clock)) <= MaxPerWindow
    BY <1>5, <1>8, <2>0
  <2>2. HitsOrdered' /\ hits' \in [Publishers -> Seq(Nat)]
    BY <1>6, <1>8, <2>0, <2>1
  <2>3. /\ pc' \in [Goroutines -> Busy \cup {Idle, Lines}]
        /\ pc'[g] \in Busy /\ pc'[g].stage = "policy" /\ \A h \in Goroutines \ {g} : pc'[h] = pc[h]
    BY <1>1, <1>5, <1>8, TakeEffect DEF Stages
  <2>4. TypeOK'
    BY <1>2, <2>2, <2>3 DEF TypeOK
  <2>5. pc'[g] # Lines
    BY <2>3, RestFields
  <2>6. StagesFit'
    BY <1>2, <2>3, <2>5, StagesStep
  <2> QED BY <1>2, <2>2, <2>4, <2>6, Untouched
<1> QED BY <1>3, <1>7, <1>8 DEF p

\* applyClaimPolicy in acceptGossip: a refused claim is dropped.
LEMMA PolicyKeeps ==
    ASSUME IInv, NEW g \in Goroutines, Policy(g)
    PROVE  IInv'
<1> USE DEF IInv
<1>1. pc[g] \in Busy /\ pc[g].msg \in Universe
  BY BusyFields DEF Policy, Stage
<1>2. /\ UNCHANGED <<clock, restarts, hashes, hits, pulledAt, inbox, booted, sent>>
      /\ Return(g) \/ Goto(g, "append")
  BY DEF Policy
<1>3. live' \in [Publishers -> [cid : Cids, until : Nat] \cup {None}]
  BY <1>1, PolicyFits DEF Policy
<1>4. /\ pc' \in [Goroutines -> Busy \cup {Idle, Lines}]
      /\ pc'[g] = Rest(g) \/ (pc'[g] \in Busy /\ pc'[g].stage = "append")
      /\ \A h \in Goroutines \ {g} : pc'[h] = pc[h]
  BY <1>1, <1>2, ReturnEffect, GotoEffect DEF Stages
<1>5. TypeOK'
  BY <1>2, <1>3, <1>4 DEF TypeOK
<1>6. StagesFit'
  BY <1>2, <1>4, RestFields, StagesStep
<1> QED BY <1>2, <1>5, <1>6, Untouched

\* handlePublish records its payload at the limiter, within the cap.
LEMMA RecordKeeps ==
    ASSUME IInv, NEW g \in Goroutines, Record(g)
    PROVE  IInv'
<1> USE DEF IInv
<1>1. pc[g] \in Busy /\ pc[g].msg \in Universe
  BY BusyFields DEF Record, Stage
<1>2. /\ hashes' = Remembered(pc[g].msg) /\ Goto(g, "append")
      /\ UNCHANGED <<clock, restarts, hits, live, pulledAt, inbox, booted, sent>>
  BY DEF Record
<1>3. hashes' \in [Universe -> Nat] /\ Cardinality(Hashed') <= HashCap
  BY <1>1, <1>2, Remembers DEF StagesFit
<1>4. /\ pc' \in [Goroutines -> Busy \cup {Idle, Lines}]
      /\ pc'[g] \in Busy /\ pc'[g].stage = "append"
      /\ \A h \in Goroutines \ {g} : pc'[h] = pc[h]
  BY <1>1, <1>2, GotoEffect DEF Stages
<1>5. TypeOK'
  BY <1>2, <1>3, <1>4 DEF TypeOK
<1>6. StagesFit'
  BY <1>2, <1>4, RestFields, StagesStep
<1>7. HashBound'
  BY <1>3 DEF HashBound
<1> QED BY <1>2, <1>5, <1>6, <1>7, Untouched

\* appendInbox: a line at the end, or an error and nothing; only a request whose
\* line was written goes on to the broadcast.
LEMMA AppendEffect ==
    ASSUME IInv, NEW g \in Goroutines, AppendInbox(g)
    PROVE  /\ pc[g] \in Busy /\ pc[g].msg \in Universe /\ pc[g].at \in Nat
           /\ pc' \in [Goroutines -> Busy \cup {Idle, Lines}]
           /\ \A h \in Goroutines \ {g} : pc'[h] = pc[h]
           /\ \/ /\ inbox' = inbox /\ pc'[g] = Rest(g) /\ FALSE \in DiskOk
              \/ \E l \in Line :
                   /\ l = [msg |-> pc[g].msg, by |-> g, at |-> pc[g].at]
                   /\ l.msg = pc[g].msg /\ l.by = g /\ l.at = pc[g].at
                   /\ inbox' = Append(inbox, l)
                   /\ \/ pc'[g] = Rest(g) /\ g \notin Requests
                      \/ /\ g \in Requests /\ pc'[g] \in Busy
                         /\ pc'[g].stage = "broadcast" /\ pc'[g].msg = l.msg /\ pc'[g].at = l.at
<1> USE DEF IInv
<1>1. pc[g] \in Busy /\ pc[g].msg \in Universe /\ pc[g].at \in Nat
  BY BusyFields DEF AppendInbox, Stage
<1> DEFINE l == [msg |-> pc[g].msg, by |-> g, at |-> pc[g].at]
<1>2. PICK ok \in DiskOk :
         /\ inbox' = IF ok THEN Append(inbox, l) ELSE inbox
         /\ IF ok /\ g \in Requests THEN Goto(g, "broadcast") ELSE Return(g)
  BY DEF AppendInbox
<1>3. l \in Line /\ l.msg = pc[g].msg /\ l.by = g /\ l.at = pc[g].at
  BY <1>1 DEF Line
<1>4. ok \in BOOLEAN
  BY ClubdAssumption
<1> HIDE DEF l
<1>5. CASE ok /\ g \in Requests
  <2>1. Goto(g, "broadcast") /\ inbox' = Append(inbox, l)
    BY <1>2, <1>5
  <2>2. /\ pc' \in [Goroutines -> Busy \cup {Idle, Lines}]
        /\ pc'[g] \in Busy /\ pc'[g].stage = "broadcast" /\ pc'[g].msg = pc[g].msg /\ pc'[g].at = pc[g].at
        /\ \A h \in Goroutines \ {g} : pc'[h] = pc[h]
    BY <1>1, <2>1, GotoEffect DEF Stages
  <2> QED BY <1>1, <1>3, <1>5, <2>1, <2>2, Zenon DEF l
<1>6. CASE ok /\ g \notin Requests
  <2>1. Return(g) /\ inbox' = Append(inbox, l)
    BY <1>2, <1>6
  <2>2. /\ pc' \in [Goroutines -> Busy \cup {Idle, Lines}]
        /\ pc'[g] = Rest(g) /\ \A h \in Goroutines \ {g} : pc'[h] = pc[h]
    BY <2>1, ReturnEffect
  <2> QED BY <1>1, <1>3, <1>6, <2>1, <2>2, Zenon DEF l
<1>7. CASE ~ok
  <2>1. Return(g) /\ inbox' = inbox
    BY <1>2, <1>7
  <2>2. /\ pc' \in [Goroutines -> Busy \cup {Idle, Lines}]
        /\ pc'[g] = Rest(g) /\ \A h \in Goroutines \ {g} : pc'[h] = pc[h]
    BY <2>1, ReturnEffect
  <2>3. FALSE \in DiskOk
    <3>1. ok = FALSE
      BY <1>4, <1>7
    <3> QED BY <1>2, <3>1, Zenon
  <2> QED BY <1>1, <2>1, <2>2, <2>3, Zenon
<1> QED BY <1>5, <1>6, <1>7

\* appendInbox: the line is written, or an error drops the payload; handlePublish
\* goes on to the broadcast, acceptGossip ends.
LEMMA AppendKeeps ==
    ASSUME IInv, NEW g \in Goroutines, AppendInbox(g)
    PROVE  IInv'
<1> USE DEF IInv
<1>1. UNCHANGED <<clock, restarts, hashes, hits, live, pulledAt, booted, sent>>
  BY DEF AppendInbox
<1>2. /\ pc' \in [Goroutines -> Busy \cup {Idle, Lines}]
      /\ \A h \in Goroutines \ {g} : pc'[h] = pc[h]
  BY AppendEffect
<1>3. HitsOrdered' /\ HashBound'
  BY <1>1, Untouched
<1>4. CASE inbox' = inbox /\ pc'[g] = Rest(g)
  <2>1. TypeOK'
    BY <1>1, <1>2, <1>4 DEF TypeOK
  <2>2. StagesFit'
    BY <1>1, <1>2, <1>4, RestFields, StagesStep
  <2> QED BY <1>1, <1>3, <1>4, <2>1, <2>2, Untouched
<1>5. ASSUME NEW l \in Line, inbox' = Append(inbox, l),
             \/ pc'[g] = Rest(g)
             \/ g \in Requests /\ pc'[g] \in Busy /\ pc'[g].stage = "broadcast" /\ pc'[g].msg = l.msg
      PROVE  IInv'
  <2>1. /\ inbox' \in Seq(Line)
        /\ \A i \in DOMAIN inbox : i \in DOMAIN inbox' /\ inbox'[i] = inbox[i]
        /\ Appended(l.msg)'
    BY <1>1, <1>5, InboxGrows
  <2>2. TypeOK'
    BY <1>1, <1>2, <2>1 DEF TypeOK
  <2>3. AppendFirst'
    BY <1>1, <2>1 DEF AppendFirst
  <2>4. \A m \in Universe : pc'[g].stage = "broadcast" /\ pc'[g].msg = m => Appended(m)'
    <3>1. CASE pc'[g] = Rest(g)
      BY <3>1, RestFields
    <3>2. CASE pc'[g].msg = l.msg
      BY <2>1, <3>2, Zenon
    <3> QED BY <1>5, <3>1, <3>2
  <2>5. /\ pc'[g].stage \in {"record", "broadcast"} => g \in Requests
        /\ pc'[g].stage # "allow"
        /\ pc'[g] = Lines => g \in Peers
    BY <1>5, RestFields
  <2>6. StagesFit'
    BY <1>1, <1>2, <1>5, <2>4, <2>5, StagesStep
  <2> QED BY <1>3, <2>2, <2>3, <2>6
<1> QED BY <1>4, <1>5, AppendEffect, ZenonT(40)

\* broadcast comes after the line is in the inbox.
LEMMA BroadcastKeeps ==
    ASSUME IInv, NEW g \in Goroutines, Broadcast(g)
    PROVE  IInv'
<1> USE DEF IInv
<1>1. pc[g] \in Busy /\ pc[g].msg \in Universe
  BY BusyFields DEF Broadcast, Stage
<1>2. /\ UNCHANGED <<clock, restarts, hashes, hits, live, pulledAt, inbox, booted>>
      /\ Return(g) /\ sent' \in {sent, sent \cup {pc[g].msg}}
  BY DEF Broadcast
<1>3. /\ pc' \in [Goroutines -> Busy \cup {Idle, Lines}]
      /\ pc'[g] = Rest(g) /\ \A h \in Goroutines \ {g} : pc'[h] = pc[h]
  BY <1>2, ReturnEffect
<1>4. TypeOK'
  BY <1>1, <1>2, <1>3 DEF TypeOK
<1>5. StagesFit'
  BY <1>2, <1>3, RestFields, StagesStep
<1>6. \E i \in DOMAIN inbox : inbox[i].msg = pc[g].msg
  <2>1. Appended(pc[g].msg)
    BY <1>1 DEF StagesFit, Broadcast, Stage
  <2>2. Since \subseteq DOMAIN inbox
    BY LenProperties DEF Since, TypeOK
  <2> QED BY <2>1, <2>2 DEF Appended
<1>7. AppendFirst'
  BY <1>2, <1>6 DEF AppendFirst
<1> QED BY <1>2, <1>4, <1>5, <1>7, Untouched

\* snapshotPullAllow and the end of a snapshot stream only move their puller.
LEMMA SnapshotKeeps ==
    ASSUME IInv, NEW g \in Goroutines, requestSnapshot(g) \/ EndSnapshot(g)
    PROVE  IInv'
<1> USE DEF IInv
<1>1. UNCHANGED <<clock, restarts, hashes, hits, live, inbox, booted, sent>>
  BY DEF requestSnapshot, EndSnapshot
<1>2. pulledAt' \in [Peers -> Nat]
  BY DEF requestSnapshot, EndSnapshot, TypeOK
<1>3. CASE pc' = pc
  <2>1. TypeOK'
    BY <1>1, <1>2, <1>3 DEF TypeOK
  <2>2. StagesFit'
    BY <1>1, <1>3 DEF StagesFit, Stage, Appended, Since
  <2> QED BY <1>1, <2>1, <2>2, Untouched
<1>4. ASSUME NEW v \in {Idle, Lines}, v = Lines => g \in Peers, pc' = [pc EXCEPT ![g] = v]
      PROVE  IInv'
  <2>1. /\ pc' \in [Goroutines -> Busy \cup {Idle, Lines}]
        /\ pc'[g] = v /\ \A h \in Goroutines \ {g} : pc'[h] = pc[h]
    BY <1>4 DEF TypeOK
  <2>2. TypeOK'
    BY <1>1, <1>2, <2>1 DEF TypeOK
  <2>3. v.stage \in {"idle", "lines"}
    BY <1>4 DEF Idle, Lines
  <2>4. StagesFit'
    BY <1>1, <1>4, <2>1, <2>3, StagesStep
  <2> QED BY <1>1, <2>2, <2>4, Untouched
<1>5. pc' = pc \/ (pc' = [pc EXCEPT ![g] = Lines] /\ g \in Peers) \/ pc' = [pc EXCEPT ![g] = Idle]
  BY DEF requestSnapshot, EndSnapshot
<1> QED BY <1>3, <1>4, <1>5, RestFields

\* A restart of clubd: the tables are empty and the inbox stays.
LEMMA RestartKeeps ==
    ASSUME IInv, Restart
    PROVE  IInv'
<1> USE DEF IInv
<1>1. /\ clock' = clock /\ inbox' = inbox /\ sent' = sent /\ restarts' = restarts + 1
      /\ hashes' = [m \in Universe |-> 0] /\ hits' = [p \in Publishers |-> <<>>]
      /\ live' = [p \in Publishers |-> None] /\ pulledAt' = [q \in Peers |-> 0]
      /\ booted' = Len(inbox) /\ pc' = [g \in Goroutines |-> Idle]
  BY DEF Restart
<1>2. Len(inbox) \in Nat
  BY LenProperties DEF TypeOK
<1>3. TypeOK'
  BY <1>1, <1>2, EmptySeq DEF TypeOK
<1>4. Idle.stage = "idle" /\ Idle # Lines
  BY DEF Idle, Lines
<1>5. StagesFit'
  BY <1>1, <1>2, <1>4 DEF StagesFit, Stage
<1>6. Hashed' = {} /\ HashBound'
  <2>1. Hashed' = {}
    BY <1>1 DEF Hashed
  <2> QED BY <2>1, ClubdAssumption, FS_EmptySet DEF HashBound
<1>7. HitsOrdered'
  <2>1. \A p \in Publishers : hits'[p] = <<>>
    BY <1>1
  <2> QED BY <2>1, ClubdAssumption, EmptySeq DEF HitsOrdered
<1> QED BY <1>1, <1>3, <1>5, <1>6, <1>7, Untouched

\* Time passes.
LEMMA TickKeeps ==
    ASSUME IInv, Tick
    PROVE  IInv'
<1> USE DEF IInv
<1>1. clock' = clock + 1 /\ clock \in Nat
      /\ UNCHANGED <<restarts, hashes, hits, live, pulledAt, inbox, booted, sent, pc>>
  BY DEF Tick, TypeOK
<1>2. TypeOK'
  BY <1>1 DEF TypeOK
<1>3. StagesFit'
  BY <1>1 DEF StagesFit, Stage, Appended, Since
<1>4. HitsOrdered'
  <2>1. \A p \in Publishers : \A i \in DOMAIN hits[p] : hits[p][i] \in Nat
    BY ElementOfSeq, LenProperties DEF TypeOK
  <2>2. \A p \in Publishers : \A i \in DOMAIN hits[p] : hits[p][i] <= clock + 1
    BY <1>1, <2>1 DEF HitsOrdered
  <2> QED BY <1>1, <2>2 DEF HitsOrdered
<1> QED BY <1>1, <1>2, <1>3, <1>4, Untouched

\* clubd starts with empty tables and idle goroutines.
LEMMA IInvInit == Init => IInv
<1> SUFFICES ASSUME Init PROVE IInv
  OBVIOUS
<1>1. Idle.stage = "idle" /\ Idle # Lines
  BY DEF Idle, Lines
<1>2. <<>> \in Seq(Line) /\ <<>> \in Seq(Nat) /\ Len(<<>>) = 0
  BY EmptySeq
<1>3. TypeOK
  BY <1>2 DEF Init, TypeOK
<1>4. StagesFit
  BY <1>1, <1>2 DEF Init, StagesFit, Stage
<1>5. HashBound
  <2>1. Hashed = {}
    BY DEF Init, Hashed
  <2> QED BY <2>1, ClubdAssumption, FS_EmptySet DEF HashBound
<1>6. HitsOrdered
  <2>1. \A p \in Publishers : hits[p] = <<>>
    BY DEF Init
  <2> QED BY <2>1, ClubdAssumption, EmptySeq DEF HitsOrdered
<1>7. AppendFirst
  BY DEF Init, AppendFirst
<1> QED BY <1>3, <1>4, <1>5, <1>6, <1>7 DEF IInv

\* Every step of clubd keeps the invariant of its tables.
LEMMA IInvStep == IInv /\ [Next]_vars => IInv'
<1> SUFFICES ASSUME IInv, [Next]_vars PROVE IInv'
  OBVIOUS
<1>1. CASE Tick
  BY <1>1, TickKeeps
<1>2. CASE Restart
  BY <1>2, RestartKeeps
<1>3. ASSUME NEW g \in Goroutines,
             \/ \E m \in Universe : acceptGossip(g, m) \/ handlePublish(g, m)
             \/ Allow(g) \/ Policy(g) \/ Record(g) \/ AppendInbox(g) \/ Broadcast(g)
             \/ requestSnapshot(g) \/ EndSnapshot(g)
      PROVE  IInv'
  BY <1>3, AcceptKeeps, PublishKeeps, AllowKeeps, PolicyKeeps, RecordKeeps, AppendKeeps,
     BroadcastKeeps, SnapshotKeeps
<1>4. CASE UNCHANGED vars
  BY <1>4 DEF vars, IInv, TypeOK, StagesFit, Stage, Appended, Since, HashBound, Hashed, AppendFirst,
     HitsOrdered
<1> QED BY <1>1, <1>2, <1>3, <1>4 DEF Next

\* The invariant of clubd's tables holds in every state.
THEOREM InductiveInvariant == Spec => []IInv
BY IInvInit, IInvStep, PTL DEF Spec

\* docs/OVERVIEW.md: the line is appended before the payload is broadcast.
THEOREM AppendFirstHolds == Spec => []AppendFirst
<1>1. IInv => AppendFirst
  BY DEF IInv
<1> QED BY <1>1, InductiveInvariant, PTL

\* The limiter's tables are well formed, Duplicate never lets the hash table grow
\* past its cap, nor Allow a publisher's hits past the limit.
THEOREM LimiterInvHolds == Spec => []LimiterInv
<1>1. IInv => LimiterInv
  BY DEF IInv, LimiterInv, HitsOrdered, HitsBound
<1> QED BY <1>1, InductiveInvariant, PTL

-----------------------------------------------------------------------------
(***************************************************************************)
(* What each action does to the goroutine that takes it.                   *)
(***************************************************************************)
\* acceptGossip: a payload that is new comes in hand, others are dropped.
LEMMA AcceptEffect ==
    ASSUME IInv, NEW g \in Goroutines, NEW m \in Universe, acceptGossip(g, m)
    PROVE  /\ g \notin Requests /\ pc[g] \notin Busy
           /\ \A h \in Goroutines \ {g} : pc'[h] = pc[h]
           /\ hashes' = Remembered(m)
           /\ UNCHANGED <<clock, hits, live, inbox, booted>>
           /\ \/ m \in Hashed /\ pc' = pc
              \/ /\ m \notin Hashed
                 /\ pc'[g] \in Busy /\ pc'[g].msg = m
                 /\ pc'[g].stage = IF g \in Kinds THEN "allow" ELSE "policy"
<1> USE DEF IInv
<1>1. g \notin Requests /\ pc[g] \notin Busy
  <2>1. CASE pc[g] = Idle /\ g = m.kind
    BY <2>1, PayloadFields, Names, RestFields
  <2>2. CASE pc[g] = Lines
    BY <2>2, Names, RestFields DEF StagesFit
  <2> QED BY <2>1, <2>2 DEF acceptGossip, Takes
<1>2. hashes' = Remembered(m) /\ UNCHANGED <<clock, hits, live, inbox, booted>>
  BY DEF acceptGossip
<1>3. CASE m \in Hashed
  BY <1>1, <1>2, <1>3 DEF acceptGossip
<1>4. CASE m \notin Hashed
  <2> DEFINE s == IF g \in Kinds THEN "allow" ELSE "policy"
  <2>1. s \in Stages
    BY DEF Stages
  <2>2. pc' = [pc EXCEPT ![g] = [stage |-> s, msg |-> m, at |-> 0]]
    BY <1>4 DEF acceptGossip, Admit
  <2> HIDE DEF s
  <2>3. /\ pc'[g] \in Busy /\ pc'[g].stage = s /\ pc'[g].msg = m
        /\ \A h \in Goroutines \ {g} : pc'[h] = pc[h]
    BY <2>1, <2>2, TakeEffect
  <2> QED BY <1>1, <1>2, <1>4, <2>3 DEF s
<1> QED BY <1>3, <1>4

\* handlePublish: a request that was idle has a payload of its own in hand.
LEMMA PublishEffect ==
    ASSUME IInv, NEW g \in Goroutines, NEW m \in Universe, handlePublish(g, m)
    PROVE  /\ g \in Requests /\ pc[g] = Idle /\ applyClaimPolicy(m)
           /\ \A h \in Goroutines \ {g} : pc'[h] = pc[h]
           /\ pc'[g] \in Busy /\ pc'[g].stage = "record" /\ pc'[g].msg = m
           /\ UNCHANGED <<clock, hashes, hits, inbox, booted>>
<1>1. pc' = [pc EXCEPT ![g] = [stage |-> "record", msg |-> m, at |-> 0]]
  BY DEF handlePublish
<1>2. /\ pc'[g] \in Busy /\ pc'[g].stage = "record" /\ pc'[g].msg = m
      /\ \A h \in Goroutines \ {g} : pc'[h] = pc[h]
  BY <1>1, TakeEffect DEF Stages, IInv
<1> QED BY <1>2 DEF handlePublish

\* limiter.Allow: a consumer's payload passes at this time, or is dropped.
LEMMA AllowEffect ==
    ASSUME IInv, NEW g \in Goroutines, Allow(g)
    PROVE  /\ g \in Kinds /\ Stage(g) = "allow"
           /\ pc[g] \in Busy /\ pc[g].msg \in Universe /\ pc[g].msg.publisher \in Publishers
           /\ \A h \in Goroutines \ {g} : pc'[h] = pc[h]
           /\ UNCHANGED <<clock, hashes, live, inbox, booted>>
           /\ \E p \in Publishers, kept \in Seq(Nat) :
                /\ p = pc[g].msg.publisher /\ kept = InWindow(p)
                /\ \A q \in Publishers \ {p} : hits'[q] = hits[q]
                /\ \/ /\ Len(kept) >= MaxPerWindow /\ hits'[p] = kept /\ pc'[g] = Rest(g)
                   \/ /\ hits'[p] = Append(kept, clock)
                      /\ pc'[g] \in Busy /\ pc'[g].stage = "policy"
                      /\ pc'[g].msg = pc[g].msg /\ pc'[g].at = clock
<1> USE DEF IInv
<1>1. pc[g] \in Busy /\ pc[g].msg \in Universe /\ pc[g].msg.publisher \in Publishers
  BY BusyFields, PayloadFields DEF Allow, Stage
<1>2. g \in Kinds /\ Stage(g) = "allow" /\ UNCHANGED <<clock, hashes, live, inbox, booted>>
  BY DEF Allow, StagesFit, Stage
<1> DEFINE p == pc[g].msg.publisher
           kept == InWindow(p)
<1>3. kept \in Seq(Nat) /\ clock \in Nat /\ hits \in [Publishers -> Seq(Nat)] /\ p \in Publishers
  BY <1>1, AllowHits DEF TypeOK
<1>4. CASE Len(kept) >= MaxPerWindow /\ hits' = [hits EXCEPT ![p] = kept] /\ Return(g)
  <2>1. pc'[g] = Rest(g) /\ \A h \in Goroutines \ {g} : pc'[h] = pc[h]
    BY <1>4, ReturnEffect
  <2>2. hits'[p] = kept /\ \A q \in Publishers \ {p} : hits'[q] = hits[q]
    BY <1>3, <1>4
  <2> HIDE DEF p, kept
  <2>3. p = pc[g].msg.publisher /\ kept = InWindow(p)
    BY DEF p, kept
  <2> QED BY <1>1, <1>2, <1>3, <1>4, <2>1, <2>2, <2>3
<1>5. CASE /\ hits' = [hits EXCEPT ![p] = Append(kept, clock)]
           /\ pc' = [pc EXCEPT ![g] = [stage |-> "policy", msg |-> pc[g].msg, at |-> clock]]
  <2>1. /\ pc'[g] \in Busy /\ pc'[g].stage = "policy" /\ pc'[g].msg = pc[g].msg /\ pc'[g].at = clock
        /\ \A h \in Goroutines \ {g} : pc'[h] = pc[h]
    BY <1>1, <1>3, <1>5, TakeEffect DEF Stages
  <2>2. hits'[p] = Append(kept, clock) /\ \A q \in Publishers \ {p} : hits'[q] = hits[q]
    BY <1>3, <1>5
  <2> HIDE DEF p, kept
  <2>3. p = pc[g].msg.publisher /\ kept = InWindow(p)
    BY DEF p, kept
  <2> QED BY <1>1, <1>2, <1>3, <1>5, <2>1, <2>2, <2>3
<1> QED BY <1>1, <1>4, <1>5 DEF Allow, TypeOK

\* applyClaimPolicy in acceptGossip: on to the inbox, or a refused claim.
LEMMA PolicyEffect ==
    ASSUME IInv, NEW g \in Goroutines, Policy(g)
    PROVE  /\ pc[g] \in Busy /\ pc[g].msg \in Universe /\ Stage(g) = "policy"
           /\ applyClaimPolicy(pc[g].msg)
           /\ \A h \in Goroutines \ {g} : pc'[h] = pc[h]
           /\ UNCHANGED <<clock, hashes, hits, inbox, booted>>
           /\ \/ Refused(pc[g].msg) /\ pc'[g] = Rest(g)
              \/ /\ ~Refused(pc[g].msg) /\ pc'[g] \in Busy /\ pc'[g].stage = "append"
                 /\ pc'[g].msg = pc[g].msg /\ pc'[g].at = pc[g].at
<1> USE DEF IInv
<1>1. pc[g] \in Busy /\ pc[g].msg \in Universe
  BY BusyFields DEF Policy, Stage
<1>2. CASE Refused(pc[g].msg)
  <2>1. pc'[g] = Rest(g) /\ \A h \in Goroutines \ {g} : pc'[h] = pc[h]
    BY <1>2, ReturnEffect DEF Policy
  <2> QED BY <1>1, <1>2, <2>1 DEF Policy, Stage
<1>3. CASE ~Refused(pc[g].msg)
  <2>1. /\ pc'[g] \in Busy /\ pc'[g].stage = "append" /\ pc'[g].msg = pc[g].msg /\ pc'[g].at = pc[g].at
        /\ \A h \in Goroutines \ {g} : pc'[h] = pc[h]
    BY <1>1, <1>3, GotoEffect DEF Policy, Stages
  <2> QED BY <1>1, <1>3, <2>1 DEF Policy, Stage
<1> QED BY <1>2, <1>3

\* handlePublish records its own payload at the limiter.
LEMMA RecordEffect ==
    ASSUME IInv, NEW g \in Goroutines, Record(g)
    PROVE  /\ pc[g] \in Busy /\ pc[g].msg \in Universe /\ g \in Requests
           /\ hashes' = Remembered(pc[g].msg)
           /\ \A h \in Goroutines \ {g} : pc'[h] = pc[h]
           /\ UNCHANGED <<clock, hits, live, inbox, booted>>
           /\ pc'[g] \in Busy /\ pc'[g].stage = "append"
           /\ pc'[g].msg = pc[g].msg /\ pc'[g].at = pc[g].at
<1> USE DEF IInv
<1>1. pc[g] \in Busy /\ pc[g].msg \in Universe /\ g \in Requests
  BY BusyFields DEF Record, Stage, StagesFit
<1>2. /\ pc'[g] \in Busy /\ pc'[g].stage = "append" /\ pc'[g].msg = pc[g].msg /\ pc'[g].at = pc[g].at
      /\ \A h \in Goroutines \ {g} : pc'[h] = pc[h]
  BY <1>1, GotoEffect DEF Record, Stages
<1> QED BY <1>1, <1>2 DEF Record

\* broadcast ends a request, whose line is in the inbox.
LEMMA BroadcastEffect ==
    ASSUME IInv, NEW g \in Goroutines, Broadcast(g)
    PROVE  /\ pc[g] \in Busy /\ pc[g].msg \in Universe /\ Stage(g) = "broadcast" /\ g \in Requests
           /\ Appended(pc[g].msg)
           /\ \A h \in Goroutines \ {g} : pc'[h] = pc[h]
           /\ UNCHANGED <<clock, hashes, hits, live, inbox, booted>>
           /\ pc'[g] = Rest(g)
<1> USE DEF IInv
<1>1. pc[g] \in Busy /\ pc[g].msg \in Universe
  BY BusyFields DEF Broadcast, Stage
<1>2. g \in Requests /\ Appended(pc[g].msg) /\ Stage(g) = "broadcast"
  BY <1>1 DEF Broadcast, Stage, StagesFit
<1>3. pc'[g] = Rest(g) /\ \A h \in Goroutines \ {g} : pc'[h] = pc[h]
  BY ReturnEffect DEF Broadcast
<1> QED BY <1>1, <1>2, <1>3 DEF Broadcast

\* A puller that opens or ends a snapshot had no payload in hand and has none.
LEMMA SnapshotEffect ==
    ASSUME IInv, NEW g \in Goroutines, requestSnapshot(g) \/ EndSnapshot(g)
    PROVE  /\ pc[g] \in {Idle, Lines} /\ pc'[g] \in {Idle, Lines}
           /\ \A h \in Goroutines \ {g} : pc'[h] = pc[h]
           /\ UNCHANGED <<clock, hashes, hits, live, inbox, booted>>
BY DEF requestSnapshot, EndSnapshot, IInv, TypeOK

-----------------------------------------------------------------------------
(***************************************************************************)
(* A payload is appended once.                                             *)
(***************************************************************************)
\* The inbox stays: who has a payload of others in hand had it before, or it is
\* new to the limiter.
LEMMA OnceQuiet ==
    ASSUME OnceOnly, Hashed \subseteq Hashed', UNCHANGED <<inbox, booted>>, NEW g \in Goroutines,
           \A h \in Goroutines \ {g} : pc'[h] = pc[h],
           \/ ~Foreign(g)'
           \/ Foreign(g) /\ pc'[g].msg = pc[g].msg
           \/ pc'[g].msg \notin Hashed /\ pc'[g].msg \in Hashed'
    PROVE  OnceOnly'
<1>1. Since' = Since /\ inbox' = inbox
  BY DEF Since
<1>2. \A h \in Goroutines : h # g => (Foreign(h)' <=> Foreign(h)) /\ pc'[h] = pc[h]
  BY DEF Foreign
<1>3. ASSUME NEW h \in Goroutines, Foreign(h)' PROVE pc'[h].msg \in Hashed'
  <2>1. CASE h # g
    BY <1>2, <1>3, <2>1 DEF OnceOnly
  <2>2. CASE h = g
    BY <1>3, <2>2 DEF OnceOnly
  <2> QED BY <2>1, <2>2
<1>4. ASSUME NEW h \in Goroutines, NEW k \in Goroutines, Foreign(h)', Foreign(k)', h # k
      PROVE  pc'[h].msg # pc'[k].msg
  <2>1. CASE h # g /\ k # g
    BY <1>2, <1>4, <2>1 DEF OnceOnly
  <2>2. ASSUME NEW x \in Goroutines, x # g, Foreign(x)', Foreign(g)' PROVE pc'[x].msg # pc'[g].msg
    <3>1. Foreign(x) /\ pc'[x].msg = pc[x].msg /\ pc[x].msg \in Hashed
      BY <1>2, <2>2 DEF OnceOnly
    <3>2. CASE Foreign(g) /\ pc'[g].msg = pc[g].msg
      BY <2>2, <3>1, <3>2 DEF OnceOnly
    <3>3. CASE pc'[g].msg \notin Hashed
      BY <3>1, <3>3
    <3> QED BY <2>2, <3>2, <3>3
  <2> QED BY <1>4, <2>1, <2>2
<1>5. ASSUME NEW i \in Since', inbox'[i].by \notin Requests
      PROVE  /\ inbox'[i].msg \in Hashed'
             /\ \A h \in Goroutines : Foreign(h)' => pc'[h].msg # inbox'[i].msg
  <2>1. /\ inbox[i].msg \in Hashed
        /\ \A h \in Goroutines : Foreign(h) => pc[h].msg # inbox[i].msg
    BY <1>1, <1>5 DEF OnceOnly
  <2>2. ASSUME NEW h \in Goroutines, Foreign(h)' PROVE pc'[h].msg # inbox[i].msg
    <3>1. CASE h # g
      BY <1>2, <2>1, <2>2, <3>1
    <3>2. CASE h = g
      BY <2>1, <2>2, <3>2
    <3> QED BY <3>1, <3>2
  <2> QED BY <1>1, <2>1, <2>2
<1>6. \A i, j \in Since' : i # j /\ inbox'[i].msg = inbox'[j].msg =>
         inbox'[i].by \in Requests \/ inbox'[j].by \in Requests
  BY <1>1 DEF OnceOnly
<1>7. /\ \A h \in Goroutines : Foreign(h)' => pc'[h].msg \in Hashed'
      /\ \A h, k \in Goroutines : Foreign(h)' /\ Foreign(k)' /\ h # k => pc'[h].msg # pc'[k].msg
      /\ \A i \in Since' : inbox'[i].by \notin Requests =>
           /\ inbox'[i].msg \in Hashed'
           /\ \A h \in Goroutines : Foreign(h)' => pc'[h].msg # inbox'[i].msg
  BY <1>3, <1>4, <1>5
<1> QED BY <1>6, <1>7 DEF OnceOnly

\* The payload that g had in hand becomes a line.
LEMMA OnceAppend ==
    ASSUME IInv, OnceOnly, UNCHANGED <<hashes, booted>>, NEW g \in Goroutines,
           \A h \in Goroutines \ {g} : pc'[h] = pc[h],
           ~Foreign(g)', pc[g] \in Busy,
           NEW l \in Line, l.msg = pc[g].msg, l.by = g, inbox' = Append(inbox, l)
    PROVE  OnceOnly'
<1> DEFINE z == Len(inbox) + 1
<1>1. /\ \A i \in Since : i \in DOMAIN inbox /\ inbox'[i] = inbox[i]
      /\ inbox'[z] = l /\ Since' = Since \cup {z} /\ z \notin Since
  BY InboxGrows DEF IInv
<1>2. Hashed' = Hashed
  BY DEF Hashed
<1>3. \A h \in Goroutines : Foreign(h)' => h # g /\ Foreign(h) /\ pc'[h].msg = pc[h].msg
  BY DEF Foreign
<1> HIDE DEF z
<1>4. g \notin Requests => Foreign(g)
  BY DEF Foreign
<1>5. ASSUME NEW i \in Since', inbox'[i].by \notin Requests
      PROVE  /\ inbox'[i].msg \in Hashed'
             /\ \A h \in Goroutines : Foreign(h)' => pc'[h].msg # inbox'[i].msg
  <2>1. CASE i \in Since
    BY <1>1, <1>2, <1>3, <1>5, <2>1 DEF OnceOnly
  <2>2. CASE i = z
    <3>1. Foreign(g) /\ inbox'[i].msg = pc[g].msg
      BY <1>1, <1>4, <1>5, <2>2
    <3> QED BY <1>2, <1>3, <3>1 DEF OnceOnly
  <2> QED BY <1>1, <1>5, <2>1, <2>2
<1>6. ASSUME NEW i \in Since, inbox'[i].msg = inbox'[z].msg
      PROVE  inbox'[i].by \in Requests \/ inbox'[z].by \in Requests
  <2>1. inbox'[i] = inbox[i] /\ inbox'[z] = l
    BY <1>1
  <2>2. CASE g \notin Requests
    BY <1>4, <1>6, <2>1, <2>2 DEF OnceOnly
  <2> QED BY <2>1, <2>2
<1>7. \A i, j \in Since' : i # j /\ inbox'[i].msg = inbox'[j].msg =>
         inbox'[i].by \in Requests \/ inbox'[j].by \in Requests
  <2>1. \A i, j \in Since : i # j /\ inbox'[i].msg = inbox'[j].msg =>
         inbox'[i].by \in Requests \/ inbox'[j].by \in Requests
    BY <1>1 DEF OnceOnly
  <2>2. ASSUME NEW i \in Since', NEW j \in Since', i # j, inbox'[i].msg = inbox'[j].msg
        PROVE  inbox'[i].by \in Requests \/ inbox'[j].by \in Requests
    <3>1. (i \in Since \/ i = z) /\ (j \in Since \/ j = z)
      BY <1>1
    <3>2. CASE i \in Since /\ j \in Since
      BY <2>1, <2>2, <3>2
    <3>3. CASE i \in Since /\ j = z
      BY <1>6, <2>2, <3>3
    <3>4. CASE i = z /\ j \in Since
      BY <1>6, <2>2, <3>4
    <3> QED BY <2>2, <3>1, <3>2, <3>3, <3>4
  <2> QED BY <2>2
<1>8. /\ \A h \in Goroutines : Foreign(h)' => pc'[h].msg \in Hashed'
      /\ \A h, k \in Goroutines : Foreign(h)' /\ Foreign(k)' /\ h # k => pc'[h].msg # pc'[k].msg
  BY <1>2, <1>3 DEF OnceOnly
<1> QED BY <1>5, <1>7, <1>8 DEF OnceOnly

\* No action brings a payload in hand, or into the inbox, a second time.
LEMMA OnceStep ==
    ASSUME IInv, NoEviction, OnceOnly, [Next]_vars
    PROVE  OnceOnly'
<1> USE DEF IInv
<1>0. \A g \in Goroutines : pc'[g] \in {Idle, Lines} => ~Foreign(g)'
  BY RestFields DEF Foreign
<1>1. CASE UNCHANGED vars \/ Tick
  BY <1>1 DEF vars, Tick, OnceOnly, Foreign, Since, Hashed
<1>2. CASE Restart
  <2>1. Since' = {}
    BY <1>2, LenProperties DEF Restart, Since, TypeOK
  <2>2. \A h \in Goroutines : ~Foreign(h)'
    BY <1>2, RestFields DEF Restart, Foreign
  <2> QED BY <2>1, <2>2 DEF OnceOnly
<1>3. ASSUME NEW g \in Goroutines, NEW m \in Universe, acceptGossip(g, m) PROVE OnceOnly'
  <2>1. hashes' = Remembered(m) /\ Hashed' = Hashed \cup {m}
    BY <1>3, AcceptEffect, NothingEvicted DEF StagesFit
  <2>2. CASE m \in Hashed /\ pc' = pc
    <3>1. ~Foreign(g)'
      BY <1>3, <2>2, AcceptEffect DEF Foreign
    <3> QED BY <1>3, <2>1, <2>2, <3>1, AcceptEffect, OnceQuiet
  <2>3. CASE m \notin Hashed /\ pc'[g].msg = m
    BY <1>3, <2>1, <2>3, AcceptEffect, OnceQuiet
  <2> QED BY <1>3, <2>2, <2>3, AcceptEffect
<1>4. ASSUME NEW g \in Goroutines, NEW m \in Universe, handlePublish(g, m) PROVE OnceOnly'
  <2>1. ~Foreign(g)' /\ Hashed' = Hashed
    BY <1>4, PublishEffect DEF Foreign, Hashed
  <2> QED BY <1>4, <2>1, PublishEffect, OnceQuiet
<1>5. ASSUME NEW g \in Goroutines, Allow(g) PROVE OnceOnly'
  <2>1. Hashed' = Hashed
    BY <1>5, AllowEffect DEF Hashed
  <2>2. ~Foreign(g)' \/ (Foreign(g) /\ pc'[g].msg = pc[g].msg)
    BY <1>0, <1>5, AllowEffect, RestFields DEF Foreign
  <2> QED BY <1>5, <2>1, <2>2, AllowEffect, OnceQuiet
<1>6. ASSUME NEW g \in Goroutines, Policy(g) PROVE OnceOnly'
  <2>1. Hashed' = Hashed
    BY <1>6, PolicyEffect DEF Hashed
  <2>2. ~Foreign(g)' \/ (Foreign(g) /\ pc'[g].msg = pc[g].msg)
    BY <1>0, <1>6, PolicyEffect, RestFields DEF Foreign
  <2> QED BY <1>6, <2>1, <2>2, PolicyEffect, OnceQuiet
<1>7. ASSUME NEW g \in Goroutines, Record(g) PROVE OnceOnly'
  <2>1. Hashed \subseteq Hashed'
    BY <1>7, RecordEffect, NothingEvicted DEF StagesFit
  <2>2. ~Foreign(g)'
    BY <1>7, RecordEffect DEF Foreign
  <2> QED BY <1>7, <2>1, <2>2, RecordEffect, OnceQuiet
<1>8. ASSUME NEW g \in Goroutines, AppendInbox(g) PROVE OnceOnly'
  <2>1. UNCHANGED <<hashes, booted>>
    BY <1>8 DEF AppendInbox
  <2>2. ~Foreign(g)'
    BY <1>0, <1>8, AppendEffect, RestFields DEF Foreign
  <2>3. CASE inbox' = inbox
    <3>1. Hashed' = Hashed
      BY <2>1 DEF Hashed
    <3> QED BY <1>8, <2>1, <2>2, <2>3, <3>1, AppendEffect, OnceQuiet
  <2>4. CASE \E l \in Line : l.msg = pc[g].msg /\ l.by = g /\ inbox' = Append(inbox, l)
    BY <1>8, <2>1, <2>2, <2>4, AppendEffect, OnceAppend
  <2> QED BY <1>8, <2>3, <2>4, AppendEffect, Zenon
<1>9. ASSUME NEW g \in Goroutines, Broadcast(g) PROVE OnceOnly'
  <2>1. Hashed' = Hashed /\ ~Foreign(g)'
    BY <1>0, <1>9, BroadcastEffect, RestFields DEF Hashed
  <2> QED BY <1>9, <2>1, BroadcastEffect, OnceQuiet
<1>10. ASSUME NEW g \in Goroutines, requestSnapshot(g) \/ EndSnapshot(g) PROVE OnceOnly'
  <2>1. Hashed' = Hashed /\ ~Foreign(g)'
    BY <1>0, <1>10, SnapshotEffect DEF Hashed
  <2> QED BY <1>10, <2>1, SnapshotEffect, OnceQuiet
<1> QED BY <1>1, <1>2, <1>3, <1>4, <1>5, <1>6, <1>7, <1>8, <1>9, <1>10 DEF Next

\* At the start nothing is in hand and nothing in the inbox.
LEMMA OnceInit == Init => OnceOnly
<1> SUFFICES ASSUME Init PROVE OnceOnly
  OBVIOUS
<1>1. Since = {}
  BY EmptySeq DEF Init, Since
<1>2. \A h \in Goroutines : ~Foreign(h)
  BY RestFields DEF Init, Foreign
<1> QED BY <1>1, <1>2 DEF OnceOnly

\* A payload that comes in on its topic and in any number of snapshots at the
\* same time is appended once per run of clubd, as long as the hash table does
\* not overflow.
THEOREM NoDoubleAppendHolds == Spec => []NoDoubleAppend
<1>1. CASE NoEviction
  <2>1. OnceOnly => NoDoubleAppend
    BY DEF OnceOnly, NoDoubleAppend
  <2>2. Init => OnceOnly
    BY OnceInit
  <2>3. IInv /\ OnceOnly /\ [Next]_vars => OnceOnly'
    BY <1>1, OnceStep
  <2> QED BY <2>1, <2>2, <2>3, InductiveInvariant, PTL DEF Spec
<1>2. CASE ~NoEviction
  <2>1. NoDoubleAppend
    BY <1>2 DEF NoDoubleAppend
  <2> QED BY <2>1, PTL
<1> QED BY <1>1, <1>2

-----------------------------------------------------------------------------
(***************************************************************************)
(* Duplicates are free.                                                    *)
(***************************************************************************)
\* There are five topics, and so five consumers.
LEMMA KindsFinite == IsFiniteSet(Kinds)
<1>1. IsFiniteSet({"claim"})
  BY FS_Singleton
<1>2. IsFiniteSet({"claim"} \cup {"skip"})
  BY <1>1, FS_AddElement
<1>3. IsFiniteSet({"claim"} \cup {"skip"} \cup {"classify"})
  BY <1>2, FS_AddElement
<1>4. IsFiniteSet({"claim"} \cup {"skip"} \cup {"classify"} \cup {"alias"})
  BY <1>3, FS_AddElement
<1>5. IsFiniteSet({"claim"} \cup {"skip"} \cup {"classify"} \cup {"alias"} \cup {"report"})
  BY <1>4, FS_AddElement
<1>6. Kinds = {"claim"} \cup {"skip"} \cup {"classify"} \cup {"alias"} \cup {"report"}
  BY DEF Kinds
<1> QED BY <1>5, <1>6

\* One more element at most.
LEMMA OneMore ==
    ASSUME NEW S, IsFiniteSet(S), NEW x
    PROVE  /\ IsFiniteSet(S \cup {x}) /\ Cardinality(S \cup {x}) \in Nat
           /\ Cardinality(S \cup {x}) <= Cardinality(S) + 1
<1>1. IsFiniteSet(S \cup {x}) /\ Cardinality(S) \in Nat
  BY FS_AddElement, FS_CardinalityType
<1>2. CASE x \in S
  <2>1. S \cup {x} = S
    BY <1>2
  <2> QED BY <1>1, <2>1
<1>3. CASE x \notin S
  <2>1. Cardinality(S \cup {x}) = Cardinality(S) + 1
    BY <1>3, FS_AddElement
  <2> QED BY <1>1, <2>1
<1> QED BY <1>2, <1>3

\* The sets that the bounds compare are finite.
LEMMA PaidFinite ==
    ASSUME NEW p \in Publishers
    PROVE  /\ IsFiniteSet(AtLimiter(p)) /\ Cardinality(AtLimiter(p)) \in Nat
           /\ IsFiniteSet(HashedOf(p)) /\ Cardinality(HashedOf(p)) \in Nat
<1>1. IsFiniteSet(Universe) /\ HashedOf(p) \subseteq Universe /\ AtLimiter(p) \subseteq Kinds
  BY ClubdAssumption DEF HashedOf, Hashed, AtLimiter
<1> QED BY <1>1, KindsFinite, FS_Subset, FS_CardinalityType

\* Fewer consumers at the limiter, more payloads known: nobody owes a hit.
LEMMA PaidQuiet ==
    ASSUME TypeOK, HitsPaid, NEW p \in Publishers,
           Len(hits'[p]) <= Len(hits[p]), Len(hits'[p]) \in Nat, Hashed \subseteq Hashed',
           AtLimiter(p)' \subseteq AtLimiter(p)
    PROVE  Len(hits'[p]) + Cardinality(AtLimiter(p)') <= Cardinality(HashedOf(p)')
<1>1. HashedOf(p) \subseteq HashedOf(p)' /\ HashedOf(p)' \subseteq Universe
  BY DEF HashedOf, Hashed
<1>2. IsFiniteSet(HashedOf(p)')
  BY <1>1, ClubdAssumption, FS_Subset
<1>3. Cardinality(HashedOf(p)) <= Cardinality(HashedOf(p)') /\ Cardinality(HashedOf(p)') \in Nat
  BY <1>1, <1>2, FS_Subset, FS_CardinalityType
<1>4. Cardinality(AtLimiter(p)') <= Cardinality(AtLimiter(p)) /\ Cardinality(AtLimiter(p)') \in Nat
  BY PaidFinite, FS_Subset, FS_CardinalityType
<1>5. Len(hits[p]) + Cardinality(AtLimiter(p)) <= Cardinality(HashedOf(p)) /\ Len(hits[p]) \in Nat
  BY LenProperties DEF HitsPaid, TypeOK
<1> QED BY <1>3, <1>4, <1>5, PaidFinite

\* Who reaches the limiter has a payload that is new; who passes adds one hit.
LEMMA PaidStep ==
    ASSUME IInv, IInv', NoEviction, HitsPaid, [Next]_vars
    PROVE  HitsPaid'
<1> USE DEF IInv
<1>1. \A p \in Publishers : Len(hits[p]) \in Nat /\ Len(hits'[p]) \in Nat
  BY LenProperties DEF TypeOK
<1>2. ASSUME UNCHANGED hits, Hashed \subseteq Hashed', NEW g \in Goroutines,
             \A h \in Goroutines \ {g} : pc'[h] = pc[h],
             pc'[g].stage # "allow" \/ pc'[g] = pc[g]
      PROVE  HitsPaid'
  <2>1. ASSUME NEW p \in Publishers
        PROVE  Len(hits'[p]) + Cardinality(AtLimiter(p)') <= Cardinality(HashedOf(p)')
    <3>1. AtLimiter(p)' \subseteq AtLimiter(p)
      BY <1>2 DEF AtLimiter, Stage, Goroutines
    <3>2. Len(hits'[p]) <= Len(hits[p])
      BY <1>1, <1>2
    <3> QED BY <1>1, <1>2, <3>1, <3>2, PaidQuiet
  <2> QED BY <2>1 DEF HitsPaid
<1>3. CASE UNCHANGED vars \/ Tick
  BY <1>3 DEF vars, Tick, HitsPaid, AtLimiter, HashedOf, Hashed, Stage
<1>4. CASE Restart
  <2>1. ASSUME NEW p \in Publishers
        PROVE  Len(hits'[p]) + Cardinality(AtLimiter(p)') <= Cardinality(HashedOf(p)')
    <3>1. AtLimiter(p)' = {} /\ HashedOf(p)' = {} /\ hits'[p] = <<>>
      BY <1>4 DEF Restart, AtLimiter, HashedOf, Hashed, Stage, Idle, Goroutines
    <3> QED BY <3>1, FS_EmptySet, EmptySeq
  <2> QED BY <2>1 DEF HitsPaid
<1>5. ASSUME NEW g \in Goroutines, NEW m \in Universe, acceptGossip(g, m) PROVE HitsPaid'
  <2>1. Hashed' = Hashed \cup {m} /\ hits' = hits
    BY <1>5, AcceptEffect, NothingEvicted DEF StagesFit
  <2>2. CASE pc' = pc
    BY <1>2, <1>5, <2>1, <2>2
  <2>3. CASE m \notin Hashed /\ pc'[g] \in Busy /\ pc'[g].msg = m
    <3>1. ASSUME NEW p \in Publishers, p # m.publisher
          PROVE  Len(hits'[p]) + Cardinality(AtLimiter(p)') <= Cardinality(HashedOf(p)')
      <4>1. AtLimiter(p)' \subseteq AtLimiter(p)
        BY <1>5, <2>3, <3>1, AcceptEffect DEF AtLimiter, Stage, Goroutines
      <4> QED BY <1>1, <2>1, <4>1, PaidQuiet
    <3>2. ASSUME NEW p \in Publishers, p = m.publisher
          PROVE  Len(hits'[p]) + Cardinality(AtLimiter(p)') <= Cardinality(HashedOf(p)')
      <4>1. HashedOf(p)' = HashedOf(p) \cup {m} /\ m \notin HashedOf(p)
        BY <2>1, <2>3, <3>2 DEF HashedOf
      <4>2. Cardinality(HashedOf(p)') = Cardinality(HashedOf(p)) + 1
        BY <4>1, PaidFinite, FS_AddElement
      <4>3. AtLimiter(p)' \subseteq AtLimiter(p) \cup {g}
        BY <1>5, AcceptEffect DEF AtLimiter, Stage, Goroutines
      <4>4. /\ IsFiniteSet(AtLimiter(p) \cup {g})
            /\ Cardinality(AtLimiter(p) \cup {g}) <= Cardinality(AtLimiter(p)) + 1
        BY PaidFinite, OneMore
      <4>5. /\ Cardinality(AtLimiter(p)') <= Cardinality(AtLimiter(p) \cup {g})
            /\ Cardinality(AtLimiter(p)') \in Nat /\ Cardinality(AtLimiter(p) \cup {g}) \in Nat
        BY <4>3, <4>4, FS_Subset, FS_CardinalityType
      <4>6. Len(hits[p]) + Cardinality(AtLimiter(p)) <= Cardinality(HashedOf(p))
        BY DEF HitsPaid
      <4> QED BY <1>1, <2>1, <4>2, <4>4, <4>5, <4>6, PaidFinite
    <3> QED BY <3>1, <3>2 DEF HitsPaid
  <2> QED BY <1>5, <2>2, <2>3, AcceptEffect
<1>6. ASSUME NEW g \in Goroutines, NEW m \in Universe, handlePublish(g, m) PROVE HitsPaid'
  BY <1>2, <1>6, PublishEffect DEF Hashed
<1>7. ASSUME NEW g \in Goroutines, Allow(g) PROVE HitsPaid'
  <2>1. PICK p \in Publishers, kept \in Seq(Nat) :
           /\ p = pc[g].msg.publisher /\ kept = InWindow(p)
           /\ \A q \in Publishers \ {p} : hits'[q] = hits[q]
           /\ \/ /\ Len(kept) >= MaxPerWindow /\ hits'[p] = kept /\ pc'[g] = Rest(g)
              \/ /\ hits'[p] = Append(kept, clock)
                 /\ pc'[g] \in Busy /\ pc'[g].stage = "policy"
                 /\ pc'[g].msg = pc[g].msg /\ pc'[g].at = clock
    BY <1>7, AllowEffect
  <2>2. /\ g \in Kinds /\ Stage(g) = "allow" /\ hashes' = hashes
        /\ \A h \in Goroutines \ {g} : pc'[h] = pc[h]
    BY <1>7, AllowEffect
  <2>3. Hashed' = Hashed
    BY <2>2 DEF Hashed
  <2>4. pc'[g].stage # "allow"
    BY <2>1, RestFields
  <2>5. Len(kept) \in Nat /\ Len(kept) <= Len(hits[p])
    <3>1. PICK n \in 0 .. Len(hits[p]) : Len(InWindow(p)) = Len(hits[p]) - n
      BY WindowSpec
    <3> QED BY <1>1, <2>1, <3>1
  <2>6. ASSUME NEW q \in Publishers
        PROVE  Len(hits'[q]) + Cardinality(AtLimiter(q)') <= Cardinality(HashedOf(q)')
    <3>1. AtLimiter(q)' \subseteq AtLimiter(q)
      BY <2>2, <2>4 DEF AtLimiter, Stage, Goroutines
    <3>2. CASE q # p \/ hits'[q] = kept
      <4>1. Len(hits'[q]) <= Len(hits[q])
        BY <1>1, <2>1, <2>5, <3>2
      <4> QED BY <1>1, <2>3, <3>1, <4>1, PaidQuiet
    <3>3. CASE q = p /\ hits'[q] = Append(kept, clock)
      <4>1. Len(hits'[q]) = Len(kept) + 1
        BY <3>3, AppendProperties DEF TypeOK
      <4>2. g \in AtLimiter(q) /\ AtLimiter(q)' \subseteq AtLimiter(q) \ {g}
        BY <2>1, <2>2, <2>4, <3>1, <3>3 DEF AtLimiter, Stage
      <4>3. /\ IsFiniteSet(AtLimiter(q) \ {g})
            /\ Cardinality(AtLimiter(q) \ {g}) = Cardinality(AtLimiter(q)) - 1
        BY <4>2, PaidFinite, FS_RemoveElement
      <4>4. /\ Cardinality(AtLimiter(q)') <= Cardinality(AtLimiter(q) \ {g})
            /\ Cardinality(AtLimiter(q)') \in Nat
        BY <4>2, <4>3, FS_Subset, FS_CardinalityType
      <4>5. HashedOf(q)' = HashedOf(q)
        BY <2>3 DEF HashedOf
      <4>6. Len(hits[q]) + Cardinality(AtLimiter(q)) <= Cardinality(HashedOf(q))
        BY DEF HitsPaid
      <4> QED BY <1>1, <2>5, <3>3, <4>1, <4>3, <4>4, <4>5, <4>6, PaidFinite
    <3> QED BY <2>1, <3>2, <3>3
  <2> QED BY <2>6 DEF HitsPaid
<1>8. ASSUME NEW g \in Goroutines, Policy(g) PROVE HitsPaid'
  BY <1>2, <1>8, PolicyEffect, RestFields DEF Hashed
<1>9. ASSUME NEW g \in Goroutines, Record(g) PROVE HitsPaid'
  <2>1. Hashed \subseteq Hashed'
    BY <1>9, RecordEffect, NothingEvicted DEF StagesFit
  <2> QED BY <1>2, <1>9, <2>1, RecordEffect
<1>10. ASSUME NEW g \in Goroutines, AppendInbox(g) PROVE HitsPaid'
  <2>1. hits' = hits /\ Hashed' = Hashed
    BY <1>10 DEF AppendInbox, Hashed
  <2>2. pc'[g].stage # "allow"
    BY <1>10, AppendEffect, RestFields
  <2> QED BY <1>2, <1>10, <2>1, <2>2, AppendEffect
<1>11. ASSUME NEW g \in Goroutines, Broadcast(g) PROVE HitsPaid'
  BY <1>2, <1>11, BroadcastEffect, RestFields DEF Hashed
<1>12. ASSUME NEW g \in Goroutines, requestSnapshot(g) \/ EndSnapshot(g) PROVE HitsPaid'
  <2>1. pc'[g].stage # "allow"
    BY <1>12, SnapshotEffect DEF Idle, Lines
  <2> QED BY <1>2, <1>12, <2>1, SnapshotEffect DEF Hashed
<1> QED BY <1>3, <1>4, <1>5, <1>6, <1>7, <1>8, <1>9, <1>10, <1>11, <1>12 DEF Next

\* At the start nobody owes a hit.
LEMMA PaidInit == Init => HitsPaid
<1> SUFFICES ASSUME Init, NEW p \in Publishers
             PROVE  Len(hits[p]) + Cardinality(AtLimiter(p)) <= Cardinality(HashedOf(p))
  BY DEF HitsPaid
<1>1. AtLimiter(p) = {} /\ HashedOf(p) = {} /\ hits[p] = <<>>
  BY DEF Init, AtLimiter, HashedOf, Hashed, Stage, Idle, Goroutines
<1> QED BY <1>1, FS_EmptySet, EmptySeq

\* docs/PROTOCOL.md limits "new verified payloads per publisher": each hit of a
\* publisher is for another payload of it, copies cost nothing.
THEOREM DuplicatesAreFreeHolds == Spec => []DuplicatesAreFree
<1>1. CASE NoEviction
  <2>1. IInv /\ HitsPaid => DuplicatesAreFree
    <3> SUFFICES ASSUME IInv, HitsPaid, NEW p \in Publishers
                 PROVE  Len(hits[p]) <= Cardinality({m \in Hashed : m.publisher = p})
      BY DEF DuplicatesAreFree
    <3>1. Len(hits[p]) + Cardinality(AtLimiter(p)) <= Cardinality(HashedOf(p))
      BY DEF HitsPaid
    <3>2. Len(hits[p]) \in Nat
      BY LenProperties DEF IInv, TypeOK
    <3>3. Len(hits[p]) <= Cardinality(HashedOf(p))
      BY <3>1, <3>2, PaidFinite
    <3> QED BY <3>3 DEF HashedOf
  <2>2. IInv /\ IInv' /\ HitsPaid /\ [Next]_vars => HitsPaid'
    BY <1>1, PaidStep
  <2> QED BY <2>1, <2>2, PaidInit, InductiveInvariant, PTL DEF Spec
<1>2. CASE ~NoEviction
  <2>1. DuplicatesAreFree
    BY <1>2 DEF DuplicatesAreFree
  <2> QED BY <2>1, PTL
<1> QED BY <1>1, <1>2

-----------------------------------------------------------------------------
(***************************************************************************)
(* The rate bound.                                                         *)
(***************************************************************************)
\* The sets that are counted are finite.
LEMMA GossipFinite ==
    ASSUME TypeOK, NEW p, NEW lo, NEW hi
    PROVE  /\ IsFiniteSet(LinesIn(p, lo, hi)) /\ Cardinality(LinesIn(p, lo, hi)) \in Nat
           /\ IsFiniteSet(PassedIn(p, lo, hi)) /\ Cardinality(PassedIn(p, lo, hi)) \in Nat
<1>1. IsFiniteSet(Since)
  BY LenProperties, FS_Interval DEF TypeOK, Since
<1>2. LinesIn(p, lo, hi) \subseteq Since /\ PassedIn(p, lo, hi) \subseteq Kinds
  BY DEF LinesIn, PassedIn
<1> QED BY <1>1, <1>2, KindsFinite, FS_Subset, FS_CardinalityType

\* Smaller sets, fewer of them.
LEMMA GossipShrinks ==
    ASSUME TypeOK, TypeOK', NEW p, NEW lo, NEW hi,
           LinesIn(p, lo, hi)' \subseteq LinesIn(p, lo, hi),
           PassedIn(p, lo, hi)' \subseteq PassedIn(p, lo, hi)
    PROVE  Gossip(p, lo, hi)' <= Gossip(p, lo, hi) /\ Gossip(p, lo, hi) \in Nat /\ Gossip(p, lo, hi)' \in Nat
<1>1. /\ Cardinality(LinesIn(p, lo, hi)') <= Cardinality(LinesIn(p, lo, hi))
      /\ Cardinality(LinesIn(p, lo, hi)') \in Nat
  BY GossipFinite, FS_Subset, FS_CardinalityType
<1>2. /\ Cardinality(PassedIn(p, lo, hi)') <= Cardinality(PassedIn(p, lo, hi))
      /\ Cardinality(PassedIn(p, lo, hi)') \in Nat
  BY GossipFinite, FS_Subset, FS_CardinalityType
<1>3. Gossip(p, lo, hi)' = Cardinality(LinesIn(p, lo, hi)') + Cardinality(PassedIn(p, lo, hi)')
  BY DEF Gossip
<1> QED BY <1>1, <1>2, <1>3, GossipFinite DEF Gossip

\* The limiter's clock: no gossip passed it in the future.
LEMMA NoGossipAhead ==
    ASSUME TypeOK, HitsCover, NEW p, NEW lo \in Int, NEW hi, clock <= lo
    PROVE  Gossip(p, lo, hi) = 0
<1>1. LinesIn(p, lo, hi) = {}
  <2> SUFFICES ASSUME NEW i \in LinesIn(p, lo, hi) PROVE FALSE
    OBVIOUS
  <2>0. i \in DOMAIN inbox /\ inbox[i] \in Line
    BY LenProperties, ElementOfSeq DEF LinesIn, Since, TypeOK
  <2>1. i \in DOMAIN inbox /\ inbox[i].at \in Nat /\ inbox[i].by \in Kinds /\ inbox[i].at > lo
    BY <2>0 DEF LinesIn, Line
  <2>2. inbox[i].at <= clock
    BY <2>1 DEF HitsCover
  <2> QED BY <2>1, <2>2 DEF TypeOK
<1>2. PassedIn(p, lo, hi) = {}
  <2> SUFFICES ASSUME NEW g \in PassedIn(p, lo, hi) PROVE FALSE
    OBVIOUS
  <2>1. g \in Kinds /\ g \in Goroutines /\ Stage(g) \in {"policy", "append"} /\ pc[g].at > lo
    BY DEF PassedIn, Goroutines
  <2>2. pc[g].at <= clock /\ pc[g].at \in Nat
    BY <2>1, BusyFields DEF HitsCover
  <2> QED BY <2>1, <2>2 DEF TypeOK
<1> QED BY <1>1, <1>2, FS_EmptySet DEF Gossip

\* The window of a later time begins later.
LEMMA Later == \A a, b, w \in Nat, x \in Int : b >= a /\ x >= b - w => x >= a - w
OBVIOUS

\* With the limiter's tables as they are and the gossip counted no more than
\* before, the bounds carry over.
LEMMA RateQuiet ==
    ASSUME IInv, IInv', RateInv, UNCHANGED hits, clock' >= clock,
           \A i \in DOMAIN inbox' : inbox'[i].by \in Kinds => inbox'[i].at <= clock',
           \A g \in Kinds : pc'[g].stage \in {"policy", "append"} => pc'[g].at <= clock',
           \A p \in Publishers, lo \in Int, hi \in Nat :
               Gossip(p, lo, hi)' <= Gossip(p, lo, hi) /\ Gossip(p, lo, hi)' \in Nat /\ Gossip(p, lo, hi) \in Nat
    PROVE  RateInv'
<1> USE DEF RateInv
<1>1. clock \in Nat /\ clock' \in Nat /\ Window \in Nat
  BY ClubdAssumption DEF IInv, TypeOK
<1>2. ASSUME NEW p \in Publishers, NEW s \in Int, NEW hi \in Nat, s >= clock' - Window,
             NEW k \in 0 .. Len(hits'[p]), \A i \in 1 .. k : hits'[p][i] <= s
      PROVE  Gossip(p, s, hi)' <= Len(hits'[p]) - k
  <2>1. s >= clock - Window
    BY <1>1, s >= clock' - Window, Later, Zenon
  <2>2. Gossip(p, s, hi) <= Len(hits[p]) - k
    BY <1>2, <2>1 DEF HitsCover
  <2>3. Len(hits[p]) \in Nat /\ k \in Nat
    BY <1>2, LenProperties DEF IInv, TypeOK
  <2> QED BY <2>2, <2>3
<1>3. HitsCover'
  BY <1>2 DEF HitsCover, Stage
<1>4. RateKept'
  <2> SUFFICES ASSUME NEW p \in Publishers, NEW t \in Nat PROVE Gossip(p, t - Window, t)' <= MaxPerWindow
    BY DEF RateKept
  <2>1. Gossip(p, t - Window, t) <= MaxPerWindow
    BY DEF RateKept
  <2>2. t - Window \in Int
    BY <1>1
  <2> QED BY <2>1, <2>2, ClubdAssumption
<1> QED BY <1>3, <1>4

\* One goroutine moves, the inbox stays, and it does not newly count as gossip.
LEMMA RateMove ==
    ASSUME IInv, IInv', RateInv, UNCHANGED <<clock, hits, inbox, booted>>, NEW g \in Goroutines,
           \A h \in Goroutines \ {g} : pc'[h] = pc[h],
           g \in Kinds /\ pc'[g].stage \in {"policy", "append"} =>
               /\ Stage(g) \in {"policy", "append"}
               /\ pc'[g].msg = pc[g].msg /\ pc'[g].at = pc[g].at
    PROVE  RateInv'
<1>1. ASSUME NEW p \in Publishers, NEW lo \in Int, NEW hi \in Nat
      PROVE  Gossip(p, lo, hi)' <= Gossip(p, lo, hi) /\ Gossip(p, lo, hi)' \in Nat /\ Gossip(p, lo, hi) \in Nat
  <2>1. LinesIn(p, lo, hi)' = LinesIn(p, lo, hi)
    BY DEF LinesIn, Since
  <2>2. PassedIn(p, lo, hi)' \subseteq PassedIn(p, lo, hi)
    BY DEF PassedIn, Stage, Goroutines
  <2> QED BY <2>1, <2>2, GossipShrinks DEF IInv
<1>2. \A i \in DOMAIN inbox' : inbox'[i].by \in Kinds => inbox'[i].at <= clock'
  BY DEF RateInv, HitsCover
<1>3. \A h \in Kinds : pc'[h].stage \in {"policy", "append"} => pc'[h].at <= clock'
  BY DEF RateInv, HitsCover, Stage, Goroutines
<1>4. clock' >= clock
  BY DEF IInv, TypeOK
<1> QED BY <1>1, <1>2, <1>3, <1>4, RateQuiet

\* A payload on its way becomes a line: it counts as before.
LEMMA RateAppend ==
    ASSUME IInv, IInv', RateInv, NEW g \in Goroutines, AppendInbox(g)
    PROVE  RateInv'
<1>1. UNCHANGED <<clock, hits, booted>> /\ Stage(g) = "append"
  BY DEF AppendInbox, Stage
<1>2. /\ \A h \in Goroutines \ {g} : pc'[h] = pc[h]
      /\ pc'[g].stage \notin {"policy", "append"}
  BY AppendEffect, RestFields
<1>3. CASE inbox' = inbox
  BY <1>1, <1>2, <1>3, RateMove
<1>4. ASSUME NEW l \in Line, l.msg = pc[g].msg, l.by = g, l.at = pc[g].at, inbox' = Append(inbox, l)
      PROVE  RateInv'
  <2> DEFINE z == Len(inbox) + 1
  <2>1. /\ \A i \in DOMAIN inbox : i \in DOMAIN inbox' /\ inbox'[i] = inbox[i]
        /\ inbox'[z] = l /\ Since \subseteq DOMAIN inbox
        /\ Since' = Since \cup {z} /\ z \notin Since
    BY <1>1, <1>4, InboxGrows DEF IInv
  <2>2. \A i \in DOMAIN inbox' : i \in DOMAIN inbox \/ i = z
    <3>1. Len(inbox') = Len(inbox) + 1 /\ inbox' \in Seq(Line) /\ inbox \in Seq(Line)
      BY <1>1, <1>4, InboxGrows DEF IInv, TypeOK
    <3>2. DOMAIN inbox = 1 .. Len(inbox) /\ DOMAIN inbox' = 1 .. Len(inbox) + 1 /\ Len(inbox) \in Nat
      BY <3>1, LenProperties
    <3> QED BY <3>2
  <2> HIDE DEF z
  <2>3. ASSUME NEW p \in Publishers, NEW lo \in Int, NEW hi \in Nat
        PROVE  Gossip(p, lo, hi)' <= Gossip(p, lo, hi) /\ Gossip(p, lo, hi)' \in Nat /\ Gossip(p, lo, hi) \in Nat
    <3>1. PassedIn(p, lo, hi)' \subseteq PassedIn(p, lo, hi)
      BY <1>2 DEF PassedIn, Stage, Goroutines
    <3>2. CASE g \in PassedIn(p, lo, hi)
      <4>1. LinesIn(p, lo, hi)' \subseteq LinesIn(p, lo, hi) \cup {z}
        BY <2>1 DEF LinesIn
      <4>2. PassedIn(p, lo, hi)' \subseteq PassedIn(p, lo, hi) \ {g}
        BY <1>2, <3>1 DEF PassedIn, Stage
      <4>3. /\ Cardinality(LinesIn(p, lo, hi)') <= Cardinality(LinesIn(p, lo, hi) \cup {z})
            /\ Cardinality(LinesIn(p, lo, hi) \cup {z}) <= Cardinality(LinesIn(p, lo, hi)) + 1
            /\ Cardinality(LinesIn(p, lo, hi)') \in Nat
            /\ Cardinality(LinesIn(p, lo, hi) \cup {z}) \in Nat
            /\ Cardinality(LinesIn(p, lo, hi)) \in Nat
        BY <4>1, GossipFinite, OneMore, FS_Subset, FS_CardinalityType DEF IInv
      <4>4. /\ IsFiniteSet(PassedIn(p, lo, hi) \ {g})
            /\ Cardinality(PassedIn(p, lo, hi) \ {g}) = Cardinality(PassedIn(p, lo, hi)) - 1
            /\ Cardinality(PassedIn(p, lo, hi)) \in Nat
        BY <3>2, GossipFinite, FS_RemoveElement DEF IInv
      <4>5. /\ Cardinality(PassedIn(p, lo, hi)') <= Cardinality(PassedIn(p, lo, hi) \ {g})
            /\ Cardinality(PassedIn(p, lo, hi)') \in Nat
        BY <4>2, <4>4, FS_Subset, FS_CardinalityType
      <4>6. Gossip(p, lo, hi)' = Cardinality(LinesIn(p, lo, hi)') + Cardinality(PassedIn(p, lo, hi)')
        BY DEF Gossip
      <4> QED BY <4>3, <4>4, <4>5, <4>6 DEF Gossip
    <3>3. CASE g \notin PassedIn(p, lo, hi)
      <4>1. ASSUME NEW i \in LinesIn(p, lo, hi)' PROVE i \in LinesIn(p, lo, hi)
        <5>1. i # z
          BY <1>1, <1>4, <2>1, <3>3 DEF LinesIn, PassedIn
        <5> QED BY <2>1, <5>1 DEF LinesIn
      <4> QED BY <3>1, <4>1, GossipShrinks DEF IInv
    <3> QED BY <3>2, <3>3
  <2>4. \A i \in DOMAIN inbox' : inbox'[i].by \in Kinds => inbox'[i].at <= clock'
    <3>1. g \in Kinds => pc[g].at <= clock
      BY <1>1 DEF RateInv, HitsCover
    <3> QED BY <1>1, <1>4, <2>1, <2>2, <3>1 DEF RateInv, HitsCover
  <2>5. \A h \in Kinds : pc'[h].stage \in {"policy", "append"} => pc'[h].at <= clock'
    BY <1>1, <1>2 DEF RateInv, HitsCover, Stage, Goroutines
  <2>6. clock' >= clock
    BY <1>1 DEF IInv, TypeOK
  <2> QED BY <1>1, <2>3, <2>4, <2>5, <2>6, RateQuiet
<1> QED BY <1>3, <1>4, AppendEffect, ZenonT(40)

\* The limiter drops the hits that have left the window, and then either drops
\* the payload, or lets it pass and counts it.
LEMMA RateAllow ==
    ASSUME IInv, IInv', RateInv, NEW g \in Goroutines, Allow(g)
    PROVE  RateInv'
<1>1. PICK p \in Publishers, kept \in Seq(Nat) :
           /\ p = pc[g].msg.publisher /\ kept = InWindow(p)
           /\ \A q \in Publishers \ {p} : hits'[q] = hits[q]
           /\ \/ /\ Len(kept) >= MaxPerWindow /\ hits'[p] = kept /\ pc'[g] = Rest(g)
              \/ /\ hits'[p] = Append(kept, clock)
                 /\ pc'[g] \in Busy /\ pc'[g].stage = "policy"
                 /\ pc'[g].msg = pc[g].msg /\ pc'[g].at = clock
  BY AllowEffect
<1>2. /\ g \in Kinds /\ Stage(g) = "allow" /\ UNCHANGED <<clock, inbox, booted>>
      /\ \A h \in Goroutines \ {g} : pc'[h] = pc[h]
  BY AllowEffect
<1>3. PICK n \in 0 .. Len(hits[p]) :
             /\ Len(kept) = Len(hits[p]) - n
             /\ \A i \in 1 .. Len(hits[p]) - n : kept[i] = hits[p][n + i]
             /\ \A i \in 1 .. n : hits[p][i] <= clock - Window
  BY <1>1, WindowSpec, ZenonT(40) DEF IInv
<1>4. /\ clock \in Nat /\ Window \in Nat /\ MaxPerWindow \in Nat /\ clock - Window \in Int
      /\ Len(kept) \in Nat /\ Len(hits[p]) \in Nat /\ n \in Nat
      /\ \A q \in Publishers : Len(hits[q]) \in Nat /\ Len(hits'[q]) \in Nat
      /\ \A i \in 1 .. Len(hits[p]) : hits[p][i] \in Nat
  BY ClubdAssumption, LenProperties, ElementOfSeq, SMTT(40) DEF IInv, TypeOK
\* What was counted before the call fits the hits that are kept.
<1>5. ASSUME NEW s \in Int, NEW hi \in Nat, s >= clock - Window,
             NEW k \in 0 .. Len(kept), \A i \in 1 .. k : kept[i] <= s
      PROVE  Gossip(p, s, hi) <= Len(kept) - k
  <2>1. n + k \in 0 .. Len(hits[p]) /\ Len(hits[p]) - (n + k) = Len(kept) - k
    BY <1>3, <1>4
  <2>2. ASSUME NEW i \in 1 .. n + k PROVE hits[p][i] <= s
    <3>1. CASE i \in 1 .. n
      <4>1. hits[p][i] <= clock - Window /\ hits[p][i] \in Nat
        BY <1>3, <1>4, <3>1
      <4> QED BY <1>4, <1>5, <4>1, SMTT(30)
    <3>2. CASE i \notin 1 .. n
      <4>1. i - n \in 1 .. k /\ i - n \in 1 .. Len(hits[p]) - n /\ n + (i - n) = i
        BY <1>3, <1>4, <3>2
      <4>2. kept[i - n] <= s /\ kept[i - n] = hits[p][n + (i - n)]
        BY <1>3, <1>5, <4>1
      <4> QED BY <4>1, <4>2
    <3> QED BY <3>1, <3>2
  <2>3. Gossip(p, s, hi) <= Len(hits[p]) - (n + k)
    BY <1>5, <2>1, <2>2 DEF RateInv, HitsCover
  <2> QED BY <2>1, <2>3
<1>6. ASSUME NEW q, NEW lo, NEW hi
      PROVE  LinesIn(q, lo, hi)' = LinesIn(q, lo, hi)
  BY <1>2 DEF LinesIn, Since
\* Gossip of others, and what is counted up to an earlier time, stays.
<1>7. ASSUME NEW q \in Publishers, NEW lo \in Int, NEW hi \in Nat,
             pc'[g] = Rest(g) \/ q # p \/ hi < clock
      PROVE  Gossip(q, lo, hi)' <= Gossip(q, lo, hi) /\ Gossip(q, lo, hi)' \in Nat /\ Gossip(q, lo, hi) \in Nat
  <2>1. g \notin PassedIn(q, lo, hi)'
    <3>1. CASE pc'[g] = Rest(g)
      BY <3>1, RestFields DEF PassedIn, Stage
    <3>2. CASE pc'[g].msg = pc[g].msg /\ q # p
      BY <1>1, <3>2 DEF PassedIn
    <3>3. CASE pc'[g].at = clock /\ hi < clock
      BY <1>4, <3>3 DEF PassedIn
    <3> QED BY <1>1, <1>7, <3>1, <3>2, <3>3
  <2>2. PassedIn(q, lo, hi)' \subseteq PassedIn(q, lo, hi)
    BY <1>2, <2>1 DEF PassedIn, Stage, Goroutines
  <2> QED BY <1>6, <2>2, GossipShrinks DEF IInv
<1>8. ASSUME NEW lo \in Int, NEW hi \in Nat
      PROVE  Gossip(p, lo, hi)' <= Gossip(p, lo, hi) + 1 /\ Gossip(p, lo, hi)' \in Nat /\ Gossip(p, lo, hi) \in Nat
  <2>1. PassedIn(p, lo, hi)' \subseteq PassedIn(p, lo, hi) \cup {g}
    BY <1>2 DEF PassedIn, Stage, Goroutines
  <2>2. /\ IsFiniteSet(PassedIn(p, lo, hi) \cup {g})
        /\ Cardinality(PassedIn(p, lo, hi) \cup {g}) \in Nat
        /\ Cardinality(PassedIn(p, lo, hi) \cup {g}) <= Cardinality(PassedIn(p, lo, hi)) + 1
    BY GossipFinite, OneMore DEF IInv
  <2>3. /\ Cardinality(PassedIn(p, lo, hi)') <= Cardinality(PassedIn(p, lo, hi) \cup {g})
        /\ Cardinality(PassedIn(p, lo, hi)') \in Nat
    BY <2>1, <2>2, FS_Subset, FS_CardinalityType
  <2>4. Cardinality(LinesIn(p, lo, hi)) \in Nat /\ Cardinality(PassedIn(p, lo, hi)) \in Nat
    BY GossipFinite DEF IInv
  <2>5. Gossip(p, lo, hi)' = Cardinality(LinesIn(p, lo, hi)) + Cardinality(PassedIn(p, lo, hi)')
    BY <1>6 DEF Gossip
  <2> QED BY <2>2, <2>3, <2>4, <2>5, SMTT(30) DEF Gossip
<1>9. /\ \A i \in DOMAIN inbox' : inbox'[i].by \in Kinds => inbox'[i].at <= clock'
      /\ \A h \in Kinds : Stage(h)' \in {"policy", "append"} => pc'[h].at <= clock'
  <2>1. ASSUME NEW h \in Kinds, pc'[h].stage \in {"policy", "append"} PROVE pc'[h].at <= clock'
    <3>1. CASE h # g
      BY <1>2, <2>1, <3>1 DEF RateInv, HitsCover, Stage, Goroutines
    <3>2. CASE h = g
      BY <1>1, <1>2, <1>4, <2>1, <3>2, RestFields, SMTT(40)
    <3> QED BY <3>1, <3>2
  <2> QED BY <1>2, <2>1 DEF RateInv, HitsCover, Stage
\* Nothing passed after the present.
<1>10. ASSUME NEW lo \in Int, NEW hi \in Nat, clock <= lo, pc'[g].at = clock
       PROVE  Gossip(p, lo, hi)' = 0
  <2>1. Gossip(p, lo, hi) = 0
    BY <1>10, NoGossipAhead DEF IInv, RateInv
  <2>2. g \notin PassedIn(p, lo, hi)'
    BY <1>4, <1>10 DEF PassedIn
  <2>3. PassedIn(p, lo, hi)' \subseteq PassedIn(p, lo, hi)
    BY <1>2, <2>2 DEF PassedIn, Stage, Goroutines
  <2>4. Gossip(p, lo, hi)' <= Gossip(p, lo, hi) /\ Gossip(p, lo, hi)' \in Nat
    BY <1>6, <2>3, GossipShrinks DEF IInv
  <2> QED BY <2>1, <2>4
<1>11. ASSUME NEW q \in Publishers, NEW s \in Int, NEW hi \in Nat, s >= clock - Window,
              NEW k \in 0 .. Len(hits'[q]), \A i \in 1 .. k : hits'[q][i] <= s
       PROVE  Gossip(q, s, hi)' <= Len(hits'[q]) - k
  <2>1. CASE q # p
    <3>1. hits'[q] = hits[q] /\ Gossip(q, s, hi)' <= Gossip(q, s, hi) /\ Gossip(q, s, hi)' \in Nat /\ Gossip(q, s, hi) \in Nat
      BY <1>1, <1>7, <2>1
    <3>2. Gossip(q, s, hi) <= Len(hits[q]) - k
      BY <1>11, <3>1 DEF RateInv, HitsCover
    <3> QED BY <1>4, <3>1, <3>2
  <2>2. CASE q = p /\ hits'[p] = kept /\ pc'[g] = Rest(g)
    <3>1. Gossip(p, s, hi) <= Len(kept) - k
      BY <1>5, <1>11, <2>2
    <3>2. Gossip(p, s, hi)' <= Gossip(p, s, hi) /\ Gossip(p, s, hi)' \in Nat /\ Gossip(p, s, hi) \in Nat
      BY <1>7, <2>2
    <3> QED BY <1>4, <2>2, <3>1, <3>2
  <2>3. CASE q = p /\ hits'[p] = Append(kept, clock) /\ pc'[g].at = clock
    <3>1. /\ Len(hits'[p]) = Len(kept) + 1
          /\ \A i \in 1 .. Len(kept) : hits'[p][i] = kept[i]
          /\ hits'[p][Len(kept) + 1] = clock
      BY <1>4, <2>3, AppendProperties
    <3>2. CASE k = Len(kept) + 1
      <4>1. clock <= s
        <5>1. Len(kept) + 1 \in 1 .. k
          BY <1>4, <3>2
        <5> QED BY <1>11, <2>3, <3>1, <5>1
      <4>2. Gossip(p, s, hi)' = 0
        BY <1>10, <2>3, <4>1
      <4> QED BY <1>4, <2>3, <3>1, <3>2, <4>2
    <3>3. CASE k \in 0 .. Len(kept)
      <4>1. \A i \in 1 .. k : kept[i] <= s
        <5>1. \A i \in 1 .. k : i \in 1 .. Len(kept)
          BY <1>4, <3>3
        <5> QED BY <1>11, <2>3, <3>1, <5>1
      <4>2. Gossip(p, s, hi) <= Len(kept) - k
        BY <1>5, <1>11, <3>3, <4>1
      <4>3. Gossip(p, s, hi)' <= Gossip(p, s, hi) + 1 /\ Gossip(p, s, hi)' \in Nat /\ Gossip(p, s, hi) \in Nat
        BY <1>8
      <4> QED BY <1>4, <2>3, <3>1, <3>3, <4>2, <4>3
    <3>4. k \in 0 .. Len(kept) \/ k = Len(kept) + 1
      <4>1. k \in 0 .. Len(kept) + 1
        BY <1>11, <2>3, <3>1
      <4> QED BY <1>4, <4>1
    <3> QED BY <3>2, <3>3, <3>4
  <2> QED BY <1>1, <2>1, <2>2, <2>3
<1>12. HitsCover'
  BY <1>2, <1>9, <1>11 DEF HitsCover
<1>13. ASSUME NEW q \in Publishers, NEW t \in Nat
       PROVE  Gossip(q, t - Window, t)' <= MaxPerWindow
  <2>1. Gossip(q, t - Window, t) <= MaxPerWindow /\ t - Window \in Int
    BY <1>4 DEF RateInv, RateKept
  <2>2. CASE t < clock
    <3>1. Gossip(q, t - Window, t)' <= Gossip(q, t - Window, t) /\ Gossip(q, t - Window, t)' \in Nat /\ Gossip(q, t - Window, t) \in Nat
      BY <1>7, <2>1, <2>2
    <3> QED BY <1>4, <2>1, <3>1
  <2>3. CASE t >= clock
    <3>1. t - Window >= clock - Window
      BY <1>4, <2>3
    <3>2. 0 \in 0 .. Len(hits'[q]) /\ \A i \in 1 .. 0 : hits'[q][i] <= t - Window
      BY <1>4
    <3>3. Gossip(q, t - Window, t)' <= Len(hits'[q]) - 0
      BY <1>11, <2>1, <3>1, <3>2
    <3>4. Len(hits'[q]) <= MaxPerWindow
      BY DEF IInv, HitsOrdered
    <3>5. Gossip(q, t - Window, t)' \in Nat
      <4>1. CASE q = p
        BY <1>8, <2>1, <4>1
      <4>2. CASE q # p
        BY <1>7, <2>1, <4>2
      <4> QED BY <4>1, <4>2
    <3> QED BY <1>4, <3>3, <3>4, <3>5
  <2> QED BY <1>4, <2>2, <2>3
<1> QED BY <1>12, <1>13 DEF RateInv, RateKept

\* A restart forgets the hits and begins a new run of clubd.
LEMMA RateRestart ==
    ASSUME IInv, IInv', RateInv, Restart
    PROVE  RateInv'
<1>1. Since' = {} /\ (\A h \in Kinds : pc'[h] = Idle) /\ (\A p \in Publishers : hits'[p] = <<>>)
  BY LenProperties DEF Restart, Since, IInv, TypeOK, Goroutines
<1>2. ASSUME NEW p, NEW lo, NEW hi PROVE Gossip(p, lo, hi)' = 0
  <2>1. LinesIn(p, lo, hi)' = {}
    BY <1>1 DEF LinesIn
  <2>2. PassedIn(p, lo, hi)' = {}
    BY <1>1 DEF PassedIn, Stage, Idle
  <2> QED BY <2>1, <2>2, FS_EmptySet DEF Gossip
<1>3. /\ \A i \in DOMAIN inbox' : inbox'[i].by \in Kinds => inbox'[i].at <= clock'
      /\ \A h \in Kinds : Stage(h)' \notin {"policy", "append"}
  BY <1>1 DEF Restart, RateInv, HitsCover, Stage, Idle
<1>4. ASSUME NEW q \in Publishers, NEW s \in Int, NEW hi \in Nat, NEW k \in 0 .. Len(hits'[q])
      PROVE  Gossip(q, s, hi)' <= Len(hits'[q]) - k
  <2>1. Len(hits'[q]) = 0
    BY <1>1, EmptySeq
  <2>2. k = 0
    BY <1>4, <2>1
  <2> QED BY <1>2, <2>1, <2>2
<1>5. HitsCover'
  BY <1>3, <1>4 DEF HitsCover
<1>6. RateKept'
  BY <1>2, ClubdAssumption DEF RateKept
<1> QED BY <1>5, <1>6 DEF RateInv

\* No action lets a window overflow.
LEMMA RateStep ==
    ASSUME IInv, IInv', RateInv, [Next]_vars
    PROVE  RateInv'
<1>1. CASE UNCHANGED vars \/ Tick
  <2>1. clock' >= clock /\ UNCHANGED <<hits, inbox, booted, pc>> /\ clock' \in Nat /\ clock \in Nat
    BY <1>1 DEF vars, Tick, IInv, TypeOK
  <2>2. ASSUME NEW p \in Publishers, NEW lo \in Int, NEW hi \in Nat
        PROVE  Gossip(p, lo, hi)' <= Gossip(p, lo, hi) /\ Gossip(p, lo, hi)' \in Nat /\ Gossip(p, lo, hi) \in Nat
    <3>1. LinesIn(p, lo, hi)' = LinesIn(p, lo, hi) /\ PassedIn(p, lo, hi)' = PassedIn(p, lo, hi)
      BY <2>1 DEF LinesIn, PassedIn, Since, Stage
    <3> QED BY <3>1, GossipShrinks DEF IInv
  <2>3. \A i \in DOMAIN inbox' : inbox'[i].by \in Kinds => inbox'[i].at <= clock'
    <3>1. \A i \in DOMAIN inbox : inbox[i].at \in Nat
      <4>1. \A i \in DOMAIN inbox : inbox[i] \in Line
        BY LenProperties, ElementOfSeq DEF IInv, TypeOK
      <4> QED BY <4>1 DEF Line
    <3>2. \A i \in DOMAIN inbox : inbox[i].by \in Kinds => inbox[i].at <= clock
      BY DEF RateInv, HitsCover
    <3> QED BY <2>1, <3>1, <3>2
  <2>4. \A h \in Kinds : pc'[h].stage \in {"policy", "append"} => pc'[h].at <= clock'
    <3>1. \A h \in Kinds : Stage(h) \in {"policy", "append"} => pc[h].at <= clock /\ pc[h].at \in Nat
      BY BusyFields DEF RateInv, HitsCover, IInv, Goroutines
    <3> QED BY <2>1, <3>1 DEF Stage
  <2> QED BY <2>1, <2>2, <2>3, <2>4, RateQuiet
<1>2. CASE Restart
  BY <1>2, RateRestart
<1>3. ASSUME NEW g \in Goroutines, NEW m \in Universe, acceptGossip(g, m) PROVE RateInv'
  <2>1. CASE pc' = pc
    BY <1>3, <2>1, AcceptEffect, RateMove DEF Stage
  <2>2. CASE pc'[g].stage = IF g \in Kinds THEN "allow" ELSE "policy"
    BY <1>3, <2>2, AcceptEffect, RateMove
  <2> QED BY <1>3, <2>1, <2>2, AcceptEffect
<1>4. ASSUME NEW g \in Goroutines, NEW m \in Universe, handlePublish(g, m) PROVE RateInv'
  BY <1>4, PublishEffect, RateMove
<1>5. ASSUME NEW g \in Goroutines, Allow(g) PROVE RateInv'
  BY <1>5, RateAllow
<1>6. ASSUME NEW g \in Goroutines, Policy(g) PROVE RateInv'
  <2>1. CASE pc'[g] = Rest(g)
    BY <1>6, <2>1, PolicyEffect, RestFields, RateMove
  <2>2. CASE pc'[g].msg = pc[g].msg /\ pc'[g].at = pc[g].at
    BY <1>6, <2>2, PolicyEffect, RateMove
  <2> QED BY <1>6, <2>1, <2>2, PolicyEffect
<1>7. ASSUME NEW g \in Goroutines, Record(g) PROVE RateInv'
  BY <1>7, RecordEffect, Names, RateMove
<1>8. ASSUME NEW g \in Goroutines, AppendInbox(g) PROVE RateInv'
  BY <1>8, RateAppend
<1>9. ASSUME NEW g \in Goroutines, Broadcast(g) PROVE RateInv'
  BY <1>9, BroadcastEffect, RestFields, RateMove
<1>10. ASSUME NEW g \in Goroutines, requestSnapshot(g) \/ EndSnapshot(g) PROVE RateInv'
  BY <1>10, SnapshotEffect, RateMove DEF Idle, Lines
<1> QED BY <1>1, <1>2, <1>3, <1>4, <1>5, <1>6, <1>7, <1>8, <1>9, <1>10 DEF Next

\* At the start there is no gossip.
LEMMA RateInit == Init => RateInv
<1> SUFFICES ASSUME Init PROVE RateInv
  OBVIOUS
<1>1. Since = {} /\ inbox = <<>> /\ (\A h \in Kinds : pc[h] = Idle) /\ (\A p \in Publishers : hits[p] = <<>>)
  BY EmptySeq DEF Init, Since, Goroutines
<1>2. ASSUME NEW p, NEW lo, NEW hi PROVE Gossip(p, lo, hi) = 0
  <2>1. LinesIn(p, lo, hi) = {} /\ PassedIn(p, lo, hi) = {}
    BY <1>1 DEF LinesIn, PassedIn, Stage, Idle
  <2> QED BY <2>1, FS_EmptySet DEF Gossip
<1>3. ASSUME NEW q \in Publishers, NEW s \in Int, NEW hi \in Nat, NEW k \in 0 .. Len(hits[q])
      PROVE  Gossip(q, s, hi) <= Len(hits[q]) - k
  <2>1. Len(hits[q]) = 0
    BY <1>1, EmptySeq
  <2>2. k = 0
    BY <1>3, <2>1
  <2> QED BY <1>2, <2>1, <2>2
<1>4. HitsCover
  BY <1>1, <1>3, EmptySeq DEF HitsCover, Stage, Idle
<1>5. RateKept
  BY <1>2, ClubdAssumption DEF RateKept
<1> QED BY <1>4, <1>5 DEF RateInv

\* Of the gossip of one publisher that reached the inbox, no window of the
\* limiter's length saw more than max_msgs_per_peer_per_min arrive.
THEOREM RateBoundHolds == Spec => []RateBound
<1>1. IInv /\ RateInv => RateBound
  <2> SUFFICES ASSUME IInv, RateInv, NEW p \in Publishers, NEW t \in 0 .. clock
               PROVE  Cardinality(LinesIn(p, t - Window, t)) <= MaxPerWindow
    BY DEF RateBound, LinesIn
  <2>1. t \in Nat /\ Gossip(p, t - Window, t) <= MaxPerWindow
    BY DEF RateInv, RateKept, IInv, TypeOK
  <2>2. /\ Cardinality(LinesIn(p, t - Window, t)) \in Nat
        /\ Cardinality(PassedIn(p, t - Window, t)) \in Nat
    BY GossipFinite DEF IInv
  <2> QED BY <2>1, <2>2, ClubdAssumption DEF Gossip
<1>2. IInv /\ IInv' /\ RateInv /\ [Next]_vars => RateInv'
  BY RateStep
<1> QED BY <1>1, <1>2, RateInit, InductiveInvariant, PTL DEF Spec

-----------------------------------------------------------------------------
(***************************************************************************)
(* What may become of a payload between the critical sections.             *)
(***************************************************************************)
\* A line that was written, or is about to be.
OnItsWay(m) == Appended(m) \/ \E g \in Goroutines : Stage(g) \in {"record", "append"} /\ pc[g].msg = m

\* A payload that passed the claim policy gets to the inbox, or its line cannot
\* be written.
LEMMA OnItsWayStays ==
    ASSUME IInv, NEW m, OnItsWay(m), [Next]_vars, ~Restart
    PROVE  OnItsWay(m)' \/ Unwritten(m)
<1> USE DEF IInv
<1>1. ASSUME NEW g \in Goroutines, UNCHANGED <<inbox, booted>>,
             \A h \in Goroutines \ {g} : pc'[h] = pc[h],
             \/ Stage(g) \notin {"record", "append"}
             \/ pc'[g].stage \in {"record", "append"} /\ pc'[g].msg = pc[g].msg
      PROVE  OnItsWay(m)'
  <2>1. CASE Appended(m)
    BY <1>1, <2>1 DEF OnItsWay, Appended, Since
  <2>2. CASE \E h \in Goroutines : Stage(h) \in {"record", "append"} /\ pc[h].msg = m
    BY <1>1, <2>2 DEF OnItsWay, Stage
  <2> QED BY <2>1, <2>2 DEF OnItsWay
<1>2. CASE UNCHANGED vars \/ Tick
  BY <1>2 DEF vars, Tick, OnItsWay, Appended, Since, Stage
<1>3. ASSUME NEW g \in Goroutines, NEW n \in Universe, acceptGossip(g, n) PROVE OnItsWay(m)'
  <2>1. pc[g] \in {Idle, Lines}
    BY <1>3, AcceptEffect DEF TypeOK
  <2>2. Stage(g) \notin {"record", "append"}
    BY <2>1 DEF Idle, Lines, Stage
  <2>3. \A h \in Goroutines \ {g} : pc'[h] = pc[h]
    BY <1>3, AcceptEffect
  <2> QED BY <1>1, <1>3, <2>2, <2>3, AcceptEffect
<1>4. ASSUME NEW g \in Goroutines, NEW n \in Universe, handlePublish(g, n) PROVE OnItsWay(m)'
  BY <1>1, <1>4, PublishEffect DEF Idle, Stage
<1>5. ASSUME NEW g \in Goroutines, Allow(g) PROVE OnItsWay(m)'
  <2>1. Stage(g) \notin {"record", "append"}
    BY <1>5, AllowEffect
  <2> QED BY <1>1, <1>5, <2>1, AllowEffect
<1>6. ASSUME NEW g \in Goroutines, Policy(g) PROVE OnItsWay(m)'
  <2>1. Stage(g) \notin {"record", "append"}
    BY <1>6, PolicyEffect
  <2> QED BY <1>1, <1>6, <2>1, PolicyEffect
<1>7. ASSUME NEW g \in Goroutines, Record(g) PROVE OnItsWay(m)'
  BY <1>1, <1>7, RecordEffect
<1>8. ASSUME NEW g \in Goroutines, AppendInbox(g) PROVE OnItsWay(m)' \/ Unwritten(m)
  <2>1. booted' = booted /\ \A h \in Goroutines \ {g} : pc'[h] = pc[h]
    BY <1>8, AppendEffect DEF AppendInbox
  <2>2. ASSUME NEW l \in Line, l.msg = pc[g].msg, inbox' = Append(inbox, l) PROVE OnItsWay(m)'
    <3>1. (\A x : Appended(x) => Appended(x)') /\ Appended(l.msg)'
      BY <2>1, <2>2, InboxGrows
    <3>2. CASE pc[g].msg = m
      BY <2>2, <3>1, <3>2 DEF OnItsWay
    <3>3. CASE pc[g].msg # m
      BY <2>1, <3>1, <3>3 DEF OnItsWay, Stage
    <3> QED BY <3>2, <3>3
  <2>3. CASE inbox' = inbox /\ pc[g].msg = m
    BY <1>8, <2>3 DEF Unwritten
  <2>4. CASE inbox' = inbox /\ pc[g].msg # m
    BY <2>1, <2>4 DEF OnItsWay, Stage, Appended, Since
  <2> QED BY <1>8, <2>2, <2>3, <2>4, AppendEffect
<1>9. ASSUME NEW g \in Goroutines, Broadcast(g) PROVE OnItsWay(m)'
  <2>1. Stage(g) \notin {"record", "append"}
    BY <1>9, BroadcastEffect
  <2> QED BY <1>1, <1>9, <2>1, BroadcastEffect
<1>10. ASSUME NEW g \in Goroutines, requestSnapshot(g) \/ EndSnapshot(g) PROVE OnItsWay(m)'
  <2>1. Stage(g) \notin {"record", "append"}
    BY <1>10, SnapshotEffect DEF Idle, Lines, Stage
  <2> QED BY <1>1, <1>10, <2>1, SnapshotEffect
<1> QED BY <1>2, <1>3, <1>4, <1>5, <1>6, <1>7, <1>8, <1>9, <1>10 DEF Next

\* The claim policy gives a publisher's slot to the claim it lets pass, and to
\* nobody else.
LEMMA PolicySlots ==
    ASSUME TypeOK, NEW m \in Universe, applyClaimPolicy(m), NEW p \in Publishers,
           live'[p] # None, live'[p] # live[p]
    PROVE  /\ m.kind = "claim" /\ ~Refused(m) /\ m.publisher = p /\ Slot(m) = live'[p]
<1>1. live \in [Publishers -> [cid : Cids, until : Nat] \cup {None}] /\ m.publisher \in Publishers
  BY PayloadFields DEF TypeOK
<1>2. CASE m.kind = "claim" /\ ~Refused(m)
  <2>1. live' = [live EXCEPT ![m.publisher] = Slot(m)]
    BY <1>2 DEF applyClaimPolicy
  <2> QED BY <1>1, <1>2, <2>1
<1>3. CASE m.kind \in {"classify", "skip"}
  <2>1. live' = Cleared(m)
    BY <1>3 DEF applyClaimPolicy
  <2> QED BY <1>1, <2>1 DEF Cleared
<1>4. CASE ~(m.kind = "claim" /\ ~Refused(m)) /\ m.kind \notin {"classify", "skip"}
  BY <1>4 DEF applyClaimPolicy
<1> QED BY <1>2, <1>3, <1>4

\* A slot is taken only by a goroutine that goes on to append its claim, and the
\* claim stays on its way until its line is in the inbox, or cannot be written.
LEMMA SlotStep ==
    ASSUME IInv, [Next]_vars, NEW p \in Publishers, live'[p] # None,
           live'[p] = live[p] => Announced(p)
    PROVE  Announced(p)' \/ \E m \in Universe : Slot(m) = live[p] /\ Unwritten(m)
<1> USE DEF IInv
<1>0. /\ Announced(p) <=> \E m \in Universe :
                            m.kind = "claim" /\ m.publisher = p /\ Slot(m) = live[p] /\ OnItsWay(m)
      /\ Announced(p)' <=> \E m \in Universe :
                             m.kind = "claim" /\ m.publisher = p /\ Slot(m) = live'[p] /\ OnItsWay(m)'
  BY DEF Announced, OnItsWay, Stage, Slot
<1>1. ~Restart
  BY DEF Restart
<1>2. CASE live'[p] = live[p]
  <2>1. PICK m \in Universe : m.kind = "claim" /\ m.publisher = p /\ Slot(m) = live[p] /\ OnItsWay(m)
    BY <1>0, <1>2
  <2> QED BY <1>0, <1>1, <1>2, <2>1, OnItsWayStays
<1>3. CASE live'[p] # live[p]
  <2>1. ASSUME NEW g \in Goroutines, NEW m \in Universe, handlePublish(g, m)
        PROVE  m.kind = "claim" /\ m.publisher = p /\ Slot(m) = live'[p] /\ OnItsWay(m)'
    <3>1. m.kind = "claim" /\ m.publisher = p /\ Slot(m) = live'[p]
      BY <1>3, <2>1, PublishEffect, PolicySlots
    <3>2. pc'[g].stage = "record" /\ pc'[g].msg = m
      BY <2>1, PublishEffect
    <3> QED BY <3>1, <3>2 DEF OnItsWay, Stage
  <2>2. ASSUME NEW g \in Goroutines, Policy(g)
        PROVE  \E m \in Universe : m.kind = "claim" /\ m.publisher = p /\ Slot(m) = live'[p] /\ OnItsWay(m)'
    <3>1. PICK m \in Universe : m = pc[g].msg
      BY <2>2, PolicyEffect
    <3>2. m.kind = "claim" /\ ~Refused(m) /\ m.publisher = p /\ Slot(m) = live'[p]
      BY <1>3, <2>2, <3>1, PolicyEffect, PolicySlots
    <3>3. pc'[g].stage = "append" /\ pc'[g].msg = m
      BY <2>2, <3>1, <3>2, PolicyEffect
    <3> QED BY <3>2, <3>3 DEF OnItsWay, Stage
  <2>3. \/ \E g \in Goroutines, m \in Universe : handlePublish(g, m)
        \/ \E g \in Goroutines : Policy(g)
        \/ live' = live
    BY <1>1 DEF Next, Tick, acceptGossip, Allow, Record, AppendInbox, Broadcast, requestSnapshot,
       EndSnapshot, vars
  <2> QED BY <1>0, <1>3, <2>1, <2>2, <2>3
<1> QED BY <1>2, <1>3

\* A refused claim never blocks its publisher: a slot is held for a claim that
\* is in the inbox or about to be, but for one whose line could not be written.
THEOREM SlotAnnouncedHolds == Spec => SlotAnnounced
<1> DEFINE Taken == \A p \in Publishers :
             live'[p] # None /\ (live'[p] = live[p] => Announced(p)) =>
                 Announced(p)' \/ \E m \in Universe : Slot(m) = live[p] /\ Unwritten(m)
<1>1. IInv /\ [Next]_vars => [Taken]_vars
  <2> SUFFICES ASSUME IInv, [Next]_vars PROVE Taken
    OBVIOUS
  <2> QED BY SlotStep
<1> QED BY <1>1, InductiveInvariant, PTL DEF Spec, SlotAnnounced

-----------------------------------------------------------------------------
\* What was known to the limiter and is in the inbox or in hand, or is new to
\* it, is in the inbox or in hand after the step, unless the step drops it.
Kept(m) == Appended(m) \/ InFlight(m)
Dropped(m) == Throttled(m) \/ TurnedDown(m) \/ Unwritten(m)

LEMMA KeptStep ==
    ASSUME IInv, [Next]_vars, NEW n \in Hashed', n \in Hashed => Kept(n)
    PROVE  Kept(n)' \/ Dropped(n)
<1> USE DEF IInv
<1>1. ~Restart
  BY DEF Restart, Hashed
<1>2. CASE UNCHANGED vars \/ Tick
  BY <1>2 DEF vars, Tick, Kept, Hashed, Appended, Since, InFlight
\* What g had in hand is kept, or is this payload and dropped.
<1>3. ASSUME NEW g \in Goroutines, \A h \in Goroutines \ {g} : pc'[h] = pc[h],
             UNCHANGED <<inbox, booted>>,
             \/ pc[g] \notin Busy
             \/ pc'[g] \in Busy /\ pc'[g].msg = pc[g].msg
             \/ pc[g] \in Busy /\ (pc[g].msg = n => Dropped(n) \/ Appended(n)),
             n \notin Hashed => pc'[g] \in Busy /\ pc'[g].msg = n
      PROVE  Kept(n)' \/ Dropped(n)
  <2>1. CASE n \notin Hashed
    BY <1>3, <2>1 DEF Kept, InFlight
  <2>2. CASE Appended(n)
    BY <1>3, <2>2 DEF Kept, Appended, Since
  <2>3. ASSUME NEW h \in Goroutines, pc[h] \in Busy, pc[h].msg = n, ~Appended(n)
        PROVE  Kept(n)' \/ Dropped(n)
    <3>1. CASE h # g
      BY <1>3, <2>3, <3>1 DEF Kept, InFlight
    <3>2. CASE h = g
      BY <1>3, <2>3, <3>2 DEF Kept, InFlight
    <3> QED BY <3>1, <3>2
  <2> QED BY <2>1, <2>2, <2>3 DEF Kept, InFlight
<1>4. ASSUME NEW g \in Goroutines, NEW m \in Universe, acceptGossip(g, m) PROVE Kept(n)' \/ Dropped(n)
  <2>1. Hashed' \subseteq Hashed \cup {m}
    BY <1>4, AcceptEffect, Remembers DEF StagesFit
  <2>2. n \notin Hashed => pc'[g] \in Busy /\ pc'[g].msg = n
    <3>1. hashes' = hashes => Hashed' = Hashed
      BY DEF Hashed
    <3> QED BY <1>4, <2>1, <3>1, AcceptEffect DEF Remembered
  <2>3. \A h \in Goroutines \ {g} : pc'[h] = pc[h]
    BY <1>4, AcceptEffect
  <2> QED BY <1>3, <1>4, <2>2, <2>3, AcceptEffect
<1>5. ASSUME NEW g \in Goroutines, NEW m \in Universe, handlePublish(g, m) PROVE Kept(n)' \/ Dropped(n)
  <2>1. Hashed' = Hashed /\ pc[g] \notin Busy
    BY <1>5, PublishEffect, RestFields DEF Hashed
  <2> QED BY <1>3, <1>5, <2>1, PublishEffect
<1>6. ASSUME NEW g \in Goroutines, Allow(g) PROVE Kept(n)' \/ Dropped(n)
  <2>1. PICK p \in Publishers, kept \in Seq(Nat) :
           /\ p = pc[g].msg.publisher /\ kept = InWindow(p)
           /\ \/ Len(kept) >= MaxPerWindow
              \/ pc'[g] \in Busy /\ pc'[g].msg = pc[g].msg
    BY <1>6, AllowEffect
  <2>2. Hashed' = Hashed /\ pc[g] \in Busy
    BY <1>6, AllowEffect DEF Hashed
  <2>3. Len(kept) >= MaxPerWindow /\ pc[g].msg = n => Dropped(n)
    BY <1>6, <2>1 DEF Dropped, Throttled
  <2> QED BY <1>3, <1>6, <2>1, <2>2, <2>3, AllowEffect
<1>7. ASSUME NEW g \in Goroutines, Policy(g) PROVE Kept(n)' \/ Dropped(n)
  <2>1. Hashed' = Hashed
    BY <1>7, PolicyEffect DEF Hashed
  <2>2. Refused(pc[g].msg) /\ pc[g].msg = n => Dropped(n)
    BY <1>7 DEF Dropped, TurnedDown
  <2> QED BY <1>3, <1>7, <2>1, <2>2, PolicyEffect
<1>8. ASSUME NEW g \in Goroutines, Record(g) PROVE Kept(n)' \/ Dropped(n)
  <2>1. Hashed' \subseteq Hashed \cup {pc[g].msg}
    BY <1>8, RecordEffect, Remembers DEF StagesFit
  <2> QED BY <1>3, <1>8, <2>1, RecordEffect
<1>9. ASSUME NEW g \in Goroutines, AppendInbox(g) PROVE Kept(n)' \/ Dropped(n)
  <2>1. booted' = booted /\ Kept(n) /\ \A h \in Goroutines \ {g} : pc'[h] = pc[h]
    BY <1>9, AppendEffect DEF AppendInbox, Hashed
  <2>2. ASSUME NEW l \in Line, l.msg = pc[g].msg, inbox' = Append(inbox, l) PROVE Kept(n)'
    <3>1. (\A x : Appended(x) => Appended(x)') /\ Appended(l.msg)'
      BY <2>1, <2>2, InboxGrows
    <3>2. CASE Appended(n) \/ pc[g].msg = n
      BY <2>2, <3>1, <3>2 DEF Kept
    <3>3. CASE pc[g].msg # n /\ InFlight(n)
      BY <2>1, <3>3 DEF Kept, InFlight
    <3> QED BY <2>1, <3>2, <3>3 DEF Kept
  <2>3. CASE inbox' = inbox
    <3>1. pc[g].msg = n => Dropped(n)
      BY <1>9, <2>3 DEF Dropped, Unwritten
    <3>2. n \in Hashed /\ pc[g] \in Busy
      BY <1>9, AppendEffect DEF AppendInbox, Hashed
    <3> QED BY <1>3, <2>1, <2>3, <3>1, <3>2
  <2> QED BY <1>9, <2>2, <2>3, AppendEffect
<1>10. ASSUME NEW g \in Goroutines, Broadcast(g) PROVE Kept(n)' \/ Dropped(n)
  <2>1. Hashed' = Hashed
    BY <1>10, BroadcastEffect DEF Hashed
  <2> QED BY <1>3, <1>10, <2>1, BroadcastEffect
<1>11. ASSUME NEW g \in Goroutines, requestSnapshot(g) \/ EndSnapshot(g) PROVE Kept(n)' \/ Dropped(n)
  <2>1. Hashed' = Hashed /\ pc[g] \notin Busy
    BY <1>11, SnapshotEffect, RestFields DEF Hashed
  <2> QED BY <1>3, <1>11, <2>1, SnapshotEffect
<1> QED BY <1>1, <1>2, <1>4, <1>5, <1>6, <1>7, <1>8, <1>9, <1>10, <1>11 DEF Next

\* A payload is appended once, before the peers hear of it, and one the limiter
\* has recorded is lost only to the rate limit, the claim policy or the disk,
\* for any interleaving of consumers, pullers and requests.
THEOREM InboxExactHolds == Spec => InboxExact
<1> DEFINE Accepted == \A m \in Hashed' :
             (m \in Hashed => Appended(m) \/ InFlight(m)) =>
                 \/ (Appended(m) \/ InFlight(m))'
                 \/ Throttled(m) \/ TurnedDown(m) \/ Unwritten(m)
<1>1. IInv /\ [Next]_vars => [Accepted]_vars
  <2> SUFFICES ASSUME IInv, [Next]_vars, NEW m \in Hashed', m \in Hashed => Kept(m)
               PROVE  Kept(m)' \/ Dropped(m)
    BY DEF Kept, Dropped
  <2> QED BY KeptStep
<1>2. Spec => HashedAccepted
  BY <1>1, InductiveInvariant, PTL DEF Spec, HashedAccepted
<1> QED BY <1>2, NoDoubleAppendHolds, AppendFirstHolds, PTL DEF InboxExact
=============================================================================
