---------------------------- MODULE InboxProofs ----------------------------
(***************************************************************************)
(* Proofs about Inbox, for every choice of its constants: any number of    *)
(* days, lines and crashes, any keep period and any cap.                   *)
(***************************************************************************)
EXTENDS Inbox, TLAPS, FiniteSetTheorems, SequenceTheorems, WellFoundedInduction

-----------------------------------------------------------------------------
(***************************************************************************)
(* The inductive invariant.                                                *)
(***************************************************************************)
\* The offset of line i in its file.
Before(i) == {j \in LinesOf(log[i]) : j < i}
Rank(i) == Cardinality(Before(i))

\* No offset is past the end of its file, and all before it is ingested, also
\* in a file that is deleted.
Behind(offsets) ==
    /\ \A f \in Days : offsets[f] <= Size(f)
    /\ \A i \in DOMAIN log : Rank(i) < offsets[log[i]] => i \in ingested

\* The same holds of drain_once's copy of the offsets, and of the position in
\* the file it reads; prune_inbox counts no more lines than there are in the
\* files it has listed, wherever they are now.
CopyBehind(copy) ==
    copy # Idle =>
        /\ Behind(copy.offsets)
        /\ copy.stage = "read" =>
             /\ copy.pos <= Size(copy.cur)
             /\ \A i \in DOMAIN log : log[i] = copy.cur /\ Rank(i) < copy.pos => i \in ingested
        /\ copy.stage \in {"age", "cap"} =>
             copy.todo \subseteq copy.listed /\ copy.total <= Total(log, copy.listed)

\* No file is of a day to come.
NoFuture == files \subseteq 1 .. day

IInv == TypeOK /\ NoFuture /\ CapHolds /\ Behind(saved) /\ CopyBehind(drain)

-----------------------------------------------------------------------------
(***************************************************************************)
(* Facts about the operators.                                              *)
(***************************************************************************)
\* A non-empty set of naturals has a least element.
LEMMA LeastNatural ==
    ASSUME NEW S \in SUBSET Nat, S # {}
    PROVE  Min(S) \in S /\ \A y \in S : Min(S) <= y
<1>1. \E x \in S : \A y \in S : ~ (<<y, x>> \in OpToRel(<, Nat))
  BY WFMin, NatLessThanWellFounded
<1>2. OpToRel(<, Nat) = {ss \in Nat \X Nat : ss[1] < ss[2]}
  BY Zenon DEF OpToRel
<1>3. \A x, y \in S : ~ (<<y, x>> \in {ss \in Nat \X Nat : ss[1] < ss[2]}) => x <= y
  OBVIOUS
<1>4. \E x \in S : \A y \in S : x <= y
  BY <1>1, <1>2, <1>3, Zenon
<1> QED BY <1>4 DEF Min

\* The lines of a file are finitely many.
LEMMA LinesFinite ==
    ASSUME TypeOK, NEW f
    PROVE  /\ LinesOf(f) \subseteq DOMAIN log /\ DOMAIN log = 1 .. Len(log) /\ Len(log) \in Nat
           /\ IsFiniteSet(LinesOf(f)) /\ Size(f) \in Nat
<1>1. DOMAIN log = 1 .. Len(log) /\ Len(log) \in Nat
  BY LenProperties DEF TypeOK
<1>2. IsFiniteSet(1 .. Len(log)) /\ LinesOf(f) \subseteq 1 .. Len(log)
  BY <1>1, FS_Interval DEF LinesOf
<1> QED BY <1>1, <1>2, FS_Subset, FS_CardinalityType DEF Size

\* A line comes before the end of its file, and later lines come later.
LEMMA RankBound ==
    ASSUME TypeOK, NEW i \in DOMAIN log
    PROVE  /\ Rank(i) \in Nat /\ Rank(i) < Size(log[i])
           /\ \A k \in DOMAIN log : log[k] = log[i] /\ i < k => Rank(i) < Rank(k)
<1> DEFINE L == LinesOf(log[i])
<1>1. IsFiniteSet(L) /\ L \subseteq Nat /\ i \in L /\ i \in Nat
  BY LinesFinite DEF LinesOf
<1>2. Before(i) \subseteq L \ {i} /\ Before(i) \subseteq L
  BY <1>1 DEF Before
<1>3. IsFiniteSet(Before(i)) /\ Rank(i) \in Nat
  BY <1>1, <1>2, FS_Subset, FS_CardinalityType DEF Rank
<1>4. ASSUME NEW S, IsFiniteSet(S), Before(i) \subseteq S, i \in S
      PROVE  Rank(i) < Cardinality(S)
  <2>1. Before(i) \subseteq S \ {i} /\ IsFiniteSet(S \ {i}) /\ Cardinality(S \ {i}) = Cardinality(S) - 1
    BY <1>2, <1>4, FS_RemoveElement
  <2>2. Rank(i) <= Cardinality(S \ {i}) /\ Cardinality(S) \in Nat
    BY <1>4, <2>1, FS_Subset, FS_CardinalityType DEF Rank
  <2> QED BY <1>3, <2>1, <2>2
<1>5. Rank(i) < Size(log[i])
  BY <1>1, <1>2, <1>4 DEF Size
<1>6. ASSUME NEW k \in DOMAIN log, log[k] = log[i], i < k PROVE Rank(i) < Rank(k)
  <2>1. Before(i) \subseteq Before(k) /\ i \in Before(k) /\ Before(k) \subseteq L
    <3>1. k \in Nat /\ Before(k) = {j \in L : j < k}
      BY <1>6, LinesFinite DEF Before
    <3> QED BY <1>1, <1>6, <3>1 DEF Before
  <2>2. IsFiniteSet(Before(k))
    BY <1>1, <2>1, FS_Subset
  <2> QED BY <1>4, <2>1, <2>2 DEF Rank
<1> QED BY <1>3, <1>5, <1>6

\* Every offset below the size of a file is that of one line: the one drain_once
\* reads there.
LEMMA LineAtOffset ==
    ASSUME TypeOK, NEW f, NEW n \in Nat, n < Size(f)
    PROVE  /\ LineAt(f, n) \in LinesOf(f) /\ Rank(LineAt(f, n)) = n
           /\ \A i \in LinesOf(f) : Rank(i) = n => i = LineAt(f, n)
<1> DEFINE L == LinesOf(f)
           s == Size(f)
           r == [i \in L |-> Rank(i)]
<1>1. /\ IsFiniteSet(L) /\ s \in Nat /\ s = Cardinality(L)
      /\ \A i \in L : i \in DOMAIN log /\ i \in Nat /\ log[i] = f
  <2>1. IsFiniteSet(L) /\ s \in Nat /\ L \subseteq DOMAIN log /\ DOMAIN log = 1 .. Len(log) /\ Len(log) \in Nat
    BY LinesFinite
  <2>2. s = Cardinality(L)
    BY DEF Size
  <2>3. \A i \in L : log[i] = f
    BY DEF LinesOf
  <2> QED BY <2>1, <2>2, <2>3
<1>2. \A i \in L : Rank(i) \in 0 .. s - 1
  BY <1>1, RankBound
<1>3. \A i, j \in L : Rank(i) = Rank(j) => i = j
  <2> SUFFICES ASSUME NEW i \in L, NEW j \in L, i < j PROVE Rank(i) # Rank(j)
    BY <1>1
  <2>1. Rank(i) < Rank(j) /\ Rank(i) \in Nat /\ Rank(j) \in Nat
    BY <1>1, RankBound
  <2> QED BY <2>1
<1>4. IsFiniteSet(0 .. s - 1) /\ Cardinality(0 .. s - 1) = s
  <2> HIDE DEF s, r
  <2>1. s \in Nat /\ 0 \in Int /\ s - 1 \in Int
    BY <1>1
  <2>2. IsFiniteSet(0 .. s - 1) /\ Cardinality(0 .. s - 1) = IF 0 > s - 1 THEN 0 ELSE (s - 1) - 0 + 1
    BY <2>1, FS_Interval
  <2> QED BY <2>1, <2>2
<1> HIDE DEF L, s
<1>5. r \in [L -> 0 .. s - 1] /\ \A i, j \in L : r[i] = r[j] => i = j
  BY <1>2, <1>3
<1> HIDE DEF r
<1>6. r \in Injection(L, 0 .. s - 1)
  BY <1>5, Zenon DEF Injection, IsInjective
<1>7. r \in Surjection(L, 0 .. s - 1)
  BY <1>1, <1>4, <1>6, FS_Injection
<1>8. \E i \in L : r[i] = n
  <2>1. n \in 0 .. s - 1
    BY <1>1 DEF s
  <2> QED BY <1>7, <2>1 DEF Surjection
<1>9. \E i \in L : Rank(i) = n
  BY <1>8 DEF r
<1>10. \A i \in L : Rank(i) = Cardinality({j \in L : j < i})
  BY <1>1 DEF L, Rank, Before
<1>11. LineAt(f, n) = CHOOSE i \in L : Cardinality({j \in L : j < i}) = n
  BY DEF LineAt, L
<1>12. LineAt(f, n) \in L /\ Rank(LineAt(f, n)) = n
  BY <1>9, <1>10, <1>11
<1> QED BY <1>3, <1>12 DEF L

\* Appending a line changes no offset of the lines before it, and puts it at the
\* end of its file.
LEMMA AppendRanks ==
    ASSUME TypeOK, NEW d \in Days, log' = Append(log, d), NEW z, z = Len(log) + 1
    PROVE  /\ log' \in Seq(Days) /\ Len(log') = Len(log) + 1 /\ Len(log) \in Nat
           /\ DOMAIN log' = DOMAIN log \cup {z} /\ z \notin DOMAIN log
           /\ log'[z] = d
           /\ \A i \in DOMAIN log : log'[i] = log[i] /\ Rank(i)' = Rank(i)
           /\ Rank(z)' = Size(d)
           /\ \A f \in Days : LinesOf(f)' = IF f = d THEN LinesOf(f) \cup {z} ELSE LinesOf(f)
           /\ \A f \in Days : Size(f) <= Size(f)'
<1>1. log \in Seq(Days) /\ Len(log) \in Nat /\ DOMAIN log = 1 .. Len(log)
  BY LenProperties DEF TypeOK
<1>2. /\ log' \in Seq(Days) /\ Len(log') = Len(log) + 1 /\ DOMAIN log' = 1 .. Len(log) + 1
      /\ log'[z] = d /\ \A i \in 1 .. Len(log) : log'[i] = log[i]
  BY <1>1, AppendProperties, LenProperties
<1>3. DOMAIN log' = DOMAIN log \cup {z} /\ z \notin DOMAIN log
  BY <1>1, <1>2
<1>4. ASSUME NEW f \in Days
      PROVE  LinesOf(f)' = IF f = d THEN LinesOf(f) \cup {z} ELSE LinesOf(f)
  BY <1>1, <1>2, <1>3, <1>4 DEF LinesOf
<1>5. ASSUME NEW i \in DOMAIN log PROVE Rank(i)' = Rank(i)
  <2>1. log'[i] = log[i] /\ log[i] \in Days /\ i \in Nat /\ i < z
    BY <1>1, <1>2, ElementOfSeq
  <2>2. PICK f \in Days : f = log[i]
    BY <2>1
  <2>3. Before(i)' = {j \in LinesOf(f)' : j < i} /\ Before(i) = {j \in LinesOf(f) : j < i}
    BY <2>1, <2>2 DEF Before, LinesOf
  <2>4. Before(i)' = Before(i)
    BY <1>1, <1>4, <2>1, <2>3
  <2> QED BY <2>4 DEF Rank
<1>6. Rank(z)' = Size(d)
  <2>1. Before(z)' = {j \in LinesOf(d)' : j < z}
    BY <1>2 DEF Before, LinesOf
  <2>2. \A j \in LinesOf(d) : j \in Nat /\ j < z
    BY <1>1 DEF LinesOf
  <2>3. LinesOf(d)' = LinesOf(d) \cup {z} /\ z \in Nat
    BY <1>1, <1>4
  <2>4. Before(z)' = LinesOf(d)
    <3>1. ~(z < z)
      BY <2>3
    <3>2. \A j : j \in LinesOf(d)' /\ j < z <=> j \in LinesOf(d)
      BY <2>2, <2>3, <3>1, Zenon
    <3> QED BY <2>1, <3>2, Zenon
  <2> QED BY <2>4 DEF Rank, Size
<1>7. ASSUME NEW f \in Days PROVE Size(f) <= Size(f)'
  <2>1. IsFiniteSet(LinesOf(f)') /\ LinesOf(f) \subseteq LinesOf(f)'
    <3>1. LinesOf(f)' \subseteq 1 .. Len(log) + 1 /\ IsFiniteSet(1 .. Len(log) + 1)
      BY <1>1, <1>2, FS_Interval DEF LinesOf
    <3> QED BY <1>4, <3>1, FS_Subset
  <2>2. Cardinality(LinesOf(f)) <= Cardinality(LinesOf(f)')
    BY <2>1, FS_Subset
  <2> QED BY <2>2 DEF Size
<1> QED BY <1>1, <1>2, <1>3, <1>4, <1>5, <1>6, <1>7

\* More files, more bytes.
LEMMA TotalGrows ==
    ASSUME NEW l \in Seq(Days), NEW E, NEW F, E \subseteq F
    PROVE  Total(l, E) \in Nat /\ Total(l, F) \in Nat /\ Total(l, E) <= Total(l, F)
<1> DEFINE A == {i \in DOMAIN l : l[i] \in E}
           B == {i \in DOMAIN l : l[i] \in F}
<1>1. DOMAIN l = 1 .. Len(l) /\ Len(l) \in Nat
  BY LenProperties
<1>2. IsFiniteSet(B) /\ A \subseteq B
  <2>1. IsFiniteSet(1 .. Len(l)) /\ B \subseteq 1 .. Len(l)
    BY <1>1, FS_Interval
  <2> QED BY <2>1, FS_Subset
<1>3. Cardinality(A) \in Nat /\ Cardinality(B) \in Nat /\ Cardinality(A) <= Cardinality(B)
  BY <1>2, FS_Subset, FS_CardinalityType
<1> QED BY <1>3 DEF Total

\* A file that is taken off a list is taken off its total with its size.
LEMMA TotalLess ==
    ASSUME TypeOK, NEW E, NEW f \in E
    PROVE  Total(log, E) = Total(log, E \ {f}) + Size(f) /\ Size(f) \in Nat /\ Total(log, E \ {f}) \in Nat
<1> DEFINE A == {i \in DOMAIN log : log[i] \in E}
           B == {i \in DOMAIN log : log[i] \in E \ {f}}
           L == LinesOf(f)
<1>1. A = B \cup L /\ B \cap L = {}
  BY DEF LinesOf
<1>2. IsFiniteSet(L) /\ Size(f) \in Nat /\ Size(f) = Cardinality(L)
  BY LinesFinite DEF Size
<1>3. IsFiniteSet(B)
  <2>1. DOMAIN log = 1 .. Len(log) /\ Len(log) \in Nat
    BY LinesFinite
  <2>2. IsFiniteSet(1 .. Len(log)) /\ B \subseteq 1 .. Len(log)
    BY <2>1, FS_Interval
  <2> QED BY <2>2, FS_Subset
<1> HIDE DEF A, B, L
<1>4. Cardinality(B \cup L) = Cardinality(B) + Cardinality(L) - Cardinality(B \cap L)
  BY <1>2, <1>3, FS_Union
<1>5. Cardinality({}) = 0 /\ Cardinality(B) \in Nat
  BY <1>3, FS_EmptySet, FS_CardinalityType
<1>6. Cardinality(A) = Cardinality(B) + Size(f)
  <2>1. Cardinality(A) = Cardinality(B \cup L) /\ Cardinality(B \cap L) = Cardinality({})
    BY <1>1
  <2>2. Cardinality(L) = Size(f) /\ Size(f) \in Nat
    BY <1>2
  <2> QED BY <1>4, <1>5, <2>1, <2>2
<1>7. Total(log, E) = Cardinality(A) /\ Total(log, E \ {f}) = Cardinality(B)
  BY DEF Total, A, B
<1> QED BY <1>2, <1>5, <1>6, <1>7

\* Lines only add to a total.
LEMMA TotalAppend ==
    ASSUME TypeOK, NEW d \in Days, log' = Append(log, d), NEW E
    PROVE  Total(log, E) \in Nat /\ Total(log', E) \in Nat /\ Total(log, E) <= Total(log', E)
<1> DEFINE A == {i \in DOMAIN log : log[i] \in E}
           B == {i \in DOMAIN log' : log'[i] \in E}
<1>1. PICK z : z = Len(log) + 1
  OBVIOUS
<1>2. /\ log' \in Seq(Days) /\ DOMAIN log' = DOMAIN log \cup {z}
      /\ \A i \in DOMAIN log : log'[i] = log[i]
  BY <1>1, AppendRanks
<1>3. A \subseteq B
  BY <1>2
<1>4. IsFiniteSet(B)
  <2>1. DOMAIN log' = 1 .. Len(log') /\ Len(log') \in Nat
    BY <1>2, LenProperties
  <2>2. IsFiniteSet(1 .. Len(log')) /\ B \subseteq 1 .. Len(log')
    BY <2>1, FS_Interval
  <2> QED BY <2>2, FS_Subset
<1>5. Cardinality(A) \in Nat /\ Cardinality(B) \in Nat /\ Cardinality(A) <= Cardinality(B)
  BY <1>3, <1>4, FS_Subset, FS_CardinalityType
<1> QED BY <1>5 DEF Total

\* What the cap leaves: today's file, and of the others those above a day.  All
\* of it fits, or only today's is left; and a file goes only if all files were
\* too much.
LEMMA CapKeeps ==
    ASSUME NEW l, NEW E \in SUBSET Days, day \in Days, E \subseteq 1 .. day
    PROVE  /\ CapKept(l, E) \subseteq E
           /\ day \in E => day \in CapKept(l, E)
           /\ Total(l, CapKept(l, E)) <= MaxSize \/ CapKept(l, E) \subseteq {day}
           /\ CapKept(l, E) # E => ~(Total(l, E) <= MaxSize)
<1> DEFINE fits == {k \in Days : k <= day /\ Total(l, E \cap k .. day) <= MaxSize} \cup {day}
           m == Min(fits)
<1>1. fits \subseteq Nat /\ day \in fits /\ \A k \in fits : k \in Days /\ k <= day /\ 1 <= k
  BY DEF Days
<1>2. m \in fits /\ \A k \in fits : m <= k
  BY <1>1, LeastNatural
<1>3. CapKept(l, E) = {f \in E : f >= m}
  BY DEF CapKept
<1>4. \A f \in E : f \in Nat /\ 1 <= f /\ f <= day
  BY DEF Days
<1>5. m \in Nat /\ m <= day /\ day \in Nat
  BY <1>1, <1>2
<1>6. Total(l, CapKept(l, E)) <= MaxSize \/ CapKept(l, E) \subseteq {day}
  <2>1. CASE m = day
    <3>1. \A f \in E : f >= m => f = day
      BY <1>4, <1>5, <2>1
    <3> QED BY <1>3, <3>1
  <2>2. CASE m # day
    <3>1. Total(l, E \cap m .. day) <= MaxSize
      BY <1>2, <2>2
    <3> HIDE DEF m, fits
    <3>2. \A f \in E : f \in m .. day <=> f >= m
      <4> SUFFICES ASSUME NEW f \in E PROVE f \in m .. day <=> f >= m
        OBVIOUS
      <4>1. f \in Nat /\ f <= day
        BY <1>4
      <4> QED BY <1>5, <4>1
    <3> QED BY <1>3, <3>1, <3>2
  <2> QED BY <2>1, <2>2
<1>7. ASSUME CapKept(l, E) # E, Total(l, E) <= MaxSize PROVE FALSE
  <2>1. E \cap 1 .. day = E /\ 1 \in Days /\ 1 <= day
    <3>1. day \in Nat /\ 1 <= day /\ 1 \in Days
      BY InboxAssumption DEF Days
    <3> HIDE DEF m, fits
    <3> QED BY <3>1
  <2>2. 1 \in fits
    BY <1>7, <2>1
  <2>3. m <= 1
    BY <1>2, <2>2
  <2> HIDE DEF m, fits
  <2>4. \A f \in E : f >= m
    BY <1>4, <1>5, <2>3
  <2> QED BY <1>3, <1>7, <2>4
<1> HIDE DEF m, fits
<1>8. day \in E => day \in CapKept(l, E)
  BY <1>3, <1>5
<1> QED BY <1>3, <1>6, <1>7, <1>8

-----------------------------------------------------------------------------
(***************************************************************************)
(* The steps.                                                              *)
(***************************************************************************)
Copies == Reading \cup Pausing \cup Pruning \cup {Idle}

\* drain_once's copy by its stage.
LEMMA CopyFields ==
    ASSUME NEW copy \in Copies
    PROVE  /\ copy.stage = "read" => /\ copy \in Reading /\ copy.pos \in Nat
                                     /\ copy.cur \in Days /\ copy.todo \subseteq Days
           /\ copy.stage \in {"next", "save"} => copy \in Pausing /\ copy.todo \subseteq Days
           /\ copy.stage \in {"age", "cap"} => /\ copy \in Pruning /\ copy.todo \subseteq Days
                                              /\ copy.listed \subseteq Days
                                              /\ copy.total \in Int /\ copy.today \in Days
           /\ copy.stage \in {"read", "next", "age", "cap", "save"} => copy # Idle
           /\ copy # Idle => copy.offsets \in [Days -> Nat]
<1>1. Idle.stage = "idle"
  BY DEF Idle
<1>2. \A c \in Reading : c.stage = "read" /\ c.pos \in Nat /\ c.cur \in Days
                        /\ c.offsets \in [Days -> Nat] /\ c.todo \subseteq Days
  BY DEF Reading
<1>3. \A c \in Pausing : c.stage \in {"next", "save"} /\ c.offsets \in [Days -> Nat] /\ c.todo \subseteq Days
  BY DEF Pausing
<1>4. \A c \in Pruning : /\ c.stage \in {"age", "cap"} /\ c.offsets \in [Days -> Nat]
                         /\ c.todo \subseteq Days /\ c.listed \subseteq Days
                         /\ c.total \in Int /\ c.today \in Days
  BY DEF Pruning
<1> QED BY <1>1, <1>2, <1>3, <1>4 DEF Copies

\* Lines only come at the end and ingest only adds: no offset gets ahead.
LEMMA StaysBehind ==
    ASSUME TypeOK, ingested \subseteq ingested',
           log' = log \/ \E d \in Days : log' = Append(log, d)
    PROVE  /\ \A o \in [Days -> Nat] : Behind(o) => Behind(o)'
           /\ \A c \in Copies : CopyBehind(c) => CopyBehind(c)'
<1>1. CASE log' = log
  <2>1. /\ \A f : Size(f)' = Size(f) /\ Total(log', f) = Total(log, f)
        /\ \A i : Rank(i)' = Rank(i)
    BY <1>1 DEF Size, Rank, Before, LinesOf
  <2>2. ASSUME NEW o, Behind(o) PROVE Behind(o)'
    BY <1>1, <2>1, <2>2 DEF Behind
  <2>3. ASSUME NEW c \in Copies, CopyBehind(c) PROVE CopyBehind(c)'
    BY <1>1, <2>1, <2>2, <2>3 DEF CopyBehind
  <2> QED BY <2>2, <2>3
<1>2. ASSUME NEW d \in Days, log' = Append(log, d)
      PROVE  /\ \A o \in [Days -> Nat] : Behind(o) => Behind(o)'
             /\ \A c \in Copies : CopyBehind(c) => CopyBehind(c)'
  <2>1. PICK z : z = Len(log) + 1
    OBVIOUS
  <2>2. /\ DOMAIN log' = DOMAIN log \cup {z} /\ log'[z] = d
        /\ \A i \in DOMAIN log : log'[i] = log[i] /\ Rank(i)' = Rank(i)
        /\ Rank(z)' = Size(d)
        /\ \A f \in Days : Size(f) <= Size(f)' /\ Size(f) \in Nat /\ Size(f)' \in Nat
    <3>1. TypeOK => \A f \in Days : Size(f) \in Nat
      BY LinesFinite
    <3>2. \A f \in Days : Size(f)' \in Nat
      <4> SUFFICES ASSUME NEW f \in Days PROVE Cardinality(LinesOf(f)') \in Nat
        BY DEF Size
      <4>1. LinesOf(f)' \subseteq LinesOf(f) \cup {z} /\ IsFiniteSet(LinesOf(f))
        BY <1>2, <2>1, AppendRanks, LinesFinite
      <4>2. IsFiniteSet(LinesOf(f)')
        BY <4>1, FS_AddElement, FS_Subset
      <4> QED BY <4>2, FS_CardinalityType
    <3> QED BY <1>2, <2>1, <3>1, <3>2, AppendRanks
  <2>3. \A i \in DOMAIN log : log[i] \in Days
    BY ElementOfSeq, LenProperties DEF TypeOK
  <2>4. ASSUME NEW o \in [Days -> Nat], Behind(o) PROVE Behind(o)'
    <3>1. ASSUME NEW f \in Days PROVE o[f] <= Size(f)'
      <4>1. o[f] <= Size(f) /\ o[f] \in Nat
        BY <2>4 DEF Behind
      <4> QED BY <2>2, <4>1
    <3>2. ~(Size(d) < o[d])
      <4>1. o[d] <= Size(d) /\ o[d] \in Nat /\ Size(d) \in Nat
        BY <1>2, <2>2, <2>4 DEF Behind
      <4> QED BY <4>1
    <3>3. ASSUME NEW i \in DOMAIN log', Rank(i)' < o[log'[i]] PROVE i \in ingested'
      <4>1. i # z
        BY <2>2, <3>2, <3>3
      <4>2. i \in DOMAIN log /\ Rank(i) < o[log[i]]
        BY <2>2, <3>3, <4>1
      <4> QED BY <2>4, <4>2 DEF Behind
    <3> QED BY <3>1, <3>3 DEF Behind
  <2>5. ASSUME NEW c \in Copies, CopyBehind(c) PROVE CopyBehind(c)'
    <3>1. CASE c = Idle
      BY <3>1 DEF CopyBehind
    <3>2. CASE c # Idle
      <4>1. c.offsets \in [Days -> Nat] /\ Behind(c.offsets)
        BY <2>5, <3>2, CopyFields DEF CopyBehind
      <4>2. Behind(c.offsets)'
        BY <2>4, <4>1
      <4>3. ASSUME c.stage = "read"
            PROVE  /\ c.pos <= Size(c.cur)'
                   /\ \A i \in DOMAIN log' : log'[i] = c.cur /\ Rank(i)' < c.pos => i \in ingested'
        <5>1. /\ c.pos \in Nat /\ c.cur \in Days /\ c.pos <= Size(c.cur)
              /\ \A i \in DOMAIN log : log[i] = c.cur /\ Rank(i) < c.pos => i \in ingested
          BY <2>5, <3>2, <4>3, CopyFields DEF CopyBehind
        <5>2. c.pos <= Size(c.cur)' /\ ~(Size(c.cur) < c.pos)
          BY <2>2, <5>1
        <5>3. ASSUME NEW i \in DOMAIN log', log'[i] = c.cur, Rank(i)' < c.pos PROVE i \in ingested'
          <6>1. i # z
            BY <2>2, <5>2, <5>3
          <6> QED BY <2>2, <5>1, <5>3, <6>1
        <5> QED BY <5>2, <5>3
      <4>4. ASSUME c.stage \in {"age", "cap"}
            PROVE  c.todo \subseteq c.listed /\ c.total <= Total(log', c.listed)
        <5>1. c.total \in Int /\ c.todo \subseteq c.listed /\ c.total <= Total(log, c.listed)
          BY <2>5, <3>2, <4>4, CopyFields DEF CopyBehind
        <5>2. /\ Total(log, c.listed) \in Nat /\ Total(log', c.listed) \in Nat
              /\ Total(log, c.listed) <= Total(log', c.listed)
          BY <1>2, TotalAppend
        <5> QED BY <5>1, <5>2
      <4> QED BY <4>2, <4>3, <4>4 DEF CopyBehind
    <3> QED BY <3>1, <3>2
  <2> QED BY <2>4, <2>5
<1> QED BY <1>1, <1>2

\* After either prune loop the directory fits, or only today's file is left.
LEMMA CapAfterPrune ==
    ASSUME TypeOK, NEW E \in SUBSET Days, E \subseteq 1 .. day, files' = CapKept(log', E),
           log' \in Seq(Days)
    PROVE  CapHolds'
<1>1. Total(log', files') <= MaxSize \/ files' \subseteq {day}
  BY CapKeeps DEF TypeOK
<1>2. CASE files' \subseteq {day}
  <2>1. IsFiniteSet({day}) /\ Cardinality({day}) = 1
    BY FS_Singleton
  <2>2. Cardinality(files') <= 1
    BY <1>2, <2>1, FS_Subset
  <2> QED BY <2>2 DEF CapHolds
<1>3. CASE Total(log', files') <= MaxSize
  <2>1. Total(log', files') \in Nat
    <3>1. DOMAIN log' = 1 .. Len(log') /\ Len(log') \in Nat
      BY LenProperties
    <3>2. IsFiniteSet(1 .. Len(log'))
      BY <3>1, FS_Interval
    <3>3. IsFiniteSet({i \in DOMAIN log' : log'[i] \in files'})
      BY <3>1, <3>2, FS_Subset
    <3> QED BY <3>3, FS_CardinalityType DEF Total
  <2>2. ~(Total(log', files') > MaxSize)
    BY <1>3, <2>1, InboxAssumption
  <2> QED BY <2>2 DEF CapHolds
<1> QED BY <1>1, <1>2, <1>3

\* With log and ingested as they were, what was behind is behind.
LEMMA SameBehind ==
    ASSUME UNCHANGED <<log, ingested>>
    PROVE  (\A o : Behind(o)' <=> Behind(o)) /\ (\A c : CopyBehind(c)' <=> CopyBehind(c))
BY DEF Behind, CopyBehind, Size, Rank, Before, LinesOf, Total

\* appendInbox: the file of today gets the line.
LEMMA AppendKeeps ==
    ASSUME IInv, appendInbox
    PROVE  IInv'
<1> USE DEF IInv
<1>1. /\ Len(log) < MaxLines /\ log' = Append(log, day) /\ day \in Days
      /\ files' = files \cup {day} /\ pruning' = TRUE
      /\ UNCHANGED <<day, saved, ingested, crashes, drain>>
  BY DEF appendInbox, TypeOK
<1>2. log' \in Seq(Days) /\ Len(log') = Len(log) + 1 /\ Len(log) \in Nat /\ DOMAIN log \subseteq DOMAIN log'
  BY <1>1, AppendRanks
<1>3. TypeOK'
  <2>1. Len(log') <= MaxLines
    BY <1>1, <1>2, InboxAssumption
  <2>2. ingested' \subseteq DOMAIN log' /\ files' \subseteq Days
    BY <1>1, <1>2 DEF TypeOK
  <2> QED BY <1>1, <1>2, <2>1, <2>2 DEF TypeOK
<1>4. Behind(saved)' /\ CopyBehind(drain)'
  <2>1. PICK o \in [Days -> Nat] : o = saved
    BY DEF TypeOK
  <2>2. PICK c \in Copies : c = drain
    BY DEF TypeOK, Copies
  <2>3. Behind(o)' /\ CopyBehind(c)'
    BY <1>1, <2>1, <2>2, StaysBehind
  <2> QED BY <1>1, <2>1, <2>2, <2>3 DEF Behind, CopyBehind
<1>5. NoFuture' /\ CapHolds'
  <2>1. day \in 1 .. day
    BY <1>1 DEF Days
  <2> QED BY <1>1, <2>1 DEF NoFuture, CapHolds
<1> QED BY <1>3, <1>4, <1>5

\* clubd's pruning leaves a directory that fits, or one file.
LEMMA PruneDirKeeps ==
    ASSUME IInv, pruneInboxDir
    PROVE  IInv'
<1> USE DEF IInv
<1>1. /\ UNCHANGED <<day, log, saved, ingested, crashes, drain>> /\ pruning' = FALSE
      /\ log' \in Seq(Days)
  BY DEF pruneInboxDir, TypeOK
<1>2. PICK E \in SUBSET files : files' = CapKept(log, E)
  BY DEF pruneInboxDir
<1>3. E \in SUBSET Days /\ E \subseteq 1 .. day /\ day \in Days /\ files' = CapKept(log', E)
  BY <1>1, <1>2 DEF TypeOK, NoFuture
<1>4. files' \subseteq files
  BY <1>2, <1>3, CapKeeps
<1>5. CapHolds'
  BY <1>1, <1>3, CapAfterPrune DEF TypeOK
<1>6. PICK c \in Copies : c = drain
  BY DEF TypeOK, Copies
<1>7. CopyBehind(c)' /\ Behind(saved)'
  <2>1. PICK o : o = saved
    OBVIOUS
  <2>2. Behind(o)' /\ CopyBehind(c)'
    BY <1>1, <1>6, <2>1, SameBehind
  <2> QED BY <1>1, <2>1, <2>2 DEF Behind
<1>8. TypeOK' /\ NoFuture'
  BY <1>1, <1>4 DEF TypeOK, NoFuture
<1> QED BY <1>1, <1>5, <1>6, <1>7, <1>8 DEF CopyBehind

\* A step that leaves the directory, the log and the saved offsets alone.
LEMMA QuietKeeps ==
    ASSUME IInv, UNCHANGED <<log, files, saved, pruning>>, ingested \subseteq ingested', ingested' \subseteq DOMAIN log,
           crashes' \in Nat, day' \in Days, day <= day',
           NEW c \in Copies, drain' = c, CopyBehind(c)'
    PROVE  IInv'
<1> USE DEF IInv
<1>1. TypeOK'
  BY DEF TypeOK, Copies
<1>2. NoFuture'
  BY DEF TypeOK, NoFuture, Days
<1>3. CapHolds'
  BY DEF CapHolds
<1>4. Behind(saved)'
  <2>1. PICK o \in [Days -> Nat] : o = saved
    BY DEF TypeOK
  <2>2. Behind(o)'
    BY <2>1, StaysBehind
  <2> QED BY <2>1, <2>2 DEF Behind
<1>5. CopyBehind(drain)'
  BY DEF CopyBehind
<1> QED BY <1>1, <1>2, <1>3, <1>4, <1>5

\* Midnight, a crash and the start of a drain: the copy of the offsets is the
\* saved one, or it is gone.
LEMMA MidnightKeeps ==
    ASSUME IInv, Midnight \/ Crash \/ DrainStart
    PROVE  IInv'
<1> USE DEF IInv
<1>1. UNCHANGED <<log, files, saved, ingested, pruning>> /\ ingested \subseteq DOMAIN log
  BY DEF Midnight, Crash, DrainStart, TypeOK
<1>2. crashes' \in Nat /\ day' \in Days /\ day <= day'
  BY InboxAssumption DEF Midnight, Crash, DrainStart, TypeOK, Days
<1>3. CASE Midnight
  <2>1. PICK c \in Copies : c = drain
    BY DEF TypeOK, Copies
  <2>2. drain' = c /\ CopyBehind(c)'
    BY <1>1, <1>3, <2>1, SameBehind DEF Midnight
  <2> QED BY <1>1, <1>2, <2>2, QuietKeeps
<1>4. CASE Crash
  <2>1. Idle \in Copies /\ CopyBehind(Idle)' /\ drain' = Idle
    BY <1>4 DEF Copies, CopyBehind, Crash
  <2> QED BY <1>1, <1>2, <2>1, QuietKeeps
<1>5. CASE DrainStart
  <2>1. PICK c : c = [stage |-> "next", offsets |-> saved, todo |-> files]
    OBVIOUS
  <2>2. c \in Copies /\ c.stage = "next" /\ c.offsets = saved
    BY <2>1 DEF Copies, Pausing, TypeOK
  <2>3. CopyBehind(c)
    BY <2>2 DEF CopyBehind
  <2>4. drain' = c /\ CopyBehind(c)'
    BY <1>1, <1>5, <2>1, <2>3, SameBehind DEF DrainStart
  <2> QED BY <1>1, <1>2, <2>2, <2>4, QuietKeeps
<1> QED BY <1>3, <1>4, <1>5

\* A file is opened where the last drain left it.
LEMMA OpenKeeps ==
    ASSUME IInv, DrainOpen
    PROVE  IInv'
<1> USE DEF IInv
<1>1. UNCHANGED <<day, log, files, saved, ingested, crashes, pruning>> /\ ingested \subseteq DOMAIN log
  BY DEF DrainOpen, TypeOK
<1>2. crashes' \in Nat /\ day' \in Days /\ day <= day'
  BY <1>1 DEF TypeOK, Days
<1>3. /\ drain \in Pausing /\ drain.stage = "next" /\ drain.todo \subseteq Days /\ drain.todo # {}
      /\ drain.offsets \in [Days -> Nat] /\ Behind(drain.offsets)
  <2>1. drain \in Copies /\ drain.stage = "next" /\ drain.todo # {}
    BY DEF TypeOK, Copies, DrainOpen
  <2> QED BY <2>1, CopyFields DEF CopyBehind
<1> DEFINE f == Min(drain.todo)
           pos == drain.offsets[f]
<1>4. f \in drain.todo /\ f \in Days /\ pos \in Nat /\ pos <= Size(f)
  <2>1. f \in drain.todo
    BY <1>3, LeastNatural DEF Days
  <2> QED BY <1>3, <2>1 DEF Behind
<1>5. CASE f \in files
  <2>1. PICK c : c = [stage |-> "read", offsets |-> drain.offsets,
                      todo |-> drain.todo \ {f}, cur |-> f, pos |-> IF pos > Size(f) THEN 0 ELSE pos]
    OBVIOUS
  <2>2. drain' = c
    BY <1>5, <2>1 DEF DrainOpen
  <2> HIDE DEF f
  <2>3. ~(pos > Size(f))
    BY <1>4, LinesFinite
  <2>4. c.stage = "read" /\ c.offsets = drain.offsets /\ c.todo = drain.todo \ {f} /\ c.cur = f /\ c.pos = pos
    BY <2>1, <2>3
  <2>5. c \in Copies
    <3>1. c = [stage |-> "read", offsets |-> drain.offsets, todo |-> drain.todo \ {f}, cur |-> f, pos |-> pos]
      BY <2>1, <2>3
    <3> HIDE DEF pos
    <3>2. c \in Reading
      BY <1>3, <1>4, <3>1 DEF Reading
    <3> QED BY <3>2 DEF Copies
  <2>6. CopyBehind(c)
    BY <1>3, <1>4, <2>4 DEF CopyBehind, Behind
  <2>7. CopyBehind(c)'
    BY <1>1, <2>6, SameBehind
  <2> QED BY <1>1, <1>2, <2>2, <2>5, <2>7, QuietKeeps
<1>6. CASE f \notin files
  <2>1. PICK c : c = [drain EXCEPT !.todo = drain.todo \ {f}]
    OBVIOUS
  <2>2. drain' = c
    BY <1>6, <2>1 DEF DrainOpen
  <2> HIDE DEF f
  <2>3. c \in Pausing /\ c.stage = "next" /\ c.offsets = drain.offsets
    BY <1>3, <2>1 DEF Pausing
  <2>4. c \in Copies /\ CopyBehind(c)
    BY <1>3, <2>3 DEF Copies, CopyBehind
  <2>5. CopyBehind(c)'
    BY <1>1, <2>4, SameBehind
  <2> QED BY <1>1, <1>2, <2>2, <2>4, <2>5, QuietKeeps
<1> QED BY <1>5, <1>6

\* The line at the reading position is ingested before the position moves on.
LEMMA LineKeeps ==
    ASSUME IInv, DrainLine
    PROVE  IInv'
<1> USE DEF IInv
<1>1. /\ drain.stage = "read" /\ drain.pos < Size(drain.cur)
      /\ ingested' = ingested \cup {LineAt(drain.cur, drain.pos)}
      /\ drain' = [drain EXCEPT !.pos = drain.pos + 1]
      /\ UNCHANGED <<day, log, files, saved, crashes, pruning>>
  BY DEF DrainLine
<1>2. /\ drain \in Copies /\ drain \in Reading /\ drain.pos \in Nat /\ drain.cur \in Days
      /\ drain.offsets \in [Days -> Nat] /\ CopyBehind(drain) /\ drain # Idle
  BY <1>1, CopyFields DEF TypeOK, Copies
<1> DEFINE f == drain.cur
           n == drain.pos
<1>3. /\ LineAt(f, n) \in LinesOf(f) /\ Rank(LineAt(f, n)) = n
      /\ \A i \in LinesOf(f) : Rank(i) = n => i = LineAt(f, n)
  BY <1>1, <1>2, LineAtOffset
<1>4. LinesOf(f) \subseteq DOMAIN log /\ Size(f) \in Nat
  BY LinesFinite
<1>5. ingested \subseteq ingested' /\ ingested' \subseteq DOMAIN log
  BY <1>1, <1>3, <1>4 DEF TypeOK
<1>6. PICK c : c = [drain EXCEPT !.pos = drain.pos + 1]
  OBVIOUS
<1>7. /\ c \in Reading /\ c.stage = "read" /\ c.pos = n + 1 /\ c.cur = f /\ c.offsets = drain.offsets
  BY <1>2, <1>6 DEF Reading
<1>8. (\A x : Size(x)' = Size(x)) /\ (\A i : Rank(i)' = Rank(i))
  BY <1>1 DEF Size, Rank, Before, LinesOf
<1>9. ASSUME NEW i \in DOMAIN log, log[i] = f, Rank(i) < n + 1 PROVE i \in ingested'
  <2>1. Rank(i) \in Nat /\ i \in LinesOf(f)
    BY <1>9, RankBound DEF LinesOf
  <2>2. CASE Rank(i) = n
    BY <1>1, <1>3, <2>1, <2>2
  <2>3. CASE Rank(i) < n
    BY <1>1, <1>2, <1>9, <2>3 DEF CopyBehind
  <2> QED BY <1>2, <1>9, <2>1, <2>2, <2>3
<1>10. n + 1 <= Size(f)
  BY <1>1, <1>2, <1>4
<1>11. PICK o \in [Days -> Nat] : o = drain.offsets
  BY <1>2
<1>12. Behind(o)'
  BY <1>1, <1>2, <1>5, <1>11, StaysBehind DEF CopyBehind
<1>13. CopyBehind(c)'
  <2>1. c.pos <= Size(c.cur)'
    BY <1>7, <1>8, <1>10
  <2>2. \A i \in DOMAIN log' : log'[i] = c.cur /\ Rank(i)' < c.pos => i \in ingested'
    BY <1>1, <1>7, <1>8, <1>9
  <2>3. c.offsets = o
    BY <1>7, <1>11
  <2>4. c.stage = "read"
    BY <1>7
  <2> QED BY <1>12, <2>1, <2>2, <2>3, <2>4 DEF CopyBehind
<1>14. c \in Copies /\ drain' = c
  BY <1>1, <1>6, <1>7 DEF Copies
<1>15. crashes' \in Nat /\ day' \in Days /\ day <= day'
  BY <1>1 DEF TypeOK, Days
<1> QED BY <1>1, <1>5, <1>13, <1>14, <1>15, QuietKeeps

\* At the end of the file its offset becomes the position, and all before the
\* position is ingested.
LEMMA EofKeeps ==
    ASSUME IInv, DrainEof
    PROVE  IInv'
<1> USE DEF IInv
<1>1. /\ drain.stage = "read"
      /\ drain' = [stage |-> "next", todo |-> drain.todo,
                   offsets |-> [drain.offsets EXCEPT ![drain.cur] = drain.pos]]
      /\ UNCHANGED <<day, log, files, saved, ingested, crashes, pruning>>
  BY DEF DrainEof
<1>2. /\ drain \in Reading /\ drain.pos \in Nat /\ drain.cur \in Days /\ drain.todo \subseteq Days
      /\ drain.offsets \in [Days -> Nat] /\ CopyBehind(drain) /\ drain # Idle
  BY <1>1, CopyFields DEF TypeOK, Copies
<1>3. PICK o : o = [drain.offsets EXCEPT ![drain.cur] = drain.pos]
  OBVIOUS
<1>4. o \in [Days -> Nat] /\ o[drain.cur] = drain.pos /\ \A f \in Days \ {drain.cur} : o[f] = drain.offsets[f]
  BY <1>2, <1>3
<1>5. \A i \in DOMAIN log : log[i] \in Days
  BY ElementOfSeq, LenProperties DEF TypeOK
<1>6. Behind(o)
  BY <1>1, <1>2, <1>4, <1>5 DEF CopyBehind, Behind
<1>7. PICK c : c = [stage |-> "next", todo |-> drain.todo, offsets |-> o]
  OBVIOUS
<1>8. c \in Copies /\ c.stage = "next" /\ c.offsets = o /\ drain' = c
  BY <1>1, <1>2, <1>3, <1>4, <1>7 DEF Copies, Pausing
<1>9. CopyBehind(c)
  BY <1>6, <1>8 DEF CopyBehind
<1>10. CopyBehind(c)'
  BY <1>1, <1>9, SameBehind
<1>11. crashes' \in Nat /\ day' \in Days /\ day <= day' /\ ingested \subseteq DOMAIN log
  BY <1>1 DEF TypeOK, Days
<1> QED BY <1>1, <1>8, <1>10, <1>11, QuietKeeps

\* prune_inbox counts what it lists.
LEMMA ListKeeps ==
    ASSUME IInv, PruneList
    PROVE  IInv'
<1> USE DEF IInv
<1>1. /\ drain.stage = "next"
      /\ UNCHANGED <<day, log, files, saved, ingested, crashes, pruning>> /\ ingested \subseteq DOMAIN log
  BY DEF PruneList, TypeOK
<1>2. drain \in Pausing /\ drain.offsets \in [Days -> Nat] /\ CopyBehind(drain) /\ drain # Idle
  BY <1>1, CopyFields DEF TypeOK, Copies
<1>3. PICK c : c = [stage |-> "age", offsets |-> drain.offsets, todo |-> files,
                    listed |-> files, total |-> Total(log, files), today |-> day]
  OBVIOUS
<1>4. Total(log, files) \in Nat
  BY TotalGrows DEF TypeOK
<1>5. /\ c \in Copies /\ c.stage = "age" /\ c.offsets = drain.offsets
      /\ c.todo = files /\ c.listed = files /\ c.total = Total(log, files)
  BY <1>2, <1>3, <1>4 DEF Copies, Pruning, TypeOK
<1>6. CopyBehind(c)
  BY <1>2, <1>4, <1>5 DEF CopyBehind
<1>7. CopyBehind(c)' /\ drain' = c
  BY <1>1, <1>3, <1>6, SameBehind DEF PruneList
<1>8. crashes' \in Nat /\ day' \in Days /\ day <= day'
  BY <1>1 DEF TypeOK, Days
<1> QED BY <1>1, <1>5, <1>7, <1>8, QuietKeeps

\* A loop goes on to the next file, or to what follows it.
LEMMA PassKeeps ==
    ASSUME IInv, UNCHANGED <<day, log, files, saved, ingested, crashes, pruning>>,
           drain.stage \in {"age", "cap"}, NEW t \in SUBSET drain.listed, NEW s \in {"age", "cap"},
           \/ drain' = [drain EXCEPT !.todo = t]
           \/ drain' = [drain EXCEPT !.stage = s, !.todo = t]
           \/ drain' = [stage |-> "save", offsets |-> drain.offsets, todo |-> {}]
    PROVE  IInv'
<1> USE DEF IInv
<1>1. /\ drain \in Pruning /\ drain.offsets \in [Days -> Nat] /\ CopyBehind(drain) /\ drain # Idle
      /\ drain.listed \subseteq Days
  BY CopyFields DEF TypeOK, Copies
<1>2. crashes' \in Nat /\ day' \in Days /\ day <= day' /\ ingested \subseteq DOMAIN log
  BY DEF TypeOK, Days
<1>3. CASE drain' = [stage |-> "save", offsets |-> drain.offsets, todo |-> {}]
  <2>1. PICK c : c = [stage |-> "save", offsets |-> drain.offsets, todo |-> {}]
    OBVIOUS
  <2>2. c \in Copies /\ c.stage = "save" /\ c.offsets = drain.offsets
    BY <1>1, <2>1 DEF Copies, Pausing
  <2>3. CopyBehind(c)
    BY <1>1, <2>2 DEF CopyBehind
  <2>4. CopyBehind(c)' /\ drain' = c
    BY <1>3, <2>1, <2>3, SameBehind
  <2> QED BY <1>2, <2>2, <2>4, QuietKeeps
<1>4. CASE \/ drain' = [drain EXCEPT !.todo = t]
           \/ drain' = [drain EXCEPT !.stage = s, !.todo = t]
  <2>1. PICK u \in {"age", "cap"} : drain' = [drain EXCEPT !.stage = u, !.todo = t]
    <3>1. [drain EXCEPT !.todo = t] = [drain EXCEPT !.stage = drain.stage, !.todo = t]
      BY <1>1 DEF Pruning
    <3> QED BY <1>4, <3>1
  <2>2. PICK c : c = [drain EXCEPT !.stage = u, !.todo = t]
    OBVIOUS
  <2>3. /\ c \in Copies /\ c.stage = u /\ c.offsets = drain.offsets
        /\ c.todo = t /\ c.listed = drain.listed /\ c.total = drain.total
    BY <1>1, <2>2 DEF Copies, Pruning
  <2>4. CopyBehind(c)
    BY <1>1, <2>3 DEF CopyBehind
  <2>5. CopyBehind(c)' /\ drain' = c
    BY <2>1, <2>2, <2>4, SameBehind
  <2> QED BY <1>2, <2>3, <2>5, QuietKeeps
<1> QED BY <1>3, <1>4

\* A file is deleted, taken off the total and its offset forgotten.
LEMMA RemoveKeeps ==
    ASSUME IInv, UNCHANGED <<day, log, saved, ingested, crashes, pruning>>,
           drain.stage \in {"age", "cap"}, NEW f \in drain.todo, Remove(f)
    PROVE  IInv'
<1> USE DEF IInv
<1>1. /\ drain \in Pruning /\ drain.offsets \in [Days -> Nat] /\ CopyBehind(drain) /\ drain # Idle
      /\ drain.listed \subseteq Days /\ drain.todo \subseteq drain.listed /\ drain.total \in Int
      /\ f \in drain.listed /\ f \in Days
      /\ drain.total <= Total(log, drain.listed) /\ Behind(drain.offsets)
  <2>1. /\ drain \in Pruning /\ drain.offsets \in [Days -> Nat] /\ CopyBehind(drain) /\ drain # Idle
        /\ drain.listed \subseteq Days /\ drain.total \in Int
    BY CopyFields DEF TypeOK, Copies
  <2> QED BY <2>1 DEF CopyBehind
<1>2. PICK c : c = [drain EXCEPT !.todo = drain.todo \ {f}, !.listed = drain.listed \ {f},
                                 !.total = drain.total - Size(f), !.offsets[f] = 0]
  OBVIOUS
<1>3. drain' = c /\ files' = files \ {f}
  BY <1>2 DEF Remove
<1>4. /\ Total(log, drain.listed) = Total(log, drain.listed \ {f}) + Size(f)
      /\ Size(f) \in Nat /\ Total(log, drain.listed \ {f}) \in Nat
  BY <1>1, TotalLess
<1>5. PICK o : o = [drain.offsets EXCEPT ![f] = 0]
  OBVIOUS
<1>6. o \in [Days -> Nat] /\ \A g \in Days : o[g] \in {0, drain.offsets[g]}
  BY <1>1, <1>5
<1>7. /\ c \in Pruning /\ c.stage = drain.stage /\ c.offsets = o
      /\ c.todo = drain.todo \ {f} /\ c.listed = drain.listed \ {f} /\ c.total = drain.total - Size(f)
  <2>1. PICK t, e, n : t = drain.todo \ {f} /\ e = drain.listed \ {f} /\ n = drain.total - Size(f)
    OBVIOUS
  <2>2. t \subseteq Days /\ e \subseteq Days /\ n \in Int
    BY <1>1, <1>4, <2>1
  <2>3. c = [drain EXCEPT !.todo = t, !.listed = e, !.total = n, !.offsets = o]
    BY <1>1, <1>2, <1>5, <2>1 DEF Pruning
  <2> QED BY <1>1, <1>6, <2>1, <2>2, <2>3 DEF Pruning
<1>8. \A i \in DOMAIN log : log[i] \in Days /\ Rank(i) \in Nat
  BY ElementOfSeq, LenProperties, RankBound DEF TypeOK
<1>9. Behind(o)
  <2>1. ASSUME NEW g \in Days PROVE o[g] <= Size(g)
    BY <1>1, <1>6, LinesFinite DEF Behind
  <2>2. ASSUME NEW i \in DOMAIN log, Rank(i) < o[log[i]] PROVE i \in ingested
    <3>1. o[log[i]] = drain.offsets[log[i]]
      <4>1. o[log[i]] # 0
        BY <1>8, <2>2
      <4> QED BY <1>6, <1>8, <4>1
    <3> QED BY <1>1, <2>2, <3>1 DEF Behind
  <2> QED BY <2>1, <2>2 DEF Behind
<1>10. CopyBehind(c)
  <2>1. c.total <= Total(log, c.listed)
    BY <1>1, <1>4, <1>7
  <2>2. c.todo \subseteq c.listed
    BY <1>1, <1>7
  <2> QED BY <1>7, <1>9, <2>1, <2>2 DEF CopyBehind
<1>11. CopyBehind(c)' /\ Behind(saved)'
  <2>1. PICK x : x = saved
    OBVIOUS
  <2>2. Behind(x)' /\ CopyBehind(c)'
    BY <1>10, <2>1, SameBehind
  <2> QED BY <2>1, <2>2 DEF Behind
<1>12. TypeOK' /\ NoFuture'
  BY <1>3, <1>7 DEF TypeOK, NoFuture
<1>13. CapHolds'
  <2>1. files \ {f} \subseteq files /\ IsFiniteSet(files)
    <3>1. files \subseteq 1 .. MaxDay /\ IsFiniteSet(1 .. MaxDay)
      BY InboxAssumption, FS_Interval DEF TypeOK, Days
    <3> QED BY <3>1, FS_Subset
  <2>2. /\ Total(log, files \ {f}) \in Nat /\ Total(log, files) \in Nat
        /\ Total(log, files \ {f}) <= Total(log, files)
    BY <2>1, TotalGrows DEF TypeOK
  <2>3. /\ Cardinality(files \ {f}) \in Nat /\ Cardinality(files) \in Nat
        /\ Cardinality(files \ {f}) <= Cardinality(files)
    BY <2>1, FS_Subset, FS_CardinalityType
  <2> QED BY <1>3, <2>2, <2>3, InboxAssumption DEF CapHolds
<1> QED BY <1>3, <1>11, <1>12, <1>13 DEF CopyBehind

\* prune_inbox keeps the invariant at each of its steps.
LEMMA PruneKeeps ==
    ASSUME IInv, prune_inbox
    PROVE  IInv'
<1> USE DEF IInv
<1>1. ASSUME drain.stage \in {"age", "cap"}, drain.todo # {}
      PROVE  Min(drain.todo) \in drain.todo /\ drain.todo \subseteq drain.listed
  <2>1. drain.todo \subseteq Days /\ CopyBehind(drain) /\ drain # Idle
    BY <1>1, CopyFields DEF TypeOK, Copies
  <2>2. drain.todo \in SUBSET Nat
    BY <2>1 DEF Days
  <2> QED BY <1>1, <2>1, <2>2, LeastNatural DEF CopyBehind
<1>2. CASE PruneList
  BY <1>2, ListKeeps
<1>3. CASE PruneAge \/ PruneCap
  <2>1. PICK f \in drain.todo : Remove(f) \/ Pass(f)
    BY <1>1, <1>3 DEF PruneAge, PruneCap
  <2>2. UNCHANGED <<day, log, saved, ingested, crashes, pruning>> /\ drain.stage \in {"age", "cap"}
    BY <1>3 DEF PruneAge, PruneCap
  <2>3. CASE Remove(f)
    BY <2>1, <2>2, <2>3, RemoveKeeps
  <2>4. CASE Pass(f)
    <3>1. drain.todo \ {f} \in SUBSET drain.listed
      BY <1>1, <2>1, <2>2
    <3>2. files' = files /\ drain' = [drain EXCEPT !.todo = drain.todo \ {f}]
      BY <2>4 DEF Pass
    <3> QED BY <2>2, <3>1, <3>2, PassKeeps
  <2> QED BY <2>1, <2>3, <2>4
<1>4. CASE PruneNext
  <2>1. /\ UNCHANGED <<day, log, files, saved, ingested, crashes, pruning>>
        /\ drain.stage \in {"age", "cap"}
        /\ \/ drain' = [drain EXCEPT !.stage = "cap", !.todo = drain.listed]
           \/ drain' = [stage |-> "save", offsets |-> drain.offsets, todo |-> {}]
    BY <1>4 DEF PruneNext
  <2> QED BY <2>1, PassKeeps
<1> QED BY <1>2, <1>3, <1>4 DEF prune_inbox

\* The offsets that are saved are those of the drain.
LEMMA SaveKeeps ==
    ASSUME IInv, save_offsets
    PROVE  IInv'
<1> USE DEF IInv
<1>1. /\ drain.stage = "save" /\ saved' = drain.offsets /\ drain' = Idle
      /\ UNCHANGED <<day, log, files, ingested, crashes, pruning>>
  BY DEF save_offsets
<1>2. drain.offsets \in [Days -> Nat] /\ Behind(drain.offsets)
  BY <1>1, CopyFields DEF TypeOK, Copies, CopyBehind
<1>3. PICK o \in [Days -> Nat] : o = drain.offsets
  BY <1>2
<1>4. Behind(o)'
  BY <1>1, <1>2, <1>3, SameBehind
<1>5. Behind(saved)'
  BY <1>1, <1>3, <1>4 DEF Behind
<1>6. TypeOK' /\ NoFuture' /\ CapHolds' /\ CopyBehind(drain)'
  BY <1>1, <1>2 DEF TypeOK, NoFuture, CapHolds, CopyBehind
<1> QED BY <1>5, <1>6

\* At the start the directory is empty and no offset is saved.
LEMMA IInvInit == Init => IInv
<1> SUFFICES ASSUME Init PROVE IInv
  OBVIOUS
<1>1. 1 \in Days /\ DOMAIN log = {} /\ log \in Seq(Days) /\ Len(log) = 0
  BY InboxAssumption, EmptySeq, LenProperties DEF Init, Days
<1>2. TypeOK
  <2>1. /\ day \in Days /\ log \in Seq(Days) /\ Len(log) <= MaxLines
        /\ files \subseteq Days /\ ingested \subseteq DOMAIN log /\ crashes \in Nat
    BY <1>1, InboxAssumption DEF Init
  <2>2. saved \in [Days -> Nat] /\ drain \in {Idle}
    BY DEF Init
  <2>3. pruning \in BOOLEAN
    BY DEF Init
  <2> QED BY <2>1, <2>2, <2>3 DEF TypeOK
<1>3. \A f \in Days : Size(f) \in Nat
  BY <1>2, LinesFinite
<1>4. Behind(saved)
  BY <1>1, <1>3 DEF Init, Behind
<1>5. CapHolds
  BY FS_EmptySet DEF Init, CapHolds
<1>6. NoFuture /\ CopyBehind(drain)
  BY DEF Init, NoFuture, CopyBehind
<1> QED BY <1>2, <1>4, <1>5, <1>6 DEF IInv

\* Every step of clubd, of the drain and of the clock keeps the invariant.
LEMMA IInvStep == IInv /\ [Next]_vars => IInv'
<1> SUFFICES ASSUME IInv, [Next]_vars PROVE IInv'
  OBVIOUS
<1>1. CASE UNCHANGED vars
  <2>1. PICK c \in Copies : c = drain
    BY DEF IInv, TypeOK, Copies
  <2>2. CopyBehind(c)' /\ drain' = c
    BY <1>1, <2>1, SameBehind DEF vars, IInv
  <2> QED BY <1>1, <2>2, QuietKeeps DEF vars, IInv, TypeOK, Days
<1> QED BY <1>1, AppendKeeps, PruneDirKeeps, MidnightKeeps, OpenKeeps, LineKeeps, EofKeeps, PruneKeeps, SaveKeeps DEF Next, Drain

\* The invariant of the inbox directory holds in every state.
THEOREM InductiveInvariant == Spec => []IInv
BY IInvInit, IInvStep, PTL DEF Spec

\* No saved offset runs ahead of what has been ingested, and the directory stays
\* within its cap except for a single file, whatever clubd appends or prunes
\* during a drain and wherever the observer crashes.
THEOREM InboxInvHolds == Spec => []InboxInv
<1>1. IInv => InboxInv
  <2> SUFFICES ASSUME IInv, NEW f \in files, NEW i \in LinesOf(f),
                      Cardinality({j \in LinesOf(f) : j < i}) < saved[f]
               PROVE  i \in ingested
    BY DEF IInv, InboxInv, OffsetsBehind
  <2>1. i \in DOMAIN log /\ log[i] = f
    BY DEF LinesOf
  <2>2. Rank(i) < saved[log[i]]
    BY <2>1 DEF Rank, Before
  <2> QED BY <2>1, <2>2 DEF IInv, Behind
<1> QED BY <1>1, InductiveInvariant, PTL

\* What is deleted unread was old or in a directory too full when clubd pruned, or
\* the observer counted files that clubd has deleted.
Lost(i) ==
    \/ /\ pruning /\ ~pruning'
       /\ Total(log, files) > MaxSize \/ log[i] + KeepDays <= day
    \/ /\ drain.stage = "cap" /\ UNCHANGED pruning
       /\ Total(log, files \cup drain.listed) > MaxSize

\* clubd deletes for the age of a file, or the oldest of too many.
LEMMA ClubdLoss ==
    ASSUME IInv, pruneInboxDir, NEW i \in DOMAIN log, log[i] \in files \ files'
    PROVE  Lost(i)
<1> USE DEF IInv
<1>1. /\ day \in Days /\ day \in Nat /\ files \subseteq Days /\ files \subseteq 1 .. day /\ MaxSize \in Nat
      /\ log \in Seq(Days)
  BY InboxAssumption DEF TypeOK, NoFuture, Days
<1>2. PICK cutoff \in Cutoffs(day) : files' = CapKept(log, {f \in files : f >= cutoff \/ f = day})
  BY DEF pruneInboxDir
<1> DEFINE E == {f \in files : f >= cutoff \/ f = day}
<1>3. pruning /\ ~pruning'
  BY DEF pruneInboxDir
<1>4. E \subseteq files /\ E \in SUBSET Days /\ E \subseteq 1 .. day
  BY <1>1
<1>5. CASE log[i] \in E
  <2> HIDE DEF E
  <2>1. files' = CapKept(log, E)
    BY <1>2 DEF E
  <2>2. ~(Total(log, E) <= MaxSize)
    BY <1>1, <1>4, <1>5, <2>1, CapKeeps
  <2>3. Total(log, E) \in Nat /\ Total(log, files) \in Nat /\ Total(log, E) <= Total(log, files)
    BY <1>1, <1>4, TotalGrows
  <2>4. Total(log, files) > MaxSize
    BY <1>1, <2>2, <2>3
  <2> QED BY <1>3, <2>4 DEF Lost
<1>6. CASE log[i] \notin E
  <2>1. log[i] \in Nat
    <3>1. log[i] \in 1 .. day
      BY <1>1, Zenon
    <3> QED BY <1>1, <3>1
  <2>2. ~(log[i] >= cutoff)
    BY <1>6, Zenon
  <2>3. cutoff \in {day - KeepDays, day - KeepDays + 1} /\ KeepDays \in Nat
    BY InboxAssumption DEF Cutoffs
  <2>4. log[i] + KeepDays <= day
    BY <1>1, <2>1, <2>2, <2>3
  <2> QED BY <1>3, <2>4 DEF Lost
<1> QED BY <1>5, <1>6

\* The observer's first loop deletes what it has read, the second while it counts
\* too much in what it has listed.
LEMMA ObserverLoss ==
    ASSUME IInv, prune_inbox, NEW i \in DOMAIN log, log[i] \in files \ files', i \notin ingested
    PROVE  Lost(i)
<1> USE DEF IInv
<1>1. CASE PruneAge
  <2>1. PICK f : f = log[i]
    OBVIOUS
  <2>2. drain.stage = "age" /\ drain.offsets[f] >= Size(f)
    BY <1>1, <2>1 DEF PruneAge, Remove, Pass, Expired
  <2>3. Behind(drain.offsets) /\ drain.offsets \in [Days -> Nat]
    BY <2>2, CopyFields DEF TypeOK, Copies, CopyBehind
  <2>4. Rank(i) \in Nat /\ Rank(i) < Size(f) /\ Size(f) \in Nat /\ f \in Days
    BY <2>1, RankBound, LinesFinite DEF TypeOK
  <2>5. Rank(i) < drain.offsets[f]
    BY <2>2, <2>3, <2>4
  <2> QED BY <2>1, <2>3, <2>5 DEF Behind
<1>2. CASE PruneCap
  <2>1. drain.stage = "cap" /\ drain.total > MaxSize /\ UNCHANGED pruning
    BY <1>2 DEF PruneCap
  <2>2. /\ drain.total \in Int /\ drain.total <= Total(log, drain.listed)
        /\ log \in Seq(Days) /\ MaxSize \in Nat
    <3>1. drain.total \in Int /\ drain # Idle
      BY <2>1, CopyFields DEF TypeOK, Copies
    <3> QED BY <2>1, <3>1, InboxAssumption DEF CopyBehind, TypeOK
  <2>3. /\ Total(log, drain.listed) \in Nat /\ Total(log, files \cup drain.listed) \in Nat
        /\ Total(log, drain.listed) <= Total(log, files \cup drain.listed)
    BY <2>2, TotalGrows
  <2>4. Total(log, files \cup drain.listed) > MaxSize
    BY <2>1, <2>2, <2>3
  <2> QED BY <2>1, <2>4 DEF Lost
<1>3. CASE PruneList \/ PruneNext
  BY <1>3 DEF PruneList, PruneNext
<1> QED BY <1>1, <1>2, <1>3 DEF prune_inbox

\* No other step deletes a file.
LEMMA LossStep ==
    ASSUME IInv, [Next]_vars, NEW i \in DOMAIN log, log[i] \in files \ files', i \notin ingested
    PROVE  Lost(i)
<1>1. appendInbox => files \subseteq files'
  BY DEF appendInbox
<1>2. pruneInboxDir \/ prune_inbox
  BY <1>1 DEF Next, Drain, vars, DrainStart, DrainOpen, DrainLine, DrainEof, save_offsets, Crash, Midnight
<1> QED BY <1>2, ClubdLoss, ObserverLoss

\* A line that is deleted before it was read was old, or in a directory over its
\* cap, when clubd pruned; the observer's own pruning by age never loses a line, and
\* its pruning by size loses one only when the files that it had listed, those that
\* clubd has deleted since among them, were over the cap.
THEOREM UnreadLossHolds == Spec => UnreadLoss
<1>1. IInv /\ [Next]_vars =>
         [\A i \in DOMAIN log :
             log[i] \in files \ files' /\ i \notin ingested =>
                \/ /\ pruning /\ ~pruning'
                   /\ Total(log, files) > MaxSize \/ log[i] + KeepDays <= day
                \/ /\ drain.stage = "cap" /\ UNCHANGED pruning
                   /\ Total(log, files \cup drain.listed) > MaxSize]_vars
  BY LossStep DEF Lost
<1> QED BY <1>1, InductiveInvariant, PTL DEF Spec, UnreadLoss
=============================================================================
