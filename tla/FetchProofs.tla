---------------------------- MODULE FetchProofs ----------------------------
(***************************************************************************)
(* Proofs about fetch_cid, for every file without cycles: whatever         *)
(* arrives, in whatever waves, the sample of a file that is well made is a *)
(* prefix of its content, and one that is not called truncated is the      *)
(* whole of it.                                                            *)
(***************************************************************************)
EXTENDS Fetch, TLAPS, SequenceTheorems, WellFoundedInduction

-----------------------------------------------------------------------------
(***************************************************************************)
(* Induction over the naturals, as the existence of a least one.           *)
(***************************************************************************)
\* A non-empty set of naturals has a least element.
LEMMA LeastNatural ==
    ASSUME NEW S \in SUBSET Nat, S # {}
    PROVE  \E x \in S : \A y \in S : x <= y
<1>1. \E x \in S : \A y \in S : ~ (<<y, x>> \in OpToRel(<, Nat))
  BY WFMin, NatLessThanWellFounded
<1>2. OpToRel(<, Nat) = {ss \in Nat \X Nat : ss[1] < ss[2]}
  BY Zenon DEF OpToRel
<1>3. \A x, y \in S : ~ (<<y, x>> \in {ss \in Nat \X Nat : ss[1] < ss[2]}) => x <= y
  OBVIOUS
<1> QED BY <1>1, <1>2, <1>3, Zenon

\* A set that has 0, and with a number the next one, has all of them.
LEMMA AllNaturals ==
    ASSUME NEW S \in SUBSET Nat, 0 \in S, \A n \in S : n + 1 \in S
    PROVE  S = Nat
<1>1. SUFFICES ASSUME Nat \ S # {} PROVE FALSE
  OBVIOUS
<1>2. PICK n \in Nat \ S : \A y \in Nat \ S : n <= y
  BY <1>1, LeastNatural
<1>3. n # 0 /\ n - 1 \in Nat
  BY <1>2
<1>4. n - 1 \in S
  BY <1>2, <1>3
<1> QED BY <1>2, <1>3, <1>4

-----------------------------------------------------------------------------
(***************************************************************************)
(* FlattenSeq.                                                             *)
(***************************************************************************)
\* f has the sequences of seqs up to each place, one behind the other.
Gathers(f, seqs) ==
    \A i \in 1 .. Len(seqs) : f[i] = IF i = 1 THEN seqs[i] ELSE f[i - 1] \o seqs[i]

\* The recursion of FlattenSeq has a solution.
LEMMA GathersExists ==
    ASSUME NEW S, NEW seqs \in Seq(Seq(S))
    PROVE  \E f \in [1 .. Len(seqs) -> Seq(S)] : Gathers(f, seqs)
<1> DEFINE D == 1 .. Len(seqs)
           Upto(f, n) == \A i \in D : i <= n => f[i] = IF i = 1 THEN seqs[i] ELSE f[i - 1] \o seqs[i]
           N == {n \in Nat : \E f \in [D -> Seq(S)] : Upto(f, n)}
<1>1. Len(seqs) \in Nat /\ \A i \in D : seqs[i] \in Seq(S)
  BY LenProperties, ElementOfSeq
<1>2. 0 \in N
  <2>1. [i \in D |-> seqs[i]] \in [D -> Seq(S)] /\ Upto([i \in D |-> seqs[i]], 0)
    BY <1>1
  <2> QED BY <2>1
<1>3. ASSUME NEW n \in N PROVE n + 1 \in N
  <2>1. PICK f \in [D -> Seq(S)] : Upto(f, n)
    BY <1>3
  <2> n \in Nat
    BY <1>3
  <2> DEFINE next == IF n = 0 THEN seqs[n + 1] ELSE f[n] \o seqs[n + 1]
             g == [i \in D |-> IF i = n + 1 THEN next ELSE f[i]]
  <2>2. n + 1 \in D => next \in Seq(S)
    <3>1. CASE n + 1 \in D /\ n = 0
      BY <1>1, <3>1
    <3>2. CASE n + 1 \in D /\ n # 0
      <4>0. n \in D
        BY <1>1, <3>2
      <4>1. f[n] \in Seq(S) /\ seqs[n + 1] \in Seq(S)
        <5> HIDE DEF D, N
        <5> QED BY <1>1, <3>2, <4>0
      <4>2. f[n] \o seqs[n + 1] \in Seq(S)
        BY <4>1, ConcatProperties
      <4> QED BY <3>2, <4>2
    <3> QED BY <3>1, <3>2
  <2>3. g \in [D -> Seq(S)]
    BY <2>1, <2>2
  <2>4. ASSUME NEW i \in D, i <= n + 1
        PROVE  g[i] = IF i = 1 THEN seqs[i] ELSE g[i - 1] \o seqs[i]
    <3>1. CASE i = n + 1
      <4>1. g[i] = next
        BY <2>4, <3>1
      <4>2. i # 1 => i - 1 \in D /\ i - 1 = n /\ n # 0 /\ g[i - 1] = f[n]
        BY <1>1, <2>4, <3>1
      <4> QED BY <3>1, <4>1, <4>2
    <3>2. CASE i # n + 1
      <4>1. i <= n /\ g[i] = f[i]
        BY <2>4, <3>2
      <4>2. i # 1 => i - 1 \in D /\ i - 1 # n + 1 /\ g[i - 1] = f[i - 1]
        BY <1>1, <2>4, <4>1
      <4> QED BY <2>1, <4>1, <4>2
    <3> QED BY <3>1, <3>2
  <2>5. n + 1 \in Nat /\ Upto(g, n + 1)
    <3> HIDE DEF g
    <3> QED BY <2>4
  <2> QED BY <2>3, <2>5
<1>4. Len(seqs) \in N
  <2> HIDE DEF N
  <2>1. N \in SUBSET Nat
    BY DEF N
  <2> QED BY <1>1, <1>2, <1>3, <2>1, AllNaturals
<1>5. PICK f \in [D -> Seq(S)] : Upto(f, Len(seqs))
  BY <1>4
<1>6. \A i \in D : i <= Len(seqs)
  BY <1>1
<1>7. Gathers(f, seqs)
  BY <1>5, <1>6 DEF Gathers
<1> QED BY <1>7

\* ... and only one.
LEMMA GathersUnique ==
    ASSUME NEW seqs, Len(seqs) \in Nat, NEW f, NEW g, Gathers(f, seqs), Gathers(g, seqs)
    PROVE  \A i \in 1 .. Len(seqs) : f[i] = g[i]
<1> DEFINE N == {n \in Nat : n + 1 \in 1 .. Len(seqs) => f[n + 1] = g[n + 1]}
<1>1. 0 \in N
  BY DEF Gathers
<1>2. ASSUME NEW n \in N PROVE n + 1 \in N
  <2>1. SUFFICES ASSUME n + 2 \in 1 .. Len(seqs) PROVE f[n + 2] = g[n + 2]
    BY <1>2
  <2>2. f[n + 1] = g[n + 1]
    BY <1>2, <2>1
  <2>3. f[n + 2] = f[n + 1] \o seqs[n + 2] /\ g[n + 2] = g[n + 1] \o seqs[n + 2]
    <3>1. n + 2 # 1 /\ (n + 2) - 1 = n + 1
      BY <1>2
    <3> QED BY <2>1, <3>1 DEF Gathers
  <2> QED BY <2>2, <2>3
<1>3. N = Nat
  <2> HIDE DEF N
  <2>1. N \in SUBSET Nat
    BY DEF N
  <2> QED BY <1>1, <1>2, <2>1, AllNaturals
<1>4. ASSUME NEW i \in 1 .. Len(seqs) PROVE f[i] = g[i]
  <2>1. i - 1 \in Nat /\ (i - 1) + 1 = i
    OBVIOUS
  <2>2. i - 1 \in N
    BY <1>3, <2>1
  <2> QED BY <2>1, <2>2
<1> QED BY <1>4

\* What FlattenSeq gives is the last of what is gathered.
LEMMA FlattenGathers ==
    ASSUME NEW S, NEW seqs \in Seq(Seq(S)), seqs # <<>>,
           NEW f, Gathers(f, seqs)
    PROVE  FlattenSeq(seqs) = f[Len(seqs)]
<1> DEFINE Rec(g) == g = [i \in 1 .. Len(seqs) |-> IF i = 1 THEN seqs[i] ELSE g[i - 1] \o seqs[i]]
           h == CHOOSE g : Rec(g)
<1>1. Len(seqs) \in Nat /\ Len(seqs) # 0 /\ Len(seqs) \in 1 .. Len(seqs)
  BY EmptySeq, LenProperties
<1>2. PICK g \in [1 .. Len(seqs) -> Seq(S)] : Gathers(g, seqs)
  BY GathersExists
<1>3. Rec(g)
  <2>1. g = [i \in 1 .. Len(seqs) |-> g[i]]
    BY <1>2
  <2>2. \A i \in 1 .. Len(seqs) : g[i] = IF i = 1 THEN seqs[i] ELSE g[i - 1] \o seqs[i]
    BY <1>2 DEF Gathers
  <2> QED BY <2>1, <2>2
<1>4. Rec(h)
  <2> HIDE DEF Rec
  <2> QED BY <1>3
<1>5. FlattenSeq(seqs) = h[Len(seqs)]
  BY <1>1 DEF FlattenSeq
<1>6. Gathers(h, seqs)
  <2>1. \A i \in 1 .. Len(seqs) : [j \in 1 .. Len(seqs) |-> IF j = 1 THEN seqs[j] ELSE h[j - 1] \o seqs[j]][i]
                                  = IF i = 1 THEN seqs[i] ELSE h[i - 1] \o seqs[i]
    OBVIOUS
  <2> HIDE DEF h
  <2> QED BY <1>4, <2>1 DEF Gathers
<1>7. h[Len(seqs)] = f[Len(seqs)]
  <2> HIDE DEF h
  <2> QED BY <1>1, <1>6, GathersUnique
<1> QED BY <1>5, <1>7

\* \o is associative.
LEMMA Associative ==
    ASSUME NEW S, NEW x \in Seq(S), NEW y \in Seq(S), NEW z \in Seq(S)
    PROVE  x \o (y \o z) = (x \o y) \o z
BY ConcatAssociative, SMTT(30)

AssociativeOn(S) == \A x, y, z \in Seq(S) : x \o (y \o z) = (x \o y) \o z

\* ... of sequences of bytes as of others.
LEMMA AssociativeBytes == AssociativeOn(Nat)
<1>1. \A S : AssociativeOn(S)
  BY Associative DEF AssociativeOn
<1> QED BY <1>1

\* Bytes put together in one order or another.
Regroups(a, d, l, p) ==
    /\ a \o ((d \o l) \o p) = (a \o d) \o (l \o p)
    /\ l \o p \in Seq(Nat) /\ <<>> \o (l \o p) = l \o p

LEMMA Regroup == \A a, d, l, p \in Seq(Nat) : Regroups(a, d, l, p)
<1> TAKE a, d, l, p \in Seq(Nat)
<1>1. d \o (l \o p) = (d \o l) \o p
  BY AssociativeBytes DEF AssociativeOn
<1> DEFINE x == l \o p
<1>2. x \in Seq(Nat)
  BY ConcatProperties
<1>3. <<>> \o x = x
  <2> HIDE DEF x
  <2> QED BY <1>2, ConcatEmptySeq
<1>4. a \o (d \o x) = (a \o d) \o x
  <2> HIDE DEF x
  <2> QED BY <1>2, AssociativeBytes, SMTT(30) DEF AssociativeOn
<1>5. a \o ((d \o l) \o p) = (a \o d) \o (l \o p)
  BY <1>1, <1>4
<1> QED BY <1>2, <1>3, <1>5 DEF Regroups

\* Nothing, and one sequence.
LEMMA FlattenSmall ==
    ASSUME NEW S, NEW s \in Seq(S)
    PROVE  FlattenSeq(<<>>) = <<>> /\ FlattenSeq(<<s>>) = s
<1>1. FlattenSeq(<<>>) = <<>>
  <2>1. Len(<<>>) = 0
    BY EmptySeq
  <2> QED BY <2>1 DEF FlattenSeq
<1>2. <<s>> \in Seq(Seq(S)) /\ Len(<<s>>) = 1 /\ <<s>>[1] = s /\ <<s>> # <<>>
  OBVIOUS
<1>3. Gathers(<<s>>, <<s>>)
  BY <1>2 DEF Gathers
<1> QED BY <1>1, <1>2, <1>3, FlattenGathers

\* The result is a sequence of what the sequences are made of.
LEMMA FlattenType ==
    ASSUME NEW S, NEW seqs \in Seq(Seq(S))
    PROVE  FlattenSeq(seqs) \in Seq(S)
<1>1. CASE seqs = <<>>
  <2>1. <<>> \in Seq(S) /\ FlattenSeq(<<>>) = <<>>
    BY EmptySeq, FlattenSmall
  <2> QED BY <1>1, <2>1
<1>2. CASE seqs # <<>>
  <2>1. PICK f \in [1 .. Len(seqs) -> Seq(S)] : Gathers(f, seqs)
    BY GathersExists
  <2>2. FlattenSeq(seqs) = f[Len(seqs)]
    BY <1>2, <2>1, FlattenGathers
  <2>3. Len(seqs) \in 1 .. Len(seqs)
    BY <1>2, EmptySeq
  <2> QED BY <2>2, <2>3
<1> QED BY <1>1, <1>2

\* The sequences of s and t are those of s, then those of t.
LEMMA FlattenConcat ==
    ASSUME NEW S, NEW s \in Seq(Seq(S)), NEW t \in Seq(Seq(S))
    PROVE  FlattenSeq(s \o t) = FlattenSeq(s) \o FlattenSeq(t)
<1>1. FlattenSeq(s) \in Seq(S) /\ FlattenSeq(t) \in Seq(S) /\ FlattenSeq(<<>>) = <<>>
  BY FlattenType, FlattenSmall, EmptySeq
<1>2. CASE s = <<>>
  <2>1. s \o t = t /\ FlattenSeq(s) = <<>>
    BY <1>1, <1>2, ConcatEmptySeq
  <2> QED BY <1>1, <2>1, ConcatEmptySeq
<1>3. CASE t = <<>>
  <2>1. s \o t = s /\ FlattenSeq(t) = <<>>
    BY <1>1, <1>3, ConcatEmptySeq
  <2> QED BY <1>1, <2>1, ConcatEmptySeq
<1>4. CASE s # <<>> /\ t # <<>>
  <2>1. PICK f \in [1 .. Len(s) -> Seq(S)] : Gathers(f, s)
    BY GathersExists
  <2>2. PICK g \in [1 .. Len(t) -> Seq(S)] : Gathers(g, t)
    BY GathersExists
  <2> DEFINE m == Len(s)
             n == Len(t)
             h == [i \in 1 .. m + n |-> IF i <= m THEN f[i] ELSE f[m] \o g[i - m]]
  <2>3. m \in Nat /\ n \in Nat /\ m > 0 /\ n > 0
    BY <1>4, EmptySeq
  <2>4. /\ s \o t \in Seq(Seq(S)) /\ Len(s \o t) = m + n
        /\ \A i \in 1 .. m + n : (s \o t)[i] = IF i <= m THEN s[i] ELSE t[i - m]
    BY ConcatProperties
  <2>5. s \o t # <<>>
    BY <2>3, <2>4, EmptySeq
  <2>6. ASSUME NEW i \in 1 .. m + n
        PROVE  h[i] = IF i = 1 THEN (s \o t)[i] ELSE h[i - 1] \o (s \o t)[i]
    <3>1. CASE i <= m
      <4>1. h[i] = f[i] /\ (s \o t)[i] = s[i] /\ i \in 1 .. m
        BY <2>3, <2>4, <3>1
      <4>2. i # 1 => i - 1 \in 1 .. m + n /\ i - 1 <= m
        BY <2>3, <3>1
      <4>3. i # 1 => h[i - 1] = f[i - 1]
        BY <4>2
      <4>4. f[i] = IF i = 1 THEN s[i] ELSE f[i - 1] \o s[i]
        BY <2>1, <4>1 DEF Gathers
      <4> HIDE DEF h
      <4> QED BY <4>1, <4>3, <4>4
    <3>2. CASE i = m + 1
      <4>1. h[i] = f[m] \o g[1] /\ (s \o t)[i] = t[1]
        BY <2>3, <2>4, <3>2
      <4>2. i # 1 /\ i - 1 = m /\ m \in 1 .. m + n
        BY <2>3, <3>2
      <4>3. h[m] = f[m]
        BY <2>3, <4>2
      <4>4. g[1] = t[1]
        <5>1. 1 \in 1 .. n
          BY <2>3
        <5> QED BY <2>2, <5>1 DEF Gathers
      <4> HIDE DEF h
      <4> QED BY <4>1, <4>2, <4>3, <4>4
    <3>3. CASE i > m + 1
      <4> DEFINE j == i - m
      <4>1. j \in 1 .. n /\ j # 1 /\ j - 1 \in 1 .. n /\ i # 1 /\ i - 1 \in 1 .. m + n /\ ~(i - 1 <= m)
            /\ (i - 1) - m = j - 1 /\ ~(i <= m) /\ m \in 1 .. m
        BY <2>3, <3>3
      <4>2. h[i] = f[m] \o g[j] /\ (s \o t)[i] = t[j]
        BY <2>4, <4>1
      <4>3. h[i - 1] = f[m] \o g[j - 1]
        BY <4>1
      <4>4. g[j] = g[j - 1] \o t[j]
        BY <2>2, <4>1 DEF Gathers
      <4>5. f[m] \in Seq(S) /\ g[j - 1] \in Seq(S) /\ t[j] \in Seq(S)
        BY <4>1, ElementOfSeq
      <4>6. f[m] \o (g[j - 1] \o t[j]) = (f[m] \o g[j - 1]) \o t[j]
        <5> DEFINE x == f[m]
                   y == g[j - 1]
                   z == t[j]
        <5>1. x \in Seq(S) /\ y \in Seq(S) /\ z \in Seq(S)
          BY <4>5
        <5> HIDE DEF x, y, z
        <5>2. x \o (y \o z) = (x \o y) \o z
          BY <5>1, Associative, SMTT(30)
        <5> QED BY <5>2 DEF x, y, z
      <4> HIDE DEF h, j
      <4> QED BY <4>1, <4>2, <4>3, <4>4, <4>6
    <3> QED BY <2>3, <3>1, <3>2, <3>3
  <2>7. Gathers(h, s \o t)
    <3> HIDE DEF h
    <3> QED BY <2>4, <2>6 DEF Gathers
  <2>8. FlattenSeq(s \o t) = h[m + n]
    BY <2>4, <2>5, <2>7, FlattenGathers
  <2>9. h[m + n] = f[m] \o g[n]
    <3>1. m + n \in 1 .. m + n /\ ~(m + n <= m) /\ (m + n) - m = n
      BY <2>3
    <3> QED BY <3>1
  <2>10. FlattenSeq(s) = f[m] /\ FlattenSeq(t) = g[n]
    BY <1>4, <2>1, <2>2, FlattenGathers
  <2> QED BY <2>8, <2>9, <2>10
<1> QED BY <1>2, <1>3, <1>4

-----------------------------------------------------------------------------
(***************************************************************************)
(* What a queue of links and bytes stands for.                             *)
(***************************************************************************)
ItemsOf(B) == [kind : {"link"}, cid : B] \cup [kind : {"data"}, data : Seq(Nat)]

\* The bytes an item leads to, where k gives the content of the blocks.
ItemBytes(k, item) == IF item.kind = "link" THEN k[item.cid] ELSE item.data
Each(k, items) == [i \in DOMAIN items |-> ItemBytes(k, items[i])]
Expand(k, items) == FlattenSeq(Each(k, items))

\* Each item leads to bytes.
LEMMA EachType ==
    ASSUME NEW B, NEW k \in [B -> Seq(Nat)], NEW items \in Seq(ItemsOf(B))
    PROVE  /\ Each(k, items) \in Seq(Seq(Nat))
           /\ Len(Each(k, items)) = Len(items)
           /\ \A i \in 1 .. Len(items) : Each(k, items)[i] = ItemBytes(k, items[i])
           /\ Expand(k, items) \in Seq(Nat)
<1>1. DOMAIN items = 1 .. Len(items) /\ Len(items) \in Nat
  BY LenProperties
<1>2. ASSUME NEW i \in 1 .. Len(items) PROVE ItemBytes(k, items[i]) \in Seq(Nat)
  <2>1. items[i] \in ItemsOf(B)
    BY ElementOfSeq
  <2> QED BY <2>1 DEF ItemsOf, ItemBytes
<1>3. Each(k, items) = [i \in 1 .. Len(items) |-> ItemBytes(k, items[i])]
  BY <1>1 DEF Each
<1>4. Each(k, items) \in Seq(Seq(Nat)) /\ Len(Each(k, items)) = Len(items)
  BY <1>1, <1>2, <1>3
<1>5. Expand(k, items) \in Seq(Nat)
  BY <1>4, FlattenType DEF Expand
<1> QED BY <1>3, <1>4, <1>5

\* Two queues one behind the other stand for their bytes one behind the other.
LEMMA ExpandConcat ==
    ASSUME NEW B, NEW k \in [B -> Seq(Nat)],
           NEW s \in Seq(ItemsOf(B)), NEW t \in Seq(ItemsOf(B))
    PROVE  Expand(k, s \o t) = Expand(k, s) \o Expand(k, t)
<1> DEFINE es == Each(k, s)
           et == Each(k, t)
           e == Each(k, s \o t)
<1>1. /\ s \o t \in Seq(ItemsOf(B)) /\ Len(s \o t) = Len(s) + Len(t)
      /\ \A i \in 1 .. Len(s) + Len(t) : (s \o t)[i] = IF i <= Len(s) THEN s[i] ELSE t[i - Len(s)]
  BY ConcatProperties
<1>2. Len(s) \in Nat /\ Len(t) \in Nat
  BY LenProperties
<1>3. /\ es \in Seq(Seq(Nat)) /\ Len(es) = Len(s)
      /\ \A i \in 1 .. Len(s) : es[i] = ItemBytes(k, s[i])
  BY EachType
<1>4. /\ et \in Seq(Seq(Nat)) /\ Len(et) = Len(t)
      /\ \A i \in 1 .. Len(t) : et[i] = ItemBytes(k, t[i])
  BY EachType
<1>5. /\ e \in Seq(Seq(Nat)) /\ Len(e) = Len(s \o t)
      /\ \A i \in 1 .. Len(s \o t) : e[i] = ItemBytes(k, (s \o t)[i])
  BY <1>1, EachType
<1> HIDE DEF es, et, e
<1>6. /\ es \o et \in Seq(Seq(Nat)) /\ Len(es \o et) = Len(s) + Len(t)
      /\ \A i \in 1 .. Len(s) + Len(t) : (es \o et)[i] = IF i <= Len(s) THEN es[i] ELSE et[i - Len(s)]
  <2>1. /\ es \o et \in Seq(Seq(Nat)) /\ Len(es \o et) = Len(es) + Len(et)
        /\ \A i \in 1 .. Len(es) + Len(et) : (es \o et)[i] = IF i <= Len(es) THEN es[i] ELSE et[i - Len(es)]
    <3>1. es \in Seq(Seq(Nat)) /\ et \in Seq(Seq(Nat))
      BY <1>3, <1>4
    <3> QED BY <3>1, ConcatProperties
  <2>2. Len(es) = Len(s) /\ Len(et) = Len(t)
    BY <1>3, <1>4
  <2> QED BY <2>1, <2>2
<1>7. ASSUME NEW i \in 1 .. Len(e) PROVE e[i] = (es \o et)[i]
  <2>1. i \in 1 .. Len(s) + Len(t) /\ e[i] = ItemBytes(k, (s \o t)[i])
    BY <1>1, <1>5, <1>7
  <2>2. CASE i <= Len(s)
    <3>1. i \in 1 .. Len(s)
      BY <1>2, <2>1, <2>2
    <3> QED BY <1>1, <1>3, <1>6, <2>1, <2>2, <3>1
  <2>3. CASE ~(i <= Len(s))
    <3>1. i - Len(s) \in 1 .. Len(t)
      BY <1>2, <2>1, <2>3
    <3> QED BY <1>1, <1>4, <1>6, <2>1, <2>3, <3>1
  <2> QED BY <2>2, <2>3
<1>8. e = es \o et
  <2>1. Len(e) = Len(es \o et)
    BY <1>1, <1>5, <1>6
  <2> QED BY <1>5, <1>6, <1>7, <2>1, SeqEqual
<1>9. FlattenSeq(es \o et) = FlattenSeq(es) \o FlattenSeq(et)
  BY <1>3, <1>4, FlattenConcat
<1> QED BY <1>8, <1>9 DEF Expand, e, es, et

\* A queue put together from several stands for what each of them stands for.
LEMMA ExpandFlatten ==
    ASSUME NEW B, NEW k \in [B -> Seq(Nat)], NEW seqs \in Seq(Seq(ItemsOf(B)))
    PROVE  Expand(k, FlattenSeq(seqs)) = FlattenSeq([i \in DOMAIN seqs |-> Expand(k, seqs[i])])
<1> DEFINE I == ItemsOf(B)
           e == [i \in DOMAIN seqs |-> Expand(k, seqs[i])]
<1>1. Len(seqs) \in Nat /\ DOMAIN seqs = 1 .. Len(seqs) /\ \A i \in 1 .. Len(seqs) : seqs[i] \in Seq(I)
  BY LenProperties, ElementOfSeq
<1>2. \A i \in 1 .. Len(seqs) : Expand(k, seqs[i]) \in Seq(Nat)
  BY <1>1, EachType
<1>3. e \in Seq(Seq(Nat)) /\ Len(e) = Len(seqs) /\ \A i \in 1 .. Len(seqs) : e[i] = Expand(k, seqs[i])
  BY <1>1, <1>2
<1>4. CASE seqs = <<>>
  <2>1. FlattenSeq(<<>>) = <<>> /\ <<>> \in Seq(I)
    BY FlattenSmall, EmptySeq
  <2>2. Len(Each(k, <<>>)) = 0 /\ Each(k, <<>>) \in Seq(Seq(Nat))
    BY <2>1, EachType, EmptySeq
  <2>3. Each(k, <<>>) = <<>> /\ e = <<>>
    BY <1>3, <1>4, <2>2, EmptySeq
  <2> QED BY <1>4, <2>1, <2>3 DEF Expand
<1>5. CASE seqs # <<>>
  <2>1. PICK f \in [1 .. Len(seqs) -> Seq(I)] : Gathers(f, seqs)
    BY GathersExists
  <2> DEFINE g == [i \in 1 .. Len(seqs) |-> Expand(k, f[i])]
  <2>2. ASSUME NEW i \in 1 .. Len(seqs)
        PROVE  g[i] = IF i = 1 THEN e[i] ELSE g[i - 1] \o e[i]
    <3>1. f[i] = IF i = 1 THEN seqs[i] ELSE f[i - 1] \o seqs[i]
      BY <2>1 DEF Gathers
    <3>2. g[i] = Expand(k, f[i]) /\ e[i] = Expand(k, seqs[i])
      BY <1>3
    <3>3. CASE i = 1
      BY <3>1, <3>2, <3>3
    <3>4. CASE i # 1
      <4>1. i - 1 \in 1 .. Len(seqs)
        BY <1>1, <3>4
      <4>2. f[i - 1] \in Seq(I) /\ seqs[i] \in Seq(I) /\ g[i - 1] = Expand(k, f[i - 1])
        BY <1>1, <4>1
      <4>3. Expand(k, f[i - 1] \o seqs[i]) = Expand(k, f[i - 1]) \o Expand(k, seqs[i])
        <5> DEFINE x == f[i - 1]
                   y == seqs[i]
        <5>1. x \in Seq(ItemsOf(B)) /\ y \in Seq(ItemsOf(B))
          BY <4>2
        <5> HIDE DEF x, y
        <5>2. Expand(k, x \o y) = Expand(k, x) \o Expand(k, y)
          BY <5>1, ExpandConcat
        <5> QED BY <5>2 DEF x, y
      <4> HIDE DEF g, e
      <4> QED BY <3>1, <3>2, <3>4, <4>2, <4>3
    <3>5. \A m, n \in Nat : m + n \in Nat
      OBVIOUS
    <3> QED BY <3>3, <3>4, <3>5, Zenon
  <2>3. Gathers(g, e)
    <3> HIDE DEF g, e
    <3> QED BY <1>3, <2>2 DEF Gathers
  <2>4. e # <<>>
    <3> HIDE DEF e
    <3>1. Len(seqs) # 0
      BY <1>5, EmptySeq
    <3> QED BY <1>3, <3>1, EmptySeq
  <2>5. FlattenSeq(e) = g[Len(e)]
    <3> HIDE DEF g, e
    <3> QED BY <1>3, <2>3, <2>4, FlattenGathers
  <2>6. FlattenSeq(seqs) = f[Len(seqs)]
    BY <1>5, <2>1, FlattenGathers
  <2>7. Len(seqs) \in 1 .. Len(seqs)
    BY <1>1, <1>5, EmptySeq
  <2>8. g[Len(e)] = Expand(k, f[Len(seqs)])
    BY <1>3, <2>7
  <2> HIDE DEF g, e
  <2>9. FlattenSeq(e) = Expand(k, FlattenSeq(seqs))
    BY <2>5, <2>6, <2>8
  <2> QED BY <2>9 DEF e
<1> QED BY <1>4, <1>5

-----------------------------------------------------------------------------
(***************************************************************************)
(* The content of a file.                                                  *)
(***************************************************************************)
\* A block is named by the hash of what it holds, its links among it, so that no
\* block leads back to itself.
NoCycles(f) ==
    \E depth \in Nat : \E rank \in [DOMAIN f.block -> 0 .. depth] :
       \A c \in DOMAIN f.block : \A i \in DOMAIN f.block[c].links :
          rank[f.block[c].links[i]] < rank[c]

\* Cids are verified (cidutil.verify_block), so that no file asked for has a cycle.
NoFileHasCycles == \A f \in Files : NoCycles(f)

\* The content of a block, where k gives that of the blocks it leads to.
Under(f, k, c) ==
    IF f.block[c].kind = "folder" THEN <<>> ELSE
    f.block[c].data \o
    FlattenSeq([i \in DOMAIN f.block[c].links |-> k[f.block[c].links[i]]])

\* The function that Content defines.
Contents(f) == CHOOSE k : k = [c \in DOMAIN f.block |-> Under(f, k, c)]

\* The content of a block is what its bytes and its links stand for.
LEMMA UnderType ==
    ASSUME NEW f, IsFile(f), NEW k \in [DOMAIN f.block -> Seq(Nat)], NEW c \in DOMAIN f.block
    PROVE  /\ Under(f, k, c) \in Seq(Nat)
           /\ Links(f.block[c].links) \in Seq(ItemsOf(DOMAIN f.block))
           /\ Under(f, k, c) = IF f.block[c].kind = "folder" THEN <<>>
                               ELSE f.block[c].data \o Expand(k, Links(f.block[c].links))
<1> DEFINE B == DOMAIN f.block
           links == f.block[c].links
           next == [i \in DOMAIN links |-> k[links[i]]]
<1>1. links \in Seq(B) /\ f.block[c].data \in Seq(Nat)
  BY DEF IsFile
<1>2. DOMAIN links = 1 .. Len(links) /\ Len(links) \in Nat /\ \A i \in 1 .. Len(links) : links[i] \in B
  BY <1>1, LenProperties, ElementOfSeq
<1>3. /\ DOMAIN Links(links) = 1 .. Len(links)
      /\ \A i \in 1 .. Len(links) : Links(links)[i] = [kind |-> "link", cid |-> links[i]]
  BY <1>2 DEF Links, Link
<1>4. \A i \in 1 .. Len(links) : [kind |-> "link", cid |-> links[i]] \in ItemsOf(B)
  BY <1>2 DEF ItemsOf
<1>5. Links(links) \in Seq(ItemsOf(B)) /\ Len(Links(links)) = Len(links)
  <2>1. Links(links) = [i \in 1 .. Len(links) |-> [kind |-> "link", cid |-> links[i]]]
    BY <1>2 DEF Links, Link
  <2> QED BY <1>2, <1>4, <2>1
<1>6. next = Each(k, Links(links))
  <2>1. \A i \in 1 .. Len(links) : ItemBytes(k, Links(links)[i]) = k[links[i]]
    <3>1. ASSUME NEW i \in 1 .. Len(links) PROVE ItemBytes(k, Links(links)[i]) = k[links[i]]
      <4>1. Links(links)[i] = [kind |-> "link", cid |-> links[i]]
        BY <1>3
      <4>2. ItemBytes(k, [kind |-> "link", cid |-> links[i]]) = k[links[i]]
        BY DEF ItemBytes
      <4> QED BY <4>1, <4>2
    <3> QED BY <3>1
  <2>2. Each(k, Links(links)) = [i \in 1 .. Len(links) |-> ItemBytes(k, Links(links)[i])]
    BY <1>3 DEF Each
  <2>3. next = [i \in 1 .. Len(links) |-> k[links[i]]]
    BY <1>2
  <2> QED BY <2>1, <2>2, <2>3
<1>7. FlattenSeq(next) = Expand(k, Links(links)) /\ Expand(k, Links(links)) \in Seq(Nat)
  BY <1>5, <1>6, EachType DEF Expand
<1>8. f.block[c].data \o Expand(k, Links(links)) \in Seq(Nat) /\ <<>> \in Seq(Nat)
  BY <1>1, <1>7, ConcatProperties, EmptySeq
<1>9. Under(f, k, c) = IF f.block[c].kind = "folder" THEN <<>>
                       ELSE f.block[c].data \o Expand(k, Links(links))
  BY <1>7 DEF Under
<1> QED BY <1>5, <1>8, <1>9

\* It depends on the content of the blocks it links to.
LEMMA UnderDepends ==
    ASSUME NEW f, IsFile(f), NEW c \in DOMAIN f.block, NEW k, NEW l,
           \A i \in DOMAIN f.block[c].links : k[f.block[c].links[i]] = l[f.block[c].links[i]]
    PROVE  Under(f, k, c) = Under(f, l, c)
<1>1. [i \in DOMAIN f.block[c].links |-> k[f.block[c].links[i]]]
      = [i \in DOMAIN f.block[c].links |-> l[f.block[c].links[i]]]
  OBVIOUS
<1> QED BY <1>1 DEF Under

\* The recursion of Content has a solution for a file without cycles.
LEMMA ContentsExists ==
    ASSUME NEW f, IsFile(f), NoCycles(f)
    PROVE  \E k \in [DOMAIN f.block -> Seq(Nat)] : \A c \in DOMAIN f.block : k[c] = Under(f, k, c)
<1> DEFINE B == DOMAIN f.block
<1>0. PICK depth \in Nat : \E rank \in [B -> 0 .. depth] :
         \A c \in B : \A i \in DOMAIN f.block[c].links : rank[f.block[c].links[i]] < rank[c]
  BY DEF NoCycles
<1>1. PICK rank \in [B -> 0 .. depth] :
         \A c \in B : \A i \in DOMAIN f.block[c].links : rank[f.block[c].links[i]] < rank[c]
  BY <1>0
<1>2. ASSUME NEW c \in B, NEW i \in DOMAIN f.block[c].links
      PROVE  f.block[c].links[i] \in B
  <2>1. f.block[c].links \in Seq(B)
    BY DEF IsFile
  <2>2. i \in 1 .. Len(f.block[c].links)
    BY <2>1, LenProperties
  <2> QED BY <2>1, <2>2, ElementOfSeq
<1> DEFINE Upto(k, n) == \A c \in B : rank[c] < n => k[c] = Under(f, k, c)
           N == {n \in Nat : \E k \in [B -> Seq(Nat)] : Upto(k, n)}
<1>3. 0 \in N
  <2>1. [c \in B |-> <<>>] \in [B -> Seq(Nat)]
    BY EmptySeq
  <2>2. Upto([c \in B |-> <<>>], 0)
    BY <1>1
  <2> QED BY <2>1, <2>2
<1>4. ASSUME NEW n \in N PROVE n + 1 \in N
  <2>1. PICK k \in [B -> Seq(Nat)] : Upto(k, n)
    BY <1>4
  <2>2. n \in Nat
    BY <1>4
  <2> DEFINE g == [c \in B |-> IF rank[c] < n THEN k[c] ELSE Under(f, k, c)]
  <2>3. g \in [B -> Seq(Nat)]
    <3>1. \A c \in B : Under(f, k, c) \in Seq(Nat)
      BY UnderType
    <3> QED BY <3>1
  <2>4. ASSUME NEW c \in B, rank[c] < n + 1
        PROVE  g[c] = Under(f, g, c)
    <3>1. ASSUME NEW i \in DOMAIN f.block[c].links
          PROVE  g[f.block[c].links[i]] = k[f.block[c].links[i]]
      <4>1. f.block[c].links[i] \in B
        BY <1>2
      <4>2. rank[f.block[c].links[i]] < rank[c]
        BY <1>1
      <4>3. rank[f.block[c].links[i]] \in Nat /\ rank[c] \in Nat
        BY <1>1, <4>1
      <4>4. rank[f.block[c].links[i]] < n
        BY <2>2, <2>4, <4>2, <4>3
      <4> QED BY <4>1, <4>4
    <3>2. Under(f, g, c) = Under(f, k, c)
      <4> HIDE DEF g
      <4> QED BY <3>1, UnderDepends
    <3>3. g[c] = Under(f, k, c)
      BY <2>1
    <3> HIDE DEF g
    <3> QED BY <3>2, <3>3
  <2>5. Upto(g, n + 1)
    <3> HIDE DEF g
    <3> QED BY <2>4
  <2> HIDE DEF g, Upto
  <2> QED BY <2>2, <2>3, <2>5
<1>5. depth + 1 \in N
  <2> HIDE DEF N
  <2>1. N \in SUBSET Nat
    BY DEF N
  <2> QED BY <1>1, <1>3, <1>4, <2>1, AllNaturals
<1>6. PICK k \in [B -> Seq(Nat)] : Upto(k, depth + 1)
  BY <1>5
<1>7. \A c \in B : rank[c] < depth + 1
  BY <1>1
<1>8. \A c \in B : k[c] = Under(f, k, c)
  BY <1>6, <1>7
<1> QED BY <1>6, <1>8

\* ... and only one.
LEMMA ContentsUnique ==
    ASSUME NEW f, IsFile(f), NoCycles(f), NEW k, NEW l,
           \A c \in DOMAIN f.block : k[c] = Under(f, k, c),
           \A c \in DOMAIN f.block : l[c] = Under(f, l, c)
    PROVE  \A c \in DOMAIN f.block : k[c] = l[c]
<1> DEFINE B == DOMAIN f.block
<1>0. PICK depth \in Nat : \E rank \in [B -> 0 .. depth] :
         \A c \in B : \A i \in DOMAIN f.block[c].links : rank[f.block[c].links[i]] < rank[c]
  BY DEF NoCycles
<1>1. PICK rank \in [B -> 0 .. depth] :
         \A c \in B : \A i \in DOMAIN f.block[c].links : rank[f.block[c].links[i]] < rank[c]
  BY <1>0
<1> DEFINE N == {n \in Nat : \A c \in B : rank[c] < n => k[c] = l[c]}
<1>2. 0 \in N
  BY <1>1
<1>3. ASSUME NEW n \in N PROVE n + 1 \in N
  <2>1. n \in Nat /\ \A c \in B : rank[c] < n => k[c] = l[c]
    BY <1>3
  <2>2. ASSUME NEW c \in B, rank[c] < n + 1 PROVE k[c] = l[c]
    <3>1. ASSUME NEW i \in DOMAIN f.block[c].links
          PROVE  k[f.block[c].links[i]] = l[f.block[c].links[i]]
      <4>1. f.block[c].links \in Seq(B)
        BY DEF IsFile
      <4>2. i \in 1 .. Len(f.block[c].links)
        BY <4>1, LenProperties
      <4>3. f.block[c].links[i] \in B
        BY <4>1, <4>2, ElementOfSeq
      <4>4. rank[f.block[c].links[i]] < rank[c]
        BY <1>1
      <4>5. rank[f.block[c].links[i]] \in Nat /\ rank[c] \in Nat
        BY <1>1, <4>3
      <4>6. rank[f.block[c].links[i]] < n
        BY <2>1, <2>2, <4>4, <4>5
      <4> QED BY <2>1, <4>3, <4>6
    <3>2. Under(f, k, c) = Under(f, l, c)
      BY <3>1, UnderDepends
    <3> QED BY <3>2
  <2> QED BY <2>1, <2>2
<1>4. depth + 1 \in N
  <2> HIDE DEF N
  <2>1. N \in SUBSET Nat
    BY DEF N
  <2> QED BY <1>1, <1>2, <1>3, <2>1, AllNaturals
<1>5. \A c \in B : rank[c] < depth + 1
  BY <1>1
<1> QED BY <1>4, <1>5

\* Content is the content of the root, and that of a block is what it stands for.
LEMMA ContentsSpec ==
    ASSUME NEW f, IsFile(f), NoCycles(f)
    PROVE  /\ Contents(f) \in [DOMAIN f.block -> Seq(Nat)]
           /\ \A c \in DOMAIN f.block : Contents(f)[c] = Under(f, Contents(f), c)
           /\ Content(f) = Contents(f)[f.root]
           /\ Content(f) \in Seq(Nat)
<1> DEFINE B == DOMAIN f.block
           Rec(k) == k = [c \in B |-> Under(f, k, c)]
<1>1. PICK k \in [B -> Seq(Nat)] : \A c \in B : k[c] = Under(f, k, c)
  BY ContentsExists
<1>2. Rec(k)
  BY <1>1
<1>3. Rec(Contents(f))
  <2>1. Rec(CHOOSE g : Rec(g))
    <3> HIDE DEF Rec
    <3> QED BY <1>2
  <2> QED BY <2>1 DEF Contents
<1>4. \A c \in B : Contents(f)[c] = Under(f, Contents(f), c)
  <2>1. \A c \in B : [d \in B |-> Under(f, Contents(f), d)][c] = Under(f, Contents(f), c)
    OBVIOUS
  <2> QED BY <1>3, <2>1
<1>5. \A c \in B : Contents(f)[c] = k[c]
  BY <1>1, <1>4, ContentsUnique
<1>6. Contents(f) \in [B -> Seq(Nat)]
  BY <1>1, <1>3, <1>4, <1>5
<1>7. Content(f) = Contents(f)[f.root]
  BY DEF Content, Contents, Under
<1>8. f.root \in B
  BY DEF IsFile
<1> QED BY <1>4, <1>6, <1>7, <1>8

\* Bytes alone stand for themselves.
LEMMA ExpandBytes ==
    ASSUME NEW B, NEW k \in [B -> Seq(Nat)], NEW items \in Seq(ItemsOf(B)),
           \A i \in DOMAIN items : items[i].kind # "link"
    PROVE  Bytes(items) = Expand(k, items)
<1>1. DOMAIN items = 1 .. Len(items)
  BY LenProperties
<1>2. ASSUME NEW i \in DOMAIN items PROVE ItemBytes(k, items[i]) = items[i].data
  BY DEF ItemBytes
<1>3. [i \in DOMAIN items |-> items[i].data] = Each(k, items)
  BY <1>2 DEF Each
<1> QED BY <1>3 DEF Bytes, Expand

\* An item that is no link has bytes.
LEMMA ItemKinds ==
    ASSUME NEW B, NEW item \in ItemsOf(B)
    PROVE  /\ item.kind \in {"link", "data"}
           /\ item.kind = "link" => item.cid \in B
           /\ item.kind = "data" => item.data \in Seq(Nat)
BY DEF ItemsOf

\* A queue is the items up to a place and those behind it.
LEMMA ExpandCut ==
    ASSUME NEW B, NEW k \in [B -> Seq(Nat)], NEW items \in Seq(ItemsOf(B)), NEW n \in 0 .. Len(items)
    PROVE  /\ SubSeq(items, 1, n) \in Seq(ItemsOf(B))
           /\ SubSeq(items, n + 1, Len(items)) \in Seq(ItemsOf(B))
           /\ Len(SubSeq(items, 1, n)) = n /\ \A i \in 1 .. n : SubSeq(items, 1, n)[i] = items[i]
           /\ Len(SubSeq(items, n + 1, Len(items))) = Len(items) - n
           /\ \A i \in 1 .. Len(items) - n : SubSeq(items, n + 1, Len(items))[i] = items[n + i]
           /\ Expand(k, items) = Expand(k, SubSeq(items, 1, n)) \o Expand(k, SubSeq(items, n + 1, Len(items)))
<1>1. Len(items) \in Nat /\ \A i \in 1 .. Len(items) : items[i] \in ItemsOf(B)
  BY LenProperties, ElementOfSeq
<1> DEFINE s == SubSeq(items, 1, n)
           t == SubSeq(items, n + 1, Len(items))
<1>2. s \in Seq(ItemsOf(B)) /\ Len(s) = n /\ \A i \in 1 .. n : s[i] = items[i]
  <2>1. \A i \in 1 .. n : items[i] \in ItemsOf(B)
    BY <1>1
  <2>2. /\ s \in Seq(ItemsOf(B)) /\ Len(s) = (IF 1 <= n THEN n - 1 + 1 ELSE 0)
        /\ \A i \in 1 .. n - 1 + 1 : s[i] = items[1 + i - 1]
    BY <1>1, <2>1, SubSeqProperties
  <2> HIDE DEF s
  <2> QED BY <1>1, <2>2
<1>3. t \in Seq(ItemsOf(B)) /\ Len(t) = Len(items) - n /\ \A i \in 1 .. Len(items) - n : t[i] = items[n + i]
  <2>1. \A i \in n + 1 .. Len(items) : items[i] \in ItemsOf(B)
    BY <1>1
  <2>2. /\ t \in Seq(ItemsOf(B)) /\ Len(t) = (IF n + 1 <= Len(items) THEN Len(items) - (n + 1) + 1 ELSE 0)
        /\ \A i \in 1 .. Len(items) - (n + 1) + 1 : t[i] = items[n + 1 + i - 1]
    BY <1>1, <2>1, SubSeqProperties
  <2> HIDE DEF t
  <2> QED BY <1>1, <2>2
<1>4. items = s \o t
  <2> HIDE DEF s, t
  <2>1. /\ s \o t \in Seq(ItemsOf(B)) /\ Len(s \o t) = Len(s) + Len(t)
        /\ \A i \in 1 .. Len(s) + Len(t) : (s \o t)[i] = IF i <= Len(s) THEN s[i] ELSE t[i - Len(s)]
    BY <1>2, <1>3, ConcatProperties
  <2>2. Len(s \o t) = Len(items)
    BY <1>1, <1>2, <1>3, <2>1
  <2>3. ASSUME NEW i \in 1 .. Len(items) PROVE (s \o t)[i] = items[i]
    <3>1. CASE i <= n
      BY <1>1, <1>2, <1>3, <2>1, <3>1
    <3>2. CASE ~(i <= n)
      <4>1. i - n \in 1 .. Len(items) - n /\ n + (i - n) = i
        BY <1>1, <3>2
      <4> QED BY <1>1, <1>2, <1>3, <2>1, <3>2, <4>1
    <3> QED BY <3>1, <3>2
  <2> QED BY <2>1, <2>2, <2>3, SeqEqual
<1>5. Expand(k, s \o t) = Expand(k, s) \o Expand(k, t)
  BY <1>2, <1>3, ExpandConcat
<1> QED BY <1>2, <1>3, <1>4, <1>5

\* Resolvable is the number of items before the first link.
LEMMA ResolvableSpec ==
    ASSUME NEW B, NEW queue \in Seq(ItemsOf(B))
    PROVE  /\ Resolvable(queue) \in 0 .. Len(queue)
           /\ \A i \in 1 .. Resolvable(queue) : queue[i].kind # "link"
           /\ Resolvable(queue) < Len(queue) => queue[Resolvable(queue) + 1].kind = "link"
<1> DEFINE L == {i \in 1 .. Len(queue) : queue[i].kind = "link"}
<1>1. Len(queue) \in Nat
  BY LenProperties
<1>2. CASE L = {}
  <2>1. Resolvable(queue) = Len(queue)
    BY <1>2 DEF Resolvable, SelectInSeq
  <2> QED BY <1>1, <1>2, <2>1
<1>3. CASE L # {}
  <2>1. PICK m \in L : \A i \in L : m <= i
    <3>1. L \in SUBSET Nat
      OBVIOUS
    <3> HIDE DEF L
    <3> QED BY <1>3, <3>1, LeastNatural
  <2>2. Min(L) \in L /\ \A i \in L : Min(L) <= i
    <3> HIDE DEF L
    <3> QED BY <2>1 DEF Min
  <2>3. SelectInSeq(queue, LAMBDA item : item.kind = "link") = Min(L)
    BY <1>3 DEF SelectInSeq
  <2>4. Resolvable(queue) = Min(L) - 1
    BY <2>2, <2>3 DEF Resolvable
  <2> DEFINE n == Min(L)
  <2>5. n \in L /\ (\A i \in L : n <= i) /\ Resolvable(queue) = n - 1
    BY <2>2, <2>4
  <2> HIDE DEF n
  <2>6. n \in 1 .. Len(queue) /\ queue[n].kind = "link"
    BY <2>5
  <2>7. ASSUME NEW i \in 1 .. n - 1 PROVE queue[i].kind # "link"
    <3>1. i \in 1 .. Len(queue) /\ i < n
      BY <1>1, <2>6
    <3>2. i \notin L
      BY <2>5, <2>6, <3>1
    <3> QED BY <3>1, <3>2
  <2> QED BY <1>1, <2>5, <2>6, <2>7
<1> QED BY <1>2, <1>3

-----------------------------------------------------------------------------
(***************************************************************************)
(* The inductive invariant.                                                *)
(***************************************************************************)
\* The blocks being fetched, as links.
WaveLinks == Links([i \in DOMAIN wave |-> wave[i].cid])

\* What is at hand and what it leads to.
AtHand == out \o (Expand(Contents(file), WaveLinks) \o Expand(Contents(file), pending))

\* A block that has bytes or links, and not both, if it is of a file well made.
Simple(c) ==
    LET b == file.block[c]
    IN  WellMade(file) /\ b.kind = "file" => (b.data = <<>>) # (b.links = <<>>)

\* The root alone is being fetched, and nothing is there yet.
RootFirst ==
    at = "root" =>
       /\ Len(wave) = 1 /\ wave[1].cid = file.root /\ wave[1].state # "missing"
       /\ out = <<>> /\ pending = <<>> /\ mime = "none"

\* Until the kind is known there is one block at a time, and links alone wait.
Sniffing ==
    at = "sniff" => Len(wave) <= 1 /\ \A i \in DOMAIN pending : pending[i].kind = "link"

\* What is fetched or waits to be is linked from a block of the file.
Below ==
    at # "root" =>
       /\ \A i \in DOMAIN wave : Simple(wave[i].cid)
       /\ \A i \in DOMAIN pending : pending[i].kind = "link" => Simple(pending[i].cid)

\* The bytes at hand, then those of the blocks being fetched, then those of what
\* waits, are the content of a file well made: nothing lost or out of its place.
NothingLost == at \in {"sniff", "wave"} /\ WellMade(file) => AtHand = Content(file)

\* There is a result when the fetch is done, and not before.
DoneOnce ==
    /\ at # "done" => result = NoResult
    /\ at = "done" => wave = <<>>

IInv ==
    /\ TypeOK
    /\ RootFirst
    /\ Sniffing
    /\ Below
    /\ NothingLost
    /\ DoneOnce
    /\ HeadIsLink
    /\ SampleIsPrefix
    /\ WholeOrTruncated

\* Nothing stands for nothing, and one item for its bytes.
LEMMA ExpandSmall ==
    ASSUME NEW B, NEW k \in [B -> Seq(Nat)], NEW item \in ItemsOf(B)
    PROVE  Expand(k, <<>>) = <<>> /\ Expand(k, <<item>>) = ItemBytes(k, item)
<1>1. Each(k, <<>>) = <<>>
  <2>1. <<>> \in Seq(ItemsOf(B)) /\ Len(<<>>) = 0
    BY EmptySeq
  <2>2. Len(Each(k, <<>>)) = 0 /\ Each(k, <<>>) \in Seq(Seq(Nat))
    BY <2>1, EachType
  <2> QED BY <2>2, EmptySeq
<1>2. Each(k, <<item>>) = <<ItemBytes(k, item)>>
  BY DEF Each
<1>3. ItemBytes(k, item) \in Seq(Nat)
  BY ItemKinds DEF ItemBytes
<1> QED BY <1>1, <1>2, <1>3, FlattenSmall DEF Expand

\* The file asked for is a file as usual, and its content is given by its blocks.
LEMMA FileFacts ==
    ASSUME TypeOK, NoFileHasCycles
    PROVE  /\ IsFile(file) /\ NoCycles(file)
           /\ file.root \in DOMAIN file.block
           /\ Contents(file) \in [DOMAIN file.block -> Seq(Nat)]
           /\ \A c \in DOMAIN file.block : Contents(file)[c] = Under(file, Contents(file), c)
           /\ Content(file) = Contents(file)[file.root]
           /\ Content(file) \in Seq(Nat)
<1>1. file \in Files
  BY DEF TypeOK
<1>2. IsFile(file) /\ NoCycles(file)
  BY <1>1, FetchAssumption DEF NoFileHasCycles
<1> QED BY <1>2, ContentsSpec DEF IsFile

\* The links of a block lead to blocks that have bytes or links.
LEMMA LinksSpec ==
    ASSUME TypeOK, NoFileHasCycles, NEW c \in DOMAIN file.block
    PROVE  /\ Links(Block(c).links) \in Seq(ItemsOf(DOMAIN file.block))
           /\ \A i \in DOMAIN Links(Block(c).links) :
                 /\ Links(Block(c).links)[i].kind = "link"
                 /\ Simple(Links(Block(c).links)[i].cid)
<1> DEFINE links == Block(c).links
<1>1. Links(links) \in Seq(ItemsOf(DOMAIN file.block))
  BY FileFacts, UnderType DEF Block
<1>2. ASSUME NEW i \in DOMAIN Links(links)
      PROVE  Links(links)[i].kind = "link" /\ Simple(Links(links)[i].cid)
  <2>1. i \in DOMAIN links /\ Links(links)[i] = [kind |-> "link", cid |-> links[i]]
    BY DEF Links, Link
  <2>2. Links(links)[i].kind = "link" /\ Links(links)[i].cid = links[i]
    BY <2>1
  <2>3. Simple(links[i])
    BY <2>1 DEF WellMade, Simple, Block
  <2> QED BY <2>2, <2>3
<1> QED BY <1>1, <1>2

\* A block is replaced by what stands for its content.
LEMMA ReplacementSpec ==
    ASSUME TypeOK, NoFileHasCycles, NEW c \in DOMAIN file.block, Simple(c)
    PROVE  LET r == Replacement(_child_bytes(c))
           IN  /\ r \in Seq(ItemsOf(DOMAIN file.block))
               /\ WellMade(file) => Expand(Contents(file), r) = Contents(file)[c]
               /\ \A i \in DOMAIN r : r[i].kind = "link" => Simple(r[i].cid)
<1> DEFINE B == DOMAIN file.block
           k == Contents(file)
           r == Replacement(_child_bytes(c))
           b == file.block[c]
<1>1. /\ k \in [B -> Seq(Nat)] /\ k[c] = Under(file, k, c)
      /\ IsFile(file)
  BY FileFacts
<1>2. /\ b.kind \in {"leaf", "file", "folder"} /\ b.data \in Seq(Nat) /\ b.links \in Seq(B)
      /\ b.stored \in Seq(Nat) /\ (b.kind = "leaf" => b.links = <<>>)
  BY <1>1 DEF IsFile
<1>3. /\ Links(b.links) \in Seq(ItemsOf(B))
      /\ k[c] = IF b.kind = "folder" THEN <<>> ELSE b.data \o Expand(k, Links(b.links))
  BY <1>1, UnderType
<1>4. <<>> \in Seq(ItemsOf(B)) /\ Expand(k, <<>>) = <<>> /\ Links(<<>>) = <<>>
  <2>1. [kind |-> "data", data |-> <<>>] \in ItemsOf(B)
    BY EmptySeq DEF ItemsOf
  <2>2. Expand(k, <<>>) = <<>>
    BY <1>1, <2>1, ExpandSmall
  <2> QED BY <2>2, EmptySeq DEF Links
<1>5. CASE b.kind = "folder"
  <2>1. r = <<>>
    BY <1>5 DEF Replacement, _child_bytes, Block, Contribution
  <2> QED BY <1>3, <1>4, <1>5, <2>1
<1>6. CASE b.kind # "folder" /\ b.links # <<>>
  <2>1. r = Links(b.links)
    BY <1>6 DEF Replacement, _child_bytes, Block, Contribution
  <2>2. WellMade(file) => b.data = <<>>
    BY <1>2, <1>6 DEF Simple
  <2>3. Expand(k, Links(b.links)) \in Seq(Nat)
    BY <1>1, <1>3, EachType
  <2>4. WellMade(file) => k[c] = Expand(k, Links(b.links))
    BY <1>3, <1>6, <2>2, <2>3, ConcatEmptySeq
  <2>5. \A i \in DOMAIN Links(b.links) : Simple(Links(b.links)[i].cid)
    BY LinksSpec DEF Block
  <2> QED BY <1>3, <2>1, <2>4, <2>5
<1>7. CASE b.kind # "folder" /\ b.links = <<>> /\ b.data # <<>>
  <2>1. r = <<[kind |-> "data", data |-> b.data]>>
    BY <1>7 DEF Replacement, _child_bytes, Block, Contribution, Resolved
  <2>2. [kind |-> "data", data |-> b.data] \in ItemsOf(B)
    BY <1>2 DEF ItemsOf
  <2>3. ItemBytes(k, [kind |-> "data", data |-> b.data]) = b.data
    BY DEF ItemBytes
  <2>4. Expand(k, r) = b.data
    BY <1>1, <2>1, <2>2, <2>3, ExpandSmall
  <2>5. k[c] = b.data
    BY <1>2, <1>3, <1>4, <1>7, ConcatEmptySeq
  <2>6. r \in Seq(ItemsOf(B)) /\ \A i \in DOMAIN r : r[i].kind # "link"
    BY <2>1, <2>2
  <2> QED BY <2>4, <2>5, <2>6
<1>8. CASE b.kind = "leaf" /\ b.links = <<>> /\ b.data = <<>>
  <2>1. r = <<>>
    BY <1>8 DEF Replacement, _child_bytes, Block, Contribution
  <2>2. k[c] = <<>>
    BY <1>2, <1>3, <1>4, <1>8, ConcatEmptySeq
  <2> QED BY <1>4, <2>1, <2>2
<1>9. CASE b.kind = "file" /\ b.links = <<>> /\ b.data = <<>>
  <2>1. ~WellMade(file)
    BY <1>9 DEF Simple
  <2>2. r = IF b.stored # <<>> THEN <<[kind |-> "data", data |-> b.stored]>> ELSE <<>>
    BY <1>9 DEF Replacement, _child_bytes, Block, Contribution, Resolved
  <2>3. [kind |-> "data", data |-> b.stored] \in ItemsOf(B)
    BY <1>2 DEF ItemsOf
  <2>4. r \in Seq(ItemsOf(B)) /\ \A i \in DOMAIN r : r[i].kind # "link"
    <3>1. CASE b.stored = <<>>
      <4>1. r = <<>> /\ DOMAIN <<>> = {}
        BY <2>2, <3>1
      <4> QED BY <1>4, <4>1
    <3>2. CASE b.stored # <<>>
      <4>1. r = <<[kind |-> "data", data |-> b.stored]>>
        BY <2>2, <3>2
      <4> QED BY <2>3, <4>1
    <3> QED BY <3>1, <3>2
  <2> QED BY <2>1, <2>4
<1> QED BY <1>2, <1>5, <1>6, <1>7, <1>8, <1>9

-----------------------------------------------------------------------------
(***************************************************************************)
(* Samples.                                                                *)
(***************************************************************************)
\* A budget is a number of bytes and of blocks.
LEMMA BudgetType ==
    ASSUME TypeOK, NoFileHasCycles
    PROVE  Budget.bytes \in Nat /\ Budget.blocks \in Nat
<1>1. file.filesize \in Nat /\ {MAX_BYTES, MAX_CHILD_BLOCKS, MAX_PDF_BYTES, MAX_PDF_CHILD_BLOCKS} \subseteq Nat
  BY FileFacts, FetchAssumption DEF IsFile
<1>2. CASE mime # "pdf"
  <2>1. Budget = [bytes |-> MAX_BYTES, blocks |-> MAX_CHILD_BLOCKS]
    BY <1>2 DEF Budget
  <2> QED BY <1>1, <2>1
<1>3. CASE mime = "pdf" /\ file.filesize > MAX_PDF_BYTES
  <2>1. Budget = [bytes |-> 0, blocks |-> 0]
    BY <1>3 DEF Budget
  <2> QED BY <2>1
<1>4. CASE mime = "pdf" /\ ~(file.filesize > MAX_PDF_BYTES)
  <2>1. Budget = [bytes |-> MAX_PDF_BYTES, blocks |-> MAX_PDF_CHILD_BLOCKS]
    BY <1>4 DEF Budget
  <2> QED BY <1>1, <2>1
<1> QED BY <1>2, <1>3, <1>4

\* The first items of two sequences that agree on them are the same.
LEMMA FirstItems ==
    ASSUME NEW s \in Seq(Nat), NEW u \in Seq(Nat), Len(s) <= Len(u),
           \A i \in 1 .. Len(s) : u[i] = s[i], NEW j \in 0 .. Len(s)
    PROVE  /\ SubSeq(u, 1, j) \in Seq(Nat) /\ Len(SubSeq(u, 1, j)) = j
           /\ \A i \in 1 .. j : SubSeq(u, 1, j)[i] = s[i]
<1>1. Len(s) \in Nat /\ \A i \in 1 .. Len(s) : s[i] \in Nat
  BY LenProperties, ElementOfSeq
<1>2. \A i \in 1 .. j : u[i] \in Nat /\ u[i] = s[i]
  BY <1>1
<1>3. j \in Int /\ 1 \in Int /\ \A i \in 1 .. j : u[i] \in Nat
  BY <1>1, <1>2
<1>4. /\ SubSeq(u, 1, j) \in Seq(Nat) /\ Len(SubSeq(u, 1, j)) = (IF 1 <= j THEN j - 1 + 1 ELSE 0)
      /\ \A i \in 1 .. j - 1 + 1 : SubSeq(u, 1, j)[i] = u[1 + i - 1]
  BY <1>3, SubSeqProperties, SMTT(30)
<1>5. Len(SubSeq(u, 1, j)) = j
  BY <1>1, <1>4
<1>6. ASSUME NEW i \in 1 .. j PROVE SubSeq(u, 1, j)[i] = s[i]
  <2>1. i \in 1 .. j - 1 + 1 /\ 1 + i - 1 = i
    BY <1>1
  <2> QED BY <1>2, <1>4, <2>1
<1> QED BY <1>4, <1>5, <1>6

\* The first items of s are a prefix of s and of everything that begins with it.
LEMMA FirstIsPrefix ==
    ASSUME NEW s \in Seq(Nat), NEW t \in Seq(Nat), NEW j \in 0 .. Len(s)
    PROVE  SubSeq(s, 1, j) \in Seq(Nat) /\ IsPrefix(SubSeq(s, 1, j), s \o t)
<1>1. Len(s) \in Nat /\ Len(t) \in Nat
  BY LenProperties
<1>2. /\ s \o t \in Seq(Nat) /\ Len(s \o t) = Len(s) + Len(t)
      /\ \A i \in 1 .. Len(s) + Len(t) : (s \o t)[i] = IF i <= Len(s) THEN s[i] ELSE t[i - Len(s)]
  BY ConcatProperties
<1>3. Len(s) <= Len(s \o t) /\ \A i \in 1 .. Len(s) : (s \o t)[i] = s[i]
  BY <1>1, <1>2
<1> DEFINE a == SubSeq(s, 1, j)
           b == SubSeq(s \o t, 1, j)
<1>4. a \in Seq(Nat) /\ Len(a) = j /\ \A i \in 1 .. j : a[i] = s[i]
  BY <1>1, FirstItems
<1>5. b \in Seq(Nat) /\ Len(b) = j /\ \A i \in 1 .. j : b[i] = s[i]
  BY <1>2, <1>3, FirstItems
<1> HIDE DEF a, b
<1>6. a = b
  BY <1>4, <1>5, SeqEqual
<1>7. SubSeq(a, 1, j) = a
  BY <1>4, SubSeqFull
<1>8. Len(a) <= Len(s \o t)
  BY <1>1, <1>2, <1>4
<1>9. SubSeq(a, 1, Len(a)) = SubSeq(s \o t, 1, Len(a))
  BY <1>4, <1>6, <1>7 DEF b
<1>10. IsPrefix(a, s \o t)
  BY <1>8, <1>9 DEF IsPrefix
<1> QED BY <1>4, <1>10 DEF a

\* What comes first is a prefix, and so is what is cut from it.
LEMMA CutIsPrefix ==
    ASSUME NEW s \in Seq(Nat), NEW t \in Seq(Nat), NEW n \in Nat
    PROVE  /\ Cut(s, n) \in Seq(Nat)
           /\ Len(s) <= n => Cut(s, n) = s
           /\ IsPrefix(s, s \o t) /\ IsPrefix(Cut(s, n), s \o t)
           /\ IsPrefix(<<>>, s)
<1>1. Len(s) \in Nat
  BY LenProperties
<1> DEFINE m == IF Len(s) < n THEN Len(s) ELSE n
<1>2. m \in 0 .. Len(s) /\ (Len(s) <= n => m = Len(s)) /\ Cut(s, n) = SubSeq(s, 1, m)
  BY <1>1 DEF Cut
<1>3. SubSeq(s, 1, Len(s)) = s
  BY SubSeqFull
<1>4. IsPrefix(s, s \o t)
  <2>1. Len(s) \in 0 .. Len(s)
    BY <1>1
  <2>2. IsPrefix(SubSeq(s, 1, Len(s)), s \o t)
    BY <2>1, FirstIsPrefix
  <2> QED BY <1>3, <2>2
<1>5. IsPrefix(Cut(s, n), s \o t) /\ Cut(s, n) \in Seq(Nat)
  <2> HIDE DEF m
  <2> QED BY <1>2, FirstIsPrefix
<1>6. IsPrefix(<<>>, s)
  <2>1. Len(<<>>) = 0 /\ SubSeq(<<>>, 1, 0) = <<>> /\ SubSeq(s, 1, 0) = <<>>
    BY EmptySeq, SubSeqEmpty
  <2> QED BY <1>1, <2>1 DEF IsPrefix
<1>7. Len(s) <= n => Cut(s, n) = s
  BY <1>2, <1>3
<1> QED BY <1>4, <1>5, <1>6, <1>7

-----------------------------------------------------------------------------
(***************************************************************************)
(* Type correctness.                                                       *)
(***************************************************************************)
WaveStates == {"asked", "arrived", "have", "missing"}
WaveOf(f) == Seq([cid : DOMAIN f.block, state : WaveStates])

\* The bucket holds the largest block and something of every unit of time.
LEMMA CapacityType == Capacity \in Nat /\ Rate \in Nat /\ Capacity >= MAX_BLOCK
BY FetchAssumption DEF Capacity

\* A block in another state is the same block.
LEMMA WaveStep ==
    ASSUME TypeOK, NEW i \in DOMAIN wave, NEW s \in WaveStates
    PROVE  /\ [wave EXCEPT ![i].state = s] \in WaveOf(file)
           /\ Len([wave EXCEPT ![i].state = s]) = Len(wave)
           /\ \A j \in DOMAIN wave : [wave EXCEPT ![i].state = s][j].cid = wave[j].cid
           /\ [wave EXCEPT ![i].state = s][i].state = s
<1> DEFINE R == [cid : DOMAIN file.block, state : WaveStates]
           e == [wave[i] EXCEPT !.state = s]
<1>1. wave \in Seq(R) /\ DOMAIN wave = 1 .. Len(wave)
  BY LenProperties DEF TypeOK, WaveStates
<1>2. wave[i] \in R
  BY <1>1, ElementOfSeq
<1>3. e \in R /\ e.cid = wave[i].cid /\ e.state = s
  BY <1>2
<1>4. [wave EXCEPT ![i].state = s] = [wave EXCEPT ![i] = e]
  OBVIOUS
<1> HIDE DEF e
<1>5. /\ [wave EXCEPT ![i] = e] \in Seq(R) /\ Len([wave EXCEPT ![i] = e]) = Len(wave)
      /\ \A j \in 1 .. Len(wave) : [wave EXCEPT ![i] = e][j] = IF j = i THEN e ELSE wave[j]
  BY <1>1, <1>3, ExceptSeq
<1> QED BY <1>1, <1>3, <1>4, <1>5 DEF WaveOf

\* Blocks asked for.
LEMMA FetchingType ==
    ASSUME NEW f, NEW cids \in Seq(DOMAIN f.block)
    PROVE  /\ Fetching(cids) \in WaveOf(f) /\ Len(Fetching(cids)) = Len(cids)
           /\ \A i \in 1 .. Len(cids) : Fetching(cids)[i] = [cid |-> cids[i], state |-> "asked"]
<1>1. DOMAIN cids = 1 .. Len(cids) /\ Len(cids) \in Nat /\ \A i \in 1 .. Len(cids) : cids[i] \in DOMAIN f.block
  BY LenProperties, ElementOfSeq
<1>2. \A i \in 1 .. Len(cids) : [cid |-> cids[i], state |-> "asked"] \in [cid : DOMAIN f.block, state : WaveStates]
  BY <1>1 DEF WaveStates
<1>3. Fetching(cids) = [i \in 1 .. Len(cids) |-> [cid |-> cids[i], state |-> "asked"]]
  BY <1>1 DEF Fetching
<1>4. Fetching(cids) \in WaveOf(f) /\ Len(Fetching(cids)) = Len(cids)
  BY <1>1, <1>2, <1>3 DEF WaveOf
<1> QED BY <1>3, <1>4

\* One block.
LEMMA OneBlock ==
    ASSUME NEW B, NEW c \in B
    PROVE  <<c>> \in Seq(B) /\ Len(<<c>>) = 1 /\ <<c>>[1] = c /\ DOMAIN <<c>> = 1 .. 1
OBVIOUS

\* A file is asked for with its root.
LEMMA TypeInit ==
    ASSUME Init
    PROVE  TypeOK
<1>1. file \in Files /\ IsFile(file) /\ file.root \in DOMAIN file.block
  BY FetchAssumption DEF Init, IsFile
<1>2. wave \in WaveOf(file)
  <2>1. <<file.root>> \in Seq(DOMAIN file.block)
    BY <1>1, OneBlock
  <2> QED BY <2>1, FetchingType DEF Init
<1>3. tokens \in 0 .. Capacity
  BY CapacityType DEF Init
<1>4. NoResult \in [ok : BOOLEAN, data : Seq(Nat), truncated : BOOLEAN, dead : BOOLEAN, slow : BOOLEAN]
  BY EmptySeq DEF NoResult
<1> QED BY <1>1, <1>2, <1>3, <1>4, EmptySeq DEF Init, TypeOK, WaveOf, WaveStates

Results == [ok : BOOLEAN, data : Seq(Nat), truncated : BOOLEAN, dead : BOOLEAN, slow : BOOLEAN]

\* What a call returns.
LEMMA ResultType ==
    ASSUME NEW data \in Seq(Nat), NEW truncated \in BOOLEAN
    PROVE  /\ Sample(data, truncated) \in Results
           /\ Sample(data, truncated).data = data /\ Sample(data, truncated).truncated = truncated
           /\ Sample(data, truncated).ok
BY DEF Sample, NoResult, Results

-----------------------------------------------------------------------------
(***************************************************************************)
(* Waves and queues.                                                       *)
(***************************************************************************)
\* Bytes, and links to blocks that have bytes or links.
SimpleItems == {item \in ItemsOf(DOMAIN file.block) : item.kind = "link" => Simple(item.cid)}

\* The queue holds links and bytes.
LEMMA QueueType ==
    ASSUME TypeOK
    PROVE  /\ pending \in Seq(ItemsOf(DOMAIN file.block))
           /\ Len(pending) \in Nat /\ DOMAIN pending = 1 .. Len(pending)
           /\ \A i \in 1 .. Len(pending) : pending[i] \in ItemsOf(DOMAIN file.block)
           /\ Below /\ at # "root" => pending \in Seq(SimpleItems)
<1>1. pending \in Seq(ItemsOf(DOMAIN file.block))
  BY DEF TypeOK, ItemsOf
<1>2. /\ Len(pending) \in Nat /\ DOMAIN pending = 1 .. Len(pending)
      /\ pending \in [1 .. Len(pending) -> ItemsOf(DOMAIN file.block)]
  BY <1>1, LenProperties
<1>3. \A i \in 1 .. Len(pending) : pending[i] \in ItemsOf(DOMAIN file.block)
  BY <1>2
<1>4. ASSUME Below, at # "root" PROVE pending \in Seq(SimpleItems)
  <2>1. \A i \in 1 .. Len(pending) : pending[i] \in SimpleItems
    BY <1>2, <1>3, <1>4 DEF Below, SimpleItems
  <2>2. pending \in [1 .. Len(pending) -> SimpleItems]
    BY <1>2, <2>1
  <2> QED BY <1>2, <2>2, SeqDef
<1> QED BY <1>1, <1>2, <1>3, <1>4

\* The wave is of blocks of the file.
LEMMA WaveType ==
    ASSUME TypeOK
    PROVE  /\ Len(wave) \in Nat /\ DOMAIN wave = 1 .. Len(wave)
           /\ \A i \in 1 .. Len(wave) : wave[i].cid \in DOMAIN file.block /\ wave[i].state \in WaveStates
           /\ wave = <<>> <=> Len(wave) = 0
           /\ WaveLinks \in Seq(ItemsOf(DOMAIN file.block)) /\ Len(WaveLinks) = Len(wave)
           /\ \A i \in 1 .. Len(wave) : WaveLinks[i] = [kind |-> "link", cid |-> wave[i].cid]
<1>1. wave \in Seq([cid : DOMAIN file.block, state : WaveStates])
  BY DEF TypeOK, WaveStates
<1>2. Len(wave) \in Nat /\ DOMAIN wave = 1 .. Len(wave) /\ (wave = <<>> <=> Len(wave) = 0)
  BY <1>1, LenProperties, EmptySeq
<1>3. ASSUME NEW i \in 1 .. Len(wave)
      PROVE  wave[i].cid \in DOMAIN file.block /\ wave[i].state \in WaveStates
  <2>1. wave[i] \in [cid : DOMAIN file.block, state : WaveStates]
    BY <1>1, ElementOfSeq
  <2> QED BY <2>1
<1>4. WaveLinks = [i \in 1 .. Len(wave) |-> [kind |-> "link", cid |-> wave[i].cid]]
  BY <1>2 DEF WaveLinks, Links, Link
<1>5. \A i \in 1 .. Len(wave) : [kind |-> "link", cid |-> wave[i].cid] \in ItemsOf(DOMAIN file.block)
  BY <1>3 DEF ItemsOf
<1>6. WaveLinks \in Seq(ItemsOf(DOMAIN file.block)) /\ Len(WaveLinks) = Len(wave)
  BY <1>2, <1>4, <1>5
<1> QED BY <1>2, <1>3, <1>4, <1>6

\* No blocks are being fetched: that stands for nothing.
LEMMA NoWave ==
    ASSUME NEW B, NEW k \in [B -> Seq(Nat)], NEW b \in B, wave' = <<>>
    PROVE  Expand(k, WaveLinks') = <<>>
<1>1. WaveLinks' = <<>>
  BY DEF WaveLinks, Links
<1>2. [kind |-> "link", cid |-> b] \in ItemsOf(B)
  BY DEF ItemsOf
<1> QED BY <1>1, <1>2, ExpandSmall

\* What a wave stands for is the content of its blocks.
LEMMA WaveContent ==
    ASSUME TypeOK, NoFileHasCycles
    PROVE  /\ Expand(Contents(file), WaveLinks) = FlattenSeq([i \in DOMAIN wave |-> Contents(file)[wave[i].cid]])
           /\ Expand(Contents(file), WaveLinks) \in Seq(Nat)
           /\ wave = <<>> => Expand(Contents(file), WaveLinks) = <<>>
<1> DEFINE k == Contents(file)
<1>1. k \in [DOMAIN file.block -> Seq(Nat)]
  BY FileFacts
<1>2. /\ DOMAIN wave = 1 .. Len(wave)
      /\ WaveLinks \in Seq(ItemsOf(DOMAIN file.block)) /\ Len(WaveLinks) = Len(wave)
      /\ \A i \in 1 .. Len(wave) : WaveLinks[i] = [kind |-> "link", cid |-> wave[i].cid]
  BY WaveType
<1>3. ASSUME NEW i \in 1 .. Len(wave) PROVE ItemBytes(k, WaveLinks[i]) = k[wave[i].cid]
  <2>1. ItemBytes(k, [kind |-> "link", cid |-> wave[i].cid]) = k[wave[i].cid]
    BY DEF ItemBytes
  <2> QED BY <1>2, <2>1
<1>4. DOMAIN WaveLinks = 1 .. Len(wave)
  BY <1>2, LenProperties
<1>5. Each(k, WaveLinks) = [i \in DOMAIN wave |-> k[wave[i].cid]]
  BY <1>2, <1>3, <1>4 DEF Each
<1>6. Expand(k, WaveLinks) \in Seq(Nat)
  BY <1>1, <1>2, EachType
<1>7. ASSUME wave = <<>> PROVE Expand(k, WaveLinks) = <<>>
  <2>1. Len(Each(k, WaveLinks)) = 0 /\ Each(k, WaveLinks) \in Seq(Seq(Nat))
    <3>1. Len(WaveLinks) = 0
      BY <1>7, WaveType
    <3> QED BY <1>1, <1>2, <3>1, EachType
  <2>2. Each(k, WaveLinks) = <<>>
    BY <2>1, EmptySeq
  <2> QED BY <2>2, FlattenSmall, EmptySeq DEF Expand
<1> QED BY <1>5, <1>6, <1>7 DEF Expand

\* Links from the head of the queue are asked for in their order.
LEMMA TakeLinks ==
    ASSUME TypeOK, NoFileHasCycles, NEW n \in 0 .. Len(pending),
           \A i \in 1 .. n : pending[i].kind = "link",
           file' = file,
           wave' = Fetching([i \in 1 .. n |-> pending[i].cid]),
           pending' = SubSeq(pending, n + 1, Len(pending))
    PROVE  /\ wave' \in WaveOf(file) /\ Len(wave') = n
           /\ \A i \in 1 .. n : wave'[i].cid = pending[i].cid
           /\ pending' \in Seq(ItemsOf(DOMAIN file.block)) /\ Len(pending') = Len(pending) - n
           /\ \A i \in 1 .. Len(pending) - n : pending'[i] = pending[n + i]
           /\ Expand(Contents(file), WaveLinks') \o Expand(Contents(file), pending')
              = Expand(Contents(file), pending)
<1> DEFINE B == DOMAIN file.block
           k == Contents(file)
           cids == [i \in 1 .. n |-> pending[i].cid]
           s == SubSeq(pending, 1, n)
<1>1. k \in [B -> Seq(Nat)]
  BY FileFacts
<1>2. n \in Nat /\ \A i \in 1 .. n : i \in 1 .. Len(pending) /\ pending[i] \in ItemsOf(B)
  BY QueueType
<1>3. \A i \in 1 .. n : pending[i].cid \in B /\ pending[i] = [kind |-> "link", cid |-> pending[i].cid]
  BY <1>2 DEF ItemsOf
<1>4. cids \in Seq(B) /\ Len(cids) = n /\ \A i \in 1 .. n : cids[i] = pending[i].cid
  <2>1. cids \in [1 .. n -> B]
    BY <1>3
  <2>2. cids \in Seq(B)
    <3> HIDE DEF cids, B
    <3> QED BY <1>2, <2>1, SeqDef
  <2>3. Len(cids) = n
    BY <1>2, <2>1, <2>2, LenProperties
  <2> QED BY <2>2, <2>3
<1>5. /\ wave' \in WaveOf(file) /\ Len(wave') = n
      /\ \A i \in 1 .. n : wave'[i] = [cid |-> cids[i], state |-> "asked"]
  <2> HIDE DEF cids
  <2>1. wave' = Fetching(cids)
    BY DEF cids
  <2> QED BY <1>4, <2>1, FetchingType
<1>6. \A i \in 1 .. n : wave'[i].cid = pending[i].cid
  <2> HIDE DEF cids
  <2>1. ASSUME NEW i \in 1 .. n PROVE wave'[i].cid = cids[i]
    <3>1. wave'[i] = [cid |-> cids[i], state |-> "asked"]
      BY <1>5
    <3> QED BY <3>1
  <2> QED BY <1>4, <2>1
<1>7. /\ s \in Seq(ItemsOf(B)) /\ pending' \in Seq(ItemsOf(B))
      /\ Len(s) = n /\ \A i \in 1 .. n : s[i] = pending[i]
      /\ Len(pending') = Len(pending) - n
      /\ \A i \in 1 .. Len(pending) - n : pending'[i] = pending[n + i]
      /\ Expand(k, pending) = Expand(k, s) \o Expand(k, pending')
  <2>1. pending \in Seq(ItemsOf(B))
    BY QueueType
  <2>2. /\ s \in Seq(ItemsOf(B))
        /\ SubSeq(pending, n + 1, Len(pending)) \in Seq(ItemsOf(B))
        /\ Len(s) = n /\ \A i \in 1 .. n : s[i] = pending[i]
        /\ Len(SubSeq(pending, n + 1, Len(pending))) = Len(pending) - n
        /\ \A i \in 1 .. Len(pending) - n : SubSeq(pending, n + 1, Len(pending))[i] = pending[n + i]
        /\ Expand(k, pending) = Expand(k, s) \o Expand(k, SubSeq(pending, n + 1, Len(pending)))
    <3> HIDE DEF k
    <3> QED BY <1>1, <2>1, ExpandCut, SMTT(30)
  <2> HIDE DEF k, s
  <2> QED BY <2>2
<1>8. WaveLinks' = s
  <2>1. DOMAIN wave' = 1 .. n
    BY <1>5, LenProperties DEF WaveOf
  <2>2. WaveLinks' = [i \in 1 .. n |-> [kind |-> "link", cid |-> wave'[i].cid]]
    BY <2>1 DEF WaveLinks, Links, Link
  <2>3. WaveLinks' = [i \in 1 .. n |-> pending[i]]
    BY <1>3, <1>6, <2>2
  <2>4. DOMAIN s = 1 .. n
    BY <1>7, LenProperties
  <2>5. s = [i \in 1 .. n |-> pending[i]]
    <3>1. s = [i \in 1 .. n |-> s[i]]
      BY <1>7, <2>4
    <3> HIDE DEF s
    <3> QED BY <1>7, <3>1
  <2> QED BY <2>3, <2>5
<1> QED BY <1>5, <1>6, <1>7, <1>8

-----------------------------------------------------------------------------
(***************************************************************************)
(* Blocks arrive, tokens come and go.                                      *)
(***************************************************************************)
\* The state of the blocks of a wave does not bear on what is at hand.
LEMMA WaveChanges ==
    ASSUME IInv, TypeOK', UNCHANGED <<file, at, mime, out, pending, result>>,
           wave' \in WaveOf(file), Len(wave') = Len(wave),
           \A i \in DOMAIN wave : wave'[i].cid = wave[i].cid,
           at = "root" => wave'[1].state # "missing"
    PROVE  IInv'
<1>1. TypeOK
  BY DEF IInv
<1>2. DOMAIN wave' = DOMAIN wave /\ DOMAIN wave = 1 .. Len(wave) /\ Len(wave) \in Nat
      /\ (wave' = <<>> <=> wave = <<>>)
  <2>1. DOMAIN wave' = 1 .. Len(wave') /\ (wave' = <<>> <=> Len(wave') = 0)
    BY LenProperties, EmptySeq DEF WaveOf
  <2> QED BY <1>1, <2>1, WaveType
<1>3. WaveLinks' = WaveLinks
  BY <1>2 DEF WaveLinks, Links
<1>4. NothingLost'
  BY <1>3 DEF IInv, NothingLost, AtHand
<1>5. RootFirst' /\ Sniffing'
  BY <1>2 DEF IInv, RootFirst, Sniffing
<1>6. Below'
  <2>1. \A c : Simple(c)' <=> Simple(c)
    BY DEF Simple
  <2> QED BY <1>2, <2>1 DEF IInv, Below
<1>7. DoneOnce' /\ HeadIsLink'
  BY <1>2 DEF IInv, DoneOnce, HeadIsLink
<1>8. SampleIsPrefix' /\ WholeOrTruncated'
  BY DEF IInv, SampleIsPrefix, WholeOrTruncated
<1> QED BY <1>4, <1>5, <1>6, <1>7, <1>8 DEF IInv

\* A source has answered.
LEMMA GetChildStep ==
    ASSUME IInv, NEW i \in DOMAIN wave, GetChild(i)
    PROVE  IInv'
<1>1. TypeOK
  BY DEF IInv
<1>2. PICK s \in WaveStates : wave' = [wave EXCEPT ![i].state = s]
  BY DEF GetChild, WaveStates
<1>3. /\ wave' \in WaveOf(file) /\ Len(wave') = Len(wave)
      /\ \A j \in DOMAIN wave : wave'[j].cid = wave[j].cid
  BY <1>1, <1>2, WaveStep, ZenonT(30)
<1>4. TypeOK'
  BY <1>1, <1>3 DEF GetChild, TypeOK, WaveOf, WaveStates
<1> QED BY <1>3, <1>4, WaveChanges DEF GetChild

\* Tokens are spent on a block.
LEMMA ConsumeStep ==
    ASSUME IInv, NEW i \in DOMAIN wave, Consume(i), NoFileHasCycles
    PROVE  IInv'
<1>1. TypeOK
  BY DEF IInv
<1>2. wave' = [wave EXCEPT ![i].state = "have"] /\ "have" \in WaveStates
  BY DEF Consume, WaveStates
<1>3. /\ wave' \in WaveOf(file) /\ Len(wave') = Len(wave)
      /\ \A j \in DOMAIN wave : wave'[j].cid = wave[j].cid
      /\ wave'[i].state = "have"
  BY <1>1, <1>2, WaveStep, ZenonT(30)
<1>4. tokens' \in 0 .. Capacity
  <2>1. Size(Block(wave[i].cid)) \in Nat
    <3>1. wave[i].cid \in DOMAIN file.block
      BY <1>1, WaveType
    <3>2. Block(wave[i].cid).stored \in Seq(Nat)
      BY <1>1, <3>1, FileFacts DEF IsFile, Block
    <3> QED BY <3>2, LenProperties DEF Size
  <2>2. tokens \in 0 .. Capacity /\ tokens >= Size(Block(wave[i].cid)) /\ tokens' = tokens - Size(Block(wave[i].cid))
    BY <1>1 DEF TypeOK, Consume
  <2> QED BY <2>1, <2>2, CapacityType
<1>5. TypeOK'
  BY <1>1, <1>3, <1>4 DEF Consume, TypeOK, WaveOf, WaveStates
<1>6. at = "root" => wave'[1].state # "missing"
  <2>1. SUFFICES ASSUME at = "root" PROVE wave'[1].state # "missing"
    OBVIOUS
  <2>2. Len(wave) = 1
    BY <2>1 DEF IInv, RootFirst
  <2>3. i = 1
    BY <1>1, <2>2, WaveType
  <2> QED BY <1>3, <2>3
<1> QED BY <1>3, <1>5, <1>6, WaveChanges DEF Consume

\* Time gives tokens.
LEMMA RefillStep ==
    ASSUME IInv, Refill
    PROVE  IInv'
<1>1. TypeOK
  BY DEF IInv
<1>2. tokens' \in 0 .. Capacity
  BY <1>1, CapacityType DEF TypeOK, Refill
<1>3. TypeOK'
  BY <1>1, <1>2 DEF Refill, TypeOK
<1>4. wave' \in WaveOf(file) /\ wave' = wave
  BY <1>1 DEF Refill, TypeOK, WaveOf, WaveStates
<1>5. at = "root" => wave'[1].state # "missing"
  BY <1>4 DEF IInv, RootFirst
<1> QED BY <1>3, <1>4, <1>5, WaveChanges DEF Refill

\* The blocks that were missing are asked for again.
LEMMA SweepStep ==
    ASSUME IInv, Sweep
    PROVE  IInv'
<1>1. TypeOK
  BY DEF IInv
<1>2. /\ DOMAIN wave = 1 .. Len(wave) /\ Len(wave) \in Nat
      /\ wave \in Seq([cid : DOMAIN file.block, state : WaveStates])
  BY <1>1, WaveType DEF TypeOK, WaveStates
<1> DEFINE e(i) == IF i \in Missing THEN [wave[i] EXCEPT !.state = "asked"] ELSE wave[i]
<1>3. ASSUME NEW i \in 1 .. Len(wave)
      PROVE  e(i) \in [cid : DOMAIN file.block, state : WaveStates] /\ e(i).cid = wave[i].cid
  <2>1. wave[i] \in [cid : DOMAIN file.block, state : WaveStates]
    BY <1>2, ElementOfSeq
  <2> QED BY <2>1 DEF WaveStates
<1>4. wave' = [i \in 1 .. Len(wave) |-> e(i)]
  BY <1>2 DEF Sweep
<1> HIDE DEF e
<1>5. wave' \in WaveOf(file) /\ Len(wave') = Len(wave)
  <2>1. wave' \in [1 .. Len(wave) -> [cid : DOMAIN file.block, state : WaveStates]]
    BY <1>3, <1>4
  <2>2. wave' \in Seq([cid : DOMAIN file.block, state : WaveStates])
    BY <1>2, <2>1, SeqDef
  <2> QED BY <1>2, <1>4, <2>2, LenProperties DEF WaveOf
<1>6. \A i \in DOMAIN wave : wave'[i].cid = wave[i].cid
  BY <1>2, <1>3, <1>4
<1>7. TypeOK'
  BY <1>1, <1>5 DEF Sweep, TypeOK, WaveOf, WaveStates
<1>8. at # "root"
  BY DEF Sweep
<1> QED BY <1>5, <1>6, <1>7, <1>8, WaveChanges DEF Sweep

-----------------------------------------------------------------------------
(***************************************************************************)
(* The assembly.                                                           *)
(***************************************************************************)
\* A sample is returned: part of the content, or the whole if nobody is told
\* otherwise.
LEMMA ReturnStep ==
    ASSUME IInv, NoFileHasCycles, NEW data \in Seq(Nat), NEW truncated \in BOOLEAN,
           Return(data, truncated), UNCHANGED <<file, swept, mime, out, pending, used, tokens>>,
           WellMade(file) => IsPrefix(data, Content(file)),
           WellMade(file) /\ processable(mime) /\ ~truncated => data = Content(file)
    PROVE  IInv'
<1>1. TypeOK
  BY DEF IInv
<1>2. at' = "done" /\ wave' = <<>> /\ result' = Sample(data, truncated)
  BY DEF Return
<1>3. result' \in Results /\ result'.data = data /\ result'.truncated = truncated
  BY <1>2, ResultType
<1>4. TypeOK'
  BY <1>1, <1>2, <1>3, EmptySeq DEF TypeOK, Results
<1>5. Below'
  <2>1. DOMAIN wave' = {}
    BY <1>2
  <2>2. \A c : Simple(c)' <=> Simple(c)
    BY DEF Simple
  <2>3. at = "root" => pending = <<>>
    BY DEF IInv, RootFirst
  <2>4. DOMAIN <<>> = {}
    OBVIOUS
  <2> QED BY <2>1, <2>2, <2>3, <2>4 DEF IInv, Below
<1>6. RootFirst' /\ Sniffing' /\ NothingLost' /\ DoneOnce' /\ HeadIsLink'
  BY <1>2 DEF RootFirst, Sniffing, NothingLost, DoneOnce, HeadIsLink
<1>7. SampleIsPrefix'
  BY <1>3 DEF IInv, SampleIsPrefix
<1>8. WholeOrTruncated'
  BY <1>3 DEF WholeOrTruncated, processable
<1> QED BY <1>4, <1>5, <1>6, <1>7, <1>8 DEF IInv

\* The root cannot be had.
LEMMA GetRootStep ==
    ASSUME IInv, NEW answers \in [1 .. Sources -> Answers], GetRoot(answers), NoFileHasCycles
    PROVE  IInv'
<1> DEFINE err == get_block_ex(Block(file.root), answers)
<1>1. TypeOK
  BY DEF IInv
<1>2. /\ at = "root" /\ Len(wave) = 1 /\ wave[1].cid = file.root
      /\ out = <<>> /\ pending = <<>> /\ mime = "none"
      /\ DOMAIN wave = 1 .. 1
  <2>1. at = "root" /\ Len(wave) = 1
    BY DEF GetRoot, IInv, RootFirst
  <2> QED BY <1>1, <2>1, WaveType DEF IInv, RootFirst
<1>3. CASE err = "ok"
  <2>1. wave' = [wave EXCEPT ![1].state = "arrived"] /\ "arrived" \in WaveStates /\ 1 \in DOMAIN wave
        /\ UNCHANGED <<file, at, swept, mime, out, pending, used, tokens, result>>
    BY <1>2, <1>3 DEF GetRoot, WaveStates
  <2>2. /\ wave' \in WaveOf(file) /\ Len(wave') = Len(wave)
        /\ \A j \in DOMAIN wave : wave'[j].cid = wave[j].cid
        /\ wave'[1].state = "arrived"
    <3> DEFINE i == 1
               s == "arrived"
    <3>1. i \in DOMAIN wave /\ s \in WaveStates
      BY <2>1
    <3>2. i = 1 /\ s = "arrived"
      OBVIOUS
    <3> HIDE DEF i, s
    <3>3. wave' = [wave EXCEPT ![i].state = s]
      BY <2>1, <3>2
    <3>4. /\ wave' \in WaveOf(file) /\ Len(wave') = Len(wave)
          /\ \A j \in DOMAIN wave : wave'[j].cid = wave[j].cid
          /\ wave'[i].state = s
      BY <1>1, <3>1, <3>3, WaveStep, ZenonT(30)
    <3> QED BY <3>2, <3>4
  <2>3. TypeOK'
    BY <1>1, <2>1, <2>2 DEF TypeOK, WaveOf, WaveStates
  <2> QED BY <2>1, <2>2, <2>3, WaveChanges
<1>4. CASE err # "ok"
  <2>1. /\ at' = "done" /\ wave' = <<>>
        /\ result' = [NoResult EXCEPT !.dead = (err = "dead"), !.slow = (err = "slow")]
        /\ UNCHANGED <<file, swept, mime, out, pending, used, tokens>>
    BY <1>4 DEF GetRoot
  <2> HIDE DEF err
  <2>2. result' \in Results /\ result'.data = <<>> /\ ~result'.ok
    <3>1. NoResult = [ok |-> FALSE, data |-> <<>>, truncated |-> FALSE, dead |-> FALSE, slow |-> FALSE]
      BY DEF NoResult
    <3>2. result' = [ok |-> FALSE, data |-> <<>>, truncated |-> FALSE, dead |-> (err = "dead"), slow |-> (err = "slow")]
      BY <2>1, <3>1
    <3>3. (err = "dead") \in BOOLEAN /\ (err = "slow") \in BOOLEAN /\ <<>> \in Seq(Nat)
      BY EmptySeq
    <3> QED BY <3>2, <3>3 DEF Results
  <2>3. TypeOK'
    BY <1>1, <2>1, <2>2, EmptySeq DEF TypeOK, Results
  <2>4. Below'
    BY <1>2, <2>1 DEF Below
  <2>5. RootFirst' /\ Sniffing' /\ NothingLost' /\ DoneOnce' /\ HeadIsLink'
    BY <2>1 DEF RootFirst, Sniffing, NothingLost, DoneOnce, HeadIsLink
  <2>6. SampleIsPrefix'
    <3>1. WellMade(file) => IsPrefix(out, Content(file))
      BY DEF IInv, SampleIsPrefix
    <3> QED BY <1>2, <2>1, <2>2, <3>1 DEF SampleIsPrefix
  <2>7. WholeOrTruncated'
    BY <2>2 DEF WholeOrTruncated
  <2> QED BY <2>3, <2>4, <2>5, <2>6, <2>7 DEF IInv
<1> QED BY <1>3, <1>4

\* The root is a leaf, a folder, of no use, or the beginning of the file.
LEMMA RootArrivedStep ==
    ASSUME IInv, RootArrived, NoFileHasCycles
    PROVE  IInv'
<1> DEFINE b == Block(file.root)
           m == Sniff(b.data)
           k == Contents(file)
           B == DOMAIN file.block
<1>1. TypeOK
  BY DEF IInv
<1>2. at = "root" /\ mime = "none" /\ out = <<>> /\ result = NoResult /\ UNCHANGED <<file, swept, used, tokens>>
  BY DEF RootArrived, IInv, RootFirst, DoneOnce
<1>3. /\ file.root \in B /\ k \in [B -> Seq(Nat)]
      /\ Content(file) = Under(file, k, file.root) /\ Content(file) \in Seq(Nat)
      /\ IsFile(file)
  BY <1>1, FileFacts
<1>4. b.kind \in {"leaf", "file", "folder"} /\ b.data \in Seq(Nat) /\ b.links \in Seq(B)
  BY <1>3 DEF IsFile, Block
<1>5. /\ Links(b.links) \in Seq(ItemsOf(B))
      /\ Content(file) = IF b.kind = "folder" THEN <<>> ELSE b.data \o Expand(k, Links(b.links))
      /\ Expand(k, Links(b.links)) \in Seq(Nat)
  <2>1. /\ Links(b.links) \in Seq(ItemsOf(B))
        /\ Content(file) = IF b.kind = "folder" THEN <<>> ELSE b.data \o Expand(k, Links(b.links))
    BY <1>3, UnderType DEF Block
  <2> QED BY <1>3, <2>1, EachType
<1>6. ~processable(mime)
  BY <1>2 DEF processable
<1>7. CASE b.kind = "leaf"
  <2>1. Return(b.data, FALSE) /\ UNCHANGED <<mime, out, pending>>
    BY <1>7 DEF RootArrived
  <2>2. IsPrefix(b.data, Content(file))
    BY <1>4, <1>5, <1>7, CutIsPrefix
  <2> QED BY <1>2, <1>4, <1>6, <2>1, <2>2, ReturnStep
<1>8. CASE b.kind = "folder"
  <2>1. Return(<<>>, FALSE) /\ UNCHANGED <<mime, out, pending>>
    BY <1>8 DEF RootArrived
  <2>2. IsPrefix(<<>>, Content(file)) /\ <<>> \in Seq(Nat)
    BY <1>3, CutIsPrefix, EmptySeq
  <2> QED BY <1>2, <1>6, <2>1, <2>2, ReturnStep
<1>9. CASE b.kind = "file" /\ m = "other"
  <2>1. Return(Cut(b.data, MAX_BYTES), FALSE) /\ UNCHANGED <<mime, out, pending>>
    BY <1>9 DEF RootArrived
  <2>2. MAX_BYTES \in Nat
    BY FetchAssumption
  <2>3. IsPrefix(Cut(b.data, MAX_BYTES), Content(file)) /\ Cut(b.data, MAX_BYTES) \in Seq(Nat)
    BY <1>4, <1>5, <1>9, <2>2, CutIsPrefix
  <2> QED BY <1>2, <1>6, <2>1, <2>3, ReturnStep
<1>10. CASE b.kind = "file" /\ m # "other"
  <2>1. /\ at' = "sniff" /\ wave' = <<>> /\ mime' = m /\ out' = b.data
        /\ pending' = Links(b.links) /\ result' = result
    BY <1>10 DEF RootArrived
  <2>2. m \in {"none", "pdf", "text", "other"}
    BY <1>3 DEF Sniff, IsFile
  <2>3. TypeOK'
    BY <1>1, <1>2, <1>4, <1>5, <2>1, <2>2, EmptySeq DEF TypeOK, ItemsOf
  <2>4. \A i \in DOMAIN pending' : pending'[i].kind = "link" /\ Simple(pending'[i].cid)
    BY <1>1, <1>3, <2>1, LinksSpec
  <2>5. RootFirst' /\ DoneOnce' /\ HeadIsLink'
    BY <1>2, <2>1 DEF RootFirst, DoneOnce, HeadIsLink
  <2>6. Sniffing'
    BY <2>1, <2>4, EmptySeq DEF Sniffing
  <2>7. Below'
    <3>1. \A c : Simple(c)' <=> Simple(c)
      BY <1>2 DEF Simple
    <3>2. DOMAIN wave' = {}
      BY <2>1
    <3> QED BY <2>4, <3>1, <3>2 DEF Below
  <2>8. NothingLost'
    <3>1. Expand(k, WaveLinks)' = <<>>
      <4>1. Expand(k, WaveLinks') = <<>>
        BY <1>3, <2>1, NoWave
      <4> QED BY <1>2, <4>1
    <3>2. Expand(k, pending)' = Expand(k, Links(b.links))
      BY <1>2, <2>1
    <3>3. AtHand' = b.data \o (<<>> \o Expand(k, Links(b.links)))
      BY <1>2, <2>1, <3>1, <3>2 DEF AtHand
    <3>4. AtHand' = Content(file)
      BY <1>5, <1>10, <3>3, ConcatEmptySeq
    <3> QED BY <1>2, <3>4 DEF NothingLost
  <2>9. SampleIsPrefix'
    <3>1. IsPrefix(out', Content(file))
      BY <1>4, <1>5, <1>10, <2>1, CutIsPrefix
    <3>2. WellMade(file) => IsPrefix(result.data, Content(file))
      BY DEF IInv, SampleIsPrefix
    <3> QED BY <1>2, <2>1, <3>1, <3>2 DEF SampleIsPrefix
  <2>10. WholeOrTruncated'
    BY <2>1 DEF WholeOrTruncated
  <2> QED BY <2>3, <2>5, <2>6, <2>7, <2>8, <2>9, <2>10 DEF IInv
<1> QED BY <1>4, <1>7, <1>8, <1>9, <1>10

\* Links at the head of the queue are asked for.
LEMMA AskStep ==
    ASSUME IInv, NoFileHasCycles, at \in {"sniff", "wave"}, wave = <<>>, NEW n \in 1 .. Len(pending),
           \A i \in 1 .. n : pending[i].kind = "link",
           wave' = Fetching([i \in 1 .. n |-> pending[i].cid]),
           pending' = SubSeq(pending, n + 1, Len(pending)),
           used' = used + n, swept' \in BOOLEAN,
           UNCHANGED <<file, at, mime, out, tokens, result>>,
           at = "sniff" => n = 1
    PROVE  IInv'
<1> DEFINE k == Contents(file)
           B == DOMAIN file.block
<1>1. TypeOK
  BY DEF IInv
<1>2. k \in [B -> Seq(Nat)]
  BY <1>1, FileFacts
<1>3. Len(pending) \in Nat /\ n \in 0 .. Len(pending) /\ n # 0 /\ n \in Nat
      /\ pending \in Seq(ItemsOf(B))
  BY <1>1, QueueType
<1>4. /\ wave' \in WaveOf(file) /\ Len(wave') = n
      /\ \A i \in 1 .. n : wave'[i].cid = pending[i].cid
      /\ pending' \in Seq(ItemsOf(B)) /\ Len(pending') = Len(pending) - n
      /\ \A i \in 1 .. Len(pending) - n : pending'[i] = pending[n + i]
      /\ Expand(k, WaveLinks') \o Expand(k, pending') = Expand(k, pending)
  BY <1>1, <1>3, TakeLinks
<1>5. DOMAIN wave' = 1 .. n /\ DOMAIN pending' = 1 .. Len(pending) - n /\ DOMAIN pending = 1 .. Len(pending)
  BY <1>3, <1>4, LenProperties DEF WaveOf
<1>6. wave' # <<>>
  BY <1>3, <1>4, EmptySeq
<1>7. TypeOK'
  <2>1. used' \in Nat
    BY <1>1, <1>3 DEF TypeOK
  <2> QED BY <1>1, <1>4, <2>1 DEF TypeOK, WaveOf, WaveStates, ItemsOf
<1>8. RootFirst' /\ DoneOnce' /\ HeadIsLink'
  BY <1>6 DEF IInv, RootFirst, DoneOnce, HeadIsLink
<1>9. Sniffing'
  <2>1. ASSUME at = "sniff", NEW i \in DOMAIN pending' PROVE pending'[i].kind = "link"
    <3>1. n + i \in DOMAIN pending
      BY <1>3, <1>5
    <3>2. pending'[i] = pending[n + i]
      BY <1>4, <1>5
    <3> QED BY <2>1, <3>1, <3>2 DEF IInv, Sniffing
  <2>2. ASSUME at = "sniff" PROVE Len(wave') <= 1
    <3>1. Len(wave') = 1
      BY <1>4, <2>2
    <3>2. 1 <= 1
      OBVIOUS
    <3> QED BY <3>1, <3>2, Zenon
  <2> QED BY <2>1, <2>2 DEF Sniffing
<1>10. Below'
  <2>1. \A c : Simple(c)' <=> Simple(c)
    BY DEF Simple
  <2>2. ASSUME NEW i \in DOMAIN wave' PROVE Simple(wave'[i].cid)
    <3>1. i \in DOMAIN pending /\ i \in 1 .. n
      BY <1>3, <1>5
    <3>2. pending[i].kind = "link" /\ wave'[i].cid = pending[i].cid
      BY <1>4, <3>1
    <3> QED BY <3>1, <3>2 DEF IInv, Below
  <2>3. ASSUME NEW i \in DOMAIN pending', pending'[i].kind = "link" PROVE Simple(pending'[i].cid)
    <3>1. n + i \in DOMAIN pending
      BY <1>3, <1>5
    <3>2. pending'[i] = pending[n + i]
      BY <1>4, <1>5
    <3> QED BY <2>3, <3>1, <3>2 DEF IInv, Below
  <2> QED BY <2>1, <2>2, <2>3 DEF Below
<1>11. NothingLost'
  <2>1. Expand(k, WaveLinks) = <<>>
    BY <1>1, WaveContent
  <2>2. Expand(k, pending) \in Seq(Nat)
    BY <1>2, <1>3, EachType
  <2>3. <<>> \o Expand(k, pending) = Expand(k, pending)
    BY <2>2, ConcatEmptySeq
  <2>4. AtHand = out \o Expand(k, pending)
    BY <2>1, <2>3 DEF AtHand
  <2>5. AtHand' = out \o (Expand(k, WaveLinks') \o Expand(k, pending'))
    BY DEF AtHand
  <2>6. AtHand' = AtHand /\ (WellMade(file)' <=> WellMade(file))
    BY <1>4, <2>4, <2>5
  <2> QED BY <2>6 DEF IInv, NothingLost
<1>12. SampleIsPrefix' /\ WholeOrTruncated'
  BY DEF IInv, SampleIsPrefix, WholeOrTruncated
<1> QED BY <1>7, <1>8, <1>9, <1>10, <1>11, <1>12 DEF IInv

\* One block at a time.
LEMMA SniffNextStep ==
    ASSUME IInv, SniffNext, NoFileHasCycles
    PROVE  IInv'
<1>1. TypeOK
  BY DEF IInv
<1>2. /\ pending \in Seq(ItemsOf(DOMAIN file.block)) /\ Len(pending) \in Nat
      /\ DOMAIN pending = 1 .. Len(pending)
  BY <1>1, QueueType
<1>3. /\ at = "sniff" /\ wave = <<>> /\ pending # <<>>
      /\ wave' = Fetching(<<Head(pending).cid>>) /\ pending' = Tail(pending) /\ used' = used + 1
      /\ UNCHANGED <<file, at, swept, mime, out, tokens, result>>
  BY DEF SniffNext
<1>4. Len(pending) > 0 /\ 1 \in 1 .. Len(pending)
  BY <1>2, <1>3, EmptySeq
<1>5. <<Head(pending).cid>> = [i \in 1 .. 1 |-> pending[i].cid]
  <2>1. Head(pending) = pending[1]
    BY <1>2, <1>3, <1>4
  <2> QED BY <2>1
<1>6. pending' = SubSeq(pending, 1 + 1, Len(pending))
  BY <1>2, <1>3, TailIsSubSeq
<1>7. \A i \in 1 .. 1 : pending[i].kind = "link"
  BY <1>2, <1>3, <1>4 DEF IInv, Sniffing
<1>8. swept' \in BOOLEAN
  BY <1>1, <1>3 DEF TypeOK
<1> DEFINE n == 1
<1>9. /\ n \in 1 .. Len(pending) /\ n = 1
      /\ \A i \in 1 .. n : pending[i].kind = "link"
      /\ wave' = Fetching([i \in 1 .. n |-> pending[i].cid])
      /\ pending' = SubSeq(pending, n + 1, Len(pending)) /\ used' = used + n
  BY <1>3, <1>4, <1>5, <1>6, <1>7
<1> HIDE DEF n
<1> QED BY <1>3, <1>8, <1>9, AskStep

\* The links taken are at the head of the queue.
LEMMA NextLinksSpec ==
    ASSUME TypeOK, NoFileHasCycles, More
    PROVE  \E n \in 0 .. Len(pending) :
              /\ \A i \in 1 .. n : pending[i].kind = "link"
              /\ NextLinks = [i \in 1 .. n |-> pending[i].cid]
<1> DEFINE free == Budget.blocks - used
           room == IF free < CHILD_CONCURRENCY THEN free ELSE CHILD_CONCURRENCY
           Fits(k) == /\ k <= room
                      /\ \A i \in 1 .. k : pending[i].kind = "link"
                      /\ k = room \/ k = Len(pending) \/ pending[k + 1].kind = "data"
           Ends == {k \in 0 .. Len(pending) : k = room \/ k = Len(pending) \/ pending[k + 1].kind = "data"}
<1>1. /\ Len(pending) \in Nat
      /\ \A i \in 1 .. Len(pending) : pending[i] \in ItemsOf(DOMAIN file.block)
  BY QueueType
<1>2. room \in Nat
  <2>1. Budget.blocks \in Nat /\ used \in Nat /\ CHILD_CONCURRENCY \in Nat /\ used < Budget.blocks
    BY BudgetType, FetchAssumption DEF TypeOK, More
  <2> QED BY <2>1
<1> HIDE DEF room
<1>3. PICK n \in Ends : \A k \in Ends : n <= k
  <2>1. Len(pending) \in Ends /\ Ends \subseteq Nat
    BY <1>1
  <2> HIDE DEF Ends
  <2> QED BY <2>1, LeastNatural
<1>4. n \in 0 .. Len(pending) /\ (n = room \/ n = Len(pending) \/ pending[n + 1].kind = "data")
  BY <1>3
<1>5. ASSUME NEW i \in 1 .. n PROVE pending[i].kind = "link"
  <2>1. i - 1 \in 0 .. Len(pending) /\ i \in 1 .. Len(pending) /\ i - 1 < n /\ i - 1 # Len(pending)
        /\ (i - 1) + 1 = i
    BY <1>1, <1>4
  <2>2. i - 1 \notin Ends
    BY <1>1, <1>3, <1>4, <2>1
  <2>3. pending[i].kind # "data"
    BY <2>1, <2>2
  <2>4. pending[i] \in ItemsOf(DOMAIN file.block)
    BY <1>1, <2>1
  <2> QED BY <2>3, <2>4, ItemKinds
<1>6. n <= room
  <2>1. CASE room \in 0 .. Len(pending)
    <3>1. room \in Ends
      BY <2>1
    <3> QED BY <1>3, <3>1
  <2>2. CASE room \notin 0 .. Len(pending)
    BY <1>1, <1>2, <1>4, <2>2
  <2> QED BY <2>1, <2>2
<1>7. Fits(n)
  BY <1>4, <1>5, <1>6
<1> DEFINE c == CHOOSE k \in 0 .. Len(pending) : Fits(k)
<1>8. c \in 0 .. Len(pending) /\ Fits(c)
  <2> HIDE DEF Fits
  <2> QED BY <1>4, <1>7
<1>9. NextLinks = [i \in 1 .. c |-> pending[i].cid]
  BY DEF NextLinks, room
<1>10. \A i \in 1 .. c : pending[i].kind = "link"
  <2> HIDE DEF c
  <2> QED BY <1>8
<1> HIDE DEF c
<1> QED BY <1>8, <1>9, <1>10

\* As many links as there is room for.
LEMMA NextWaveStep ==
    ASSUME IInv, NextWave, NoFileHasCycles
    PROVE  IInv'
<1>1. TypeOK
  BY DEF IInv
<1>2. /\ at = "wave" /\ wave = <<>> /\ More /\ NextLinks # <<>>
      /\ wave' = Fetching(NextLinks)
      /\ pending' = SubSeq(pending, Len(NextLinks) + 1, Len(pending))
      /\ swept' = FALSE /\ used' = used + Len(NextLinks)
      /\ UNCHANGED <<file, at, mime, out, tokens, result>>
  BY DEF NextWave
<1>3. PICK n \in 0 .. Len(pending) :
         /\ \A i \in 1 .. n : pending[i].kind = "link"
         /\ NextLinks = [i \in 1 .. n |-> pending[i].cid]
  BY <1>1, <1>2, NextLinksSpec
<1>4. Len(pending) \in Nat /\ n \in Nat
  BY <1>1, QueueType
<1>5. Len(NextLinks) = n
  BY <1>3, <1>4
<1>6. n # 0
  <2>1. SUFFICES ASSUME n = 0 PROVE FALSE
    OBVIOUS
  <2>2. [i \in 1 .. 0 |-> pending[i].cid] = <<>>
    OBVIOUS
  <2> QED BY <1>2, <1>3, <2>1, <2>2
<1>7. n \in 1 .. Len(pending)
  BY <1>4, <1>6
<1> QED BY <1>2, <1>3, <1>5, <1>7, AskStep

\* What is at hand begins the content of a file well made.
Begins(f, data) == WellMade(f) => IsPrefix(data, Content(f))

LEMMA HandFacts ==
    ASSUME IInv, NoFileHasCycles, at \in {"sniff", "wave"}
    PROVE  /\ out \in Seq(Nat)
           /\ Expand(Contents(file), pending) \in Seq(Nat)
           /\ Expand(Contents(file), WaveLinks) \in Seq(Nat)
           /\ WellMade(file) => Content(file) = out \o (Expand(Contents(file), WaveLinks) \o Expand(Contents(file), pending))
           /\ Begins(file, out)
           /\ \A n \in Nat : Cut(out, n) \in Seq(Nat) /\ Begins(file, Cut(out, n))
<1> DEFINE e == Expand(Contents(file), WaveLinks)
           p == Expand(Contents(file), pending)
<1>1. TypeOK /\ out \in Seq(Nat)
  BY DEF IInv, TypeOK
<1>2. p \in Seq(Nat) /\ e \in Seq(Nat)
  BY <1>1, QueueType, FileFacts, EachType, WaveContent
<1>3. WellMade(file) => Content(file) = out \o (e \o p)
  BY DEF IInv, NothingLost, AtHand
<1> HIDE DEF e, p
<1>4. e \o p \in Seq(Nat)
  BY <1>2, ConcatProperties
<1>5. Begins(file, out)
  BY <1>1, <1>3, <1>4, CutIsPrefix DEF Begins
<1>6. ASSUME NEW n \in Nat PROVE Cut(out, n) \in Seq(Nat) /\ Begins(file, Cut(out, n))
  BY <1>1, <1>3, <1>4, <1>6, CutIsPrefix DEF Begins
<1> QED BY <1>1, <1>2, <1>3, <1>5, <1>6 DEF e, p

\* The block that was asked for gives its bytes, and its links go to the front.
LEMMA SniffArrivedStep ==
    ASSUME IInv, SniffArrived, NoFileHasCycles
    PROVE  IInv'
<1> DEFINE k == Contents(file)
           B == DOMAIN file.block
           c == wave[1].cid
           b == _child_bytes(c)
           e == Expand(k, WaveLinks)
           p == Expand(k, pending)
           l == Expand(k, Links(b.links))
<1>1. TypeOK
  BY DEF IInv
<1>2. at = "sniff" /\ wave # <<>> /\ UNCHANGED <<file, swept, used, tokens>>
  BY DEF SniffArrived
<1>3. Len(wave) = 1 /\ DOMAIN wave = 1 .. 1 /\ c \in B
  <2>1. Len(wave) <= 1
    BY <1>2 DEF IInv, Sniffing
  <2>2. Len(wave) = 1
    BY <1>1, <1>2, <2>1, WaveType
  <2> QED BY <1>1, <2>2, WaveType
<1>4. /\ out \in Seq(Nat) /\ p \in Seq(Nat) /\ e \in Seq(Nat)
      /\ WellMade(file) => Content(file) = out \o (e \o p)
      /\ Begins(file, out)
  BY <1>2, HandFacts
<1>5. CASE Missing # {}
  <2>1. Return(out, TRUE) /\ UNCHANGED <<mime, out, pending>>
    BY <1>5 DEF SniffArrived
  <2> QED BY <1>2, <1>4, <2>1, ReturnStep DEF Begins
<1>6. CASE Missing = {}
  <2>1. /\ out' = out \o b.data /\ pending' = Links(b.links) \o pending /\ mime' = Sniff(out')
        /\ wave' = <<>> /\ UNCHANGED <<at, result>>
    BY <1>6 DEF SniffArrived
  <2>2. k \in [B -> Seq(Nat)] /\ k[c] = Under(file, k, c) /\ IsFile(file)
    BY <1>1, <1>3, FileFacts
  <2>3. /\ b.data \in Seq(Nat) /\ Links(b.links) \in Seq(ItemsOf(B))
        /\ l \in Seq(Nat) /\ (WellMade(file) => k[c] = b.data \o l)
        /\ \A i \in DOMAIN Links(b.links) : Links(b.links)[i].kind = "link" /\ Simple(Links(b.links)[i].cid)
    <3>1. CASE Block(c).kind = "folder"
      <4>1. b.data = <<>> /\ b.links = <<>>
        BY <3>1 DEF _child_bytes, Contribution
      <4>2. Links(<<>>) = <<>> /\ DOMAIN Links(<<>>) = {}
        BY DEF Links
      <4>3. k[c] = <<>>
        BY <1>3, <2>2, <3>1 DEF Under, Block
      <4>4. [kind |-> "link", cid |-> c] \in ItemsOf(B)
        BY <1>3 DEF ItemsOf
      <4>5. Expand(k, <<>>) = <<>> /\ <<>> \in Seq(Nat) /\ <<>> \in Seq(ItemsOf(B))
        BY <2>2, <4>4, ExpandSmall, EmptySeq
      <4>6. <<>> \o <<>> = <<>>
        BY <4>5, ConcatEmptySeq
      <4> HIDE DEF b
      <4> QED BY <4>1, <4>2, <4>3, <4>5, <4>6
    <3>2. CASE Block(c).kind = "file" /\ Block(c).data = <<>> /\ Block(c).links = <<>>
      <4>1. b.data = file.block[c].stored /\ b.links = <<>>
        BY <3>2 DEF _child_bytes, Contribution, Block
      <4>2. ~WellMade(file)
        <5>1. Simple(c)
          BY <1>2, <1>3 DEF IInv, Below
        <5> QED BY <3>2, <5>1 DEF Simple, Block
      <4>3. file.block[c].stored \in Seq(Nat)
        BY <1>3, <2>2 DEF IsFile
      <4>4. Links(<<>>) = <<>> /\ DOMAIN Links(<<>>) = {}
        BY DEF Links
      <4>5. [kind |-> "link", cid |-> c] \in ItemsOf(B)
        BY <1>3 DEF ItemsOf
      <4>6. Expand(k, <<>>) = <<>> /\ <<>> \in Seq(Nat) /\ <<>> \in Seq(ItemsOf(B))
        BY <2>2, <4>5, ExpandSmall, EmptySeq
      <4> HIDE DEF b
      <4> QED BY <4>1, <4>2, <4>3, <4>4, <4>6
    <3>3. CASE /\ Block(c).kind # "folder"
               /\ ~(Block(c).kind = "file" /\ Block(c).data = <<>> /\ Block(c).links = <<>>)
      <4>1. b.data = file.block[c].data /\ b.links = file.block[c].links
        BY <3>3 DEF _child_bytes, Contribution, Block
      <4>2. file.block[c].data \in Seq(Nat)
        BY <1>3, <2>2 DEF IsFile
      <4>3. /\ Links(file.block[c].links) \in Seq(ItemsOf(B))
            /\ k[c] = file.block[c].data \o Expand(k, Links(file.block[c].links))
        BY <1>3, <2>2, <3>3, UnderType DEF Block
      <4>4. Expand(k, Links(file.block[c].links)) \in Seq(Nat)
        BY <2>2, <4>3, EachType
      <4>5. \A i \in DOMAIN Links(file.block[c].links) :
               Links(file.block[c].links)[i].kind = "link" /\ Simple(Links(file.block[c].links)[i].cid)
        BY <1>1, <1>3, LinksSpec DEF Block
      <4> HIDE DEF b
      <4> QED BY <4>1, <4>2, <4>3, <4>4, <4>5
    <3> QED BY <3>1, <3>2, <3>3
  <2>4. e = k[c]
    <3>1. WaveLinks = <<[kind |-> "link", cid |-> c]>>
      <4>1. WaveLinks \in Seq(ItemsOf(B)) /\ Len(WaveLinks) = 1 /\ WaveLinks[1] = [kind |-> "link", cid |-> c]
        BY <1>1, <1>3, WaveType
      <4>2. [kind |-> "link", cid |-> c] \in ItemsOf(B)
        BY <1>3 DEF ItemsOf
      <4>3. <<[kind |-> "link", cid |-> c]>> \in Seq(ItemsOf(B)) /\ Len(<<[kind |-> "link", cid |-> c]>>) = 1
            /\ <<[kind |-> "link", cid |-> c]>>[1] = [kind |-> "link", cid |-> c]
        BY <4>2, OneBlock
      <4> QED BY <4>1, <4>3, SeqEqual
    <3>2. [kind |-> "link", cid |-> c] \in ItemsOf(B)
      BY <1>3 DEF ItemsOf
    <3>3. ItemBytes(k, [kind |-> "link", cid |-> c]) = k[c]
      BY DEF ItemBytes
    <3> QED BY <2>2, <3>1, <3>2, <3>3, ExpandSmall
  <2>5. pending \in Seq(ItemsOf(B))
    BY <1>1, QueueType
  <2>6. /\ pending' \in Seq(ItemsOf(B)) /\ Len(pending') = Len(Links(b.links)) + Len(pending)
        /\ \A i \in 1 .. Len(Links(b.links)) + Len(pending) :
              pending'[i] = IF i <= Len(Links(b.links)) THEN Links(b.links)[i] ELSE pending[i - Len(Links(b.links))]
        /\ Expand(k, pending') = l \o p
    <3> HIDE DEF b, k
    <3>1. Expand(k, Links(b.links) \o pending) = Expand(k, Links(b.links)) \o Expand(k, pending)
      BY <2>2, <2>3, <2>5, ExpandConcat
    <3>2. /\ Links(b.links) \o pending \in Seq(ItemsOf(B))
          /\ Len(Links(b.links) \o pending) = Len(Links(b.links)) + Len(pending)
          /\ \A i \in 1 .. Len(Links(b.links)) + Len(pending) :
                (Links(b.links) \o pending)[i] = IF i <= Len(Links(b.links)) THEN Links(b.links)[i]
                                                 ELSE pending[i - Len(Links(b.links))]
      BY <2>3, <2>5, ConcatProperties
    <3> QED BY <2>1, <3>1, <3>2
  <2> DEFINE n == Len(Links(b.links))
  <2>7. n \in Nat /\ Len(pending) \in Nat /\ DOMAIN Links(b.links) = 1 .. n
        /\ DOMAIN pending = 1 .. Len(pending) /\ DOMAIN pending' = 1 .. n + Len(pending)
    <3> HIDE DEF b
    <3> QED BY <2>3, <2>5, <2>6, LenProperties
  <2>8. out' \in Seq(Nat)
    BY <1>4, <2>1, <2>3, ConcatProperties
  <2>9. TypeOK'
    <3>1. mime' \in {"none", "pdf", "text", "other"}
      BY <2>1, <2>2 DEF Sniff, IsFile
    <3> QED BY <1>1, <1>2, <2>1, <2>6, <2>8, <3>1, EmptySeq DEF TypeOK, ItemsOf
  <2>10. ASSUME NEW i \in DOMAIN pending'
         PROVE  pending'[i].kind = "link" /\ Simple(pending'[i].cid)
    <3> HIDE DEF b, n
    <3>1. CASE i <= n
      <4>1. i \in DOMAIN Links(b.links) /\ pending'[i] = Links(b.links)[i]
        BY <2>6, <2>7, <2>10, <3>1 DEF n
      <4> QED BY <2>3, <4>1
    <3>2. CASE ~(i <= n)
      <4>1. i - n \in DOMAIN pending /\ pending'[i] = pending[i - n]
        BY <2>6, <2>7, <2>10, <3>2 DEF n
      <4> QED BY <1>2, <4>1 DEF IInv, Sniffing, Below
    <3> QED BY <3>1, <3>2
  <2>11. Sniffing'
    <3>1. Len(wave') <= 1
      BY <2>1, EmptySeq
    <3> HIDE DEF b, k, l, p, n
    <3>2. \A i \in DOMAIN pending' : pending'[i].kind = "link"
      BY <2>10
    <3> QED BY <3>1, <3>2 DEF Sniffing
  <2>12. Below'
    <3>1. \A d : Simple(d)' <=> Simple(d)
      BY <1>2 DEF Simple
    <3>2. DOMAIN wave' = {}
      BY <2>1
    <3> QED BY <2>10, <3>1, <3>2 DEF Below
  <2>13. ASSUME WellMade(file) PROVE AtHand' = Content(file)
    <3>1. Expand(k, WaveLinks)' = <<>>
      <4>1. Expand(k, WaveLinks') = <<>>
        BY <1>3, <2>1, <2>2, NoWave
      <4> QED BY <1>2, <4>1
    <3>2. AtHand' = (out \o b.data) \o (<<>> \o (l \o p))
      BY <1>2, <2>1, <2>6, <3>1 DEF AtHand
    <3>3. Content(file) = out \o ((b.data \o l) \o p)
      BY <1>4, <2>3, <2>4, <2>13
    <3> DEFINE d == b.data
    <3>4. out \in Seq(Nat) /\ d \in Seq(Nat) /\ l \in Seq(Nat) /\ p \in Seq(Nat)
      BY <1>4, <2>3
    <3>5. AtHand' = (out \o d) \o (<<>> \o (l \o p)) /\ Content(file) = out \o ((d \o l) \o p)
      BY <3>2, <3>3
    <3> HIDE DEF d, l, p
    <3>6. Regroups(out, d, l, p)
      BY <3>4, Regroup
    <3> QED BY <3>5, <3>6 DEF Regroups
  <2>14. NothingLost'
    BY <1>2, <2>13 DEF NothingLost
  <2>15. RootFirst' /\ DoneOnce' /\ HeadIsLink'
    BY <1>2, <2>1 DEF IInv, RootFirst, DoneOnce, HeadIsLink
  <2>16. SampleIsPrefix'
    <3>1. ASSUME WellMade(file) PROVE Content(file) = out' \o (l \o p)
      <4> DEFINE d == b.data
      <4>1. out \in Seq(Nat) /\ d \in Seq(Nat) /\ l \in Seq(Nat) /\ p \in Seq(Nat)
        BY <1>4, <2>3
      <4>2. Content(file) = out \o ((d \o l) \o p) /\ out' = out \o d
        BY <1>4, <2>1, <2>3, <2>4, <3>1
      <4> HIDE DEF d, l, p
      <4>3. Regroups(out, d, l, p)
        BY <4>1, Regroup
      <4> QED BY <4>2, <4>3 DEF Regroups
    <3>2. l \o p \in Seq(Nat)
      <4> HIDE DEF l, p
      <4> QED BY <1>4, <2>3, ConcatProperties
    <3>3. WellMade(file) => IsPrefix(out', Content(file))
      <4> HIDE DEF l, p
      <4> QED BY <2>8, <3>1, <3>2, CutIsPrefix
    <3>4. WellMade(file) => IsPrefix(result.data, Content(file))
      BY DEF IInv, SampleIsPrefix
    <3> QED BY <1>2, <2>1, <3>3, <3>4 DEF SampleIsPrefix
  <2>17. WholeOrTruncated'
    BY <1>2, <2>1 DEF WholeOrTruncated
  <2> QED BY <2>9, <2>11, <2>12, <2>14, <2>15, <2>16, <2>17 DEF IInv
<1> QED BY <1>5, <1>6

\* The kind is known: the sample is enough, out of reach, or goes on in waves.
LEMMA SniffedStep ==
    ASSUME IInv, Sniffed, NoFileHasCycles
    PROVE  IInv'
<1>1. TypeOK
  BY DEF IInv
<1>2. at = "sniff" /\ wave = <<>> /\ UNCHANGED <<file, swept, mime, out, pending, used, tokens>>
  BY DEF Sniffed
<1>3. /\ out \in Seq(Nat) /\ Begins(file, out)
      /\ \A n \in Nat : Cut(out, n) \in Seq(Nat) /\ Begins(file, Cut(out, n))
  BY <1>2, HandFacts
<1>4. CASE ~processable(mime)
  <2>1. Return(Cut(out, MAX_BYTES), pending # <<>>)
    BY <1>4 DEF Sniffed
  <2>2. MAX_BYTES \in Nat
    BY FetchAssumption
  <2> DEFINE data == Cut(out, MAX_BYTES)
             truncated == pending # <<>>
  <2>3. data \in Seq(Nat) /\ Begins(file, data) /\ truncated \in BOOLEAN /\ Return(data, truncated)
    BY <1>3, <2>1, <2>2
  <2> HIDE DEF data, truncated
  <2> QED BY <1>2, <1>4, <2>3, ReturnStep DEF Begins
<1>5. CASE processable(mime) /\ Len(out) > Budget.bytes
  <2>1. Return(out, TRUE)
    BY <1>5 DEF Sniffed
  <2> QED BY <1>2, <1>3, <2>1, ReturnStep DEF Begins
<1>6. CASE processable(mime) /\ ~(Len(out) > Budget.bytes)
  <2>1. at' = "wave" /\ wave' = wave /\ result' = result
    BY <1>6 DEF Sniffed
  <2>2. TypeOK'
    BY <1>1, <1>2, <2>1 DEF TypeOK
  <2>3. RootFirst' /\ Sniffing' /\ DoneOnce'
    BY <1>2, <2>1 DEF IInv, RootFirst, Sniffing, DoneOnce
  <2>4. Below'
    <3>1. \A c : Simple(c)' <=> Simple(c)
      BY <1>2 DEF Simple
    <3> QED BY <1>2, <2>1, <3>1 DEF IInv, Below
  <2>5. NothingLost'
    <3>1. WaveLinks' = WaveLinks
      BY <2>1 DEF WaveLinks
    <3> QED BY <1>2, <2>1, <3>1 DEF IInv, NothingLost, AtHand
  <2>6. HeadIsLink'
    <3>1. ASSUME pending # <<>> PROVE pending[1].kind = "link"
      <4>1. 1 \in DOMAIN pending
        BY <1>1, <3>1, QueueType, EmptySeq
      <4> QED BY <1>2, <4>1 DEF IInv, Sniffing
    <3> QED BY <1>2, <3>1 DEF HeadIsLink
  <2>7. SampleIsPrefix' /\ WholeOrTruncated'
    BY <1>2, <2>1 DEF IInv, SampleIsPrefix, WholeOrTruncated
  <2> QED BY <2>2, <2>3, <2>4, <2>5, <2>6, <2>7 DEF IInv
<1> QED BY <1>4, <1>5, <1>6

\* Everything is at hand, or the budget is spent.
LEMMA FinishStep ==
    ASSUME IInv, Finish, NoFileHasCycles
    PROVE  IInv'
<1> DEFINE data == Cut(out, Budget.bytes)
           truncated == \/ pending # <<>> \/ Len(out) > Budget.bytes
                        \/ file.filesize > 0 /\ Len(data) < file.filesize
<1>1. TypeOK
  BY DEF IInv
<1>2. /\ at = "wave" /\ wave = <<>> /\ Return(data, truncated)
      /\ UNCHANGED <<file, swept, mime, out, pending, used, tokens>>
  BY DEF Finish
<1>3. /\ out \in Seq(Nat) /\ Begins(file, out)
      /\ \A n \in Nat : Cut(out, n) \in Seq(Nat) /\ Begins(file, Cut(out, n))
      /\ WellMade(file) => Content(file) = out \o (Expand(Contents(file), WaveLinks) \o Expand(Contents(file), pending))
  BY <1>2, HandFacts
<1>4. Budget.bytes \in Nat /\ Len(out) \in Nat
  BY <1>1, <1>3, BudgetType, LenProperties
<1>5. data \in Seq(Nat) /\ Begins(file, data) /\ truncated \in BOOLEAN
  BY <1>3, <1>4
<1>6. ASSUME WellMade(file), ~truncated PROVE data = Content(file)
  <2>1. pending = <<>> /\ Len(out) <= Budget.bytes
    BY <1>4, <1>6
  <2>2. data = out
    BY <1>3, <1>4, <2>1, CutIsPrefix, EmptySeq
  <2>3. Expand(Contents(file), WaveLinks) = <<>>
    BY <1>1, <1>2, WaveContent
  <2>4. Expand(Contents(file), pending) = <<>>
    <3>1. [kind |-> "link", cid |-> file.root] \in ItemsOf(DOMAIN file.block)
      BY <1>1, FileFacts DEF ItemsOf
    <3>2. Contents(file) \in [DOMAIN file.block -> Seq(Nat)]
      BY <1>1, FileFacts
    <3> QED BY <2>1, <3>1, <3>2, ExpandSmall
  <2>5. <<>> \o <<>> = <<>> /\ out \o <<>> = out
    BY <1>3, ConcatEmptySeq, EmptySeq
  <2> QED BY <1>3, <1>6, <2>2, <2>3, <2>4, <2>5
<1> HIDE DEF data, truncated
<1> QED BY <1>2, <1>5, <1>6, ReturnStep DEF Begins

\* A wave has arrived: what it leads to comes before what was waiting, and bytes
\* that are next go to the sample.
LEMMA WaveArrivedStep ==
    ASSUME IInv, WaveArrived, NoFileHasCycles
    PROVE  IInv'
<1> DEFINE k == Contents(file)
           B == DOMAIN file.block
           r == [i \in DOMAIN wave |-> Replacement(_child_bytes(wave[i].cid))]
           queue == FlattenSeq(r) \o pending
           n == Resolvable(queue)
           e == Expand(k, WaveLinks)
           p == Expand(k, pending)
           front == SubSeq(queue, 1, n)
           back == SubSeq(queue, n + 1, Len(queue))
<1>1. TypeOK
  BY DEF IInv
<1>2. at = "wave" /\ wave # <<>> /\ UNCHANGED <<file, swept, mime, used, tokens>>
  BY DEF WaveArrived
<1>3. /\ out \in Seq(Nat) /\ p \in Seq(Nat) /\ e \in Seq(Nat)
      /\ WellMade(file) => Content(file) = out \o (e \o p)
      /\ \A m \in Nat : Cut(out, m) \in Seq(Nat) /\ Begins(file, Cut(out, m))
  BY <1>2, HandFacts
<1>4. CASE Missing # {}
  <2>1. Return(Cut(out, Budget.bytes), TRUE) /\ UNCHANGED <<out, pending>>
    BY <1>4 DEF WaveArrived
  <2>2. Cut(out, Budget.bytes) \in Seq(Nat) /\ Begins(file, Cut(out, Budget.bytes))
    BY <1>1, <1>3, BudgetType
  <2> QED BY <1>2, <2>1, <2>2, ReturnStep DEF Begins
<1>5. CASE Missing = {}
  <2>1. /\ out' = out \o Bytes(front) /\ pending' = back /\ wave' = <<>> /\ UNCHANGED <<at, result>>
    BY <1>5 DEF WaveArrived, Queue
  <2>2. k \in [B -> Seq(Nat)] /\ file.root \in B
    BY <1>1, FileFacts
  <2>3. /\ DOMAIN wave = 1 .. Len(wave) /\ Len(wave) \in Nat
        /\ \A i \in 1 .. Len(wave) : wave[i].cid \in B
    BY <1>1, WaveType
  <2>4. ASSUME NEW i \in 1 .. Len(wave)
        PROVE  /\ r[i] \in Seq(ItemsOf(B)) /\ r[i] \in Seq(SimpleItems)
               /\ WellMade(file) => Expand(k, r[i]) = k[wave[i].cid]
    <3> DEFINE s == Replacement(_child_bytes(wave[i].cid))
    <3>1. r[i] = s
      BY <2>3
    <3>2. wave[i].cid \in B /\ Simple(wave[i].cid)
      BY <1>2, <2>3 DEF IInv, Below
    <3>3. /\ s \in Seq(ItemsOf(B)) /\ (WellMade(file) => Expand(k, s) = k[wave[i].cid])
          /\ \A j \in DOMAIN s : s[j].kind = "link" => Simple(s[j].cid)
      BY <1>1, <3>2, ReplacementSpec
    <3> HIDE DEF s
    <3>4. DOMAIN s = 1 .. Len(s) /\ Len(s) \in Nat /\ s \in [1 .. Len(s) -> ItemsOf(B)]
      BY <3>3, LenProperties
    <3>5. s \in [1 .. Len(s) -> SimpleItems]
      BY <3>3, <3>4 DEF SimpleItems
    <3>6. s \in Seq(SimpleItems)
      BY <3>4, <3>5, SeqDef
    <3> HIDE DEF r
    <3> QED BY <3>1, <3>3, <3>6
  <2>5. r \in Seq(Seq(ItemsOf(B))) /\ r \in Seq(Seq(SimpleItems)) /\ DOMAIN r = DOMAIN wave
    <3>1. r = [i \in 1 .. Len(wave) |-> r[i]]
      BY <2>3
    <3> HIDE DEF r
    <3>2. r \in [1 .. Len(wave) -> Seq(ItemsOf(B))] /\ r \in [1 .. Len(wave) -> Seq(SimpleItems)]
      BY <2>4, <3>1
    <3> QED BY <2>3, <3>2, SeqDef, SMTT(30)
  <2>6. WellMade(file) => [i \in DOMAIN r |-> Expand(k, r[i])] = [i \in DOMAIN wave |-> k[wave[i].cid]]
    <3> HIDE DEF r
    <3> QED BY <2>3, <2>4, <2>5
  <2>7. /\ FlattenSeq(r) \in Seq(ItemsOf(B)) /\ FlattenSeq(r) \in Seq(SimpleItems)
        /\ WellMade(file) => Expand(k, FlattenSeq(r)) = e
    <3>1. e = FlattenSeq([i \in DOMAIN wave |-> k[wave[i].cid]])
      BY <1>1, WaveContent
    <3> HIDE DEF r, k, e
    <3>2. Expand(k, FlattenSeq(r)) = FlattenSeq([i \in DOMAIN r |-> Expand(k, r[i])])
      BY <2>2, <2>5, ExpandFlatten
    <3> QED BY <2>5, <2>6, <3>1, <3>2, FlattenType
  <2>8. pending \in Seq(ItemsOf(B)) /\ pending \in Seq(SimpleItems)
    BY <1>1, <1>2, QueueType DEF IInv
  <2>9. queue \in Seq(ItemsOf(B)) /\ queue \in Seq(SimpleItems) /\ (WellMade(file) => Expand(k, queue) = e \o p)
    <3> DEFINE q == FlattenSeq(r)
    <3>1. q \in Seq(ItemsOf(B)) /\ q \in Seq(SimpleItems) /\ (WellMade(file) => Expand(k, q) = e)
      BY <2>7
    <3> HIDE DEF q, k, e
    <3>2. q \o pending \in Seq(ItemsOf(B)) /\ q \o pending \in Seq(SimpleItems)
      BY <2>8, <3>1, ConcatProperties
    <3>3. Expand(k, q \o pending) = Expand(k, q) \o Expand(k, pending)
      BY <2>2, <2>8, <3>1, ExpandConcat
    <3> QED BY <3>1, <3>2, <3>3 DEF q
  <2> HIDE DEF r, queue, k, e, p
  <2>10. /\ n \in 0 .. Len(queue) /\ \A i \in 1 .. n : queue[i].kind # "link"
         /\ n < Len(queue) => queue[n + 1].kind = "link"
    BY <2>9, ResolvableSpec
  <2>11. Len(queue) \in Nat /\ \A i \in 1 .. Len(queue) : queue[i] \in SimpleItems
    BY <2>9, LenProperties, ElementOfSeq
  <2> HIDE DEF n
  <2>12. /\ front \in Seq(ItemsOf(B)) /\ back \in Seq(ItemsOf(B))
         /\ Len(front) = n /\ \A i \in 1 .. n : front[i] = queue[i]
         /\ Len(back) = Len(queue) - n /\ \A i \in 1 .. Len(queue) - n : back[i] = queue[n + i]
         /\ Expand(k, queue) = Expand(k, front) \o Expand(k, back)
    <3>1. n \in 0 .. Len(queue) /\ queue \in Seq(ItemsOf(B)) /\ k \in [B -> Seq(Nat)]
      BY <2>2, <2>9, <2>10
    <3>2. /\ SubSeq(queue, 1, n) \in Seq(ItemsOf(B))
          /\ SubSeq(queue, n + 1, Len(queue)) \in Seq(ItemsOf(B))
          /\ Len(SubSeq(queue, 1, n)) = n /\ \A i \in 1 .. n : SubSeq(queue, 1, n)[i] = queue[i]
          /\ Len(SubSeq(queue, n + 1, Len(queue))) = Len(queue) - n
          /\ \A i \in 1 .. Len(queue) - n : SubSeq(queue, n + 1, Len(queue))[i] = queue[n + i]
          /\ Expand(k, queue) = Expand(k, SubSeq(queue, 1, n)) \o Expand(k, SubSeq(queue, n + 1, Len(queue)))
      <4> HIDE DEF B, front, back
      <4> QED BY <3>1, ExpandCut
    <3> HIDE DEF B
    <3> QED BY <3>2
  <2> HIDE DEF front, back
  <2>13. Bytes(front) = Expand(k, front) /\ Expand(k, front) \in Seq(Nat) /\ Expand(k, back) \in Seq(Nat)
    <3>1. \A i \in DOMAIN front : front[i].kind # "link"
      <4>1. DOMAIN front = 1 .. n
        BY <2>12, LenProperties
      <4> QED BY <2>10, <2>12, <4>1
    <3> QED BY <2>2, <2>12, <3>1, ExpandBytes, EachType
  <2>14. DOMAIN back = 1 .. Len(queue) - n /\ n \in Nat
    BY <2>10, <2>11, <2>12, LenProperties
  <2>15. out' \in Seq(Nat)
    BY <1>3, <2>1, <2>13, ConcatProperties
  <2>16. TypeOK'
    BY <1>1, <1>2, <2>1, <2>12, <2>15, EmptySeq DEF TypeOK, ItemsOf
  <2>17. HeadIsLink'
    <3>1. ASSUME back # <<>> PROVE back[1].kind = "link"
      <4>1. Len(back) # 0
        BY <2>12, <3>1, EmptySeq
      <4>2. n < Len(queue) /\ 1 \in 1 .. Len(queue) - n
        BY <2>10, <2>11, <2>12, <2>14, <4>1, SMTT(30)
      <4> QED BY <2>10, <2>12, <4>2
    <3> QED BY <2>1, <3>1 DEF HeadIsLink
  <2>18. Below'
    <3>1. \A c : Simple(c)' <=> Simple(c)
      BY <1>2 DEF Simple
    <3>2. DOMAIN wave' = {}
      BY <2>1
    <3>3. ASSUME NEW i \in DOMAIN back, back[i].kind = "link" PROVE Simple(back[i].cid)
      <4>1. n + i \in 1 .. Len(queue) /\ back[i] = queue[n + i]
        BY <2>11, <2>12, <2>14
      <4> QED BY <2>11, <3>3, <4>1 DEF SimpleItems
    <3> QED BY <2>1, <3>1, <3>2, <3>3 DEF Below
  <2>19. RootFirst' /\ Sniffing' /\ DoneOnce'
    BY <1>2, <2>1 DEF IInv, RootFirst, Sniffing, DoneOnce
  <2>20. ASSUME WellMade(file) PROVE Content(file) = out' \o Expand(k, back)
    <3> DEFINE a == Expand(k, front)
               z == Expand(k, back)
    <3>1. out \in Seq(Nat) /\ a \in Seq(Nat) /\ z \in Seq(Nat)
      BY <1>3, <2>13
    <3>2. Content(file) = out \o (a \o z)
      BY <1>3, <2>9, <2>12, <2>20
    <3>3. out' = out \o a
      BY <2>1, <2>13
    <3> HIDE DEF a, z
    <3>4. out \o (a \o z) = (out \o a) \o z
      BY <3>1, AssociativeBytes DEF AssociativeOn
    <3> QED BY <3>2, <3>3, <3>4 DEF z
  <2>21. NothingLost'
    <3>1. Expand(k, WaveLinks') = <<>>
      BY <2>1, <2>2, NoWave
    <3>2. <<>> \o Expand(k, back) = Expand(k, back)
      BY <2>13, ConcatEmptySeq
    <3>3. AtHand' = out' \o (Expand(k, WaveLinks') \o Expand(k, back))
      BY <1>2, <2>1 DEF AtHand, k
    <3> QED BY <1>2, <2>20, <3>1, <3>2, <3>3 DEF NothingLost
  <2>22. SampleIsPrefix'
    <3>1. WellMade(file) => IsPrefix(out', Content(file))
      BY <2>13, <2>15, <2>20, CutIsPrefix
    <3>2. WellMade(file) => IsPrefix(result.data, Content(file))
      BY DEF IInv, SampleIsPrefix
    <3> QED BY <1>2, <2>1, <3>1, <3>2 DEF SampleIsPrefix
  <2>23. WholeOrTruncated'
    BY <1>2, <2>1 DEF WholeOrTruncated
  <2> QED BY <2>16, <2>17, <2>18, <2>19, <2>21, <2>22, <2>23 DEF IInv
<1> QED BY <1>4, <1>5

\* The root is being fetched.
LEMMA InitStep ==
    ASSUME Init, NoFileHasCycles
    PROVE  IInv
<1>1. TypeOK
  BY TypeInit
<1>2. file.root \in DOMAIN file.block /\ Content(file) \in Seq(Nat)
  BY <1>1, FileFacts
<1>3. <<file.root>> \in Seq(DOMAIN file.block) /\ Len(<<file.root>>) = 1 /\ <<file.root>>[1] = file.root
  BY <1>2, OneBlock
<1>4. wave = Fetching(<<file.root>>) /\ at = "root" /\ out = <<>> /\ pending = <<>> /\ mime = "none"
      /\ result = NoResult
  BY DEF Init
<1>5. Len(wave) = 1 /\ wave[1].cid = file.root /\ wave[1].state # "missing"
  <2>1. Len(wave) = 1 /\ \A i \in 1 .. 1 : wave[i] = [cid |-> <<file.root>>[i], state |-> "asked"]
    BY <1>3, <1>4, FetchingType
  <2>2. wave[1] = [cid |-> file.root, state |-> "asked"]
    BY <1>3, <2>1
  <2> QED BY <2>1, <2>2
<1>6. RootFirst /\ Sniffing /\ Below /\ NothingLost /\ DoneOnce /\ HeadIsLink /\ WholeOrTruncated
  BY <1>4, <1>5 DEF RootFirst, Sniffing, Below, NothingLost, DoneOnce, HeadIsLink, WholeOrTruncated
<1>7. SampleIsPrefix
  <2>1. NoResult.data = <<>>
    BY DEF NoResult
  <2>2. IsPrefix(<<>>, Content(file))
    BY <1>2, CutIsPrefix
  <2> QED BY <1>4, <2>1, <2>2 DEF SampleIsPrefix
<1> QED BY <1>1, <1>6, <1>7 DEF IInv

\* Every step keeps the invariant.
LEMMA NextStep ==
    ASSUME IInv, [Next]_vars, NoFileHasCycles
    PROVE  IInv'
<1>1. CASE Assemble
  <2>1. CASE RootArrived
    BY <2>1, RootArrivedStep
  <2>2. CASE SniffNext
    BY <2>2, SniffNextStep
  <2>3. CASE SniffArrived
    BY <2>3, SniffArrivedStep
  <2>4. CASE Sniffed
    BY <2>4, SniffedStep
  <2>5. CASE NextWave
    BY <2>5, NextWaveStep
  <2>6. CASE Sweep
    BY <2>6, SweepStep
  <2>7. CASE WaveArrived
    BY <2>7, WaveArrivedStep
  <2>8. CASE Finish
    BY <2>8, FinishStep
  <2> QED BY <1>1, <2>1, <2>2, <2>3, <2>4, <2>5, <2>6, <2>7, <2>8 DEF Assemble
<1>2. CASE Fetched
  <2>1. PICK i \in DOMAIN wave : GetChild(i) \/ Consume(i)
    BY <1>2 DEF Fetched
  <2> QED BY <2>1, GetChildStep, ConsumeStep
<1>3. CASE AskedRoot
  <2>1. PICK answers \in [1 .. Sources -> Answers] : GetRoot(answers)
    BY <1>3 DEF AskedRoot
  <2> QED BY <2>1, GetRootStep
<1>4. CASE Refill
  BY <1>4, RefillStep
<1>5. CASE UNCHANGED vars
  <2>1. WaveLinks' = WaveLinks /\ \A c : Simple(c)' <=> Simple(c)
    BY <1>5 DEF vars, WaveLinks, Simple
  <2>2. TypeOK' /\ RootFirst' /\ Sniffing' /\ DoneOnce' /\ HeadIsLink'
    BY <1>5 DEF vars, IInv, TypeOK, RootFirst, Sniffing, DoneOnce, HeadIsLink
  <2>3. Below' /\ NothingLost'
    BY <1>5, <2>1 DEF vars, IInv, Below, NothingLost, AtHand
  <2>4. SampleIsPrefix' /\ WholeOrTruncated'
    BY <1>5 DEF vars, IInv, SampleIsPrefix, WholeOrTruncated
  <2> QED BY <2>2, <2>3, <2>4 DEF IInv
<1> QED BY <1>1, <1>2, <1>3, <1>4, <1>5 DEF Next

\* The invariant holds whatever arrives, for every file without cycles.
THEOREM InductiveInvariant ==
    ASSUME NoFileHasCycles
    PROVE  Spec => []IInv
<1>1. Init => IInv
  BY InitStep
<1>2. IInv /\ [Next]_vars => IInv'
  BY NextStep
<1> QED BY <1>1, <1>2, PTL DEF Spec

\* fetch.py, _assemble_file, "truncated means the sample is a prefix of the real
\* file": the bytes gathered and the sample returned of a file that is well made are
\* its content from the beginning, in its order and without a gap, however many
\* blocks it has, in whatever waves they are asked for and whatever of them arrives.
\* Of any file, bytes that are here never wait at the head of the queue.
THEOREM SampleInvHolds ==
    ASSUME NoFileHasCycles
    PROVE  Spec => []SampleInv
<1>1. IInv => SampleInv
  BY DEF IInv, SampleInv
<1> QED BY <1>1, InductiveInvariant, PTL

\* docs/OVERVIEW.md, "PDFs are all-or-nothing": a sample that is not called
\* truncated is the whole content of a file that is well made, for any budgets and
\* any depth of links.
THEOREM WholeOrTruncatedHolds ==
    ASSUME NoFileHasCycles
    PROVE  Spec => []WholeOrTruncated
<1>1. IInv => WholeOrTruncated
  BY DEF IInv
<1> QED BY <1>1, InductiveInvariant, PTL

=============================================================================
