---------------------------- MODULE LabelsProofs ----------------------------
(***************************************************************************)
(* Proofs about the vote of labels.py, for any messages, in any number and *)
(* order of arrival, and any nodes.                                        *)
(***************************************************************************)
EXTENDS Labels, TLAPS, SequenceTheorems, FiniteSetTheorems, FunctionTheorems, WellFoundedInduction

-----------------------------------------------------------------------------
(***************************************************************************)
(* Numbers.                                                                *)
(***************************************************************************)
\* A non-empty set of naturals has a least element.
LEMMA LeastNatural ==
    ASSUME NEW S \in SUBSET Nat, S # {}
    PROVE  \E x \in S : \A y \in S : x <= y
<1>1. \E x \in S : \A y \in S : ~ (<<y, x>> \in OpToRel(<, Nat))
  BY WFMin, NatLessThanWellFounded
<1>2. OpToRel(<, Nat) = {ss \in Nat \X Nat : ss[1] < ss[2]}
  BY Zenon DEF OpToRel
<1>3. \A x, y \in S : ~ (<<y, x>> \in {ss \in Nat \X Nat : ss[1] < ss[2]}) => x <= y
  OBVIOUS
<1> QED BY <1>1, <1>2, <1>3, Zenon

\* What holds at 0, and after each number up to n at the next, holds up to n.
LEMMA UpTo ==
    ASSUME NEW n \in Nat, NEW S \in SUBSET (0 .. n), 0 \in S,
           \A i \in 1 .. n : i - 1 \in S => i \in S
    PROVE  S = 0 .. n
<1>1. SUFFICES ASSUME (0 .. n) \ S # {} PROVE FALSE
  OBVIOUS
<1>2. (0 .. n) \ S \in SUBSET Nat
  OBVIOUS
<1>3. PICK i \in (0 .. n) \ S : \A y \in (0 .. n) \ S : i <= y
  BY <1>1, <1>2, LeastNatural
<1>4. i \in 1 .. n /\ i - 1 \in 0 .. n
  BY <1>3
<1>5. i - 1 \in S
  BY <1>3, <1>4
<1> QED BY <1>3, <1>4, <1>5

\* The greatest of some of the numbers up to n.
LEMMA MaxSpec ==
    ASSUME NEW n \in Nat, NEW S \in SUBSET (1 .. n), S # {}
    PROVE  Max(S) \in S /\ \A y \in S : y <= Max(S)
<1> DEFINE B == {b \in 0 .. n : \A y \in S : y <= b}
<1>1. B \in SUBSET Nat /\ n \in B
  OBVIOUS
<1>2. PICK b \in B : \A c \in B : b <= c
  BY <1>1, LeastNatural
<1>3. b \in S
  <2>1. PICK y \in S : TRUE
    OBVIOUS
  <2>2. b \in 1 .. n /\ b - 1 \in 0 .. n /\ b - 1 \notin B
    BY <1>2, <2>1
  <2>3. PICK z \in S : ~(z <= b - 1)
    BY <2>2
  <2>4. z = b
    BY <1>2, <2>2, <2>3
  <2> QED BY <2>4
<1>4. \E x \in S : \A y \in S : x >= y
  BY <1>2, <1>3
<1>5. Max(S) \in S /\ \A y \in S : Max(S) >= y
  BY <1>4 DEF Max
<1> QED BY <1>5

LEMMA MaxInterval ==
    ASSUME NEW n \in Nat, NEW i \in 1 .. n
    PROVE  Max(1 .. i) = i /\ (1 .. i) \ {i} = 1 .. (i - 1)
<1>1. (1 .. i) \in SUBSET (1 .. n) /\ 1 .. i # {}
  OBVIOUS
<1>2. Max(1 .. i) \in 1 .. i /\ \A y \in 1 .. i : y <= Max(1 .. i)
  BY <1>1, MaxSpec
<1> QED BY <1>2

\* The least of some numbers.
LEMMA MinSpec ==
    ASSUME NEW S \in SUBSET Nat, S # {}
    PROVE  Min(S) \in S /\ \A y \in S : Min(S) <= y
<1>1. \E x \in S : \A y \in S : x <= y
  BY LeastNatural
<1> QED BY <1>1 DEF Min

-----------------------------------------------------------------------------
(***************************************************************************)
(* FoldLeft.                                                               *)
(***************************************************************************)
\* iter goes through each set of the first n places, with step.
Iterates(iter, n, base, step) ==
    \A s \in SUBSET (1 .. n) :
        iter[s] = IF s = {} THEN base ELSE step[<<Max(s), iter[s \ {Max(s)}]>>]

\* The recursion of FoldLeft has a solution.
LEMMA IterExists ==
    ASSUME NEW n \in Nat, NEW S, NEW base \in S, NEW step \in [(1 .. n) \X S -> S]
    PROVE  \E iter \in [SUBSET (1 .. n) -> S] : Iterates(iter, n, base, step)
<1> DEFINE N == {k \in 0 .. n : \E iter \in [SUBSET (1 .. k) -> S] : Iterates(iter, k, base, step)}
<1>1. 0 \in N
  <2>1. [s \in SUBSET (1 .. 0) |-> base] \in [SUBSET (1 .. 0) -> S]
    OBVIOUS
  <2>2. Iterates([s \in SUBSET (1 .. 0) |-> base], 0, base, step)
    BY DEF Iterates
  <2> QED BY <2>1, <2>2
<1>2. ASSUME NEW i \in 1 .. n, i - 1 \in N PROVE i \in N
  <2>1. PICK g \in [SUBSET (1 .. (i - 1)) -> S] : Iterates(g, i - 1, base, step)
    BY <1>2
  <2> DEFINE h == [s \in SUBSET (1 .. i) |-> IF i \in s THEN step[<<i, g[s \ {i}]>>] ELSE g[s]]
  <2>2. ASSUME NEW s \in SUBSET (1 .. i)
        PROVE  /\ i \notin s => s \in SUBSET (1 .. (i - 1))
               /\ s \ {i} \in SUBSET (1 .. (i - 1))
    BY <2>2
  <2>3. h \in [SUBSET (1 .. i) -> S]
    <3>1. ASSUME NEW s \in SUBSET (1 .. i) PROVE h[s] \in S
      BY <2>2
    <3> QED BY <3>1
  <2>4. ASSUME NEW s \in SUBSET (1 .. i)
        PROVE  h[s] = IF s = {} THEN base ELSE step[<<Max(s), h[s \ {Max(s)}]>>]
    <3>1. CASE i \in s
      <4>1. Max(s) = i
        <5>1. i \in Nat /\ s # {}
          BY <3>1
        <5>2. Max(s) \in s /\ \A y \in s : y <= Max(s)
          BY <5>1, MaxSpec
        <5> HIDE DEF h
        <5>3. Max(s) \in 1 .. i /\ i <= Max(s)
          BY <3>1, <5>2
        <5> QED BY <5>3
      <4>2. h[s \ {i}] = g[s \ {i}]
        BY <2>2
      <4> QED BY <3>1, <4>1, <4>2
    <3>2. CASE i \notin s
      <4>1. s \in SUBSET (1 .. (i - 1)) /\ h[s] = g[s]
        BY <2>2, <3>2
      <4>2. i - 1 \in Nat
        OBVIOUS
      <4>3. CASE s # {}
        <5>1. Max(s) \in s
          BY <4>1, <4>2, <4>3, MaxSpec
        <5>2. s \ {Max(s)} \in SUBSET (1 .. i) /\ i \notin s \ {Max(s)}
          BY <3>2, <4>1
        <5>3. h[s \ {Max(s)}] = g[s \ {Max(s)}]
          BY <5>2
        <5> HIDE DEF h
        <5> QED BY <2>1, <4>1, <4>3, <5>3 DEF Iterates
      <4>4. CASE s = {}
        <5> HIDE DEF h
        <5> QED BY <2>1, <4>1, <4>4 DEF Iterates
      <4> QED BY <4>3, <4>4
    <3> QED BY <3>1, <3>2
  <2>5. Iterates(h, i, base, step)
    <3> HIDE DEF h
    <3> QED BY <2>4 DEF Iterates
  <2> HIDE DEF h
  <2> QED BY <2>3, <2>5
<1>3. N = 0 .. n
  <2> HIDE DEF N
  <2>1. N \in SUBSET (0 .. n)
    BY DEF N
  <2> QED BY <1>1, <1>2, <2>1, UpTo
<1>4. n \in N
  <2> HIDE DEF N
  <2> QED BY <1>3
<1> QED BY <1>4

\* F starts with base, and while it stays within S it goes on with step.
GoesOn(F, n, S, base, step) ==
    /\ n \in Nat /\ base \in S /\ \A i \in 1 .. n, x \in S : step[<<i, x>>] \in S
    /\ F[{}] = base
    /\ \A s \in SUBSET (1 .. n) : s # {} /\ F[s \ {Max(s)}] \in S =>
          F[s] = step[<<Max(s), F[s \ {Max(s)}]>>]

\* r is what there is after each item.
Follows(r, n, base, step) == r[0] = base /\ \A i \in 1 .. n : r[i] = step[<<i, r[i - 1]>>]

\* What such a recursion has after each of the n items.
LEMMA LoopOf ==
    ASSUME NEW n, NEW S, NEW base, NEW step, NEW F, GoesOn(F, n, S, base, step)
    PROVE  \E r \in [0 .. n -> S] : Follows(r, n, base, step) /\ r[n] = F[1 .. n]
<1> n \in Nat /\ base \in S
  BY DEF GoesOn
<1> DEFINE r == [i \in 0 .. n |-> F[1 .. i]]
           N == {i \in 0 .. n : r[i] \in S}
<1>1. r[0] = base
  <2>1. 1 .. 0 = {}
    OBVIOUS
  <2> QED BY <2>1 DEF GoesOn
<1>2. ASSUME NEW i \in 1 .. n, r[i - 1] \in S PROVE r[i] = step[<<i, r[i - 1]>>] /\ r[i] \in S
  <2>1. (1 .. i) \in SUBSET (1 .. n) /\ 1 .. i # {} /\ i \in 0 .. n /\ i - 1 \in 0 .. n
    OBVIOUS
  <2>2. Max(1 .. i) = i /\ (1 .. i) \ {i} = 1 .. (i - 1)
    BY MaxInterval
  <2>3. r[i] = F[1 .. i] /\ r[i - 1] = F[1 .. (i - 1)]
    BY <2>1
  <2> HIDE DEF r
  <2>4. r[i] = step[<<i, r[i - 1]>>]
    BY <1>2, <2>1, <2>2, <2>3 DEF GoesOn
  <2> QED BY <1>2, <2>4 DEF GoesOn
<1>3. r[n] = F[1 .. n]
  OBVIOUS
<1>4. N = 0 .. n
  <2> HIDE DEF r
  <2>1. N \in SUBSET (0 .. n) /\ 0 \in N
    BY <1>1
  <2>2. ASSUME NEW i \in 1 .. n, i - 1 \in N PROVE i \in N
    <3>1. r[i - 1] \in S
      BY <2>2
    <3>2. r[i] \in S
      BY <1>2, <3>1
    <3> QED BY <3>2
  <2> HIDE DEF N
  <2> QED BY <2>1, <2>2, UpTo
<1>5. r \in [0 .. n -> S]
  BY <1>4
<1>6. ASSUME NEW i \in 1 .. n PROVE r[i] = step[<<i, r[i - 1]>>]
  <2>1. i - 1 \in N
    <3> HIDE DEF N
    <3> QED BY <1>4
  <2> HIDE DEF r
  <2> QED BY <1>2, <2>1
<1> HIDE DEF r, N
<1> QED BY <1>1, <1>3, <1>5, <1>6 DEF Follows

\* What Keep has after each item.
Keeps(r, seq, X) ==
    /\ r[0] = <<>> /\ Keep(seq, X) = r[Len(seq)]
    /\ \A i \in 1 .. Len(seq) : r[i] = IF seq[i] \in X THEN Append(r[i - 1], seq[i]) ELSE r[i - 1]

LEMMA KeepLoop ==
    ASSUME NEW T, NEW seq \in Seq(T), NEW X
    PROVE  \E r \in [0 .. Len(seq) -> Seq(T)] : Keeps(r, seq, X)
<1> DEFINE n == Len(seq)
           S == Seq(T)
           Go(f, i) == IF seq[i] \in X THEN Append(f, seq[i]) ELSE f
           F == CHOOSE f : f = [s \in SUBSET DOMAIN seq |->
                                  IF s = {} THEN <<>> ELSE Go(f[s \ {Max(s)}], Max(s))]
           step == [p \in (1 .. n) \X S |-> Go(p[2], p[1])]
<1>1. n \in Nat /\ DOMAIN seq = 1 .. n /\ \A i \in 1 .. n : seq[i] \in T
  BY LenProperties, ElementOfSeq
<1>2. Keep(seq, X) = F[DOMAIN seq]
  BY DEF Keep, FoldLeft, MapThenFoldSet
<1>3. <<>> \in S
  BY EmptySeq
<1>4. \A i \in 1 .. n, x \in S : Go(x, i) \in S
  BY <1>1
<1>5. \A i \in 1 .. n, x \in S : step[<<i, x>>] = Go(x, i)
  OBVIOUS
<1>6. step \in [(1 .. n) \X S -> S]
  <2> HIDE DEF Go, S
  <2> QED BY <1>4
<1> HIDE DEF n, F, step, Go, S
<1>7. \E f : f = [s \in SUBSET DOMAIN seq |-> IF s = {} THEN <<>> ELSE Go(f[s \ {Max(s)}], Max(s))]
  <2>1. PICK f \in [SUBSET (1 .. n) -> S] : Iterates(f, n, <<>>, step)
    BY <1>1, <1>3, <1>6, IterExists
  <2>2. ASSUME NEW s \in SUBSET (1 .. n), s # {}
        PROVE  f[s] = Go(f[s \ {Max(s)}], Max(s))
    <3>1. Max(s) \in 1 .. n /\ f[s \ {Max(s)}] \in S
      BY <1>1, <2>2, MaxSpec
    <3> QED BY <1>5, <2>1, <2>2, <3>1 DEF Iterates
  <2>3. f[{}] = <<>>
    BY <2>1 DEF Iterates
  <2>4. f = [s \in SUBSET DOMAIN seq |-> IF s = {} THEN <<>> ELSE Go(f[s \ {Max(s)}], Max(s))]
    BY <1>1, <2>2, <2>3
  <2> QED BY <2>4
<1>8. F = [s \in SUBSET DOMAIN seq |-> IF s = {} THEN <<>> ELSE Go(F[s \ {Max(s)}], Max(s))]
  BY <1>7 DEF F
<1>9. F[{}] = <<>>
  BY <1>1, <1>8
<1>10. \A s \in SUBSET (1 .. n) : s # {} /\ F[s \ {Max(s)}] \in S =>
          F[s] = step[<<Max(s), F[s \ {Max(s)}]>>]
  <2> SUFFICES ASSUME NEW s \in SUBSET (1 .. n), s # {}, F[s \ {Max(s)}] \in S
               PROVE  F[s] = step[<<Max(s), F[s \ {Max(s)}]>>]
    OBVIOUS
  <2>1. Max(s) \in 1 .. n
    BY <1>1, MaxSpec
  <2> QED BY <1>1, <1>5, <1>8, <2>1
<1>11. GoesOn(F, n, S, <<>>, step)
  BY <1>1, <1>3, <1>6, <1>9, <1>10 DEF GoesOn
<1>12. PICK r \in [0 .. n -> S] : Follows(r, n, <<>>, step) /\ r[n] = F[1 .. n]
  BY <1>11, LoopOf
<1>13. \A i \in 1 .. n : r[i] = Go(r[i - 1], i)
  <2>1. \A i \in 1 .. n : r[i - 1] \in S
    BY <1>1
  <2> QED BY <1>5, <1>12, <2>1 DEF Follows
<1>14. r[0] = <<>>
  BY <1>12 DEF Follows
<1> QED BY <1>1, <1>2, <1>12, <1>13, <1>14 DEF n, Go, S, Keeps

\* The first of the places of s in I, as SelectInSeq finds it.
LEMMA FirstPlace ==
    ASSUME NEW n \in Nat, NEW I \in SUBSET (1 .. n), I # {}
    PROVE  Min(I) \in I /\ Min(I) # 0
<1>1. I \in SUBSET Nat
  OBVIOUS
<1>2. Min(I) \in I
  BY <1>1, MinSpec
<1> QED BY <1>2

\* A ballot goes to the end, or takes the place of one of the same publisher.
Puts(ballots, m, new) ==
    \/ /\ \A i \in 1 .. Len(ballots) : ballots[i].publisher # m.publisher
       /\ new = Append(ballots, m)
    \/ \E i \in 1 .. Len(ballots) :
          /\ ballots[i].publisher = m.publisher
          /\ new = [ballots EXCEPT ![i] = m]

LEMMA PutSpec ==
    ASSUME NEW T, NEW ballots \in Seq(T), NEW m \in T
    PROVE  PutBallot(ballots, m) \in Seq(T) /\ Puts(ballots, m, PutBallot(ballots, m))
<1> DEFINE I == {i \in 1 .. Len(ballots) : ballots[i].publisher = m.publisher}
<1>1. Len(ballots) \in Nat
  BY LenProperties
<1>2. CASE I = {}
  <2>1. PutBallot(ballots, m) = Append(ballots, m)
    BY <1>2 DEF PutBallot, SelectInSeq
  <2> QED BY <1>2, <2>1 DEF Puts
<1>3. CASE I # {}
  <2>1. Min(I) \in I /\ Min(I) # 0
    <3> HIDE DEF I
    <3>1. I \in SUBSET (1 .. Len(ballots))
      BY DEF I
    <3> QED BY <1>1, <1>3, <3>1, FirstPlace
  <2>2. PutBallot(ballots, m) = IF (IF I # {} THEN Min(I) ELSE 0) = 0 THEN Append(ballots, m)
                                ELSE [ballots EXCEPT ![IF I # {} THEN Min(I) ELSE 0] = m]
    BY DEF PutBallot, SelectInSeq
  <2>3. PutBallot(ballots, m) = [ballots EXCEPT ![Min(I)] = m]
    <3> HIDE DEF I
    <3> QED BY <1>3, <2>1, <2>2
  <2>4. Min(I) \in 1 .. Len(ballots) /\ ballots[Min(I)].publisher = m.publisher
    BY <2>1
  <2> HIDE DEF I
  <2>5. [ballots EXCEPT ![Min(I)] = m] \in Seq(T)
    BY <2>4, ExceptSeq
  <2> QED BY <2>3, <2>4, <2>5 DEF Puts
<1> QED BY <1>2, <1>3

\* What _latest_per_publisher has after each row.
LEMMA PutLoop ==
    ASSUME NEW T, NEW seq \in Seq(T)
    PROVE  \E r \in [0 .. Len(seq) -> Seq(T)] :
              /\ r[0] = <<>> /\ _latest_per_publisher(seq) = r[Len(seq)]
              /\ \A i \in 1 .. Len(seq) : r[i] = PutBallot(r[i - 1], seq[i])
<1> DEFINE n == Len(seq)
           S == Seq(T)
           Go(f, i) == PutBallot(f, seq[i])
           F == CHOOSE f : f = [s \in SUBSET DOMAIN seq |->
                                  IF s = {} THEN <<>> ELSE Go(f[s \ {Max(s)}], Max(s))]
           step == [p \in (1 .. n) \X S |-> Go(p[2], p[1])]
<1>1. n \in Nat /\ DOMAIN seq = 1 .. n /\ \A i \in 1 .. n : seq[i] \in T
  BY LenProperties, ElementOfSeq
<1>2. _latest_per_publisher(seq) = F[DOMAIN seq]
  BY DEF _latest_per_publisher, FoldLeft, MapThenFoldSet
<1>3. <<>> \in S
  BY EmptySeq
<1>4. \A i \in 1 .. n, x \in S : Go(x, i) \in S
  BY <1>1, PutSpec
<1>5. \A i \in 1 .. n, x \in S : step[<<i, x>>] = Go(x, i)
  OBVIOUS
<1>6. step \in [(1 .. n) \X S -> S]
  <2> HIDE DEF Go, S
  <2> QED BY <1>4
<1> HIDE DEF n, F, step, Go, S
<1>7. \E f : f = [s \in SUBSET DOMAIN seq |-> IF s = {} THEN <<>> ELSE Go(f[s \ {Max(s)}], Max(s))]
  <2>1. PICK f \in [SUBSET (1 .. n) -> S] : Iterates(f, n, <<>>, step)
    BY <1>1, <1>3, <1>6, IterExists
  <2>2. ASSUME NEW s \in SUBSET (1 .. n), s # {}
        PROVE  f[s] = Go(f[s \ {Max(s)}], Max(s))
    <3>1. Max(s) \in 1 .. n /\ f[s \ {Max(s)}] \in S
      BY <1>1, <2>2, MaxSpec
    <3> QED BY <1>5, <2>1, <2>2, <3>1 DEF Iterates
  <2>3. f[{}] = <<>>
    BY <2>1 DEF Iterates
  <2>4. f = [s \in SUBSET DOMAIN seq |-> IF s = {} THEN <<>> ELSE Go(f[s \ {Max(s)}], Max(s))]
    BY <1>1, <2>2, <2>3
  <2> QED BY <2>4
<1>8. F = [s \in SUBSET DOMAIN seq |-> IF s = {} THEN <<>> ELSE Go(F[s \ {Max(s)}], Max(s))]
  BY <1>7 DEF F
<1>9. F[{}] = <<>>
  BY <1>1, <1>8
<1>10. \A s \in SUBSET (1 .. n) : s # {} /\ F[s \ {Max(s)}] \in S =>
          F[s] = step[<<Max(s), F[s \ {Max(s)}]>>]
  <2> SUFFICES ASSUME NEW s \in SUBSET (1 .. n), s # {}, F[s \ {Max(s)}] \in S
               PROVE  F[s] = step[<<Max(s), F[s \ {Max(s)}]>>]
    OBVIOUS
  <2>1. Max(s) \in 1 .. n
    BY <1>1, MaxSpec
  <2> QED BY <1>1, <1>5, <1>8, <2>1
<1>11. GoesOn(F, n, S, <<>>, step)
  BY <1>1, <1>3, <1>6, <1>9, <1>10 DEF GoesOn
<1>12. PICK r \in [0 .. n -> S] : Follows(r, n, <<>>, step) /\ r[n] = F[1 .. n]
  BY <1>11, LoopOf
<1>13. \A i \in 1 .. n : r[i] = Go(r[i - 1], i)
  <2>1. \A i \in 1 .. n : r[i - 1] \in S
    BY <1>1
  <2> QED BY <1>5, <1>12, <2>1 DEF Follows
<1>14. r[0] = <<>>
  BY <1>12 DEF Follows
<1> QED BY <1>1, <1>2, <1>12, <1>13, <1>14 DEF n, Go, S

\* What is counted, and the votes for it.
ItemsOf(K, W) == [key : K, shown : W]
VotesOf(K, W) == [key : K, shown : W, votes : Nat]

\* A vote makes a key, or is added to the votes for it.
Adds(votes, item, new) ==
    \/ /\ \A i \in 1 .. Len(votes) : votes[i].key # item.key
       /\ new = Append(votes, [key |-> item.key, shown |-> item.shown, votes |-> 1])
    \/ \E i \in 1 .. Len(votes) :
          /\ votes[i].key = item.key
          /\ new = [votes EXCEPT ![i] = [votes[i] EXCEPT !.votes = @ + 1]]

LEMMA AddSpec ==
    ASSUME NEW K, NEW W, NEW votes \in Seq(VotesOf(K, W)), NEW item \in ItemsOf(K, W)
    PROVE  AddVote(votes, item) \in Seq(VotesOf(K, W)) /\ Adds(votes, item, AddVote(votes, item))
<1> DEFINE I == {i \in 1 .. Len(votes) : votes[i].key = item.key}
<1>1. Len(votes) \in Nat
  BY LenProperties
<1>2. CASE I = {}
  <2>1. AddVote(votes, item) = Append(votes, [key |-> item.key, shown |-> item.shown, votes |-> 1])
    BY <1>2 DEF AddVote, SelectInSeq
  <2>2. [key |-> item.key, shown |-> item.shown, votes |-> 1] \in VotesOf(K, W)
    BY DEF ItemsOf, VotesOf
  <2> QED BY <1>2, <2>1, <2>2 DEF Adds
<1>3. CASE I # {}
  <2>1. Min(I) \in I /\ Min(I) # 0
    <3> HIDE DEF I
    <3>1. I \in SUBSET (1 .. Len(votes))
      BY DEF I
    <3> QED BY <1>1, <1>3, <3>1, FirstPlace
  <2>2. AddVote(votes, item) =
           IF (IF I # {} THEN Min(I) ELSE 0) = 0
           THEN Append(votes, [key |-> item.key, shown |-> item.shown, votes |-> 1])
           ELSE [votes EXCEPT ![IF I # {} THEN Min(I) ELSE 0].votes = @ + 1]
    BY DEF AddVote, SelectInSeq
  <2>3. AddVote(votes, item) = [votes EXCEPT ![Min(I)].votes = @ + 1]
    <3> HIDE DEF I
    <3> QED BY <1>3, <2>1, <2>2
  <2>4. Min(I) \in 1 .. Len(votes) /\ votes[Min(I)].key = item.key
    BY <2>1
  <2> HIDE DEF I
  <2>5. votes[Min(I)] \in VotesOf(K, W)
    BY <2>4, ElementOfSeq
  <2>6. [votes[Min(I)] EXCEPT !.votes = @ + 1] \in VotesOf(K, W)
    BY <2>5, SMTT(40) DEF VotesOf
  <2>7. AddVote(votes, item) = [votes EXCEPT ![Min(I)] = [votes[Min(I)] EXCEPT !.votes = @ + 1]]
    BY <2>3, <2>4
  <2>8. [votes EXCEPT ![Min(I)] = [votes[Min(I)] EXCEPT !.votes = @ + 1]] \in Seq(VotesOf(K, W))
    BY <2>4, <2>6, ExceptSeq
  <2> QED BY <2>4, <2>7, <2>8 DEF Adds
<1> QED BY <1>2, <1>3

\* What _count has after each vote.
LEMMA AddLoop ==
    ASSUME NEW K, NEW W, NEW seq \in Seq(ItemsOf(K, W))
    PROVE  \E r \in [0 .. Len(seq) -> Seq(VotesOf(K, W))] :
              /\ r[0] = <<>> /\ _count(seq) = r[Len(seq)]
              /\ \A i \in 1 .. Len(seq) : r[i] = AddVote(r[i - 1], seq[i])
<1> DEFINE n == Len(seq)
           S == Seq(VotesOf(K, W))
           Go(f, i) == AddVote(f, seq[i])
           F == CHOOSE f : f = [s \in SUBSET DOMAIN seq |->
                                  IF s = {} THEN <<>> ELSE Go(f[s \ {Max(s)}], Max(s))]
           step == [p \in (1 .. n) \X S |-> Go(p[2], p[1])]
<1>1. n \in Nat /\ DOMAIN seq = 1 .. n /\ \A i \in 1 .. n : seq[i] \in ItemsOf(K, W)
  BY LenProperties, ElementOfSeq
<1>2. _count(seq) = F[DOMAIN seq]
  BY DEF _count, FoldLeft, MapThenFoldSet
<1>3. <<>> \in S
  BY EmptySeq
<1>4. \A i \in 1 .. n, x \in S : Go(x, i) \in S
  BY <1>1, AddSpec
<1>5. \A i \in 1 .. n, x \in S : step[<<i, x>>] = Go(x, i)
  OBVIOUS
<1>6. step \in [(1 .. n) \X S -> S]
  <2> HIDE DEF Go, S
  <2> QED BY <1>4
<1> HIDE DEF n, F, step, Go, S
<1>7. \E f : f = [s \in SUBSET DOMAIN seq |-> IF s = {} THEN <<>> ELSE Go(f[s \ {Max(s)}], Max(s))]
  <2>1. PICK f \in [SUBSET (1 .. n) -> S] : Iterates(f, n, <<>>, step)
    BY <1>1, <1>3, <1>6, IterExists
  <2>2. ASSUME NEW s \in SUBSET (1 .. n), s # {}
        PROVE  f[s] = Go(f[s \ {Max(s)}], Max(s))
    <3>1. Max(s) \in 1 .. n /\ f[s \ {Max(s)}] \in S
      BY <1>1, <2>2, MaxSpec
    <3> QED BY <1>5, <2>1, <2>2, <3>1 DEF Iterates
  <2>3. f[{}] = <<>>
    BY <2>1 DEF Iterates
  <2>4. f = [s \in SUBSET DOMAIN seq |-> IF s = {} THEN <<>> ELSE Go(f[s \ {Max(s)}], Max(s))]
    BY <1>1, <2>2, <2>3
  <2> QED BY <2>4
<1>8. F = [s \in SUBSET DOMAIN seq |-> IF s = {} THEN <<>> ELSE Go(F[s \ {Max(s)}], Max(s))]
  BY <1>7 DEF F
<1>9. F[{}] = <<>>
  BY <1>1, <1>8
<1>10. \A s \in SUBSET (1 .. n) : s # {} /\ F[s \ {Max(s)}] \in S =>
          F[s] = step[<<Max(s), F[s \ {Max(s)}]>>]
  <2> SUFFICES ASSUME NEW s \in SUBSET (1 .. n), s # {}, F[s \ {Max(s)}] \in S
               PROVE  F[s] = step[<<Max(s), F[s \ {Max(s)}]>>]
    OBVIOUS
  <2>1. Max(s) \in 1 .. n
    BY <1>1, MaxSpec
  <2> QED BY <1>1, <1>5, <1>8, <2>1
<1>11. GoesOn(F, n, S, <<>>, step)
  BY <1>1, <1>3, <1>6, <1>9, <1>10 DEF GoesOn
<1>12. PICK r \in [0 .. n -> S] : Follows(r, n, <<>>, step) /\ r[n] = F[1 .. n]
  BY <1>11, LoopOf
<1>13. \A i \in 1 .. n : r[i] = Go(r[i - 1], i)
  <2>1. \A i \in 1 .. n : r[i - 1] \in S
    BY <1>1
  <2> QED BY <1>5, <1>12, <2>1 DEF Follows
<1>14. r[0] = <<>>
  BY <1>12 DEF Follows
<1> QED BY <1>1, <1>2, <1>12, <1>13, <1>14 DEF n, Go, S

-----------------------------------------------------------------------------
(***************************************************************************)
(* What the loops compute.                                                 *)
(***************************************************************************)
\* t has the items of s at the places in I, in their order; f says from where.
Picks(f, s, t, I) ==
    /\ f \in [1 .. Len(t) -> I]
    /\ \A x \in I : \E k \in 1 .. Len(t) : f[k] = x
    /\ \A j, k \in 1 .. Len(t) : j < k => f[j] < f[k]
    /\ \A k \in 1 .. Len(t) : t[k] = s[f[k]]

\* One more item is picked.
LEMMA PickOne ==
    ASSUME NEW T, NEW s \in Seq(T), NEW t \in Seq(T), NEW i \in 1 .. Len(s),
           NEW I \in SUBSET (1 .. (i - 1)), NEW f, Picks(f, s, t, I)
    PROVE  \E g : Picks(g, s, Append(t, s[i]), I \cup {i})
<1> DEFINE n == Len(t)
           u == Append(t, s[i])
           g == [k \in 1 .. n + 1 |-> IF k = n + 1 THEN i ELSE f[k]]
<1>1. n \in Nat /\ s[i] \in T /\ Len(s) \in Nat
  BY LenProperties, ElementOfSeq
<1>2. /\ Len(u) = n + 1 /\ u[n + 1] = s[i]
      /\ \A k \in 1 .. n : u[k] = t[k]
  BY <1>1
<1>3. /\ \A k \in 1 .. n : f[k] \in I /\ t[k] = s[f[k]]
      /\ \A x \in I : \E k \in 1 .. n : f[k] = x
      /\ \A j, k \in 1 .. n : j < k => f[j] < f[k]
  BY DEF Picks
<1> HIDE DEF u, n
<1>4. g \in [1 .. n + 1 -> I \cup {i}]
  BY <1>1, <1>3
<1>5. ASSUME NEW x \in I \cup {i} PROVE \E k \in 1 .. n + 1 : g[k] = x
  <2>1. CASE x = i
    <3>1. n + 1 \in 1 .. n + 1 /\ g[n + 1] = i
      BY <1>1
    <3> QED BY <2>1, <3>1
  <2>2. CASE x \in I
    <3>1. PICK k \in 1 .. n : f[k] = x
      BY <1>3, <2>2
    <3>2. k \in 1 .. n + 1 /\ k # n + 1
      BY <1>1
    <3> QED BY <3>1, <3>2
  <2> QED BY <1>5, <2>1, <2>2
<1>6. ASSUME NEW j \in 1 .. n + 1, NEW k \in 1 .. n + 1, j < k PROVE g[j] < g[k]
  <2>1. j \in 1 .. n /\ g[j] = f[j] /\ f[j] \in 1 .. (i - 1)
    <3>1. j \in 1 .. n /\ j # n + 1
      BY <1>1, <1>6
    <3>2. f[j] \in I
      BY <1>3, <3>1
    <3> QED BY <3>1, <3>2
  <2>2. CASE k = n + 1
    BY <1>1, <2>1, <2>2
  <2>3. CASE k # n + 1
    BY <1>1, <1>3, <1>6, <2>1, <2>3
  <2> QED BY <2>2, <2>3
<1>7. ASSUME NEW k \in 1 .. n + 1 PROVE u[k] = s[g[k]]
  BY <1>1, <1>2, <1>3
<1> HIDE DEF g
<1>8. Picks(g, s, u, I \cup {i})
  BY <1>2, <1>4, <1>5, <1>6, <1>7 DEF Picks
<1> QED BY <1>8 DEF u

\* Keep picks the items in X.
LEMMA KeepSpec ==
    ASSUME NEW T, NEW seq \in Seq(T), NEW X
    PROVE  /\ Keep(seq, X) \in Seq(T)
           /\ \E f : Picks(f, seq, Keep(seq, X), {i \in 1 .. Len(seq) : seq[i] \in X})
<1> DEFINE I(i) == {j \in 1 .. i : seq[j] \in X}
<1>0. PICK r \in [0 .. Len(seq) -> Seq(T)] : Keeps(r, seq, X)
  BY KeepLoop
<1>1. /\ r[0] = <<>> /\ Keep(seq, X) = r[Len(seq)]
      /\ \A i \in 1 .. Len(seq) : r[i] = IF seq[i] \in X THEN Append(r[i - 1], seq[i]) ELSE r[i - 1]
  BY <1>0 DEF Keeps
<1> DEFINE N == {i \in 0 .. Len(seq) : \E f : Picks(f, seq, r[i], I(i))}
<1>2. Len(seq) \in Nat
  BY LenProperties
<1>3. 0 \in N
  <2>1. I(0) = {} /\ 1 .. 0 = {} /\ Len(r[0]) = 0
    BY <1>1, EmptySeq
  <2>2. Picks([k \in {} |-> 0], seq, r[0], {})
    BY <2>1 DEF Picks
  <2> QED BY <1>2, <2>1, <2>2
<1>4. ASSUME NEW i \in 1 .. Len(seq), i - 1 \in N PROVE i \in N
  <2>1. PICK f : Picks(f, seq, r[i - 1], I(i - 1))
    BY <1>4
  <2>2. r[i - 1] \in Seq(T) /\ i \in 0 .. Len(seq)
    BY <1>1, <1>2
  <2>3. CASE seq[i] \in X
    <3>0. r[i] = Append(r[i - 1], seq[i])
      BY <1>1, <2>3
    <3>1. I(i) = I(i - 1) \cup {i} /\ I(i - 1) \in SUBSET (1 .. (i - 1))
      BY <2>3
    <3> HIDE DEF I
    <3>2. \E g : Picks(g, seq, Append(r[i - 1], seq[i]), I(i - 1) \cup {i})
      BY <2>1, <2>2, <3>1, PickOne
    <3> QED BY <2>2, <3>0, <3>1, <3>2
  <2>4. CASE seq[i] \notin X
    <3>1. r[i] = r[i - 1]
      BY <1>1, <2>4
    <3>2. I(i) = I(i - 1)
      BY <2>4
    <3> HIDE DEF I
    <3> QED BY <2>1, <2>2, <3>1, <3>2
  <2> QED BY <2>3, <2>4
<1>5. N = 0 .. Len(seq)
  <2>1. N \in SUBSET (0 .. Len(seq))
    OBVIOUS
  <2> HIDE DEF N
  <2> QED BY <1>2, <1>3, <1>4, <2>1, UpTo
<1>6. Len(seq) \in N
  <2> HIDE DEF N
  <2> QED BY <1>2, <1>5
<1>7. r[Len(seq)] \in Seq(T)
  BY <1>2
<1> QED BY <1>1, <1>6, <1>7

\* The last row of each publisher among the first i.
LastOf(seq, i) ==
    {seq[j] : j \in {j \in 1 .. i : \A k \in 1 .. i : k > j => seq[k].publisher # seq[j].publisher}}

\* No two of the ballots are of one publisher.
OneEach(ballots) ==
    \A j, k \in 1 .. Len(ballots) : ballots[j].publisher = ballots[k].publisher => j = k

\* One more row: the others' last rows, and it.
LEMMA LastStep ==
    ASSUME NEW seq, NEW i \in Nat \ {0}
    PROVE  LastOf(seq, i) = {x \in LastOf(seq, i - 1) : x.publisher # seq[i].publisher} \cup {seq[i]}
<1>1. ASSUME NEW x \in LastOf(seq, i)
      PROVE  x \in {y \in LastOf(seq, i - 1) : y.publisher # seq[i].publisher} \cup {seq[i]}
  <2>1. PICK j \in 1 .. i : x = seq[j] /\ \A k \in 1 .. i : k > j => seq[k].publisher # seq[j].publisher
    BY DEF LastOf
  <2>2. CASE j = i
    BY <2>1, <2>2
  <2>3. CASE j # i
    <3>1. j \in 1 .. (i - 1) /\ i > j /\ i \in 1 .. i /\ \A k \in 1 .. (i - 1) : k \in 1 .. i
      BY <2>3
    <3>2. seq[j] \in LastOf(seq, i - 1)
      BY <2>1, <3>1 DEF LastOf
    <3>3. seq[i].publisher # seq[j].publisher
      BY <2>1, <3>1
    <3> QED BY <2>1, <3>2, <3>3
  <2> QED BY <2>2, <2>3
<1>2. ASSUME NEW x \in LastOf(seq, i - 1), x.publisher # seq[i].publisher
      PROVE  x \in LastOf(seq, i)
  <2>1. PICK j \in 1 .. (i - 1) :
           x = seq[j] /\ \A k \in 1 .. (i - 1) : k > j => seq[k].publisher # seq[j].publisher
    BY DEF LastOf
  <2>2. j \in 1 .. i /\ \A k \in 1 .. i : k = i \/ k \in 1 .. (i - 1)
    OBVIOUS
  <2>3. \A k \in 1 .. i : k > j => seq[k].publisher # seq[j].publisher
    BY <1>2, <2>1, <2>2
  <2> QED BY <2>1, <2>2, <2>3 DEF LastOf
<1>3. seq[i] \in LastOf(seq, i)
  <2>1. i \in 1 .. i /\ \A k \in 1 .. i : ~(k > i)
    OBVIOUS
  <2> QED BY <2>1 DEF LastOf
<1> QED BY <1>1, <1>2, <1>3

\* One more ballot: it is there, with the others'.
LEMMA PutStep ==
    ASSUME NEW T, NEW ballots \in Seq(T), NEW m \in T, OneEach(ballots)
    PROVE  /\ OneEach(PutBallot(ballots, m))
           /\ ToSet(PutBallot(ballots, m)) = {x \in ToSet(ballots) : x.publisher # m.publisher} \cup {m}
<1> DEFINE n == Len(ballots)
           u == PutBallot(ballots, m)
<1>1. n \in Nat /\ ToSet(ballots) = {ballots[i] : i \in 1 .. n}
  BY LenProperties DEF ToSet
<1>2. u \in Seq(T)
  BY PutSpec
<1>3. ToSet(u) = {u[i] : i \in 1 .. Len(u)}
  BY <1>2, LenProperties DEF ToSet
<1>4. CASE (\A i \in 1 .. n : ballots[i].publisher # m.publisher) /\ u = Append(ballots, m)
  <2>1. Len(u) = n + 1 /\ u[n + 1] = m /\ \A i \in 1 .. n : u[i] = ballots[i]
    BY <1>1, <1>4
  <2> HIDE DEF u, n
  <2>2. \A i \in 1 .. n + 1 : i = n + 1 \/ i \in 1 .. n
    BY <1>1
  <2>3. OneEach(u)
    BY <1>4, <2>1, <2>2 DEF OneEach, n
  <2>4. ToSet(u) = {x \in ToSet(ballots) : x.publisher # m.publisher} \cup {m}
    <3>1. n + 1 \in 1 .. n + 1 /\ \A i \in 1 .. n : i \in 1 .. n + 1
      BY <1>1
    <3> QED BY <1>1, <1>3, <1>4, <2>1, <2>2, <3>1
  <2> QED BY <2>3, <2>4 DEF u
<1>5. CASE \E i \in 1 .. n : ballots[i].publisher = m.publisher /\ u = [ballots EXCEPT ![i] = m]
  <2>1. PICK p \in 1 .. n : ballots[p].publisher = m.publisher /\ u = [ballots EXCEPT ![p] = m]
    BY <1>5
  <2>2. Len(u) = n /\ \A j \in 1 .. n : u[j] = IF j = p THEN m ELSE ballots[j]
    <3> HIDE DEF u
    <3> QED BY <2>1, ExceptSeq
  <2> HIDE DEF u
  <2>3. \A j \in 1 .. n : j # p => ballots[j].publisher # m.publisher
    BY <2>1 DEF OneEach
  <2>4. OneEach(u)
    <3> HIDE DEF n
    <3> QED BY <2>2, <2>3 DEF OneEach, n
  <2>5. ToSet(u) = {x \in ToSet(ballots) : x.publisher # m.publisher} \cup {m}
    <3> HIDE DEF n
    <3>1. \A x \in ToSet(u) : x \in {y \in ToSet(ballots) : y.publisher # m.publisher} \cup {m}
      BY <1>1, <1>3, <2>2, <2>3
    <3>2. m \in ToSet(u)
      BY <1>3, <2>1, <2>2
    <3>3. ASSUME NEW x \in ToSet(ballots), x.publisher # m.publisher PROVE x \in ToSet(u)
      <4>1. PICK j \in 1 .. n : x = ballots[j]
        BY <1>1, <3>3
      <4>2. j # p
        BY <2>1, <3>3, <4>1
      <4> QED BY <1>3, <2>2, <4>1, <4>2
    <3> QED BY <3>1, <3>2, <3>3
  <2> QED BY <2>4, <2>5 DEF u
<1>6. \/ (\A i \in 1 .. n : ballots[i].publisher # m.publisher) /\ u = Append(ballots, m)
      \/ \E i \in 1 .. n : ballots[i].publisher = m.publisher /\ u = [ballots EXCEPT ![i] = m]
  <2>1. Puts(ballots, m, u)
    BY PutSpec
  <2> QED BY <2>1 DEF Puts
<1> QED BY <1>4, <1>5, <1>6

\* One ballot for each publisher, its last row.
LEMMA LatestSpec ==
    ASSUME NEW T, NEW seq \in Seq(T)
    PROVE  /\ _latest_per_publisher(seq) \in Seq(T)
           /\ OneEach(_latest_per_publisher(seq))
           /\ ToSet(_latest_per_publisher(seq)) = LastOf(seq, Len(seq))
<1>1. PICK r \in [0 .. Len(seq) -> Seq(T)] :
              /\ r[0] = <<>> /\ _latest_per_publisher(seq) = r[Len(seq)]
              /\ \A i \in 1 .. Len(seq) : r[i] = PutBallot(r[i - 1], seq[i])
  BY PutLoop
<1> DEFINE N == {i \in 0 .. Len(seq) : OneEach(r[i]) /\ ToSet(r[i]) = LastOf(seq, i)}
<1>2. Len(seq) \in Nat /\ \A i \in 1 .. Len(seq) : seq[i] \in T
  BY LenProperties, ElementOfSeq
<1>3. 0 \in N
  <2>1. Len(r[0]) = 0 /\ DOMAIN r[0] = {} /\ 1 .. 0 = {}
    BY <1>1, EmptySeq
  <2>2. OneEach(r[0]) /\ ToSet(r[0]) = LastOf(seq, 0)
    BY <2>1 DEF OneEach, ToSet, LastOf
  <2> QED BY <1>2, <2>2
<1>4. ASSUME NEW i \in 1 .. Len(seq), i - 1 \in N PROVE i \in N
  <2>1. r[i - 1] \in Seq(T) /\ i \in 0 .. Len(seq) /\ i \in Nat \ {0} /\ seq[i] \in T
    BY <1>1, <1>2, SMTT(40)
  <2>2. OneEach(r[i - 1]) /\ ToSet(r[i - 1]) = LastOf(seq, i - 1)
    BY <1>4
  <2>3. /\ OneEach(r[i])
        /\ ToSet(r[i]) = {x \in ToSet(r[i - 1]) : x.publisher # seq[i].publisher} \cup {seq[i]}
    BY <1>1, <2>1, <2>2, PutStep
  <2>4. ToSet(r[i]) = LastOf(seq, i)
    BY <2>1, <2>2, <2>3, LastStep
  <2> QED BY <2>1, <2>3, <2>4
<1>5. N = 0 .. Len(seq)
  <2>1. N \in SUBSET (0 .. Len(seq))
    OBVIOUS
  <2> HIDE DEF N
  <2> QED BY <1>2, <1>3, <1>4, <2>1, UpTo
<1>6. Len(seq) \in N
  <2> HIDE DEF N
  <2> QED BY <1>2, <1>5
<1>7. r[Len(seq)] \in Seq(T)
  BY <1>2
<1> QED BY <1>1, <1>6, <1>7

-----------------------------------------------------------------------------
(***************************************************************************)
(* _count.                                                                 *)
(***************************************************************************)
\* The places among the first i of the items with key k.
Places(seq, i, k) == {j \in 1 .. i : seq[j].key = k}

LEMMA PlacesFinite ==
    ASSUME NEW seq, NEW i \in Nat, NEW k
    PROVE  IsFiniteSet(Places(seq, i, k)) /\ Cardinality(Places(seq, i, k)) \in Nat
<1>1. IsFiniteSet(1 .. i)
  BY FS_Interval
<1>2. Places(seq, i, k) \in SUBSET (1 .. i)
  BY DEF Places
<1>3. IsFiniteSet(Places(seq, i, k))
  BY <1>1, <1>2, FS_Subset
<1> QED BY <1>3, FS_CardinalityType

LEMMA PlacesStep ==
    ASSUME NEW seq, NEW i \in Nat \ {0}, NEW k
    PROVE  Cardinality(Places(seq, i, k)) =
              IF seq[i].key = k THEN Cardinality(Places(seq, i - 1, k)) + 1
              ELSE Cardinality(Places(seq, i - 1, k))
<1>1. IsFiniteSet(Places(seq, i - 1, k))
  BY PlacesFinite
<1>2. i \notin Places(seq, i - 1, k)
  BY DEF Places
<1>3. CASE seq[i].key = k
  <2>1. Places(seq, i, k) = Places(seq, i - 1, k) \cup {i}
    BY <1>3 DEF Places
  <2>2. Cardinality(Places(seq, i, k)) = Cardinality(Places(seq, i - 1, k)) + 1
    BY <1>1, <1>2, <2>1, FS_AddElement
  <2> QED BY <1>3, <2>2
<1>4. CASE seq[i].key # k
  <2>1. Places(seq, i, k) = Places(seq, i - 1, k)
    BY <1>4 DEF Places
  <2> QED BY <1>4, <2>1
<1> QED BY <1>3, <1>4

\* No two of the votes are for one key.
Separate(votes) == \A a, b \in 1 .. Len(votes) : votes[a].key = votes[b].key => a = b

\* The votes count the first i items.
Counted(votes, seq, i) ==
    /\ Separate(votes)
    /\ \A a \in 1 .. Len(votes) : votes[a].votes = Cardinality(Places(seq, i, votes[a].key))
    /\ \A j \in 1 .. i : \E a \in 1 .. Len(votes) : votes[a].key = seq[j].key
    /\ \A a \in 1 .. Len(votes) :
          \E j \in 1 .. i : votes[a].key = seq[j].key /\ votes[a].shown = seq[j].shown

\* One more item is counted.
LEMMA AddStep ==
    ASSUME NEW K, NEW W, NEW votes \in Seq(VotesOf(K, W)), NEW seq, NEW i \in Nat \ {0},
           seq[i] \in ItemsOf(K, W), Counted(votes, seq, i - 1)
    PROVE  Counted(AddVote(votes, seq[i]), seq, i)
<1> DEFINE n == Len(votes)
           m == seq[i]
           u == AddVote(votes, m)
<1>1. n \in Nat /\ \A a \in 1 .. n : votes[a] \in VotesOf(K, W)
  BY LenProperties, ElementOfSeq
<1>2. /\ \A a, b \in 1 .. n : votes[a].key = votes[b].key => a = b
      /\ \A a \in 1 .. n : votes[a].votes = Cardinality(Places(seq, i - 1, votes[a].key))
      /\ \A j \in 1 .. (i - 1) : \E a \in 1 .. n : votes[a].key = seq[j].key
      /\ \A a \in 1 .. n : \E j \in 1 .. (i - 1) : votes[a].key = seq[j].key /\ votes[a].shown = seq[j].shown
  BY DEF Counted, Separate
<1>3. \A k : Cardinality(Places(seq, i, k)) =
                IF m.key = k THEN Cardinality(Places(seq, i - 1, k)) + 1
                ELSE Cardinality(Places(seq, i - 1, k))
  BY PlacesStep
<1>4. i \in 1 .. i /\ \A j \in 1 .. i : j = i \/ j \in 1 .. (i - 1)
  OBVIOUS
<1>5. \A j \in 1 .. (i - 1) : j \in 1 .. i
  OBVIOUS
<1>6. CASE (\A a \in 1 .. n : votes[a].key # m.key) /\ u = Append(votes, [key |-> m.key, shown |-> m.shown, votes |-> 1])
  <2> DEFINE v == [key |-> m.key, shown |-> m.shown, votes |-> 1]
  <2>1. Len(u) = n + 1 /\ u[n + 1] = v /\ \A a \in 1 .. n : u[a] = votes[a]
    BY <1>1, <1>6
  <2>2. v.key = m.key /\ v.shown = m.shown /\ v.votes = 1
    OBVIOUS
  <2>3. n + 1 \in 1 .. n + 1 /\ \A a \in 1 .. n + 1 : a = n + 1 \/ a \in 1 .. n
    BY <1>1
  <2>4. \A a \in 1 .. n : a \in 1 .. n + 1
    BY <1>1
  <2>5. Cardinality(Places(seq, i - 1, m.key)) = 0
    <3>1. Places(seq, i - 1, m.key) = {}
      BY <1>2, <1>6 DEF Places
    <3> QED BY <3>1, FS_EmptySet
  <2> HIDE DEF u, n, v, m
  <2>6. Separate(u)
    BY <1>2, <1>6, <2>1, <2>2, <2>3 DEF Separate
  <2>7. ASSUME NEW a \in 1 .. n + 1 PROVE u[a].votes = Cardinality(Places(seq, i, u[a].key))
    <3>1. CASE a = n + 1
      BY <1>3, <2>1, <2>2, <2>5, <3>1
    <3>2. CASE a \in 1 .. n
      BY <1>2, <1>3, <1>6, <2>1, <3>2
    <3> QED BY <2>3, <3>1, <3>2
  <2>8. ASSUME NEW j \in 1 .. i PROVE \E a \in 1 .. n + 1 : u[a].key = seq[j].key
    <3>1. CASE j = i
      <4>1. u[n + 1].key = seq[j].key
        BY <2>1, <2>2, <3>1 DEF m
      <4> QED BY <2>3, <4>1
    <3>2. CASE j \in 1 .. (i - 1)
      BY <1>2, <2>1, <2>4, <3>2, SMTT(40)
    <3> QED BY <1>4, <3>1, <3>2
  <2>9. ASSUME NEW a \in 1 .. n + 1
        PROVE  \E j \in 1 .. i : u[a].key = seq[j].key /\ u[a].shown = seq[j].shown
    <3>1. CASE a = n + 1
      <4>1. u[a].key = seq[i].key /\ u[a].shown = seq[i].shown
        BY <2>1, <2>2, <3>1 DEF m
      <4> QED BY <1>4, <4>1
    <3>2. CASE a \in 1 .. n
      <4>1. PICK j \in 1 .. (i - 1) : votes[a].key = seq[j].key /\ votes[a].shown = seq[j].shown
        BY <1>2, <3>2
      <4>2. j \in 1 .. i
        BY <1>5
      <4> QED BY <2>1, <3>2, <4>1, <4>2
    <3> QED BY <2>3, <3>1, <3>2
  <2>10. Counted(u, seq, i)
    BY <2>1, <2>6, <2>7, <2>8, <2>9 DEF Counted
  <2> QED BY <2>10 DEF u, m
<1>7. CASE \E p \in 1 .. n : votes[p].key = m.key /\ u = [votes EXCEPT ![p] = [votes[p] EXCEPT !.votes = @ + 1]]
  <2>1. PICK p \in 1 .. n : votes[p].key = m.key /\ u = [votes EXCEPT ![p] = [votes[p] EXCEPT !.votes = @ + 1]]
    BY <1>7
  <2> DEFINE v == [votes[p] EXCEPT !.votes = @ + 1]
  <2>2. v \in VotesOf(K, W) /\ v.key = votes[p].key /\ v.shown = votes[p].shown /\ v.votes = votes[p].votes + 1
    BY <1>1 DEF VotesOf
  <2> HIDE DEF v
  <2>3. u = [votes EXCEPT ![p] = v]
    BY <2>1 DEF v
  <2> HIDE DEF u, m
  <2>4. Len(u) = n /\ \A a \in 1 .. n : u[a] = IF a = p THEN v ELSE votes[a]
    BY <2>2, <2>3, ExceptSeq
  <2>5. \A a \in 1 .. n : u[a].key = votes[a].key /\ u[a].shown = votes[a].shown
    BY <2>2, <2>4
  <2> HIDE DEF n
  <2>6. Separate(u)
    BY <1>2, <2>4, <2>5 DEF Separate
  <2>7. ASSUME NEW a \in 1 .. n PROVE u[a].votes = Cardinality(Places(seq, i, u[a].key))
    <3>1. CASE a = p
      BY <1>2, <1>3, <2>1, <2>2, <2>4, <3>1
    <3>2. CASE a # p
      <4>1. votes[a].key # m.key
        BY <1>2, <2>1, <3>2
      <4> QED BY <1>2, <1>3, <2>4, <3>2, <4>1
    <3> QED BY <3>1, <3>2
  <2>8. ASSUME NEW j \in 1 .. i PROVE \E a \in 1 .. n : u[a].key = seq[j].key
    <3>1. CASE j = i
      <4>1. u[p].key = seq[j].key
        BY <2>1, <2>5, <3>1 DEF m
      <4> QED BY <4>1
    <3>2. CASE j \in 1 .. (i - 1)
      BY <1>2, <2>5, <3>2
    <3> QED BY <1>4, <3>1, <3>2
  <2>9. ASSUME NEW a \in 1 .. n
        PROVE  \E j \in 1 .. i : u[a].key = seq[j].key /\ u[a].shown = seq[j].shown
    <3>1. PICK j \in 1 .. (i - 1) : votes[a].key = seq[j].key /\ votes[a].shown = seq[j].shown
      BY <1>2
    <3>2. j \in 1 .. i
      BY <1>5
    <3> QED BY <2>5, <3>1, <3>2
  <2>10. Counted(u, seq, i)
    BY <2>4, <2>6, <2>7, <2>8, <2>9 DEF Counted
  <2> QED BY <2>10 DEF u, m
<1>8. \/ (\A a \in 1 .. n : votes[a].key # m.key) /\ u = Append(votes, [key |-> m.key, shown |-> m.shown, votes |-> 1])
      \/ \E p \in 1 .. n : votes[p].key = m.key /\ u = [votes EXCEPT ![p] = [votes[p] EXCEPT !.votes = @ + 1]]
  <2>1. Adds(votes, m, u)
    BY AddSpec
  <2> QED BY <2>1 DEF Adds
<1> QED BY <1>6, <1>7, <1>8

\* _count gives each key once, with the number of its items and one of the ways
\* it is spelt.
LEMMA CountSpec ==
    ASSUME NEW K, NEW W, NEW seq \in Seq(ItemsOf(K, W))
    PROVE  _count(seq) \in Seq(VotesOf(K, W)) /\ Counted(_count(seq), seq, Len(seq))
<1>1. PICK r \in [0 .. Len(seq) -> Seq(VotesOf(K, W))] :
              /\ r[0] = <<>> /\ _count(seq) = r[Len(seq)]
              /\ \A i \in 1 .. Len(seq) : r[i] = AddVote(r[i - 1], seq[i])
  BY AddLoop
<1> DEFINE N == {i \in 0 .. Len(seq) : Counted(r[i], seq, i)}
<1>2. Len(seq) \in Nat /\ \A i \in 1 .. Len(seq) : seq[i] \in ItemsOf(K, W)
  BY LenProperties, ElementOfSeq
<1>3. 0 \in N
  <2>1. Len(r[0]) = 0 /\ 1 .. 0 = {}
    BY <1>1, EmptySeq
  <2>2. Counted(r[0], seq, 0)
    BY <2>1 DEF Counted, Separate
  <2> QED BY <1>2, <2>2
<1>4. ASSUME NEW i \in 1 .. Len(seq), i - 1 \in N PROVE i \in N
  <2>1. r[i - 1] \in Seq(VotesOf(K, W)) /\ i \in 0 .. Len(seq) /\ i \in Nat \ {0} /\ seq[i] \in ItemsOf(K, W)
    BY <1>1, <1>2, SMTT(40)
  <2>2. Counted(r[i - 1], seq, i - 1)
    BY <1>4
  <2>3. Counted(r[i], seq, i)
    BY <1>1, <2>1, <2>2, AddStep
  <2> QED BY <2>1, <2>3
<1>5. N = 0 .. Len(seq)
  <2>1. N \in SUBSET (0 .. Len(seq))
    OBVIOUS
  <2> HIDE DEF N
  <2> QED BY <1>2, <1>3, <1>4, <2>1, UpTo
<1>6. Len(seq) \in N
  <2> HIDE DEF N
  <2> QED BY <1>2, <1>5
<1>7. r[Len(seq)] \in Seq(VotesOf(K, W))
  BY <1>2
<1> QED BY <1>1, <1>6, <1>7

-----------------------------------------------------------------------------
(***************************************************************************)
(* _winner.                                                                *)
(***************************************************************************)
\* One of the votes is as high as any.
LEMMA Highest ==
    ASSUME NEW K, NEW W, NEW votes \in Seq(VotesOf(K, W)), Len(votes) # 0
    PROVE  \E a \in 1 .. Len(votes) : \A b \in 1 .. Len(votes) : votes[b].votes <= votes[a].votes
<1> DEFINE n == Len(votes)
           N == {i \in 0 .. n : i # 0 => \E a \in 1 .. i : \A b \in 1 .. i : votes[b].votes <= votes[a].votes}
<1>1. n \in Nat /\ \A a \in 1 .. n : votes[a].votes \in Nat
  <2>1. n \in Nat /\ \A a \in 1 .. n : votes[a] \in VotesOf(K, W)
    BY LenProperties, ElementOfSeq
  <2> QED BY <2>1 DEF VotesOf
<1> HIDE DEF n
<1>2. 0 \in N
  BY <1>1
<1>3. ASSUME NEW i \in 1 .. n, i - 1 \in N PROVE i \in N
  <2>1. i \in 0 .. n /\ \A j \in 1 .. i : j = i \/ j \in 1 .. (i - 1)
    BY <1>1
  <2>2. CASE i = 1
    <3>1. \A b \in 1 .. i : votes[b].votes <= votes[1].votes
      BY <1>1, <2>2
    <3> QED BY <2>1, <2>2, <3>1
  <2>3. CASE i # 1
    <3>1. PICK a \in 1 .. (i - 1) : \A b \in 1 .. (i - 1) : votes[b].votes <= votes[a].votes
      BY <1>3, <2>3
    <3>2. a \in 1 .. i /\ a \in 1 .. n /\ i \in 1 .. i /\ votes[a].votes \in Nat /\ votes[i].votes \in Nat
      BY <1>1
    <3>3. \A b \in 1 .. (i - 1) : votes[b].votes \in Nat
      BY <1>1
    <3>4. CASE votes[i].votes <= votes[a].votes
      BY <2>1, <3>1, <3>2, <3>4
    <3>5. CASE ~(votes[i].votes <= votes[a].votes)
      <4>1. \A b \in 1 .. i : votes[b].votes <= votes[i].votes
        BY <2>1, <3>1, <3>2, <3>3, <3>5
      <4> QED BY <2>1, <3>2, <4>1
    <3> QED BY <3>4, <3>5
  <2> QED BY <2>2, <2>3
<1>4. N = 0 .. n
  <2>1. N \in SUBSET (0 .. n)
    OBVIOUS
  <2> HIDE DEF N
  <2> QED BY <1>1, <1>2, <1>3, <2>1, UpTo
<1>5. n \in N
  <2> HIDE DEF N
  <2> QED BY <1>1, <1>4
<1> QED BY <1>5 DEF n

\* The winner is one of the votes, as high as any.
LEMMA WinnerSpec ==
    ASSUME NEW K, NEW W, NEW votes \in Seq(VotesOf(K, W)), Len(votes) # 0
    PROVE  \E a \in 1 .. Len(votes) :
              _winner(votes) = votes[a] /\ \A b \in 1 .. Len(votes) : votes[b].votes <= votes[a].votes
<1>1. Len(votes) \in Nat /\ DOMAIN votes = 1 .. Len(votes)
  BY LenProperties
<1>2. \A b \in 1 .. Len(votes) : votes[b].votes \in Nat
  <2>1. \A b \in 1 .. Len(votes) : votes[b] \in VotesOf(K, W)
    BY ElementOfSeq
  <2> QED BY <2>1 DEF VotesOf
<1>3. votes # <<>>
  BY EmptySeq
<1>4. PICK c \in 1 .. Len(votes) : \A b \in 1 .. Len(votes) : votes[b].votes <= votes[c].votes
  BY Highest
<1> DEFINE V == {votes[i].votes : i \in DOMAIN votes}
           I == {i \in 1 .. Len(votes) : votes[i].votes = Most(votes)}
<1>5. Most(votes) \in V /\ \A i \in DOMAIN votes : votes[i].votes <= Most(votes)
  <2>1. votes[c].votes \in V /\ \A i \in DOMAIN votes : votes[i].votes <= votes[c].votes
    BY <1>1, <1>4
  <2>2. Most(votes) = CHOOSE k \in V : \A i \in DOMAIN votes : votes[i].votes <= k
    BY DEF Most
  <2> HIDE DEF V
  <2> QED BY <2>1, <2>2
<1>6. I # {} /\ I \in SUBSET (1 .. Len(votes))
  BY <1>1, <1>5
<1>7. _winner(votes) = votes[IF I # {} THEN Min(I) ELSE 0]
  BY <1>3 DEF _winner, SelectInSeq
<1>8. Min(I) \in I
  <2> HIDE DEF I
  <2> QED BY <1>1, <1>6, FirstPlace
<1>9. _winner(votes) = votes[Min(I)]
  <2> HIDE DEF I
  <2> QED BY <1>6, <1>7
<1>10. Min(I) \in 1 .. Len(votes) /\ votes[Min(I)].votes = Most(votes)
  BY <1>8
<1> HIDE DEF I
<1> QED BY <1>1, <1>5, <1>9, <1>10

-----------------------------------------------------------------------------
(***************************************************************************)
(* Sorted.                                                                 *)
(***************************************************************************)
\* Keywords with their votes, each keyword once.
OneVoteEach(S) ==
    /\ S \subseteq VotesOf(Nat, Nat)
    /\ \A v, w \in S : v.key = w.key => v = w

\* Those that come before v.
Ahead(S, v) == {w \in S : Before(w, v)}

LEMMA AheadLess ==
    ASSUME NEW S, IsFiniteSet(S), OneVoteEach(S), NEW v \in S, NEW w \in S
    PROVE  /\ Cardinality(Ahead(S, v)) \in 0 .. Cardinality(S) - 1
           /\ Before(v, w) => Cardinality(Ahead(S, v)) < Cardinality(Ahead(S, w))
           /\ v # w => Before(v, w) \/ Before(w, v)
           /\ Cardinality(S) \in Nat
<1>1. \A x \in S : x.key \in Nat /\ x.votes \in Nat
  BY DEF OneVoteEach, VotesOf
<1>2. \A x \in S : Ahead(S, x) \in SUBSET S /\ x \notin Ahead(S, x)
  BY <1>1 DEF Ahead, Before
<1>3. \A x \in S : IsFiniteSet(Ahead(S, x)) /\ Cardinality(Ahead(S, x)) \in Nat
  BY <1>2, FS_Subset, FS_CardinalityType
<1>4. Cardinality(Ahead(S, v)) \in 0 .. Cardinality(S) - 1
  <2>1. IsFiniteSet(S \ {v}) /\ Cardinality(S \ {v}) = Cardinality(S) - 1
    BY FS_RemoveElement
  <2>2. Ahead(S, v) \in SUBSET (S \ {v})
    BY <1>2
  <2>3. Cardinality(Ahead(S, v)) <= Cardinality(S \ {v})
    BY <2>1, <2>2, FS_Subset
  <2>4. Cardinality(S) \in Nat
    BY FS_CardinalityType
  <2> QED BY <1>3, <2>1, <2>3, <2>4
<1>5. ASSUME Before(v, w) PROVE Cardinality(Ahead(S, v)) < Cardinality(Ahead(S, w))
  <2>1. \A x \in S : Before(x, v) => Before(x, w)
    BY <1>1, <1>5 DEF Before
  <2>2. Ahead(S, v) \in SUBSET Ahead(S, w) /\ v \in Ahead(S, w) /\ v \notin Ahead(S, v)
    BY <1>2, <1>5, <2>1 DEF Ahead
  <2>3. /\ Cardinality(Ahead(S, v)) <= Cardinality(Ahead(S, w))
        /\ Cardinality(Ahead(S, v)) # Cardinality(Ahead(S, w))
    BY <1>3, <2>2, FS_Subset
  <2> QED BY <1>3, <2>3
<1>6. ASSUME v # w PROVE Before(v, w) \/ Before(w, v)
  <2>1. v.key # w.key
    BY <1>6 DEF OneVoteEach
  <2> QED BY <1>1, <2>1 DEF Before
<1> QED BY <1>4, <1>5, <1>6, FS_CardinalityType

\* Sorted has each vote once, in order.
LEMMA SortedSpec ==
    ASSUME NEW S, IsFiniteSet(S), OneVoteEach(S)
    PROVE  /\ Cardinality(S) \in Nat
           /\ Sorted(S) \in [1 .. Cardinality(S) -> S]
           /\ \A v \in S : \E i \in 1 .. Cardinality(S) : Sorted(S)[i] = v
           /\ \A i, j \in 1 .. Cardinality(S) : i < j => Before(Sorted(S)[i], Sorted(S)[j])
<1> DEFINE n == Cardinality(S)
           f == [v \in S |-> Cardinality(Ahead(S, v)) + 1]
<1>1. n \in Nat
  BY FS_CardinalityType
<1>2. ASSUME NEW v \in S PROVE f[v] \in 1 .. n
  <2>1. Cardinality(Ahead(S, v)) \in 0 .. n - 1
    BY AheadLess
  <2> QED BY <1>1, <2>1
<1>3. ASSUME NEW v \in S, NEW w \in S, v # w PROVE f[v] # f[w]
  <2>1. Before(v, w) \/ Before(w, v)
    BY <1>3, AheadLess
  <2>2. /\ Before(v, w) => Cardinality(Ahead(S, v)) < Cardinality(Ahead(S, w))
        /\ Before(w, v) => Cardinality(Ahead(S, w)) < Cardinality(Ahead(S, v))
    BY AheadLess
  <2>3. Cardinality(Ahead(S, v)) \in 0 .. n - 1 /\ Cardinality(Ahead(S, w)) \in 0 .. n - 1
    BY AheadLess
  <2> QED BY <1>1, <2>1, <2>2, <2>3
<1>4. f \in Injection(S, 1 .. n)
  <2>1. f \in [S -> 1 .. n]
    BY <1>2
  <2>2. \A a, b \in S : f[a] = f[b] => a = b
    BY <1>3
  <2> HIDE DEF f
  <2> QED BY <2>1, <2>2 DEF Injection, IsInjective
<1>5. IsFiniteSet(1 .. n) /\ Cardinality(1 .. n) = n
  <2> HIDE DEF n
  <2>1. IsFiniteSet(1 .. n) /\ Cardinality(1 .. n) = IF 1 > n THEN 0 ELSE n - 1 + 1
    BY <1>1, FS_Interval
  <2> QED BY <1>1, <2>1
<1>6. f \in Surjection(S, 1 .. n)
  <2> HIDE DEF f
  <2> QED BY <1>4, <1>5, FS_Injection
<1>7. ASSUME NEW i \in 1 .. n PROVE \E v \in S : Cardinality(Ahead(S, v)) = i - 1
  <2>1. PICK v \in S : f[v] = i
    <3> HIDE DEF f
    <3> QED BY <1>6 DEF Surjection
  <2>2. Cardinality(Ahead(S, v)) \in 0 .. n - 1
    BY AheadLess
  <2> QED BY <1>1, <2>1, <2>2
<1>8. Sorted(S) = [i \in 1 .. n |-> CHOOSE v \in S : Cardinality(Ahead(S, v)) = i - 1]
  BY DEF Sorted, Ahead
<1>9. ASSUME NEW i \in 1 .. n PROVE Sorted(S)[i] \in S /\ Cardinality(Ahead(S, Sorted(S)[i])) = i - 1
  <2>1. Sorted(S)[i] = CHOOSE v \in S : Cardinality(Ahead(S, v)) = i - 1
    BY <1>8
  <2> QED BY <1>7, <2>1
<1>10. Sorted(S) \in [1 .. n -> S]
  BY <1>8, <1>9
<1>11. ASSUME NEW v \in S PROVE \E i \in 1 .. n : Sorted(S)[i] = v
  <2>1. f[v] \in 1 .. n /\ f[v] - 1 = Cardinality(Ahead(S, v))
    <3>1. Cardinality(Ahead(S, v)) \in 0 .. n - 1
      BY AheadLess
    <3> QED BY <1>1, <1>2, <3>1
  <2>2. Sorted(S)[f[v]] \in S /\ Cardinality(Ahead(S, Sorted(S)[f[v]])) = Cardinality(Ahead(S, v))
    <3> HIDE DEF f
    <3> QED BY <1>9, <2>1
  <2>3. Sorted(S)[f[v]] = v
    <3>1. f[Sorted(S)[f[v]]] = f[v]
      BY <2>2
    <3> HIDE DEF f
    <3> QED BY <1>3, <2>2, <3>1
  <2> HIDE DEF f
  <2> QED BY <2>1, <2>3
<1>12. ASSUME NEW i \in 1 .. n, NEW j \in 1 .. n, i < j PROVE Before(Sorted(S)[i], Sorted(S)[j])
  <2> DEFINE v == Sorted(S)[i]
             w == Sorted(S)[j]
  <2>1. v \in S /\ w \in S /\ Cardinality(Ahead(S, v)) = i - 1 /\ Cardinality(Ahead(S, w)) = j - 1
    BY <1>9
  <2> HIDE DEF v, w
  <2>2. Cardinality(Ahead(S, v)) < Cardinality(Ahead(S, w)) /\ v # w
    BY <1>1, <1>12, <2>1
  <2>3. ~Before(w, v)
    <3>1. Before(w, v) => Cardinality(Ahead(S, w)) < Cardinality(Ahead(S, v))
      BY <2>1, AheadLess
    <3> QED BY <1>1, <1>12, <2>1, <3>1
  <2>4. Before(v, w) \/ Before(w, v)
    BY <2>1, <2>2, AheadLess
  <2> QED BY <2>3, <2>4 DEF v, w
<1> HIDE DEF f
<1> QED BY <1>1, <1>10, <1>11, <1>12

\* The keywords shown have the most votes, in order, and each is shown once.
LEMMA ShownSpec ==
    ASSUME NEW S, IsFiniteSet(S), OneVoteEach(S), NEW shown, shown = Shown(Sorted(S))
    PROVE  /\ Len(shown) \in Nat /\ Len(shown) <= Kept /\ DOMAIN shown = 1 .. Len(shown)
           /\ IsInjective(shown)
           /\ \A i \in 1 .. Len(shown) : \E v \in S : v.key = shown[i]
           /\ \A v, w \in S, i, j \in 1 .. Len(shown) :
                 i < j /\ v.key = shown[i] /\ w.key = shown[j] => v.votes >= w.votes
           /\ \A v \in S : v.key \notin ToSet(shown) =>
                 /\ Len(shown) = Kept
                 /\ \A w \in S : w.key = shown[Kept] => v.votes <= w.votes
<1> DEFINE s == Sorted(S)
           n == Cardinality(S)
           k == IF n < Kept THEN n ELSE Kept
<1>1. /\ n \in Nat /\ s \in [1 .. n -> S]
      /\ \A v \in S : \E i \in 1 .. n : s[i] = v
      /\ \A i, j \in 1 .. n : i < j => Before(s[i], s[j])
  BY SortedSpec
<1> HIDE DEF s, n
<1>2. Kept \in Nat \ {0}
  BY LabelsAssumption
<1>3. \A v \in S : v.key \in Nat /\ v.votes \in Nat
  BY DEF OneVoteEach, VotesOf
<1>4. s \in Seq(S) /\ Len(s) = n
  BY <1>1, SeqDef, LenProperties
<1>5. shown = [i \in 1 .. k |-> s[i].key]
  BY <1>4 DEF Shown, s
<1>6. k \in Nat /\ k <= n /\ k <= Kept /\ (k # Kept => k = n)
  BY <1>1, <1>2
<1> HIDE DEF k
<1>7. shown \in Seq(Nat) /\ Len(shown) = k /\ DOMAIN shown = 1 .. k
  <2>1. shown \in [1 .. k -> Nat]
    <3>1. \A i \in 1 .. k : s[i] \in S
      BY <1>1, <1>6
    <3> QED BY <1>3, <1>5, <3>1
  <2>2. shown \in Seq(Nat)
    BY <1>6, <2>1, SeqDef
  <2> QED BY <1>6, <2>1, <2>2, LenProperties
<1>8. \A i \in 1 .. k : i \in 1 .. n /\ s[i] \in S /\ shown[i] = s[i].key
  BY <1>1, <1>5, <1>6
<1>9. \A i \in 1 .. k, v \in S : v.key = shown[i] => v = s[i]
  BY <1>8 DEF OneVoteEach
<1>10. IsInjective(shown)
  <2>1. ASSUME NEW i \in 1 .. k, NEW j \in 1 .. k, shown[i] = shown[j] PROVE i = j
    <3>1. s[i] = s[j] /\ s[i] \in S
      BY <1>8, <1>9, <2>1
    <3>2. ~(i < j) /\ ~(j < i)
      BY <1>1, <1>3, <1>8, <3>1 DEF Before
    <3> QED BY <1>6, <3>2
  <2> QED BY <1>7, <2>1 DEF IsInjective
<1>11. ASSUME NEW v \in S, NEW w \in S, NEW i \in 1 .. k, NEW j \in 1 .. k,
              i < j, v.key = shown[i], w.key = shown[j]
       PROVE  v.votes >= w.votes
  <2>1. v = s[i] /\ w = s[j] /\ Before(s[i], s[j])
    BY <1>1, <1>8, <1>9, <1>11
  <2> QED BY <1>3, <2>1 DEF Before
<1>12. ASSUME NEW v \in S, v.key \notin ToSet(shown)
       PROVE  k = Kept /\ \A w \in S : w.key = shown[Kept] => v.votes <= w.votes
  <2>1. PICK i \in 1 .. n : s[i] = v
    BY <1>1
  <2>2. i \notin 1 .. k
    BY <1>5, <1>7, <1>12, <2>1 DEF ToSet
  <2>3. k = Kept /\ k \in 1 .. k /\ k \in 1 .. n /\ k < i
    BY <1>2, <1>6, <2>2
  <2>4. Before(s[k], s[i])
    BY <1>1, <2>3
  <2>5. \A w \in S : w.key = shown[k] => w = s[k]
    BY <1>9, <2>3
  <2> QED BY <1>3, <2>1, <2>3, <2>4, <2>5 DEF Before
<1>13. \A i \in 1 .. k : \E v \in S : v.key = shown[i]
  BY <1>8
<1> QED BY <1>6, <1>7, <1>10, <1>11, <1>12, <1>13

-----------------------------------------------------------------------------
(***************************************************************************)
(* The keywords of the voters.                                             *)
(***************************************************************************)
\* SetToSeq has each item once.
LEMMA EachOnce ==
    ASSUME NEW S, IsFiniteSet(S)
    PROVE  /\ SetToSeq(S) \in Seq(S)
           /\ \A x \in S : \E i \in 1 .. Len(SetToSeq(S)) : SetToSeq(S)[i] = x
           /\ \A i, j \in 1 .. Len(SetToSeq(S)) : SetToSeq(S)[i] = SetToSeq(S)[j] => i = j
<1> DEFINE n == Cardinality(S)
           g == SetToSeq(S)
<1>1. n \in Nat /\ \E f \in [1 .. n -> S] : IsInjective(f)
  <2>1. n \in Nat /\ ExistsBijection(1 .. n, S)
    BY FS_CardinalityType
  <2> QED BY <2>1 DEF ExistsBijection, Bijection, Injection
<1>2. g \in [1 .. n -> S] /\ IsInjective(g)
  BY <1>1 DEF SetToSeq
<1> HIDE DEF g, n
<1>3. g \in Injection(1 .. n, S)
  BY <1>2 DEF Injection
<1>4. IsFiniteSet(1 .. n) /\ Cardinality(1 .. n) = n
  <2>1. IsFiniteSet(1 .. n) /\ Cardinality(1 .. n) = IF 1 > n THEN 0 ELSE n - 1 + 1
    BY <1>1, FS_Interval
  <2> QED BY <1>1, <2>1
<1>5. g \in Surjection(1 .. n, S)
  BY <1>3, <1>4, FS_Injection DEF n
<1>6. g \in Seq(S) /\ Len(g) = n
  <2>1. g \in Seq(S)
    BY <1>1, <1>2, SeqDef
  <2> QED BY <1>1, <1>2, <2>1, LenProperties
<1>7. \A i, j \in 1 .. n : g[i] = g[j] => i = j
  BY <1>2 DEF IsInjective
<1>8. \A x \in S : \E i \in 1 .. n : g[i] = x
  BY <1>5 DEF Surjection
<1> QED BY <1>6, <1>7, <1>8 DEF g

\* The keywords of a message go to the end.
LEMMA AddKeywordsSpec ==
    ASSUME NEW items \in Seq(ItemsOf(Nat, Nat)), NEW m \in Classifies
    PROVE  /\ AddKeywords(items, m) \in Seq(ItemsOf(Nat, Nat))
           /\ \E e \in Seq({[key |-> k, shown |-> k] : k \in m.keywords}) :
                 /\ AddKeywords(items, m) = items \o e
                 /\ \A k \in m.keywords : \E i \in 1 .. Len(e) : e[i].key = k
                 /\ \A i, j \in 1 .. Len(e) : e[i].key = e[j].key => i = j
<1> DEFINE S == {[key |-> k, shown |-> k] : k \in m.keywords}
           f == [k \in m.keywords |-> [key |-> k, shown |-> k]]
           e == SetToSeq(S)
<1>1. m.keywords \subseteq Nat /\ IsFiniteSet(m.keywords)
  BY LabelsAssumption
<1>2. f \in Surjection(m.keywords, S)
  <2>1. f \in [m.keywords -> S] /\ \A x \in S : \E k \in m.keywords : f[k] = x
    OBVIOUS
  <2> HIDE DEF f, S
  <2> QED BY <2>1 DEF Surjection
<1>3. IsFiniteSet(S)
  <2> HIDE DEF f, S
  <2> QED BY <1>1, <1>2, FS_Surjection
<1>4. /\ e \in Seq(S)
      /\ \A x \in S : \E i \in 1 .. Len(e) : e[i] = x
      /\ \A i, j \in 1 .. Len(e) : e[i] = e[j] => i = j
  <2> HIDE DEF S
  <2> QED BY <1>3, EachOnce
<1>5. AddKeywords(items, m) = items \o e
  BY DEF AddKeywords
<1> HIDE DEF e
<1>6. \A i \in 1 .. Len(e) : e[i] \in S
  <2> HIDE DEF S
  <2> QED BY <1>4, ElementOfSeq
<1>7. \A x \in S : x = [key |-> x.key, shown |-> x.key] /\ x.key \in m.keywords
  OBVIOUS
<1>8. ASSUME NEW i \in 1 .. Len(e), NEW j \in 1 .. Len(e), e[i].key = e[j].key PROVE i = j
  <2>1. e[i] \in S /\ e[j] \in S
    BY <1>6
  <2>2. e[i] = e[j]
    <3> HIDE DEF S
    <3> QED BY <1>7, <1>8, <2>1
  <2> HIDE DEF S
  <2> QED BY <1>4, <2>2
<1>9. ASSUME NEW k \in m.keywords PROVE \E i \in 1 .. Len(e) : e[i].key = k
  <2>1. [key |-> k, shown |-> k] \in S
    OBVIOUS
  <2>2. PICK i \in 1 .. Len(e) : e[i] = [key |-> k, shown |-> k]
    <3> HIDE DEF S
    <3> QED BY <1>4, <2>1
  <2> QED BY <2>2
<1>10. items \o e \in Seq(ItemsOf(Nat, Nat))
  <2>1. S \subseteq ItemsOf(Nat, Nat)
    BY <1>1 DEF ItemsOf
  <2> HIDE DEF S
  <2>2. e \in Seq(ItemsOf(Nat, Nat))
    BY <1>4, <2>1, SeqMonotonic
  <2> QED BY <2>2, ConcatProperties
<1> QED BY <1>4, <1>5, <1>8, <1>9, <1>10

\* What KeywordItems has after each voter.
LEMMA KeywordsLoop ==
    ASSUME NEW seq \in Seq(Classifies)
    PROVE  \E r \in [0 .. Len(seq) -> Seq(ItemsOf(Nat, Nat))] :
              /\ r[0] = <<>> /\ KeywordItems(seq) = r[Len(seq)]
              /\ \A i \in 1 .. Len(seq) : r[i] = AddKeywords(r[i - 1], seq[i])
<1> DEFINE n == Len(seq)
           S == Seq(ItemsOf(Nat, Nat))
           Go(f, i) == AddKeywords(f, seq[i])
           F == CHOOSE f : f = [s \in SUBSET DOMAIN seq |->
                                  IF s = {} THEN <<>> ELSE Go(f[s \ {Max(s)}], Max(s))]
           step == [p \in (1 .. n) \X S |-> Go(p[2], p[1])]
<1>1. n \in Nat /\ DOMAIN seq = 1 .. n /\ \A i \in 1 .. n : seq[i] \in Classifies
  BY LenProperties, ElementOfSeq
<1>2. KeywordItems(seq) = F[DOMAIN seq]
  BY DEF KeywordItems, FoldLeft, MapThenFoldSet
<1>3. <<>> \in S
  BY EmptySeq
<1>4. \A i \in 1 .. n, x \in S : Go(x, i) \in S
  BY <1>1, AddKeywordsSpec
<1>5. \A i \in 1 .. n, x \in S : step[<<i, x>>] = Go(x, i)
  OBVIOUS
<1>6. step \in [(1 .. n) \X S -> S]
  <2> HIDE DEF Go, S
  <2> QED BY <1>4
<1> HIDE DEF n, F, step, Go, S
<1>7. \E f : f = [s \in SUBSET DOMAIN seq |-> IF s = {} THEN <<>> ELSE Go(f[s \ {Max(s)}], Max(s))]
  <2>1. PICK f \in [SUBSET (1 .. n) -> S] : Iterates(f, n, <<>>, step)
    BY <1>1, <1>3, <1>6, IterExists
  <2>2. ASSUME NEW s \in SUBSET (1 .. n), s # {}
        PROVE  f[s] = Go(f[s \ {Max(s)}], Max(s))
    <3>1. Max(s) \in 1 .. n /\ f[s \ {Max(s)}] \in S
      BY <1>1, <2>2, MaxSpec
    <3> QED BY <1>5, <2>1, <2>2, <3>1 DEF Iterates
  <2>3. f[{}] = <<>>
    BY <2>1 DEF Iterates
  <2>4. f = [s \in SUBSET DOMAIN seq |-> IF s = {} THEN <<>> ELSE Go(f[s \ {Max(s)}], Max(s))]
    BY <1>1, <2>2, <2>3
  <2> QED BY <2>4
<1>8. F = [s \in SUBSET DOMAIN seq |-> IF s = {} THEN <<>> ELSE Go(F[s \ {Max(s)}], Max(s))]
  BY <1>7 DEF F
<1>9. F[{}] = <<>>
  BY <1>1, <1>8
<1>10. \A s \in SUBSET (1 .. n) : s # {} /\ F[s \ {Max(s)}] \in S =>
          F[s] = step[<<Max(s), F[s \ {Max(s)}]>>]
  <2> SUFFICES ASSUME NEW s \in SUBSET (1 .. n), s # {}, F[s \ {Max(s)}] \in S
               PROVE  F[s] = step[<<Max(s), F[s \ {Max(s)}]>>]
    OBVIOUS
  <2>1. Max(s) \in 1 .. n
    BY <1>1, MaxSpec
  <2> QED BY <1>1, <1>5, <1>8, <2>1
<1>11. GoesOn(F, n, S, <<>>, step)
  BY <1>1, <1>3, <1>6, <1>9, <1>10 DEF GoesOn
<1>12. PICK r \in [0 .. n -> S] : Follows(r, n, <<>>, step) /\ r[n] = F[1 .. n]
  BY <1>11, LoopOf
<1>13. \A i \in 1 .. n : r[i] = Go(r[i - 1], i)
  <2>1. \A i \in 1 .. n : r[i - 1] \in S
    BY <1>1
  <2> QED BY <1>5, <1>12, <2>1 DEF Follows
<1>14. r[0] = <<>>
  BY <1>12 DEF Follows
<1> QED BY <1>1, <1>2, <1>12, <1>13, <1>14 DEF n, Go, S

\* The voters among the first i that have the keyword.
Having(seq, i, k) == {j \in 1 .. i : k \in seq[j].keywords}

LEMMA HavingStep ==
    ASSUME NEW seq, NEW i \in Nat \ {0}, NEW k
    PROVE  /\ Cardinality(Having(seq, i, k)) =
                 IF k \in seq[i].keywords THEN Cardinality(Having(seq, i - 1, k)) + 1
                 ELSE Cardinality(Having(seq, i - 1, k))
           /\ Cardinality(Having(seq, i - 1, k)) \in Nat
<1>1. IsFiniteSet(1 .. (i - 1))
  BY FS_Interval
<1>2. Having(seq, i - 1, k) \in SUBSET (1 .. (i - 1)) /\ i \notin Having(seq, i - 1, k)
  BY DEF Having
<1>3. IsFiniteSet(Having(seq, i - 1, k)) /\ Cardinality(Having(seq, i - 1, k)) \in Nat
  BY <1>1, <1>2, FS_Subset, FS_CardinalityType
<1>4. CASE k \in seq[i].keywords
  <2>1. Having(seq, i, k) = Having(seq, i - 1, k) \cup {i}
    BY <1>4 DEF Having
  <2> QED BY <1>2, <1>3, <1>4, <2>1, FS_AddElement
<1>5. CASE k \notin seq[i].keywords
  <2>1. Having(seq, i, k) = Having(seq, i - 1, k)
    BY <1>5 DEF Having
  <2> QED BY <1>3, <1>5, <2>1
<1> QED BY <1>4, <1>5

\* An item for each voter that has the keyword, spelt as its key.
Lists(items, seq, i) ==
    /\ \A k \in Nat : Cardinality(Places(items, Len(items), k)) = Cardinality(Having(seq, i, k))
    /\ \A j \in 1 .. Len(items) : items[j].shown = items[j].key

\* The keywords of one more voter are listed.
LEMMA ListStep ==
    ASSUME NEW items \in Seq(ItemsOf(Nat, Nat)), NEW seq, NEW i \in Nat \ {0}, seq[i] \in Classifies,
           Lists(items, seq, i - 1)
    PROVE  Lists(AddKeywords(items, seq[i]), seq, i)
<1> DEFINE m == seq[i]
           n == Len(items)
           u == AddKeywords(items, m)
           S == {[key |-> k, shown |-> k] : k \in m.keywords}
<1>1. PICK e \in Seq(S) :
         /\ u = items \o e
         /\ \A k \in m.keywords : \E j \in 1 .. Len(e) : e[j].key = k
         /\ \A j, l \in 1 .. Len(e) : e[j].key = e[l].key => j = l
  BY AddKeywordsSpec
<1>2. n \in Nat /\ Len(e) \in Nat
  BY LenProperties
<1>3. \A j \in 1 .. Len(e) : e[j].shown = e[j].key /\ e[j].key \in m.keywords
  <2>1. \A x \in S : x.shown = x.key /\ x.key \in m.keywords
    OBVIOUS
  <2> HIDE DEF S
  <2> QED BY <2>1, ElementOfSeq
<1>4. /\ Len(u) = n + Len(e)
      /\ \A j \in 1 .. n + Len(e) : u[j] = IF j <= n THEN items[j] ELSE e[j - n]
  <2>1. S \subseteq ItemsOf(Nat, Nat)
    <3>1. m.keywords \subseteq Nat
      BY LabelsAssumption
    <3> QED BY <3>1 DEF ItemsOf
  <2> HIDE DEF S
  <2>2. e \in Seq(ItemsOf(Nat, Nat))
    BY <2>1, SeqMonotonic
  <2> HIDE DEF u
  <2> QED BY <1>1, <2>2, ConcatProperties
<1> HIDE DEF S, u, n
<1>5. \A j \in 1 .. n + Len(e) : j \in 1 .. n \/ (j > n /\ j - n \in 1 .. Len(e) /\ j = n + (j - n))
  BY <1>2
<1>6. \A j \in 1 .. Len(e) : n + j \in 1 .. n + Len(e) /\ ~(n + j <= n) /\ u[n + j] = e[j]
  <2>1. ASSUME NEW x \in 1 .. n + Len(e), NEW j \in 1 .. Len(e), x = n + j PROVE u[x] = e[j]
    <3>1. x - n = j /\ ~(x <= n)
      BY <1>2, <2>1
    <3>2. u[x] = e[x - n]
      BY <1>4, <3>1
    <3> QED BY <3>1, <3>2
  <2>2. \A j \in 1 .. Len(e) : n + j \in 1 .. n + Len(e) /\ ~(n + j <= n)
    BY <1>2
  <2> QED BY <2>1, <2>2
<1>7. \A j \in 1 .. n : j \in 1 .. n + Len(e) /\ j <= n /\ u[j] = items[j]
  <2> TAKE j \in 1 .. n
  <2>1. j \in 1 .. n + Len(e) /\ j <= n
    BY <1>2
  <2> QED BY <1>4, <2>1
<1>8. ASSUME NEW j \in 1 .. Len(u) PROVE u[j].shown = u[j].key
  <2>1. CASE j \in 1 .. n
    BY <1>7, <2>1 DEF Lists, n
  <2>2. CASE j > n /\ j - n \in 1 .. Len(e) /\ j = n + (j - n)
    BY <1>3, <1>6, <2>2
  <2> QED BY <1>4, <1>5, <2>1, <2>2
<1>9. ASSUME NEW k \in Nat
      PROVE  Cardinality(Places(u, Len(u), k)) = Cardinality(Having(seq, i, k))
  <2> DEFINE old == Places(items, n, k)
             all == Places(u, n + Len(e), k)
  <2>1. IsFiniteSet(old) /\ Cardinality(old) = Cardinality(Having(seq, i - 1, k))
    BY <1>2, PlacesFinite DEF Lists, n
  <2>2. /\ Cardinality(Having(seq, i, k)) =
              IF k \in m.keywords THEN Cardinality(Having(seq, i - 1, k)) + 1
              ELSE Cardinality(Having(seq, i - 1, k))
        /\ Cardinality(Having(seq, i - 1, k)) \in Nat
    BY HavingStep
  <2> HIDE DEF m
  <2>3. \A j \in 1 .. n : j \in all <=> j \in old
    BY <1>7 DEF Places
  <2>4. \A j \in all : j \in 1 .. n + Len(e) /\ u[j].key = k
    BY DEF Places
  <2>5. \A j \in old : j \in 1 .. n
    BY DEF Places
  <2>6. CASE k \in m.keywords
    <3>1. PICK l \in 1 .. Len(e) : e[l].key = k
      BY <1>1, <2>6
    <3>2. n + l \in all
      BY <1>6, <3>1 DEF Places
    <3>3. ASSUME NEW j \in all, j \notin old PROVE j = n + l
      <4>1. j - n \in 1 .. Len(e) /\ j = n + (j - n)
        BY <1>5, <2>3, <2>4, <3>3
      <4>2. e[j - n].key = k
        BY <1>6, <2>4, <4>1
      <4>3. j - n = l
        BY <1>1, <3>1, <4>1, <4>2
      <4> QED BY <4>1, <4>3
    <3>4. n + l \notin old
      BY <1>2, <2>5
    <3>5. all = old \cup {n + l}
      <4> HIDE DEF all, old
      <4>1. \A j \in old : j \in all
        BY <2>3, <2>5
      <4> QED BY <3>2, <3>3, <4>1
    <3> HIDE DEF all, old
    <3>6. Cardinality(all) = Cardinality(old) + 1
      BY <2>1, <3>4, <3>5, FS_AddElement
    <3> QED BY <1>4, <2>1, <2>2, <2>6, <3>6 DEF all
  <2>7. CASE k \notin m.keywords
    <3>1. ASSUME NEW j \in all PROVE j \in old
      <4>1. CASE j \in 1 .. n
        BY <2>3, <4>1
      <4>2. CASE j - n \in 1 .. Len(e) /\ j = n + (j - n)
        BY <1>3, <1>6, <2>4, <2>7, <4>2
      <4> QED BY <1>5, <2>4, <4>1, <4>2
    <3>2. all = old
      <4> HIDE DEF all, old
      <4>1. \A j \in old : j \in all
        BY <2>3, <2>5
      <4> QED BY <3>1, <4>1
    <3> HIDE DEF all, old
    <3> QED BY <1>4, <2>1, <2>2, <2>7, <3>2 DEF all
  <2> QED BY <2>6, <2>7
<1> QED BY <1>8, <1>9 DEF Lists, u

\* All keywords are listed.
LEMMA ListSpec ==
    ASSUME NEW seq \in Seq(Classifies)
    PROVE  KeywordItems(seq) \in Seq(ItemsOf(Nat, Nat)) /\ Lists(KeywordItems(seq), seq, Len(seq))
<1>1. PICK r \in [0 .. Len(seq) -> Seq(ItemsOf(Nat, Nat))] :
              /\ r[0] = <<>> /\ KeywordItems(seq) = r[Len(seq)]
              /\ \A i \in 1 .. Len(seq) : r[i] = AddKeywords(r[i - 1], seq[i])
  BY KeywordsLoop
<1> DEFINE N == {i \in 0 .. Len(seq) : Lists(r[i], seq, i)}
<1>2. Len(seq) \in Nat /\ \A i \in 1 .. Len(seq) : seq[i] \in Classifies
  BY LenProperties, ElementOfSeq
<1>3. 0 \in N
  <2>1. Len(r[0]) = 0 /\ 1 .. 0 = {}
    BY <1>1, EmptySeq
  <2>2. \A k : Places(r[0], Len(r[0]), k) = {} /\ Having(seq, 0, k) = {}
    BY <2>1 DEF Places, Having
  <2>3. Lists(r[0], seq, 0)
    BY <2>1, <2>2 DEF Lists
  <2> QED BY <1>2, <2>3
<1>4. ASSUME NEW i \in 1 .. Len(seq), i - 1 \in N PROVE i \in N
  <2>1. r[i - 1] \in Seq(ItemsOf(Nat, Nat)) /\ i \in 0 .. Len(seq) /\ i \in Nat \ {0} /\ seq[i] \in Classifies
    BY <1>1, <1>2
  <2>2. Lists(r[i - 1], seq, i - 1)
    BY <1>4
  <2>3. Lists(r[i], seq, i)
    BY <1>1, <2>1, <2>2, ListStep
  <2> QED BY <2>1, <2>3
<1>5. N = 0 .. Len(seq)
  <2>1. N \in SUBSET (0 .. Len(seq))
    OBVIOUS
  <2> HIDE DEF N
  <2> QED BY <1>2, <1>3, <1>4, <2>1, UpTo
<1>6. Len(seq) \in N
  <2> HIDE DEF N
  <2> QED BY <1>2, <1>5
<1>7. r[Len(seq)] \in Seq(ItemsOf(Nat, Nat))
  BY <1>2
<1> QED BY <1>1, <1>6, <1>7

-----------------------------------------------------------------------------
(***************************************************************************)
(* _tally.                                                                 *)
(***************************************************************************)
\* The first n items are different ones.
Distinct(s, n) == n \in Nat /\ \A j, k \in 1 .. n : s[j] = s[k] => j = k

\* As many items as there are places that they come from.
LEMMA ImageCount ==
    ASSUME NEW n, NEW s, Distinct(s, n), NEW J \in SUBSET (1 .. n), NEW A, A = {s[j] : j \in J}
    PROVE  IsFiniteSet(A) /\ Cardinality(A) = Cardinality(J) /\ Cardinality(J) \in Nat
<1> DEFINE f == [j \in J |-> s[j]]
<1> n \in Nat /\ \A j, k \in 1 .. n : s[j] = s[k] => j = k
  BY DEF Distinct
<1>1. IsFiniteSet(J) /\ Cardinality(J) \in Nat
  <2>1. IsFiniteSet(1 .. n)
    BY FS_Interval
  <2>2. IsFiniteSet(J)
    BY <2>1, FS_Subset
  <2> QED BY <2>2, FS_CardinalityType
<1>2. f \in Surjection(J, A)
  <2>1. f \in [J -> A] /\ \A x \in A : \E j \in J : f[j] = x
    OBVIOUS
  <2> HIDE DEF f
  <2> QED BY <2>1 DEF Surjection
<1>3. f \in Injection(J, A)
  <2>1. f \in [J -> A] /\ \A j, k \in J : f[j] = f[k] => j = k
    OBVIOUS
  <2> HIDE DEF f
  <2> QED BY <2>1 DEF Injection, IsInjective
<1> HIDE DEF f
<1>4. IsFiniteSet(A) /\ (Cardinality(A) = Cardinality(J) <=> f \in Injection(J, A))
  BY <1>1, <1>2, FS_Surjection
<1> QED BY <1>1, <1>3, <1>4

\* The winner has the key of an item, and no key has more items.
LEMMA Elected ==
    ASSUME NEW K, NEW W, NEW items \in Seq(ItemsOf(K, W)), Len(items) # 0,
           NEW w, w = _winner(_count(items))
    PROVE  /\ w.votes = Cardinality(Places(items, Len(items), w.key))
           /\ \E j \in 1 .. Len(items) : items[j].key = w.key
           /\ \A j \in 1 .. Len(items) :
                 Cardinality(Places(items, Len(items), items[j].key)) <= w.votes
<1> DEFINE votes == _count(items)
           n == Len(items)
<1>1. votes \in Seq(VotesOf(K, W)) /\ Counted(votes, items, n)
  BY CountSpec
<1>2. n \in Nat /\ n # 0 /\ 1 \in 1 .. n
  <2>1. Len(items) \in Nat
    BY LenProperties
  <2> QED BY <2>1
<1> HIDE DEF votes, n
<1>3. /\ \A a \in 1 .. Len(votes) : votes[a].votes = Cardinality(Places(items, n, votes[a].key))
      /\ \A j \in 1 .. n : \E a \in 1 .. Len(votes) : votes[a].key = items[j].key
      /\ \A a \in 1 .. Len(votes) : \E j \in 1 .. n : votes[a].key = items[j].key
  BY <1>1 DEF Counted
<1>4. Len(votes) # 0
  <2>1. PICK a \in 1 .. Len(votes) : votes[a].key = items[1].key
    BY <1>2, <1>3
  <2> QED BY <2>1
<1>5. PICK a \in 1 .. Len(votes) :
         w = votes[a] /\ \A b \in 1 .. Len(votes) : votes[b].votes <= votes[a].votes
  BY <1>1, <1>4, WinnerSpec DEF votes
<1>6. ASSUME NEW j \in 1 .. n PROVE Cardinality(Places(items, n, items[j].key)) <= w.votes
  <2>1. PICK b \in 1 .. Len(votes) : votes[b].key = items[j].key
    BY <1>3
  <2>2. votes[b].votes = Cardinality(Places(items, n, items[j].key))
    BY <1>3, <2>1
  <2> QED BY <1>5, <2>2
<1>7. w.votes = Cardinality(Places(items, n, w.key)) /\ \E j \in 1 .. n : items[j].key = w.key
  BY <1>3, <1>5
<1> QED BY <1>6, <1>7 DEF n

\* The ballots of voters, one each.
Voters(voters, ballots) ==
    /\ voters \in Seq(Classifies) /\ Len(voters) # 0 /\ OneEach(voters)
    /\ ballots = {voters[j] : j \in 1 .. Len(voters)}

LEMMA VotersCount ==
    ASSUME NEW voters, NEW ballots, Voters(voters, ballots)
    PROVE  /\ Len(voters) \in Nat /\ DOMAIN voters = 1 .. Len(voters)
           /\ IsFiniteSet(ballots) /\ ballots \subseteq Classifies /\ ballots # {}
           /\ Cardinality(ballots) = Len(voters)
           /\ \A J \in SUBSET (1 .. Len(voters)) : Cardinality({voters[j] : j \in J}) = Cardinality(J)
<1> DEFINE n == Len(voters)
<1>1. n \in Nat /\ DOMAIN voters = 1 .. n /\ n # 0 /\ \A j \in 1 .. n : voters[j] \in Classifies
  BY LenProperties, ElementOfSeq DEF Voters
<1>2. \A j, k \in 1 .. n : voters[j] = voters[k] => j = k
  BY DEF Voters, OneEach
<1>3. ballots = {voters[j] : j \in 1 .. n}
  BY DEF Voters
<1> HIDE DEF n
<1>10. Distinct(voters, n)
  BY <1>1, <1>2 DEF Distinct
<1>4. ASSUME NEW J \in SUBSET (1 .. n) PROVE Cardinality({voters[j] : j \in J}) = Cardinality(J)
  BY <1>10, ImageCount
<1>5. (1 .. n) \in SUBSET (1 .. n)
  OBVIOUS
<1>6. IsFiniteSet(ballots) /\ Cardinality(ballots) = Cardinality(1 .. n)
  <2>1. ASSUME NEW J \in SUBSET (1 .. n), NEW A, A = {voters[j] : j \in J}
        PROVE  IsFiniteSet(A) /\ Cardinality(A) = Cardinality(J)
    BY <1>10, <2>1, ImageCount
  <2> QED BY <1>3, <1>5, <2>1
<1>7. Cardinality(1 .. n) = n
  <2>1. Cardinality(1 .. n) = IF 1 > n THEN 0 ELSE n - 1 + 1
    BY <1>1, FS_Interval
  <2> QED BY <1>1, <2>1
<1>8. ballots # {}
  <2>1. 1 \in 1 .. n
    BY <1>1
  <2> QED BY <1>3, <2>1
<1>9. ballots \subseteq Classifies
  BY <1>1, <1>3
<1> QED BY <1>1, <1>4, <1>6, <1>7, <1>8, <1>9 DEF n

\* The field has a plurality.
FieldWins(w, ballots) ==
    /\ \E b \in ballots : b.field = w.key
    /\ w.votes = FieldVotes(ballots, w.key)
    /\ \A b \in ballots : FieldVotes(ballots, b.field) <= FieldVotes(ballots, w.key)

LEMMA FieldSpec ==
    ASSUME NEW voters, NEW ballots, Voters(voters, ballots)
    PROVE  FieldWins(_winner(_count([i \in DOMAIN voters |->
                        [key |-> voters[i].field, shown |-> voters[i].field]])), ballots)
<1> DEFINE n == Len(voters)
           items == [i \in DOMAIN voters |-> [key |-> voters[i].field, shown |-> voters[i].field]]
           w == _winner(_count(items))
           F == {voters[i].field : i \in 1 .. n}
<1>1. n \in Nat /\ DOMAIN voters = 1 .. n /\ n # 0
  BY VotersCount DEF Voters
<1>2. \A J \in SUBSET (1 .. n) : Cardinality({voters[j] : j \in J}) = Cardinality(J)
  BY VotersCount
<1>3. ballots = {voters[j] : j \in 1 .. n}
  BY DEF Voters
<1> HIDE DEF n
<1>4. \A j \in 1 .. n : items[j].key = voters[j].field
  BY <1>1
<1>5. items \in Seq(ItemsOf(F, F)) /\ Len(items) = n
  <2>1. \A i \in 1 .. n : items[i] \in ItemsOf(F, F)
    BY <1>1 DEF ItemsOf
  <2>2. items \in [1 .. n -> ItemsOf(F, F)]
    <3> HIDE DEF F
    <3>1. items = [i \in 1 .. n |-> items[i]]
      BY <1>1
    <3> HIDE DEF items
    <3> QED BY <2>1, <3>1
  <2> HIDE DEF items, F
  <2>3. items \in Seq(ItemsOf(F, F))
    BY <1>1, <2>2, SeqDef
  <2> QED BY <1>1, <2>2, <2>3, LenProperties
<1> HIDE DEF items, F, w
<1>6. /\ w.votes = Cardinality(Places(items, n, w.key))
      /\ \E j \in 1 .. n : items[j].key = w.key
      /\ \A j \in 1 .. n : Cardinality(Places(items, n, items[j].key)) <= w.votes
  BY <1>1, <1>5, Elected DEF w
<1>7. ASSUME NEW k PROVE Cardinality(Places(items, n, k)) = FieldVotes(ballots, k)
  <2>1. Places(items, n, k) \in SUBSET (1 .. n)
    BY DEF Places
  <2>2. {voters[j] : j \in Places(items, n, k)} = {b \in ballots : b.field = k}
    BY <1>3, <1>4 DEF Places
  <2> QED BY <1>2, <2>1, <2>2 DEF FieldVotes
<1>8. \E b \in ballots : b.field = w.key
  BY <1>3, <1>4, <1>6
<1>9. ASSUME NEW b \in ballots PROVE FieldVotes(ballots, b.field) <= FieldVotes(ballots, w.key)
  <2>1. PICK j \in 1 .. n : b = voters[j]
    BY <1>3
  <2>2. Cardinality(Places(items, n, b.field)) <= w.votes
    BY <1>4, <1>6, <2>1
  <2> QED BY <1>6, <1>7, <2>2
<1>10. w.votes = FieldVotes(ballots, w.key)
  BY <1>6, <1>7
<1>11. FieldWins(w, ballots)
  BY <1>8, <1>9, <1>10 DEF FieldWins
<1> QED BY <1>11 DEF w, items

\* t has the items of s at the places in I.
Picked(s, t, I) == Len(t) \in Nat /\ I \in SUBSET Nat /\ \E f : Picks(f, s, t, I)

\* As many items are picked of a kind as there are.
LEMMA PicksCount ==
    ASSUME NEW s, NEW t, NEW I, Picked(s, t, I), NEW k
    PROVE  Cardinality(Places(t, Len(t), k)) = Cardinality({i \in I : s[i].key = k})
<1> Len(t) \in Nat /\ I \in SUBSET Nat
  BY DEF Picked
<1>0. PICK f : Picks(f, s, t, I)
  BY DEF Picked
<1> DEFINE n == Len(t)
           J == Places(t, n, k)
<1>1. /\ \A j \in 1 .. n : f[j] \in I /\ t[j] = s[f[j]]
      /\ \A x \in I : \E j \in 1 .. n : f[j] = x
      /\ \A i, j \in 1 .. n : i < j => f[i] < f[j]
  BY <1>0 DEF Picks
<1>2. n \in Nat /\ J \in SUBSET (1 .. n)
  BY DEF Places
<1>3. \A i, j \in 1 .. n : f[i] = f[j] => i = j
  <2> SUFFICES ASSUME NEW i \in 1 .. n, NEW j \in 1 .. n, f[i] = f[j] PROVE i = j
    OBVIOUS
  <2> HIDE DEF n
  <2>1. f[i] \in I /\ f[j] \in I
    BY <1>1
  <2>4. i \in Nat /\ j \in Nat
    BY <1>2
  <2>3. f[i] \in Nat /\ f[j] \in Nat
    BY <2>1
  <2>2. ~(i < j) /\ ~(j < i)
    BY <1>1, <2>3
  <2> QED BY <2>2, <2>4
<1>4. {i \in I : s[i].key = k} = {f[j] : j \in J}
  BY <1>1 DEF Places
<1> HIDE DEF n, J
<1>5. Cardinality({f[j] : j \in J}) = Cardinality(J)
  <2>1. Distinct(f, n)
    BY <1>2, <1>3 DEF Distinct
  <2> QED BY <1>2, <2>1, ImageCount
<1> QED BY <1>4, <1>5 DEF n, J

\* The topic has a plurality among those that are given.
TopicWins(w, ballots) ==
    \A b \in ballots : b.topic.key # "" =>
        w.key # "" /\ TopicVotes(ballots, b.topic.key) <= TopicVotes(ballots, w.key)

\* All topics of the voters, and those that are given.
TopicsOf(voters, all, topics) ==
    /\ all = [i \in DOMAIN voters |-> voters[i].topic]
    /\ topics = Keep(all, {t \in ToSet(all) : t.key # ""})

LEMMA TopicSpec ==
    ASSUME NEW voters, NEW ballots, Voters(voters, ballots),
           NEW all, NEW topics, TopicsOf(voters, all, topics)
    PROVE  TopicWins(_winner(_count(topics)), ballots)
<1> DEFINE n == Len(voters)
           m == Len(topics)
           w == _winner(_count(topics))
           T == ItemsOf(STRING, STRING)
           I == {i \in 1 .. n : all[i].key # ""}
<1>1. n \in Nat /\ DOMAIN voters = 1 .. n /\ n # 0
  BY VotersCount DEF Voters
<1>2. \A J \in SUBSET (1 .. n) : Cardinality({voters[j] : j \in J}) = Cardinality(J)
  BY VotersCount
<1>3. ballots = {voters[j] : j \in 1 .. n} /\ voters \in Seq(Classifies)
  BY DEF Voters
<1> HIDE DEF n
<1>4. \A i \in 1 .. n : all[i] = voters[i].topic /\ all[i] \in T
  <2> TAKE i \in 1 .. n
  <2>1. voters[i] \in Classifies
    BY <1>1, <1>3, ElementOfSeq DEF n
  <2>2. all[i] = voters[i].topic
    BY <1>1 DEF TopicsOf
  <2> QED BY <2>1, <2>2, LabelsAssumption DEF ItemsOf
<1> HIDE DEF T
<1>5. all \in Seq(T) /\ Len(all) = n /\ DOMAIN all = 1 .. n
  <2>1. all = [i \in 1 .. n |-> all[i]]
    BY <1>1 DEF TopicsOf
  <2>2. all \in [1 .. n -> T]
    BY <1>4, <2>1
  <2>3. all \in Seq(T)
    BY <1>1, <2>2, SeqDef
  <2> QED BY <1>1, <2>2, <2>3, LenProperties
<1> DEFINE X == {t \in ToSet(all) : t.key # ""}
<1>6. topics \in Seq(T) /\ \E f : Picks(f, all, topics, {i \in 1 .. n : all[i] \in X})
  <2>1. topics = Keep(all, X)
    BY DEF TopicsOf
  <2> HIDE DEF X
  <2> QED BY <1>5, <2>1, KeepSpec
<1>7. {i \in 1 .. n : all[i] \in X} = I
  <2>1. \A i \in 1 .. n : all[i] \in ToSet(all)
    BY <1>5 DEF ToSet
  <2> QED BY <2>1
<1> HIDE DEF X, I
<1>8. PICK f : Picks(f, all, topics, I)
  BY <1>6, <1>7
<1>14. topics \in Seq(T) /\ m \in Nat
  BY <1>6, LenProperties
<1>9. \A k \in 1 .. m : f[k] \in I /\ topics[k] = all[f[k]]
  BY <1>8 DEF Picks
<1>10. \A i \in I : i \in 1 .. n /\ all[i].key # "" /\ \E k \in 1 .. m : f[k] = i
  BY <1>8 DEF Picks, I
<1> HIDE DEF m
<1>11. ASSUME NEW k, k # ""
       PROVE  Cardinality(Places(topics, m, k)) = TopicVotes(ballots, k)
  <2>1. I \in SUBSET Nat
    <3>1. \A i \in I : i \in 1 .. n
      BY <1>10
    <3> QED BY <1>1, <3>1
  <2>2. Cardinality(Places(topics, m, k)) = Cardinality({i \in I : all[i].key = k})
    <3>1. Picked(all, topics, I)
      BY <1>8, <1>14, <2>1 DEF Picked, m
    <3> QED BY <3>1, PicksCount DEF m
  <2> DEFINE J == {i \in I : all[i].key = k}
  <2>3. J \in SUBSET (1 .. n)
    BY <1>10
  <2>4. {voters[j] : j \in J} = {b \in ballots : b.topic.key = k}
    <3>1. \A i \in 1 .. n : voters[i].topic.key = k => i \in J
      BY <1>4, <1>11 DEF I
    <3>2. \A i \in J : i \in 1 .. n /\ voters[i].topic.key = k
      BY <1>4, <1>10
    <3> HIDE DEF J
    <3> QED BY <1>3, <3>1, <3>2
  <2> HIDE DEF J
  <2>5. Cardinality({voters[j] : j \in J}) = Cardinality(J)
    BY <1>2, <2>3
  <2> QED BY <2>2, <2>4, <2>5 DEF J, TopicVotes
<1> HIDE DEF w
<1>12. ASSUME NEW b \in ballots, b.topic.key # ""
       PROVE  w.key # "" /\ TopicVotes(ballots, b.topic.key) <= TopicVotes(ballots, w.key)
  <2>1. PICK i \in 1 .. n : b = voters[i]
    BY <1>3
  <2>2. i \in I
    BY <1>4, <1>12, <2>1 DEF I
  <2>3. PICK k \in 1 .. m : topics[k].key = b.topic.key
    <3>1. PICK k \in 1 .. m : f[k] = i
      BY <1>10, <2>2
    <3>2. topics[k] = b.topic
      BY <1>4, <1>9, <2>1, <3>1
    <3> QED BY <3>2
  <2>4. m # 0
    BY <1>14, <2>3
  <2>5. /\ w.votes = Cardinality(Places(topics, m, w.key))
        /\ \E j \in 1 .. m : topics[j].key = w.key
        /\ \A j \in 1 .. m : Cardinality(Places(topics, m, topics[j].key)) <= w.votes
    BY <1>14, <2>4, Elected DEF w, m, T
  <2>6. w.key # ""
    <3>1. PICK j \in 1 .. m : topics[j].key = w.key
      BY <2>5
    <3>2. f[j] \in I /\ topics[j] = all[f[j]]
      BY <1>9
    <3>3. all[f[j]].key # ""
      BY <1>10, <3>2, Zenon
    <3> QED BY <3>1, <3>2, <3>3, Zenon
  <2>7. Cardinality(Places(topics, m, b.topic.key)) <= w.votes
    BY <2>3, <2>5
  <2>8. w.votes = TopicVotes(ballots, w.key)
    BY <1>11, <2>5, <2>6, Zenon
  <2>9. Cardinality(Places(topics, m, b.topic.key)) = TopicVotes(ballots, b.topic.key)
    BY <1>11, <1>12, Zenon
  <2> QED BY <2>6, <2>7, <2>8, <2>9, Zenon
<1>13. TopicWins(w, ballots)
  BY <1>12 DEF TopicWins
<1> QED BY <1>13 DEF w

\* The keywords of the ballots, with the number of those that have them.
KeywordVotes(ballots) ==
    {[key |-> k, shown |-> k, votes |-> Votes(ballots, k)] : k \in UNION {b.keywords : b \in ballots}}

LEMMA KeywordSpec ==
    ASSUME NEW voters, NEW ballots, Voters(voters, ballots)
    PROVE  /\ ToSet(_count(KeywordItems(voters))) = KeywordVotes(ballots)
           /\ IsFiniteSet(KeywordVotes(ballots)) /\ OneVoteEach(KeywordVotes(ballots))
<1> DEFINE n == Len(voters)
           items == KeywordItems(voters)
           votes == _count(items)
           m == Len(items)
           u == Len(votes)
           S == KeywordVotes(ballots)
           All == UNION {b.keywords : b \in ballots}
<1>1. voters \in Seq(Classifies) /\ ballots = {voters[j] : j \in 1 .. n}
  BY DEF Voters
<1>2. \A J \in SUBSET (1 .. n) : Cardinality({voters[j] : j \in J}) = Cardinality(J)
  BY VotersCount
<1>3. n \in Nat /\ \A j \in 1 .. n : voters[j] \in Classifies
  BY <1>1, LenProperties, ElementOfSeq
<1>4. All \subseteq Nat
  BY <1>1, <1>3, LabelsAssumption
<1>5. items \in Seq(ItemsOf(Nat, Nat)) /\ Lists(items, voters, n)
  BY <1>1, ListSpec
<1>6. votes \in Seq(VotesOf(Nat, Nat)) /\ Counted(votes, items, m)
  BY <1>5, CountSpec
<1>7. m \in Nat /\ u \in Nat /\ DOMAIN votes = 1 .. u /\ \A a \in 1 .. u : votes[a] \in VotesOf(Nat, Nat)
  BY <1>5, <1>6, LenProperties, ElementOfSeq
<1> HIDE DEF n, items, votes, m, u
<1>8. /\ \A a, b \in 1 .. u : votes[a].key = votes[b].key => a = b
      /\ \A a \in 1 .. u : votes[a].votes = Cardinality(Places(items, m, votes[a].key))
      /\ \A j \in 1 .. m : \E a \in 1 .. u : votes[a].key = items[j].key
      /\ \A a \in 1 .. u : \E j \in 1 .. m : votes[a].key = items[j].key /\ votes[a].shown = items[j].shown
  BY <1>6 DEF Counted, Separate, u
<1>9. /\ \A k \in Nat : Cardinality(Places(items, m, k)) = Cardinality(Having(voters, n, k))
      /\ \A j \in 1 .. m : items[j].shown = items[j].key
  BY <1>5 DEF Lists, m
<1>10. ASSUME NEW k PROVE Cardinality(Having(voters, n, k)) = Votes(ballots, k)
  <2>1. Having(voters, n, k) \in SUBSET (1 .. n)
    BY DEF Having
  <2>2. {voters[j] : j \in Having(voters, n, k)} = {b \in ballots : k \in b.keywords}
    BY <1>1 DEF Having
  <2> QED BY <1>2, <2>1, <2>2 DEF Votes
<1>11. ASSUME NEW k \in Nat
       PROVE  /\ (\E j \in 1 .. m : items[j].key = k) <=> Cardinality(Places(items, m, k)) # 0
              /\ k \in All <=> Cardinality(Having(voters, n, k)) # 0
  <2>1. IsFiniteSet(Places(items, m, k))
    BY <1>7, PlacesFinite
  <2>2. Cardinality(Places(items, m, k)) = 0 <=> Places(items, m, k) = {}
    BY <2>1, FS_EmptySet
  <2>3. IsFiniteSet(Having(voters, n, k))
    <3>1. IsFiniteSet(1 .. n)
      BY <1>3, FS_Interval
    <3>2. Having(voters, n, k) \in SUBSET (1 .. n)
      BY DEF Having
    <3> QED BY <3>1, <3>2, FS_Subset
  <2>4. Cardinality(Having(voters, n, k)) = 0 <=> Having(voters, n, k) = {}
    BY <2>3, FS_EmptySet
  <2>5. (\E j \in 1 .. m : items[j].key = k) <=> Places(items, m, k) # {}
    BY DEF Places
  <2>6. k \in All <=> Having(voters, n, k) # {}
    BY <1>1 DEF Having
  <2> QED BY <2>2, <2>4, <2>5, <2>6
<1>12. \A a \in 1 .. u : /\ votes[a].key \in All
                         /\ votes[a] = [key |-> votes[a].key, shown |-> votes[a].key,
                                        votes |-> Votes(ballots, votes[a].key)]
  <2> TAKE a \in 1 .. u
  <2>1. votes[a] \in VotesOf(Nat, Nat) /\ votes[a].key \in Nat
    BY <1>7 DEF VotesOf
  <2>2. PICK j \in 1 .. m : votes[a].key = items[j].key /\ votes[a].shown = items[j].shown
    BY <1>8
  <2>3. votes[a].shown = votes[a].key /\ votes[a].votes = Votes(ballots, votes[a].key)
    BY <1>8, <1>9, <1>10, <2>1, <2>2
  <2>4. votes[a].key \in All
    <3> HIDE DEF All
    <3> QED BY <1>9, <1>11, <2>1, <2>2
  <2> HIDE DEF All
  <2> QED BY <2>1, <2>3, <2>4 DEF VotesOf
<1>13. \A k \in All : \E a \in 1 .. u : votes[a].key = k
  <2> HIDE DEF All
  <2> QED BY <1>4, <1>8, <1>9, <1>11
<1>14. S = {[key |-> k, shown |-> k, votes |-> Votes(ballots, k)] : k \in All}
  BY DEF KeywordVotes
<1> HIDE DEF S, All
<1>15. S = {votes[a] : a \in 1 .. u}
  <2>1. \A a \in 1 .. u : votes[a] \in S
    BY <1>12, <1>14
  <2>2. ASSUME NEW x \in S PROVE \E a \in 1 .. u : x = votes[a]
    <3>1. PICK k \in All : x = [key |-> k, shown |-> k, votes |-> Votes(ballots, k)]
      BY <1>14
    <3>2. PICK a \in 1 .. u : votes[a].key = k
      BY <1>13
    <3> QED BY <1>12, <3>1, <3>2
  <2> QED BY <2>1, <2>2
<1>16. ToSet(votes) = S
  BY <1>7, <1>15 DEF ToSet
<1>17. IsFiniteSet(S)
  <2> DEFINE f == [a \in 1 .. u |-> votes[a]]
  <2>1. f \in Surjection(1 .. u, S)
    <3>1. f \in [1 .. u -> S] /\ \A x \in S : \E a \in 1 .. u : f[a] = x
      BY <1>15
    <3> HIDE DEF f
    <3> QED BY <3>1 DEF Surjection
  <2> HIDE DEF f
  <2>2. IsFiniteSet(1 .. u)
    BY <1>7, FS_Interval
  <2> QED BY <2>1, <2>2, FS_Surjection
<1>18. OneVoteEach(S)
  <2>1. S \subseteq VotesOf(Nat, Nat)
    BY <1>7, <1>15
  <2>2. \A v, w \in S : v.key = w.key => v = w
    BY <1>8, <1>15
  <2> QED BY <2>1, <2>2 DEF OneVoteEach
<1> QED BY <1>16, <1>17, <1>18 DEF S, votes, items

\* What a tally of the ballots shows.
Tallied(out, ballots) ==
    /\ IsFiniteSet(ballots) /\ ballots \subseteq Classifies /\ ballots # {}
    /\ out.voters = Cardinality(ballots)
    /\ FieldWins(out.field, ballots)
    /\ TopicWins(out.topic, ballots)
    /\ IsFiniteSet(KeywordVotes(ballots)) /\ OneVoteEach(KeywordVotes(ballots))
    /\ out.keywords = Shown(Sorted(KeywordVotes(ballots)))

\* The tally is over the last row of each publisher.
LEMMA TallySpec ==
    ASSUME NEW seq \in Seq(Classifies), Len(seq) # 0
    PROVE  Tallied(_tally(seq), LastOf(seq, Len(seq)))
<1> DEFINE voters == _latest_per_publisher(seq)
           ballots == LastOf(seq, Len(seq))
           fields == [i \in DOMAIN voters |-> [key |-> voters[i].field, shown |-> voters[i].field]]
           all == [i \in DOMAIN voters |-> voters[i].topic]
           topics == Keep(all, {t \in ToSet(all) : t.key # ""})
           out == _tally(seq)
<1>1. voters \in Seq(Classifies) /\ OneEach(voters) /\ ToSet(voters) = ballots
  BY LatestSpec
<1>2. seq[Len(seq)] \in ballots
  <2>1. Len(seq) \in Nat
    BY LenProperties
  <2>2. Len(seq) \in 1 .. Len(seq) /\ \A k \in 1 .. Len(seq) : ~(k > Len(seq))
    BY <2>1
  <2> QED BY <2>2 DEF LastOf
<1> HIDE DEF ballots
<1>3. out = [field |-> _winner(_count(fields)), topic |-> _winner(_count(topics)),
             keywords |-> _keep_keywords(_count(KeywordItems(voters))), voters |-> Len(voters)]
  BY DEF _tally
<1> HIDE DEF voters, out
<1>4. ballots = {voters[j] : j \in 1 .. Len(voters)} /\ Len(voters) \in Nat
  BY <1>1, LenProperties DEF ToSet
<1>5. Len(voters) # 0
  BY <1>2, <1>4
<1>6. Voters(voters, ballots)
  BY <1>1, <1>4, <1>5 DEF Voters
<1>7. FieldWins(_winner(_count(fields)), ballots)
  BY <1>6, FieldSpec
<1>8. TopicWins(_winner(_count(topics)), ballots)
  <2>1. TopicsOf(voters, all, topics)
    BY DEF TopicsOf
  <2> HIDE DEF topics, all
  <2> QED BY <1>6, <2>1, TopicSpec
<1> HIDE DEF topics, all, fields
<1>9. /\ ToSet(_count(KeywordItems(voters))) = KeywordVotes(ballots)
      /\ IsFiniteSet(KeywordVotes(ballots)) /\ OneVoteEach(KeywordVotes(ballots))
  BY <1>6, KeywordSpec
<1>10. out.keywords = Shown(Sorted(KeywordVotes(ballots)))
  BY <1>3, <1>9 DEF _keep_keywords
<1>11. IsFiniteSet(ballots) /\ ballots \subseteq Classifies /\ ballots # {} /\ Cardinality(ballots) = Len(voters)
  BY <1>6, VotersCount
<1>12. out.voters = Len(voters) /\ out.field = _winner(_count(fields)) /\ out.topic = _winner(_count(topics))
  BY <1>3
<1>13. Tallied(out, ballots)
  BY <1>7, <1>8, <1>9, <1>10, <1>11, <1>12 DEF Tallied
<1> QED BY <1>13 DEF out, ballots

-----------------------------------------------------------------------------
(***************************************************************************)
(* consensus.                                                              *)
(***************************************************************************)
\* t is picked from s, as f says, and u from t; H is where u comes from.
Chain(f, s, t, u, I, J, H) ==
    /\ Picks(f, s, t, I) /\ Picked(s, t, I) /\ Picked(t, u, J)
    /\ J \subseteq 1 .. Len(t) /\ H = {f[j] : j \in J}

\* What is picked from what is picked is picked.
LEMMA PicksCompose ==
    ASSUME NEW f, NEW s, NEW t, NEW u, NEW I, NEW J, NEW H, Chain(f, s, t, u, I, J, H)
    PROVE  Picked(s, u, H)
<1> /\ Picks(f, s, t, I) /\ Picked(s, t, I) /\ Picked(t, u, J)
    /\ J \subseteq 1 .. Len(t) /\ H = {f[j] : j \in J}
  BY DEF Chain
<1>0. PICK g : Picks(g, t, u, J)
  BY DEF Picked
<1> DEFINE n == Len(t)
           m == Len(u)
           h == [k \in 1 .. m |-> f[g[k]]]
<1>1. n \in Nat /\ m \in Nat /\ I \in SUBSET Nat
  BY DEF Picked
<1>2. /\ \A j \in 1 .. n : f[j] \in I /\ t[j] = s[f[j]]
      /\ \A i, j \in 1 .. n : i < j => f[i] < f[j]
  BY DEF Picks
<1>3. /\ \A j \in 1 .. m : g[j] \in J /\ u[j] = t[g[j]]
      /\ \A x \in J : \E j \in 1 .. m : g[j] = x
      /\ \A i, j \in 1 .. m : i < j => g[i] < g[j]
  BY <1>0 DEF Picks
<1>4. J \subseteq 1 .. n
  OBVIOUS
<1> HIDE DEF n
<1>5. H \in SUBSET Nat
  BY <1>1, <1>2, <1>4
<1>6. h \in [1 .. m -> H]
  BY <1>3
<1>7. \A x \in H : \E k \in 1 .. m : h[k] = x
  BY <1>3
<1>8. \A j, k \in 1 .. m : j < k => h[j] < h[k]
  BY <1>2, <1>3, <1>4
<1>9. \A k \in 1 .. m : u[k] = s[h[k]]
  BY <1>2, <1>3, <1>4
<1> HIDE DEF h
<1>10. Picks(h, s, u, H)
  BY <1>6, <1>7, <1>8, <1>9 DEF Picks
<1> QED BY <1>1, <1>5, <1>10 DEF Picked

\* The last rows of the publishers among the items at the places in I.
LastAt(s, I) == {s[i] : i \in {j \in I : \A k \in I : k > j => s[k].publisher # s[j].publisher}}

LEMMA PicksLast ==
    ASSUME NEW s, NEW t, NEW I, Picked(s, t, I)
    PROVE  LastOf(t, Len(t)) = LastAt(s, I)
<1>0. PICK f : Picks(f, s, t, I)
  BY DEF Picked
<1> DEFINE n == Len(t)
<1>1. n \in Nat /\ I \in SUBSET Nat
  BY DEF Picked
<1>2. /\ \A j \in 1 .. n : f[j] \in I /\ t[j] = s[f[j]]
      /\ \A x \in I : \E j \in 1 .. n : f[j] = x
      /\ \A i, j \in 1 .. n : i < j => f[i] < f[j]
  BY <1>0 DEF Picks
<1> HIDE DEF n
<1>3. ASSUME NEW i \in 1 .. n, NEW j \in 1 .. n PROVE i > j <=> f[i] > f[j]
  <2>1. f[i] \in Nat /\ f[j] \in Nat
    <3>1. f[i] \in I /\ f[j] \in I
      BY <1>2
    <3> QED BY <1>1, <3>1
  <2>2. i \in Nat /\ j \in Nat
    BY <1>1
  <2>3. (i < j => f[i] < f[j]) /\ (j < i => f[j] < f[i])
    BY <1>2
  <2> QED BY <2>1, <2>2, <2>3
<1>4. ASSUME NEW x \in LastOf(t, n) PROVE x \in LastAt(s, I)
  <2>1. PICK j \in 1 .. n : x = t[j] /\ \A k \in 1 .. n : k > j => t[k].publisher # t[j].publisher
    BY DEF LastOf
  <2>2. ASSUME NEW k \in I, k > f[j] PROVE s[k].publisher # s[f[j]].publisher
    <3>1. PICK l \in 1 .. n : f[l] = k
      BY <1>2
    <3>2. l > j
      BY <1>3, <2>2, <3>1
    <3> QED BY <1>2, <2>1, <3>1, <3>2
  <2>3. f[j] \in I /\ x = s[f[j]]
    BY <1>2, <2>1
  <2> QED BY <2>2, <2>3 DEF LastAt
<1>5. ASSUME NEW x \in LastAt(s, I) PROVE x \in LastOf(t, n)
  <2>1. PICK i \in I : x = s[i] /\ \A k \in I : k > i => s[k].publisher # s[i].publisher
    BY DEF LastAt
  <2>2. PICK j \in 1 .. n : f[j] = i
    BY <1>2
  <2>3. ASSUME NEW k \in 1 .. n, k > j PROVE t[k].publisher # t[j].publisher
    <3>1. f[k] \in I /\ f[k] > i /\ t[k] = s[f[k]] /\ t[j] = s[i]
      BY <1>2, <1>3, <2>2, <2>3
    <3> QED BY <2>1, <3>1
  <2>4. x = t[j]
    BY <1>2, <2>1, <2>2
  <2> QED BY <2>3, <2>4 DEF LastOf
<1> QED BY <1>4, <1>5 DEF n

\* The places of the rows about c, and of those that are a judgement.
Seen(seq, c) == {i \in 1 .. Len(seq) : seq[i].cid = c}
Own(seq, c) == {i \in Seen(seq, c) : seq[i].kind # "reuse"}
Eligible(seq, c) == IF Own(seq, c) = {} THEN Seen(seq, c) ELSE Own(seq, c)

\* Keep picks.
LEMMA KeepPicked ==
    ASSUME NEW seq \in Seq(Classifies), NEW X, NEW I, I = {i \in 1 .. Len(seq) : seq[i] \in X}
    PROVE  Keep(seq, X) \in Seq(Classifies) /\ Picked(seq, Keep(seq, X), I)
<1>1. Keep(seq, X) \in Seq(Classifies) /\ \E f : Picks(f, seq, Keep(seq, X), I)
  BY KeepSpec
<1>2. Len(Keep(seq, X)) \in Nat /\ Len(seq) \in Nat
  BY <1>1, LenProperties
<1>3. I \in SUBSET Nat
  <2>1. \A i \in I : i \in 1 .. Len(seq)
    OBVIOUS
  <2> QED BY <1>2, <2>1
<1> QED BY <1>1, <1>2, <1>3 DEF Picked

\* Nothing is picked from no place, and something from some.
LEMMA PickedEmpty ==
    ASSUME NEW s, NEW t \in Seq(Classifies), NEW I, Picked(s, t, I)
    PROVE  (t = <<>> <=> I = {}) /\ (Len(t) = 0 <=> I = {})
<1>1. PICK f : Picks(f, s, t, I)
  BY DEF Picked
<1>2. Len(t) \in Nat
  BY DEF Picked
<1>3. /\ \A j \in 1 .. Len(t) : f[j] \in I
      /\ \A x \in I : \E j \in 1 .. Len(t) : f[j] = x
  BY <1>1 DEF Picks
<1>4. Len(t) = 0 <=> I = {}
  <2>1. CASE Len(t) = 0
    BY <1>3, <2>1
  <2>2. CASE Len(t) # 0
    <3>1. 1 \in 1 .. Len(t)
      BY <1>2, <2>2
    <3> QED BY <1>3, <2>2, <3>1
  <2> QED BY <2>1, <2>2
<1>5. t = <<>> <=> Len(t) = 0
  BY EmptySeq
<1> QED BY <1>4, <1>5

\* The rows that vote are those about c, and among them the judgements if there are any.
LEMMA PreferSpec ==
    ASSUME NEW seq \in Seq(Classifies), NEW c, NEW a, a = Keep(seq, {m \in Classifies : m.cid = c})
    PROVE  /\ _prefer_independent(a) \in Seq(Classifies)
           /\ Picked(seq, _prefer_independent(a), Eligible(seq, c))
<1> DEFINE X == {m \in Classifies : m.cid = c}
           Y == {m \in ToSet(a) : m.kind # "reuse"}
           ind == Keep(a, Y)
           J == {k \in 1 .. Len(a) : a[k] \in Y}
<1>1. {i \in 1 .. Len(seq) : seq[i] \in X} = Seen(seq, c)
  <2>1. \A i \in 1 .. Len(seq) : seq[i] \in Classifies
    BY ElementOfSeq
  <2> QED BY <2>1 DEF Seen
<1>2. a \in Seq(Classifies) /\ Picked(seq, a, Seen(seq, c))
  <2> HIDE DEF X
  <2>1. a = Keep(seq, X)
    BY DEF X
  <2> QED BY <1>1, <2>1, KeepPicked
<1>3. DOMAIN a = 1 .. Len(a) /\ Len(a) \in Nat
  BY <1>2, LenProperties
<1>4. J = {k \in 1 .. Len(a) : a[k].kind # "reuse"}
  BY <1>3 DEF ToSet
<1>5. ind \in Seq(Classifies) /\ Picked(a, ind, J)
  <2> HIDE DEF Y
  <2> QED BY <1>2, KeepPicked
<1>6. _prefer_independent(a) = IF ind # <<>> THEN ind ELSE a
  BY DEF _prefer_independent
<1> HIDE DEF ind, J, X, Y
<1>7. PICK f : Picks(f, seq, a, Seen(seq, c))
  BY <1>2 DEF Picked
<1>8. {f[j] : j \in J} = Own(seq, c)
  <2>1. /\ \A j \in 1 .. Len(a) : f[j] \in Seen(seq, c) /\ a[j] = seq[f[j]]
        /\ \A x \in Seen(seq, c) : \E j \in 1 .. Len(a) : f[j] = x
    BY <1>7 DEF Picks
  <2>2. \A j \in J : f[j] \in Own(seq, c)
    BY <1>4, <2>1 DEF Own
  <2>3. ASSUME NEW x \in Own(seq, c) PROVE \E j \in J : f[j] = x
    <3>1. x \in Seen(seq, c) /\ seq[x].kind # "reuse"
      BY DEF Own
    <3>2. PICK j \in 1 .. Len(a) : f[j] = x
      BY <2>1, <3>1
    <3>3. a[j] = seq[x]
      BY <2>1, <3>2
    <3>4. j \in J
      BY <1>4, <3>1, <3>3
    <3> QED BY <3>2, <3>4
  <2> QED BY <2>2, <2>3
<1>9. Picked(seq, ind, Own(seq, c))
  <2>1. J \subseteq 1 .. Len(a)
    BY <1>4
  <2>2. Picked(seq, a, Seen(seq, c)) /\ Picked(a, ind, J)
    BY <1>2, <1>5
  <2>3. Own(seq, c) = {f[j] : j \in J}
    BY <1>8
  <2>4. Chain(f, seq, a, ind, Seen(seq, c), J, Own(seq, c))
    BY <1>7, <2>1, <2>2, <2>3 DEF Chain
  <2> QED BY <2>4, PicksCompose
<1>10. ind = <<>> <=> Own(seq, c) = {}
  BY <1>5, <1>9, PickedEmpty
<1> QED BY <1>2, <1>5, <1>6, <1>9, <1>10 DEF Eligible

\* The consensus of a node is the tally of its ballots.
LEMMA ConsensusSpec ==
    ASSUME NEW n \in Nodes, rows[n] \in Seq(Classifies), NEW c, Labelled(n, c)
    PROVE  Tallied(consensus(rows[n], c), Ballots(n, c))
<1> DEFINE seq == rows[n]
           a == Keep(seq, {m \in Classifies : m.cid = c})
           t == _prefer_independent(a)
<1>1. DOMAIN seq = 1 .. Len(seq)
  BY LenProperties
<1>2. t \in Seq(Classifies) /\ Picked(seq, t, Eligible(seq, c))
  <2> HIDE DEF a
  <2>1. a = Keep(seq, {m \in Classifies : m.cid = c})
    BY DEF a
  <2> QED BY <2>1, PreferSpec
<1>3. consensus(seq, c) = _tally(t)
  BY DEF consensus
<1> HIDE DEF t
<1>4. Eligible(seq, c) # {}
  <2>1. Seen(seq, c) # {}
    BY <1>1 DEF Labelled, Seen
  <2> QED BY <2>1 DEF Eligible
<1>5. Len(t) # 0
  BY <1>2, <1>4, PickedEmpty
<1>6. Tallied(_tally(t), LastOf(t, Len(t)))
  BY <1>2, <1>5, TallySpec
<1>7. LastOf(t, Len(t)) = LastAt(seq, Eligible(seq, c))
  BY <1>2, PicksLast
<1>8. Ballots(n, c) = LastAt(seq, Eligible(seq, c))
  BY <1>1 DEF Ballots, LastAt, Eligible, Own, Seen
<1> QED BY <1>3, <1>6, <1>7, <1>8

-----------------------------------------------------------------------------
(***************************************************************************)
(* The catalog of a node has a message once.                               *)
(***************************************************************************)
\* Keep does not repeat a row.
LEMMA KeepOnce ==
    ASSUME NEW seq \in Seq(Classifies), IsInjective(seq), NEW X
    PROVE  Keep(seq, X) \in Seq(Classifies) /\ IsInjective(Keep(seq, X))
<1> DEFINE t == Keep(seq, X)
           I == {i \in 1 .. Len(seq) : seq[i] \in X}
<1>1. t \in Seq(Classifies) /\ Picked(seq, t, I)
  BY KeepPicked
<1> HIDE DEF t
<1>2. DOMAIN t = 1 .. Len(t) /\ DOMAIN seq = 1 .. Len(seq)
  BY <1>1, LenProperties
<1>3. I \in SUBSET Nat /\ Len(t) \in Nat
  BY <1>1 DEF Picked
<1>4. PICK f : Picks(f, seq, t, I)
  BY <1>1 DEF Picked
<1>5. /\ \A j \in 1 .. Len(t) : f[j] \in I /\ t[j] = seq[f[j]]
      /\ \A j, k \in 1 .. Len(t) : j < k => f[j] < f[k]
  BY <1>4 DEF Picks
<1>6. \A i \in I : i \in 1 .. Len(seq)
  OBVIOUS
<1> HIDE DEF I
<1>7. ASSUME NEW j \in 1 .. Len(t), NEW k \in 1 .. Len(t), t[j] = t[k] PROVE j = k
  <2>1. f[j] \in I /\ f[k] \in I /\ seq[f[j]] = seq[f[k]]
    BY <1>5, <1>7
  <2>2. f[j] = f[k]
    BY <1>2, <1>6, <2>1 DEF IsInjective
  <2>5. f[j] \in Nat
    BY <1>3, <2>1
  <2>3. f[j] \in Nat /\ j \in Nat /\ k \in Nat
    BY <1>3, <2>5
  <2>4. ~(j < k) /\ ~(k < j)
    BY <1>5, <2>2, <2>3
  <2> QED BY <2>3, <2>4
<1>8. IsInjective(t)
  BY <1>2, <1>7 DEF IsInjective
<1> QED BY <1>1, <1>8 DEF t

\* A row that is not there yet is stored once.
LEMMA AppendOnce ==
    ASSUME NEW seq \in Seq(Classifies), IsInjective(seq), NEW m \in Classifies, ~Contains(seq, m)
    PROVE  Append(seq, m) \in Seq(Classifies) /\ IsInjective(Append(seq, m))
<1> DEFINE n == Len(seq)
           t == Append(seq, m)
<1>1. n \in Nat /\ DOMAIN seq = 1 .. n
  BY LenProperties
<1>2. t \in Seq(Classifies) /\ Len(t) = n + 1 /\ t[n + 1] = m /\ \A i \in 1 .. n : t[i] = seq[i]
  BY <1>1
<1>3. DOMAIN t = 1 .. n + 1
  BY <1>2, LenProperties
<1>4. \A i \in 1 .. n : seq[i] # m
  BY DEF Contains
<1> HIDE DEF t, n
<1>5. \A i \in 1 .. n + 1 : i = n + 1 \/ i \in 1 .. n
  BY <1>1
<1>6. ASSUME NEW i \in 1 .. n + 1, NEW j \in 1 .. n + 1, t[i] = t[j] PROVE i = j
  <2>1. CASE i \in 1 .. n /\ j \in 1 .. n
    BY <1>1, <1>2, <1>6, <2>1 DEF IsInjective
  <2>2. CASE i = n + 1 \/ j = n + 1
    BY <1>2, <1>4, <1>5, <1>6, <2>2
  <2> QED BY <1>5, <2>1, <2>2
<1>7. IsInjective(t)
  BY <1>3, <1>6 DEF IsInjective
<1> QED BY <1>2, <1>7 DEF t

\* No node has a message twice, and none blacklists but a publisher.
THEOREM TypeCorrect == Spec => []TypeOK
<1>1. Init => TypeOK
  <2> SUFFICES ASSUME Init PROVE TypeOK
    OBVIOUS
  <2>1. rows = [n \in Nodes |-> <<>>] /\ banned = [n \in Nodes |-> {}]
    BY DEF Init
  <2>2. <<>> \in Seq(Classifies) /\ IsInjective(<<>>)
    <3>1. <<>> \in Seq(Classifies) /\ Len(<<>>) = 0
      BY EmptySeq
    <3>2. DOMAIN <<>> = {}
      OBVIOUS
    <3> QED BY <3>1, <3>2 DEF IsInjective
  <2>3. rows \in [Nodes -> Seq(Classifies)] /\ \A n \in Nodes : rows[n] = <<>>
    BY <2>1, <2>2
  <2>4. banned \in [Nodes -> SUBSET Publishers]
    BY <2>1
  <2> QED BY <2>2, <2>3, <2>4 DEF TypeOK
<1>2. TypeOK /\ [Next]_vars => TypeOK'
  <2> SUFFICES ASSUME TypeOK, [Next]_vars PROVE TypeOK'
    OBVIOUS
  <2>1. /\ rows \in [Nodes -> Seq(Classifies)] /\ \A n \in Nodes : rows[n] \in Seq(Classifies)
        /\ \A n \in Nodes : IsInjective(rows[n])
        /\ banned \in [Nodes -> SUBSET Publishers]
    BY DEF TypeOK
  <2>2. ASSUME NEW n \in Nodes, NEW m \in Classifies, Store(n, m) PROVE TypeOK'
    <3>1. /\ ~Contains(rows[n], m) /\ banned' = banned
          /\ rows' = [rows EXCEPT ![n] = Append(rows[n], m)]
      BY <2>2 DEF Store
    <3>2. Append(rows[n], m) \in Seq(Classifies) /\ IsInjective(Append(rows[n], m))
      BY <2>1, <3>1, AppendOnce
    <3>3. rows' \in [Nodes -> Seq(Classifies)] /\ \A o \in Nodes : IsInjective(rows'[o])
      BY <2>1, <3>1, <3>2
    <3> QED BY <2>1, <3>1, <3>3 DEF TypeOK
  <2>3. ASSUME NEW n \in Nodes, NEW p \in Publishers, Blacklist(n, p) PROVE TypeOK'
    <3> DEFINE t == Keep(rows[n], {m \in Classifies : m.publisher # p})
    <3>1. banned' = [banned EXCEPT ![n] = banned[n] \cup {p}] /\ rows' = [rows EXCEPT ![n] = t]
      BY <2>3 DEF Blacklist
    <3>2. t \in Seq(Classifies) /\ IsInjective(t)
      BY <2>1, KeepOnce
    <3> HIDE DEF t
    <3>3. rows' \in [Nodes -> Seq(Classifies)] /\ \A o \in Nodes : IsInjective(rows'[o])
      BY <2>1, <3>1, <3>2
    <3>4. banned' \in [Nodes -> SUBSET Publishers]
      BY <2>1, <3>1
    <3> QED BY <3>3, <3>4 DEF TypeOK
  <2>4. CASE UNCHANGED vars
    BY <2>1, <2>4 DEF vars, TypeOK
  <2> QED BY <2>2, <2>3, <2>4 DEF Next
<1> QED BY <1>1, <1>2, PTL DEF Spec

-----------------------------------------------------------------------------
(***************************************************************************)
(* The properties.                                                         *)
(***************************************************************************)
\* What Plurality says of one node and cid.
HasPlurality(out, ballots) ==
    /\ out.voters = Cardinality(ballots)
    /\ \A b \in ballots :
          /\ FieldVotes(ballots, b.field) <= FieldVotes(ballots, out.field.key)
          /\ b.topic.key # "" =>
               /\ out.topic.key # ""
               /\ TopicVotes(ballots, b.topic.key) <= TopicVotes(ballots, out.topic.key)
    /\ out.field.votes = FieldVotes(ballots, out.field.key)

\* The field and the topic of a tally have the plurality.
LEMMA PluralityHolds == TypeOK => Plurality
<1> SUFFICES ASSUME TypeOK,
                    NEW n \in Nodes, NEW c \in Cids, Labelled(n, c)
             PROVE  HasPlurality(consensus(rows[n], c), Ballots(n, c))
  BY Zenon DEF Plurality, HasPlurality
<1>1. rows[n] \in Seq(Classifies)
  BY DEF TypeOK
<1>2. Tallied(consensus(rows[n], c), Ballots(n, c))
  BY <1>1, ConsensusSpec
<1> QED BY <1>2 DEF Tallied, FieldWins, TopicWins, HasPlurality

\* One ballot per publisher, and the field and the topic with the plurality of them.
THEOREM TallyInvHolds == Spec => []TallyInv
<1>1. TypeOK => TallyInv
  BY PluralityHolds DEF TallyInv
<1> QED BY <1>1, TypeCorrect, PTL

\* A keyword of some ballots has an item, with the number of those.
LEMMA KeywordItem ==
    ASSUME NEW ballots, NEW k \in UNION {b.keywords : b \in ballots}
    PROVE  \E v \in KeywordVotes(ballots) : v.key = k /\ v.votes = Votes(ballots, k)
<1>1. [key |-> k, shown |-> k, votes |-> Votes(ballots, k)] \in KeywordVotes(ballots)
  BY DEF KeywordVotes
<1> QED BY <1>1

\* The keywords with the most votes, in order.
LEMMA AgreementHolds == TypeOK => AgreementFirst
<1> SUFFICES ASSUME TypeOK, NEW n \in Nodes, NEW c \in Cids, Labelled(n, c),
                    NEW out, out = consensus(rows[n], c), NEW ballots, ballots = Ballots(n, c),
                    NEW shown, shown = out.keywords
             PROVE  /\ Len(shown) <= Kept /\ IsInjective(shown)
                    /\ \A i, j \in DOMAIN shown :
                          i < j => Votes(ballots, shown[i]) >= Votes(ballots, shown[j])
                    /\ \A k \in (UNION {b.keywords : b \in ballots}) \ ToSet(shown) :
                          Len(shown) = Kept /\ Votes(ballots, k) <= Votes(ballots, shown[Kept])
  BY DEF AgreementFirst
<1>1. Tallied(out, ballots)
  <2>1. rows[n] \in Seq(Classifies)
    BY DEF TypeOK
  <2> QED BY <2>1, ConsensusSpec
<1> DEFINE S == KeywordVotes(ballots)
<1>2. IsFiniteSet(S) /\ OneVoteEach(S) /\ shown = Shown(Sorted(S))
  BY <1>1 DEF Tallied
<1>3. \A v \in S : v.votes = Votes(ballots, v.key)
  BY DEF KeywordVotes
<1> HIDE DEF S
<1>4. /\ Len(shown) \in Nat /\ Len(shown) <= Kept /\ DOMAIN shown = 1 .. Len(shown)
      /\ IsInjective(shown)
  BY <1>2, ShownSpec
<1>5. \A i \in 1 .. Len(shown) : \E v \in S : v.key = shown[i]
  BY <1>2, ShownSpec
<1>6. \A v, w \in S, i, j \in 1 .. Len(shown) :
         i < j /\ v.key = shown[i] /\ w.key = shown[j] => v.votes >= w.votes
  BY <1>2, ShownSpec
<1>7. \A v \in S : v.key \notin ToSet(shown) =>
         /\ Len(shown) = Kept
         /\ \A w \in S : w.key = shown[Kept] => v.votes <= w.votes
  BY <1>2, ShownSpec
<1>8. \A i \in 1 .. Len(shown) : \E v \in S : v.key = shown[i] /\ v.votes = Votes(ballots, shown[i])
  BY <1>3, <1>5
<1>9. ASSUME NEW i \in DOMAIN shown, NEW j \in DOMAIN shown, i < j
      PROVE  Votes(ballots, shown[i]) >= Votes(ballots, shown[j])
  <2>1. i \in 1 .. Len(shown) /\ j \in 1 .. Len(shown)
    BY <1>4
  <2>2. PICK v \in S : v.key = shown[i] /\ v.votes = Votes(ballots, shown[i])
    BY <1>8, <2>1
  <2>3. PICK w \in S : w.key = shown[j] /\ w.votes = Votes(ballots, shown[j])
    BY <1>8, <2>1
  <2>4. v.votes >= w.votes
    BY <1>6, <1>9, <2>1, <2>2, <2>3
  <2> QED BY <2>2, <2>3, <2>4
<1>10. ASSUME NEW k \in UNION {b.keywords : b \in ballots}, k \notin ToSet(shown)
       PROVE  Len(shown) = Kept /\ Votes(ballots, k) <= Votes(ballots, shown[Kept])
  <2>1. PICK v \in S : v.key = k /\ v.votes = Votes(ballots, k)
    BY KeywordItem DEF S
  <2>2. Len(shown) = Kept /\ \A w \in S : w.key = shown[Kept] => v.votes <= w.votes
    BY <1>7, <1>10, <2>1
  <2>3. Kept \in 1 .. Len(shown)
    BY <2>2, LabelsAssumption
  <2>4. PICK w \in S : w.key = shown[Kept] /\ w.votes = Votes(ballots, shown[Kept])
    BY <1>8, <2>3
  <2>5. v.votes <= w.votes
    BY <2>2, <2>4
  <2> QED BY <2>1, <2>2, <2>4, <2>5
<1>11. \A k \in (UNION {b.keywords : b \in ballots}) \ ToSet(shown) :
          Len(shown) = Kept /\ Votes(ballots, k) <= Votes(ballots, shown[Kept])
  BY <1>10
<1>12. \A i, j \in DOMAIN shown : i < j => Votes(ballots, shown[i]) >= Votes(ballots, shown[j])
  BY <1>9
<1> QED BY <1>4, <1>11, <1>12

\* More agreement first, and only what has the least is left out.
THEOREM AgreementFirstHolds == Spec => []AgreementFirst
BY AgreementHolds, TypeCorrect, PTL

\* A field that is decided wins.
LEMMA DecidedWins ==
    ASSUME NEW w, NEW ballots, IsFiniteSet(ballots), FieldWins(w, ballots),
           NEW a \in ballots,
           \A b \in ballots : b.field # a.field => FieldVotes(ballots, b.field) < FieldVotes(ballots, a.field)
    PROVE  w.key = a.field
<1>1. PICK b \in ballots : b.field = w.key
  BY DEF FieldWins
<1>2. FieldVotes(ballots, a.field) <= FieldVotes(ballots, w.key)
  BY DEF FieldWins
<1>3. \A f : FieldVotes(ballots, f) \in Nat
  <2> TAKE f
  <2>1. {x \in ballots : x.field = f} \in SUBSET ballots
    OBVIOUS
  <2>2. IsFiniteSet({x \in ballots : x.field = f})
    BY <2>1, FS_Subset
  <2> QED BY <2>2, FS_CardinalityType DEF FieldVotes
<1>4. FieldVotes(ballots, a.field) \in Nat /\ FieldVotes(ballots, w.key) \in Nat
  BY <1>3
<1> QED BY <1>1, <1>2, <1>4

\* Nodes with the same ballots agree.
LEMMA AgreeHolds == TypeOK => NodesAgree
<1> SUFFICES ASSUME TypeOK, NEW n \in Nodes, NEW o \in Nodes, NEW c \in Cids,
                    Labelled(n, c), Labelled(o, c), Ballots(n, c) = Ballots(o, c),
                    NEW a, a = consensus(rows[n], c), NEW b, b = consensus(rows[o], c),
                    NEW ballots, ballots = Ballots(n, c)
             PROVE  /\ a.keywords = b.keywords /\ a.voters = b.voters
                    /\ Decided(ballots) => a.field.key = b.field.key
  BY DEF NodesAgree
<1>1. Tallied(a, ballots) /\ Tallied(b, ballots)
  <2>1. rows[n] \in Seq(Classifies) /\ rows[o] \in Seq(Classifies)
    BY DEF TypeOK
  <2> QED BY <2>1, ConsensusSpec
<1>2. a.keywords = b.keywords /\ a.voters = b.voters
  BY <1>1 DEF Tallied
<1>3. IsFiniteSet(ballots) /\ FieldWins(a.field, ballots) /\ FieldWins(b.field, ballots)
  BY <1>1 DEF Tallied
<1>4. ASSUME Decided(ballots) PROVE a.field.key = b.field.key
  <2>1. PICK x \in ballots : \A y \in ballots :
           y.field # x.field => FieldVotes(ballots, y.field) < FieldVotes(ballots, x.field)
    BY <1>4 DEF Decided
  <2>2. a.field.key = x.field
    BY <1>3, <2>1, DecidedWins
  <2>3. b.field.key = x.field
    BY <1>3, <2>1, DecidedWins
  <2> QED BY <2>2, <2>3
<1> QED BY <1>2, <1>4

\* What a node shows depends on its ballots, and not on the order of arrival.
THEOREM NodesAgreeHolds == Spec => []NodesAgree
BY AgreeHolds, TypeCorrect, PTL

=============================================================================
