------------------------------- MODULE Labels -------------------------------
(***************************************************************************)
(* observer/labels.py: the labels a node shows for a cid are a vote over   *)
(* the classifies in its catalog.                                          *)
(*                                                                         *)
(* Every node counts for itself, over rows in the order in which they came *)
(* to it (received_at).  The module has several nodes that get the same    *)
(* messages in different orders, and lets them blacklist publishers; the   *)
(* question is how far their labels agree.                                 *)
(*                                                                         *)
(* A keyword is the number of its place in the alphabet.  A topic has a    *)
(* key (_norm_text), "" if it is missing, and the way its publisher spelt  *)
(* it.                                                                     *)
(***************************************************************************)
EXTENDS Integers, FiniteSets, Sequences, SequencesExt

CONSTANTS
    Nodes,
    Classifies,     \* the messages of the club
    Kept,           \* keywords shown at most (10)
    MaxBanned       \* bound on the publishers a node blacklists

ASSUME LabelsAssumption ==
    /\ \A m \in Classifies :
          /\ m.kind \in {"llm", "reuse"}
          /\ m.keywords \subseteq Nat /\ IsFiniteSet(m.keywords)
          /\ m.topic \in [key : STRING, shown : STRING]
    /\ Kept \in Nat \ {0} /\ MaxBanned \in Nat

VARIABLES
    rows,           \* node -> its rows of classifies, by received_at
    banned          \* node -> blacklisted publishers

vars == <<rows, banned>>

Publishers == {m.publisher : m \in Classifies}
Cids == {m.cid : m \in Classifies}

TypeOK ==
    /\ rows \in [Nodes -> Seq(Classifies)]
    /\ \A n \in Nodes : IsInjective(rows[n])
    /\ banned \in [Nodes -> SUBSET Publishers]

-----------------------------------------------------------------------------
(***************************************************************************)
(* The vote.  A dict is a sequence of its items in the order of insertion. *)
(***************************************************************************)
\* The items of seq that are in S, one after the other.
Keep(seq, S) == FoldLeft(LAMBDA kept, m : IF m \in S THEN Append(kept, m) ELSE kept, <<>>, seq)

\* Mutant: copies vote as well.
_prefer_independent_All(seq) == seq

_prefer_independent(seq) ==
    LET independent == Keep(seq, {m \in ToSet(seq) : m.kind # "reuse"})
    IN  IF independent # <<>> THEN independent ELSE seq

\* A later row of a publisher takes the place of its earlier one.
PutBallot(ballots, m) ==
    LET i == SelectInSeq(ballots, LAMBDA b : b.publisher = m.publisher)
    IN  IF i = 0 THEN Append(ballots, m) ELSE [ballots EXCEPT ![i] = m]
_latest_per_publisher(seq) == FoldLeft(PutBallot, <<>>, seq)

\* The votes for each key, with the first way it was spelt.
AddVote(votes, item) ==
    LET i == SelectInSeq(votes, LAMBDA v : v.key = item.key)
    IN  IF i = 0 THEN Append(votes, [key |-> item.key, shown |-> item.shown, votes |-> 1])
        ELSE [votes EXCEPT ![i].votes = @ + 1]
_count(items) == FoldLeft(AddVote, <<>>, items)

Most(votes) == CHOOSE k \in {votes[i].votes : i \in DOMAIN votes} :
                  \A i \in DOMAIN votes : votes[i].votes <= k

\* The first of the keys with the most votes.
_winner(votes) ==
    IF votes = <<>> THEN [key |-> "", shown |-> "", votes |-> 0]
    ELSE votes[SelectInSeq(votes, LAMBDA v : v.votes = Most(votes))]

\* kept.sort(key=(-votes, keyword)): each item stands behind all those before it.
Before(v, w) == v.votes > w.votes \/ (v.votes = w.votes /\ v.key < w.key)
Sorted(S) ==
    [i \in 1 .. Cardinality(S) |->
        CHOOSE v \in S : Cardinality({w \in S : Before(w, v)}) = i - 1]
Shown(sorted) == [i \in 1 .. (IF Len(sorted) < Kept THEN Len(sorted) ELSE Kept) |-> sorted[i].key]

\* Mutant: equal numbers of votes are left in the order of arrival.
_keep_keywords_Arrival(votes) == Shown(SortSeq(votes, LAMBDA v, w : v.votes > w.votes))

\* Mutant: the list is cut before it is sorted.
_keep_keywords_CutFirst(votes) ==
    Shown(Sorted({votes[i] : i \in {j \in DOMAIN votes : j <= Kept}}))

_keep_keywords(votes) == Shown(Sorted(ToSet(votes)))

\* _split_keywords: the keywords of m behind those of the voters before it.
AddKeywords(items, m) == items \o SetToSeq({[key |-> k, shown |-> k] : k \in m.keywords})
KeywordItems(voters) == FoldLeft(AddKeywords, <<>>, voters)

_tally(seq) ==
    LET voters == _latest_per_publisher(seq)
        fields == [i \in DOMAIN voters |-> [key |-> voters[i].field, shown |-> voters[i].field]]
        all == [i \in DOMAIN voters |-> voters[i].topic]
        topics == Keep(all, {t \in ToSet(all) : t.key # ""})
    IN  [field |-> _winner(_count(fields)), topic |-> _winner(_count(topics)),
         keywords |-> _keep_keywords(_count(KeywordItems(voters))), voters |-> Len(voters)]

consensus(seq, c) == _tally(_prefer_independent(Keep(seq, {m \in Classifies : m.cid = c})))

-----------------------------------------------------------------------------
(***************************************************************************)
(* The catalog of a node.                                                  *)
(***************************************************************************)
\* _insert_classify: INSERT OR IGNORE by the hash of the message.
Store(n, m) ==
    /\ ~Contains(rows[n], m)
    /\ m.publisher \notin banned[n]
    /\ rows' = [rows EXCEPT ![n] = Append(@, m)]
    /\ banned' = banned

Blacklist(n, p) ==
    /\ p \notin banned[n]
    /\ Cardinality(banned[n]) < MaxBanned
    /\ banned' = [banned EXCEPT ![n] = @ \cup {p}]
    /\ rows' = [rows EXCEPT ![n] = Keep(@, {m \in Classifies : m.publisher # p})]

Init == rows = [n \in Nodes |-> <<>>] /\ banned = [n \in Nodes |-> {}]
Next == \E n \in Nodes : (\E m \in Classifies : Store(n, m)) \/ \E p \in Publishers : Blacklist(n, p)
Spec == Init /\ [][Next]_vars

-----------------------------------------------------------------------------
(***************************************************************************)
(* Properties.                                                             *)
(***************************************************************************)
Labelled(n, c) == \E i \in DOMAIN rows[n] : rows[n][i].cid = c

\* The ballots of n on c, said with sets: one per publisher, of its own judgement
\* if anybody has one, and the last to arrive.
Ballots(n, c) ==
    LET seen == {i \in DOMAIN rows[n] : rows[n][i].cid = c}
        own == {i \in seen : rows[n][i].kind # "reuse"}
        eligible == IF own = {} THEN seen ELSE own
    IN  {rows[n][i] : i \in {j \in eligible : \A k \in eligible :
                                k > j => rows[n][k].publisher # rows[n][j].publisher}}
FieldVotes(ballots, field) == Cardinality({b \in ballots : b.field = field})
TopicVotes(ballots, key) == Cardinality({b \in ballots : b.topic.key = key})
Votes(ballots, keyword) == Cardinality({b \in ballots : keyword \in b.keywords})

\* docs/OVERVIEW.md, Labels: "one ballot per publisher (latest classify)", "field and
\* topic: plurality winner".  What the dicts of labels.py come to is the plurality
\* over the ballots as sets give them: no copy votes beside a judgement, no
\* publisher votes twice, however often it classified and reclassified.
Plurality ==
    \A n \in Nodes, c \in Cids : Labelled(n, c) =>
        LET out == consensus(rows[n], c)
            ballots == Ballots(n, c)
        IN  /\ out.voters = Cardinality(ballots)
            /\ \A b \in ballots :
                  /\ FieldVotes(ballots, b.field) <= FieldVotes(ballots, out.field.key)
                  /\ b.topic.key # "" =>
                       /\ out.topic.key # ""
                       /\ TopicVotes(ballots, b.topic.key) <= TopicVotes(ballots, out.topic.key)
            /\ out.field.votes = FieldVotes(ballots, out.field.key)

\* A message is one row, and a publisher one ballot.
TallyInv == TypeOK /\ Plurality

\* docs/OVERVIEW.md, Labels: "keywords: more agreement first, split terms last; at
\* most 10 terms".  No keyword that is left out has more votes than one shown, and
\* none is shown behind one with fewer.
AgreementFirst ==
    \A n \in Nodes, c \in Cids : Labelled(n, c) =>
        LET shown == consensus(rows[n], c).keywords
            ballots == Ballots(n, c)
        IN  /\ Len(shown) <= Kept /\ IsInjective(shown)
            /\ \A i, j \in DOMAIN shown : i < j => Votes(ballots, shown[i]) >= Votes(ballots, shown[j])
            /\ \A k \in (UNION {b.keywords : b \in ballots}) \ ToSet(shown) :
                  Len(shown) = Kept /\ Votes(ballots, k) <= Votes(ballots, shown[Kept])

\* One field has more votes than every other.
Decided(ballots) ==
    \E a \in ballots : \A b \in ballots :
        b.field # a.field => FieldVotes(ballots, b.field) < FieldVotes(ballots, a.field)

\* Nodes that count the same ballots show the same keywords in the same order and
\* the same number of voters, and the same field unless the vote is split, whatever
\* the order in which the messages came to them.
NodesAgree ==
    \A n, o \in Nodes, c \in Cids :
        n # o /\ Labelled(n, c) /\ Labelled(o, c) /\ Ballots(n, c) = Ballots(o, c) =>
            LET a == consensus(rows[n], c)
                b == consensus(rows[o], c)
            IN  /\ a.keywords = b.keywords /\ a.voters = b.voters
                /\ Decided(Ballots(n, c)) => a.field.key = b.field.key
=============================================================================
