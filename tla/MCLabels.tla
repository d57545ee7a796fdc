------------------------------ MODULE MCLabels ------------------------------
(***************************************************************************)
(* Three publishers: one that classifies twice, one that agrees with its   *)
(* first opinion and spells the topic in another way, and one that copies  *)
(* a label and has an opinion of its own, without a topic, as well.        *)
(***************************************************************************)
EXTENDS Labels

NodeSymmetry == Permutations(Nodes)

Classify(cid, publisher, kind, field, key, shown, keywords) ==
    [cid |-> cid, publisher |-> publisher, kind |-> kind, field |-> field,
     topic |-> [key |-> key, shown |-> shown], keywords |-> keywords]

Messages ==
    {Classify("c1", "p1", "llm", "biology", "crispr", "CRISPR", {2, 3}),
     Classify("c1", "p1", "llm", "physics", "optics", "optics", {1, 3}),
     Classify("c1", "p2", "llm", "biology", "crispr", "Crispr", {1, 2, 4}),
     Classify("c1", "p3", "reuse", "physics", "optics", "Optics", {4, 5}),
     Classify("c1", "p3", "llm", "law", "", "", {3, 5})}
=============================================================================
