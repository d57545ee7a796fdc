----------------------------- MODULE MCWorkQueue -----------------------------
(***************************************************************************)
(* Small instances of WorkQueue: a raw leaf, a folder that names a PDF and *)
(* itself, and that PDF.                                                   *)
(***************************************************************************)
EXTENDS WorkQueue, TLC

CONSTANTS leaf, folder, paper

CodecOf == [c \in Cids |-> IF c = leaf THEN "raw" ELSE "dag-pb"]
LinksOf == [c \in Cids |-> IF c = folder THEN <<folder, paper>> ELSE <<>>]

\* Workers are interchangeable, and so are peers.
Symmetry == Permutations(Workers) \cup Permutations(Peers)

\* Evicted CIDs and known binaries; rows that are finished or have an error.
Kept == Cardinality({c \in Cids : evicted[c] # NoRow}) + Cardinality(unprocessable)
Finished == Cardinality({c \in Rows : c \notin Live \/ cids[c].error # "none"})

\* One review, run of the janitor over the disk budget, evicted CID or known binary;
\* or a crash, which may come with one of the latter; and a finished row.  A review
\* takes the place of a WANT.
FewEvents ==
    /\ reviews + (IF janitor = "idle" THEN 0 ELSE 1) + (IF Kept > crashes THEN Kept ELSE crashes) <= 1
    /\ Finished + (IF Kept > 0 THEN crashes ELSE 0) <= 1
    /\ wants + reviews <= MaxWants
==============================================================================
