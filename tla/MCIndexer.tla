----------------------------- MODULE MCIndexer -----------------------------
(***************************************************************************)
(* Two cids with one text, two workers and one peer.  The peer speaks of   *)
(* the cid that is queued at the start; the other comes in by a WANT.      *)
(***************************************************************************)
EXTENDS Indexer

OneText == [c \in Cids |-> "text"]
Messages ==
    [by : Peers, kind : {"llm", "skip", "claim", "wrong"}, cid : Queued]
\* A label that is not a vote of its own, so that no second vote is asked for.
ReviewMessages ==
    [by : Peers, kind : {"reuse", "wrong"}, cid : Queued]
ServiceSpec == Service!Spec
=============================================================================
