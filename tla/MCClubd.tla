------------------------------ MODULE MCClubd ------------------------------
(***************************************************************************)
(* Payloads for the model-checking runs of Clubd.                          *)
(***************************************************************************)
EXTENDS Clubd

CONSTANTS p1, self, c1, c2

Plain(k, p, c) == [kind |-> k, publisher |-> p, cid |-> c, until |-> 0]
Claim(p, c, u) == [kind |-> "claim", publisher |-> p, cid |-> c, until |-> u]

\* A peer's claims on two cids and its classify of the first; and this node's own
\* claim and classify of a cid, which snapshots bring back.
PeerPayloads == {Claim(p1, c1, 2), Claim(p1, c2, 2), Plain("classify", p1, c1)}
OwnPayloads == {Claim(self, c2, 2), Plain("classify", self, c2)}
InboxUniverse == PeerPayloads \cup OwnPayloads

\* The payloads of one state are of one of the two sets.
OneOfInbox ==
    \E S \in {PeerPayloads, OwnPayloads} :
        \A m \in Universe : m \in Hashed \/ InFlight(m) => m \in S

\* Several payloads of one publisher, on two topics.
RateUniverse ==
    {Plain("classify", p1, c1), Plain("classify", p1, c2), Plain("report", p1, c1)}
=============================================================================
