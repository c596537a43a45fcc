------------------------- MODULE MCPeerNegotiation -------------------------
\* The values of the constants of PeerNegotiation for TLC.
EXTENDS PeerNegotiation
OneCandidate == <<"c1">>
TwoCandidates == <<"c1", "c2">>
=============================================================================
