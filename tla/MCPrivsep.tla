----------------------------- MODULE MCPrivsep -----------------------------
EXTENDS Privsep

\* ping is the call of exchange_ping.
CONSTANTS ping, c1, c2, c3, c4, w1, w2
=============================================================================
