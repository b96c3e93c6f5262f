---------------------------- MODULE MCPolkitAgent ----------------------------
EXTENDS PolkitAgent, TLC

\* Nothing in the agent depends on which cookie a request has.
CookieSymmetry == Permutations(Cookies)
=============================================================================
