---------------------------- MODULE MCIdleService ----------------------------
EXTENDS IdleService

\* Besides the default: one in which id 1 is another behaviour, and both
\* behaviours without a grace period.
MCConfigs ==
  {[on |-> {2}, fade |-> TRUE], [on |-> {1, 2}, fade |-> FALSE]}
=============================================================================
