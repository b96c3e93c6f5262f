---------------------------- MODULE CommandMailbox ----------------------------
(***************************************************************************)
(* What every revisioned domain port promises of its commands (ADR-0006,   *)
(* the contract that domain_port_contract drives): a command that was      *)
(* taken in is answered, once, and an answer is never taken back.  Which   *)
(* outcome it is, in what order commands are answered and what becomes of  *)
(* the owner in between is left open.                                      *)
(*                                                                         *)
(* DeviceDaemon, IdleService and PolkitAgent implement it, each under a    *)
(* refinement mapping of its own.                                          *)
(***************************************************************************)
CONSTANTS
  Ids,       \* identities of commands
  Outcomes   \* terminal outcomes of a command

VARIABLES
  open,      \* commands taken in and not answered
  answers    \* the answers given: a set of records [id, out]

mailboxVars == <<open, answers>>

MailboxInit == open = {} /\ answers = {}

Fresh(i) == i \notin open /\ \A a \in answers : a.id # i

\* The answers of the commands in S, each with one outcome.
Given(S, out) == {[id |-> i, out |-> out[i]] : i \in S}

\* A command is taken in; others may be answered with it: the one that it
\* supersedes, or itself when it is refused.
Take(i) ==
  /\ Fresh(i)
  /\ \E S \in SUBSET (open \cup {i}) : \E out \in [S -> Outcomes] :
       /\ open' = (open \cup {i}) \ S
       /\ answers' = answers \cup Given(S, out)

\* Some of the open commands are answered.
Answer ==
  \E S \in SUBSET open : \E out \in [S -> Outcomes] :
    /\ S # {}
    /\ open' = open \ S
    /\ answers' = answers \cup Given(S, out)

MailboxNext == Answer \/ \E i \in Ids : Take(i)

MailboxSpec == MailboxInit /\ [][MailboxNext]_mailboxVars

\* The promise of the future: no command stays open.
NothingStaysOpen == \A i \in Ids : (i \in open) ~> (i \notin open)
=============================================================================
