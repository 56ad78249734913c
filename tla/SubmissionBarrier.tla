------------------------- MODULE SubmissionBarrier -------------------------
(***************************************************************************)
(* What the paper authority promises, whatever the source behind it        *)
(* (docs/evidence/TL-002-PAPER-INTENT-BARRIER.md): client identities are   *)
(* admitted one at a time, each is submitted at most once and only while   *)
(* it is the open one, and the next one is admitted only after a source    *)
(* resolved an open one that had been submitted.  SyntheticPaper, H1Handoff *)
(* and LeanPaperJoin implement this specification.                         *)
(***************************************************************************)
EXTENDS FiniteSets

CONSTANT ClientId

VARIABLES
  open,         \* admitted and not resolved: at most one client
  sent,         \* clients whose order reached the source
  closed        \* resolved clients

vars == <<open, sent, closed>>

TypeOK ==
  /\ open \subseteq ClientId
  /\ sent \subseteq ClientId
  /\ closed \subseteq ClientId

Init == open = {} /\ sent = {} /\ closed = {}

\* The first client, or one after the authority was left without an open one.
Admit(c) ==
  /\ open = {}
  /\ c \notin closed
  /\ open' = {c}
  /\ UNCHANGED <<sent, closed>>

Send(c) ==
  /\ c \in open
  /\ c \notin sent
  /\ sent' = sent \union {c}
  /\ UNCHANGED <<open, closed>>

\* A source resolves the open client and admits its successor in one step.
HandOver(c, d) ==
  /\ open = {c}
  /\ c \in sent
  /\ d \notin closed \union {c}
  /\ open' = {d}
  /\ closed' = closed \union {c}
  /\ UNCHANGED sent

Next ==
  \/ \E c \in ClientId : Admit(c) \/ Send(c)
  \/ \E c, d \in ClientId : HandOver(c, d)

Spec == Init /\ [][Next]_vars

\* The order book the promise amounts to: at most one client is open, closed
\* ones stay closed, and everything sent is the open client or a closed one.
Inv ==
  /\ TypeOK
  /\ \A c, d \in open : c = d
  /\ open \intersect closed = {}
  /\ closed \subseteq sent
  /\ sent \subseteq open \union closed

=============================================================================
