--------------------------- MODULE StreamCapture ---------------------------
(***************************************************************************)
(* src/tidelab/stream.py: "tidelab stream" records the public feed for a   *)
(* while.  The feed is external: it delivers messages late, twice or not   *)
(* at all.  A message is its sequence number, channel and candles; one     *)
(* without a number acknowledges a subscription, and no number is used for *)
(* two contents.                                                           *)
(*                                                                         *)
(* A definition commented "Deviation" is a faulty variant of the one below *)
(* it.  No specification uses it; it shows that a property notices.        *)
(***************************************************************************)
EXTENDS MarketStore

CONSTANTS
  Message,      \* records [seq, channel, candles]
  Product       \* the product that is recorded

ASSUME MessageAssumption ==
  /\ \A m \in Message : m.seq \in Nat \union {None}
  /\ \A m, n \in Message : m.seq = n.seq => m = n

VARIABLE stream \* the local state of an execution

Recorder(pc) ==
  [pc |-> pc, expired |-> FALSE, message |-> None, last |-> None, gaps |-> 0, count |-> 0]

StreamInit(launched) ==
  stream = [s \in Session |-> Recorder(IF s \in launched THEN "idle" ELSE "off")]

StreamAt(s, pc) == stream' = [stream EXCEPT ![s].pc = pc]

-----------------------------------------------------------------------------

\* Deviation: one gap is counted, however many messages are missing.
MissingGap(previous, current) ==
  IF previous = None \/ current = None \/ current <= previous + 1 THEN 0 ELSE 1

\* missing_sequence_count
Missing(previous, current) ==
  IF previous = None \/ current = None \/ current <= previous + 1
  THEN 0 ELSE current - previous - 1

\* parse_websocket_events: what a candle message says about the product.
Observed(s, m) ==
  {[at |-> c.at, key |-> <<s, m.seq>>] :
     c \in {x \in m.candles : m.channel = "candles" /\ x.product = Product}}

-----------------------------------------------------------------------------

OpenStream(s) ==
  /\ stream[s].pc = "idle"
  /\ StartSession(s)
  /\ StreamAt(s, "connect")
  /\ UNCHANGED <<instrument, bars, archived, observations, runs, messages, now>>

\* The connection is made and the channels are subscribed.
Connect(s) ==
  /\ stream[s].pc = "connect"
  /\ StreamAt(s, "receive")
  /\ UNCHANGED <<storeVars, now>>

\* The time for which the stream is recorded has passed.
Expire(s) ==
  /\ stream[s].pc \notin {"off", "idle", "connect", "done"}
  /\ ~stream[s].expired
  /\ stream' = [stream EXCEPT ![s].expired = TRUE]
  /\ UNCHANGED <<storeVars, now>>

\* The gap is counted, and the number kept, before the message is looked up.
Receive(s, m) ==
  /\ stream[s].pc = "receive"
  /\ ~stream[s].expired
  /\ stream' = [stream EXCEPT
       ![s].pc = "save", ![s].message = m,
       ![s].gaps = @ + Missing(stream[s].last, m.seq),
       ![s].last = IF m.seq > @ THEN m.seq ELSE @]
  /\ UNCHANGED <<storeVars, now>>

\* Deviation: a repeated message is counted as well.
SaveCounting(s) ==
  /\ stream[s].pc = "save"
  /\ LET m == stream[s].message IN
       /\ messages' = IF m \in MessagesOf(s) THEN messages ELSE Append(messages, <<s, m>>)
       /\ stream' = [stream EXCEPT
            ![s].pc = IF Observed(s, m) = {} THEN "receive" ELSE "parse",
            ![s].message = IF Observed(s, m) = {} THEN None ELSE m,
            ![s].count = @ + 1]
  /\ UNCHANGED <<instrument, bars, archived, observations, runs, sessions, now>>

\* insert_stream_message(); the identity of a message includes its session and
\* content, and a repeated one is passed over.
Save(s) ==
  /\ stream[s].pc = "save"
  /\ LET m == stream[s].message
         known == m \in MessagesOf(s)
         passed == known \/ Observed(s, m) = {} IN
       /\ messages' = IF known THEN messages ELSE Append(messages, <<s, m>>)
       /\ stream' = [stream EXCEPT
            ![s].pc = IF passed THEN "receive" ELSE "parse",
            ![s].message = IF passed THEN None ELSE m,
            ![s].count = IF known THEN @ ELSE @ + 1]
  /\ UNCHANGED <<instrument, bars, archived, observations, runs, sessions, now>>

Parse(s) ==
  /\ stream[s].pc = "parse"
  /\ observations' = observations \union
       Fresh(observations, Observed(s, stream[s].message))
  /\ stream' = [stream EXCEPT ![s].pc = "receive", ![s].message = None]
  /\ UNCHANGED <<instrument, bars, archived, runs, sessions, messages, now>>

Close(s, status) ==
  /\ FinishSession(s, status, stream[s].count, stream[s].gaps)
  /\ stream' = [stream EXCEPT ![s] = Recorder("done")]
  /\ UNCHANGED <<instrument, bars, archived, observations, runs, messages, now>>

EndStream(s) == stream[s].pc = "receive" /\ stream[s].expired /\ Close(s, "complete")

\* The connection breaks, a message cannot be parsed or a transaction fails.
Break(s) == stream[s].pc \in {"connect", "receive", "save", "parse"} /\ Close(s, "failed")

\* A cancellation arrives where the execution awaits.
Cancel(s) == stream[s].pc \in {"connect", "receive"} /\ Close(s, "interrupted")

KillStream(s) ==
  /\ stream[s].pc \notin {"off", "idle", "done"}
  /\ stream' = [stream EXCEPT ![s] = Recorder("done")]
  /\ UNCHANGED <<storeVars, now>>

\* What an execution does when nothing stops it.
StreamStep(s) ==
  \/ Connect(s) \/ Save(s) \/ Parse(s) \/ EndStream(s) \/ Break(s)
  \/ \E m \in Message : Receive(s, m)

StreamNext(s) ==
  OpenStream(s) \/ StreamStep(s) \/ Expire(s) \/ Cancel(s) \/ KillStream(s)

=============================================================================
