---------------------------- MODULE MarketStore ----------------------------
(***************************************************************************)
(* src/tidelab/storage.py: the local SQLite store of public market data.   *)
(* Every method of TideStore opens a connection, makes one transaction and *)
(* closes it, so a call takes effect in one step, or, when it raises or    *)
(* its process dies, not at all.                                           *)
(*                                                                         *)
(* market_events is modelled by the three disjoint parts its writers make: *)
(* the REST bars, the archive's bars and the stream's observations.  Time  *)
(* is counted in hours: bar h covers [h, h + 1), and "now" stands for an   *)
(* instant of [now, now + 1).                                              *)
(***************************************************************************)
EXTENDS Integers, FiniteSets, FiniteSetsExt, Sequences

CONSTANTS
  Sync,         \* executions of "tidelab sync", each making at most one run
  Session       \* executions of "tidelab stream"

ASSUME StoreAssumption == IsFiniteSet(Sync)

VARIABLES
  now,          \* utc_now(), in hours
  instrument,   \* instruments: fetched_at_utc of the product, or None
  bars,         \* market_events of source coinbase.public_rest.candles
  archived,     \* market_events of the archive's source
  observations, \* market_events of type candle_observation
  runs,         \* ingestion_runs, by the execution that started it
  sessions,     \* stream_sessions
  messages      \* stream_messages: the rows <<session, message>> in their order

storeVars == <<instrument, bars, archived, observations, runs, sessions, messages>>

\* Python's None where a number is meant.
None == -1

NoRow == [status |-> "none"]

NoTally == [fetched |-> 0, inserted |-> 0, duplicates |-> 0, incomplete |-> 0]

StoreInit ==
  /\ instrument = None
  /\ bars = {} /\ archived = {} /\ observations = {} /\ messages = <<>>
  /\ runs = [p \in Sync |-> NoRow]
  /\ sessions = [s \in Session |-> NoRow]

UpsertInstrument(fetched) == instrument' = fetched

-----------------------------------------------------------------------------
(* market_events *)

\* MarketEvent.event_id: neither the payload nor the receipt is part of it.
EventId(e) == <<e.at, e.key>>

\* INSERT OR IGNORE: the events whose identity the table does not hold.
Fresh(table, events) ==
  {e \in events : \A x \in table : EventId(x) # EventId(e)}

-----------------------------------------------------------------------------
(* ingestion_runs, stream_sessions, stream_messages *)

StartRun(p, range) ==
  runs' = [runs EXCEPT ![p] =
    [status |-> "running", start |-> range[1], end |-> range[2],
     started |-> now, tally |-> NoTally]]

FinishRun(p, status, tally) ==
  runs' = [runs EXCEPT ![p].status = status, ![p].tally = tally]

\* The messages of a session.
MessagesOf(s) == {row[2] : row \in {messages[n] : n \in {k \in DOMAIN messages : messages[k][1] = s}}}

StartSession(s) ==
  sessions' = [sessions EXCEPT ![s] = [status |-> "running", count |-> 0, gaps |-> 0]]

FinishSession(s, status, count, gaps) ==
  sessions' = [sessions EXCEPT ![s] = [status |-> status, count |-> count, gaps |-> gaps]]

-----------------------------------------------------------------------------
(* hourly_report *)

Report(start, end, at, staleAfter) ==
  LET expected == start .. end - 1
      stored   == {b.at : b \in {x \in bars : x.at \in expected}}
      complete == {p \in Sync : /\ runs[p].status = "complete"
                                /\ runs[p].start = start
                                /\ runs[p].end = end}
      close    == IF stored = {} THEN None ELSE Max(stored) + 1
      age      == IF at > close THEN at - close ELSE 0
  IN [missing    |-> expected \ stored,
      stored     |-> Cardinality(stored),
      duplicates |-> MapThenSumSet(LAMBDA p : runs[p].tally.duplicates, complete),
      incomplete |-> MapThenSumSet(LAMBDA p : runs[p].tally.incomplete, complete),
      stale      |-> close = None \/ age > staleAfter]

=============================================================================
