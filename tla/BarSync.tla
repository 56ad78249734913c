------------------------------ MODULE BarSync ------------------------------
(***************************************************************************)
(* src/tidelab/service.py and coinbase.py: "tidelab sync" refreshes the    *)
(* product and reads the closed hourly bars of a range, window by window.  *)
(* Several executions may run at once.  The venue is external: it serves   *)
(* the bars that have begun, except the hours in which nothing traded, and *)
(* a bar is final when its hour has passed.                                *)
(*                                                                         *)
(* A definition commented "Deviation" is a faulty variant of the one below *)
(* it.  No specification uses it; it shows that a property notices.        *)
(***************************************************************************)
EXTENDS MarketStore

CONSTANTS
  Ranges,       \* the ranges <<start, end>> that are synchronised
  WindowBars,   \* max_candles_per_request
  MaxAttempts   \* max_attempts

ASSUME SyncAssumption ==
  /\ \A r \in Ranges : r[1] \in Nat /\ r[2] \in Nat /\ r[1] < r[2]
  /\ WindowBars \in Nat \ {0}
  /\ MaxAttempts \in Nat \ {0}

VARIABLES
  quiet,        \* the hours for which the venue has no bar
  sync          \* the local state of an execution

syncVars == <<quiet, sync>>

Local(pc) ==
  [pc |-> pc, range |-> <<0, 0>>, cursor |-> 0, received |-> None, attempt |-> 0,
   reply |-> {}, added |-> 0, tally |-> NoTally]

SyncInit(launched) ==
  sync = [p \in Sync |-> Local(IF p \in launched THEN "idle" ELSE "off")]

\* The execution ends.
Leave(p) == sync' = [sync EXCEPT ![p] = Local("done")]

-----------------------------------------------------------------------------
(* The product *)

\* refresh_product() takes the time and sends the request.
AskProduct(p) ==
  /\ sync[p].pc = "idle"
  /\ \E range \in Ranges :
       sync' = [sync EXCEPT ![p].pc = "product", ![p].range = range,
                            ![p].received = now, ![p].attempt = 1]
  /\ UNCHANGED <<storeVars, quiet, now>>

GetProduct(p) ==
  /\ sync[p].pc = "product"
  /\ UpsertInstrument(sync[p].received)
  /\ sync' = [sync EXCEPT ![p].pc = "start", ![p].received = None, ![p].attempt = 0]
  /\ UNCHANGED <<bars, archived, observations, runs, sessions, messages, quiet, now>>

-----------------------------------------------------------------------------
(* The run and its windows *)

BeginRun(p) ==
  /\ sync[p].pc = "start"
  /\ StartRun(p, sync[p].range)
  /\ sync' = [sync EXCEPT ![p].pc = "window", ![p].cursor = sync[p].range[1]]
  /\ UNCHANGED <<instrument, bars, archived, observations, sessions, messages, quiet, now>>

\* candle_windows(): the end of the window that begins at the cursor.
WindowEnd(p) ==
  LET end == sync[p].range[2] IN
  IF sync[p].cursor + WindowBars < end THEN sync[p].cursor + WindowBars ELSE end

\* The receipt time is taken before the request is sent.
AskWindow(p) ==
  /\ sync[p].pc = "window"
  /\ sync[p].cursor < sync[p].range[2]
  /\ sync' = [sync EXCEPT ![p].pc = "request", ![p].received = now, ![p].attempt = 1]
  /\ UNCHANGED <<storeVars, quiet, now>>

\* What the venue has at the time of the answer; its range includes the end.
\* The request's limit, as many bars as a window has, is taken to cut off none
\* of the window's own.
Candles(first, last) ==
  {[at |-> h, value |-> IF h < now THEN "final" ELSE "open"] :
     h \in {x \in first .. last : x <= now} \ quiet}

\* fetch_candle_window() returns, and what it returned is counted.
GetWindow(p) ==
  LET reply == Candles(sync[p].cursor, WindowEnd(p)) IN
  /\ sync[p].pc = "request"
  /\ sync' = [sync EXCEPT ![p].pc = "store", ![p].attempt = 0, ![p].reply = reply,
                          ![p].tally.fetched = @ + Cardinality(reply)]
  /\ UNCHANGED <<storeVars, quiet, now>>

\* Deviation: the attempts start again after the last one.
RetryForEver(p) ==
  /\ sync[p].pc \in {"product", "request"}
  /\ sync' = [sync EXCEPT ![p].attempt = (@ % MaxAttempts) + 1]
  /\ MaxAttempts > 1
  /\ UNCHANGED <<storeVars, quiet, now>>

\* _get_json(): HTTP 429, 5xx or a transport error, and an attempt is left.
Retry(p) ==
  /\ sync[p].pc \in {"product", "request"}
  /\ sync[p].attempt < MaxAttempts
  /\ sync' = [sync EXCEPT ![p].attempt = @ + 1]
  /\ UNCHANGED <<storeVars, quiet, now>>

-----------------------------------------------------------------------------
(* The answer *)

\* Deviation: a bar is closed if its hour has passed when it is parsed.
ClosedWhenParsed(p, candle) == candle.at + 1 <= now

\* parse_candle(): a bar is closed if its hour had passed at the receipt time.
Closed(p, candle) == candle.at + 1 <= sync[p].received

\* The candles of the answer that belong to the window.
InWindow(p) ==
  {c \in sync[p].reply : c.at >= sync[p].cursor /\ c.at < WindowEnd(p)}

Events(p) ==
  {[at |-> c.at, key |-> "ONE_HOUR", value |-> c.value, received |-> sync[p].received] :
     c \in {x \in InWindow(p) : Closed(p, x)}}

\* The candles of the window that are left out as unfinished.
Skipped(p) == {c \in InWindow(p) : ~Closed(p, c)}

\* The answer is parsed, then insert_events(): one transaction for the window.
StoreWindow(p) ==
  /\ sync[p].pc = "store"
  /\ bars' = bars \union Fresh(bars, Events(p))
  /\ sync' = [sync EXCEPT
       ![p].pc = "count",
       ![p].added = Cardinality(Fresh(bars, Events(p))),
       ![p].tally.incomplete = @ + Cardinality(Skipped(p))]
  /\ UNCHANGED <<instrument, archived, observations, runs, sessions, messages, quiet, now>>

\* Deviation: the events of the window are all counted as inserted.
CountAll(p) ==
  /\ sync[p].pc = "count"
  /\ sync' = [sync EXCEPT
       ![p].pc = "window",
       ![p].cursor = WindowEnd(p),
       ![p].received = None, ![p].reply = {}, ![p].added = 0,
       ![p].tally.inserted = @ + Cardinality(Events(p))]
  /\ UNCHANGED <<storeVars, quiet, now>>

\* Deviation: the next window begins after the end, which the venue includes.
CountPastEnd(p) ==
  /\ sync[p].pc = "count"
  /\ sync' = [sync EXCEPT
       ![p].pc = "window",
       ![p].cursor = WindowEnd(p) + 1,
       ![p].received = None, ![p].reply = {}, ![p].added = 0,
       ![p].tally.inserted = @ + sync[p].added]
  /\ UNCHANGED <<storeVars, quiet, now>>

\* These counts follow the commit, and the cursor moves to the next window.
Count(p) ==
  /\ sync[p].pc = "count"
  /\ sync' = [sync EXCEPT
       ![p].pc = "window",
       ![p].cursor = WindowEnd(p),
       ![p].received = None, ![p].reply = {}, ![p].added = 0,
       ![p].tally = [sync[p].tally EXCEPT
         !.inserted = @ + sync[p].added,
         !.duplicates = @ + Cardinality(Events(p)) - sync[p].added]]
  /\ UNCHANGED <<storeVars, quiet, now>>

-----------------------------------------------------------------------------
(* The end of an execution *)

Complete(p) ==
  /\ sync[p].pc = "window"
  /\ sync[p].cursor >= sync[p].range[2]
  /\ FinishRun(p, "complete", sync[p].tally)
  /\ Leave(p)
  /\ UNCHANGED <<instrument, bars, archived, observations, sessions, messages, quiet, now>>

\* The product cannot be refreshed: no run was started.
FailProduct(p) ==
  /\ sync[p].pc = "product"
  /\ Leave(p)
  /\ UNCHANGED <<storeVars, quiet, now>>

\* Deviation: the run is marked and the exception is not raised again.
FailAndGoOn(p) ==
  /\ sync[p].pc \in {"request", "store"}
  /\ FinishRun(p, "failed", sync[p].tally)
  /\ sync' = [sync EXCEPT ![p].pc = "window"]
  /\ UNCHANGED <<instrument, bars, archived, observations, sessions, messages, quiet, now>>

\* The counts of an execution that stops: while an answer is being parsed, some
\* of its unfinished candles have been counted.
Stopped(p) ==
  {[sync[p].tally EXCEPT !.incomplete = @ + n] :
     n \in IF sync[p].pc = "store" THEN 0 .. Cardinality(Skipped(p)) ELSE {0}}

\* An answer that is refused, the last attempt's error, a candle that cannot be
\* parsed, or a transaction that fails.
Fail(p) ==
  /\ sync[p].pc \in {"request", "store"}
  /\ \E tally \in Stopped(p) : FinishRun(p, "failed", tally)
  /\ Leave(p)
  /\ UNCHANGED <<instrument, bars, archived, observations, sessions, messages, quiet, now>>

\* KeyboardInterrupt, also between a commit and its count.
Interrupt(p) ==
  /\ sync[p].pc \in {"window", "request", "store", "count"}
  /\ \E tally \in Stopped(p) : FinishRun(p, "interrupted", tally)
  /\ Leave(p)
  /\ UNCHANGED <<instrument, bars, archived, observations, sessions, messages, quiet, now>>

\* The process dies, or cannot write its run's last state.
KillSync(p) ==
  /\ sync[p].pc \notin {"off", "idle", "done"}
  /\ Leave(p)
  /\ UNCHANGED <<storeVars, quiet, now>>

\* What an execution does when nothing stops it.
SyncStep(p) ==
  \/ GetProduct(p) \/ BeginRun(p) \/ AskWindow(p) \/ GetWindow(p) \/ Retry(p)
  \/ StoreWindow(p) \/ Count(p) \/ Complete(p) \/ FailProduct(p) \/ Fail(p)

SyncNext(p) == AskProduct(p) \/ SyncStep(p) \/ Interrupt(p) \/ KillSync(p)

=============================================================================
