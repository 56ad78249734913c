--------------------------- MODULE ArchiveImport ---------------------------
(***************************************************************************)
(* src/tidelab/okx_archive.py: "tidelab import-okx" reads a downloaded     *)
(* archive of minute rows and stores its hourly bars, in one transaction   *)
(* that begins with the first bar to insert: the lookups before it see     *)
(* what is committed at their time.                                        *)
(*                                                                         *)
(* A row is its minute and one price, which stands for open, high, low and *)
(* close; the checks of a single row's columns and decimals are left out.  *)
(*                                                                         *)
(* A definition commented "Deviation" is a faulty variant of the one below *)
(* it.  No specification uses it; it shows that a property notices.        *)
(***************************************************************************)
EXTENDS MarketStore, SequencesExt

CONSTANTS
  Import,       \* executions of "tidelab import-okx"
  Archive,      \* the local files, by digest: [first, last, rows]
  HourRows,     \* minutes in an hour
  FinalAge      \* the age at which a period is taken to be final

ASSUME ArchiveAssumption ==
  /\ HourRows \in Nat \ {0} /\ FinalAge \in Nat
  /\ \A d \in DOMAIN Archive :
       /\ Archive[d].first \in Int /\ Archive[d].last \in Int
       /\ Archive[d].first <= Archive[d].last
       /\ Archive[d].rows \in Seq([minute : Int, price : Int])

VARIABLE import \* the local state of an execution

ImportInit(launched) ==
  import = [i \in Import |->
    [pc |-> IF i \in launched THEN "idle" ELSE "off", digest |-> "none",
     from |-> None, inserted |-> 0]]

-----------------------------------------------------------------------------
(* _read_events *)

\* The minutes of the period, from its first hour to its last.
Minutes(d) ==
  Archive[d].first * HourRows .. (Archive[d].last + 1) * HourRows - 1

HourOf(rows) ==
  [at |-> rows[1].minute \div HourRows,
   value |-> [open |-> rows[1].price, close |-> rows[Len(rows)].price,
              high |-> Max({rows[n].price : n \in DOMAIN rows}),
              low |-> Min({rows[n].price : n \in DOMAIN rows})]]

\* One row: outside of the period, the previous one again, another row of the
\* same minute, out of order, or the next minute of its hour.
TakeRow(d, acc, row) ==
  LET group == Append(acc.group, row)
      full  == Len(group) = HourRows
      first == acc.previous = NoRow
      again == ~first /\ row = acc.previous
      right == /\ acc.valid /\ row.minute \in Minutes(d)
               /\ first \/ again \/ row.minute = acc.previous.minute + 1 IN
  CASE ~right -> [acc EXCEPT !.valid = FALSE]
    [] right /\ again -> acc
    [] OTHER ->
       [valid |-> TRUE, previous |-> row,
        group |-> IF full THEN <<>> ELSE group,
        hours |-> IF full THEN acc.hours \union {HourOf(group)} ELSE acc.hours,
        count |-> acc.count + 1]

\* What reading an archive comes to.
Read ==
  [d \in DOMAIN Archive |->
     FoldLeft(LAMBDA acc, row : TakeRow(d, acc, row),
       [valid |-> TRUE, previous |-> NoRow, group |-> <<>>, hours |-> {}, count |-> 0],
       Archive[d].rows)]

IsComplete(d) ==
  /\ Read[d].valid
  /\ Read[d].group = <<>>
  /\ Read[d].count = Cardinality(Minutes(d))

\* The bars of an archive as they are stored.
BarsOf ==
  [d \in DOMAIN Archive |->
     {[at |-> h.at, key |-> "1h", value |-> h.value, digest |-> d] : h \in Read[d].hours}]

-----------------------------------------------------------------------------
(* import_okx_archive *)

\* _read_events() raises, or returns the bars.
ReadArchive(i, d) ==
  /\ import[i].pc = "idle"
  /\ import' = [import EXCEPT
       ![i].pc = IF now >= Archive[d].last + 1 + FinalAge /\ IsComplete(d)
                 THEN "lookup" ELSE "refused",
       ![i].digest = d]
  /\ UNCHANGED <<storeVars, now>>

Stored(b) == {x \in archived : EventId(x) = EventId(b)}

\* Deviation: what is stored already is taken for the same.
RevisesNothing(b) == FALSE

\* A stored bar of the same identity has another payload.
Revises(b) == \E x \in Stored(b) : x.value # b.value

\* The lookups up to the first bar that is not stored, which no transaction
\* covers; a stored bar never changes, so they count at the time of the last.
Lookup(i) ==
  /\ import[i].pc = "lookup"
  /\ LET all == BarsOf[import[i].digest]
         absent == {b.at : b \in {x \in all : Stored(x) = {}}}
         prefix == {b \in all : \A h \in absent : b.at < h} IN
       import' = [import EXCEPT
         ![i].pc = IF \E b \in prefix : Revises(b) THEN "refused"
                   ELSE IF absent = {} THEN "imported" ELSE "insert",
         ![i].from = IF absent = {} THEN None ELSE Min(absent)]
  /\ UNCHANGED <<storeVars, now>>

\* The transaction: it inserts the first bar, which raises if another import
\* has stored it since, and looks up and inserts the rest.
Insert(i) ==
  /\ import[i].pc = "insert"
  /\ LET rest == {b \in BarsOf[import[i].digest] : b.at >= import[i].from}
         refused == \E b \in rest :
                      Revises(b) \/ (b.at = import[i].from /\ Stored(b) # {})
         fresh == IF refused THEN {} ELSE Fresh(archived, rest) IN
       /\ archived' = archived \union fresh
       /\ import' = [import EXCEPT
            ![i].pc = IF refused THEN "refused" ELSE "imported",
            ![i].inserted = Cardinality(fresh)]
  /\ UNCHANGED <<instrument, bars, observations, runs, sessions, messages, now>>

\* The process dies, or its transaction fails.
KillImport(i) ==
  /\ import[i].pc \in {"lookup", "insert"}
  /\ import' = [import EXCEPT ![i].pc = "dead"]
  /\ UNCHANGED <<storeVars, now>>

ImportStep(i) == Lookup(i) \/ Insert(i)

ImportNext(i) ==
  (\E d \in DOMAIN Archive : ReadArchive(i, d)) \/ ImportStep(i) \/ KillImport(i)

=============================================================================
