-------------------------- MODULE MarketDataProps --------------------------
(***************************************************************************)
(* What the recorder promises of what it has stored.                       *)
(***************************************************************************)
EXTENDS MarketData

(* A stored bar is the final one, although the venue still changes it while   *)
(* its hour lasts, an answer may arrive long after its request, and a bar     *)
(* that is stored is never replaced (service.py:67, storage.py:207).          *)
BarsFinal == \A b \in bars : b.value = "final"

(* The runs' counts account for the stored bars: each bar is one row, however *)
(* often and by how many runs it was received, and the runs count no bar      *)
(* twice.  A run counts each it inserted, unless an interrupt or a death      *)
(* comes between a commit and the count that is recorded (service.py:79).     *)
BarsCounted ==
  LET counted == MapThenSumSet(LAMBDA p : runs[p].tally.inserted,
                               {p \in Sync : runs[p].status # "none"})
  IN /\ \A x, y \in bars : x.at = y.at => x = y
     /\ counted <= Cardinality(bars)
     /\ (\A p \in Sync : runs[p].status \in {"none", "complete", "failed"})
          => counted = Cardinality(bars)

(* After a complete run, a report of its range names as missing only the      *)
(* hours that the venue has no bar for and those that had not passed when the *)
(* run started: no window is passed over, neither at a boundary nor after the *)
(* last attempt of a request (coinbase.py:56, coinbase.py:137).               *)
CompleteCovers ==
  \A p \in Sync : runs[p].status = "complete" =>
    LET report == Report(runs[p].start, runs[p].end, now, 0) IN
    /\ \A h \in report.missing : h \in quiet \/ h + 1 > runs[p].started
    /\ report.stored + Cardinality(report.missing) = runs[p].end - runs[p].start
    /\ report.duplicates >= runs[p].tally.duplicates

(* The gap count never understates what is missing between the number that a  *)
(* session received first and its highest one, and never exceeds what lies    *)
(* between them, whatever order, repetition or loss the messages suffer       *)
(* (stream.py:134).                                                           *)
GapsBounded ==
  \A s \in Session :
    LET numbers == [n \in DOMAIN messages |->
                      IF messages[n][1] = s THEN messages[n][2].seq ELSE None]
        numbered == {n \in DOMAIN messages : numbers[n] # None}
        seen == {numbers[n] : n \in numbered}
        first == numbers[Min(numbered)] IN
    stream[s].pc = "receive" =>
      IF numbered = {} THEN stream[s].gaps = 0
      ELSE /\ stream[s].gaps >= Cardinality((first .. Max(seen)) \ seen)
           /\ stream[s].gaps <= Max({0, Max(seen) - first - 1})

(* An observation always has the message it was read from; a session that     *)
(* ended with a status counts exactly its messages, and a complete one has    *)
(* the observations of all of them.  Only a failure or a death leaves a       *)
(* message without its observations (stream.py:145-168).                      *)
SessionWhole ==
  \A s \in Session :
    LET mine == MessagesOf(s)
        read == UNION {Observed(s, m) : m \in mine} IN
    /\ {o \in observations : o.key[1] = s} \subseteq read
    /\ sessions[s].status \in {"complete", "failed", "interrupted"} =>
         sessions[s].count = Cardinality(mine)
    /\ sessions[s].status = "complete" => read \subseteq observations

\* What an hour of an archive comes to, from its rows as a set.
HourFromRows(d, h) ==
  LET rows == {r \in {Archive[d].rows[n] : n \in DOMAIN Archive[d].rows} :
                 r.minute \div HourRows = h}
      price(m) == (CHOOSE r \in rows : r.minute = m).price
      minutes == {r.minute : r \in rows}
      prices == {r.price : r \in rows}
  IN [open |-> price(Min(minutes)), close |-> price(Max(minutes)),
      high |-> Max(prices), low |-> Min(prices)]

(* An archive is stored as a whole and as it was read: an import that         *)
(* finished, and one that left a single bar, has all of its hours in the      *)
(* store with the values of its minutes.  A revised or conflicting archive    *)
(* leaves nothing, also when two imports overlap (okx_archive.py:147).        *)
ArchiveWhole ==
  LET finished == {import[i].digest : i \in {j \in Import : import[j].pc = "imported"}} IN
  \A d \in finished \union {b.digest : b \in archived} :
    \A h \in Archive[d].first .. Archive[d].last :
      \E b \in archived : b.at = h /\ b.value = HourFromRows(d, h)

(* Every execution that was started ends, by itself or by its failure: a      *)
(* request is not retried for ever and a capture's time passes                *)
(* (coinbase.py:56, stream.py:118).                                           *)
ExecutionsEnd ==
  <>[] /\ \A p \in Sync : sync[p].pc \in {"off", "idle", "done"}
       /\ \A s \in Session : stream[s].pc \in {"off", "idle", "done"}
       /\ \A i \in Import : import[i].pc \notin {"lookup", "insert"}

=============================================================================
