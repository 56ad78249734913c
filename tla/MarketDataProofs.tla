-------------------------- MODULE MarketDataProofs --------------------------
(***************************************************************************)
(* Proofs about MarketData for any sets of executions, messages and        *)
(* archives, any ranges, windows and clock: what the recorder has stored   *)
(* of the REST bars is final, a stream session is whole and bounds what it *)
(* has missed, the runs' counts add up, a complete run covers its range,   *)
(* and an archive is stored as a whole.                                    *)
(***************************************************************************)
EXTENDS MarketDataProps, FiniteSetTheorems, WellFoundedInduction, TLAPS

-----------------------------------------------------------------------------
(* The bars *)

\* What an execution keeps of a request: the time it was sent, and an answer
\* whose open bars had not passed by then.
Requested(p) ==
  /\ DOMAIN sync[p] = DOMAIN Local("idle")
  /\ sync[p].range[1] \in Int /\ sync[p].range[2] \in Int /\ sync[p].cursor \in Int
  /\ sync[p].pc \in {"request", "store"} =>
       sync[p].received \in Int /\ sync[p].received <= now
  /\ sync[p].pc = "store" =>
       \A c \in sync[p].reply :
         /\ c.at \in Int
         /\ c.value \in {"open", "final"}
         /\ c.value = "open" => c.at >= sync[p].received

BarsInv ==
  /\ now \in Int
  /\ DOMAIN sync = Sync
  /\ \A p \in Sync : Requested(p)
  /\ BarsFinal

\* No bar is stored and nothing requested in the beginning.
LEMMA BarsInitially == Init => BarsInv
<1> SUFFICES ASSUME Init PROVE BarsInv
  OBVIOUS
<1>1. PICK scenario \in Scenario : SyncInit(scenario.launched)
  BY DEF Init
<1> QED
  BY <1>1 DEF Init, StoreInit, SyncInit, Local, BarsInv, Requested, BarsFinal

\* The end of a window is a number.
LEMMA WindowEndInt ==
  ASSUME SyncAssumption, NEW p \in Sync, Requested(p)
  PROVE  WindowEnd(p) \in Int
BY DEF SyncAssumption, Requested, WindowEnd

\* One execution's step leaves the requests of the others alone.
LEMMA RequestsApart ==
  ASSUME BarsInv, NEW p \in Sync, SyncNext(p)
  PROVE  /\ now' = now
         /\ DOMAIN sync' = Sync
         /\ \A q \in Sync \ {p} : Requested(q)'
<1>1. /\ now' = now
      /\ DOMAIN sync' = Sync
      /\ \A q \in Sync \ {p} : sync'[q] = sync[q]
  BY DEF BarsInv, SyncNext, SyncStep, AskProduct, GetProduct, BeginRun, AskWindow, GetWindow,
         Retry, StoreWindow, Count, Complete, FailProduct, Fail, Interrupt, KillSync, Leave
<1> QED
  BY <1>1 DEF BarsInv, Requested

\* Nothing but the insertion of a window writes bars.
LEMMA RequestKept ==
  ASSUME SyncAssumption, BarsInv, NEW p \in Sync, SyncNext(p)
  PROVE  Requested(p)'
<1> USE DEF BarsInv
<1>1. CASE AskProduct(p)
  BY <1>1 DEF AskProduct, SyncAssumption, Requested, Local
<1>2. CASE GetProduct(p)
  BY <1>2 DEF GetProduct, Requested, Local
<1>3. CASE BeginRun(p)
  BY <1>3 DEF BeginRun, Requested, Local
<1>4. CASE AskWindow(p)
  BY <1>4 DEF AskWindow, Requested, Local
<1>5. CASE GetWindow(p)
  <2>1. \A c \in Candles(sync[p].cursor, WindowEnd(p)) :
          /\ c.at \in Int
          /\ c.value \in {"open", "final"}
          /\ c.value = "open" => c.at >= now
    BY WindowEndInt DEF Requested, Candles
  <2> QED
    BY <1>5, <2>1 DEF GetWindow, Requested, Local
<1>6. CASE Retry(p)
  BY <1>6 DEF Retry, Requested, Local
<1>7. CASE StoreWindow(p)
  BY <1>7 DEF StoreWindow, Requested, Local
<1>8. CASE Count(p)
  BY <1>8, WindowEndInt DEF Count, Requested, Local
<1>9. CASE Complete(p) \/ FailProduct(p) \/ Fail(p) \/ Interrupt(p) \/ KillSync(p)
  BY <1>9 DEF Complete, FailProduct, Fail, Interrupt, KillSync, Leave, Requested, Local
<1> QED
  BY <1>1, <1>2, <1>3, <1>4, <1>5, <1>6, <1>7, <1>8, <1>9 DEF SyncNext, SyncStep

\* A bar that is inserted was closed at its request, so the answer had it final.
LEMMA InsertedFinal ==
  ASSUME SyncAssumption, BarsInv, NEW p \in Sync, StoreWindow(p)
  PROVE  BarsFinal'
<1>1. sync[p].pc = "store"
  BY DEF StoreWindow
<1>2. \A e \in Events(p) : e.value = "final"
  BY <1>1 DEF BarsInv, Requested, Events, InWindow, Closed
<1> QED
  BY <1>2 DEF BarsInv, BarsFinal, StoreWindow, Fresh

\* Every step of the recorder keeps the bars.
LEMMA BarsStep ==
  ASSUME SyncAssumption, BarsInv, [Next]_vars
  PROVE  BarsInv'
<1>1. CASE Tick
  BY <1>1 DEF Tick, storeVars, syncVars, BarsInv, Requested, BarsFinal
<1>2. ASSUME NEW p \in Sync, SyncNext(p)
      PROVE  BarsInv'
  <2>1. BarsFinal'
    <3>1. CASE StoreWindow(p)
      BY <3>1, InsertedFinal
    <3>2. CASE ~StoreWindow(p)
      BY <1>2, <3>2 DEF BarsInv, BarsFinal, SyncNext, SyncStep, AskProduct, GetProduct, BeginRun,
           AskWindow, GetWindow, Retry, Count, Complete, FailProduct, Fail, Interrupt, KillSync,
           storeVars
    <3> QED
      BY <3>1, <3>2
  <2> QED
    BY <1>2, <2>1, RequestsApart, RequestKept DEF BarsInv
<1>3. ASSUME NEW s \in Session, StreamNext(s), UNCHANGED syncVars
      PROVE  BarsInv'
  BY <1>3 DEF StreamNext, StreamStep, OpenStream, Connect, Save, Parse, EndStream, Break, Receive,
       Expire, Cancel, KillStream, Close, storeVars, syncVars, BarsInv, Requested, BarsFinal
<1>4. ASSUME NEW i \in Import, ImportNext(i), UNCHANGED syncVars
      PROVE  BarsInv'
  BY <1>4 DEF ImportNext, ImportStep, ReadArchive, Lookup, Insert, KillImport, storeVars, syncVars,
       BarsInv, Requested, BarsFinal
<1>5. CASE UNCHANGED vars
  BY <1>5 DEF vars, storeVars, syncVars, BarsInv, Requested, BarsFinal
<1> QED
  BY <1>1, <1>2, <1>3, <1>4, <1>5 DEF Next

\* Every stored bar is the final one, for any number of overlapping
\* synchronisations, retries, deaths and ticks of the clock between a request
\* and its answer.
THEOREM BarsFinalHolds == Spec => []BarsFinal
<1>1. Init => BarsInv
  BY BarsInitially
<1>2. BarsInv /\ [Next]_vars => BarsInv'
  BY SyncAssumption, BarsStep
<1>3. BarsInv => BarsFinal
  BY DEF BarsInv
<1> QED
  BY <1>1, <1>2, <1>3, PTL DEF Spec

-----------------------------------------------------------------------------
(* The sessions *)

\* What a capture that runs knows of its messages: their number, and that all
\* but the one in hand have their observations.
Running(s) ==
  /\ sessions[s].status = "running"
  /\ stream[s].count = Cardinality(MessagesOf(s))
  /\ \A m \in MessagesOf(s) :
       ~(stream[s].pc = "parse" /\ m = stream[s].message) =>
         Observed(s, m) \subseteq observations
  /\ stream[s].pc \in {"save", "parse"} => stream[s].message \in Message
  /\ stream[s].pc = "parse" => stream[s].message \in MessagesOf(s)

Ended(s) ==
  /\ sessions[s].status \in {"complete", "failed", "interrupted"} =>
       sessions[s].count = Cardinality(MessagesOf(s))
  /\ sessions[s].status = "complete" =>
       \A m \in MessagesOf(s) : Observed(s, m) \subseteq observations

SessionInv(s) ==
  /\ DOMAIN stream[s] = DOMAIN Recorder("idle")
  /\ IsFiniteSet(MessagesOf(s))
  /\ MessagesOf(s) \subseteq Message
  /\ stream[s].pc \in {"off", "idle"} =>
       MessagesOf(s) = {} /\ sessions[s].status = "none" /\ stream[s].count = 0
  /\ stream[s].pc \in {"connect", "receive", "save", "parse"} => Running(s)
  /\ stream[s].pc \in {"off", "idle", "connect", "receive", "save", "parse", "done"}
  /\ stream[s].pc = "done" => Ended(s)
  /\ \A o \in observations :
       o.key[1] = s => \E m \in MessagesOf(s) : o \in Observed(s, m)

StreamInv ==
  /\ messages \in Seq(Session \X Message)
  /\ DOMAIN stream = Session
  /\ DOMAIN sessions = Session
  /\ \A o \in observations : \E s \in Session, m \in Message : o \in Observed(s, m)
  /\ \A s \in Session : SessionInv(s)

\* A row of a session adds its message to that session's and to no other's.
LEMMA Appended ==
  ASSUME NEW s \in Session, NEW m \in Message, messages \in Seq(Session \X Message),
         messages' = Append(messages, <<s, m>>)
  PROVE  /\ messages' \in Seq(Session \X Message)
         /\ MessagesOf(s)' = MessagesOf(s) \union {m}
         /\ \A q \in Session \ {s} : MessagesOf(q)' = MessagesOf(q)
<1>1. /\ DOMAIN messages' = DOMAIN messages \union {Len(messages) + 1}
      /\ \A k \in DOMAIN messages : messages'[k] = messages[k]
      /\ messages'[Len(messages) + 1] = <<s, m>>
      /\ Len(messages) + 1 \notin DOMAIN messages
      /\ messages' \in Seq(Session \X Message)
  OBVIOUS
<1>2. ASSUME NEW q \in Session
      PROVE  \A x : x \in MessagesOf(q)' <=> x \in MessagesOf(q) \/ (q = s /\ x = m)
  BY <1>1 DEF MessagesOf
<1> QED
  BY <1>1, <1>2

\* Nothing is captured in the beginning.
LEMMA StreamInitially == Init => StreamInv
<1> SUFFICES ASSUME Init PROVE StreamInv
  OBVIOUS
<1>1. PICK scenario \in Scenario : StreamInit(scenario.launched)
  BY DEF Init
<1>2. /\ messages = <<>> /\ observations = {}
      /\ sessions = [s \in Session |-> NoRow]
  BY DEF Init, StoreInit
<1>3. ASSUME NEW s \in Session
      PROVE  SessionInv(s)
  <2>1. MessagesOf(s) = {}
    BY <1>2 DEF MessagesOf
  <2>2. /\ DOMAIN stream[s] = DOMAIN Recorder("idle")
        /\ stream[s].pc \in {"idle", "off"}
        /\ stream[s].count = 0
        /\ sessions[s].status = "none"
    BY <1>1, <1>2 DEF StreamInit, Recorder, NoRow
  <2> QED
    BY <1>2, <2>1, <2>2, FS_EmptySet DEF SessionInv
<1> QED
  BY <1>1, <1>2, <1>3 DEF StreamInit, StreamInv

\* The observations of one message are told apart by its session.
LEMMA ObservedKey ==
  \A s, m : \A o \in Observed(s, m) : o.key[1] = s
BY DEF Observed

\* What a step that is not of the session s leaves as it is.
LEMMA SessionKept ==
  ASSUME NEW s \in Session, SessionInv(s),
         stream'[s] = stream[s], sessions'[s] = sessions[s], MessagesOf(s)' = MessagesOf(s),
         observations \subseteq observations',
         \A o \in observations' : o.key[1] = s => o \in observations
  PROVE  SessionInv(s)'
<1>1. Running(s) => Running(s)'
  BY DEF Running
<1>2. Ended(s) => Ended(s)'
  BY DEF Ended
<1> QED
  BY <1>1, <1>2 DEF SessionInv

\* A step that writes neither the messages nor the observations, and changes
\* only what is kept of the session s.
LEMMA OtherSessions ==
  ASSUME StreamInv, NEW s \in Session,
         UNCHANGED <<messages, observations>>,
         \A q \in Session \ {s} : stream'[q] = stream[q] /\ sessions'[q] = sessions[q]
  PROVE  \A q \in Session \ {s} : SessionInv(q)'
<1> SUFFICES ASSUME NEW q \in Session \ {s} PROVE SessionInv(q)'
  OBVIOUS
<1>1. MessagesOf(q)' = MessagesOf(q)
  BY DEF MessagesOf
<1> QED
  BY <1>1, SessionKept DEF StreamInv

\* The transaction that saves a message keeps the captures.
LEMMA SaveKeeps ==
  ASSUME StreamInv, NEW s \in Session, Save(s)
  PROVE  StreamInv'
<1> DEFINE m == stream[s].message
<1> USE DEF StreamInv
<1>1. SessionInv(s) /\ Running(s) /\ m \in Message
  BY DEF Save, SessionInv, Running
<1>2. /\ UNCHANGED <<observations, sessions>>
      /\ DOMAIN stream' = Session
      /\ \A q \in Session \ {s} : stream'[q] = stream[q]
      /\ DOMAIN stream'[s] = DOMAIN stream[s]
  BY DEF Save
<1>3. ASSUME MessagesOf(s)' = MessagesOf(s) \union {m}, IsFiniteSet(MessagesOf(s)'),
             stream'[s].count = Cardinality(MessagesOf(s)'),
             \/ stream'[s].pc = "receive" /\ (m \in MessagesOf(s) \/ Observed(s, m) = {})
             \/ stream'[s].pc = "parse" /\ stream'[s].message = m
      PROVE  SessionInv(s)'
  <2>1. /\ sessions'[s].status = "running"
        /\ stream[s].pc = "save"
    BY <1>1, <1>2 DEF Save, Running
  <2>2. ASSUME NEW x \in MessagesOf(s)', ~(stream'[s].pc = "parse" /\ x = stream'[s].message)
        PROVE  Observed(s, x) \subseteq observations'
    BY <1>1, <1>2, <1>3, <2>1, <2>2 DEF Running
  <2>3. Running(s)'
    BY <1>1, <1>3, <2>1, <2>2 DEF Running
  <2> QED
    BY <1>1, <1>2, <1>3, <2>3 DEF SessionInv
<1>4. ASSUME NEW q \in Session \ {s}, MessagesOf(q)' = MessagesOf(q)
      PROVE  SessionInv(q)'
  BY <1>2, <1>4, SessionKept
<1>5. CASE m \in MessagesOf(s)
  <2>1. /\ messages' = messages
        /\ \A q \in Session : MessagesOf(q)' = MessagesOf(q)
    BY <1>5 DEF Save, MessagesOf
  <2>2. /\ stream'[s].pc = "receive"
        /\ stream'[s].count = stream[s].count
    BY <1>1, <1>5 DEF Save, SessionInv, Recorder
  <2>3. SessionInv(s)'
    BY <1>1, <1>3, <1>5, <2>1, <2>2 DEF SessionInv, Running
  <2> QED
    BY <1>2, <1>4, <2>1, <2>3
<1>6. CASE m \notin MessagesOf(s)
  <2>1. messages' = Append(messages, <<s, m>>)
    BY <1>6 DEF Save
  <2>2. /\ messages' \in Seq(Session \X Message)
        /\ MessagesOf(s)' = MessagesOf(s) \union {m}
        /\ \A q \in Session \ {s} : MessagesOf(q)' = MessagesOf(q)
    BY <1>1, <2>1, Appended
  <2>3. IsFiniteSet(MessagesOf(s))
    BY <1>1 DEF SessionInv
  <2>4. /\ IsFiniteSet(MessagesOf(s) \union {m})
        /\ Cardinality(MessagesOf(s) \union {m}) = Cardinality(MessagesOf(s)) + 1
    BY <1>6, <2>3, FS_AddElement
  <2>5. /\ stream'[s].pc = IF Observed(s, m) = {} THEN "receive" ELSE "parse"
        /\ Observed(s, m) # {} => stream'[s].message = m
        /\ stream'[s].count = stream[s].count + 1
    BY <1>1, <1>6 DEF Save, SessionInv, Recorder
  <2>6. SessionInv(s)'
    BY <1>1, <1>3, <2>2, <2>4, <2>5 DEF Running
  <2> QED
    BY <1>2, <1>4, <2>2, <2>6
<1> QED
  BY <1>5, <1>6

\* An observation that is passed over is the one that is stored, since the
\* number of its message is part of its identity.
LEMMA ParseKeeps ==
  ASSUME StreamInv, NEW s \in Session, Parse(s)
  PROVE  StreamInv'
<1> DEFINE m == stream[s].message
<1> USE DEF StreamInv
<1>1. SessionInv(s) /\ Running(s) /\ m \in Message /\ m \in MessagesOf(s)
  BY DEF Parse, SessionInv, Running
<1>2. /\ UNCHANGED <<messages, sessions>>
      /\ DOMAIN stream' = Session
      /\ \A q \in Session \ {s} : stream'[q] = stream[q]
      /\ DOMAIN stream'[s] = DOMAIN stream[s]
      /\ stream'[s].pc = "receive"
      /\ stream'[s].count = stream[s].count
      /\ \A q \in Session : MessagesOf(q)' = MessagesOf(q)
  BY <1>1 DEF Parse, SessionInv, Recorder, MessagesOf
<1>3. /\ observations \subseteq observations'
      /\ observations' \subseteq observations \union Observed(s, m)
      /\ Observed(s, m) \subseteq observations'
  <2>1. ASSUME NEW e \in Observed(s, m), NEW x \in observations, EventId(x) = EventId(e)
        PROVE  x = e
    BY <2>1 DEF EventId, Observed
  <2> QED
    BY <2>1 DEF Parse, Fresh
<1>4. SessionInv(s)'
  BY <1>1, <1>2, <1>3 DEF SessionInv, Running
<1>5. ASSUME NEW q \in Session \ {s}
      PROVE  SessionInv(q)'
  <2>1. \A o \in observations' : o.key[1] = q => o \in observations
    BY <1>3, ObservedKey
  <2> QED
    BY <1>2, <1>3, <2>1, SessionKept
<1> QED
  BY <1>1, <1>2, <1>3, <1>4, <1>5

\* The end of a session keeps the captures.
LEMMA CloseKeeps ==
  ASSUME StreamInv, NEW s \in Session, NEW status \in {"complete", "failed", "interrupted"},
         Running(s), Close(s, status),
         status = "complete" => stream[s].pc = "receive"
  PROVE  StreamInv'
<1> USE DEF StreamInv
<1>1. /\ UNCHANGED <<messages, observations>>
      /\ DOMAIN stream' = Session /\ DOMAIN sessions' = Session
      /\ \A q \in Session \ {s} : stream'[q] = stream[q] /\ sessions'[q] = sessions[q]
      /\ stream'[s] = Recorder("done")
      /\ sessions'[s].status = status
      /\ sessions'[s].count = stream[s].count
      /\ \A q \in Session : MessagesOf(q)' = MessagesOf(q)
  BY DEF Close, FinishSession, MessagesOf
<1>2. SessionInv(s)'
  BY <1>1 DEF SessionInv, Running, Ended, Recorder
<1> QED
  BY <1>1, <1>2, OtherSessions

\* Every step of a session keeps the captures.
LEMMA StreamStepKeeps ==
  ASSUME StreamInv, NEW s \in Session, StreamNext(s)
  PROVE  StreamInv'
<1>0. SessionInv(s)
  BY DEF StreamInv
<1>1. CASE OpenStream(s)
  <2>1. /\ UNCHANGED <<messages, observations>>
        /\ DOMAIN stream' = Session /\ DOMAIN sessions' = Session
        /\ \A q \in Session \ {s} : stream'[q] = stream[q] /\ sessions'[q] = sessions[q]
        /\ stream'[s].pc = "connect" /\ stream'[s].count = stream[s].count
        /\ DOMAIN stream'[s] = DOMAIN stream[s]
        /\ sessions'[s].status = "running"
        /\ MessagesOf(s)' = MessagesOf(s)
    BY <1>0, <1>1 DEF OpenStream, StartSession, StreamAt, StreamInv, SessionInv, Recorder, MessagesOf
  <2>2. stream[s].count = 0 /\ MessagesOf(s) = {}
    BY <1>0, <1>1 DEF OpenStream, SessionInv
  <2>3. SessionInv(s)'
    BY <1>0, <1>1, <2>1, <2>2, FS_EmptySet DEF OpenStream, SessionInv, Running
  <2> QED
    BY <2>1, <2>3, OtherSessions DEF StreamInv
<1>2. CASE Connect(s) \/ Expire(s) \/ \E m \in Message : Receive(s, m)
  <2>1. /\ UNCHANGED <<messages, observations, sessions>>
        /\ DOMAIN stream' = Session
        /\ \A q \in Session \ {s} : stream'[q] = stream[q]
    BY <1>2 DEF Connect, Expire, Receive, StreamAt, storeVars, StreamInv
  <2>2. /\ DOMAIN stream'[s] = DOMAIN stream[s]
        /\ stream'[s].count = stream[s].count
        /\ \/ stream'[s].pc = stream[s].pc /\ stream'[s].message = stream[s].message
              /\ stream[s].pc \notin {"off", "idle", "connect", "done"}
           \/ stream[s].pc = "connect" /\ stream'[s].pc = "receive"
           \/ stream[s].pc = "receive" /\ stream'[s].pc = "save" /\ stream'[s].message \in Message
    <3>1. CASE Connect(s)
      BY <1>0, <3>1 DEF Connect, StreamAt, StreamInv, SessionInv, Recorder
    <3>2. CASE Expire(s)
      BY <1>0, <3>2 DEF Expire, StreamInv, SessionInv, Recorder
    <3>3. ASSUME NEW m \in Message, Receive(s, m)
          PROVE  /\ DOMAIN stream'[s] = DOMAIN stream[s]
                 /\ stream'[s].count = stream[s].count
                 /\ stream[s].pc = "receive" /\ stream'[s].pc = "save"
                 /\ stream'[s].message = m
      BY <1>0, <3>3 DEF Receive, StreamInv, SessionInv, Recorder
    <3> QED
      BY <1>2, <3>1, <3>2, <3>3
  <2>3. MessagesOf(s)' = MessagesOf(s)
    BY <2>1 DEF MessagesOf
  <2>4. Running(s) /\ Running(s)'
    BY <1>0, <2>1, <2>2, <2>3 DEF SessionInv, Running
  <2>5. SessionInv(s)'
    BY <1>0, <2>1, <2>2, <2>3, <2>4 DEF SessionInv
  <2> QED
    BY <2>1, <2>5, OtherSessions DEF StreamInv
<1>3. CASE Save(s)
  BY <1>3, SaveKeeps
<1>4. CASE Parse(s)
  BY <1>4, ParseKeeps
<1>5. CASE EndStream(s) \/ Break(s) \/ Cancel(s)
  BY <1>0, <1>5, CloseKeeps DEF EndStream, Break, Cancel, SessionInv
<1>6. CASE KillStream(s)
  <2>1. /\ UNCHANGED <<messages, observations, sessions>>
        /\ DOMAIN stream' = Session
        /\ \A q \in Session \ {s} : stream'[q] = stream[q]
        /\ stream'[s] = Recorder("done")
        /\ sessions[s].status = "running"
        /\ MessagesOf(s)' = MessagesOf(s)
    BY <1>0, <1>6 DEF KillStream, storeVars, StreamInv, SessionInv, Running, MessagesOf
  <2>2. SessionInv(s)'
    BY <1>0, <2>1 DEF SessionInv, Ended, Recorder
  <2> QED
    BY <2>1, <2>2, OtherSessions DEF StreamInv
<1> QED
  BY <1>1, <1>2, <1>3, <1>4, <1>5, <1>6 DEF StreamNext, StreamStep

\* A synchronisation leaves the captures alone, and so does an import.
LEMMA SyncApart ==
  ASSUME NEW p \in Sync, SyncNext(p)
  PROVE  UNCHANGED <<messages, observations, sessions>>
BY DEF SyncNext, SyncStep, AskProduct, GetProduct, BeginRun, AskWindow, GetWindow,
     Retry, StoreWindow, Count, Complete, FailProduct, Fail, Interrupt, KillSync, storeVars

\* An import leaves the captures alone too.
LEMMA ImportApart ==
  ASSUME NEW i \in Import, ImportNext(i)
  PROVE  UNCHANGED <<messages, observations, sessions>>
BY DEF ImportNext, ImportStep, ReadArchive, Lookup, Insert, KillImport, storeVars

\* Every step of the recorder keeps the captures.
LEMMA StreamKept ==
  ASSUME StreamInv, [Next]_vars
  PROVE  StreamInv'
<1>1. CASE UNCHANGED <<messages, observations, sessions, stream>>
  <2>1. ASSUME NEW s \in Session
        PROVE  SessionInv(s)'
    <3>1. MessagesOf(s)' = MessagesOf(s)
      BY <1>1 DEF MessagesOf
    <3> QED
      BY <1>1, <3>1, SessionKept DEF StreamInv
  <2> QED
    BY <1>1, <2>1 DEF StreamInv
<1>2. ASSUME NEW p \in Sync, SyncNext(p), UNCHANGED <<stream, import>>
      PROVE  UNCHANGED <<messages, observations, sessions, stream>>
  BY <1>2, SyncApart
<1>3. ASSUME NEW i \in Import, ImportNext(i), UNCHANGED <<syncVars, stream>>
      PROVE  UNCHANGED <<messages, observations, sessions, stream>>
  BY <1>3, ImportApart
<1>4. CASE Tick \/ UNCHANGED vars
  BY <1>1, <1>4 DEF Tick, vars, storeVars
<1> QED
  BY <1>1, <1>2, <1>3, <1>4, StreamStepKeeps DEF Next

\* A session that ended counts exactly its messages, a complete one has all of
\* their observations, and no observation is without its message, in whatever
\* order messages come, repeat and stay away and wherever the process stops.
THEOREM SessionWholeHolds == Spec => []SessionWhole
<1>1. Init => StreamInv
  BY StreamInitially
<1>2. StreamInv /\ [Next]_vars => StreamInv'
  BY StreamKept
<1>3. StreamInv => SessionWhole
  <2> SUFFICES ASSUME StreamInv, NEW s \in Session
               PROVE  LET read == UNION {Observed(s, m) : m \in MessagesOf(s)} IN
                      /\ {o \in observations : o.key[1] = s} \subseteq read
                      /\ sessions[s].status \in {"complete", "failed", "interrupted"} =>
                           sessions[s].count = Cardinality(MessagesOf(s))
                      /\ sessions[s].status = "complete" => read \subseteq observations
    BY DEF SessionWhole
  <2>1. SessionInv(s)
    BY DEF StreamInv
  <2>2. sessions[s].status \in {"complete", "failed", "interrupted"} => Ended(s)
    BY <2>1 DEF SessionInv, Running
  <2> QED
    BY <2>1, <2>2 DEF SessionInv, Ended
<1> QED
  BY <1>1, <1>2, <1>3, PTL DEF Spec

-----------------------------------------------------------------------------
(* The gap counts *)

\* Of the numbers seen, the first that was received, the highest and the count:
\* the count is at least what is missing between them and at most what fits.
Covers(seen, first, last, gaps) ==
  /\ seen \subseteq Nat /\ first \in seen /\ last \in seen
  /\ \A n \in seen : n <= last
  /\ gaps \in Int /\ gaps >= 0
  /\ gaps >= Cardinality((first .. last) \ seen)
  /\ gaps = 0 \/ gaps <= last - first - 1

\* Nothing is missing up to the first number.
LEMMA CoversOne ==
  ASSUME NEW c \in Nat
  PROVE  Covers({c}, c, c, 0)
<1>1. (c .. c) \ {c} = {}
  OBVIOUS
<1> QED
  BY <1>1, FS_EmptySet DEF Covers

\* A number not above the highest leaves the count enough.
LEMMA CoversLower ==
  ASSUME NEW seen, NEW first, NEW last, NEW gaps, Covers(seen, first, last, gaps),
         NEW c \in Nat, c <= last
  PROVE  Covers(seen \union {c}, first, last, gaps)
<1>1. first \in Int /\ last \in Int
  BY DEF Covers
<1>2. IsFiniteSet((first .. last) \ seen)
  BY <1>1, FS_Interval, FS_Subset
<1>3. (first .. last) \ (seen \union {c}) \subseteq (first .. last) \ seen
  OBVIOUS
<1>4. /\ Cardinality((first .. last) \ (seen \union {c})) <= Cardinality((first .. last) \ seen)
      /\ Cardinality((first .. last) \ (seen \union {c})) \in Nat
      /\ Cardinality((first .. last) \ seen) \in Nat
  BY <1>2, <1>3, FS_Subset, FS_CardinalityType
<1> QED
  BY <1>1, <1>4 DEF Covers

\* A higher number adds the numbers it passes over.
LEMMA CoversHigher ==
  ASSUME NEW seen, NEW first, NEW last, NEW gaps, Covers(seen, first, last, gaps),
         NEW c \in Nat, c > last
  PROVE  Covers(seen \union {c}, first, c, gaps + (c - last - 1))
<1> DEFINE between == last + 1 .. c - 1
           missing == (first .. last) \ seen
           after == (first .. c) \ (seen \union {c})
<1>1. first \in Nat /\ last \in Nat /\ first <= last
  BY DEF Covers
<1>2. IsFiniteSet(missing)
  BY <1>1, FS_Interval, FS_Subset
<1>3. IsFiniteSet(between) /\ Cardinality(between) = c - last - 1
  <2>1. last + 1 \in Int /\ c - 1 \in Int
    BY <1>1
  <2> QED
    BY <1>1, <2>1, FS_Interval
<1>4. after \subseteq missing \union between
  BY <1>1
<1>5. missing \intersect between = {}
  BY <1>1
<1>6. Cardinality(missing) \in Nat
  BY <1>2, FS_CardinalityType
<1> HIDE DEF between, missing, after
<1>7. /\ IsFiniteSet(missing \union between)
      /\ Cardinality(missing \union between) =
           Cardinality(missing) + Cardinality(between) - Cardinality(missing \intersect between)
  BY <1>2, <1>3, FS_Union
<1>8. Cardinality(missing \union between) = Cardinality(missing) + (c - last - 1)
  <2>1. Cardinality(missing \intersect between) = 0
    BY <1>5, FS_EmptySet
  <2> QED
    BY <1>1, <1>3, <1>6, <1>7, <2>1
<1>9. IsFiniteSet(after) /\ Cardinality(after) <= Cardinality(missing \union between)
  BY <1>4, <1>7, FS_Subset
<1>10. Cardinality(after) \in Nat
  BY <1>9, FS_CardinalityType
<1> QED
  BY <1>1, <1>6, <1>8, <1>9, <1>10 DEF Covers, after, missing

\* The numbers of a session's messages, in the order of their rows.
SeqAt(s, n) == IF messages[n][1] = s THEN messages[n][2].seq ELSE None

Numbered(s) == {n \in DOMAIN messages : SeqAt(s, n) # None}

Seen(s) == {SeqAt(s, n) : n \in Numbered(s)}

\* f is the number that was received first; "hand" holds that of the message
\* that is received and not yet saved.
IsFirst(s, hand, f) ==
  IF Numbered(s) = {} THEN f \in hand
  ELSE \E n \in Numbered(s) : f = SeqAt(s, n) /\ \A k \in Numbered(s) : n <= k

Counted(s, hand, last, gaps) ==
  \/ Numbered(s) = {} /\ hand = {} /\ last = None /\ gaps = 0
  \/ \E f : IsFirst(s, hand, f) /\ Covers(Seen(s) \union hand, f, last, gaps)

Number(m) == IF m.seq = None THEN {} ELSE {m.seq}

GapInv(s) ==
  /\ stream[s].pc \in {"off", "idle", "connect"} =>
       Numbered(s) = {} /\ stream[s].last = None /\ stream[s].gaps = 0
  /\ stream[s].pc \in {"receive", "parse"} =>
       Counted(s, {}, stream[s].last, stream[s].gaps)
  /\ stream[s].pc = "save" =>
       Counted(s, Number(stream[s].message), stream[s].last, stream[s].gaps)

\* What was counted of a session depends on the stored messages only.
LEMMA CountedKept ==
  ASSUME NEW s, NEW hand, NEW last, NEW gaps, Counted(s, hand, last, gaps),
         messages' = messages
  PROVE  Counted(s, hand, last, gaps)'
<1>1. /\ Numbered(s)' = Numbered(s) /\ Seen(s)' = Seen(s)
      /\ \A n : SeqAt(s, n)' = SeqAt(s, n)
  BY DEF Numbered, Seen, SeqAt
<1> QED
  BY <1>1 DEF Counted, IsFirst

\* A message that is received is counted before it is saved.
LEMMA ReceivedCounted ==
  ASSUME NEW s \in Session, NEW m \in Message, NEW last, NEW gaps,
         MessageAssumption, Counted(s, {}, last, gaps)
  PROVE  Counted(s, Number(m), IF m.seq > last THEN m.seq ELSE last,
                 gaps + Missing(last, m.seq))
<1>1. m.seq \in Nat \union {None}
  BY DEF MessageAssumption
<1>2. CASE Numbered(s) = {} /\ last = None /\ gaps = 0
  <2>1. CASE m.seq = None
    BY <1>2, <2>1 DEF Counted, Number, Missing, None
  <2>2. CASE m.seq # None
    <3>1. m.seq \in Nat /\ m.seq > last /\ gaps + Missing(last, m.seq) = 0
      BY <1>1, <1>2, <2>2 DEF Missing, None
    <3>2. Number(m) = {m.seq} /\ Seen(s) \union Number(m) = {m.seq}
      BY <1>2, <2>2 DEF Number, Seen
    <3>3. IsFirst(s, Number(m), m.seq)
      BY <1>2, <3>2 DEF IsFirst
    <3> QED
      BY <3>1, <3>2, <3>3, CoversOne DEF Counted
  <2> QED
    BY <2>1, <2>2
<1>3. ASSUME NEW f, IsFirst(s, {}, f), Covers(Seen(s), f, last, gaps)
      PROVE  Counted(s, Number(m), IF m.seq > last THEN m.seq ELSE last,
                     gaps + Missing(last, m.seq))
  <2>1. /\ last \in Nat /\ gaps \in Int /\ last # None
        /\ IsFirst(s, Number(m), f)
    BY <1>3 DEF Covers, IsFirst, None
  <2>2. CASE m.seq = None
    <3>1. Number(m) = {} /\ ~(m.seq > last) /\ gaps + Missing(last, m.seq) = gaps
      BY <2>1, <2>2 DEF Number, Missing, None
    <3>2. Seen(s) \union {} = Seen(s)
      OBVIOUS
    <3> QED
      BY <1>3, <2>1, <3>1, <3>2 DEF Counted
  <2>3. CASE m.seq # None /\ m.seq <= last
    <3>1. /\ m.seq \in Nat /\ ~(m.seq > last) /\ Number(m) = {m.seq}
          /\ gaps + Missing(last, m.seq) = gaps
      BY <1>1, <2>1, <2>3 DEF Number, Missing
    <3>2. Covers(Seen(s) \union {m.seq}, f, last, gaps)
      BY <1>3, <2>3, <3>1, CoversLower
    <3> QED
      BY <2>1, <3>1, <3>2 DEF Counted
  <2>4. CASE m.seq # None /\ ~(m.seq <= last)
    <3>1. /\ m.seq \in Nat /\ m.seq > last /\ Number(m) = {m.seq}
          /\ gaps + Missing(last, m.seq) = gaps + (m.seq - last - 1)
      BY <1>1, <2>1, <2>4 DEF Number, Missing
    <3>2. Covers(Seen(s) \union {m.seq}, f, m.seq, gaps + (m.seq - last - 1))
      BY <1>3, <3>1, CoversHigher
    <3> QED
      BY <2>1, <3>1, <3>2 DEF Counted
  <2> QED
    BY <2>2, <2>3, <2>4
<1>4. Seen(s) \union {} = Seen(s)
  OBVIOUS
<1> QED
  BY <1>2, <1>3, <1>4 DEF Counted

\* A row that is added takes the number in hand to those that are seen.
LEMMA SavedCounted ==
  ASSUME NEW s \in Session, NEW m \in Message, messages \in Seq(Session \X Message),
         messages' = Append(messages, <<s, m>>),
         NEW last, NEW gaps, Counted(s, Number(m), last, gaps)
  PROVE  Counted(s, {}, last, gaps)'
<1>1. PICK new \in Nat :
        /\ DOMAIN messages' = DOMAIN messages \union {new}
        /\ new \notin DOMAIN messages
        /\ \A n \in DOMAIN messages : n <= new /\ messages'[n] = messages[n]
        /\ messages'[new] = <<s, m>>
  <2> DEFINE next == Len(messages) + 1
  <2>1. /\ next \in Nat
        /\ DOMAIN messages' = DOMAIN messages \union {next}
        /\ next \notin DOMAIN messages
        /\ \A n \in DOMAIN messages : n <= next /\ messages'[n] = messages[n]
        /\ messages'[next] = <<s, m>>
    OBVIOUS
  <2> HIDE DEF next
  <2> QED
    BY <2>1
<1>2. /\ \A n \in DOMAIN messages : SeqAt(s, n)' = SeqAt(s, n)
      /\ SeqAt(s, new)' = m.seq
  BY <1>1 DEF SeqAt
<1>3. CASE m.seq = None
  <2>1. Numbered(s)' = Numbered(s)
    BY <1>1, <1>2, <1>3 DEF Numbered
  <2>2. \A n \in Numbered(s) : SeqAt(s, n)' = SeqAt(s, n)
    BY <1>2 DEF Numbered
  <2>3. Seen(s)' = Seen(s) /\ Number(m) = {}
    BY <1>3, <2>1, <2>2 DEF Seen, Number
  <2>4. \A f : IsFirst(s, {}, f) => IsFirst(s, {}, f)'
    BY <2>1, <2>2 DEF IsFirst
  <2> QED
    BY <2>1, <2>3, <2>4 DEF Counted
<1>4. CASE m.seq # None
  <2>1. Numbered(s)' = Numbered(s) \union {new}
    BY <1>1, <1>2, <1>4 DEF Numbered
  <2>2. \A n \in Numbered(s) : SeqAt(s, n)' = SeqAt(s, n) /\ n <= new
    BY <1>1, <1>2 DEF Numbered
  <2>3. Number(m) = {m.seq}
    BY <1>4 DEF Number
  <2>4. Seen(s)' = Seen(s) \union {m.seq}
    BY <1>2, <2>1, <2>2 DEF Seen
  <2>5. ASSUME NEW f, IsFirst(s, Number(m), f)
        PROVE  IsFirst(s, {}, f)'
    <3>1. CASE Numbered(s) = {}
      BY <1>1, <1>2, <2>1, <2>3, <2>5, <3>1 DEF IsFirst
    <3>2. CASE Numbered(s) # {}
      <4>1. PICK n \in Numbered(s) : f = SeqAt(s, n) /\ \A k \in Numbered(s) : n <= k
        BY <2>5, <3>2 DEF IsFirst
      <4>2. n \in Numbered(s)' /\ f = SeqAt(s, n)' /\ \A k \in Numbered(s)' : n <= k
        BY <2>1, <2>2, <4>1
      <4> QED
        BY <4>2 DEF IsFirst
    <3> QED
      BY <3>1, <3>2
  <2>6. PICK f : IsFirst(s, Number(m), f) /\ Covers(Seen(s) \union Number(m), f, last, gaps)
    BY <2>3 DEF Counted
  <2>7. Covers(Seen(s)' \union {}, f, last, gaps)
    <3>1. Seen(s)' \union {} = Seen(s) \union Number(m)
      BY <2>3, <2>4
    <3> QED
      BY <2>6, <3>1
  <2> QED
    BY <2>5, <2>6, <2>7 DEF Counted, Covers
<1> QED
  BY <1>3, <1>4

\* A message that is repeated was seen.
LEMMA KnownCounted ==
  ASSUME NEW s \in Session, NEW m \in MessagesOf(s), messages' = messages,
         NEW last, NEW gaps, Counted(s, Number(m), last, gaps)
  PROVE  Counted(s, {}, last, gaps)'
<1>1. PICK k \in DOMAIN messages : messages[k][1] = s /\ messages[k][2] = m
  BY DEF MessagesOf
<1>2. m.seq # None => k \in Numbered(s) /\ SeqAt(s, k) = m.seq
  BY <1>1 DEF Numbered, SeqAt
<1>3. Counted(s, {}, last, gaps)
  <2>1. CASE m.seq = None
    BY <2>1 DEF Number
  <2>2. CASE m.seq # None
    <3>1. Numbered(s) # {} /\ Seen(s) \union Number(m) = Seen(s) \union {}
      BY <1>2, <2>2 DEF Seen, Number
    <3>2. \A f : IsFirst(s, Number(m), f) => IsFirst(s, {}, f)
      BY <3>1 DEF IsFirst
    <3> QED
      BY <3>1, <3>2 DEF Counted
  <2> QED
    BY <2>1, <2>2
<1> QED
  BY <1>3, CountedKept

\* What leaves a session's messages and its recorder alone.
LEMMA GapKept ==
  ASSUME NEW s \in Session, GapInv(s), stream'[s] = stream[s], messages' = messages
  PROVE  GapInv(s)'
<1>1. Numbered(s)' = Numbered(s)
  BY DEF Numbered, SeqAt
<1> QED
  BY <1>1, CountedKept DEF GapInv

\* A step of another session leaves a session's gaps.
LEMMA GapOfOther ==
  ASSUME NEW s \in Session, NEW q \in Session \ {s}, NEW m \in Message, GapInv(q),
         stream'[q] = stream[q], messages \in Seq(Session \X Message),
         messages' = Append(messages, <<s, m>>)
  PROVE  GapInv(q)'
<1>1. /\ Numbered(q)' = Numbered(q)
      /\ \A n \in Numbered(q) : SeqAt(q, n)' = SeqAt(q, n)
  BY DEF Numbered, SeqAt
<1>2. Seen(q)' = Seen(q)
  BY <1>1 DEF Seen
<1>3. \A hand, f : IsFirst(q, hand, f) => IsFirst(q, hand, f)'
  BY <1>1 DEF IsFirst
<1> QED
  BY <1>1, <1>2, <1>3 DEF GapInv, Counted

\* Every step of a session keeps its own gaps.
LEMMA GapStep ==
  ASSUME MessageAssumption, StreamInv, NEW s \in Session, StreamNext(s), GapInv(s)
  PROVE  GapInv(s)'
<1>0. /\ DOMAIN stream = Session /\ DOMAIN stream[s] = DOMAIN Recorder("idle")
      /\ messages \in Seq(Session \X Message)
      /\ stream[s].pc \in {"off", "idle", "connect", "receive", "save", "parse", "done"}
      /\ stream[s].pc \in {"save", "parse"} => stream[s].message \in Message
  BY DEF StreamInv, SessionInv, Running
<1>1. CASE OpenStream(s) \/ Connect(s)
  <2>1. Numbered(s) = {} /\ stream[s].last = None /\ stream[s].gaps = 0
    BY <1>1 DEF OpenStream, Connect, GapInv
  <2>2. /\ messages' = messages
        /\ stream'[s].pc \in {"connect", "receive"}
        /\ stream'[s].last = None /\ stream'[s].gaps = 0
    BY <1>0, <1>1, <2>1 DEF OpenStream, Connect, StreamAt, Recorder, storeVars
  <2>3. Numbered(s)' = {}
    BY <2>1, <2>2 DEF Numbered, SeqAt
  <2> QED
    BY <2>2, <2>3 DEF GapInv, Counted
<1>2. CASE Expire(s)
  <2>1. /\ messages' = messages
        /\ stream'[s].pc = stream[s].pc /\ stream'[s].message = stream[s].message
        /\ stream'[s].last = stream[s].last /\ stream'[s].gaps = stream[s].gaps
    BY <1>0, <1>2 DEF Expire, Recorder, storeVars
  <2>2. Numbered(s)' = Numbered(s)
    BY <2>1 DEF Numbered, SeqAt
  <2> QED
    BY <2>1, <2>2, CountedKept DEF GapInv
<1>3. ASSUME NEW m \in Message, Receive(s, m)
      PROVE  GapInv(s)'
  <2>1. /\ stream[s].pc = "receive"
        /\ messages' = messages
        /\ stream'[s].pc = "save" /\ stream'[s].message = m
        /\ stream'[s].last = IF m.seq > stream[s].last THEN m.seq ELSE stream[s].last
        /\ stream'[s].gaps = stream[s].gaps + Missing(stream[s].last, m.seq)
    BY <1>0, <1>3 DEF Receive, Recorder, storeVars
  <2>2. Counted(s, Number(m), stream'[s].last, stream'[s].gaps)
    BY <2>1, ReceivedCounted DEF GapInv
  <2> QED
    BY <2>1, <2>2, CountedKept DEF GapInv
<1>4. CASE Save(s)
  <2>1. /\ stream'[s].pc \in {"receive", "parse"}
        /\ stream'[s].last = stream[s].last /\ stream'[s].gaps = stream[s].gaps
        /\ Counted(s, Number(stream[s].message), stream[s].last, stream[s].gaps)
        /\ stream[s].message \in Message
    <3>1. /\ stream[s].pc = "save" /\ stream[s].message \in Message
          /\ Counted(s, Number(stream[s].message), stream[s].last, stream[s].gaps)
      BY <1>0, <1>4 DEF Save, GapInv
    <3>2. CASE stream[s].message \in MessagesOf(s)
      BY <1>0, <1>4, <3>1, <3>2 DEF Save, Recorder
    <3>3. CASE stream[s].message \notin MessagesOf(s)
      BY <1>0, <1>4, <3>1, <3>3 DEF Save, Recorder
    <3> QED
      BY <3>2, <3>3, <3>1
  <2>2. Counted(s, {}, stream[s].last, stream[s].gaps)'
    <3>1. CASE stream[s].message \in MessagesOf(s)
      <4>1. messages' = messages
        BY <1>4, <3>1 DEF Save
      <4>2. PICK m \in MessagesOf(s) : m = stream[s].message
        BY <3>1
      <4> QED
        BY <2>1, <4>1, <4>2, KnownCounted
    <3>2. CASE stream[s].message \notin MessagesOf(s)
      <4>1. PICK m \in Message : m = stream[s].message
        BY <2>1
      <4>2. messages' = Append(messages, <<s, stream[s].message>>)
        BY <1>4, <3>2 DEF Save
      <4> QED
        BY <1>0, <2>1, <4>1, <4>2, SavedCounted
    <3> QED
      BY <3>1, <3>2
  <2> QED
    BY <2>1, <2>2 DEF GapInv
<1>5. CASE Parse(s)
  <2>1. /\ stream[s].pc = "parse" /\ stream'[s].pc = "receive"
        /\ messages' = messages
        /\ stream'[s].last = stream[s].last /\ stream'[s].gaps = stream[s].gaps
    BY <1>0, <1>5 DEF Parse, Recorder
  <2> QED
    BY <2>1, CountedKept DEF GapInv
<1>6. CASE EndStream(s) \/ Break(s) \/ Cancel(s) \/ KillStream(s)
  BY <1>0, <1>6 DEF EndStream, Break, Cancel, KillStream, Close, Recorder, GapInv
<1> QED
  BY <1>1, <1>2, <1>3, <1>4, <1>5, <1>6 DEF StreamNext, StreamStep

GapsInv == \A s \in Session : GapInv(s)

\* Nothing is missing in the beginning.
LEMMA GapsInitially == Init => GapsInv
<1> SUFFICES ASSUME Init PROVE GapsInv
  OBVIOUS
<1>1. PICK scenario \in Scenario : StreamInit(scenario.launched)
  BY DEF Init
<1>2. messages = <<>>
  BY DEF Init, StoreInit
<1>3. \A s \in Session : /\ stream[s].pc \in {"idle", "off"}
                         /\ stream[s].last = None /\ stream[s].gaps = 0
  BY <1>1 DEF StreamInit, Recorder
<1> QED
  BY <1>2, <1>3 DEF GapsInv, GapInv, Numbered

\* A step of one session leaves the recorders of the others alone.
LEMMA RecorderApart ==
  ASSUME StreamInv, NEW s \in Session, NEW q \in Session \ {s}, StreamNext(s)
  PROVE  stream'[q] = stream[q]
<1>0. DOMAIN stream = Session
  BY DEF StreamInv
<1>1. CASE OpenStream(s) \/ Connect(s) \/ Expire(s) \/ KillStream(s)
  BY <1>0, <1>1 DEF OpenStream, Connect, Expire, KillStream, StreamAt
<1>2. CASE Save(s)
  BY <1>0, <1>2 DEF Save
<1>3. CASE Parse(s)
  BY <1>0, <1>3 DEF Parse
<1>4. CASE EndStream(s) \/ Break(s) \/ Cancel(s)
  BY <1>0, <1>4 DEF EndStream, Break, Cancel, Close
<1>5. ASSUME NEW m \in Message, Receive(s, m)
      PROVE  stream'[q] = stream[q]
  BY <1>0, <1>5 DEF Receive
<1> QED
  BY <1>1, <1>2, <1>3, <1>4, <1>5 DEF StreamNext, StreamStep

\* A step adds one row at the most.
LEMMA OneRow ==
  ASSUME StreamInv, NEW s \in Session, StreamNext(s)
  PROVE  messages' = messages \/ \E m \in Message : messages' = Append(messages, <<s, m>>)
<1>1. CASE Save(s)
  <2>1. stream[s].message \in Message
    BY <1>1 DEF Save, StreamInv, SessionInv, Running
  <2>2. messages' = messages \/ messages' = Append(messages, <<s, stream[s].message>>)
    BY <1>1 DEF Save
  <2> QED
    BY <2>1, <2>2
<1>2. CASE OpenStream(s) \/ Connect(s) \/ Expire(s) \/ KillStream(s) \/ Parse(s)
  BY <1>2 DEF OpenStream, Connect, Expire, KillStream, Parse, storeVars
<1>3. CASE EndStream(s) \/ Break(s) \/ Cancel(s)
  BY <1>3 DEF EndStream, Break, Cancel, Close
<1>4. ASSUME NEW m \in Message, Receive(s, m)
      PROVE  messages' = messages
  BY <1>4 DEF Receive, storeVars
<1> QED
  BY <1>1, <1>2, <1>3, <1>4 DEF StreamNext, StreamStep

\* Every step of the recorder keeps the gaps.
LEMMA GapsKept ==
  ASSUME MessageAssumption, StreamInv, GapsInv, [Next]_vars
  PROVE  GapsInv'
<1>1. ASSUME UNCHANGED <<messages, stream>>
      PROVE  GapsInv'
  BY <1>1, GapKept DEF GapsInv
<1>2. ASSUME NEW p \in Sync, SyncNext(p), UNCHANGED <<stream, import>>
      PROVE  UNCHANGED <<messages, stream>>
  BY <1>2, SyncApart
<1>3. ASSUME NEW i \in Import, ImportNext(i), UNCHANGED <<syncVars, stream>>
      PROVE  UNCHANGED <<messages, stream>>
  BY <1>3, ImportApart
<1>4. CASE Tick \/ UNCHANGED vars
  BY <1>1, <1>4 DEF Tick, vars, storeVars
<1>5. ASSUME NEW s \in Session, StreamNext(s)
      PROVE  GapsInv'
  <2>1. GapInv(s)'
    BY <1>5, GapStep DEF GapsInv
  <2>2. ASSUME NEW q \in Session \ {s}
        PROVE  GapInv(q)'
    <3>1. messages \in Seq(Session \X Message) /\ stream'[q] = stream[q]
      BY <1>5, RecorderApart DEF StreamInv
    <3>2. messages' = messages \/ \E m \in Message : messages' = Append(messages, <<s, m>>)
      BY <1>5, OneRow
    <3> QED
      BY <3>1, <3>2, GapKept, GapOfOther DEF GapsInv
  <2> QED
    BY <2>1, <2>2 DEF GapsInv
<1> QED
  BY <1>1, <1>2, <1>3, <1>4, <1>5 DEF Next

\* The gap count lies between what is missing of the numbers from the first one
\* received to the highest and what fits between them, however messages are
\* reordered, repeated or lost.
THEOREM GapsBoundedHolds == Spec => []GapsBounded
<1>1. Init => StreamInv /\ GapsInv
  BY StreamInitially, GapsInitially
<1>2. StreamInv /\ GapsInv /\ [Next]_vars => (StreamInv /\ GapsInv)'
  BY StreamKept, GapsKept, MessageAssumption
<1>3. StreamInv /\ GapsInv => GapsBounded
  <2> DEFINE numbers(q) == [n \in DOMAIN messages |->
               IF messages[n][1] = q THEN messages[n][2].seq ELSE None]
             numbered(q) == {n \in DOMAIN messages : numbers(q)[n] # None}
             seen(q) == {numbers(q)[n] : n \in numbered(q)}
             first(q) == numbers(q)[Min(numbered(q))]
  <2> SUFFICES ASSUME StreamInv, GapsInv, NEW s \in Session, stream[s].pc = "receive"
               PROVE  IF numbered(s) = {} THEN stream[s].gaps = 0
                      ELSE /\ stream[s].gaps >= Cardinality((first(s) .. Max(seen(s))) \ seen(s))
                           /\ stream[s].gaps <= Max({0, Max(seen(s)) - first(s) - 1})
    BY DEF GapsBounded
  <2>1. numbered(s) = Numbered(s) /\ \A n \in numbered(s) : numbers(s)[n] = SeqAt(s, n)
    BY DEF Numbered, SeqAt
  <2>3. numbered(s) \subseteq Nat
    BY DEF StreamInv
  <2> HIDE DEF numbers, numbered
  <2>2. seen(s) = Seen(s)
    BY <2>1 DEF Seen
  <2>4. Counted(s, {}, stream[s].last, stream[s].gaps)
    BY DEF GapsInv, GapInv
  <2> HIDE DEF seen
  <2>5. CASE Numbered(s) = {}
    BY <2>1, <2>4, <2>5 DEF Counted, IsFirst
  <2>6. CASE Numbered(s) # {}
    <3>1. PICK f : /\ IsFirst(s, {}, f)
                   /\ Covers(Seen(s) \union {}, f, stream[s].last, stream[s].gaps)
      BY <2>4, <2>6 DEF Counted
    <3>2. Covers(seen(s), f, stream[s].last, stream[s].gaps)
      <4>1. Seen(s) \union {} = seen(s)
        BY <2>2
      <4> QED
        BY <3>1, <4>1
    <3>3. f = first(s)
      <4>1. PICK k \in numbered(s) : f = numbers(s)[k] /\ \A n \in numbered(s) : k <= n
        BY <2>1, <2>6, <3>1 DEF IsFirst
      <4>2. Min(numbered(s)) = k
        BY <2>3, <4>1 DEF Min
      <4> QED
        BY <4>1, <4>2
    <3>4. Max(seen(s)) = stream[s].last
      BY <3>2 DEF Covers, Max
    <3>5. \A x \in Int : Max({0, x}) = IF x > 0 THEN x ELSE 0
      BY DEF Max
    <3> QED
      BY <2>1, <2>6, <3>2, <3>3, <3>4, <3>5 DEF Covers
  <2> QED
    BY <2>5, <2>6
<1> QED
  BY <1>1, <1>2, <1>3, PTL DEF Spec

-----------------------------------------------------------------------------
(* Induction over a set of numbers *)

\* A set that has 0 and the successor of each of its numbers has all numbers.
LEMMA AllNumbers ==
  ASSUME NEW S, 0 \in S, \A n \in Nat : n \in S => n + 1 \in S
  PROVE  Nat \subseteq S
<1> SUFFICES ASSUME Nat \ S # {} PROVE FALSE
  OBVIOUS
<1>1. Nat \ S \subseteq Nat
  OBVIOUS
<1>2. PICK x \in Nat \ S : \A y \in Nat \ S : <<y, x>> \notin OpToRel(<, Nat)
  BY <1>1, NatLessThanWellFounded, WFMin, Zenon
<1>3. \A y \in Nat \ S : ~(y < x)
  BY <1>2 DEF OpToRel
<1>. x \in Nat /\ x \notin S
  BY <1>2, Zenon
<1>4. x # 0 /\ x - 1 \in Nat /\ x - 1 < x
  OBVIOUS
<1>5. x - 1 \in S
  BY <1>3, <1>4
<1> QED
  BY <1>4, <1>5

-----------------------------------------------------------------------------
(* Sums over a finite set *)

SumOver(f, S) == MapThenSumSet(LAMBDA x : f[x], S)

First(s) == CHOOSE x \in s : TRUE

\* A set that is not empty has its first element.
LEMMA FirstIn ==
  ASSUME NEW s, s # {}
  PROVE  First(s) \in s
BY DEF First

\* A function that sums f over the subsets of S, one element after the other.
Recurs(f, S, g) ==
  \A s \in SUBSET S : g[s] = IF s = {} THEN 0 ELSE f[First(s)] + g[s \ {First(s)}]

Adds(f, S, g) == g \in [SUBSET S -> Int] /\ Recurs(f, S, g)

\* A smaller subset of a finite set.
LEMMA Smaller ==
  ASSUME NEW S, IsFiniteSet(S), NEW s \in SUBSET S, NEW x \in s
  PROVE  /\ IsFiniteSet(s) /\ Cardinality(s) \in Nat
         /\ s \ {x} \in SUBSET S
         /\ Cardinality(s \ {x}) \in Nat
         /\ Cardinality(s) = Cardinality(s \ {x}) + 1
<1>1. IsFiniteSet(s)
  BY FS_Subset
<1>2. IsFiniteSet(s \ {x}) /\ Cardinality(s \ {x}) = Cardinality(s) - 1
  BY <1>1, FS_RemoveElement
<1>3. Cardinality(s) \in Nat /\ Cardinality(s \ {x}) \in Nat
  BY <1>1, <1>2, FS_CardinalityType
<1> QED
  BY <1>1, <1>2, <1>3

\* There is one: it is built up along the sizes of the subsets.
LEMMA AddsExists ==
  ASSUME NEW S, IsFiniteSet(S), NEW f \in [S -> Int]
  PROVE  \E g : Adds(f, S, g)
<1> DEFINE Step(g, s) == g[s] = IF s = {} THEN 0 ELSE f[First(s)] + g[s \ {First(s)}]
           Upto(n) == {s \in SUBSET S : Cardinality(s) <= n}
           Good == {n \in Nat : \E g \in [SUBSET S -> Int] : \A s \in Upto(n) : Step(g, s)}
<1>1. \A s \in SUBSET S : IsFiniteSet(s) /\ Cardinality(s) \in Nat /\ (Cardinality(s) = 0 <=> s = {})
  BY FS_Subset, FS_CardinalityType, FS_EmptySet
<1>2. 0 \in Good
  <2> DEFINE zero == [s \in SUBSET S |-> 0]
  <2>1. \A s \in Upto(0) : s = {}
    BY <1>1
  <2>2. zero \in [SUBSET S -> Int] /\ \A s \in Upto(0) : Step(zero, s)
    BY <2>1
  <2> HIDE DEF zero, Step, Upto
  <2> QED
    BY <2>2
<1>3. ASSUME NEW n \in Nat, n \in Good PROVE n + 1 \in Good
  <2>1. PICK g \in [SUBSET S -> Int] : \A s \in Upto(n) : Step(g, s)
    BY <1>3
  <2> DEFINE h == [s \in SUBSET S |->
                     IF Cardinality(s) = n + 1 THEN f[First(s)] + g[s \ {First(s)}] ELSE g[s]]
  <2>2. ASSUME NEW s \in SUBSET S, s # {}
        PROVE  /\ f[First(s)] \in Int
               /\ s \ {First(s)} \in SUBSET S
               /\ Cardinality(s \ {First(s)}) \in Nat
               /\ Cardinality(s) = Cardinality(s \ {First(s)}) + 1
    BY <2>2, FirstIn, Smaller
  <2>3. h \in [SUBSET S -> Int]
    <3>1. ASSUME NEW s \in SUBSET S, Cardinality(s) = n + 1
          PROVE  f[First(s)] + g[s \ {First(s)}] \in Int
      BY <1>1, <2>1, <2>2, <3>1
    <3> QED
      BY <2>1, <3>1
  <2>4. ASSUME NEW s \in Upto(n + 1) PROVE Step(h, s)
    <3>1. CASE s = {}
      <4>1. Cardinality(s) = 0
        BY <1>1, <3>1
      <4>2. Step(g, s)
        BY <2>1, <4>1
      <4> QED
        BY <3>1, <4>1, <4>2
    <3>2. CASE s # {} /\ Cardinality(s) = n + 1
      <4>1. Cardinality(s \ {First(s)}) = n
        BY <2>2, <3>2
      <4>2. h[s \ {First(s)}] = g[s \ {First(s)}]
        BY <2>2, <3>2, <4>1
      <4>3. h[s] = f[First(s)] + g[s \ {First(s)}]
        BY <3>2
      <4> QED
        BY <3>2, <4>2, <4>3
    <3>3. CASE s # {} /\ Cardinality(s) # n + 1
      <4>1. Cardinality(s) <= n
        BY <1>1, <3>3
      <4>2. Cardinality(s \ {First(s)}) # n + 1
        BY <2>2, <3>3, <4>1
      <4>3. h[s] = g[s] /\ h[s \ {First(s)}] = g[s \ {First(s)}]
        BY <2>2, <3>3, <4>2
      <4>4. Step(g, s)
        BY <2>1, <4>1
      <4> QED
        BY <3>3, <4>3, <4>4
    <3> QED
      BY <3>1, <3>2, <3>3
  <2> HIDE DEF h, Step, Upto
  <2> QED
    BY <2>3, <2>4
<1>4. Cardinality(S) \in Good
  <2> HIDE DEF Good
  <2>1. Nat \subseteq Good
    BY <1>2, <1>3, AllNumbers
  <2> QED
    BY <2>1, FS_CardinalityType
<1>5. PICK g \in [SUBSET S -> Int] : \A s \in Upto(Cardinality(S)) : Step(g, s)
  BY <1>4
<1>6. \A s \in SUBSET S : s \in Upto(Cardinality(S))
  BY FS_Subset
<1>7. Adds(f, S, g)
  BY <1>5, <1>6 DEF Adds, Recurs
<1> QED
  BY <1>7

\* The order in which it takes the elements does not matter.
LEMMA AddsAny ==
  ASSUME NEW S, IsFiniteSet(S), NEW f \in [S -> Int], NEW g, Adds(f, S, g),
         NEW s \in SUBSET S, NEW x \in s
  PROVE  g[s] = f[x] + g[s \ {x}]
<1> DEFINE AnyOrder(t) == \A y \in t : g[t] = f[y] + g[t \ {y}]
           Good == {n \in Nat : \A t \in SUBSET S : Cardinality(t) = n => AnyOrder(t)}
<1>1. \A t \in SUBSET S : IsFiniteSet(t) /\ Cardinality(t) \in Nat /\ (Cardinality(t) = 0 <=> t = {})
  BY FS_Subset, FS_CardinalityType, FS_EmptySet
<1>2. 0 \in Good
  BY <1>1
<1>3. ASSUME NEW n \in Nat, n \in Good PROVE n + 1 \in Good
  <2> SUFFICES ASSUME NEW t \in SUBSET S, Cardinality(t) = n + 1, NEW y \in t
               PROVE  g[t] = f[y] + g[t \ {y}]
    OBVIOUS
  <2> DEFINE c == First(t)
  <2>1. c \in t /\ g[t] = f[c] + g[t \ {c}]
    BY FirstIn DEF Adds, Recurs
  <2> HIDE DEF c
  <2>2. CASE y = c
    BY <2>1, <2>2
  <2>3. CASE y # c
    <3>1. /\ t \ {c} \in SUBSET S /\ Cardinality(t \ {c}) = n
          /\ t \ {y} \in SUBSET S /\ Cardinality(t \ {y}) = n
      BY <2>1, Smaller
    <3>2. g[t \ {c}] = f[y] + g[(t \ {c}) \ {y}]
      BY <1>3, <2>3, <3>1
    <3>3. g[t \ {y}] = f[c] + g[(t \ {y}) \ {c}]
      BY <1>3, <2>1, <2>3, <3>1
    <3>4. (t \ {c}) \ {y} = (t \ {y}) \ {c} /\ (t \ {c}) \ {y} \in SUBSET S
      OBVIOUS
    <3>5. PICK rest \in Int : rest = g[(t \ {c}) \ {y}]
      BY <3>4 DEF Adds, Recurs
    <3>6. f[y] \in Int /\ f[c] \in Int
      BY <2>1
    <3>7. g[t] = f[c] + (f[y] + rest) /\ g[t \ {y}] = f[c] + rest
      BY <2>1, <3>2, <3>3, <3>4, <3>5
    <3> QED
      BY <3>5, <3>6, <3>7
  <2> QED
    BY <2>2, <2>3
<1>4. Cardinality(s) \in Good
  <2> HIDE DEF Good
  <2>1. Nat \subseteq Good
    BY <1>2, <1>3, AllNumbers
  <2> QED
    BY <1>1, <2>1
<1> QED
  BY <1>4

\* There is only one.
LEMMA AddsUnique ==
  ASSUME NEW S, IsFiniteSet(S), NEW f \in [S -> Int], NEW g, Adds(f, S, g),
         NEW h, Recurs(f, S, h)
  PROVE  \A s \in SUBSET S : h[s] = g[s]
<1> DEFINE Good == {n \in Nat : \A t \in SUBSET S : Cardinality(t) = n => h[t] = g[t]}
<1>1. \A t \in SUBSET S : IsFiniteSet(t) /\ Cardinality(t) \in Nat /\ (Cardinality(t) = 0 <=> t = {})
  BY FS_Subset, FS_CardinalityType, FS_EmptySet
<1>2. 0 \in Good
  BY <1>1 DEF Adds, Recurs
<1>3. ASSUME NEW n \in Nat, n \in Good PROVE n + 1 \in Good
  <2> SUFFICES ASSUME NEW t \in SUBSET S, Cardinality(t) = n + 1 PROVE h[t] = g[t]
    OBVIOUS
  <2>1. t # {} /\ First(t) \in t
    BY <1>1, FirstIn
  <2>2. t \ {First(t)} \in SUBSET S /\ Cardinality(t \ {First(t)}) = n
    BY <2>1, Smaller
  <2>3. h[t \ {First(t)}] = g[t \ {First(t)}]
    BY <1>3, <2>2
  <2> QED
    BY <2>1, <2>3 DEF Adds, Recurs
<1>4. Nat \subseteq Good
  <2> HIDE DEF Good
  <2> QED
    BY <1>2, <1>3, AllNumbers
<1> QED
  BY <1>1, <1>4

\* The library's sum is what such a function says.
LEMMA SumIsAdds ==
  ASSUME NEW S, IsFiniteSet(S), NEW f, NEW k \in [S -> Int], \A x \in S : k[x] = f[x],
         NEW g, Adds(k, S, g)
  PROVE  SumOver(f, S) = g[S]
<1> DEFINE Folds(h) == h = [s \in SUBSET S |->
             IF s = {} THEN 0 ELSE f[CHOOSE x \in s : TRUE] + h[s \ {CHOOSE x \in s : TRUE}]]
<1>1. Folds(g)
  <2>1. \A s \in SUBSET S : s # {} => f[First(s)] = k[First(s)]
    BY FirstIn
  <2>2. \A s \in SUBSET S : g[s] = IF s = {} THEN 0 ELSE f[First(s)] + g[s \ {First(s)}]
    BY <2>1 DEF Adds, Recurs
  <2>3. g = [s \in SUBSET S |-> IF s = {} THEN 0 ELSE f[First(s)] + g[s \ {First(s)}]]
    BY <2>2 DEF Adds, Recurs
  <2> QED
    BY <2>3 DEF First
<1>2. SumOver(f, S) = (CHOOSE h : Folds(h))[S]
  BY DEF SumOver, MapThenSumSet, MapThenFoldSet
<1>3. Folds(CHOOSE h : Folds(h))
  <2> HIDE DEF Folds
  <2> QED
    BY <1>1, Zenon
<1>4. PICK h : Folds(h) /\ SumOver(f, S) = h[S]
  <2> HIDE DEF Folds
  <2> QED
    BY <1>2, <1>3, Zenon
<1>5. \A s \in SUBSET S :
         h[s] = IF s = {} THEN 0 ELSE f[First(s)] + h[s \ {First(s)}]
  BY <1>4 DEF First
<1>6. \A s \in SUBSET S : s # {} => f[First(s)] = k[First(s)]
  BY FirstIn
<1>7. Recurs(k, S, h)
  BY <1>5, <1>6 DEF Recurs
<1>8. \A s \in SUBSET S : h[s] = g[s]
  <2> HIDE DEF Folds
  <2> QED
    BY <1>7, AddsUnique
<1> QED
  BY <1>4, <1>8

\* The sums over all subsets of a set.
Sums(f, S, g) ==
  /\ g \in [SUBSET S -> Int]
  /\ g[{}] = 0
  /\ \A s \in SUBSET S : g[s] = SumOver(f, s)
  /\ \A s \in SUBSET S : \A x \in s : g[s] = f[x] + g[s \ {x}]

\* They come from one function.
LEMMA SumsExist ==
  ASSUME NEW S, IsFiniteSet(S), NEW f, \A x \in S : f[x] \in Int
  PROVE  \E g : Sums(f, S, g)
<1>1. PICK k \in [S -> Int] : \A x \in S : k[x] = f[x]
  <2> [x \in S |-> f[x]] \in [S -> Int]
    OBVIOUS
  <2> QED
    OBVIOUS
<1>2. PICK g : Adds(k, S, g)
  BY <1>1, AddsExists
<1>3. g \in [SUBSET S -> Int] /\ g[{}] = 0
  BY <1>2 DEF Adds, Recurs
<1>4. ASSUME NEW s \in SUBSET S PROVE g[s] = SumOver(f, s)
  <2> DEFINE kk == [x \in s |-> f[x]]
             gg == [t \in SUBSET s |-> g[t]]
  <2>1. kk \in [s -> Int] /\ \A x \in s : kk[x] = f[x] /\ kk[x] = k[x]
    BY <1>1
  <2>2. gg \in [SUBSET s -> Int] /\ \A t \in SUBSET s : gg[t] = g[t]
    BY <1>3
  <2> HIDE DEF kk, gg
  <2>3. Recurs(kk, s, gg)
    <3> SUFFICES ASSUME NEW t \in SUBSET s
                 PROVE  gg[t] = IF t = {} THEN 0 ELSE kk[First(t)] + gg[t \ {First(t)}]
      BY DEF Recurs
    <3>1. g[t] = IF t = {} THEN 0 ELSE k[First(t)] + g[t \ {First(t)}]
      BY <1>2 DEF Adds, Recurs
    <3>2. t # {} => First(t) \in s /\ t \ {First(t)} \in SUBSET s
      BY FirstIn
    <3> QED
      BY <2>1, <2>2, <3>1, <3>2
  <2>4. IsFiniteSet(s)
    BY FS_Subset
  <2>5. Adds(kk, s, gg)
    BY <2>2, <2>3 DEF Adds
  <2>6. SumOver(f, s) = gg[s]
    BY <2>1, <2>4, <2>5, SumIsAdds
  <2> QED
    BY <2>2, <2>6
<1>5. ASSUME NEW s \in SUBSET S, NEW x \in s PROVE g[s] = f[x] + g[s \ {x}]
  <2>1. g[s] = k[x] + g[s \ {x}]
    BY <1>1, <1>2, AddsAny
  <2> QED
    BY <1>1, <2>1
<1> QED
  BY <1>3, <1>4, <1>5 DEF Sums

\* A sum with one of its members taken out.
LEMMA SumAt ==
  ASSUME NEW S, IsFiniteSet(S), NEW f, \A x \in S : f[x] \in Int
  PROVE  /\ SumOver(f, S) \in Int
         /\ SumOver(f, {}) = 0
         /\ \A x \in S : /\ SumOver(f, S \ {x}) \in Int
                         /\ SumOver(f, S) = f[x] + SumOver(f, S \ {x})
<1>1. PICK g : Sums(f, S, g)
  BY SumsExist
<1>2. S \in SUBSET S /\ {} \in SUBSET S /\ \A x \in S : S \ {x} \in SUBSET S
  OBVIOUS
<1> QED
  BY <1>1, <1>2 DEF Sums

\* A sum of terms no greater is no greater; what is not in the smaller set
\* counts for the greater sum.
LEMMA SumLess ==
  ASSUME NEW S, IsFiniteSet(S), NEW T \in SUBSET S,
         NEW f, \A x \in T : f[x] \in Int,
         NEW h, \A x \in S : h[x] \in Int,
         \A x \in T : f[x] <= h[x],
         \A x \in S \ T : 0 <= h[x]
  PROVE  SumOver(f, T) <= SumOver(h, S)
<1>1. IsFiniteSet(T)
  BY FS_Subset
<1>2. PICK g : Sums(f, T, g)
  BY <1>1, SumsExist
<1>3. PICK k : Sums(h, S, k)
  BY SumsExist
<1> USE DEF Sums
<1> DEFINE Good == {n \in Nat : \A s \in SUBSET S : Cardinality(s) = n => g[s \cap T] <= k[s]}
<1>4. \A s \in SUBSET S : IsFiniteSet(s) /\ Cardinality(s) \in Nat /\ (Cardinality(s) = 0 <=> s = {})
  BY FS_Subset, FS_CardinalityType, FS_EmptySet
<1>5. 0 \in Good
  <2> SUFFICES ASSUME NEW s \in SUBSET S, Cardinality(s) = 0 PROVE g[s \cap T] <= k[s]
    OBVIOUS
  <2>1. s = {} /\ s \cap T = {}
    BY <1>4
  <2> QED
    BY <1>2, <1>3, <2>1
<1>6. ASSUME NEW n \in Nat, n \in Good PROVE n + 1 \in Good
  <2> SUFFICES ASSUME NEW s \in SUBSET S, Cardinality(s) = n + 1 PROVE g[s \cap T] <= k[s]
    OBVIOUS
  <2>1. PICK x \in s : TRUE
    BY <1>4
  <2>2. s \ {x} \in SUBSET S /\ Cardinality(s \ {x}) = n
    BY Smaller
  <2>3. PICK u \in Int : u = g[(s \ {x}) \cap T]
    BY <1>2
  <2>4. PICK v \in Int : v = k[s \ {x}]
    BY <1>3, <2>2
  <2>5. u <= v
    BY <1>6, <2>2, <2>3, <2>4
  <2>6. k[s] = h[x] + v /\ h[x] \in Int
    BY <1>3, <2>4
  <2>7. CASE x \in T
    <3>1. x \in s \cap T /\ s \cap T \in SUBSET T /\ (s \cap T) \ {x} = (s \ {x}) \cap T
      BY <2>7
    <3>2. g[s \cap T] = f[x] + u
      BY <1>2, <2>3, <3>1
    <3> QED
      BY <2>5, <2>6, <2>7, <3>2
  <2>8. CASE x \notin T
    <3>1. s \cap T = (s \ {x}) \cap T
      BY <2>8
    <3>2. g[s \cap T] = u
      BY <2>3, <3>1
    <3> QED
      BY <2>5, <2>6, <2>8, <3>2
  <2> QED
    BY <2>7, <2>8
<1>7. Cardinality(S) \in Good
  <2> HIDE DEF Good
  <2>1. Nat \subseteq Good
    BY <1>5, <1>6, AllNumbers
  <2> QED
    BY <1>4, <2>1
<1>8. g[S \cap T] <= k[S] /\ S \cap T = T
  BY <1>7
<1> QED
  BY <1>2, <1>3, <1>8

\* A sum of terms no less is no less.
LEMMA SumMore ==
  ASSUME NEW S, IsFiniteSet(S), NEW T \in SUBSET S,
         NEW f, \A x \in T : f[x] \in Int,
         NEW h, \A x \in S : h[x] \in Int,
         \A x \in T : h[x] <= f[x],
         \A x \in S \ T : h[x] <= 0
  PROVE  SumOver(h, S) <= SumOver(f, T)
<1> DEFINE p == [x \in S |-> IF x \in T THEN f[x] ELSE 0]
<1>1. \A x \in S : p[x] \in Int /\ h[x] <= p[x]
  OBVIOUS
<1>2. \A x \in T : p[x] = f[x]
  OBVIOUS
<1>3. \A x \in S \ T : p[x] = 0
  OBVIOUS
<1> HIDE DEF p
<1>4. SumOver(h, S) <= SumOver(p, S)
  BY <1>1, SumLess
<1>5. SumOver(p, S) = SumOver(f, T)
  <2>1. IsFiniteSet(T)
    BY FS_Subset
  <2>2. PICK g : Sums(p, S, g)
    BY <1>1, SumsExist
  <2> USE DEF Sums
  <2> DEFINE Good == {n \in Nat : \A s \in SUBSET S : Cardinality(s) = n => g[s] = g[s \cap T]}
  <2>3. \A s \in SUBSET S : IsFiniteSet(s) /\ Cardinality(s) \in Nat /\ (Cardinality(s) = 0 <=> s = {})
    BY FS_Subset, FS_CardinalityType, FS_EmptySet
  <2>4. 0 \in Good
    <3> SUFFICES ASSUME NEW s \in SUBSET S, Cardinality(s) = 0 PROVE g[s] = g[s \cap T]
      OBVIOUS
    <3>1. s = s \cap T
      BY <2>3
    <3> QED
      BY <3>1
  <2>5. ASSUME NEW n \in Nat, n \in Good PROVE n + 1 \in Good
    <3> SUFFICES ASSUME NEW s \in SUBSET S, Cardinality(s) = n + 1 PROVE g[s] = g[s \cap T]
      OBVIOUS
    <3>1. PICK x \in s : TRUE
      BY <2>3
    <3>2. s \ {x} \in SUBSET S /\ Cardinality(s \ {x}) = n
      BY Smaller
    <3>3. g[s \ {x}] = g[(s \ {x}) \cap T]
      BY <2>5, <3>2
    <3>4. g[s] = p[x] + g[s \ {x}]
      BY <2>2
    <3>5. CASE x \in T
      <4>1. x \in s \cap T /\ s \cap T \in SUBSET S /\ (s \cap T) \ {x} = (s \ {x}) \cap T
        BY <3>5
      <4>2. g[s \cap T] = p[x] + g[(s \ {x}) \cap T]
        BY <2>2, <4>1
      <4> QED
        BY <3>3, <3>4, <4>2
    <3>6. CASE x \notin T
      <4>1. s \cap T = (s \ {x}) \cap T /\ p[x] = 0
        BY <1>3, <3>6
      <4>2. PICK r \in Int : r = g[s \ {x}]
        BY <2>2, <3>2
      <4>3. g[s] = 0 + r
        BY <3>4, <4>1, <4>2
      <4> QED
        BY <3>3, <4>1, <4>2, <4>3
    <3> QED
      BY <3>5, <3>6
  <2>6. Cardinality(S) \in Good
    <3> HIDE DEF Good
    <3>1. Nat \subseteq Good
      BY <2>4, <2>5, AllNumbers
    <3> QED
      BY <2>3, <3>1
  <2>7. SumOver(p, S) = SumOver(p, T)
    <3>1. g[S] = g[S \cap T] /\ S \cap T = T
      BY <2>6
    <3> QED
      BY <2>2, <3>1
  <2>8. SumOver(p, T) <= SumOver(f, T) /\ SumOver(f, T) <= SumOver(p, T)
    BY <1>1, <1>2, <2>1, SumLess
  <2>9. SumOver(p, T) \in Int /\ SumOver(f, T) \in Int
    BY <1>1, <1>2, <2>1, SumAt
  <2> QED
    BY <2>7, <2>8, <2>9
<1> QED
  BY <1>4, <1>5

-----------------------------------------------------------------------------
(* The inductive invariant of the synchronisations *)

Hours == 0 .. MaxHour
Active == {"window", "request", "store", "count"}
Before == {"off", "idle", "product", "start"}

Tally == [fetched : Nat, inserted : Nat, duplicates : Nat, incomplete : Nat]

SyncRow ==
  [pc : Before \union Active \union {"done"}, range : Ranges \union {<<0, 0>>}, cursor : Nat,
   received : Hours \union {None}, attempt : 0 .. MaxAttempts,
   reply : SUBSET [at : Hours, value : {"open", "final"}], added : Nat, tally : Tally]

RunRow ==
  [status : {"running", "complete", "failed", "interrupted"}, start : Nat, end : Nat,
   started : Hours, tally : Tally]

BarRow == [at : Hours, key : {"ONE_HOUR"}, value : {"open", "final"}, received : Hours]

\* What is in the tables and in the memory of the executions.
TypeInv ==
  /\ now \in Hours
  /\ instrument \in {None} \union Hours
  /\ bars \subseteq BarRow
  /\ sync \in [Sync -> SyncRow]
  /\ runs \in [Sync -> {NoRow} \union RunRow]

\* Where an execution stands.
Placed(p) ==
  /\ sync[p].pc \in Before =>
       /\ runs[p] = NoRow
       /\ sync[p].tally = NoTally
  /\ sync[p].pc \in {"product", "start"} => sync[p].range \in Ranges
  /\ sync[p].pc = "product" => sync[p].received \in Hours
  /\ sync[p].pc # "count" => sync[p].added = 0
  /\ sync[p].pc \in Active =>
       /\ sync[p].range \in Ranges
       /\ runs[p] \in RunRow
       /\ runs[p].status = "running"
       /\ runs[p].start = sync[p].range[1]
       /\ runs[p].end = sync[p].range[2]
       /\ runs[p].started <= now
       /\ sync[p].range[1] <= sync[p].cursor /\ sync[p].cursor <= sync[p].range[2]
  /\ sync[p].pc \in {"request", "store", "count"} =>
       /\ sync[p].cursor < sync[p].range[2]
       /\ sync[p].received \in Hours
       /\ runs[p].started <= sync[p].received /\ sync[p].received <= now
  /\ runs[p] # NoRow /\ runs[p].status = "running" => runs[p].tally = NoTally

\* An answer has one bar for every hour of its window that had passed at the
\* receipt time and is not quiet.
Answered(p) ==
  /\ sync[p].pc \in {"store", "count"} => IsFiniteSet(sync[p].reply)
  /\ sync[p].pc = "store" =>
       /\ \A c, d \in sync[p].reply : c.at = d.at => c = d
       /\ \A h \in sync[p].cursor .. WindowEnd(p) - 1 :
            h <= sync[p].received /\ h \notin quiet => \E c \in sync[p].reply : c.at = h
  /\ sync[p].pc = "count" => sync[p].added <= Cardinality(Events(p))

\* The hours from the start of a run to the given one are stored, or quiet, or
\* had not passed when the run started.
Covered(p, end) ==
  \A h \in runs[p].start .. end - 1 :
    \/ \E b \in bars : b.at = h
    \/ h \in quiet
    \/ h + 1 > runs[p].started

CoverInv(p) ==
  /\ sync[p].pc \in Active =>
       Covered(p, IF sync[p].pc = "count" THEN WindowEnd(p) ELSE sync[p].cursor)
  /\ runs[p].status = "complete" => runs[p].start <= runs[p].end /\ Covered(p, runs[p].end)

\* How many stored bars a run has counted or is about to count.
Credit ==
  [p \in Sync |->
     IF sync[p].pc \in Active THEN sync[p].tally.inserted + sync[p].added
     ELSE IF runs[p].status = "none" THEN 0 ELSE runs[p].tally.inserted]

\* A count was lost: the execution was interrupted or killed.
Lost(p) ==
  \/ runs[p].status = "interrupted"
  \/ runs[p].status = "running" /\ sync[p].pc = "done"

CreditInv ==
  /\ IsFiniteSet(bars)
  /\ \A x, y \in bars : x.at = y.at => x = y
  /\ SumOver(Credit, Sync) <= Cardinality(bars)
  /\ (\A p \in Sync : ~Lost(p)) => SumOver(Credit, Sync) = Cardinality(bars)

SyncInv ==
  /\ TypeInv
  /\ \A p \in Sync : Placed(p) /\ Answered(p) /\ CoverInv(p)
  /\ CreditInv

-----------------------------------------------------------------------------
(* Types *)

\* The fields of an execution and of a run.
LEMMA RowFields ==
  ASSUME TypeInv, NEW p \in Sync
  PROVE  /\ sync[p] \in SyncRow
         /\ runs[p] = NoRow \/ runs[p] \in RunRow
         /\ NoRow \notin RunRow
         /\ runs[p] \in RunRow => runs[p].status # "none"
BY DEF TypeInv, RunRow, NoRow

\* The window at the cursor ends after it and within the range.
LEMMA WindowAhead ==
  ASSUME TypeInv, NEW p \in Sync, sync[p].range \in Ranges, sync[p].cursor < sync[p].range[2]
  PROVE  /\ WindowEnd(p) \in Nat
         /\ sync[p].cursor < WindowEnd(p)
         /\ WindowEnd(p) <= sync[p].range[2]
<1>1. sync[p].cursor \in Nat
  BY DEF TypeInv, SyncRow
<1>2. sync[p].range[2] \in Nat
  BY SyncAssumption
<1> QED
  BY <1>1, <1>2, SyncAssumption DEF WindowEnd

\* The image of a finite set is finite.
LEMMA ImageFinite ==
  ASSUME NEW S, IsFiniteSet(S), NEW f
  PROVE  IsFiniteSet({f[x] : x \in S})
<1> DEFINE T == {f[x] : x \in S}
           g == [x \in S |-> f[x]]
<1>1. g \in Surjection(S, T)
  BY DEF Surjection
<1> QED
  BY <1>1, FS_Surjection

\* The venue's answer: finite, one bar for an hour, of hours that had begun.
LEMMA CandlesRight ==
  ASSUME now \in Hours, NEW first \in Nat, NEW last \in Nat
  PROVE  /\ Candles(first, last) \subseteq [at : Hours, value : {"open", "final"}]
         /\ IsFiniteSet(Candles(first, last))
         /\ \A c, d \in Candles(first, last) : c.at = d.at => c = d
         /\ \A h \in first .. last :
              h <= now /\ h \notin quiet => \E c \in Candles(first, last) : c.at = h
<1> USE ClockAssumption DEF Hours
<1> DEFINE hours == {x \in first .. last : x <= now} \ quiet
           bar == [h \in hours |-> [at |-> h, value |-> IF h < now THEN "final" ELSE "open"]]
<1>1. Candles(first, last) = {bar[h] : h \in hours}
  BY DEF Candles
<1>2. IsFiniteSet(hours)
  <2>1. IsFiniteSet(first .. last) /\ hours \in SUBSET (first .. last)
    BY FS_Interval
  <2> QED
    BY <2>1, FS_Subset
<1>3. IsFiniteSet(Candles(first, last))
  <2> HIDE DEF bar, hours
  <2> QED
    BY <1>1, <1>2, ImageFinite
<1>4. \A h \in hours : bar[h].at = h /\ bar[h] \in [at : Hours, value : {"open", "final"}]
  OBVIOUS
<1>5. \A h \in first .. last : h <= now /\ h \notin quiet => h \in hours
  OBVIOUS
<1> HIDE DEF bar, hours
<1> QED
  BY <1>1, <1>3, <1>4, <1>5

\* The counts of a window.
LEMMA EventsFinite ==
  ASSUME TypeInv, NEW p \in Sync, IsFiniteSet(sync[p].reply)
  PROVE  /\ IsFiniteSet(Events(p))
         /\ Cardinality(Events(p)) \in Nat
         /\ Cardinality(sync[p].reply) \in Nat
         /\ Cardinality(Skipped(p)) \in Nat
<1> DEFINE closed == {x \in InWindow(p) : Closed(p, x)}
           event == [c \in closed |-> [at |-> c.at, key |-> "ONE_HOUR", value |-> c.value,
                                       received |-> sync[p].received]]
<1>1. closed \in SUBSET sync[p].reply /\ Skipped(p) \in SUBSET sync[p].reply
  BY DEF InWindow, Skipped
<1>2. IsFiniteSet(closed)
  BY <1>1, FS_Subset
<1>3. Events(p) = {event[c] : c \in closed}
  BY DEF Events
<1>4. IsFiniteSet(Events(p))
  <2> HIDE DEF event, closed
  <2> QED
    BY <1>2, <1>3, ImageFinite
<1> HIDE DEF event, closed
<1>5. IsFiniteSet(Skipped(p))
  BY <1>1, FS_Subset
<1> QED
  BY <1>4, <1>5, FS_CardinalityType

\* An event is a row of the table, for an hour of its window that had passed.
LEMMA EventsRight ==
  ASSUME TypeInv, NEW p \in Sync, sync[p].received \in Hours
  PROVE  /\ Events(p) \subseteq BarRow
         /\ \A e \in Events(p) : \E c \in sync[p].reply : c.at = e.at /\ c.value = e.value
         /\ \A e, f \in Events(p) : e.received = f.received /\ e.key = f.key
         /\ \A c \in sync[p].reply :
              sync[p].cursor <= c.at /\ c.at < WindowEnd(p) /\ c.at + 1 <= sync[p].received
                => \E e \in Events(p) : e.at = c.at
<1> sync[p].reply \in SUBSET [at : Hours, value : {"open", "final"}]
  BY DEF TypeInv, SyncRow
<1>1. ASSUME NEW e \in Events(p)
      PROVE  /\ e \in BarRow
             /\ \E c \in sync[p].reply : c.at = e.at /\ c.value = e.value
             /\ e.received = sync[p].received /\ e.key = "ONE_HOUR"
  <2>1. PICK c \in InWindow(p) :
          e = [at |-> c.at, key |-> "ONE_HOUR", value |-> c.value, received |-> sync[p].received]
    BY DEF Events
  <2>2. c \in sync[p].reply /\ c.at \in Hours /\ c.value \in {"open", "final"}
    BY DEF InWindow
  <2> QED
    BY <2>1, <2>2 DEF BarRow
<1>2. ASSUME NEW c \in sync[p].reply,
             sync[p].cursor <= c.at, c.at < WindowEnd(p), c.at + 1 <= sync[p].received
      PROVE  \E e \in Events(p) : e.at = c.at
  <2>1. c \in InWindow(p) /\ Closed(p, c)
    BY <1>2 DEF InWindow, Closed, Hours
  <2> DEFINE e == [at |-> c.at, key |-> "ONE_HOUR", value |-> c.value,
                   received |-> sync[p].received]
  <2>2. e \in Events(p) /\ e.at = c.at
    BY <2>1 DEF Events
  <2> QED
    BY <2>2
<1> QED
  BY <1>1, <1>2

\* The counts of an execution that stops: the bars it counted are as they were.
LEMMA StoppedRight ==
  ASSUME TypeInv, NEW p \in Sync, Answered(p), NEW tally \in Stopped(p)
  PROVE  tally \in Tally /\ tally.inserted = sync[p].tally.inserted
<1>1. sync[p].tally \in Tally
  BY DEF TypeInv, SyncRow
<1>2. sync[p].pc = "store" => Cardinality(Skipped(p)) \in Nat
  BY EventsFinite DEF Answered
<1>3. PICK n \in Nat : tally = [sync[p].tally EXCEPT !.incomplete = @ + n]
  <2>1. CASE sync[p].pc = "store"
    BY <1>2, <2>1 DEF Stopped
  <2>2. CASE sync[p].pc # "store"
    BY <2>2 DEF Stopped
  <2> QED
    BY <2>1, <2>2
<1> QED
  BY <1>1, <1>3 DEF Tally

\* How a run ends.
LEMMA RunEnds ==
  ASSUME TypeInv, NEW p \in Sync, Answered(p), Complete(p) \/ Fail(p) \/ Interrupt(p)
  PROVE  \E status \in {"complete", "failed", "interrupted"}, tally \in Tally :
           /\ runs' = [runs EXCEPT ![p].status = status, ![p].tally = tally]
           /\ tally.inserted = sync[p].tally.inserted
           /\ Interrupt(p) => status = "interrupted"
           /\ Fail(p) => status # "complete"
<1>1. CASE Interrupt(p)
  <2>1. PICK tally \in Stopped(p) : FinishRun(p, "interrupted", tally)
    BY <1>1 DEF Interrupt
  <2> QED
    BY <2>1, StoppedRight DEF FinishRun
<1>2. CASE Fail(p) /\ ~Interrupt(p)
  <2>1. PICK tally \in Stopped(p) : FinishRun(p, "failed", tally)
    BY <1>2 DEF Fail
  <2> QED
    BY <1>2, <2>1, StoppedRight DEF FinishRun
<1>3. CASE Complete(p) /\ ~Fail(p) /\ ~Interrupt(p)
  <2>1. sync[p].tally \in Tally
    BY DEF TypeInv, SyncRow
  <2>2. FinishRun(p, "complete", sync[p].tally)
    BY <1>3 DEF Complete
  <2> QED
    BY <1>3, <2>1, <2>2 DEF FinishRun
<1> QED
  BY <1>1, <1>2, <1>3

\* A step of one execution leaves the others alone, and no bar goes.
LEMMA OneSyncs ==
  ASSUME TypeInv, NEW p \in Sync, SyncNext(p)
  PROVE  /\ now' = now /\ quiet' = quiet
         /\ \A q \in Sync \ {p} : sync'[q] = sync[q] /\ runs'[q] = runs[q]
         /\ bars \subseteq bars'
         /\ ~StoreWindow(p) => bars' = bars
         /\ UNCHANGED <<archived, sessions, messages, observations>>
<1> USE DEF TypeInv, storeVars, StartRun, FinishRun, Leave
<1>1. CASE AskProduct(p) \/ GetProduct(p) \/ BeginRun(p) \/ AskWindow(p) \/ GetWindow(p)
  BY <1>1 DEF AskProduct, GetProduct, BeginRun, AskWindow, GetWindow
<1>2. CASE Retry(p) \/ StoreWindow(p) \/ Count(p)
  BY <1>2 DEF Retry, StoreWindow, Count
<1>3. CASE Complete(p) \/ FailProduct(p) \/ Fail(p) \/ Interrupt(p) \/ KillSync(p)
  BY <1>3 DEF Complete, FailProduct, Fail, Interrupt, KillSync
<1> QED
  BY <1>1, <1>2, <1>3 DEF SyncNext, SyncStep

\* Every step of an execution keeps the tables and its memory well formed.
LEMMA TypeInvStep ==
  ASSUME TypeInv, NEW p \in Sync, Placed(p), Answered(p), SyncNext(p)
  PROVE  TypeInv'
<1> USE DEF TypeInv
<1>0. /\ sync[p] \in SyncRow /\ now \in Hours
      /\ {0, 1} \subseteq 0 .. MaxAttempts
  BY SyncAssumption
<1>00. Local("done") \in SyncRow
  BY SyncAssumption DEF Local, SyncRow, NoTally, Tally, None
<1>1. CASE AskProduct(p)
  <2>1. PICK range \in Ranges :
          sync' = [sync EXCEPT ![p].pc = "product", ![p].range = range,
                               ![p].received = now, ![p].attempt = 1]
    BY <1>1 DEF AskProduct
  <2>2. sync'[p] \in SyncRow
    BY <1>0, <2>1 DEF SyncRow, Before
  <2> QED
    BY <1>1, <2>1, <2>2 DEF AskProduct, storeVars
<1>2. CASE GetProduct(p)
  <2>1. sync'[p] \in SyncRow
    BY <1>0, <1>2 DEF GetProduct, SyncRow, Before
  <2>2. sync[p].received \in Hours
    BY <1>2 DEF GetProduct, Placed
  <2> QED
    BY <1>2, <2>1, <2>2 DEF GetProduct, UpsertInstrument
<1>3. CASE BeginRun(p)
  <2>1. sync[p].range \in Ranges /\ sync[p].range[1] \in Nat /\ sync[p].range[2] \in Nat
    BY <1>3, SyncAssumption DEF BeginRun, Placed
  <2>2. sync'[p] \in SyncRow
    BY <1>0, <1>3, <2>1 DEF BeginRun, SyncRow, Active
  <2> DEFINE row == [status |-> "running", start |-> sync[p].range[1],
                     end |-> sync[p].range[2], started |-> now, tally |-> NoTally]
  <2>3. row \in RunRow
    BY <2>1 DEF RunRow, NoTally, Tally
  <2>4. runs' = [runs EXCEPT ![p] = row]
    BY <1>3 DEF BeginRun, StartRun
  <2> HIDE DEF row
  <2> QED
    BY <1>3, <2>2, <2>3, <2>4 DEF BeginRun
<1>4. CASE AskWindow(p)
  <2>1. sync'[p] \in SyncRow
    BY <1>0, <1>4 DEF AskWindow, SyncRow, Active
  <2> QED
    BY <1>4, <2>1 DEF AskWindow, storeVars
<1>5. CASE GetWindow(p)
  <2>1. sync[p].cursor \in Nat /\ WindowEnd(p) \in Nat
    BY <1>0, <1>5, WindowAhead, SyncAssumption DEF GetWindow, Placed, Active, SyncRow
  <2> DEFINE reply == Candles(sync[p].cursor, WindowEnd(p))
  <2>2. reply \subseteq [at : Hours, value : {"open", "final"}] /\ Cardinality(reply) \in Nat
    BY <2>1, CandlesRight, FS_CardinalityType
  <2>3. sync' = [sync EXCEPT ![p].pc = "store", ![p].attempt = 0, ![p].reply = reply,
                            ![p].tally.fetched = @ + Cardinality(reply)]
    BY <1>5 DEF GetWindow
  <2> HIDE DEF reply
  <2>4. sync[p].tally \in Tally
    BY <1>0 DEF SyncRow
  <2>5. PICK tally \in Tally : sync' = [sync EXCEPT
          ![p].pc = "store", ![p].attempt = 0, ![p].reply = reply, ![p].tally = tally]
    <3> DEFINE tally == [sync[p].tally EXCEPT !.fetched = @ + Cardinality(reply)]
    <3>1. tally \in Tally
      BY <2>2, <2>4 DEF Tally
    <3>2. sync' = [sync EXCEPT
            ![p].pc = "store", ![p].attempt = 0, ![p].reply = reply, ![p].tally = tally]
      BY <1>0, <2>3 DEF SyncRow
    <3> QED
      BY <3>1, <3>2
  <2>6. sync'[p] \in SyncRow
    BY <1>0, <2>2, <2>5 DEF SyncRow, Active
  <2> QED
    BY <1>5, <2>5, <2>6 DEF GetWindow, storeVars
<1>6. CASE Retry(p)
  <2>1. sync'[p] \in SyncRow
    BY <1>0, <1>6, SyncAssumption DEF Retry, SyncRow
  <2> QED
    BY <1>6, <2>1 DEF Retry, storeVars
<1>7. CASE StoreWindow(p)
  <2>1. sync[p].received \in Hours /\ IsFiniteSet(sync[p].reply)
    BY <1>7 DEF StoreWindow, Placed, Answered
  <2>2. Fresh(bars, Events(p)) \in SUBSET Events(p)
    BY DEF Fresh
  <2>3. Cardinality(Fresh(bars, Events(p))) \in Nat /\ Cardinality(Skipped(p)) \in Nat
    BY <2>1, <2>2, EventsFinite, FS_Subset, FS_CardinalityType
  <2> DEFINE tally == [sync[p].tally EXCEPT !.incomplete = @ + Cardinality(Skipped(p))]
             added == Cardinality(Fresh(bars, Events(p)))
  <2>4. tally \in Tally
    BY <1>0, <2>3 DEF SyncRow, Tally
  <2>5. sync' = [sync EXCEPT ![p].pc = "count", ![p].added = added, ![p].tally = tally]
    BY <1>0, <1>7 DEF StoreWindow, SyncRow
  <2> HIDE DEF tally
  <2>6. sync'[p] \in SyncRow
    BY <1>0, <2>3, <2>4, <2>5 DEF SyncRow, Active
  <2>7. bars' \subseteq BarRow
    BY <1>7, <2>1, <2>2, EventsRight DEF StoreWindow
  <2> QED
    BY <1>7, <2>5, <2>6, <2>7 DEF StoreWindow
<1>8. CASE Count(p)
  <2>1. /\ IsFiniteSet(sync[p].reply) /\ sync[p].added <= Cardinality(Events(p))
        /\ WindowEnd(p) \in Nat
    BY <1>8, WindowAhead DEF Count, Placed, Answered, Active
  <2> DEFINE tally == [sync[p].tally EXCEPT
               !.inserted = @ + sync[p].added,
               !.duplicates = @ + Cardinality(Events(p)) - sync[p].added]
  <2>2. sync' = [sync EXCEPT
          ![p].pc = "window", ![p].cursor = WindowEnd(p),
          ![p].received = None, ![p].reply = {}, ![p].added = 0, ![p].tally = tally]
    BY <1>8 DEF Count
  <2>3. /\ sync[p].tally \in Tally /\ sync[p].added \in Nat
    BY <1>0 DEF SyncRow
  <2>4. tally \in Tally
    <3>1. /\ Cardinality(Events(p)) \in Nat
          /\ sync[p].tally.duplicates \in Nat /\ sync[p].tally.inserted \in Nat
      BY <2>1, <2>3, EventsFinite DEF Tally
    <3>2. sync[p].tally.duplicates + Cardinality(Events(p)) - sync[p].added \in Nat
      BY <2>1, <2>3, <3>1
    <3>3. sync[p].tally.inserted + sync[p].added \in Nat
      BY <2>3, <3>1
    <3> QED
      BY <2>3, <3>2, <3>3 DEF Tally
  <2> HIDE DEF tally
  <2>5. sync'[p] \in SyncRow
    BY <1>0, <2>1, <2>2, <2>4 DEF SyncRow, Active, None
  <2> QED
    BY <1>8, <2>2, <2>5 DEF Count, storeVars
<1>9. CASE FailProduct(p) \/ KillSync(p)
  BY <1>00, <1>9 DEF FailProduct, KillSync, Leave, storeVars
<1>10. CASE Complete(p) \/ Fail(p) \/ Interrupt(p)
  <2>1. PICK status \in {"complete", "failed", "interrupted"}, tally \in Tally :
          runs' = [runs EXCEPT ![p].status = status, ![p].tally = tally]
    BY <1>10, RunEnds
  <2>2. runs[p] \in RunRow
    BY <1>10 DEF Complete, Fail, Interrupt, Placed, Active
  <2>3. runs'[p] \in RunRow
    BY <1>0, <2>1, <2>2 DEF RunRow
  <2>4. sync' = [sync EXCEPT ![p] = Local("done")] /\ UNCHANGED <<now, instrument, bars>>
    BY <1>10 DEF Complete, Fail, Interrupt, Leave
  <2> QED
    BY <1>00, <2>1, <2>3, <2>4
<1> QED
  BY <1>1, <1>2, <1>3, <1>4, <1>5, <1>6, <1>7, <1>8, <1>9, <1>10 DEF SyncNext, SyncStep

-----------------------------------------------------------------------------
(* Where an execution stands *)

\* An execution that a step leaves alone stands where it did.
LEMMA OtherStands ==
  ASSUME TypeInv, NEW q \in Sync, Placed(q), Answered(q), CoverInv(q),
         sync'[q] = sync[q], runs'[q] = runs[q], quiet' = quiet,
         now' \in Hours, now <= now', bars \subseteq bars'
  PROVE  Placed(q)' /\ Answered(q)' /\ CoverInv(q)'
<1>1. Placed(q)'
  BY DEF Placed, TypeInv, Hours, SyncRow, RunRow
<1>2. WindowEnd(q)' = WindowEnd(q)
  BY DEF WindowEnd
<1>3. Events(q)' = Events(q)
  BY <1>2 DEF Events, InWindow, Closed
<1>4. Answered(q)'
  BY <1>2, <1>3 DEF Answered
<1>5. ASSUME NEW end, Covered(q, end) PROVE Covered(q, end)'
  BY <1>5 DEF Covered
<1>6. CoverInv(q)'
  BY <1>2, <1>5 DEF CoverInv
<1> QED
  BY <1>1, <1>4, <1>6

\* Its own step moves it on.
LEMMA PlacedStep ==
  ASSUME TypeInv, NEW p \in Sync, Placed(p), Answered(p), SyncNext(p)
  PROVE  Placed(p)'
<1> USE DEF TypeInv, Before, Active, storeVars
<1>0. /\ sync[p] \in SyncRow /\ now \in Hours /\ 0 \in Nat
      /\ NoRow \notin RunRow
      /\ runs[p] = NoRow \/ runs[p] \in RunRow
      /\ NoRow.status = "none"
  BY RowFields DEF NoRow
<1>1. CASE AskProduct(p)
  BY <1>0, <1>1 DEF AskProduct, Placed, SyncRow
<1>2. CASE GetProduct(p)
  BY <1>0, <1>2 DEF GetProduct, Placed, SyncRow
<1>3. CASE BeginRun(p)
  <2>1. sync[p].range \in Ranges
    BY <1>3 DEF BeginRun, Placed
  <2>2. /\ sync[p].range[1] \in Nat /\ sync[p].range[2] \in Nat
        /\ sync[p].range[1] < sync[p].range[2]
    BY <2>1, SyncAssumption
  <2>3. runs'[p] = [status |-> "running", start |-> sync[p].range[1],
                    end |-> sync[p].range[2], started |-> now, tally |-> NoTally]
    BY <1>3 DEF BeginRun, StartRun
  <2>4. runs'[p] \in RunRow
    BY <1>0, <2>2, <2>3 DEF RunRow, NoTally, Tally
  <2>5. /\ sync'[p].pc = "window" /\ sync'[p].cursor = sync[p].range[1]
        /\ sync'[p].range = sync[p].range /\ sync'[p].added = sync[p].added
        /\ now' = now
    BY <1>0, <1>3 DEF BeginRun, SyncRow
  <2>6. sync[p].added = 0 /\ now <= now
    BY <1>0, <1>3 DEF BeginRun, Placed, Hours
  <2> QED
    BY <2>1, <2>2, <2>3, <2>4, <2>5, <2>6 DEF Placed
<1>4. CASE AskWindow(p)
  <2>1. /\ sync'[p].pc = "request" /\ sync'[p].received = now
        /\ sync'[p].cursor = sync[p].cursor /\ sync'[p].range = sync[p].range
        /\ sync'[p].added = sync[p].added
        /\ runs' = runs /\ now' = now
    BY <1>0, <1>4 DEF AskWindow, SyncRow
  <2>2. sync[p].pc = "window" /\ sync[p].cursor < sync[p].range[2] /\ now <= now
    BY <1>0, <1>4 DEF AskWindow, Hours
  <2> QED
    BY <1>0, <2>1, <2>2 DEF Placed
<1>5. CASE GetWindow(p)
  <2>1. /\ sync'[p].pc = "store" /\ sync'[p].received = sync[p].received
        /\ sync'[p].cursor = sync[p].cursor /\ sync'[p].range = sync[p].range
        /\ sync'[p].added = sync[p].added
        /\ runs' = runs /\ now' = now
    BY <1>0, <1>5 DEF GetWindow, SyncRow
  <2>2. sync[p].pc = "request"
    BY <1>5 DEF GetWindow
  <2> QED
    BY <2>1, <2>2 DEF Placed
<1>6. CASE Retry(p)
  <2>1. /\ sync'[p].pc = sync[p].pc /\ sync'[p].received = sync[p].received
        /\ sync'[p].cursor = sync[p].cursor /\ sync'[p].range = sync[p].range
        /\ sync'[p].added = sync[p].added /\ sync'[p].tally = sync[p].tally
        /\ runs' = runs /\ now' = now
    BY <1>0, <1>6 DEF Retry, SyncRow
  <2> QED
    BY <2>1 DEF Placed
<1>7. CASE StoreWindow(p)
  <2>1. /\ sync'[p].pc = "count" /\ sync'[p].received = sync[p].received
        /\ sync'[p].cursor = sync[p].cursor /\ sync'[p].range = sync[p].range
        /\ runs' = runs /\ now' = now
    BY <1>0, <1>7 DEF StoreWindow, SyncRow
  <2>2. sync[p].pc = "store"
    BY <1>7 DEF StoreWindow
  <2> QED
    BY <2>1, <2>2 DEF Placed
<1>8. CASE Count(p)
  <2>1. /\ sync'[p].pc = "window" /\ sync'[p].cursor = WindowEnd(p)
        /\ sync'[p].range = sync[p].range /\ sync'[p].added = 0
        /\ runs' = runs /\ now' = now
    BY <1>0, <1>8 DEF Count, SyncRow
  <2>2. /\ sync[p].pc = "count" /\ sync[p].range \in Ranges
        /\ sync[p].cursor < sync[p].range[2] /\ sync[p].range[1] <= sync[p].cursor
    BY <1>8 DEF Count, Placed
  <2>3. /\ WindowEnd(p) \in Nat
        /\ sync[p].cursor < WindowEnd(p)
        /\ WindowEnd(p) <= sync[p].range[2]
    BY <2>2, WindowAhead
  <2>4. sync[p].cursor \in Nat /\ sync[p].range[1] \in Nat
    BY <1>0, <2>2, SyncAssumption DEF SyncRow
  <2>5. sync[p].range[1] <= WindowEnd(p)
    BY <2>2, <2>3, <2>4
  <2> QED
    BY <2>1, <2>2, <2>3, <2>5 DEF Placed
<1>9. CASE FailProduct(p)
  BY <1>9, <1>0 DEF FailProduct, Leave, Local, Placed
<1>10. CASE KillSync(p)
  BY <1>10, <1>0 DEF KillSync, Leave, Local, Placed
<1>11. CASE Complete(p) \/ Fail(p) \/ Interrupt(p)
  <2>1. PICK status \in {"complete", "failed", "interrupted"}, tally \in Tally :
          runs' = [runs EXCEPT ![p].status = status, ![p].tally = tally]
    BY <1>11, RunEnds
  <2>2. runs[p] \in RunRow
    BY <1>11 DEF Complete, Fail, Interrupt, Placed
  <2>3. runs'[p].status = status
    BY <1>0, <2>1, <2>2 DEF RunRow
  <2>4. sync'[p] = Local("done")
    BY <1>11 DEF Complete, Fail, Interrupt, Leave
  <2> QED
    BY <2>3, <2>4 DEF Local, Placed
<1> QED
  BY <1>1, <1>2, <1>3, <1>4, <1>5, <1>6, <1>7, <1>8, <1>9, <1>10, <1>11 DEF SyncNext, SyncStep

\* What it has of an answer is the venue's, and no more is added than it has.
LEMMA AnsweredStep ==
  ASSUME TypeInv, IsFiniteSet(bars), NEW p \in Sync, Placed(p), Answered(p), SyncNext(p)
  PROVE  Answered(p)'
<1> USE DEF TypeInv, Active, storeVars
<1>0. sync[p] \in SyncRow /\ now \in Hours
  OBVIOUS
<1>1. CASE GetWindow(p)
  <2>1. /\ sync'[p].pc = "store" /\ sync'[p].received = sync[p].received
        /\ sync'[p].cursor = sync[p].cursor /\ sync'[p].range = sync[p].range
        /\ sync'[p].reply = Candles(sync[p].cursor, WindowEnd(p))
        /\ quiet' = quiet
    BY <1>0, <1>1 DEF GetWindow, SyncRow
  <2>2. /\ sync[p].range \in Ranges /\ sync[p].cursor < sync[p].range[2]
        /\ sync[p].received \in Hours /\ sync[p].received <= now
    BY <1>1 DEF GetWindow, Placed
  <2>3. WindowEnd(p) \in Nat /\ sync[p].cursor \in Nat
    BY <1>0, <2>2, WindowAhead DEF SyncRow
  <2>4. WindowEnd(p)' = WindowEnd(p)
    BY <2>1 DEF WindowEnd
  <2>5. ASSUME NEW h \in sync[p].cursor .. WindowEnd(p) - 1, h <= sync[p].received
        PROVE  h \in sync[p].cursor .. WindowEnd(p) /\ h <= now
    BY <1>0, <2>2, <2>3, <2>5 DEF Hours
  <2> QED
    BY <2>1, <2>3, <2>4, <2>5, CandlesRight DEF Answered
<1>2. CASE StoreWindow(p)
  <2>1. /\ sync'[p].pc = "count" /\ sync'[p].received = sync[p].received
        /\ sync'[p].cursor = sync[p].cursor /\ sync'[p].range = sync[p].range
        /\ sync'[p].reply = sync[p].reply
        /\ sync'[p].added = Cardinality(Fresh(bars, Events(p)))
    BY <1>0, <1>2 DEF StoreWindow, SyncRow
  <2>2. IsFiniteSet(sync[p].reply)
    BY <1>2 DEF StoreWindow, Answered
  <2>3. Events(p)' = Events(p)
    BY <2>1 DEF Events, InWindow, Closed, WindowEnd
  <2>4. Fresh(bars, Events(p)) \in SUBSET Events(p)
    BY DEF Fresh
  <2>5. Cardinality(Fresh(bars, Events(p))) <= Cardinality(Events(p))
    BY <2>2, <2>4, EventsFinite, FS_Subset
  <2> QED
    BY <2>1, <2>2, <2>3, <2>5 DEF Answered
<1>3. CASE Retry(p)
  <2>1. sync'[p].pc = sync[p].pc /\ sync[p].pc \in {"product", "request"}
    BY <1>0, <1>3 DEF Retry, SyncRow
  <2> QED
    BY <2>1 DEF Answered
<1>4. CASE AskProduct(p) \/ GetProduct(p) \/ BeginRun(p) \/ AskWindow(p) \/ Count(p)
  <2>1. CASE AskProduct(p)
    <3> sync'[p].pc = "product"
      BY <1>0, <2>1 DEF AskProduct, SyncRow
    <3> QED
      BY DEF Answered
  <2>2. CASE GetProduct(p)
    <3> sync'[p].pc = "start"
      BY <1>0, <2>2 DEF GetProduct, SyncRow
    <3> QED
      BY DEF Answered
  <2>3. CASE BeginRun(p)
    <3> sync'[p].pc = "window"
      BY <1>0, <2>3 DEF BeginRun, SyncRow
    <3> QED
      BY DEF Answered
  <2>4. CASE AskWindow(p)
    <3> sync'[p].pc = "request"
      BY <1>0, <2>4 DEF AskWindow, SyncRow
    <3> QED
      BY DEF Answered
  <2>5. CASE Count(p)
    <3> sync'[p].pc = "window"
      BY <1>0, <2>5 DEF Count, SyncRow
    <3> QED
      BY DEF Answered
  <2> QED
    BY <1>4, <2>1, <2>2, <2>3, <2>4, <2>5
<1>5. CASE FailProduct(p) \/ KillSync(p) \/ Complete(p) \/ Fail(p) \/ Interrupt(p)
  BY <1>0, <1>5 DEF FailProduct, KillSync, Complete, Fail, Interrupt, Leave, Local, Answered
<1> QED
  BY <1>1, <1>2, <1>3, <1>4, <1>5 DEF SyncNext, SyncStep

-----------------------------------------------------------------------------
(* The coverage of a range *)

\* The events of a window leave no hour out, whether they are stored now or
\* were there before.
LEMMA WindowStored ==
  ASSUME TypeInv, NEW p \in Sync, Placed(p), Answered(p), sync[p].pc = "store",
         NEW h \in sync[p].cursor .. WindowEnd(p) - 1, h \notin quiet, h + 1 <= runs[p].started
  PROVE  \E b \in bars \union Fresh(bars, Events(p)) : b.at = h
<1>1. /\ sync[p].received \in Hours /\ runs[p] \in RunRow
      /\ runs[p].started <= sync[p].received
  BY DEF Placed, Active
<1>2. runs[p].started \in Nat /\ sync[p].received \in Nat
  BY <1>1, ClockAssumption DEF RunRow, Hours
<1>3. sync[p].cursor \in Nat /\ WindowEnd(p) \in Nat
  BY WindowAhead DEF Placed, Active, TypeInv, SyncRow
<1>4. h <= sync[p].received /\ h + 1 <= sync[p].received
  BY <1>1, <1>2, <1>3
<1>5. PICK c \in sync[p].reply : c.at = h
  BY <1>4 DEF Answered
<1>6. sync[p].cursor <= c.at /\ c.at < WindowEnd(p) /\ c.at + 1 <= sync[p].received
  BY <1>3, <1>4, <1>5
<1>7. PICK e \in Events(p) : e.at = h
  BY <1>1, <1>5, <1>6, EventsRight
<1>8. CASE e \in Fresh(bars, Events(p))
  BY <1>7, <1>8
<1>9. CASE e \notin Fresh(bars, Events(p))
  <2>1. PICK x \in bars : EventId(x) = EventId(e)
    BY <1>9 DEF Fresh
  <2>2. x.at = h
    BY <1>7, <2>1 DEF EventId
  <2> QED
    BY <2>2
<1> QED
  BY <1>8, <1>9

\* A step keeps what is covered of a run, and a run completes at its end.
LEMMA CoverStep ==
  ASSUME TypeInv, NEW p \in Sync, Placed(p), Answered(p), CoverInv(p), SyncNext(p)
  PROVE  CoverInv(p)'
<1> USE DEF TypeInv, storeVars
<1>0. /\ sync[p] \in SyncRow /\ now \in Hours
      /\ runs[p] = NoRow \/ runs[p] \in RunRow
      /\ NoRow.status = "none"
  BY DEF NoRow
<1>1. bars \subseteq bars' /\ quiet' = quiet
  BY OneSyncs
<1>2. ASSUME NEW end, Covered(p, end), runs'[p].start = runs[p].start,
             runs'[p].started = runs[p].started
      PROVE  Covered(p, end)'
  BY <1>1, <1>2 DEF Covered
<1>3. CASE AskProduct(p) \/ GetProduct(p)
  <2>1. sync'[p].pc \in {"product", "start"} /\ runs' = runs /\ runs[p] = NoRow
    <3>1. CASE AskProduct(p)
      BY <1>0, <3>1 DEF AskProduct, SyncRow, Placed, Before
    <3>2. CASE GetProduct(p)
      BY <1>0, <3>2 DEF GetProduct, SyncRow, Placed, Before
    <3> QED
      BY <1>3, <3>1, <3>2
  <2> QED
    BY <1>0, <2>1 DEF CoverInv, Active
<1>4. CASE BeginRun(p)
  <2>1. /\ sync'[p].pc = "window" /\ sync'[p].cursor = sync[p].range[1]
        /\ sync'[p].range = sync[p].range
        /\ sync[p].range[1] \in Nat
    BY <1>0, <1>4, SyncAssumption DEF BeginRun, SyncRow, Placed
  <2>2. runs'[p].start = sync[p].range[1] /\ runs'[p].status = "running"
    BY <1>4 DEF BeginRun, StartRun
  <2>3. Covered(p, sync[p].range[1])'
    BY <2>1, <2>2, <1>4 DEF Covered, BeginRun
  <2> QED
    BY <2>1, <2>2, <2>3 DEF CoverInv
<1>5. CASE AskWindow(p) \/ GetWindow(p) \/ Retry(p)
  <2>1. /\ sync'[p].pc = sync[p].pc \/ sync'[p].pc \in {"request", "store"}
        /\ sync[p].pc # "count" /\ sync'[p].cursor = sync[p].cursor /\ runs' = runs
    BY <1>0, <1>5 DEF AskWindow, GetWindow, Retry, SyncRow
  <2>2. sync'[p].pc \in Active => sync[p].pc \in Active
    <3>1. CASE AskWindow(p)
      BY <3>1 DEF AskWindow, Active
    <3>2. CASE GetWindow(p)
      BY <3>2 DEF GetWindow, Active
    <3>3. CASE Retry(p)
      <4>1. sync'[p].pc = sync[p].pc
        BY <1>0, <3>3 DEF Retry, SyncRow
      <4> QED
        BY <4>1
    <3> QED
      BY <1>5, <3>1, <3>2, <3>3
  <2>3. sync'[p].pc # "count"
    BY <2>1
  <2> QED
    BY <1>2, <2>1, <2>2, <2>3 DEF CoverInv
<1>6. CASE StoreWindow(p)
  <2>1. /\ sync[p].pc = "store" /\ sync'[p].pc = "count" /\ runs' = runs
        /\ sync'[p].cursor = sync[p].cursor /\ sync'[p].range = sync[p].range
        /\ bars' = bars \union Fresh(bars, Events(p))
    BY <1>0, <1>6 DEF StoreWindow, SyncRow
  <2>2. /\ runs[p].status = "running" /\ runs[p] \in RunRow
        /\ sync[p].cursor \in Nat /\ WindowEnd(p) \in Nat
    BY <1>0, <2>1, WindowAhead DEF Placed, Active, SyncRow
  <2>3. runs[p].start \in Nat /\ runs[p].started \in Nat
    BY <2>2, ClockAssumption DEF RunRow, Hours
  <2>4. Covered(p, sync[p].cursor)
    BY <2>1 DEF CoverInv, Active
  <2>5. ASSUME NEW h \in runs[p].start .. WindowEnd(p) - 1
        PROVE  \/ \E b \in bars' : b.at = h
               \/ h \in quiet
               \/ h + 1 > runs[p].started
    <3>1. CASE h \in runs[p].start .. sync[p].cursor - 1
      BY <1>1, <2>4, <3>1 DEF Covered
    <3>2. CASE h \in sync[p].cursor .. WindowEnd(p) - 1
      <4>1. h + 1 <= runs[p].started \/ h + 1 > runs[p].started
        BY <2>2, <2>3
      <4> QED
        BY <2>1, <3>2, <4>1, WindowStored
    <3> QED
      BY <2>2, <2>3, <3>1, <3>2
  <2>6. Covered(p, WindowEnd(p))'
    <3>1. WindowEnd(p)' = WindowEnd(p)
      BY <2>1 DEF WindowEnd
    <3> QED
      BY <1>1, <2>1, <2>5, <3>1 DEF Covered
  <2> QED
    BY <2>1, <2>2, <2>6 DEF CoverInv
<1>7. CASE Count(p)
  <2>1. /\ sync[p].pc = "count" /\ sync'[p].pc = "window"
        /\ sync'[p].cursor = WindowEnd(p) /\ runs' = runs
    BY <1>0, <1>7 DEF Count, SyncRow
  <2> QED
    BY <1>2, <2>1 DEF CoverInv, Active
<1>8. CASE Complete(p)
  <2>1. /\ sync[p].pc = "window" /\ sync[p].cursor >= sync[p].range[2]
        /\ sync'[p] = Local("done")
        /\ runs' = [runs EXCEPT ![p].status = "complete", ![p].tally = sync[p].tally]
    BY <1>8 DEF Complete, FinishRun, Leave
  <2>2. /\ runs[p] \in RunRow /\ runs[p].end = sync[p].range[2]
        /\ runs[p].start = sync[p].range[1]
        /\ sync[p].range[1] <= sync[p].cursor
        /\ sync[p].cursor <= sync[p].range[2] /\ sync[p].range \in Ranges
    BY <2>1 DEF Placed, Active
  <2>3. sync[p].cursor = runs[p].end /\ runs[p].start <= runs[p].end
    <3>1. sync[p].cursor \in Nat /\ sync[p].range[2] \in Nat
      BY <1>0, <2>2, SyncAssumption DEF SyncRow
    <3>2. sync[p].cursor = sync[p].range[2]
      BY <2>1, <2>2, <3>1
    <3> QED
      BY <2>2, <3>2
  <2>4. Covered(p, runs[p].end)
    BY <2>1, <2>3 DEF CoverInv, Active
  <2>5. /\ runs'[p].start = runs[p].start /\ runs'[p].started = runs[p].started
        /\ runs'[p].end = runs[p].end
    BY <2>1, <2>2 DEF RunRow
  <2>6. Covered(p, runs[p].end)'
    BY <1>1, <2>4, <2>5 DEF Covered
  <2> QED
    BY <2>1, <2>3, <2>5, <2>6 DEF CoverInv, Local, Active
<1>9. CASE Fail(p) \/ Interrupt(p)
  <2>1. PICK status \in {"failed", "interrupted"}, tally \in Tally :
          runs' = [runs EXCEPT ![p].status = status, ![p].tally = tally]
    BY <1>9, RunEnds
  <2>2. runs[p] \in RunRow
    BY <1>9 DEF Fail, Interrupt, Placed, Active
  <2>3. runs'[p].status = status
    BY <2>1, <2>2 DEF RunRow
  <2>4. sync'[p] = Local("done")
    BY <1>9 DEF Fail, Interrupt, Leave
  <2> QED
    BY <2>3, <2>4 DEF Local, CoverInv, Active
<1>10. CASE FailProduct(p) \/ KillSync(p)
  <2>1. sync'[p] = Local("done") /\ runs' = runs
    BY <1>10 DEF FailProduct, KillSync, Leave
  <2>2. runs[p].status = "complete" =>
          runs[p].start <= runs[p].end /\ Covered(p, runs[p].end)'
    BY <1>2, <2>1 DEF CoverInv
  <2> QED
    BY <2>1, <2>2 DEF Local, CoverInv, Active
<1> QED
  BY <1>3, <1>4, <1>5, <1>6, <1>7, <1>8, <1>9, <1>10 DEF SyncNext, SyncStep

-----------------------------------------------------------------------------
(* The account of the bars *)

\* A sum changes by what one of its terms changes.
LEMMA SumChange ==
  ASSUME NEW S, IsFiniteSet(S), NEW x \in S,
         NEW f, \A y \in S : f[y] \in Int,
         NEW g, \A y \in S : g[y] \in Int,
         \A y \in S \ {x} : g[y] = f[y]
  PROVE  /\ SumOver(f, S) \in Int
         /\ SumOver(g, S) = SumOver(f, S) + g[x] - f[x]
<1>1. IsFiniteSet(S \ {x}) /\ S \ {x} \in SUBSET (S \ {x})
  BY FS_Subset
<1>2. SumOver(f, S \ {x}) <= SumOver(g, S \ {x}) /\ SumOver(g, S \ {x}) <= SumOver(f, S \ {x})
  <2>1. \A y \in S \ {x} : f[y] <= g[y] /\ g[y] <= f[y] /\ f[y] \in Int /\ g[y] \in Int
    OBVIOUS
  <2> QED
    BY <1>1, <2>1, SumLess
<1>3. /\ SumOver(f, S) \in Int /\ SumOver(f, S \ {x}) \in Int
      /\ SumOver(f, S) = f[x] + SumOver(f, S \ {x})
  BY SumAt
<1>4. /\ SumOver(g, S) \in Int /\ SumOver(g, S \ {x}) \in Int
      /\ SumOver(g, S) = g[x] + SumOver(g, S \ {x})
  BY SumAt
<1>5. PICK a \in Int, b \in Int : a = f[x] /\ b = g[x]
  OBVIOUS
<1>6. PICK u \in Int, v \in Int : u = SumOver(f, S \ {x}) /\ v = SumOver(g, S \ {x})
  BY <1>3, <1>4
<1>7. u = v
  BY <1>2, <1>6
<1>8. SumOver(f, S) = a + u /\ SumOver(g, S) = b + u
  BY <1>3, <1>4, <1>5, <1>6, <1>7
<1> QED
  BY <1>5, <1>6, <1>8

\* The credit of an execution.
LEMMA CreditNat ==
  ASSUME TypeInv, NEW p \in Sync
  PROVE  /\ Credit[p] \in Nat
         /\ sync[p].pc \in Active => Credit[p] = sync[p].tally.inserted + sync[p].added
         /\ sync[p].pc \notin Active /\ runs[p].status = "none" => Credit[p] = 0
         /\ sync[p].pc \notin Active /\ runs[p].status # "none"
              => Credit[p] = runs[p].tally.inserted
<1>1. sync[p].tally.inserted \in Nat /\ sync[p].added \in Nat
  BY DEF TypeInv, SyncRow, Tally
<1>2. runs[p].status # "none" => runs[p].tally.inserted \in Nat
  BY RowFields DEF RunRow, Tally, NoRow
<1> QED
  BY <1>1, <1>2 DEF Credit

\* Only a running execution makes a step.
LEMMA NotLost ==
  ASSUME TypeInv, NEW p \in Sync, Placed(p), SyncNext(p)
  PROVE  ~Lost(p)
<1>1. sync[p].pc # "done"
  BY DEF SyncNext, SyncStep, AskProduct, GetProduct, BeginRun, AskWindow, GetWindow, Retry,
         StoreWindow, Count, Complete, FailProduct, Fail, Interrupt, KillSync
<1>2. sync[p].pc \in Before \/ sync[p].pc \in Active
  BY <1>1 DEF TypeInv, SyncRow
<1>3. runs[p].status \in {"none", "running"}
  BY <1>2 DEF Placed, NoRow
<1> QED
  BY <1>1, <1>3 DEF Lost

\* The bars that a window adds are new and of different hours.
LEMMA FreshBars ==
  ASSUME TypeInv, NEW p \in Sync, Placed(p), Answered(p), StoreWindow(p),
         IsFiniteSet(bars), \A x, y \in bars : x.at = y.at => x = y
  PROVE  /\ IsFiniteSet(bars')
         /\ Cardinality(bars') = Cardinality(bars) + Cardinality(Fresh(bars, Events(p)))
         /\ Cardinality(Fresh(bars, Events(p))) \in Nat
         /\ \A x, y \in bars' : x.at = y.at => x = y
<1> DEFINE fresh == Fresh(bars, Events(p))
<1>1. sync[p].pc = "store" /\ sync[p].received \in Hours /\ IsFiniteSet(sync[p].reply)
  BY DEF StoreWindow, Placed, Answered
<1>2. fresh \in SUBSET Events(p) /\ \A e \in fresh : \A x \in bars : EventId(x) # EventId(e)
  BY DEF Fresh
<1>3. bars' = bars \union fresh
  BY DEF StoreWindow
<1>4. IsFiniteSet(fresh)
  BY <1>1, <1>2, EventsFinite, FS_Subset
<1>5. Events(p) \subseteq BarRow /\ bars \subseteq BarRow
  BY <1>1, EventsRight DEF TypeInv
<1> HIDE DEF fresh
<1>6. \A x \in bars : \A e \in fresh : x.at # e.at
  <2> SUFFICES ASSUME NEW x \in bars, NEW e \in fresh, x.at = e.at PROVE FALSE
    OBVIOUS
  <2>1. x.key = "ONE_HOUR" /\ e.key = "ONE_HOUR"
    BY <1>2, <1>5 DEF BarRow
  <2> QED
    BY <1>2, <2>1 DEF EventId
<1>7. bars \cap fresh = {}
  BY <1>6
<1>8. /\ IsFiniteSet(bars \union fresh)
      /\ Cardinality(bars \union fresh)
           = Cardinality(bars) + Cardinality(fresh) - Cardinality(bars \cap fresh)
  BY <1>4, FS_Union
<1>9. Cardinality(bars \cap fresh) = 0
  BY <1>7, FS_EmptySet
<1>10. Cardinality(bars) \in Nat /\ Cardinality(fresh) \in Nat
  BY <1>4, FS_CardinalityType
<1>11. ASSUME NEW x \in fresh, NEW y \in fresh, x.at = y.at PROVE x = y
  <2>1. x \in Events(p) /\ y \in Events(p) /\ x \in BarRow /\ y \in BarRow
    BY <1>2, <1>5
  <2>2. PICK c \in sync[p].reply : c.at = x.at /\ c.value = x.value
    BY <1>1, <2>1, EventsRight
  <2>3. PICK d \in sync[p].reply : d.at = y.at /\ d.value = y.value
    BY <1>1, <2>1, EventsRight
  <2>4. c = d
    BY <1>1, <1>11, <2>2, <2>3 DEF Answered
  <2>5. x.received = y.received /\ x.key = y.key
    BY <1>1, <2>1, EventsRight
  <2> QED
    BY <1>11, <2>1, <2>2, <2>3, <2>4, <2>5 DEF BarRow
<1>12. \A x, y \in bars' : x.at = y.at => x = y
  BY <1>3, <1>6, <1>11
<1> QED
  BY <1>3, <1>8, <1>9, <1>10, <1>12 DEF fresh

\* A step that stores nothing keeps the credit, or loses some of it.
LEMMA CreditMove ==
  ASSUME TypeInv, TypeInv', NEW p \in Sync, Placed(p), Answered(p), SyncNext(p),
         ~StoreWindow(p)
  PROVE  Credit'[p] = Credit[p] \/ (Lost(p)' /\ Credit'[p] <= Credit[p])
<1> USE DEF storeVars
<1>0. /\ sync[p] \in SyncRow /\ sync[p].tally \in Tally /\ sync[p].added \in Nat
      /\ sync \in [Sync -> SyncRow] /\ runs \in [Sync -> {NoRow} \union RunRow]
      /\ NoRow.status = "none" /\ NoTally.inserted = 0
  BY DEF TypeInv, SyncRow, NoRow, NoTally
<1>00. /\ Credit'[p] \in Nat
       /\ sync'[p].pc \in Active => Credit'[p] = sync'[p].tally.inserted + sync'[p].added
       /\ sync'[p].pc \notin Active /\ runs'[p].status = "none" => Credit'[p] = 0
       /\ sync'[p].pc \notin Active /\ runs'[p].status # "none"
            => Credit'[p] = runs'[p].tally.inserted
  <2>1. sync'[p].tally.inserted \in Nat /\ sync'[p].added \in Nat
    BY DEF TypeInv, SyncRow, Tally
  <2>2. runs'[p].status # "none" => runs'[p].tally.inserted \in Nat
    BY DEF TypeInv, RunRow, Tally, NoRow
  <2> QED
    BY <2>1, <2>2 DEF Credit
<1>1. CASE AskProduct(p) \/ GetProduct(p) \/ FailProduct(p)
  <2>1. /\ sync[p].pc \notin Active /\ sync'[p].pc \notin Active
        /\ runs[p] = NoRow /\ runs' = runs
    <3>1. CASE AskProduct(p)
      BY <1>0, <3>1 DEF AskProduct, SyncRow, Placed, Before, Active
    <3>2. CASE GetProduct(p)
      BY <1>0, <3>2 DEF GetProduct, SyncRow, Placed, Before, Active
    <3>3. CASE FailProduct(p)
      BY <1>0, <3>3 DEF FailProduct, Leave, Local, Placed, Before, Active
    <3> QED
      BY <1>1, <3>1, <3>2, <3>3
  <2> QED
    BY <1>0, <1>00, <2>1, CreditNat
<1>2. CASE BeginRun(p)
  <2>1. /\ sync[p].pc = "start" /\ sync'[p].pc = "window"
        /\ sync'[p].tally = sync[p].tally /\ sync'[p].added = sync[p].added
    BY <1>0, <1>2 DEF BeginRun, SyncRow
  <2>2. runs[p] = NoRow /\ sync[p].tally = NoTally /\ sync[p].added = 0
    BY <2>1 DEF Placed, Before
  <2> QED
    BY <1>0, <1>00, <2>1, <2>2, CreditNat DEF Active
<1>3. CASE AskWindow(p) \/ GetWindow(p)
  <2>1. /\ sync[p].pc \in Active /\ sync'[p].pc \in Active
        /\ sync'[p].tally.inserted = sync[p].tally.inserted /\ sync'[p].added = sync[p].added
    <3>1. CASE AskWindow(p)
      BY <1>0, <3>1 DEF AskWindow, SyncRow, Active
    <3>2. CASE GetWindow(p)
      BY <1>0, <3>2 DEF GetWindow, SyncRow, Active, Tally
    <3> QED
      BY <1>3, <3>1, <3>2
  <2> QED
    BY <1>00, <2>1, CreditNat
<1>4. CASE Retry(p)
  <2>1. /\ sync'[p].pc = sync[p].pc /\ runs' = runs
        /\ sync'[p].tally = sync[p].tally /\ sync'[p].added = sync[p].added
    BY <1>0, <1>4 DEF Retry, SyncRow
  <2> QED
    BY <1>00, <2>1, CreditNat
<1>5. CASE Count(p)
  <2>1. /\ sync[p].pc = "count" /\ sync'[p].pc = "window"
        /\ sync'[p].tally.inserted = sync[p].tally.inserted + sync[p].added
        /\ sync'[p].added = 0
    BY <1>0, <1>5 DEF Count, SyncRow, Tally
  <2>2. sync[p].tally.inserted \in Nat
    BY <1>0 DEF Tally
  <2> QED
    BY <1>0, <1>00, <2>1, <2>2, CreditNat DEF Active
<1>6. CASE Complete(p) \/ Fail(p) \/ Interrupt(p)
  <2>1. PICK status \in {"complete", "failed", "interrupted"}, tally \in Tally :
          /\ runs' = [runs EXCEPT ![p].status = status, ![p].tally = tally]
          /\ tally.inserted = sync[p].tally.inserted
          /\ Interrupt(p) => status = "interrupted"
    BY <1>6, RunEnds
  <2>2. sync[p].pc \in Active /\ (~Interrupt(p) => sync[p].pc # "count")
    BY <1>6 DEF Complete, Fail, Interrupt, Active
  <2>3. runs[p] \in RunRow
    BY <2>2 DEF Placed
  <2>4. runs'[p].status = status /\ runs'[p].tally = tally
    BY <1>0, <2>1, <2>3 DEF RunRow
  <2>5. sync'[p].pc \notin Active
    BY <1>0, <1>6 DEF Complete, Fail, Interrupt, Leave, Local, Active
  <2>6. Credit'[p] = sync[p].tally.inserted /\ sync[p].tally.inserted \in Nat
    BY <1>0, <1>00, <2>1, <2>4, <2>5 DEF Tally
  <2>7. Credit[p] = sync[p].tally.inserted + sync[p].added
    BY <2>2, CreditNat
  <2>8. ~Interrupt(p) => sync[p].added = 0
    BY <2>2 DEF Placed
  <2>9. Interrupt(p) => Lost(p)'
    BY <2>1, <2>4 DEF Lost
  <2> QED
    BY <1>0, <2>6, <2>7, <2>8, <2>9
<1>7. CASE KillSync(p)
  <2>1. runs' = runs /\ sync'[p].pc = "done" /\ sync[p].pc # "done"
    BY <1>0, <1>7 DEF KillSync, Leave, Local
  <2>2. CASE sync[p].pc \in Active
    <3>1. /\ runs[p] # NoRow /\ runs[p].status = "running" /\ runs[p].tally = NoTally
      BY <2>2, RowFields DEF Placed
    <3>2. Lost(p)'
      BY <2>1, <3>1 DEF Lost
    <3>3. Credit'[p] = 0
      BY <1>0, <1>00, <2>1, <3>1 DEF Active
    <3> QED
      BY <3>2, <3>3, CreditNat
  <2>3. CASE sync[p].pc \notin Active
    <3>1. runs[p] = NoRow
      BY <1>0, <2>1, <2>3 DEF Placed, SyncRow
    <3> QED
      BY <1>0, <1>00, <2>1, <2>3, <3>1, CreditNat DEF Active
  <2> QED
    BY <2>2, <2>3
<1> QED
  BY <1>1, <1>2, <1>3, <1>4, <1>5, <1>6, <1>7 DEF SyncNext, SyncStep

\* The account stands after every step of an execution.
LEMMA CreditStep ==
  ASSUME TypeInv, TypeInv', NEW p \in Sync, Placed(p), Answered(p), CreditInv, SyncNext(p)
  PROVE  CreditInv'
<1>1. \A q \in Sync : Credit[q] \in Int /\ Credit'[q] \in Int
  <2>1. \A q \in Sync : Credit[q] \in Nat
    BY CreditNat
  <2>2. ASSUME NEW q \in Sync PROVE Credit'[q] \in Nat
    <3>1. sync'[q].tally.inserted \in Nat /\ sync'[q].added \in Nat
      BY DEF TypeInv, SyncRow, Tally
    <3>2. runs'[q].status # "none" => runs'[q].tally.inserted \in Nat
      BY DEF TypeInv, RunRow, Tally, NoRow
    <3> QED
      BY <3>1, <3>2 DEF Credit
  <2> QED
    BY <2>1, <2>2
<1>2. \A q \in Sync \ {p} : Credit'[q] = Credit[q] /\ (Lost(q)' <=> Lost(q))
  BY OneSyncs DEF Credit, Lost
<1>3. /\ SumOver(Credit, Sync) \in Int
      /\ SumOver(Credit, Sync)' = SumOver(Credit, Sync) + Credit'[p] - Credit[p]
  BY <1>1, <1>2, SumChange, StoreAssumption
<1>4. ~Lost(p) /\ ((\A q \in Sync : ~Lost(q)') => \A q \in Sync : ~Lost(q))
  BY <1>2, NotLost
<1>5. Cardinality(bars) \in Nat
  BY FS_CardinalityType DEF CreditInv
<1>6. CASE StoreWindow(p)
  <2>1. /\ sync[p].pc = "store" /\ sync'[p].pc = "count"
        /\ sync'[p].tally.inserted = sync[p].tally.inserted
        /\ sync'[p].added = Cardinality(Fresh(bars, Events(p)))
        /\ sync[p].added = 0 /\ sync[p].tally.inserted \in Nat
    BY <1>6 DEF StoreWindow, TypeInv, SyncRow, Placed, Tally
  <2>2. /\ IsFiniteSet(bars')
        /\ Cardinality(bars') = Cardinality(bars) + Cardinality(Fresh(bars, Events(p)))
        /\ Cardinality(Fresh(bars, Events(p))) \in Nat
        /\ \A x, y \in bars' : x.at = y.at => x = y
    BY <1>6, FreshBars DEF CreditInv
  <2>3. Credit'[p] = Credit[p] + Cardinality(Fresh(bars, Events(p)))
    BY <2>1, <2>2 DEF Credit, Active
  <2>4. SumOver(Credit, Sync)' = SumOver(Credit, Sync) + Cardinality(Fresh(bars, Events(p)))
    BY <1>1, <1>3, <2>2, <2>3
  <2> QED
    BY <1>3, <1>4, <1>5, <2>2, <2>4 DEF CreditInv
<1>7. CASE ~StoreWindow(p)
  <2>1. bars' = bars
    BY <1>7, OneSyncs
  <2>2. Credit'[p] = Credit[p] \/ (Lost(p)' /\ Credit'[p] <= Credit[p])
    BY <1>7, CreditMove
  <2>3. SumOver(Credit, Sync)' <= SumOver(Credit, Sync)
    BY <1>1, <1>3, <2>2
  <2>4. (\A q \in Sync : ~Lost(q)') => SumOver(Credit, Sync)' = SumOver(Credit, Sync)
    BY <1>1, <1>3, <2>2
  <2>5. SumOver(Credit, Sync)' \in Int
    BY <1>1, <1>3
  <2> QED
    BY <1>3, <1>4, <1>5, <2>1, <2>3, <2>4, <2>5 DEF CreditInv
<1> QED
  BY <1>6, <1>7

-----------------------------------------------------------------------------
(* The invariant holds *)

\* What a capture and an import leave to the synchronisations.
LEMMA StreamAside ==
  ASSUME NEW s \in Session, StreamNext(s)
  PROVE  UNCHANGED <<now, instrument, bars, archived, runs>>
<1>1. CASE OpenStream(s) \/ Connect(s) \/ Expire(s) \/ KillStream(s)
  BY <1>1 DEF OpenStream, Connect, Expire, KillStream, storeVars
<1>2. CASE Save(s) \/ Parse(s)
  BY <1>2 DEF Save, Parse
<1>3. CASE EndStream(s) \/ Break(s) \/ Cancel(s)
  BY <1>3 DEF EndStream, Break, Cancel, Close
<1>4. ASSUME NEW m \in Message, Receive(s, m)
      PROVE  UNCHANGED <<now, instrument, bars, archived, runs>>
  BY <1>4 DEF Receive, storeVars
<1> QED
  BY <1>1, <1>2, <1>3, <1>4 DEF StreamNext, StreamStep

\* An import writes neither bars nor runs.
LEMMA ImportAside ==
  ASSUME NEW i \in Import, ImportNext(i)
  PROVE  UNCHANGED <<now, instrument, bars, runs>>
BY DEF ImportNext, ImportStep, ReadArchive, Lookup, Insert, KillImport, storeVars

\* No bar is stored and no run is counted in the beginning.
LEMMA SyncInitially == Init => SyncInv
<1> SUFFICES ASSUME Init PROVE SyncInv
  OBVIOUS
<1>1. PICK scenario \in Scenario : SyncInit(scenario.launched)
  BY DEF Init
<1>2. /\ now = 0 /\ instrument = None /\ bars = {}
      /\ runs = [p \in Sync |-> NoRow]
  BY DEF Init, StoreInit
<1>3. \A p \in Sync : sync[p] = Local("idle") \/ sync[p] = Local("off")
  BY <1>1 DEF SyncInit
<1>4. Local("idle") \in SyncRow /\ Local("off") \in SyncRow
  <2>1. 0 \in 0 .. MaxAttempts /\ NoTally \in Tally
    BY SyncAssumption DEF NoTally, Tally
  <2> QED
    BY <2>1 DEF Local, SyncRow, Before
<1>5. TypeInv
  <2>1. sync \in [Sync -> SyncRow]
    BY <1>1, <1>3, <1>4 DEF SyncInit
  <2> QED
    BY <1>2, <2>1, ClockAssumption DEF TypeInv, Hours
<1>6. ASSUME NEW p \in Sync PROVE Placed(p) /\ Answered(p) /\ CoverInv(p)
  <2>1. /\ sync[p].pc \in {"idle", "off"} /\ runs[p] = NoRow
        /\ sync[p].tally = NoTally /\ sync[p].added = 0
    BY <1>2, <1>3 DEF Local
  <2> QED
    BY <2>1 DEF Placed, Answered, CoverInv, Active, NoRow
<1>7. CreditInv
  <2>1. IsFiniteSet(bars) /\ Cardinality(bars) = 0
    BY <1>2, FS_EmptySet
  <2>2. \A p \in Sync : Credit[p] = 0 /\ Credit[p] \in Int
    BY <1>2, <1>3 DEF Credit, Local, Active, NoRow
  <2>3. SumOver(Credit, Sync) = 0
    <3>1. {} \in SUBSET Sync /\ IsFiniteSet({})
      BY FS_EmptySet
    <3>2. \A x \in {} : Credit[x] \in Int
      OBVIOUS
    <3>3. SumOver(Credit, {}) = 0
      BY <3>1, <3>2, SumAt
    <3>4. SumOver(Credit, {}) <= SumOver(Credit, Sync)
      BY <2>2, <3>1, SumLess, StoreAssumption
    <3>5. SumOver(Credit, Sync) <= SumOver(Credit, {})
      BY <2>2, <3>1, SumMore, StoreAssumption
    <3>6. SumOver(Credit, Sync) \in Int
      BY <2>2, SumAt, StoreAssumption
    <3> QED
      BY <3>3, <3>4, <3>5, <3>6
  <2> QED
    BY <1>2, <2>1, <2>3 DEF CreditInv
<1> QED
  BY <1>5, <1>6, <1>7 DEF SyncInv

\* Every step of the recorder keeps it.
LEMMA SyncKept ==
  ASSUME SyncInv, [Next]_vars
  PROVE  SyncInv'
<1> USE DEF SyncInv
<1>1. ASSUME UNCHANGED <<instrument, bars, runs, syncVars>>, now' \in Hours, now <= now'
      PROVE  SyncInv'
  <2>1. TypeInv'
    BY <1>1 DEF TypeInv, syncVars
  <2>2. \A q \in Sync : Placed(q)' /\ Answered(q)' /\ CoverInv(q)'
    BY <1>1, OtherStands DEF syncVars
  <2>3. CreditInv'
    BY <1>1 DEF CreditInv, Credit, Lost, syncVars
  <2> QED
    BY <2>1, <2>2, <2>3
<1>2. now \in Hours /\ now <= now
  BY ClockAssumption DEF TypeInv, Hours
<1>3. CASE Tick
  <2>1. now' \in Hours /\ now <= now'
    BY <1>2, <1>3, ClockAssumption DEF Tick, Hours
  <2> QED
    BY <1>1, <1>3, <2>1 DEF Tick, storeVars
<1>4. CASE UNCHANGED vars
  BY <1>1, <1>2, <1>4 DEF vars, storeVars
<1>5. ASSUME NEW s \in Session, StreamNext(s), UNCHANGED <<syncVars, import>>
      PROVE  SyncInv'
  BY <1>1, <1>2, <1>5, StreamAside
<1>6. ASSUME NEW i \in Import, ImportNext(i), UNCHANGED <<syncVars, stream>>
      PROVE  SyncInv'
  BY <1>1, <1>2, <1>6, ImportAside
<1>7. ASSUME NEW p \in Sync, SyncNext(p)
      PROVE  SyncInv'
  <2>1. TypeInv'
    BY <1>7, TypeInvStep
  <2>2. Placed(p)' /\ CoverInv(p)'
    BY <1>7, PlacedStep, CoverStep
  <2>3. Answered(p)'
    BY <1>7, AnsweredStep DEF CreditInv
  <2>4. ASSUME NEW q \in Sync \ {p}
        PROVE  Placed(q)' /\ Answered(q)' /\ CoverInv(q)'
    <3>1. /\ sync'[q] = sync[q] /\ runs'[q] = runs[q] /\ quiet' = quiet
          /\ now' = now /\ bars \subseteq bars'
      BY <1>7, OneSyncs
    <3> QED
      BY <1>2, <3>1, OtherStands
  <2>5. CreditInv'
    BY <1>7, <2>1, CreditStep
  <2> QED
    BY <2>1, <2>2, <2>3, <2>4, <2>5
<1> QED
  BY <1>3, <1>4, <1>5, <1>6, <1>7 DEF Next

\* The synchronisations keep their invariant, whatever else uses the store.
THEOREM SyncInductive == Spec => []SyncInv
<1>1. SyncInv /\ [Next]_vars => SyncInv'
  BY SyncKept
<1> QED
  BY <1>1, SyncInitially, PTL DEF Spec

-----------------------------------------------------------------------------
(* What the runs counted *)

\* The count that BarsCounted names is a sum of the runs' counts.
LEMMA InsertedSum ==
  ASSUME NEW T, IsFiniteSet(T), NEW k \in [T -> Int], \A p \in T : k[p] = runs[p].tally.inserted
  PROVE  MapThenSumSet(LAMBDA p : runs[p].tally.inserted, T) = SumOver(k, T)
<1> DEFINE Folds(h) == h = [s \in SUBSET T |->
             IF s = {} THEN 0 ELSE runs[CHOOSE x \in s : TRUE].tally.inserted
                                     + h[s \ {CHOOSE x \in s : TRUE}]]
           total == MapThenSumSet(LAMBDA p : runs[p].tally.inserted, T)
<1>1. PICK g : Adds(k, T, g)
  BY AddsExists
<1>2. Folds(g)
  <2>1. \A s \in SUBSET T : s # {} => runs[First(s)].tally.inserted = k[First(s)]
    BY FirstIn
  <2>2. g = [s \in SUBSET T |->
               IF s = {} THEN 0 ELSE runs[First(s)].tally.inserted + g[s \ {First(s)}]]
    BY <1>1, <2>1 DEF Adds, Recurs
  <2> QED
    BY <2>2 DEF First
<1>3. total = (CHOOSE h : Folds(h))[T]
  BY DEF MapThenSumSet, MapThenFoldSet
<1> HIDE DEF total
<1>4. Folds(CHOOSE h : Folds(h))
  <2> HIDE DEF Folds
  <2> QED
    BY <1>2, Zenon
<1>5. PICK h : Folds(h) /\ total = h[T]
  <2> HIDE DEF Folds
  <2> QED
    BY <1>3, <1>4, Zenon
<1>6. \A s \in SUBSET T :
         h[s] = IF s = {} THEN 0 ELSE runs[First(s)].tally.inserted + h[s \ {First(s)}]
  BY <1>5 DEF First
<1>7. Recurs(k, T, h)
  BY <1>6, FirstIn DEF Recurs
<1>8. h[T] = g[T]
  <2> HIDE DEF Folds
  <2>1. \A s \in SUBSET T : h[s] = g[s]
    BY <1>1, <1>7, AddsUnique
  <2> QED
    BY <2>1
<1>9. SumOver(k, T) = g[T]
  BY <1>1, SumIsAdds
<1>10. total = SumOver(k, T)
  BY <1>5, <1>8, <1>9
<1> QED
  BY <1>10 DEF total

\* A report's count of duplicates is one too.
LEMMA DuplicatesSum ==
  ASSUME NEW T, IsFiniteSet(T), NEW k \in [T -> Int], \A p \in T : k[p] = runs[p].tally.duplicates
  PROVE  MapThenSumSet(LAMBDA p : runs[p].tally.duplicates, T) = SumOver(k, T)
<1> DEFINE Folds(h) == h = [s \in SUBSET T |->
             IF s = {} THEN 0 ELSE runs[CHOOSE x \in s : TRUE].tally.duplicates
                                     + h[s \ {CHOOSE x \in s : TRUE}]]
           total == MapThenSumSet(LAMBDA p : runs[p].tally.duplicates, T)
<1>1. PICK g : Adds(k, T, g)
  BY AddsExists
<1>2. Folds(g)
  <2>1. \A s \in SUBSET T : s # {} => runs[First(s)].tally.duplicates = k[First(s)]
    BY FirstIn
  <2>2. g = [s \in SUBSET T |->
               IF s = {} THEN 0 ELSE runs[First(s)].tally.duplicates + g[s \ {First(s)}]]
    BY <1>1, <2>1 DEF Adds, Recurs
  <2> QED
    BY <2>2 DEF First
<1>3. total = (CHOOSE h : Folds(h))[T]
  BY DEF MapThenSumSet, MapThenFoldSet
<1> HIDE DEF total
<1>4. Folds(CHOOSE h : Folds(h))
  <2> HIDE DEF Folds
  <2> QED
    BY <1>2, Zenon
<1>5. PICK h : Folds(h) /\ total = h[T]
  <2> HIDE DEF Folds
  <2> QED
    BY <1>3, <1>4, Zenon
<1>6. \A s \in SUBSET T :
         h[s] = IF s = {} THEN 0 ELSE runs[First(s)].tally.duplicates + h[s \ {First(s)}]
  BY <1>5 DEF First
<1>7. Recurs(k, T, h)
  BY <1>6, FirstIn DEF Recurs
<1>8. h[T] = g[T]
  <2> HIDE DEF Folds
  <2>1. \A s \in SUBSET T : h[s] = g[s]
    BY <1>1, <1>7, AddsUnique
  <2> QED
    BY <2>1
<1>9. SumOver(k, T) = g[T]
  BY <1>1, SumIsAdds
<1>10. total = SumOver(k, T)
  BY <1>5, <1>8, <1>9
<1> QED
  BY <1>10 DEF total

\* What the runs counted is the credit that was not lost.
LEMMA CountedIsCredit ==
  ASSUME SyncInv
  PROVE  BarsCounted
<1> DEFINE started == {p \in Sync : runs[p].status # "none"}
           counted == MapThenSumSet(LAMBDA p : runs[p].tally.inserted, started)
           count == [p \in started |-> runs[p].tally.inserted]
<1>1. started \in SUBSET Sync /\ IsFiniteSet(started) /\ IsFiniteSet(Sync)
  BY StoreAssumption, FS_Subset
<1>2. ASSUME NEW p \in started
      PROVE  /\ p \in Sync /\ runs[p] \in RunRow /\ runs[p].tally.inserted \in Nat
             /\ sync[p].pc \in Active => runs[p].tally.inserted = 0
  <2>1. p \in Sync /\ runs[p] # NoRow /\ Placed(p) /\ TypeInv
    BY DEF SyncInv, NoRow
  <2>2. runs[p] \in RunRow
    BY <2>1, RowFields
  <2>3. sync[p].pc \in Active => runs[p].tally = NoTally
    BY <2>1 DEF Placed
  <2> QED
    BY <2>1, <2>2, <2>3 DEF RunRow, Tally, NoTally
<1>3. count \in [started -> Int] /\ \A p \in started : count[p] = runs[p].tally.inserted
  BY <1>2
<1>4. ASSUME NEW p \in Sync \ started PROVE Credit[p] = 0
  <2>1. p \in Sync /\ runs[p].status = "none" /\ Placed(p) /\ TypeInv
    BY DEF SyncInv
  <2>2. sync[p].pc \notin Active
    BY <2>1 DEF Placed
  <2> QED
    BY <2>1, <2>2, CreditNat
<1>5. \A p \in Sync : Credit[p] \in Int /\ 0 <= Credit[p]
  BY CreditNat DEF SyncInv
<1>6. ASSUME NEW p \in started PROVE count[p] <= Credit[p]
  <2>1. sync[p].pc \notin Active => Credit[p] = runs[p].tally.inserted
    BY <1>2, CreditNat DEF SyncInv
  <2> QED
    BY <1>2, <1>5, <2>1
<1>7. ASSUME \A p \in Sync : runs[p].status \in {"none", "complete", "failed"}, NEW p \in started
      PROVE  Credit[p] <= count[p]
  <2>1. p \in Sync /\ runs[p].status # "running" /\ runs[p].status # "none" /\ Placed(p)
    BY <1>7 DEF SyncInv
  <2>2. sync[p].pc \notin Active
    BY <2>1 DEF Placed
  <2>3. Credit[p] = runs[p].tally.inserted
    BY <2>1, <2>2, CreditNat DEF SyncInv
  <2> QED
    BY <1>2, <2>3
<1> HIDE DEF count
<1>8. counted = SumOver(count, started)
  <2> HIDE DEF started
  <2> QED
    BY <1>1, <1>3, InsertedSum
<1> HIDE DEF counted, started
<1>9. SumOver(count, started) \in Int /\ SumOver(Credit, Sync) \in Int /\ Cardinality(bars) \in Nat
  <2>1. \A p \in started : count[p] \in Int
    BY <1>3
  <2>2. Cardinality(bars) \in Nat
    BY FS_CardinalityType DEF SyncInv, CreditInv
  <2> QED
    BY <1>1, <1>5, <2>1, <2>2, SumAt
<1>10. SumOver(count, started) <= SumOver(Credit, Sync)
  BY <1>1, <1>3, <1>5, <1>6, SumLess
<1>11. ASSUME \A p \in Sync : runs[p].status \in {"none", "complete", "failed"}
       PROVE  counted = Cardinality(bars)
  <2>1. SumOver(Credit, Sync) <= SumOver(count, started)
    <3>1. \A p \in Sync \ started : Credit[p] <= 0
      BY <1>4
    <3>2. \A p \in started : Credit[p] <= count[p]
      BY <1>7, <1>11
    <3> QED
      BY <1>1, <1>3, <1>5, <3>1, <3>2, SumMore
  <2>2. \A p \in Sync : ~Lost(p)
    BY <1>11 DEF Lost
  <2> QED
    BY <1>8, <1>9, <1>10, <2>1, <2>2 DEF SyncInv, CreditInv
<1>12. counted <= Cardinality(bars)
  BY <1>8, <1>9, <1>10 DEF SyncInv, CreditInv
<1>13. \A x, y \in bars : x.at = y.at => x = y
  BY DEF SyncInv, CreditInv
<1> QED
  BY <1>11, <1>12, <1>13 DEF BarsCounted, counted, started

\* Each stored bar is one row, whatever runs received it and however often, and
\* the runs' counts account for the rows, exactly so where none was interrupted
\* or killed.
THEOREM BarsCountedHolds == Spec => []BarsCounted
<1>1. SyncInv => BarsCounted
  BY CountedIsCredit
<1> QED
  BY <1>1, SyncInductive, PTL

-----------------------------------------------------------------------------
(* What a complete run leaves out *)

\* The report of a complete run's range in any state of the invariant.
LEMMA ReportCovers ==
  ASSUME SyncInv
  PROVE  CompleteCovers
<1> SUFFICES ASSUME NEW p \in Sync, runs[p].status = "complete"
             PROVE  LET report == Report(runs[p].start, runs[p].end, now, 0) IN
                    /\ \A h \in report.missing : h \in quiet \/ h + 1 > runs[p].started
                    /\ report.stored + Cardinality(report.missing) = runs[p].end - runs[p].start
                    /\ report.duplicates >= runs[p].tally.duplicates
  BY DEF CompleteCovers
<1> DEFINE report == Report(runs[p].start, runs[p].end, now, 0)
           expected == runs[p].start .. runs[p].end - 1
           stored == {b.at : b \in {x \in bars : x.at \in expected}}
           complete == {q \in Sync : /\ runs[q].status = "complete"
                                     /\ runs[q].start = runs[p].start
                                     /\ runs[q].end = runs[p].end}
           count == [q \in complete |-> runs[q].tally.duplicates]
<1>1. /\ runs[p] \in RunRow /\ runs[p].start \in Nat /\ runs[p].end \in Nat
      /\ runs[p].start <= runs[p].end /\ Covered(p, runs[p].end)
  <2>1. TypeInv /\ CoverInv(p) /\ runs[p] # NoRow
    BY DEF SyncInv, NoRow
  <2> QED
    BY <2>1, RowFields DEF CoverInv, RunRow
<1>2. /\ report.missing = expected \ stored
      /\ report.stored = Cardinality(stored)
      /\ report.duplicates = MapThenSumSet(LAMBDA q : runs[q].tally.duplicates, complete)
  BY DEF Report
<1> HIDE DEF report
<1>3. \A h \in expected \ stored : h \in quiet \/ h + 1 > runs[p].started
  BY <1>1 DEF Covered
<1>4. Cardinality(stored) + Cardinality(expected \ stored) = runs[p].end - runs[p].start
  <2>1. /\ IsFiniteSet(expected)
        /\ Cardinality(expected) = runs[p].end - runs[p].start
    <3>1. runs[p].end - 1 \in Int /\ runs[p].start \in Int
      BY <1>1
    <3>2. /\ IsFiniteSet(expected)
          /\ Cardinality(expected) =
               IF runs[p].start > runs[p].end - 1 THEN 0 ELSE (runs[p].end - 1) - runs[p].start + 1
      BY <3>1, FS_Interval
    <3> QED
      BY <1>1, <3>2
  <2>2. stored \in SUBSET expected
    OBVIOUS
  <2> HIDE DEF stored, expected
  <2>3. IsFiniteSet(stored) /\ IsFiniteSet(expected \ stored)
    BY <2>1, <2>2, FS_Subset
  <2>4. Cardinality(stored \union (expected \ stored))
          = Cardinality(stored) + Cardinality(expected \ stored)
              - Cardinality(stored \cap (expected \ stored))
    BY <2>3, FS_Union
  <2>5. stored \union (expected \ stored) = expected /\ stored \cap (expected \ stored) = {}
    BY <2>2
  <2>6. Cardinality(expected)
          = Cardinality(stored) + Cardinality(expected \ stored) - Cardinality({})
    BY <2>4, <2>5, Zenon
  <2>7. Cardinality({}) = 0
    BY FS_EmptySet
  <2>8. Cardinality(stored) \in Nat /\ Cardinality(expected \ stored) \in Nat
    BY <2>3, FS_CardinalityType
  <2> QED
    BY <2>1, <2>6, <2>7, <2>8
<1>5. p \in complete /\ complete \in SUBSET Sync /\ IsFiniteSet(complete)
  BY StoreAssumption, FS_Subset
<1>6. ASSUME NEW q \in complete PROVE runs[q].tally.duplicates \in Nat
  <2>1. TypeInv /\ runs[q] # NoRow /\ q \in Sync
    BY DEF SyncInv, NoRow
  <2> QED
    BY <2>1, RowFields DEF RunRow, Tally
<1>7. /\ count \in [complete -> Int]
      /\ \A q \in complete : count[q] = runs[q].tally.duplicates /\ count[q] \in Nat
  <2>1. \A q \in complete : runs[q].tally.duplicates \in Nat
    BY <1>6
  <2> HIDE DEF complete
  <2> QED
    BY <2>1
<1> HIDE DEF count, complete
<1>8. report.duplicates = SumOver(count, complete)
  BY <1>2, <1>5, <1>7, DuplicatesSum
<1>9. \A q \in complete : count[q] \in Int /\ 0 <= count[q]
  BY <1>7
<1>10. /\ SumOver(count, complete) = count[p] + SumOver(count, complete \ {p})
       /\ SumOver(count, complete \ {p}) \in Int
       /\ SumOver(count, {}) = 0
  BY <1>5, <1>9, SumAt
<1>11. 0 <= SumOver(count, complete \ {p})
  <2>1. /\ IsFiniteSet(complete \ {p}) /\ {} \in SUBSET (complete \ {p})
        /\ \A x \in complete \ {p} : count[x] \in Int
        /\ \A x \in (complete \ {p}) \ {} : 0 <= count[x]
        /\ \A x \in {} : count[x] \in Int /\ count[x] <= count[x]
    BY <1>5, <1>9, FS_Subset
  <2>2. SumOver(count, {}) <= SumOver(count, complete \ {p})
    BY <2>1, SumLess
  <2> QED
    BY <1>10, <2>2
<1>12. report.duplicates >= runs[p].tally.duplicates
  BY <1>5, <1>7, <1>8, <1>10, <1>11
<1> QED
  BY <1>2, <1>3, <1>4, <1>12 DEF report

\* A report of a complete run's range misses only the hours in which nothing
\* traded and those that had not passed when the run began, and counts at least
\* the run's own duplicates.
THEOREM CompleteCoversHolds == Spec => []CompleteCovers
<1>1. SyncInv => CompleteCovers
  BY ReportCovers
<1> QED
  BY <1>1, SyncInductive, PTL

-----------------------------------------------------------------------------
(* Type correctness *)

\* The archive's bars are those that were read, and an import that works on an
\* archive knows it.
TablesInv ==
  /\ \A b \in archived : b.digest \in DOMAIN Archive /\ b \in BarsOf[b.digest]
  /\ DOMAIN import = Import
  /\ \A i \in Import :
       /\ DOMAIN import[i] = {"pc", "digest", "from", "inserted"}
       /\ import[i].pc \in {"off", "idle", "lookup", "insert", "imported", "refused", "dead"}
       /\ import[i].pc \in {"lookup", "insert"} => import[i].digest \in DOMAIN Archive
  /\ DOMAIN sessions = Session
  /\ \A s \in Session :
       sessions[s].status \in {"none", "running", "complete", "failed", "interrupted"}

\* They are empty in the beginning.
LEMMA TablesInitially == Init => TablesInv
<1> SUFFICES ASSUME Init PROVE TablesInv
  OBVIOUS
<1>1. PICK scenario \in Scenario : ImportInit(scenario.launched)
  BY DEF Init
<1>2. archived = {} /\ sessions = [s \in Session |-> NoRow]
  BY DEF Init, StoreInit
<1> QED
  BY <1>1, <1>2 DEF ImportInit, TablesInv, NoRow

\* An import keeps them.
LEMMA ImportTables ==
  ASSUME TablesInv, NEW i \in Import, ImportNext(i)
  PROVE  TablesInv'
<1> USE DEF TablesInv
<1>0. sessions' = sessions
  BY ImportApart
<1>1. ASSUME NEW d \in DOMAIN Archive, ReadArchive(i, d)
      PROVE  TablesInv'
  <2>1. PICK pc \in {"lookup", "refused"} :
          import' = [import EXCEPT ![i].pc = pc, ![i].digest = d]
    BY <1>1 DEF ReadArchive
  <2>2. archived' = archived
    BY <1>1 DEF ReadArchive, storeVars
  <2> QED
    BY <1>0, <2>1, <2>2
<1>2. CASE Lookup(i)
  <2>1. PICK pc \in {"refused", "imported", "insert"} :
          \E from : import' = [import EXCEPT ![i].pc = pc, ![i].from = from]
    BY <1>2 DEF Lookup
  <2>2. archived' = archived /\ import[i].pc = "lookup"
    BY <1>2 DEF Lookup, storeVars
  <2> QED
    BY <1>0, <2>1, <2>2
<1>3. CASE Insert(i)
  <2>1. PICK pc \in {"refused", "imported"} :
          \E inserted : import' = [import EXCEPT ![i].pc = pc, ![i].inserted = inserted]
    BY <1>3 DEF Insert
  <2>2. import[i].digest \in DOMAIN Archive
    BY <1>3 DEF Insert
  <2>3. archived' \subseteq archived \union BarsOf[import[i].digest]
    BY <1>3 DEF Insert, Fresh
  <2>4. \A b \in BarsOf[import[i].digest] : b.digest = import[i].digest
    BY <2>2 DEF BarsOf
  <2> QED
    BY <1>0, <2>1, <2>2, <2>3, <2>4
<1>4. CASE KillImport(i)
  BY <1>0, <1>4 DEF KillImport, storeVars
<1> QED
  BY <1>1, <1>2, <1>3, <1>4 DEF ImportNext, ImportStep

\* A capture keeps them.
LEMMA StreamTables ==
  ASSUME TablesInv, NEW s \in Session, StreamNext(s), import' = import
  PROVE  TablesInv'
<1> USE DEF TablesInv
<1>0. archived' = archived
  BY StreamAside
<1>1. \/ sessions' = sessions
      \/ \E status \in {"running", "complete", "failed", "interrupted"} : \E count, gaps :
           sessions' = [sessions EXCEPT ![s] = [status |-> status, count |-> count, gaps |-> gaps]]
  <2>1. CASE Connect(s) \/ Expire(s) \/ KillStream(s) \/ Save(s) \/ Parse(s)
    BY <2>1 DEF Connect, Expire, KillStream, Save, Parse, storeVars
  <2>2. CASE OpenStream(s)
    BY <2>2 DEF OpenStream, StartSession
  <2>3. CASE EndStream(s) \/ Break(s) \/ Cancel(s)
    BY <2>3 DEF EndStream, Break, Cancel, Close, FinishSession
  <2>4. ASSUME NEW m \in Message, Receive(s, m) PROVE sessions' = sessions
    BY <2>4 DEF Receive, storeVars
  <2> QED
    BY <2>1, <2>2, <2>3, <2>4 DEF StreamNext, StreamStep
<1> QED
  BY <1>0, <1>1

\* Every step of the recorder keeps them.
LEMMA TablesKept ==
  ASSUME TablesInv, TypeInv, [Next]_vars
  PROVE  TablesInv'
<1>1. CASE UNCHANGED <<archived, import, sessions>>
  BY <1>1 DEF TablesInv
<1>2. CASE Tick \/ UNCHANGED vars
  BY <1>1, <1>2 DEF Tick, vars, storeVars
<1>3. ASSUME NEW p \in Sync, SyncNext(p), UNCHANGED <<stream, import>>
      PROVE  TablesInv'
  BY <1>1, <1>3, OneSyncs
<1>4. ASSUME NEW s \in Session, StreamNext(s), UNCHANGED <<syncVars, import>>
      PROVE  TablesInv'
  BY <1>4, StreamTables
<1>5. ASSUME NEW i \in Import, ImportNext(i), UNCHANGED <<syncVars, stream>>
      PROVE  TablesInv'
  BY <1>5, ImportTables
<1> QED
  BY <1>2, <1>3, <1>4, <1>5 DEF Next

\* The tables, the clock and the local states of the recorder stay well formed,
\* and a run's state fits to where its execution stands.
THEOREM TypeCorrect == Spec => []TypeOK
<1>1. SyncInv /\ StreamInv /\ TablesInv => TypeOK
  <2> SUFFICES ASSUME SyncInv, StreamInv, TablesInv PROVE TypeOK
    OBVIOUS
  <2>1. /\ now \in 0 .. MaxHour
        /\ instrument \in {None} \union 0 .. MaxHour
        /\ bars \subseteq [at : 0 .. MaxHour, key : {"ONE_HOUR"}, value : {"open", "final"},
                           received : 0 .. MaxHour]
    BY DEF SyncInv, TypeInv, Hours, BarRow
  <2>2. ASSUME NEW p \in Sync
        PROVE  /\ runs[p].status \in {"none", "running", "complete", "failed", "interrupted"}
               /\ sync[p].pc \in {"off", "idle", "product", "start"} => runs[p].status = "none"
               /\ sync[p].pc \in {"window", "request", "store", "count"}
                    => runs[p].status = "running"
               /\ sync[p].attempt \in 0 .. MaxAttempts
    <3>1. TypeInv /\ Placed(p)
      BY DEF SyncInv
    <3>2. runs[p].status \in {"none", "running", "complete", "failed", "interrupted"}
      BY <3>1, RowFields DEF RunRow, NoRow
    <3>3. sync[p].attempt \in 0 .. MaxAttempts
      BY <3>1 DEF TypeInv, SyncRow
    <3> QED
      BY <3>1, <3>2, <3>3 DEF Placed, Before, Active, NoRow
  <2>3. observations \subseteq UNION {Observed(s, m) : s \in Session, m \in Message}
    BY DEF StreamInv
  <2>4. messages \in Seq(Session \X Message)
    BY DEF StreamInv
  <2> QED
    BY <2>1, <2>2, <2>3, <2>4 DEF TypeOK, TablesInv
<1>2. SyncInv /\ StreamInv /\ TablesInv /\ [Next]_vars
        => (SyncInv /\ StreamInv /\ TablesInv)'
  <2>1. SyncInv => TypeInv
    BY DEF SyncInv
  <2> QED
    BY <2>1, SyncKept, StreamKept, TablesKept
<1> QED
  BY <1>1, <1>2, SyncInitially, StreamInitially, TablesInitially, PTL DEF Spec

-----------------------------------------------------------------------------
(* Reading an archive, row by row *)

Started == [valid |-> TRUE, previous |-> NoRow, group |-> <<>>, hours |-> {}, count |-> 0]

Newest(s) == Max(s)

\* The largest element of an interval that starts at 1.
LEMMA LastOfInterval ==
  ASSUME NEW n \in Nat \ {0}
  PROVE  Newest(1 .. n) = n /\ (1 .. n) \ {n} = 1 .. n - 1
<1>1. n \in 1 .. n /\ \A y \in 1 .. n : n >= y
  OBVIOUS
<1>2. \A x \in 1 .. n : (\A y \in 1 .. n : x >= y) => x = n
  OBVIOUS
<1>3. Newest(1 .. n) = n
  BY <1>1, <1>2 DEF Newest, Max
<1> QED
  BY <1>3

\* A set of numbers from 1 to a bound that is not empty has its largest.
LEMMA LastIn ==
  ASSUME NEW n \in Nat, NEW s \in SUBSET (1 .. n), s # {}
  PROVE  Newest(s) \in s
<1>1. \E x \in s : \A y \in s : x >= y
  <2> DEFINE Good == {m \in Nat : \A t \in SUBSET (1 .. m) :
                                    t # {} => \E x \in t : \A y \in t : x >= y}
  <2>1. 0 \in Good
    <3>1. 1 .. 0 = {}
      OBVIOUS
    <3> QED
      BY <3>1
  <2>2. ASSUME NEW m \in Nat, m \in Good PROVE m + 1 \in Good
    <3> SUFFICES ASSUME NEW t \in SUBSET (1 .. m + 1), t # {}
                 PROVE  \E x \in t : \A y \in t : x >= y
      OBVIOUS
    <3>1. CASE m + 1 \in t
      BY <3>1
    <3>2. CASE m + 1 \notin t
      <4>1. t \in SUBSET (1 .. m)
        BY <3>2
      <4> QED
        BY <2>2, <4>1
    <3> QED
      BY <3>1, <3>2
  <2>3. Nat \subseteq Good
    <3> HIDE DEF Good
    <3> QED
      BY <2>1, <2>2, AllNumbers
  <2>4. n \in Good
    BY <2>3
  <2> QED
    BY <2>4
<1> QED
  BY <1>1 DEF Newest, Max

\* A function that reads the rows with the numbers of each subset of S, the
\* row of the last number last.
Folds(d, S, g) ==
  g = [s \in SUBSET S |->
         IF s = {} THEN Started
         ELSE TakeRow(d, g[s \ {Newest(s)}], Archive[d].rows[Newest(s)])]

\* There is one: it is built up along the sizes of the subsets.
LEMMA FoldExists ==
  ASSUME NEW d, NEW n \in Nat
  PROVE  \E g : Folds(d, 1 .. n, g)
<1> DEFINE S == 1 .. n
           Take(g, s) == TakeRow(d, g[s \ {Newest(s)}], Archive[d].rows[Newest(s)])
           Step(g, s) == g[s] = IF s = {} THEN Started ELSE Take(g, s)
           Total(g) == g = [s \in SUBSET S |-> g[s]]
           Upto(m) == {s \in SUBSET S : Cardinality(s) <= m}
           Good == {m \in Nat : \E g : Total(g) /\ \A s \in Upto(m) : Step(g, s)}
<1>0. IsFiniteSet(S)
  BY FS_Interval
<1>1. \A s \in SUBSET S : IsFiniteSet(s) /\ Cardinality(s) \in Nat /\ (Cardinality(s) = 0 <=> s = {})
  BY <1>0, FS_Subset, FS_CardinalityType, FS_EmptySet
<1>2. 0 \in Good
  <2> DEFINE none == [s \in SUBSET S |-> Started]
  <2>1. \A s \in Upto(0) : s = {}
    BY <1>1
  <2>2. Total(none) /\ \A s \in Upto(0) : Step(none, s)
    BY <2>1
  <2> HIDE DEF none, Step, Upto, Total
  <2> QED
    BY <2>2
<1>3. ASSUME NEW m \in Nat, m \in Good PROVE m + 1 \in Good
  <2>1. PICK g : Total(g) /\ \A s \in Upto(m) : Step(g, s)
    BY <1>3
  <2> DEFINE h == [s \in SUBSET S |-> IF Cardinality(s) = m + 1 THEN Take(g, s) ELSE g[s]]
  <2>2. ASSUME NEW s \in SUBSET S, s # {}
        PROVE  /\ s \ {Newest(s)} \in SUBSET S
               /\ Cardinality(s \ {Newest(s)}) \in Nat
               /\ Cardinality(s) = Cardinality(s \ {Newest(s)}) + 1
    <3>1. Newest(s) \in s
      BY <2>2, LastIn
    <3> QED
      BY <1>0, <3>1, Smaller
  <2>3. ASSUME NEW s \in Upto(m + 1) PROVE Step(h, s)
    <3>1. CASE s = {}
      <4>1. Cardinality(s) = 0
        BY <1>1, <3>1
      <4>2. s \in Upto(m)
        BY <4>1
      <4>3. Step(g, s) /\ h[s] = g[s]
        <5>1. s \in SUBSET S /\ Cardinality(s) # m + 1
          BY <4>1
        <5>2. h[s] = g[s]
          BY <5>1
        <5> HIDE DEF Step, Take, Upto, h
        <5> QED
          BY <2>1, <4>2, <5>2
      <4> HIDE DEF h, Take
      <4> QED
        BY <3>1, <4>3
    <3>2. CASE s # {} /\ Cardinality(s) = m + 1
      <4>1. Cardinality(s \ {Newest(s)}) = m /\ s \ {Newest(s)} \in SUBSET S
        <5>1. s \in SUBSET S
          OBVIOUS
        <5> HIDE DEF Take, Step, Upto
        <5> QED
          BY <2>2, <3>2, <5>1
      <4>2. h[s \ {Newest(s)}] = g[s \ {Newest(s)}]
        BY <4>1
      <4>3. h[s] = Take(g, s)
        BY <3>2
      <4> HIDE DEF h
      <4> QED
        BY <3>2, <4>2, <4>3
    <3>3. CASE s # {} /\ Cardinality(s) # m + 1
      <4>1. Cardinality(s) <= m
        BY <1>1, <3>3
      <4>2. Cardinality(s \ {Newest(s)}) # m + 1 /\ s \ {Newest(s)} \in SUBSET S
        <5>1. s \in SUBSET S
          OBVIOUS
        <5> HIDE DEF Take, Step, Upto, h
        <5> QED
          BY <2>2, <3>3, <4>1, <5>1
      <4>3. h[s] = g[s] /\ h[s \ {Newest(s)}] = g[s \ {Newest(s)}]
        BY <3>3, <4>2
      <4>4. Step(g, s)
        BY <2>1, <4>1
      <4> HIDE DEF h
      <4> QED
        BY <3>3, <4>3, <4>4
    <3> QED
      BY <3>1, <3>2, <3>3
  <2>4. Total(h)
    OBVIOUS
  <2> HIDE DEF h, Step, Upto, Total
  <2> QED
    BY <2>3, <2>4
<1>4. n \in Good
  <2> HIDE DEF Good
  <2> QED
    BY <1>2, <1>3, AllNumbers
<1>5. PICK g : Total(g) /\ \A s \in Upto(n) : Step(g, s)
  BY <1>4
<1>6. ASSUME NEW s \in SUBSET S PROVE s \in Upto(n)
  <2>1. Cardinality(S) = n
    BY FS_Interval
  <2> QED
    BY <1>0, <1>1, <2>1, FS_Subset
<1>7. Folds(d, S, g)
  <2>1. \A s \in SUBSET S : g[s] = IF s = {} THEN Started ELSE Take(g, s)
    BY <1>5, <1>6
  <2>2. g = [s \in SUBSET S |-> g[s]]
    BY <1>5
  <2> QED
    BY <2>1, <2>2 DEF Folds
<1> QED
  BY <1>7

\* What reading an archive comes to, one row after the other.
Steps(d, g) ==
  /\ g[0] = Started
  /\ \A n \in 1 .. Len(Archive[d].rows) : g[n] = TakeRow(d, g[n - 1], Archive[d].rows[n])
  /\ Read[d] = g[Len(Archive[d].rows)]

\* The library's fold is what such a sequence of steps ends in.
LEMMA ReadSteps ==
  ASSUME NEW d \in DOMAIN Archive
  PROVE  \E g : Steps(d, g)
<1> DEFINE rows == Archive[d].rows
           N == Len(rows)
<1>1. N \in Nat /\ DOMAIN rows = 1 .. N
  BY ArchiveAssumption
<1>2. Read[d] = (CHOOSE h : Folds(d, 1 .. N, h))[1 .. N]
  <2>1. Read[d] = (CHOOSE h : Folds(d, DOMAIN rows, h))[DOMAIN rows]
    BY DEF Read, FoldLeft, MapThenFoldSet, Folds, Newest, Started
  <2> QED
    BY <1>1, <2>1
<1> HIDE DEF N
<1>3. PICK h : Folds(d, 1 .. N, h) /\ Read[d] = h[1 .. N]
  <2>1. Folds(d, 1 .. N, CHOOSE h : Folds(d, 1 .. N, h))
    BY <1>1, FoldExists
  <2> QED
    BY <1>2, <2>1
<1> DEFINE g == [n \in 0 .. N |-> h[1 .. n]]
<1>4. g[0] = Started
  <2>1. 1 .. 0 = {} /\ {} \in SUBSET (1 .. N)
    OBVIOUS
  <2>2. h[{}] = Started
    BY <1>3 DEF Folds
  <2> QED
    BY <1>1, <2>1, <2>2
<1>5. ASSUME NEW n \in 1 .. N PROVE g[n] = TakeRow(d, g[n - 1], rows[n])
  <2>1. 1 .. n \in SUBSET (1 .. N) /\ 1 .. n # {} /\ n - 1 \in 0 .. N /\ n \in 0 .. N
    <3> HIDE DEF g, rows
    <3>1. n \in Int /\ 1 <= n /\ n <= N
      BY <1>1
    <3>2. 1 \in 1 .. n
      BY <3>1
    <3>3. n - 1 \in 0 .. N /\ n \in 0 .. N
      BY <1>1, <3>1
    <3>4. 1 .. n \in SUBSET (1 .. N)
      BY <1>1, <3>1
    <3> QED
      BY <3>2, <3>3, <3>4
  <2>2. h[1 .. n] = TakeRow(d, h[(1 .. n) \ {Newest(1 .. n)}], rows[Newest(1 .. n)])
    BY <1>3, <2>1 DEF Folds
  <2>3. Newest(1 .. n) = n /\ (1 .. n) \ {n} = 1 .. n - 1
    BY <1>1, LastOfInterval
  <2> QED
    BY <2>1, <2>2, <2>3
<1>6. Read[d] = g[N]
  BY <1>1, <1>3
<1>7. Steps(d, g)
  <2> HIDE DEF g
  <2> QED
    BY <1>4, <1>5, <1>6 DEF Steps, N
<1> QED
  BY <1>7

-----------------------------------------------------------------------------
(* Hours and minutes *)

\* The minutes of an hour are those that divide to it.
LEMMA HourOfMinute ==
  ASSUME NEW size \in Nat \ {0}, NEW minute \in Int, NEW hour \in Int
  PROVE  minute \div size = hour <=> minute \in hour * size .. (hour + 1) * size - 1
<1> DEFINE q == minute \div size
           r == minute % size
<1>1. q \in Int /\ r \in 0 .. size - 1 /\ minute = q * size + r
  BY Z3
<1> HIDE DEF q, r
<1>2. ASSUME q = hour PROVE minute \in hour * size .. (hour + 1) * size - 1
  <2>1. (hour + 1) * size = hour * size + size
    OBVIOUS
  <2>2. hour * size \in Int
    OBVIOUS
  <2> QED
    BY <1>1, <1>2, <2>1, <2>2
<1>3. ASSUME minute \in hour * size .. (hour + 1) * size - 1 PROVE q = hour
  <2>1. ASSUME NEW a \in Int, NEW b \in Int, a < b PROVE (a + 1) * size <= b * size
    <3>1. b - (a + 1) \in Nat
      BY <2>1
    <3>2. (b - (a + 1)) * size >= 0
      BY <3>1
    <3> QED
      BY <3>2
  <2>2. (hour + 1) * size = hour * size + size /\ (q + 1) * size = q * size + size
    BY <1>1
  <2>3. hour * size \in Int /\ q * size \in Int
    BY <1>1
  <2>4. CASE q < hour
    <3>1. (q + 1) * size <= hour * size
      BY <1>1, <2>1, <2>4
    <3> QED
      BY <1>1, <1>3, <2>2, <2>3, <3>1
  <2>5. CASE hour < q
    <3>1. (hour + 1) * size <= q * size
      BY <1>1, <2>1, <2>5
    <3> QED
      BY <1>1, <1>3, <2>2, <2>3, <3>1
  <2> QED
    BY <1>1, <2>4, <2>5
<1> QED
  BY <1>2, <1>3 DEF q

\* A multiple is the sum of two.
LEMMA Parts ==
  ASSUME NEW size \in Int, NEW a \in Int, NEW b \in Int
  PROVE  b * size = a * size + (b - a) * size
OBVIOUS

\* A multiple determines its factor.
LEMMA SameFactor ==
  ASSUME NEW size \in Nat \ {0}, NEW a \in Int, NEW b \in Int, a * size = b * size
  PROVE  a = b
OBVIOUS

-----------------------------------------------------------------------------
(* What was read after some rows *)

Row == [minute : Int, price : Int]

RowsTo(d, n) == {Archive[d].rows[k] : k \in 1 .. n}

\* Rows of consecutive minutes among the first n.
Stretch(d, n, from, s) ==
  /\ s \in Seq(Row)
  /\ \A j \in 1 .. Len(s) : s[j] \in RowsTo(d, n) /\ s[j].minute = from + (j - 1)

\* An hour was stored of the full stretch that begins with this minute.
HourRead(d, n, from, hours) ==
  \E s : Len(s) = HourRows /\ Stretch(d, n, from, s) /\ HourOf(s) \in hours

\* The rows were cut into stretches of an hour's minutes, from the first row on.
Cut(d, n, acc) == LET from == Archive[d].rows[1].minute IN
  \E q \in Nat :
    /\ acc.count = q * HourRows + Len(acc.group) /\ Len(acc.group) < HourRows
    /\ Stretch(d, n, from + q * HourRows, acc.group)
    /\ \A k \in 0 .. q - 1 : HourRead(d, n, from + k * HourRows, acc.hours)

\* The rows have the minutes from the first on, each once but for repetitions.
Ordered(d, n, count) == LET rows == Archive[d].rows
                            from == rows[1].minute IN
  /\ n > 0 => count > 0 /\ rows[n].minute = from + (count - 1)
  /\ n = 0 => count = 0
  /\ \A k \in 1 .. n : rows[k].minute \in Minutes(d) /\ rows[k].minute \in from .. from + (count - 1)
  /\ \A i, k \in 1 .. n : rows[i].minute = rows[k].minute => rows[i] = rows[k]

Reading(d, n, acc) ==
  /\ acc.count \in Nat
  /\ acc.previous = IF n = 0 THEN NoRow ELSE Archive[d].rows[n]
  /\ Ordered(d, n, acc.count)
  /\ Cut(d, n, acc)
  /\ \A h \in acc.hours : h.at \in Archive[d].first .. Archive[d].last

\* The rows of an archive, and the minutes of its period.
LEMMA ArchiveRows ==
  ASSUME NEW d \in DOMAIN Archive
  PROVE  /\ Archive[d].rows \in Seq(Row) /\ Len(Archive[d].rows) \in Nat
         /\ \A n \in 1 .. Len(Archive[d].rows) :
              Archive[d].rows[n] \in Row /\ Archive[d].rows[n].minute \in Int
         /\ Archive[d].first \in Int /\ Archive[d].last \in Int
         /\ Archive[d].first <= Archive[d].last
         /\ HourRows \in Nat \ {0}
<1>1. Archive[d].rows \in Seq(Row)
  BY ArchiveAssumption DEF Row
<1>2. /\ Len(Archive[d].rows) \in Nat
      /\ \A n \in 1 .. Len(Archive[d].rows) : Archive[d].rows[n] \in Row
  BY <1>1
<1>3. \A row \in Row : row.minute \in Int
  BY DEF Row
<1> QED
  BY <1>1, <1>2, <1>3, ArchiveAssumption

\* More rows leave what was read of the earlier ones.
LEMMA StretchStays ==
  ASSUME NEW d, NEW n \in Nat \ {0}, NEW from, NEW s, Stretch(d, n - 1, from, s)
  PROVE  Stretch(d, n, from, s)
BY DEF Stretch, RowsTo

\* A stretch goes on with the row of its next minute.
LEMMA StretchGrows ==
  ASSUME NEW d, NEW n \in Nat \ {0}, NEW from \in Int, NEW s, Stretch(d, n - 1, from, s),
         NEW row \in Row, row = Archive[d].rows[n], row.minute = from + Len(s)
  PROVE  Stretch(d, n, from, Append(s, row)) /\ Len(Append(s, row)) = Len(s) + 1
<1>1. s \in Seq(Row) /\ Append(s, row) \in Seq(Row) /\ Len(s) \in Nat
      /\ Len(Append(s, row)) = Len(s) + 1
  BY DEF Stretch
<1>2. ASSUME NEW j \in 1 .. Len(s) + 1
      PROVE  Append(s, row)[j] \in RowsTo(d, n) /\ Append(s, row)[j].minute = from + (j - 1)
  <2>1. CASE j = Len(s) + 1
    <3>1. Append(s, row)[j] = row
      BY <1>1, <2>1
    <3>2. row \in RowsTo(d, n)
      BY DEF RowsTo
    <3> QED
      BY <1>1, <2>1, <3>1, <3>2
  <2>2. CASE j # Len(s) + 1
    <3>1. j \in 1 .. Len(s) /\ Append(s, row)[j] = s[j]
      BY <1>1, <2>2
    <3>2. Stretch(d, n, from, s)
      BY StretchStays
    <3> QED
      BY <3>1, <3>2 DEF Stretch
  <2> QED
    BY <2>1, <2>2
<1> QED
  BY <1>1, <1>2 DEF Stretch

\* An hour that is read stays read.
LEMMA HourStays ==
  ASSUME NEW d, NEW n \in Nat \ {0}, NEW from, NEW hours, NEW more, hours \subseteq more,
         HourRead(d, n - 1, from, hours)
  PROVE  HourRead(d, n, from, more)
<1>1. PICK s : Len(s) = HourRows /\ Stretch(d, n - 1, from, s) /\ HourOf(s) \in hours
  BY DEF HourRead
<1>2. Stretch(d, n, from, s)
  BY <1>1, StretchStays
<1> QED
  BY <1>1, <1>2 DEF HourRead

\* The hour of a full stretch lies in the period.
LEMMA HourInPeriod ==
  ASSUME NEW d \in DOMAIN Archive, NEW n \in Nat, NEW from, NEW s,
         Stretch(d, n, from, s), Len(s) > 0,
         \A k \in 1 .. n : Archive[d].rows[k].minute \in Minutes(d)
  PROVE  HourOf(s).at \in Archive[d].first .. Archive[d].last
<1> DEFINE m == s[1].minute
           first == Archive[d].first
           last == Archive[d].last
           h == m \div HourRows
<1>1. s[1] \in RowsTo(d, n) /\ Len(s) \in Nat
  BY DEF Stretch
<1>2. m \in Minutes(d)
  BY <1>1 DEF RowsTo
<1>3. HourRows \in Nat \ {0} /\ first \in Int /\ last \in Int
  BY ArchiveRows
<1>4. m \in Int /\ first * HourRows <= m /\ m <= (last + 1) * HourRows - 1
  <2>1. first * HourRows \in Int /\ (last + 1) * HourRows \in Int
    BY <1>3
  <2> QED
    BY <1>2, <2>1 DEF Minutes
<1>5. h \in Int
  BY <1>3, <1>4
<1>6. h * HourRows <= m /\ m <= (h + 1) * HourRows - 1
  <2>1. m \in h * HourRows .. (h + 1) * HourRows - 1
    BY <1>3, <1>4, <1>5, HourOfMinute
  <2> QED
    BY <1>3, <1>5, <2>1
<1>7. HourOf(s).at = h
  BY DEF HourOf
<1> HIDE DEF h, m, first, last
<1>8. ASSUME NEW a \in Int, NEW b \in Int, a * HourRows < b * HourRows PROVE a < b
  <2>1. CASE b <= a
    <3>1. (a - b) * HourRows >= 0
      BY <1>3, <2>1
    <3> QED
      BY <1>3, <1>8, <3>1
  <2> QED
    BY <2>1
<1>9. first < h + 1
  <2>1. first * HourRows < (h + 1) * HourRows
    BY <1>3, <1>4, <1>5, <1>6
  <2> QED
    BY <1>3, <1>5, <1>8, <2>1
<1>10. h < last + 1
  <2>1. h * HourRows < (last + 1) * HourRows
    BY <1>3, <1>4, <1>5, <1>6
  <2> QED
    BY <1>3, <1>5, <1>8, <2>1
<1> QED
  BY <1>3, <1>5, <1>7, <1>9, <1>10 DEF first, last

\* Nothing is read in the beginning.
LEMMA ReadingInitially ==
  ASSUME NEW d \in DOMAIN Archive
  PROVE  Reading(d, 0, Started)
<1>1. HourRows \in Nat \ {0}
  BY ArchiveRows
<1>2. Started.count = 0 /\ Started.group = <<>> /\ Started.hours = {} /\ Started.previous = NoRow
  BY DEF Started
<1>3. Cut(d, 0, Started)
  <2> DEFINE from == Archive[d].rows[1].minute
  <2>1. Stretch(d, 0, from + 0 * HourRows, <<>>)
    BY DEF Stretch
  <2>2. 0 = 0 * HourRows + Len(<<>>) /\ Len(<<>>) < HourRows
    BY <1>1
  <2> HIDE DEF from
  <2>3. \A k \in 0 .. 0 - 1 : HourRead(d, 0, from + k * HourRows, Started.hours)
    OBVIOUS
  <2> QED
    BY <1>2, <2>1, <2>2, <2>3 DEF Cut, from
<1>4. Ordered(d, 0, 0)
  BY DEF Ordered
<1> QED
  BY <1>2, <1>3, <1>4 DEF Reading

\* An invalid row spoils what was read.
LEMMA SpoiltStays ==
  ASSUME NEW d, NEW row, NEW acc, "valid" \in DOMAIN acc,
         DOMAIN acc = DOMAIN Started, TakeRow(d, acc, row).valid
  PROVE  acc.valid /\ DOMAIN TakeRow(d, acc, row) = DOMAIN Started
<1>1. DOMAIN Started = {"valid", "previous", "group", "hours", "count"}
  BY DEF Started
<1> QED
  BY <1>1 DEF TakeRow

\* Every row that is valid is the previous one again, or goes on with the next
\* minute of the hour.
LEMMA RowTaken ==
  ASSUME NEW d, NEW row, NEW acc, acc.valid, DOMAIN acc = DOMAIN Started,
         TakeRow(d, acc, row).valid
  PROVE  LET next == TakeRow(d, acc, row)
             group == Append(acc.group, row) IN
         /\ row.minute \in Minutes(d)
         /\ \/ acc.previous # NoRow /\ row = acc.previous /\ next = acc
            \/ /\ acc.previous = NoRow \/ row.minute = acc.previous.minute + 1
               /\ next.previous = row /\ next.count = acc.count + 1
               /\ Len(group) = HourRows => /\ next.group = <<>>
                                           /\ next.hours = acc.hours \union {HourOf(group)}
               /\ Len(group) # HourRows => next.group = group /\ next.hours = acc.hours
<1>1. DOMAIN Started = {"valid", "previous", "group", "hours", "count"}
  BY DEF Started
<1>2. [acc EXCEPT !.valid = FALSE].valid = FALSE
  BY <1>1
<1>3. row.minute \in Minutes(d)
  BY <1>2 DEF TakeRow
<1>4. CASE acc.previous # NoRow /\ row = acc.previous
  BY <1>3, <1>4 DEF TakeRow
<1>5. CASE ~(acc.previous # NoRow /\ row = acc.previous)
  <2>1. acc.previous = NoRow \/ row.minute = acc.previous.minute + 1
    BY <1>2, <1>3, <1>5 DEF TakeRow
  <2>2. TakeRow(d, acc, row) =
          [valid |-> TRUE, previous |-> row,
           group |-> IF Len(Append(acc.group, row)) = HourRows THEN <<>> ELSE Append(acc.group, row),
           hours |-> IF Len(Append(acc.group, row)) = HourRows
                     THEN acc.hours \union {HourOf(Append(acc.group, row))} ELSE acc.hours,
           count |-> acc.count + 1]
    BY <1>3, <1>5, <2>1 DEF TakeRow
  <2> QED
    BY <1>3, <2>1, <2>2
<1> QED
  BY <1>4, <1>5

\* A repeated row changes nothing.
LEMMA RowRepeated ==
  ASSUME NEW d \in DOMAIN Archive, NEW n \in 1 .. Len(Archive[d].rows), NEW acc,
         Reading(d, n - 1, acc), acc.previous # NoRow, Archive[d].rows[n] = acc.previous
  PROVE  Reading(d, n, acc)
<1> DEFINE rows == Archive[d].rows
           from == rows[1].minute
<1>1. n \in Nat \ {0} /\ n # 1 /\ rows[n] = rows[n - 1]
  BY DEF Reading
<1>2. Ordered(d, n, acc.count)
  <2>1. \A k \in 1 .. n : k \in 1 .. n - 1 \/ k = n
    BY <1>1
  <2>2. n - 1 \in 1 .. n - 1
    BY <1>1
  <2> HIDE DEF rows
  <2>3. \A k \in 1 .. n : \E j \in 1 .. n - 1 : rows[k] = rows[j]
    BY <1>1, <2>1, <2>2
  <2>4. Ordered(d, n - 1, acc.count) /\ n > 0 /\ n - 1 > 0
    BY <1>1 DEF Reading
  <2> DEFINE last == from + (acc.count - 1)
  <2>5. /\ acc.count > 0 /\ rows[n - 1].minute = last
        /\ \A k \in 1 .. n - 1 : rows[k].minute \in Minutes(d) /\ rows[k].minute \in from .. last
        /\ \A i, k \in 1 .. n - 1 : rows[i].minute = rows[k].minute => rows[i] = rows[k]
    BY <2>4 DEF Ordered, rows
  <2> HIDE DEF from, last
  <2>6. /\ \A k \in 1 .. n : rows[k].minute \in Minutes(d) /\ rows[k].minute \in from .. last
        /\ \A i, k \in 1 .. n : rows[i].minute = rows[k].minute => rows[i] = rows[k]
    <3>1. \A k \in 1 .. n : rows[k].minute \in Minutes(d) /\ rows[k].minute \in from .. last
      BY <2>3, <2>5, Zenon
    <3>2. ASSUME NEW i \in 1 .. n, NEW k \in 1 .. n, rows[i].minute = rows[k].minute
          PROVE  rows[i] = rows[k]
      <4>1. PICK a \in 1 .. n - 1 : rows[i] = rows[a]
        BY <2>3
      <4>2. PICK b \in 1 .. n - 1 : rows[k] = rows[b]
        BY <2>3
      <4>3. rows[a].minute = rows[b].minute
        BY <3>2, <4>1, <4>2, Zenon
      <4> QED
        BY <2>5, <4>1, <4>2, <4>3, Zenon
    <3> QED
      BY <3>1, <3>2
  <2>7. rows[n].minute = last
    BY <1>1, <2>5
  <2> QED
    BY <1>1, <2>5, <2>6, <2>7 DEF Ordered, rows, from, last
<1>3. Cut(d, n, acc)
  <2>1. PICK q \in Nat :
          /\ acc.count = q * HourRows + Len(acc.group) /\ Len(acc.group) < HourRows
          /\ Stretch(d, n - 1, from + q * HourRows, acc.group)
          /\ \A k \in 0 .. q - 1 : HourRead(d, n - 1, from + k * HourRows, acc.hours)
    BY DEF Reading, Cut
  <2>2. Stretch(d, n, from + q * HourRows, acc.group)
    BY <1>1, <2>1, StretchStays
  <2>3. \A k \in 0 .. q - 1 : HourRead(d, n, from + k * HourRows, acc.hours)
    BY <1>1, <2>1, HourStays
  <2> QED
    BY <2>1, <2>2, <2>3 DEF Cut
<1> QED
  BY <1>1, <1>2, <1>3 DEF Reading

\* The row of the next minute is added, and closes its hour if it is the last.
LEMMA RowAdded ==
  ASSUME NEW d \in DOMAIN Archive, NEW n \in 1 .. Len(Archive[d].rows), NEW acc, NEW next,
         Reading(d, n - 1, acc),
         Archive[d].rows[n].minute \in Minutes(d),
         \/ acc.previous = NoRow
         \/ Archive[d].rows[n].minute = acc.previous.minute + 1,
         next.previous = Archive[d].rows[n], next.count = acc.count + 1,
         Len(Append(acc.group, Archive[d].rows[n])) = HourRows =>
           /\ next.group = <<>>
           /\ next.hours = acc.hours \union {HourOf(Append(acc.group, Archive[d].rows[n]))},
         Len(Append(acc.group, Archive[d].rows[n])) # HourRows =>
           next.group = Append(acc.group, Archive[d].rows[n]) /\ next.hours = acc.hours
  PROVE  Reading(d, n, next)
<1> DEFINE rows == Archive[d].rows
           row == rows[n]
           from == rows[1].minute
           group == Append(acc.group, row)
<1>0. /\ n \in Nat \ {0} /\ n - 1 \in Nat
      /\ \A k \in 1 .. n : k \in 1 .. n - 1 \/ k = n
      /\ \A k \in 1 .. n : rows[k].minute \in Int
      /\ row \in Row /\ 1 \in 1 .. n /\ n \in 1 .. n
  <2>1. Len(rows) \in Nat /\ \A k \in 1 .. Len(rows) : rows[k] \in Row /\ rows[k].minute \in Int
    BY ArchiveRows
  <2> QED
    BY <2>1
<1>1. HourRows \in Nat \ {0} /\ acc.count \in Nat /\ Ordered(d, n - 1, acc.count)
  BY ArchiveRows DEF Reading
<1>2. row.minute = from + acc.count /\ from \in Int
  <2>1. CASE n = 1
    <3>1. acc.count = 0
      BY <1>1, <2>1 DEF Ordered
    <3> QED
      BY <1>0, <2>1, <3>1
  <2>2. CASE n # 1
    <3>1. n - 1 > 0 /\ n - 1 \in 1 .. n
      BY <1>0, <2>2
    <3>2. acc.previous = rows[n - 1] /\ rows[n - 1].minute = from + (acc.count - 1)
      BY <1>1, <3>1 DEF Reading, Ordered
    <3>3. rows[n - 1] \in Row
      <4>1. Len(rows) \in Nat /\ \A k \in 1 .. Len(rows) : rows[k] \in Row
        BY ArchiveRows
      <4> QED
        BY <3>1, <4>1
    <3>4. acc.previous # NoRow
      <4>1. "minute" \in DOMAIN rows[n - 1]
        BY <3>3 DEF Row
      <4>2. "minute" \notin DOMAIN NoRow
        BY DEF NoRow
      <4> QED
        BY <3>2, <4>1, <4>2
    <3>5. row.minute = rows[n - 1].minute + 1
      BY <3>2, <3>4
    <3>6. from \in Int
      BY <1>0
    <3> HIDE DEF from, row
    <3> QED
      BY <1>1, <3>2, <3>5, <3>6
  <2> QED
    BY <2>1, <2>2
<1>3. Ordered(d, n, next.count)
  <2> DEFINE last == from + acc.count
  <2>1. /\ \A k \in 1 .. n - 1 : rows[k].minute \in Minutes(d) /\ rows[k].minute \in from .. last - 1
        /\ \A i, k \in 1 .. n - 1 : rows[i].minute = rows[k].minute => rows[i] = rows[k]
    <3>1. last - 1 = from + (acc.count - 1)
      BY <1>1, <1>2
    <3> QED
      BY <1>1, <3>1 DEF Ordered
  <2>2. next.count > 0 /\ last = from + (next.count - 1)
    BY <1>1, <1>2
  <2>3. row.minute = last /\ last \in Int /\ from <= last /\ row.minute \in Minutes(d)
    BY <1>1, <1>2
  <2> HIDE DEF from, last
  <2>4. \A k \in 1 .. n : rows[k].minute \in Minutes(d) /\ rows[k].minute \in from .. last
    BY <1>0, <1>2, <2>1, <2>3
  <2>5. ASSUME NEW i \in 1 .. n, NEW k \in 1 .. n, rows[i].minute = rows[k].minute
        PROVE  rows[i] = rows[k]
    <3>1. CASE i \in 1 .. n - 1 /\ k \in 1 .. n - 1
      BY <2>1, <2>5, <3>1
    <3>2. CASE i = n /\ k = n
      BY <3>2
    <3>3. \A j \in 1 .. n - 1 : rows[j].minute # rows[n].minute
      BY <1>2, <2>1, <2>3
    <3> QED
      BY <1>0, <2>5, <3>1, <3>2, <3>3
  <2> QED
    BY <1>0, <2>2, <2>3, <2>4, <2>5 DEF Ordered, from, last
<1>4. PICK q \in Nat :
        /\ acc.count = q * HourRows + Len(acc.group) /\ Len(acc.group) < HourRows
        /\ Stretch(d, n - 1, from + q * HourRows, acc.group)
        /\ \A k \in 0 .. q - 1 : HourRead(d, n - 1, from + k * HourRows, acc.hours)
  BY DEF Reading, Cut
<1>5. Len(acc.group) \in Nat /\ q * HourRows \in Int
  BY <1>1, <1>4 DEF Stretch
<1>6. Stretch(d, n, from + q * HourRows, group) /\ Len(group) = Len(acc.group) + 1
  <2>1. row.minute = (from + q * HourRows) + Len(acc.group) /\ from + q * HourRows \in Int
    <3> DEFINE base == q * HourRows
    <3>1. base \in Int /\ acc.count = base + Len(acc.group)
      BY <1>4, <1>5
    <3> HIDE DEF base, from, row
    <3>2. row.minute = (from + base) + Len(acc.group) /\ from + base \in Int
      BY <1>2, <1>5, <3>1
    <3> QED
      BY <3>2 DEF base
  <2> DEFINE start == from + q * HourRows
  <2>2. start \in Int /\ row.minute = start + Len(acc.group) /\ Stretch(d, n - 1, start, acc.group)
    BY <1>4, <2>1
  <2>3. n \in Nat \ {0} /\ row \in Row /\ row = Archive[d].rows[n]
    BY <1>0
  <2> HIDE DEF start, row, rows
  <2>4. Stretch(d, n, start, group) /\ Len(group) = Len(acc.group) + 1
    <3>1. Stretch(d, n - 1, start, acc.group) /\ row.minute = start + Len(acc.group)
      BY <2>2
    <3>2. start \in Int
      BY <2>2
    <3>3. ASSUME NEW s, NEW r \in Row, Stretch(d, n - 1, start, s), r = Archive[d].rows[n],
                 r.minute = start + Len(s)
          PROVE  Stretch(d, n, start, Append(s, r)) /\ Len(Append(s, r)) = Len(s) + 1
      BY <2>3, <3>2, <3>3, StretchGrows
    <3> QED
      BY <2>3, <3>1, <3>3
  <2> QED
    BY <2>4 DEF start
<1>7. acc.hours \subseteq next.hours
  OBVIOUS
<1>8. \A k \in 0 .. q - 1 : HourRead(d, n, from + k * HourRows, next.hours)
  BY <1>0, <1>4, <1>7, HourStays
<1>9. CASE Len(group) = HourRows
  <2>1. next.group = <<>> /\ next.hours = acc.hours \union {HourOf(group)}
    BY <1>9
  <2>2. HourRead(d, n, from + q * HourRows, next.hours)
    BY <1>6, <1>9, <2>1 DEF HourRead
  <2>3. \A k \in 0 .. q : k \in 0 .. q - 1 \/ k = q
    OBVIOUS
  <2>4. \A k \in 0 .. (q + 1) - 1 : HourRead(d, n, from + k * HourRows, next.hours)
    BY <1>8, <2>2, <2>3
  <2>5. next.count = (q + 1) * HourRows + Len(next.group) /\ Len(next.group) < HourRows
    <3>1. (q + 1) * HourRows = q * HourRows + HourRows /\ Len(<<>>) = 0
      BY <1>1
    <3> DEFINE base == q * HourRows
    <3>2. base \in Int /\ acc.count = base + Len(acc.group)
      BY <1>4, <1>5
    <3>3. Len(acc.group) + 1 = HourRows /\ Len(next.group) = 0
      BY <1>6, <1>9, <2>1, <3>1
    <3> HIDE DEF base, group
    <3>4. next.count = base + HourRows
      BY <1>1, <1>5, <3>2, <3>3
    <3> QED
      BY <1>1, <3>1, <3>3, <3>4 DEF base
  <2>6. Stretch(d, n, from + (q + 1) * HourRows, next.group)
    <3>1. <<>> \in Seq(Row) /\ Len(<<>>) = 0
      OBVIOUS
    <3> QED
      BY <2>1, <3>1 DEF Stretch
  <2>7. Cut(d, n, next)
    BY <2>4, <2>5, <2>6 DEF Cut
  <2>8. HourOf(group).at \in Archive[d].first .. Archive[d].last
    <3>1. Len(group) > 0
      BY <1>1, <1>9
    <3>2. \A k \in 1 .. n : rows[k].minute \in Minutes(d)
      BY <1>3 DEF Ordered
    <3> QED
      BY <1>0, <1>6, <3>1, <3>2, HourInPeriod
  <2> HIDE DEF group
  <2>9. \A h \in next.hours : h.at \in Archive[d].first .. Archive[d].last
    BY <2>1, <2>8 DEF Reading
  <2> QED
    BY <1>0, <1>1, <1>3, <2>7, <2>9 DEF Reading
<1>10. CASE Len(group) # HourRows
  <2>1. next.group = group /\ next.hours = acc.hours
    BY <1>10
  <2>2. next.count = q * HourRows + Len(next.group) /\ Len(next.group) < HourRows
    <3> DEFINE base == q * HourRows
    <3>1. base \in Int /\ acc.count = base + Len(acc.group) /\ Len(acc.group) < HourRows
      BY <1>4, <1>5
    <3>2. Len(next.group) = Len(acc.group) + 1 /\ Len(next.group) # HourRows
      BY <1>6, <1>10, <2>1
    <3> HIDE DEF base, group
    <3>3. next.count = base + Len(next.group) /\ Len(next.group) < HourRows
      BY <1>1, <1>5, <3>1, <3>2
    <3> QED
      BY <3>3 DEF base
  <2>3. Cut(d, n, next)
    BY <1>6, <1>8, <2>1, <2>2 DEF Cut
  <2> HIDE DEF group
  <2> QED
    BY <1>0, <1>1, <1>3, <2>1, <2>3 DEF Reading
<1> QED
  BY <1>9, <1>10

\* An archive that is read to its end without an invalid row was read so.
LEMMA ReadingAll ==
  ASSUME NEW d \in DOMAIN Archive, Read[d].valid
  PROVE  Reading(d, Len(Archive[d].rows), Read[d])
<1> DEFINE rows == Archive[d].rows
           N == Len(rows)
<1>1. PICK g : Steps(d, g)
  BY ReadSteps
<1>2. N \in Nat
  BY ArchiveRows
<1> DEFINE Good == {n \in Nat : n <= N =>
                      DOMAIN g[n] = DOMAIN Started /\ (g[n].valid => Reading(d, n, g[n]))}
<1>3. 0 \in Good
  BY <1>1, ReadingInitially DEF Steps
<1>4. ASSUME NEW m \in Nat, m \in Good PROVE m + 1 \in Good
  <2> SUFFICES ASSUME m + 1 <= N
               PROVE  /\ DOMAIN g[m + 1] = DOMAIN Started
                      /\ g[m + 1].valid => Reading(d, m + 1, g[m + 1])
    OBVIOUS
  <2> DEFINE acc == g[m]
             next == g[m + 1]
             row == rows[m + 1]
  <2>1. m + 1 \in 1 .. N /\ (m + 1) - 1 = m
    BY <1>2
  <2>2. DOMAIN acc = DOMAIN Started /\ (acc.valid => Reading(d, m, acc))
    BY <1>2, <1>4
  <2>3. next = TakeRow(d, acc, row)
    BY <1>1, <2>1 DEF Steps
  <2>4. DOMAIN next = DOMAIN Started
    BY <2>2, <2>3 DEF TakeRow, Started
  <2>5. ASSUME next.valid PROVE Reading(d, m + 1, next)
    <3>1. acc.valid
      <4>1. "valid" \in DOMAIN acc
        BY <2>2 DEF Started
      <4> HIDE DEF acc, next, row
      <4> QED
        BY <2>2, <2>3, <2>5, <4>1, SpoiltStays
    <3>2. Reading(d, (m + 1) - 1, acc)
      BY <2>1, <2>2, <3>1
    <3>3. /\ row.minute \in Minutes(d)
          /\ \/ acc.previous # NoRow /\ row = acc.previous /\ next = acc
             \/ /\ acc.previous = NoRow \/ row.minute = acc.previous.minute + 1
                /\ next.previous = row /\ next.count = acc.count + 1
                /\ Len(Append(acc.group, row)) = HourRows =>
                     /\ next.group = <<>>
                     /\ next.hours = acc.hours \union {HourOf(Append(acc.group, row))}
                /\ Len(Append(acc.group, row)) # HourRows =>
                     next.group = Append(acc.group, row) /\ next.hours = acc.hours
      <4> HIDE DEF acc, next, row
      <4> QED
        BY <2>2, <2>3, <2>5, <3>1, RowTaken
    <3> HIDE DEF acc, next
    <3>4. CASE acc.previous # NoRow /\ row = acc.previous /\ next = acc
      BY <2>1, <3>2, <3>4, RowRepeated
    <3> QED
      BY <2>1, <3>2, <3>3, <3>4, RowAdded
  <2> QED
    BY <2>4, <2>5
<1>5. N \in Good
  <2> HIDE DEF Good
  <2> QED
    BY <1>2, <1>3, <1>4, AllNumbers
<1> QED
  BY <1>1, <1>2, <1>5 DEF Steps

\* The least and the largest number of an interval.
LEMMA EndsOfInterval ==
  ASSUME NEW a \in Int, NEW b \in Int, a <= b
  PROVE  Min(a .. b) = a /\ Max(a .. b) = b
<1>1. \A x \in a .. b : (\A y \in a .. b : x <= y) <=> x = a
  OBVIOUS
<1>2. \A x \in a .. b : (\A y \in a .. b : x >= y) <=> x = b
  OBVIOUS
<1>3. a \in a .. b /\ b \in a .. b
  OBVIOUS
<1>4. Min(a .. b) = a
  BY <1>1, <1>3 DEF Min
<1>5. Max(a .. b) = b
  BY <1>2, <1>3 DEF Max
<1> QED
  BY <1>4, <1>5

\* A stretch of an hour's minutes is stored as what the hour comes to from its
\* rows as a set, if rows of one minute are one row.
LEMMA HourIsRows ==
  ASSUME NEW d \in DOMAIN Archive, NEW h \in Int, NEW s, Len(s) = HourRows,
         Stretch(d, Len(Archive[d].rows), h * HourRows, s),
         \A i, k \in 1 .. Len(Archive[d].rows) :
           Archive[d].rows[i].minute = Archive[d].rows[k].minute
             => Archive[d].rows[i] = Archive[d].rows[k]
  PROVE  HourOf(s).at = h /\ HourOf(s).value = HourFromRows(d, h)
<1> DEFINE N == Len(Archive[d].rows)
           all == {Archive[d].rows[n] : n \in DOMAIN Archive[d].rows}
           rows == {r \in all : r.minute \div HourRows = h}
           start == h * HourRows
           H == HourRows
<1>1. H \in Nat \ {0} /\ N \in Nat /\ start \in Int
  BY ArchiveRows
<1>2. all = RowsTo(d, N) /\ \A r \in all : r.minute \in Int
  <2>1. DOMAIN Archive[d].rows = 1 .. N
    BY ArchiveRows
  <2>2. \A n \in 1 .. N : Archive[d].rows[n].minute \in Int
    BY ArchiveRows
  <2> QED
    BY <2>1, <2>2 DEF RowsTo
<1>3. \A r, t \in all : r.minute = t.minute => r = t
  BY <1>2 DEF RowsTo
<1>4. s \in Seq(Row) /\ \A j \in 1 .. H : s[j] \in all /\ s[j].minute = start + (j - 1)
  BY <1>2 DEF Stretch
<1>5. \A r \in all : r \in rows <=> r.minute \in start .. start + (H - 1)
  <2>1. (h + 1) * HourRows - 1 = start + (H - 1)
    BY <1>1
  <2>2. \A r \in all : r.minute \div HourRows = h <=> r.minute \in start .. start + (H - 1)
    BY <1>1, <1>2, <2>1, HourOfMinute
  <2> HIDE DEF all
  <2> QED
    BY <2>2
<1> HIDE DEF N, all, start, H
<1>6. \A j \in 1 .. H : s[j] \in rows
  <2> SUFFICES ASSUME NEW j \in 1 .. H PROVE s[j] \in rows
    OBVIOUS
  <2>1. start + (j - 1) \in start .. start + (H - 1)
    BY <1>1
  <2> HIDE DEF rows
  <2> QED
    BY <1>4, <1>5, <2>1
<1>7. ASSUME NEW r \in rows PROVE \E j \in 1 .. H : s[j] = r
  <2> DEFINE j == r.minute - start + 1
  <2>1. r \in all /\ r.minute \in start .. start + (H - 1) /\ r.minute \in Int
    BY <1>2, <1>5, <1>7
  <2>2. j \in 1 .. H /\ start + (j - 1) = r.minute
    <3> DEFINE m == r.minute
    <3>1. m \in Int /\ start <= m /\ m <= start + (H - 1)
      BY <1>1, <2>1
    <3> HIDE DEF m
    <3>2. (m - start) + 1 \in 1 .. H /\ start + (((m - start) + 1) - 1) = m
      BY <1>1, <3>1
    <3> QED
      BY <3>2 DEF m
  <2> HIDE DEF j
  <2>3. s[j] = r
    BY <1>3, <1>4, <2>1, <2>2
  <2> QED
    BY <2>2, <2>3
<1>8. rows = {s[j] : j \in 1 .. H}
  <2> HIDE DEF rows
  <2> QED
    BY <1>6, <1>7
<1> HIDE DEF rows
<1>9. {r.minute : r \in rows} = start .. start + (H - 1)
  <2>1. {r.minute : r \in rows} = {start + (j - 1) : j \in 1 .. H}
    BY <1>4, <1>8
  <2>2. ASSUME NEW m \in start .. start + (H - 1) PROVE \E j \in 1 .. H : m = start + (j - 1)
    <3>1. (m - start) + 1 \in 1 .. H /\ m = start + (((m - start) + 1) - 1)
      BY <1>1
    <3> QED
      BY <3>1
  <2>3. \A j \in 1 .. H : start + (j - 1) \in start .. start + (H - 1)
    BY <1>1
  <2> QED
    BY <2>1, <2>2, <2>3
<1>10. Min({r.minute : r \in rows}) = start /\ Max({r.minute : r \in rows}) = start + (H - 1)
  <2> DEFINE end == start + (H - 1)
  <2>1. end \in Int /\ start <= end
    BY <1>1
  <2> HIDE DEF end
  <2>2. Min(start .. end) = start /\ Max(start .. end) = end
    BY <1>1, <2>1, EndsOfInterval
  <2> QED
    BY <1>9, <2>2 DEF end
<1>11. DOMAIN s = 1 .. H /\ 1 \in 1 .. H /\ H \in 1 .. H
  <2>1. Len(s) = H
    BY DEF H
  <2> QED
    BY <1>1, <1>4, <2>1
<1>12. {r.price : r \in rows} = {s[n].price : n \in DOMAIN s}
  BY <1>8, <1>11
<1> DEFINE Price(m) == (CHOOSE r \in rows : r.minute = m).price
<1>13. ASSUME NEW j \in 1 .. H PROVE Price(start + (j - 1)) = s[j].price
  <2>1. s[j] \in rows /\ s[j].minute = start + (j - 1)
    BY <1>4, <1>6
  <2>2. \A r \in rows : r.minute = start + (j - 1) => r = s[j]
    BY <1>3, <1>4, <1>8
  <2>3. (CHOOSE r \in rows : r.minute = start + (j - 1)) = s[j]
    BY <2>1, <2>2
  <2> QED
    BY <2>3
<1>14. Price(start) = s[1].price /\ Price(start + (H - 1)) = s[H].price
  <2>1. start + (1 - 1) = start
    BY <1>1
  <2> HIDE DEF Price
  <2> QED
    BY <1>11, <1>13, <2>1
<1>15. HourFromRows(d, h) =
         [open |-> Price(Min({r.minute : r \in rows})), close |-> Price(Max({r.minute : r \in rows})),
          high |-> Max({r.price : r \in rows}), low |-> Min({r.price : r \in rows})]
  BY DEF HourFromRows, rows, all
<1>16. HourOf(s).value = [open |-> s[1].price, close |-> s[H].price,
                          high |-> Max({s[n].price : n \in DOMAIN s}),
                          low |-> Min({s[n].price : n \in DOMAIN s})]
  BY DEF HourOf, H
<1>17. HourOf(s).value = HourFromRows(d, h)
  <2> HIDE DEF Price
  <2> QED
    BY <1>10, <1>12, <1>14, <1>15, <1>16
<1>18. HourOf(s).at = h
  <2>1. s[1].minute = start /\ start \in start .. start + (H - 1)
    BY <1>1, <1>4, <1>11
  <2>2. s[1] \in rows
    BY <1>6, <1>11
  <2>3. s[1].minute \div HourRows = h
    BY <2>2 DEF rows
  <2> QED
    BY <2>3 DEF HourOf
<1> QED
  BY <1>17, <1>18

\* A complete archive is read hour by hour, from its first minute to its last.
LEMMA CompleteRead ==
  ASSUME NEW d \in DOMAIN Archive, IsComplete(d)
  PROVE  /\ \A h \in Archive[d].first .. Archive[d].last :
              \E b \in BarsOf[d] : b.at = h /\ b.value = HourFromRows(d, h)
         /\ \A b \in BarsOf[d] :
              /\ b.at \in Archive[d].first .. Archive[d].last
              /\ b.key = "1h" /\ b.digest = d
<1> DEFINE rows == Archive[d].rows
           N == Len(rows)
           first == Archive[d].first
           last == Archive[d].last
           acc == Read[d]
           from == rows[1].minute
           H == HourRows
<1>1. acc.valid /\ acc.group = <<>> /\ acc.count = Cardinality(Minutes(d))
  BY DEF IsComplete
<1>2. Reading(d, N, acc)
  BY <1>1, ReadingAll
<1>3. H \in Nat \ {0} /\ N \in Nat /\ first \in Int /\ last \in Int /\ first <= last
  BY ArchiveRows
<1> DEFINE low == first * H
           hours == (last + 1) - first
<1>4. hours \in Nat \ {0} /\ low \in Int /\ (last + 1) * H = low + hours * H
  <2> HIDE DEF first, last, H
  <2>1. hours \in Nat \ {0} /\ last + 1 \in Int
    BY <1>3
  <2>2. (last + 1) * H = first * H + ((last + 1) - first) * H
    BY <1>3, <2>1, Parts
  <2> QED
    BY <1>3, <2>1, <2>2
<1>5. hours * H \in Nat \ {0}
  <2>1. hours * H > 0 /\ hours * H \in Int
    BY <1>3, <1>4
  <2> QED
    BY <2>1
<1>6. Minutes(d) = low .. low + hours * H - 1 /\ acc.count = hours * H
  <2> DEFINE size == hours * H
  <2>1. Minutes(d) = low .. (low + size) - 1
    BY <1>4 DEF Minutes
  <2>2. size \in Nat \ {0}
    BY <1>5
  <2> HIDE DEF size, low, acc
  <2>3. Cardinality(low .. (low + size) - 1) = size
    BY <1>4, <2>2, FS_Interval
  <2>4. Minutes(d) = low .. low + size - 1 /\ acc.count = size
    BY <1>1, <1>4, <2>1, <2>2, <2>3
  <2> QED
    BY <2>4 DEF size
<1>7. from = low
  <2> DEFINE size == hours * H
  <2>1. acc.count = size /\ size \in Nat \ {0} /\ Ordered(d, N, acc.count)
    BY <1>2, <1>5, <1>6 DEF Reading
  <2>2. N > 0
    <3>1. N # 0
      BY <2>1 DEF Ordered
    <3> QED
      BY <1>3, <3>1
  <2>3. rows[N].minute = from + (size - 1) /\ from \in Minutes(d) /\ rows[N].minute \in Minutes(d)
    <3>1. 1 \in 1 .. N /\ N \in 1 .. N
      BY <1>3, <2>2
    <3> HIDE DEF acc
    <3> QED
      BY <2>1, <2>2, <3>1 DEF Ordered
  <2>4. Minutes(d) = low .. low + size - 1
    BY <1>6
  <2> HIDE DEF low, size, from
  <2> QED
    BY <1>4, <2>1, <2>3, <2>4
<1>8. PICK q \in Nat :
        /\ acc.count = q * H + Len(acc.group)
        /\ \A k \in 0 .. q - 1 : HourRead(d, N, from + k * H, acc.hours)
  BY <1>2 DEF Reading, Cut
<1>9. q = hours
  <2>1. q * H = hours * H
    <3>1. Len(acc.group) = 0 /\ q * H \in Int
      BY <1>1, <1>3
    <3> QED
      BY <1>6, <1>8, <3>1
  <2> HIDE DEF hours
  <2> QED
    <3>1. \A a, b \in Int : a * H = b * H => a = b
      BY <1>3, SameFactor
    <3>2. q \in Int /\ hours \in Int
      BY <1>4
    <3> QED
      BY <2>1, <3>1, <3>2, Zenon
<1>10. \A i, k \in 1 .. N : rows[i].minute = rows[k].minute => rows[i] = rows[k]
  BY <1>2 DEF Reading, Ordered
<1>11. ASSUME NEW h \in first .. last
       PROVE  \E b \in BarsOf[d] : b.at = h /\ b.value = HourFromRows(d, h)
  <2>1. h - first \in 0 .. q - 1 /\ h \in Int
    BY <1>3, <1>9
  <2>2. from + (h - first) * H = h * H
    <3>1. h * H = low + (h - first) * H
      BY <1>3, <2>1
    <3> HIDE DEF low, from
    <3> QED
      BY <1>7, <3>1
  <2>3. HourRead(d, N, h * H, acc.hours)
    BY <1>8, <2>1, <2>2
  <2>4. PICK s : Len(s) = H /\ Stretch(d, N, h * H, s) /\ HourOf(s) \in acc.hours
    BY <2>3 DEF HourRead
  <2>5. HourOf(s).at = h /\ HourOf(s).value = HourFromRows(d, h)
    BY <1>10, <2>1, <2>4, HourIsRows
  <2> DEFINE b == [at |-> HourOf(s).at, key |-> "1h", value |-> HourOf(s).value, digest |-> d]
  <2>6. b \in BarsOf[d]
    BY <2>4 DEF BarsOf
  <2> QED
    BY <2>5, <2>6
<1>12. ASSUME NEW b \in BarsOf[d]
       PROVE  b.at \in first .. last /\ b.key = "1h" /\ b.digest = d
  <2>1. PICK r \in acc.hours : b = [at |-> r.at, key |-> "1h", value |-> r.value, digest |-> d]
    BY <1>12 DEF BarsOf
  <2>2. r.at \in first .. last
    BY <1>2 DEF Reading
  <2> QED
    BY <2>1, <2>2
<1> QED
  BY <1>11, <1>12

-----------------------------------------------------------------------------
(* The archives that are stored *)

\* A bar of the same identity and value is stored.
Matched(b) == \E x \in archived : EventId(x) = EventId(b) /\ x.value = b.value

Held(d) == d \in DOMAIN Archive /\ IsComplete(d) /\ \A b \in BarsOf[d] : Matched(b)

\* An import works on a complete archive, has found the bars before the first
\* that it inserts, and is over when all are stored.
ImportInv(i) == LET d == import[i].digest IN
  /\ import[i].pc \in {"lookup", "insert"} => d \in DOMAIN Archive /\ IsComplete(d)
  /\ import[i].pc = "insert" =>
       /\ import[i].from \in Int
       /\ \A b \in BarsOf[d] : b.at < import[i].from => Matched(b)
  /\ import[i].pc = "imported" => Held(d)

ArchivedInv ==
  /\ \A b \in archived : Held(b.digest)
  /\ \A i \in Import : ImportInv(i)

\* A set of numbers between two bounds has its least.
LEMMA LeastIn ==
  ASSUME NEW a \in Int, NEW b \in Int, NEW s \in SUBSET (a .. b), s # {}
  PROVE  Min(s) \in s /\ \A y \in s : Min(s) <= y
<1> DEFINE t == {y - a : y \in s}
<1>1. t \subseteq Nat /\ t # {}
  OBVIOUS
<1> HIDE DEF t
<1>2. PICK x \in t : \A y \in t : <<y, x>> \notin OpToRel(<, Nat)
  BY <1>1, NatLessThanWellFounded, WFMin, Zenon
<1>3. \A y \in t : ~(y < x)
  BY <1>1, <1>2 DEF OpToRel
<1>4. PICK z \in s : x = z - a
  BY DEF t
<1>5. \A y \in s : y - a \in t
  BY DEF t
<1>6. \A y \in s : z <= y
  <2> SUFFICES ASSUME NEW y \in s PROVE z <= y
    OBVIOUS
  <2>1. ~(y - a < z - a) /\ y \in Int /\ z \in Int
    BY <1>3, <1>4, <1>5
  <2> QED
    BY <2>1
<1> QED
  BY <1>6 DEF Min

\* What is stored stays stored.
LEMMA HeldStays ==
  ASSUME archived \subseteq archived'
  PROVE  /\ \A b : Matched(b) => Matched(b)'
         /\ \A d : Held(d) => Held(d)'
<1>1. ASSUME NEW b, Matched(b) PROVE Matched(b)'
  BY <1>1 DEF Matched, EventId
<1>2. ASSUME NEW d, Held(d) PROVE Held(d)'
  BY <1>1, <1>2 DEF Held
<1> QED
  BY <1>1, <1>2

\* An import that does not move keeps what it knows.
LEMMA ImportStays ==
  ASSUME archived \subseteq archived', NEW i \in Import, ImportInv(i), import'[i] = import[i]
  PROVE  ImportInv(i)'
BY HeldStays DEF ImportInv

\* One import moves: the archives stay stored, and it knows what its label says.
LEMMA OneImports ==
  ASSUME ArchivedInv, TablesInv, NEW i \in Import,
         archived \subseteq archived', \A b \in archived' \ archived : Held(b.digest)',
         \A j \in Import \ {i} : import'[j] = import[j], ImportInv(i)'
  PROVE  ArchivedInv'
<1>1. \A b \in archived' : Held(b.digest)'
  BY HeldStays DEF ArchivedInv
<1>2. \A j \in Import : ImportInv(j)'
  BY ImportStays DEF ArchivedInv
<1> QED
  BY <1>1, <1>2 DEF ArchivedInv

\* The reading of an archive keeps the archives whole.
LEMMA ReadKeeps ==
  ASSUME ArchivedInv, TablesInv, NEW i \in Import, NEW d \in DOMAIN Archive, ReadArchive(i, d)
  PROVE  ArchivedInv'
<1>1. PICK pc \in {"lookup", "refused"} :
        /\ import' = [import EXCEPT ![i].pc = pc, ![i].digest = d]
        /\ pc = "lookup" => IsComplete(d)
  BY DEF ReadArchive
<1>2. import'[i].pc = pc /\ import'[i].digest = d /\ \A j \in Import \ {i} : import'[j] = import[j]
  BY <1>1 DEF TablesInv
<1>3. archived' = archived
  BY DEF ReadArchive, storeVars
<1>4. ImportInv(i)'
  BY <1>1, <1>2 DEF ImportInv
<1> QED
  BY <1>2, <1>3, <1>4, OneImports

\* The lookups keep them whole.
LEMMA LookupKeeps ==
  ASSUME ArchivedInv, TablesInv, NEW i \in Import, Lookup(i)
  PROVE  ArchivedInv'
<1>0. PICK d : d = import[i].digest
  OBVIOUS
<1> DEFINE all == BarsOf[d]
           absent == {b.at : b \in {x \in all : Stored(x) = {}}}
           prefix == {b \in all : \A h \in absent : b.at < h}
<1>1. d \in DOMAIN Archive /\ IsComplete(d)
  BY <1>0 DEF Lookup, ArchivedInv, ImportInv
<1>2. \A b \in all : b.at \in Archive[d].first .. Archive[d].last
  BY <1>1, CompleteRead
<1>3. PICK pc, from :
        /\ import' = [import EXCEPT ![i].pc = pc, ![i].from = from]
        /\ pc = IF \E b \in prefix : Revises(b) THEN "refused"
                ELSE IF absent = {} THEN "imported" ELSE "insert"
        /\ absent # {} => from = Min(absent)
  BY <1>0 DEF Lookup
<1>4. /\ import'[i].pc = pc /\ import'[i].digest = d /\ import'[i].from = from
      /\ \A j \in Import \ {i} : import'[j] = import[j]
  BY <1>0, <1>3 DEF TablesInv
<1>5. archived' = archived
  BY DEF Lookup, storeVars
<1>6. ASSUME NEW b \in prefix, pc # "refused", b.at \notin absent PROVE Matched(b)
  <2>1. Stored(b) # {} /\ ~Revises(b)
    BY <1>3, <1>6
  <2> QED
    BY <2>1 DEF Stored, Revises, Matched
<1>7. ASSUME pc = "imported" PROVE Held(d)
  <2>1. absent = {}
    BY <1>3, <1>7
  <2>2. \A b \in all : b \in prefix /\ b.at \notin absent
    BY <2>1
  <2> QED
    BY <1>1, <1>6, <1>7, <2>2 DEF Held
<1>8. ASSUME pc = "insert"
      PROVE  from \in Int /\ \A b \in all : b.at < from => Matched(b)
  <2>1. absent # {} /\ from = Min(absent)
    BY <1>3, <1>8
  <2>2. absent \in SUBSET (Archive[d].first .. Archive[d].last)
    BY <1>2
  <2>3. Archive[d].first \in Int /\ Archive[d].last \in Int
    BY <1>1, ArchiveRows
  <2> HIDE DEF absent
  <2>4. from \in absent /\ \A h \in absent : from <= h
    BY <2>1, <2>2, <2>3, LeastIn
  <2>5. from \in Int /\ \A h \in absent : h \in Int
    BY <2>2, <2>3, <2>4
  <2>6. ASSUME NEW b \in all, b.at < from PROVE Matched(b)
    <3>1. b.at \in Int
      BY <1>2, <2>3
    <3>2. \A h \in absent : b.at < h
      BY <2>4, <2>5, <2>6, <3>1
    <3>3. b \in prefix /\ b.at \notin absent
      BY <2>5, <3>1, <3>2
    <3> QED
      BY <1>6, <1>8, <3>3
  <2> QED
    BY <2>5, <2>6
<1> HIDE DEF all, absent, prefix
<1>9. ImportInv(i)'
  <2>1. /\ pc \in {"lookup", "insert"} => d \in DOMAIN Archive /\ IsComplete(d)
        /\ pc = "insert" => from \in Int /\ \A b \in BarsOf[d] : b.at < from => Matched(b)'
        /\ pc = "imported" => Held(d)'
    BY <1>1, <1>5, <1>7, <1>8, HeldStays DEF all
  <2> QED
    BY <1>4, <2>1 DEF ImportInv
<1> QED
  BY <1>4, <1>5, <1>9, OneImports

\* The transaction keeps them whole.
LEMMA InsertKeeps ==
  ASSUME ArchivedInv, TablesInv, NEW i \in Import, Insert(i)
  PROVE  ArchivedInv'
<1>0. PICK d, from : d = import[i].digest /\ from = import[i].from
  OBVIOUS
<1> DEFINE rest == {b \in BarsOf[d] : b.at >= from}
           refused == \E b \in rest : Revises(b) \/ (b.at = from /\ Stored(b) # {})
           fresh == IF refused THEN {} ELSE Fresh(archived, rest)
<1>1. /\ d \in DOMAIN Archive /\ IsComplete(d) /\ from \in Int
      /\ \A b \in BarsOf[d] : b.at < from => Matched(b)
  BY <1>0 DEF Insert, ArchivedInv, ImportInv
<1>2. \A b \in BarsOf[d] : b.at \in Int /\ b.digest = d
  <2>1. Archive[d].first \in Int /\ Archive[d].last \in Int
    BY <1>1, ArchiveRows
  <2> QED
    BY <1>1, <2>1, CompleteRead
<1>3. archived' = archived \union fresh
  BY <1>0 DEF Insert
<1>4. PICK pc, inserted :
        /\ import' = [import EXCEPT ![i].pc = pc, ![i].inserted = inserted]
        /\ pc = IF refused THEN "refused" ELSE "imported"
  BY <1>0 DEF Insert
<1>5. /\ import'[i].pc = pc /\ import'[i].digest = d
      /\ \A j \in Import \ {i} : import'[j] = import[j]
  BY <1>0, <1>4 DEF TablesInv
<1>6. archived \subseteq archived'
  BY <1>3
<1>7. ASSUME ~refused PROVE Held(d)'
  <2>1. ASSUME NEW b \in BarsOf[d] PROVE Matched(b)'
    <3>1. CASE b.at < from
      BY <1>1, <1>6, <3>1, HeldStays
    <3>2. CASE ~(b.at < from)
      <4>1. b \in rest
        BY <1>1, <1>2, <3>2
      <4>2. CASE Stored(b) = {}
        <5>1. b \in archived'
          BY <1>3, <1>7, <4>1, <4>2 DEF Fresh, Stored
        <5> QED
          BY <5>1 DEF Matched
      <4>3. CASE Stored(b) # {}
        <5>1. ~Revises(b)
          BY <1>7, <4>1
        <5>2. Matched(b)
          BY <4>3, <5>1 DEF Stored, Revises, Matched
        <5> QED
          BY <1>6, <5>2, HeldStays
      <4> QED
        BY <4>2, <4>3
    <3> QED
      BY <3>1, <3>2
  <2> QED
    BY <1>1, <2>1 DEF Held
<1>8. \A b \in archived' \ archived : b.digest = d /\ ~refused
  BY <1>2, <1>3 DEF Fresh
<1> HIDE DEF refused, fresh, rest
<1>9. \A b \in archived' \ archived : Held(b.digest)'
  <2> QED
    BY <1>7, <1>8
<1>10. ImportInv(i)'
  <2>1. pc \in {"refused", "imported"} /\ (pc = "imported" => Held(d)')
    BY <1>4, <1>7
  <2> QED
    BY <1>5, <2>1 DEF ImportInv
<1> QED
  BY <1>5, <1>6, <1>9, <1>10, OneImports

\* A death keeps them whole.
LEMMA KillKeeps ==
  ASSUME ArchivedInv, TablesInv, NEW i \in Import, KillImport(i)
  PROVE  ArchivedInv'
<1>1. import'[i].pc = "dead" /\ \A j \in Import \ {i} : import'[j] = import[j]
  BY DEF KillImport, TablesInv
<1>2. archived' = archived
  BY DEF KillImport, storeVars
<1>3. ImportInv(i)'
  BY <1>1 DEF ImportInv
<1> QED
  BY <1>1, <1>2, <1>3, OneImports

\* Every step of the recorder keeps the archives whole.
LEMMA ArchivedKept ==
  ASSUME ArchivedInv, TablesInv, TypeInv, [Next]_vars
  PROVE  ArchivedInv'
<1>1. CASE UNCHANGED <<archived, import>>
  <2>1. ASSUME NEW b \in archived' PROVE Held(b.digest)'
    BY <1>1, HeldStays DEF ArchivedInv
  <2>2. ASSUME NEW i \in Import PROVE ImportInv(i)'
    BY <1>1, ImportStays DEF ArchivedInv
  <2> QED
    BY <2>1, <2>2 DEF ArchivedInv
<1>2. CASE Tick \/ UNCHANGED vars
  BY <1>1, <1>2 DEF Tick, vars, storeVars
<1>3. ASSUME NEW p \in Sync, SyncNext(p), UNCHANGED <<stream, import>>
      PROVE  ArchivedInv'
  BY <1>1, <1>3, OneSyncs
<1>4. ASSUME NEW s \in Session, StreamNext(s), UNCHANGED <<syncVars, import>>
      PROVE  ArchivedInv'
  BY <1>1, <1>4, StreamAside
<1>5. ASSUME NEW i \in Import, ImportNext(i) PROVE ArchivedInv'
  BY <1>5, ReadKeeps, LookupKeeps, InsertKeeps, KillKeeps DEF ImportNext, ImportStep
<1> QED
  BY <1>2, <1>3, <1>4, <1>5 DEF Next

\* No archive is stored in the beginning.
LEMMA ArchivedInitially == Init => ArchivedInv
<1> SUFFICES ASSUME Init PROVE ArchivedInv
  OBVIOUS
<1>1. PICK scenario \in Scenario : ImportInit(scenario.launched)
  BY DEF Init
<1>2. archived = {}
  BY DEF Init, StoreInit
<1>3. \A i \in Import : import[i].pc \in {"idle", "off"}
  BY <1>1 DEF ImportInit
<1> QED
  BY <1>2, <1>3 DEF ArchivedInv, ImportInv

\* An archive of which an import finished, or of which a bar is stored, is
\* stored with all of its hours, as its rows are, whatever imports overlap.
THEOREM ArchiveWholeHolds == Spec => []ArchiveWhole
<1>1. ArchivedInv => ArchiveWhole
  <2> SUFFICES ASSUME ArchivedInv,
                      NEW d, d \in {import[i].digest : i \in {j \in Import : import[j].pc = "imported"}}
                                     \union {b.digest : b \in archived},
                      NEW h \in Archive[d].first .. Archive[d].last
               PROVE  \E b \in archived : b.at = h /\ b.value = HourFromRows(d, h)
    BY DEF ArchiveWhole
  <2>1. Held(d)
    BY DEF ArchivedInv, ImportInv
  <2>2. PICK b \in BarsOf[d] : b.at = h /\ b.value = HourFromRows(d, h)
    BY <2>1, CompleteRead DEF Held
  <2>3. PICK x \in archived : EventId(x) = EventId(b) /\ x.value = b.value
    BY <2>1 DEF Held, Matched
  <2>4. x.at = h
    BY <2>2, <2>3 DEF EventId
  <2> QED
    BY <2>2, <2>3, <2>4
<1>2. SyncInv /\ TablesInv /\ ArchivedInv /\ [Next]_vars => (SyncInv /\ TablesInv /\ ArchivedInv)'
  <2>1. SyncInv => TypeInv
    BY DEF SyncInv
  <2> QED
    BY <2>1, SyncKept, TablesKept, ArchivedKept
<1> QED
  BY <1>1, <1>2, SyncInitially, TablesInitially, ArchivedInitially, PTL DEF Spec

=============================================================================
