------------------------------ MODULE EventStore -----------------------------
(***************************************************************************)
(* The event store over the key store: an event-sourced aggregate is loaded  *)
(* or created, decides events, and EventStore._save() inserts them under     *)
(* the data key of the stream, in one session with the keys it needs.        *)
(***************************************************************************)
EXTENDS KeyStore

CONSTANTS
  MaxBatch, \* bound: events decided in one use case
  MaxEvents \* bound: events of a stream

ASSUME EventStoreAssumption == MaxBatch \in Nat /\ MaxEvents \in Nat

VARIABLES
  events,      \* event_log, committed; dek is the key the payload is encrypted with
  eventWrites, \* eventWrites[s]: the rows that s inserted, uncommitted
  agg          \* agg[s]: the aggregate s works on

eventVars == <<events, eventWrites, agg>>
vars      == <<keyVars, eventVars>>

Positions == 1..MaxEvents

\* A row of event_log; seen is the version the aggregate was loaded at, which no
\* column holds: what its author knew.
Event == [stream: Streams, pos: Positions, seen: 0..MaxEvents, dek: KeyIds]

\* An aggregate: the version it was loaded at, its version now, the last event saved.
Aggregate == [seen: 0..MaxEvents, version: 0..MaxEvents, saved: 0..MaxEvents]

EventsOf(rows, st) == {e \in rows : e.stream = st}

\* The rows a session sees, and whether another session holds a key value.
Visible(s, st)     == EventsOf(events \cup eventWrites[s], st)
PosFree(s, st, p)  == \A o \in Sessions \ {s} : \A e \in EventsOf(eventWrites[o], st) : e.pos # p
Vacant(s, st, p)   == \A e \in Visible(s, st) : e.pos # p

TypeOK ==
  /\ KeyTypeOK
  /\ events \subseteq Event
  /\ eventWrites \in [Sessions -> SUBSET Event]
  /\ agg \in [Sessions -> Aggregate \cup {None}]

Init ==
  /\ KeyInit
  /\ events = {}
  /\ eventWrites = [s \in Sessions |-> {}]
  /\ agg = [s \in Sessions |-> None]

-----------------------------------------------------------------------------
\* A new aggregate: _make_empty(), version 0.
Create(s) ==
  \E st \in Streams :
    /\ Begin(s, "save", "decide")
    /\ stream' = [stream EXCEPT ![s] = st]
    /\ agg' = [agg EXCEPT ![s] = [seen |-> 0, version |-> 0, saved |-> 0]]
    /\ UNCHANGED <<todo, events, eventWrites>>

\* get_all() reads the DEKs of the stream, of which there is one at most; none raises
\* DekNotFound.
GetAll(s, st) == deks[st] # None /\ cur' = [cur EXCEPT ![s] = deks[st]]

\* EventGetQuery.evaluate() asks the codec factory first, which decrypts the DEKs it
\* reads, see DecryptDek.
BeginLoad(s) ==
  \E st \in Streams :
    /\ pc[s] = "idle" /\ "load" \in Ops
    /\ op' = [op EXCEPT ![s] = "load"]
    /\ stream' = [stream EXCEPT ![s] = st]
    /\ GetAll(s, st)
    /\ Goto(s, "unwrap")
    /\ UNCHANGED <<tableVars, minted, kek, todo, victims, shredded, eventVars>>

\* The cipher of the DEK's version opens the payload.
Deciphers(s, e) == e.dek = cur[s].dek

\* The events are read in order and decrypted, and folded into the aggregate; one
\* under another key raises, see Fail.
Fold(s) ==
  LET past == EventsOf(events, stream[s]) IN
    /\ pc[s] = "fold"
    /\ \A e \in past : Deciphers(s, e)
    /\ LET v == Cardinality(past)
       IN agg' = [agg EXCEPT ![s] = [seen |-> v, version |-> v, saved |-> v]]
    /\ op' = [op EXCEPT ![s] = "save"]
    /\ Goto(s, "decide")
    /\ UNCHANGED <<tableVars, minted, stream, kek, cur, todo, victims, shredded, events, eventWrites>>

\* _update(): the event takes the next version of the aggregate and waits.
Decide(s) ==
  /\ pc[s] = "decide"
  /\ agg[s].version < MaxEvents /\ agg[s].version - agg[s].seen < MaxBatch
  /\ agg' = [agg EXCEPT ![s].version = @ + 1]
  /\ UNCHANGED <<keyVars, events, eventWrites>>

\* _save() takes the pending events, if any, and asks for the codec.
BeginSave(s) ==
  /\ pc[s] = "decide"
  /\ Goto(s, IF agg[s].version > agg[s].saved THEN "selectDek" ELSE "commit")
  /\ UNCHANGED <<tableVars, minted, op, stream, kek, cur, todo, victims, shredded, eventVars>>

Row(s, p) == [stream |-> stream[s], pos |-> p, seen |-> agg[s].seen, dek |-> cur[s].dek]

InsertAt(s, p) ==
  /\ pc[s] = "insert"
  /\ p \in Positions /\ PosFree(s, stream[s], p) /\ Vacant(s, stream[s], p)
  /\ eventWrites' = [eventWrites EXCEPT ![s] = @ \cup {Row(s, p)}]
  /\ agg' = [agg EXCEPT ![s].saved = @ + 1]
  /\ Goto(s, IF agg[s].saved + 1 = agg[s].version THEN "commit" ELSE "insert")
  /\ UNCHANGED <<tableVars, minted, op, stream, kek, cur, todo, victims, shredded, events>>

\* Bug: the database numbers the events, as a default of the column would.
InsertEventAtEnd(s) == InsertAt(s, Cardinality(Visible(s, stream[s])) + 1)

\* One event at its position.  The primary key makes it wait for a session that has
\* inserted the same position; a row there raises ConcurrentUpdate, see Fail.
InsertEvent(s) == InsertAt(s, agg[s].saved + 1)

\* The session's context is left: commit, or rollback after whatever was raised.  The
\* aggregate is dropped: _save() has taken its pending events.
Leave(s) ==
  /\ eventWrites' = [eventWrites EXCEPT ![s] = {}]
  /\ agg' = [agg EXCEPT ![s] = None]

Commit(s) == CommitKeys(s) /\ events' = events \cup eventWrites[s] /\ Leave(s)

Fail(s) == FailKeys(s) /\ UNCHANGED events /\ Leave(s)

Keys(s) == KeyStep(s) /\ UNCHANGED eventVars

Next ==
  \E s \in Sessions :
    \/ Create(s) \/ BeginLoad(s) \/ Fold(s) \/ Decide(s) \/ BeginSave(s) \/ InsertEvent(s)
    \/ Keys(s) \/ Commit(s) \/ Fail(s)

Spec == Init /\ [][Next]_vars

-----------------------------------------------------------------------------
\* Refinement: the committed rows, without their encryption.
Log == INSTANCE EventLog WITH
         log <- {[stream |-> e.stream, pos |-> e.pos, seen |-> e.seen] : e \in events}

\* Two sessions that load the same stream and save never both succeed, and a batch is
\* stored as a whole: the store is the log of appends, each right after the events its
\* author had loaded (the primary key of event_log turned into ConcurrentUpdate).
ImplementsEventLog == Log!Spec

\* Every stored event can be read, unless a committed delete covered its DEK, or the KEK
\* that the DEK of its stream was wrapped by before the delete saw it: concurrent first
\* saves, rotations and rewraps lose no key.
Readable(e) ==
  LET row == deks[e.stream] IN row # None /\ row.dek = e.dek /\ Opens(row, keks[row.ver])

EventsReadable ==
  \A e \in events :
    Readable(e) \/ e.dek \in shredded \/ (deks[e.stream] # None /\ deks[e.stream].kek \in shredded)
=============================================================================
