------------------------------- MODULE Session ------------------------------
(***************************************************************************)
(* The atomic scopes of a composite session over several databases          *)
(* (session/composite_session.py, pg_session.py, rest_session.py) and the   *)
(* identity map they give to the repositories (session/identity_map.py).    *)
(*                                                                         *)
(* A Pg delegate has a transaction with savepoints; a REST delegate has none *)
(* and its writes are done when they are made.  The client reads, writes     *)
(* and deletes through the maps as a repository does; another session of    *)
(* the database commits in between.  An object is its place in objects, and  *)
(* is collected as soon as nothing holds it.                                *)
(***************************************************************************)
EXTENDS Integers, Sequences, SequencesExt, FiniteSetsExt

CONSTANTS
  Keys,        \* the identity keys
  Kinds,       \* the delegates in their order, each "pg" or "rest"
  On,          \* key -> the delegate that stores it
  Level,       \* the maps' level: "serializable", "repeatable reads", or "read committed",
               \* which disables them like READ_UNCOMMITTED, the level outside an atomic scope
  CacheSize,   \* the size of CacheLru
  MaxDepth,    \* how deep atomic() is nested (a bound of the model)
  MaxObjects,  \* how many objects are made (a bound of the model)
  MaxVersion,  \* how many writes there are (a bound of the model)
  MaxOrder     \* how long CacheLru's list gets (a bound of the model)

Delegates == DOMAIN Kinds

Composite == Kinds \in Seq({"pg", "rest"}) /\ On \in [Keys -> Delegates]
Levels    == Level \in {"serializable", "repeatable reads", "read committed"}

ASSUME SessionAssumption == Composite /\ Levels

Stored(d) == {k \in Keys : On[k] = d}

VARIABLES
  rows,     \* the committed rows: key -> version, 0 where there is none
  work,     \* what the transactions have written: key -> version, or Unwritten
  scopes,   \* the atomic scopes entered, each with the work at its entry
  phase,    \* what the client's with statement is doing
  left,     \* the delegates entered (while entering) or still to leave
  failing,  \* an exception goes through the scopes
  maps,     \* delegate -> the identity map of its outermost scope
  objects,  \* the objects made: their key and the version they show
  held,     \* the objects the client refers to
  outcome   \* delegate -> how its last transaction ended

sessionVars == <<rows, work, scopes, phase, left, failing, maps, objects, held, outcome>>

Unwritten == -1
Writes    == ReduceSet(LAMBDA k, n : n + rows[k] + (IF work[k] = Unwritten THEN 0 ELSE work[k]), Keys, 0)
Visible(k) == IF work[k] = Unwritten THEN rows[k] ELSE work[k]

-----------------------------------------------------------------------------
(* IdentityMap: order is the list of CacheLru, alive the WeakValueDictionary.   *)

IdentityMap == [order |-> <<>>, alive |-> <<>>]

\* The oldest entry goes, also when the list holds the value twice.
CacheAdd(order, o) ==
  LET longer == Append(order, o) IN IF Len(longer) > CacheSize THEN Tail(longer) ELSE longer

\* Nothing is dropped here: the list outgrows its size.
CacheTouch(order, o) ==
  Append(IF Contains(order, o) THEN RemoveFirst(order, o) ELSE order, o)

\* Bug: what falls out of the list is no longer found, whoever still holds it.
CollectedWithList(m, refs) ==
  [m EXCEPT !.alive = [k \in {key \in DOMAIN @ : Contains(m.order, @[key])} |-> @[k]]]

\* A weak entry lives while the list or the client holds its object.
Referenced(m, o, refs) == o \in refs \/ Contains(m.order, o)
Collected(m, refs) ==
  [m EXCEPT !.alive = [k \in {key \in DOMAIN @ : Referenced(m, @[key], refs)} |-> @[k]]]

DoAdd(m, k, o) ==
  [order |-> CacheAdd(m.order, o),
   alive |-> [key \in DOMAIN m.alive \cup {k} |-> IF key = k THEN o ELSE m.alive[key]]]
DoGet(m, k)    == [m EXCEPT !.order = CacheTouch(@, m.alive[k])]
DoHas(m, k)    == k \in DOMAIN m.alive

\* The strategies: whether add() keeps an object, or the NonexistentObject for what was
\* not found, and whether get() finds anything.
Keeps(exists) == Level = "serializable" \/ (Level = "repeatable reads" /\ exists)
Enabled       == Level # "read committed"

AddObject(m, k, o, exists) == IF Keeps(exists) THEN DoAdd(m, k, o) ELSE m
Has(m, k)                  == Enabled /\ DoHas(m, k)

\* list.remove() raises ValueError for what is not in the list.
RemoveRaises(m, k) == DoHas(m, k) /\ ~Contains(m.order, m.alive[k])
RemoveKey(m, k) ==
  IF DoHas(m, k)
  THEN [order |-> RemoveFirst(m.order, m.alive[k]),
        alive |-> [key \in DOMAIN m.alive \ {k} |-> m.alive[key]]]
  ELSE m

-----------------------------------------------------------------------------
(* The repository: get(), and on KeyError the query and add(), of the object or  *)
(* of nothing.                                                               *)

Collect(refs, m, d) == maps' = [[e \in Delegates |-> Collected(maps[e], refs)] EXCEPT ![d] = Collected(m, refs)]

InScope  == phase = "open" /\ scopes # <<>>
CanMake  == Len(objects) < MaxObjects
Exists(o) == objects[o].version # 0

ReadKnown(k) ==
  LET d == On[k] IN
  /\ InScope /\ Has(maps[d], k) /\ Len(DoGet(maps[d], k).order) <= MaxOrder
  /\ LET o    == maps[d].alive[k]
         refs == IF Exists(o) THEN held \cup {o} ELSE held
     IN  /\ held' = refs
         /\ Collect(refs, DoGet(maps[d], k), d)
  /\ UNCHANGED <<rows, work, scopes, phase, left, failing, objects, outcome>>

\* A row that is not there leaves no trace below SERIALIZABLE.
ReadUnknown(k) ==
  LET d    == On[k]
      o    == Len(objects) + 1
      refs == IF Visible(k) # 0 THEN held \cup {o} ELSE held
  IN
  /\ InScope /\ CanMake /\ ~Has(maps[d], k) /\ (Visible(k) # 0 \/ Keeps(FALSE))
  /\ objects' = Append(objects, [key |-> k, version |-> Visible(k)])
  /\ held' = refs
  /\ Collect(refs, AddObject(maps[d], k, o, Visible(k) # 0), d)
  /\ UNCHANGED <<rows, work, scopes, phase, left, failing, outcome>>

\* A REST request is done at once, a row belongs to the transaction.
Stores(k, version) ==
  IF Kinds[On[k]] = "rest"
  THEN rows' = [rows EXCEPT ![k] = version] /\ UNCHANGED work
  ELSE work' = [work EXCEPT ![k] = version] /\ UNCHANGED rows

Update(o) ==
  LET k == objects[o].key IN
  /\ InScope /\ o \in held /\ Exists(o) /\ Writes < MaxVersion
  /\ Visible(k) # 0
  /\ Stores(k, Visible(k) + 1)
  /\ objects' = [objects EXCEPT ![o].version = Visible(k) + 1]
  /\ Collect(held, AddObject(maps[On[k]], k, o, TRUE), On[k])
  /\ UNCHANGED <<scopes, phase, left, failing, held, outcome>>

Insert(k) ==
  LET o == Len(objects) + 1 IN
  /\ InScope /\ CanMake /\ Visible(k) = 0 /\ Writes < MaxVersion
  /\ ~\E p \in held : objects[p].key = k /\ Exists(p)
  /\ Stores(k, 1)
  /\ objects' = Append(objects, [key |-> k, version |-> 1])
  /\ held' = held \cup {o}
  /\ Collect(held', AddObject(maps[On[k]], k, o, TRUE), On[k])
  /\ UNCHANGED <<scopes, phase, left, failing, outcome>>

\* The row is deleted, then the key removed: the ValueError ends the client's block.
Delete(o) ==
  LET k == objects[o].key
      d == On[k]
  IN
  /\ InScope /\ o \in held /\ Exists(o) /\ Visible(k) # 0
  /\ Stores(k, 0)
  /\ IF RemoveRaises(maps[d], k)
     THEN phase' = "leaving" /\ left' = Len(Kinds) /\ failing' = TRUE /\ UNCHANGED <<objects, maps>>
     ELSE /\ objects' = [objects EXCEPT ![o].version = 0]
          /\ Collect(held, RemoveKey(maps[d], k), d)
          /\ UNCHANGED <<phase, left, failing>>
  /\ UNCHANGED <<scopes, held, outcome>>

Release(o) ==
  /\ o \in held
  /\ held' = held \ {o}
  /\ maps' = [d \in Delegates |-> Collected(maps[d], held')]
  /\ UNCHANGED <<rows, work, scopes, phase, left, failing, objects, outcome>>

OtherSessionCommits(k) ==
  /\ Kinds[On[k]] = "pg" /\ work[k] = Unwritten /\ Writes < MaxVersion
  /\ \E version \in {0, rows[k] + 1} \ {rows[k]} : rows' = [rows EXCEPT ![k] = version]
  /\ UNCHANGED <<work, scopes, phase, left, failing, maps, objects, held, outcome>>

-----------------------------------------------------------------------------
(* atomic(): the delegates are entered in their order and left in reverse.      *)

Outermost == Len(scopes) = 1

Atomic ==
  /\ phase \in {"idle", "open"} /\ Len(scopes) < MaxDepth
  /\ scopes' = Append(scopes, work)
  /\ phase' = "entering" /\ left' = 0 /\ failing' = FALSE
  /\ outcome' = IF scopes = <<>> THEN [d \in Delegates |-> "none"] ELSE outcome
  /\ UNCHANGED <<rows, work, maps, objects, held>>

\* The outermost scope makes an identity map, a nested one takes its parent's.
EnterDelegate ==
  /\ phase = "entering" /\ left < Len(Kinds)
  /\ left' = left + 1
  /\ maps' = IF Outermost THEN [maps EXCEPT ![left + 1] = IdentityMap] ELSE maps
  /\ UNCHANGED <<rows, work, scopes, phase, failing, objects, held, outcome>>

\* No connection, or an observer of on_atomic_started raises: those entered are left.
EnterFails ==
  /\ phase = "entering" /\ left < Len(Kinds)
  /\ phase' = "leaving" /\ failing' = TRUE
  /\ UNCHANGED <<rows, work, scopes, left, maps, objects, held, outcome>>

Entered ==
  /\ phase = "entering" /\ left = Len(Kinds)
  /\ phase' = "open"
  /\ UNCHANGED <<rows, work, scopes, left, failing, maps, objects, held, outcome>>

EndBody(raises) ==
  /\ InScope
  /\ phase' = "leaving" /\ left' = Len(Kinds) /\ failing' = raises
  /\ UNCHANGED <<rows, work, scopes, maps, objects, held, outcome>>

Cleared == [maps EXCEPT ![left] = IdentityMap]

Ends(how) == outcome' = IF Outermost THEN [outcome EXCEPT ![left] = how] ELSE outcome

\* COMMIT, or RELEASE SAVEPOINT.
CommitDelegate ==
  /\ phase = "leaving" /\ left > 0 /\ ~failing
  /\ left' = left - 1
  /\ maps' = IF Outermost THEN Cleared ELSE maps
  /\ IF Outermost
     THEN /\ rows' = [k \in Keys |-> IF k \in Stored(left) THEN Visible(k) ELSE rows[k]]
          /\ work' = [k \in Keys |-> IF k \in Stored(left) THEN Unwritten ELSE work[k]]
     ELSE UNCHANGED <<rows, work>>
  /\ Ends("committed")
  /\ UNCHANGED <<scopes, phase, failing, objects, held>>

\* Bug: each delegate is left by itself, whatever became of the one after it.
RollbackDelegateAlone ==
  /\ phase = "leaving" /\ left > 0 /\ (failing \/ Kinds[left] = "pg")
  /\ left' = left - 1 /\ failing' = FALSE
  /\ maps' = IF Outermost THEN Cleared ELSE maps
  /\ work' = [k \in Keys |-> IF k \in Stored(left) THEN Last(scopes)[k] ELSE work[k]]
  /\ Ends("rolled back")
  /\ UNCHANGED <<rows, scopes, phase, objects, held>>

\* The exception of the body, of an observer of on_atomic_ended or of the COMMIT itself
\* rolls this delegate back and reaches those before it.
RollbackDelegate ==
  /\ phase = "leaving" /\ left > 0 /\ (failing \/ Kinds[left] = "pg")
  /\ left' = left - 1 /\ failing' = TRUE
  /\ maps' = IF Outermost THEN Cleared ELSE maps
  /\ work' = [k \in Keys |-> IF k \in Stored(left) THEN Last(scopes)[k] ELSE work[k]]
  /\ Ends("rolled back")
  /\ UNCHANGED <<rows, scopes, phase, objects, held>>

\* Around a nested scope the client goes on, whether it caught an exception or not.
\* What it keeps of the objects past the outermost is its own affair.
Left ==
  /\ phase = "leaving" /\ left = 0
  /\ scopes' = Front(scopes)
  /\ phase' = IF Outermost THEN "idle" ELSE "open"
  /\ failing' = FALSE
  /\ objects' = IF Outermost THEN <<>> ELSE objects
  /\ held' = IF Outermost THEN {} ELSE held
  /\ UNCHANGED <<rows, work, left, maps, outcome>>

Init ==
  /\ rows = [k \in Keys |-> 0]
  /\ work = [k \in Keys |-> Unwritten]
  /\ scopes = <<>> /\ phase = "idle" /\ left = 0 /\ failing = FALSE
  /\ maps = [d \in Delegates |-> IdentityMap]
  /\ objects = <<>> /\ held = {}
  /\ outcome = [d \in Delegates |-> "none"]

Next ==
  \/ \E k \in Keys : ReadKnown(k) \/ ReadUnknown(k) \/ Insert(k) \/ OtherSessionCommits(k)
  \/ \E o \in DOMAIN objects : Update(o) \/ Delete(o) \/ Release(o)
  \/ Atomic \/ EnterDelegate \/ EnterFails \/ Entered
  \/ \E raises \in BOOLEAN : EndBody(raises)
  \/ CommitDelegate \/ RollbackDelegate \/ Left

Spec == Init /\ [][Next]_sessionVars

-----------------------------------------------------------------------------
Version == Nat \cup {Unwritten}
Object  == [key : Keys, version : Nat]

(* The types, and a phase of the client's with statement whenever there is a scope. *)
TypeOK ==
  /\ rows \in [Keys -> Nat]
  /\ work \in [Keys -> Version]
  /\ scopes \in Seq([Keys -> Version])
  /\ phase \in {"idle", "entering", "open", "leaving"}
  /\ left \in 0..Len(Kinds)
  /\ failing \in BOOLEAN
  /\ objects \in Seq(Object)
  /\ outcome \in [Delegates -> {"none", "committed", "rolled back"}]
  /\ phase = "idle" <=> scopes = <<>>

(* Within a transaction the client never holds two objects of one key that is     *)
(* not deleted, however many objects the cache has dropped: IdentityMap.get(), of *)
(* the levels that do not disable it.                                        *)
OneObjectPerKey ==
  Enabled /\ scopes # <<>> =>
    \A o, p \in held :
      objects[o].key = objects[p].key /\ Exists(o) /\ Exists(p) => o = p

(* The delegates that committed are the last ones of the composite: none commits  *)
(* after one behind it was rolled back, so only a failed COMMIT leaves a composite *)
(* half committed, and an exception in the client's block commits nothing.       *)
CommitsFromTheEnd ==
  \A d, e \in Delegates :
    outcome[d] = "committed" /\ e > d => outcome[e] = "committed"
=============================================================================
