------------------------------- MODULE KeyStore ------------------------------
(***************************************************************************)
(* Envelope encryption (kms/kms.py, seedwork/.../dek_store.py): the key     *)
(* encryption keys of one tenant, by version, and the data encryption key   *)
(* of each stream, wrapped by one of them.  Sessions are transactions at    *)
(* READ COMMITTED over the tables kms_keys and stream_deks; each action is   *)
(* one SQL statement and what follows it up to the next.  A statement that   *)
(* must wait for another session's row is taken when the row is free.       *)
(***************************************************************************)
EXTENDS Naturals, FiniteSets

CONSTANTS
  Sessions,   \* transactions, one use case at a time each
  Streams,    \* the event streams of the tenant
  Ops,        \* the use cases run: a subset of AllOps
  Exclusive,  \* TRUE: operators do not delete keys while a rewrap runs
  MaxVersion, \* bound: KEK versions
  MaxKeys     \* bound: keys generated

AllOps == {"load", "save", "rotate", "rewrap", "deleteKek", "deleteDek"}

ASSUME KeyStoreAssumption ==
  /\ Ops \subseteq AllOps
  /\ Exclusive \in BOOLEAN
  /\ MaxVersion \in Nat /\ MaxKeys \in Nat

Versions == 1..MaxVersion
KeyIds   == 1..MaxKeys

\* No row; a row the session has not written.
None      == [absent |-> TRUE]
Untouched == [absent |-> FALSE]

\* Keys are told apart by a serial number; a row of kms_keys holds one.
Kek == [key: KeyIds]

\* A DEK wrapped by the KEK of version ver: its ciphertext names the version, and
\* decrypts only under the very key it was made with.
Dek == [dek: KeyIds, ver: Versions, kek: KeyIds]

VARIABLES
  keks,      \* kms_keys: keks[v], committed
  deks,      \* stream_deks: deks[st], committed (no code writes a version but 1)
  kekWrites, \* kekWrites[s]: the rows of kms_keys that s wrote, uncommitted
  dekWrites, \* dekWrites[s]: the same for stream_deks
  minted,    \* keys generated so far
  op,        \* op[s]: the use case
  pc,        \* pc[s]: its next statement
  stream,    \* stream[s]: the stream it is about
  kek,       \* kek[s]: the KEK about to be inserted, and its version
  cur,       \* cur[s]: the wrapped DEK in hand
  todo,      \* todo[s]: the rows rewrap() fetched and has not written yet
  victims,   \* victims[s]: the keys that s's delete statement covers
  shredded   \* the keys, KEKs and DEKs, that committed deletes covered

tableVars == <<keks, deks, kekWrites, dekWrites>>
localVars == <<op, pc, stream, kek, cur, todo, victims>>
keyVars   == <<tableVars, localVars, minted, shredded>>

PCs == {"idle", "selectDek", "unwrap", "currentKek", "rotate", "insertKek", "insertDek",
        "fold", "decide", "insert", "next", "updateDek", "delete", "commit"}

NoStream == [none |-> TRUE]

KeyTypeOK ==
  /\ keks \in [Versions -> Kek \cup {None}]
  /\ deks \in [Streams -> Dek \cup {None}]
  /\ kekWrites \in [Sessions -> [Versions -> Kek \cup {None, Untouched}]]
  /\ dekWrites \in [Sessions -> [Streams -> Dek \cup {None, Untouched}]]
  /\ minted \in 0..MaxKeys
  /\ op \in [Sessions -> AllOps \cup {"none"}]
  /\ pc \in [Sessions -> PCs]
  /\ stream \in [Sessions -> Streams \cup {NoStream}]
  /\ kek \in [Sessions -> [ver: Versions, key: KeyIds] \cup {None}]
  /\ cur \in [Sessions -> Dek \cup {None}]
  /\ todo \in [Sessions -> SUBSET [stream: Streams, row: Dek]]
  /\ victims \in [Sessions -> SUBSET KeyIds]
  /\ shredded \subseteq KeyIds

KeyInit ==
  /\ keks = [v \in Versions |-> None]
  /\ deks = [st \in Streams |-> None]
  /\ kekWrites = [s \in Sessions |-> [v \in Versions |-> Untouched]]
  /\ dekWrites = [s \in Sessions |-> [st \in Streams |-> Untouched]]
  /\ minted = 0
  /\ op = [s \in Sessions |-> "none"]
  /\ pc = [s \in Sessions |-> "idle"]
  /\ stream = [s \in Sessions |-> NoStream]
  /\ kek = [s \in Sessions |-> None]
  /\ cur = [s \in Sessions |-> None]
  /\ todo = [s \in Sessions |-> {}]
  /\ victims = [s \in Sessions |-> {}]
  /\ shredded = {}

-----------------------------------------------------------------------------
(***************************************************************************)
(* Rows as a session sees them, and row locks.                              *)
(***************************************************************************)
KekSeen(s, v)  == IF kekWrites[s][v] = Untouched THEN keks[v] ELSE kekWrites[s][v]
DekSeen(s, st) == IF dekWrites[s][st] = Untouched THEN deks[st] ELSE dekWrites[s][st]

KekFree(s, v)  == \A o \in Sessions \ {s} : kekWrites[o][v] = Untouched
DekFree(s, st) == \A o \in Sessions \ {s} : dekWrites[o][st] = Untouched

KekVersions(s) == {v \in Versions : KekSeen(s, v) # None}

\* ORDER BY key_version DESC LIMIT 1: one version or none.
CurrentKek(s) == {v \in KekVersions(s) : \A w \in KekVersions(s) : w <= v}

\* kek.encrypt(): the version of the KEK goes before the ciphertext.
Encrypt(plain, v, kekRow) == [dek |-> plain, ver |-> v, kek |-> kekRow.key]

\* kek.decrypt(): the KEK of the version exists and is the one that encrypted.
Opens(row, kekRow) == kekRow # None /\ kekRow.key = row.kek

Goto(s, to) == pc' = [pc EXCEPT ![s] = to]

-----------------------------------------------------------------------------
(***************************************************************************)
(* DekStore.get_or_create() and the KMS calls under it.                     *)
(***************************************************************************)
SelectLatestDek(s) ==
  /\ pc[s] = "selectDek"
  /\ cur' = [cur EXCEPT ![s] = DekSeen(s, stream[s])]
  /\ Goto(s, IF DekSeen(s, stream[s]) # None THEN "unwrap" ELSE "currentKek")
  /\ UNCHANGED <<tableVars, minted, op, stream, kek, todo, victims, shredded>>

\* decrypt_dek(); otherwise it raises KekNotFound or InvalidTag, see Fail.
DecryptDek(s) ==
  /\ pc[s] = "unwrap"
  /\ Opens(cur[s], KekSeen(s, cur[s].ver))
  /\ Goto(s, CASE op[s] = "load" -> "fold" [] op[s] = "save" -> "insert" [] OTHER -> "currentKek")
  /\ UNCHANGED <<tableVars, minted, op, stream, kek, cur, todo, victims, shredded>>

\* _get_or_create_current_kek(), then generate_dek() or encrypt_dek().
NoCurrentKek(s) ==
  /\ pc[s] = "currentKek" /\ CurrentKek(s) = {}
  /\ Goto(s, "rotate")
  /\ UNCHANGED <<tableVars, minted, op, stream, kek, cur, todo, victims, shredded>>

GenerateDek(s) ==
  /\ pc[s] = "currentKek" /\ op[s] = "save" /\ minted < MaxKeys
  /\ \E v \in CurrentKek(s) :
       cur' = [cur EXCEPT ![s] = Encrypt(minted + 1, v, KekSeen(s, v))]
  /\ minted' = minted + 1
  /\ Goto(s, "insertDek")
  /\ UNCHANGED <<tableVars, op, stream, kek, todo, victims, shredded>>

EncryptDek(s) ==
  /\ pc[s] = "currentKek" /\ op[s] = "rewrap"
  /\ \E v \in CurrentKek(s) :
       cur' = [cur EXCEPT ![s] = Encrypt(cur[s].dek, v, KekSeen(s, v))]
  /\ Goto(s, "updateDek")
  /\ UNCHANGED <<tableVars, minted, op, stream, kek, todo, victims, shredded>>

\* A key made by the master key: generate_obj(), of version 1, or rotate_obj().
NewKeks(current) ==
  {[ver |-> v, key |-> minted + 1] : v \in Versions \cap (IF current = {} THEN {1} ELSE {c + 1 : c \in current})}

\* rotate_kek() reads the current version once more.
RotateKek(s) ==
  /\ pc[s] = "rotate" /\ minted < MaxKeys
  /\ \E new \in NewKeks(CurrentKek(s)) : kek' = [kek EXCEPT ![s] = new]
  /\ minted' = minted + 1
  /\ Goto(s, "insertKek")
  /\ UNCHANGED <<tableVars, op, stream, cur, todo, victims, shredded>>

\* Bug: ON CONFLICT DO UPDATE.
SaveKekOverwrites(s) ==
  /\ pc[s] = "insertKek"
  /\ KekFree(s, kek[s].ver)
  /\ kekWrites' = [kekWrites EXCEPT ![s][kek[s].ver] = [key |-> kek[s].key]]
  /\ Goto(s, IF op[s] = "rotate" THEN "commit" ELSE "currentKek")
  /\ UNCHANGED <<keks, deks, dekWrites, minted, op, stream, kek, cur, todo, victims, shredded>>

\* _save_kek(); a row that exists raises UniqueViolation, see Fail.
SaveKek(s) ==
  /\ pc[s] = "insertKek"
  /\ KekFree(s, kek[s].ver) /\ KekSeen(s, kek[s].ver) = None
  /\ kekWrites' = [kekWrites EXCEPT ![s][kek[s].ver] = [key |-> kek[s].key]]
  /\ Goto(s, IF op[s] = "rotate" THEN "commit" ELSE "currentKek")
  /\ UNCHANGED <<keks, deks, dekWrites, minted, op, stream, kek, cur, todo, victims, shredded>>

InsertDek(s) ==
  /\ pc[s] = "insertDek"
  /\ DekFree(s, stream[s]) /\ DekSeen(s, stream[s]) = None
  /\ dekWrites' = [dekWrites EXCEPT ![s][stream[s]] = cur[s]]
  /\ Goto(s, "insert")
  /\ UNCHANGED <<keks, deks, kekWrites, minted, op, stream, kek, cur, todo, victims, shredded>>

-----------------------------------------------------------------------------
(***************************************************************************)
(* Maintenance: rotate_kek(), rewrap(), delete_kek() and delete().          *)
(***************************************************************************)
Deletes == {"deleteKek", "deleteDek"}

Begin(s, o, at) ==
  /\ pc[s] = "idle" /\ o \in Ops
  /\ op' = [op EXCEPT ![s] = o]
  /\ Goto(s, at)
  /\ UNCHANGED <<tableVars, minted, kek, cur, victims, shredded>>

BeginRotate(s) == Begin(s, "rotate", "rotate") /\ UNCHANGED <<stream, todo>>

\* rewrap() fetches all rows of the tenant first.
BeginRewrap(s) ==
  /\ Exclusive => \A o \in Sessions : op[o] \notin Deletes
  /\ Begin(s, "rewrap", "next")
  /\ todo' = [todo EXCEPT ![s] = {r \in [stream: Streams, row: Dek] : deks[r.stream] = r.row}]
  /\ UNCHANGED stream

BeginDelete(s) ==
  /\ Exclusive => \A o \in Sessions : op[o] # "rewrap"
  /\ \/ Begin(s, "deleteKek", "delete") /\ UNCHANGED <<stream, todo>>
     \/ \E st \in Streams : /\ Begin(s, "deleteDek", "delete")
                            /\ stream' = [stream EXCEPT ![s] = st]
                            /\ UNCHANGED todo

RewrapNext(s) ==
  /\ pc[s] = "next"
  /\ \/ /\ todo[s] = {}
        /\ Goto(s, "commit")
        /\ UNCHANGED <<stream, cur, todo>>
     \/ \E r \in todo[s] :
          /\ stream' = [stream EXCEPT ![s] = r.stream]
          /\ cur' = [cur EXCEPT ![s] = r.row]
          /\ todo' = [todo EXCEPT ![s] = @ \ {r}]
          /\ Goto(s, "unwrap")
  /\ UNCHANGED <<tableVars, minted, op, kek, victims, shredded>>

\* The UPDATE names the row and not the value it was computed from.
UpdateDek(s) ==
  /\ pc[s] = "updateDek"
  /\ DekFree(s, stream[s])
  /\ dekWrites' = IF DekSeen(s, stream[s]) = None THEN dekWrites
                  ELSE [dekWrites EXCEPT ![s][stream[s]] = cur[s]]
  /\ Goto(s, "next")
  /\ UNCHANGED <<keks, deks, kekWrites, minted, op, stream, kek, cur, todo, victims, shredded>>

\* The DEKs in committed rows.
StoredDeks(sts) == {deks[st].dek : st \in {x \in sts : deks[x] # None}}

DeleteVersions(s, vs) ==
  /\ pc[s] = "delete" /\ op[s] = "deleteKek"
  /\ \A v \in vs : KekFree(s, v)
  /\ kekWrites' = [kekWrites EXCEPT ![s] = [v \in Versions |-> IF v \in vs THEN None ELSE @[v]]]
  /\ victims' = [victims EXCEPT ![s] =
       StoredDeks(Streams) \cup {KekSeen(s, v).key : v \in KekVersions(s)}]
  /\ Goto(s, "commit")
  /\ UNCHANGED <<keks, deks, dekWrites, minted, op, stream, kek, cur, todo, shredded>>

\* Bug: only the current version is deleted.
DeleteCurrentKek(s) == DeleteVersions(s, CurrentKek(s))

\* Rows that other sessions have inserted and not committed are not seen.
DeleteKek(s) == DeleteVersions(s, KekVersions(s))

DeleteDek(s) ==
  /\ pc[s] = "delete" /\ op[s] = "deleteDek"
  /\ DekFree(s, stream[s])
  /\ dekWrites' = IF DekSeen(s, stream[s]) = None THEN dekWrites
                  ELSE [dekWrites EXCEPT ![s][stream[s]] = None]
  /\ victims' = [victims EXCEPT ![s] = StoredDeks({stream[s]})]
  /\ Goto(s, "commit")
  /\ UNCHANGED <<keks, deks, kekWrites, minted, op, stream, kek, cur, todo, shredded>>

-----------------------------------------------------------------------------
\* The session's context ends: commit, or rollback after whatever was raised.
EndSession(s) ==
  /\ kekWrites' = [kekWrites EXCEPT ![s] = [v \in Versions |-> Untouched]]
  /\ dekWrites' = [dekWrites EXCEPT ![s] = [st \in Streams |-> Untouched]]
  /\ op' = [op EXCEPT ![s] = "none"]
  /\ pc' = [pc EXCEPT ![s] = "idle"]
  /\ stream' = [stream EXCEPT ![s] = NoStream]
  /\ kek' = [kek EXCEPT ![s] = None]
  /\ cur' = [cur EXCEPT ![s] = None]
  /\ todo' = [todo EXCEPT ![s] = {}]
  /\ victims' = [victims EXCEPT ![s] = {}]
  /\ UNCHANGED minted

CommitKeys(s) ==
  /\ pc[s] = "commit"
  /\ keks' = [v \in Versions |-> KekSeen(s, v)]
  /\ deks' = [st \in Streams |-> DekSeen(s, st)]
  /\ shredded' = shredded \cup victims[s]
  /\ EndSession(s)

FailKeys(s) ==
  /\ pc[s] # "idle"
  /\ EndSession(s)
  /\ UNCHANGED <<keks, deks, shredded>>

KeyStep(s) ==
  \/ SelectLatestDek(s) \/ DecryptDek(s) \/ InsertDek(s)
  \/ NoCurrentKek(s) \/ GenerateDek(s) \/ EncryptDek(s) \/ RotateKek(s) \/ SaveKek(s)
  \/ BeginRotate(s) \/ BeginRewrap(s) \/ BeginDelete(s)
  \/ RewrapNext(s) \/ UpdateDek(s) \/ DeleteKek(s) \/ DeleteDek(s)

-----------------------------------------------------------------------------
\* The DEKs that can be had from the tables.
Recoverable ==
  {deks[st].dek : st \in {x \in Streams : deks[x] # None /\ Opens(deks[x], keks[deks[x].ver])}}

\* Crypto-shredding (docs/modules/kms/index.rst:73): "all DEKs encrypted with these KEKs become
\* permanently undecryptable"; what a committed delete_kek() or delete() covered is not
\* brought back by anything.
ShreddedForGood == shredded \cap Recoverable = {}
=============================================================================
