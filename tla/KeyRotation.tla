----------------------------- MODULE KeyRotation -----------------------------
(***************************************************************************)
(* envelope.service and reencryption.worker: versioned data keys stored    *)
(* wrapped in encryption_keys and cached by every process, their rotation, *)
(* and the worker that moves a column to the key its process takes for     *)
(* the active one, batch by batch.                                         *)
(***************************************************************************)
EXTENDS Naturals, FiniteSets, FiniteSetsExt

CONSTANTS Processes,   \* Node processes on one database
          Records,     \* rows whose column is encrypted
          Damaged,     \* bound: the records whose column may be undecryptable
          BatchSize,
          MaxVersion,  \* bound: key versions of one behaviour
          MaxDeks      \* bound: data keys generated in one behaviour

ASSUME KeyRotationAssumption ==
  /\ BatchSize \in Nat \ {0} /\ MaxVersion \in Nat \ {0} /\ MaxDeks \in Nat
  /\ IsFiniteSet(Records) /\ Damaged \subseteq Records

VARIABLES keys,    \* encryption_keys, per version: its data key and is_active
          node,    \* per process: activeVersion, keyCache, and a first key it generated
          rotation,\* per process: the version and the data key it is about to store
          worker,  \* per process: the run of the worker
          record,  \* per record: what the column holds
          deks     \* data keys generated so far; random ones never collide

keyRotationVars == <<keys, node, rotation, worker, record, deks>>

Versions == 1..MaxVersion
Deks == 1..MaxDeks
NoKey == [dek |-> 0, active |-> FALSE]       \* no row; data key 0 is none
Stored(v) == keys[v].dek # 0

\* A column holds nothing, text from before encryption, text that no key decrypts
\* (version 0 of data key 0), or a ciphertext with the version in front.
Columns == [form : {"null", "legacy", "damaged"}] \union [form : {"cipher"}, version : Versions, dek : Deks]

NotRunning == [at |-> "idle"]
\* The busy flag of the worker is set in every state but "idle".  History: a run is outrun
\* once it has written under another version than the one it goes after, or a row was
\* written under another one by somebody else.
WorkerState ==
  [at : {"idle", "init", "stuck"}]
    \union [at : {"next"}, version : Versions, outrun : BOOLEAN]
    \union [at : {"batch"}, version : Versions, outrun : BOOLEAN, rows : SUBSET Records, todo : SUBSET Records,
            staged : UNION {[rows -> Columns] : rows \in SUBSET Records}]

KeyRotationTypeOK ==
  /\ keys \in [Versions -> [dek : {0} \union Deks, active : BOOLEAN]]
  /\ node \in [Processes -> [active : {0} \union Versions, cache : [Versions -> {0} \union Deks], first : {0} \union Deks]]
  /\ rotation \in [Processes -> [next : {0} \union Versions, dek : {0} \union Deks]]
  /\ \A p \in Processes :
       \/ worker[p].at \in {"idle", "init", "stuck"}
       \/ worker[p].at \in {"next", "batch"} /\ worker[p].version \in Versions
  /\ \A r \in Records : record[r] \in Columns
  /\ deks \in {0} \union Deks

ColdNode == [active |-> 0, cache |-> [v \in Versions |-> 0], first |-> 0]
NoRotation == [next |-> 0, dek |-> 0]

KeyRotationInit ==
  /\ keys = [v \in Versions |-> NoKey]
  /\ node = [p \in Processes |-> ColdNode]
  /\ rotation = [p \in Processes |-> NoRotation]
  /\ worker = [p \in Processes |-> NotRunning]
  /\ \E lost \in SUBSET Damaged :
       record = [r \in Records |-> [form |-> IF r \in lost THEN "damaged" ELSE "legacy"]]
  /\ deks = 0

ActiveVersions == {v \in Versions : keys[v].active}
Latest == Max({0} \union {v \in Versions : Stored(v)})
Initialized(p) == node[p].active # 0
FreshDek == deks + 1

\* keyCache.set and activeVersion.
Adopt(p, v, dek) == [node EXCEPT ![p].active = v, ![p].cache[v] = dek, ![p].first = 0]

-----------------------------------------------------------------------------
(* ensureInitialized, entered by whatever needs a key                      *)

LoadActiveKey(p) ==
  /\ ~Initialized(p) /\ node[p].first = 0
  /\ ActiveVersions # {}
  /\ node' = Adopt(p, Max(ActiveVersions), keys[Max(ActiveVersions)].dek)
  /\ UNCHANGED <<keys, rotation, worker, record, deks>>

GenerateFirstKey(p) ==
  /\ ~Initialized(p) /\ node[p].first = 0
  /\ ActiveVersions = {}
  /\ FreshDek \in Deks
  /\ deks' = FreshDek
  /\ node' = [node EXCEPT ![p].first = FreshDek]
  /\ UNCHANGED <<keys, rotation, worker, record>>

CreateFirstKey(p) ==
  /\ node[p].first # 0 /\ ~Stored(1)
  /\ keys' = [keys EXCEPT ![1] = [dek |-> node[p].first, active |-> TRUE]]
  /\ node' = Adopt(p, 1, node[p].first)
  /\ UNCHANGED <<rotation, worker, record, deks>>

\* The database refuses (another process created version 1) or is away: the callers
\* fail.  The worker has set its busy flag by then, and its finally clause comes later.
InitializationFails(p) ==
  /\ ~Initialized(p)
  /\ node[p].first # 0 \/ worker[p].at = "init"
  /\ node' = [node EXCEPT ![p].first = 0]
  /\ worker' = [worker EXCEPT ![p] = IF @.at = "init" THEN [at |-> "stuck"] ELSE @]
  /\ UNCHANGED <<keys, rotation, record, deks>>

-----------------------------------------------------------------------------
(* rotateKey                                                               *)

\* (Slip: the new key is cached before it is stored.)
BeginRotation_CachedFirst(p) ==
  /\ Initialized(p) /\ rotation[p] = NoRotation
  /\ Latest + 1 \in Versions /\ FreshDek \in Deks
  /\ rotation' = [rotation EXCEPT ![p] = [next |-> Latest + 1, dek |-> FreshDek]]
  /\ deks' = FreshDek
  /\ node' = Adopt(p, Latest + 1, FreshDek)
  /\ UNCHANGED <<keys, worker, record>>

BeginRotation(p) ==
  /\ Initialized(p) /\ rotation[p] = NoRotation
  /\ Latest + 1 \in Versions /\ FreshDek \in Deks
  /\ rotation' = [rotation EXCEPT ![p] = [next |-> Latest + 1, dek |-> FreshDek]]
  /\ deks' = FreshDek
  /\ UNCHANGED <<keys, node, worker, record>>

\* One transaction: the active keys are retired and the next one inserted, after which
\* the process adopts it.
StoreRotation(p) ==
  LET new == rotation[p] IN
  /\ new # NoRotation /\ ~Stored(new.next)
  /\ keys' = [v \in Versions |->
       IF v = new.next THEN [dek |-> new.dek, active |-> TRUE] ELSE [keys[v] EXCEPT !.active = FALSE]]
  /\ node' = Adopt(p, new.next, new.dek)
  /\ rotation' = [rotation EXCEPT ![p] = NoRotation]
  /\ UNCHANGED <<worker, record, deks>>

\* key_version is unique, or the database is away: nothing is stored.
RotationFails(p) ==
  /\ rotation[p] # NoRotation
  /\ rotation' = [rotation EXCEPT ![p] = NoRotation]
  /\ UNCHANGED <<keys, node, worker, record, deks>>

-----------------------------------------------------------------------------
(* reencryptColumn                                                         *)

\* NOT LIKE 'v<n>:%' of the version this run started with.
Remaining(v) ==
  {r \in Records : record[r].form \notin {"null"} /\ ~(record[r].form = "cipher" /\ record[r].version = v)}
Locked(p) == UNION {worker[q].rows : q \in {x \in Processes \ {p} : worker[x].at = "batch"}}

StartWorker(p) ==
  /\ worker[p] = NotRunning
  /\ worker' = [worker EXCEPT ![p] = [at |-> "init"]]
  /\ UNCHANGED <<keys, node, rotation, record, deks>>

CountRemaining(p) ==
  LET v == node[p].active IN
  /\ worker[p].at = "init" /\ Initialized(p)
  /\ worker' = [worker EXCEPT ![p] =
       IF Remaining(v) = {} THEN NotRunning ELSE [at |-> "next", version |-> v, outrun |-> FALSE]]
  /\ UNCHANGED <<keys, node, rotation, record, deks>>

\* SELECT ... LIMIT BatchSize FOR UPDATE, in no particular order; it waits for rows that
\* another worker holds.
TakeBatch(p) ==
  LET run == worker[p] IN
  /\ run.at = "next"
  /\ \E rows \in SUBSET Remaining(run.version) :
       /\ Cardinality(rows) = Min({BatchSize, Cardinality(Remaining(run.version))})
       /\ rows \intersect Locked(p) = {}
       /\ worker' = [worker EXCEPT ![p] =
            IF rows = {} THEN NotRunning
            ELSE [at |-> "batch", version |-> run.version, outrun |-> run.outrun,
                  rows |-> rows, todo |-> rows, staged |-> [r \in rows |-> record[r]]]]
  /\ UNCHANGED <<keys, node, rotation, record, deks>>

\* getDekForVersion: the cache, or the stored row.
DekFor(p, v) == IF node[p].cache[v] # 0 THEN node[p].cache[v] ELSE keys[v].dek
Decrypts(p, column) ==
  column.form = "legacy" \/ (column.form = "cipher" /\ DekFor(p, column.version) = column.dek)

\* encrypt: the version this process takes for active now.
Encrypted(p) == [form |-> "cipher", version |-> node[p].active, dek |-> node[p].cache[node[p].active]]

\* An item that cannot be decrypted is counted and left as it is.
ReencryptItem(p) ==
  LET run == worker[p] IN
  /\ run.at = "batch"
  /\ run.todo # {}
  /\ LET r == CHOOSE x \in run.todo : TRUE IN
       worker' = [worker EXCEPT ![p] =
         IF Decrypts(p, record[r])
         THEN [run EXCEPT !.todo = @ \ {r}, !.staged[r] = Encrypted(p),
                          !.outrun = @ \/ node[p].active # run.version]
         ELSE [run EXCEPT !.todo = @ \ {r}]]
  /\ UNCHANGED <<keys, node, rotation, record, deks>>

\* (Slip: only an empty batch ends the run.)
LastBatch_Empty(rows) == FALSE

\* A batch that is not full is the last one.
LastBatch(rows) == Cardinality(rows) < BatchSize

CommitBatch(p) ==
  LET run == worker[p] IN
  /\ run.at = "batch" /\ run.todo = {}
  /\ record' = [r \in Records |-> IF r \in run.rows THEN run.staged[r] ELSE record[r]]
  /\ worker' = [q \in Processes |->
       IF q = p
       THEN IF LastBatch(run.rows) THEN NotRunning
            ELSE [at |-> "next", version |-> run.version, outrun |-> run.outrun]
       ELSE IF worker[q].at \in {"next", "batch"}
       THEN [worker[q] EXCEPT !.outrun = @ \/ run.outrun \/ worker[q].version # run.version]
       ELSE worker[q]]
  /\ UNCHANGED <<keys, node, rotation, deks>>

\* The transaction of a batch is rolled back and the run ends with an error.
BatchFails(p) ==
  /\ worker[p].at \in {"next", "batch"}
  /\ worker' = [worker EXCEPT ![p] = NotRunning]
  /\ UNCHANGED <<keys, node, rotation, record, deks>>

ProcessRestarts(p) ==
  /\ node' = [node EXCEPT ![p] = ColdNode]
  /\ rotation' = [rotation EXCEPT ![p] = NoRotation]
  /\ worker' = [worker EXCEPT ![p] = NotRunning]
  /\ UNCHANGED <<keys, record, deks>>

-----------------------------------------------------------------------------

WorkerSteps(p) ==
  \/ LoadActiveKey(p) \/ CreateFirstKey(p) \/ CountRemaining(p)
  \/ TakeBatch(p) \/ ReencryptItem(p) \/ CommitBatch(p)

KeyRotationNext ==
  \E p \in Processes :
    \/ WorkerSteps(p)
    \/ GenerateFirstKey(p) \/ InitializationFails(p)
    \/ BeginRotation(p) \/ StoreRotation(p) \/ RotationFails(p)
    \/ StartWorker(p) \/ BatchFails(p) \/ ProcessRestarts(p)

\* Node runs what is ready, and PostgreSQL grants a row lock to those who wait for it in
\* turn, so a run whose rows are free again and again gets them.
KeyRotationFairness ==
  \A p \in Processes : WF_keyRotationVars(WorkerSteps(p)) /\ SF_keyRotationVars(TakeBatch(p))

KeyRotationSpec == KeyRotationInit /\ [][KeyRotationNext]_keyRotationVars /\ KeyRotationFairness

-----------------------------------------------------------------------------

\* Nothing is encrypted under a key that could be lost: the data key of every ciphertext
\* is stored under the version in front of it, and what a process caches for a version
\* is what is stored for it, whatever rotations fail, overlap or are cut short
\* (envelope.service.js:23-60, 127-160).
EverythingReadable ==
  /\ \A r \in Records : record[r].form = "cipher" => keys[record[r].version].dek = record[r].dek
  /\ \A p \in Processes, v \in Versions : node[p].cache[v] \in {0, keys[v].dek}

\* Every run ends, as long as fewer rows than a batch holds are undecryptable, unless it
\* is outrun: then it may read the same full batch for ever (reencryption.worker.js:96).
WorkerEnds ==
  \A p \in Processes :
    worker[p].at \in {"next", "batch"} ~>
      \/ worker[p].at \in {"idle", "init", "stuck"}
      \/ worker[p].outrun
      \/ Cardinality({r \in Records : record[r].form = "damaged"}) >= BatchSize
=============================================================================
