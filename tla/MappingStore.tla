---------------------------- MODULE MappingStore ----------------------------
(***************************************************************************)
(* The thread records of class MappingStore                                *)
(* (src/packages/mapping-store/src/mapping-store.ts): one JSON file per    *)
(* external thread, a backup of its previous revision, the maps in memory  *)
(* and the store-wide write queue (#writeTail) that runs one update at a   *)
(* time.                                                                   *)
(*                                                                         *)
(* The queue serialises the writes, and the arguments of a queued write    *)
(* are checked only when it reaches the head, so the model keeps the write *)
(* at the head (op) and lets the next one start with any arguments.  The   *)
(* indexes are a function of the records (#rebuildIndexes clears and       *)
(* refills them after every change), so they are operators here.  The      *)
(* delegations, which share #rebuildIndexes, are in Delegations, the       *)
(* lock file in StoreLock.                                                 *)
(*                                                                         *)
(* Bounds: MaxRevision caps the revisions of a record, MaxTurns its        *)
(* mappings, MaxFaults the disk faults (a primary file that becomes        *)
(* unreadable, a rewrite or a removal that fails) of a behaviour.          *)
(***************************************************************************)
EXTENDS Naturals, Sequences, FiniteSets

CONSTANTS
  Threads, Requests, Sessions, HostTurns, NativeTurns, Checkpoints, Labels,
  None,         \* no record, no file, no session, no checkpoint
  Torn,         \* a file that does not parse
  MaxRevision, MaxTurns, MaxFaults

ASSUME BoundsAreNaturals ==
  /\ MaxRevision \in Nat /\ MaxTurns \in Nat /\ MaxFaults \in Nat
ASSUME NoneIsNoData == None \notin Sessions \cup Checkpoints \cup Threads \cup {Torn}

VARIABLES
  phase,      \* "down", "init" while initialize() runs, "open" (#initialized)
  records,    \* #records
  primary,    \* threads/<id>.json
  backup,     \* backups/<id>.json
  op,         \* the write at the head of #writeTail, None when it is empty
  unscanned,  \* names initialize() has still to read
  faults,     \* disk faults so far
  stale       \* history: threads whose primary is damaged, or was rewritten
              \* from its backup by an initialize() that has not succeeded yet

vars == <<phase, records, primary, backup, op, unscanned, faults, stale>>

-----------------------------------------------------------------------------
(* Records *)

\* nativeTurnRef and nativeCheckpointRef name the session they belong to
Mapping == [host: HostTurns, sess: Sessions, nat: NativeTurns,
            chk: Checkpoints \cup {None}]

Record == [rev: 1..MaxRevision, req: Requests, state: {"creating", "ready"},
           sess: Sessions \cup {None}, sub: BOOLEAN, fork: BOOLEAN,
           label: Labels, turns: Seq(Mapping)]

NativeKey(m) == <<m.sess, m.nat>>

MappingsOf(r) == {r.turns[i] : i \in DOMAIN r.turns}

MappingLists == UNION {[1..n -> Mapping] : n \in 0..MaxTurns}

\* no two positions of a list share a host turn or a native turn
Injective(ms) == \A i, j \in DOMAIN ms :
  i # j => ms[i].host # ms[j].host /\ NativeKey(ms[i]) # NativeKey(ms[j])

\* storedThreadRecordV1Schema: its shape and its superRefine
SchemaOK(r) ==
  /\ r.state = "ready" => r.sess # None
  /\ Injective(r.turns)
  /\ r.sess # None => \A m \in MappingsOf(r) : m.sess = r.sess

GoodRecord == {r \in Record : SchemaOK(r)}

\* a session the #nativeSessions index holds for this record
Owns(r, s) == r.sess = s /\ s # None /\ ~r.sub

\* two records that the indexes can hold together
Compatible(r, q) ==
  /\ r.req # q.req
  /\ \A s \in Sessions : ~(Owns(r, s) /\ Owns(q, s))
  /\ \A m \in MappingsOf(r), n \in MappingsOf(q) :
       m.host # n.host /\ NativeKey(m) # NativeKey(n)

\* mutant: the sessions, host turns and native turns of other records are
\* not looked up
ValidateRequestsOnly(r, t) ==
  \A u \in Threads \ {t} : records[u] # None => records[u].req # r.req

\* #validateGlobal(record, t) against the indexes of the other records; a
\* native turn of the record itself may not move to another host turn either
ValidateGlobal(r, t) ==
  /\ \A u \in Threads \ {t} : records[u] # None => Compatible(r, records[u])
  /\ records[t] # None =>
       \A m \in MappingsOf(r), n \in MappingsOf(records[t]) :
         NativeKey(m) = NativeKey(n) => m.host = n.host

\* #rebuildIndexes accepts these records
Indexable(recs) == \A t, u \in Threads :
  t # u /\ recs[t] # None /\ recs[u] # None => Compatible(recs[t], recs[u])

Holds(file) == file \notin {None, Torn}

-----------------------------------------------------------------------------
(* Changes: what each operation computes from the current record *)

SameTurn(m, n) == m.host = n.host /\ NativeKey(m) = NativeKey(n)

\* identities agree or are unrelated, and a checkpoint never changes
MergeFits(m, n) ==
  /\ (m.host = n.host) <=> (NativeKey(m) = NativeKey(n))
  /\ SameTurn(m, n) /\ m.chk # None /\ n.chk # None => m.chk = n.chk

CanMerge(cur, ups) == \A i \in DOMAIN cur, j \in DOMAIN ups : MergeFits(cur[i], ups[j])

\* #mergeMappings: fill the missing checkpoints, append what is new
Merge(cur, ups) ==
  LET Update(m) == {n \in {ups[j] : j \in DOMAIN ups} : SameTurn(m, n)}
      Filled(m) == IF m.chk = None /\ Update(m) # {}
                     THEN CHOOSE n \in Update(m) : TRUE ELSE m
      IsNew(n)  == \A i \in DOMAIN cur : ~SameTurn(cur[i], n)
  IN  [i \in DOMAIN cur |-> Filled(cur[i])] \o SelectSeq(ups, IsNew)

\* reconcileTurnMappings: identities that remain keep their counterpart
CanReconcile(cur, ms) ==
  /\ Injective(ms)
  /\ \A i \in DOMAIN cur, j \in DOMAIN ms :
       (cur[i].host = ms[j].host) <=> (NativeKey(cur[i]) = NativeKey(ms[j]))

\* the retained prefix keeps its host turns
HostPrefix(ms, cur) ==
  /\ Len(ms) <= Len(cur)
  /\ \A i \in DOMAIN ms : ms[i].host = cur[i].host

CommitReady(r, s, ms) ==
  IF CanMerge(r.turns, ms)
    THEN {[r EXCEPT !.state = "ready", !.sess = s, !.turns = Merge(r.turns, ms)]}
    ELSE {}

UpsertTurnMappings(r, ms) ==
  IF CanMerge(r.turns, ms) THEN {[r EXCEPT !.turns = Merge(r.turns, ms)]} ELSE {}

ReconcileTurnMappings(r, ms) ==
  IF r.state = "ready" /\ CanReconcile(r.turns, ms) /\ ms # r.turns
    THEN {[r EXCEPT !.turns = ms]} ELSE {}

ReplaceReadySession(r, s, ms) ==
  IF /\ r.state = "ready" /\ r.fork /\ s # r.sess
     /\ Len(ms) >= 1 /\ Len(ms) < Len(r.turns) /\ HostPrefix(ms, r.turns)
    THEN {[r EXCEPT !.sess = s, !.turns = ms]} ELSE {}

\* mutant: the retained turns are counted but not compared
ReplaceWithoutPrefix(r, s, ms) ==
  IF r.state = "ready" /\ Len(ms) + 1 = Len(r.turns)
    THEN {[r EXCEPT !.sess = s, !.turns = ms]} ELSE {}

ReplaceReadySessionAfterLastTurn(r, s, ms) ==
  IF r.state = "ready" /\ Len(ms) + 1 = Len(r.turns) /\ HostPrefix(ms, r.turns)
    THEN {[r EXCEPT !.sess = s, !.turns = ms]} ELSE {}

\* setTitle always writes, setTransportModelId and setArchived only a change
SetTitle(r, l) == {[r EXCEPT !.label = l]}

SetMetadata(r, l) == IF r.label = l THEN {} ELSE SetTitle(r, l)

Changes(r) ==
  UNION ( {CommitReady(r, s, ms) : s \in Sessions, ms \in {l \in MappingLists : Injective(l)}}
    \cup {UpsertTurnMappings(r, <<m>>) : m \in Mapping}
    \cup {ReconcileTurnMappings(r, ms) : ms \in MappingLists}
    \cup {ReplaceReadySession(r, s, ms) : s \in Sessions, ms \in MappingLists}
    \cup {ReplaceReadySessionAfterLastTurn(r, s, ms) : s \in Sessions, ms \in MappingLists}
    \cup {SetTitle(r, l) : l \in Labels}
    \cup {SetMetadata(r, l) : l \in Labels} )

-----------------------------------------------------------------------------
(* Writes *)

Idle == phase = "open" /\ op = None

Begin(t, next, step) == op' = [thread |-> t, next |-> next, step |-> step]

\* createProvisional: a request already stored answers with its record
\* (nothing changes), a known id is refused.  Ids are fresh UUIDs, so no
\* file of an earlier thread has the name.
CreateProvisional(t) ==
  /\ Idle
  /\ records[t] = None /\ primary[t] = None /\ backup[t] = None
  /\ \E req \in Requests, sub, fork \in BOOLEAN, l \in Labels :
       LET r == [rev |-> 1, req |-> req, state |-> "creating", sess |-> None,
                 sub |-> sub, fork |-> fork, label |-> l, turns |-> <<>>]
       IN  /\ \A u \in Threads : records[u] # None => records[u].req # req
           /\ r \in GoodRecord /\ ValidateGlobal(r, t)
           /\ Begin(t, r, "temp")
  /\ UNCHANGED <<phase, records, primary, backup, unscanned, faults, stale>>

\* mutant: the record is parsed but not checked against the others
UpdateUnvalidated(t) ==
  /\ Idle /\ records[t] # None
  /\ \E changed \in Changes(records[t]) :
       LET r == [changed EXCEPT !.rev = records[t].rev + 1]
       IN  r \in GoodRecord /\ Begin(t, r, "temp")
  /\ UNCHANGED <<phase, records, primary, backup, unscanned, faults, stale>>

\* mutant: the revision does not count the write
UpdateKeepsRevision(t) ==
  /\ Idle /\ records[t] # None
  /\ \E r \in Changes(records[t]) :
       r \in GoodRecord /\ ValidateGlobal(r, t) /\ Begin(t, r, "temp")
  /\ UNCHANGED <<phase, records, primary, backup, unscanned, faults, stale>>

\* #update: the change is computed from the current record inside the queue
Update(t) ==
  /\ Idle /\ records[t] # None
  /\ \E changed \in Changes(records[t]) :
       LET r == [changed EXCEPT !.rev = records[t].rev + 1]
       IN  /\ r \in GoodRecord /\ ValidateGlobal(r, t)
           /\ Begin(t, r, "temp")
  /\ UNCHANGED <<phase, records, primary, backup, unscanned, faults, stale>>

\* removeThread, and removeProvisional, which refuses a ready record
Remove(t) ==
  /\ Idle /\ records[t] # None
  /\ Begin(t, None, "removing")
  /\ UNCHANGED <<phase, records, primary, backup, unscanned, faults, stale>>

At(step) == phase = "open" /\ op # None /\ op.step = step

Advance(step) == op' = [op EXCEPT !.step = step]

\* #replaceFile with preserveBackup: copyFile truncates the backup, then
\* fills it.  A record at revision 1 is new and keeps no backup; a missing
\* primary leaves nothing to copy.
StartCopy ==
  /\ At("temp") /\ op.next.rev > 1 /\ primary[op.thread] # None
  /\ backup' = [backup EXCEPT ![op.thread] = Torn]
  /\ Advance("copying")
  /\ UNCHANGED <<phase, records, primary, unscanned, faults, stale>>

FinishCopy ==
  /\ At("copying")
  /\ backup' = [backup EXCEPT ![op.thread] = primary[op.thread]]
  /\ Advance("copied")
  /\ UNCHANGED <<phase, records, primary, unscanned, faults, stale>>

\* the rename that makes the new revision durable
Rename ==
  /\ \/ At("copied")
     \/ At("temp") /\ (op.next.rev = 1 \/ primary[op.thread] = None)
  /\ primary' = [primary EXCEPT ![op.thread] = op.next]
  /\ Advance("renamed")
  /\ UNCHANGED <<phase, records, backup, unscanned, faults, stale>>

\* the rest of the queued function: the map, then the indexes
Publish ==
  /\ At("renamed") \/ (At("removing") /\ primary[op.thread] = None
                                      /\ backup[op.thread] = None)
  /\ records' = [records EXCEPT ![op.thread] = op.next]
  /\ op' = None
  /\ UNCHANGED <<phase, primary, backup, unscanned, faults, stale>>

\* the two rm calls of #remove run side by side
RmPrimary ==
  /\ At("removing") /\ primary[op.thread] # None
  /\ primary' = [primary EXCEPT ![op.thread] = None]
  /\ UNCHANGED <<phase, records, backup, op, unscanned, faults, stale>>

RmBackup ==
  /\ At("removing") /\ backup[op.thread] # None
  /\ backup' = [backup EXCEPT ![op.thread] = None]
  /\ UNCHANGED <<phase, records, primary, op, unscanned, faults, stale>>

\* mutant: memory takes the record although its file was not replaced
WriteFailsInMemoryToo ==
  /\ At("temp") \/ At("copied")
  /\ records' = [records EXCEPT ![op.thread] = op.next]
  /\ op' = None
  /\ UNCHANGED <<phase, primary, backup, unscanned, faults, stale>>

\* beforeReplace, open, write, sync, copy or rename throws: IO_ERROR, the
\* temp file is removed, memory keeps the previous record.  A copy that
\* fails leaves the backup truncated or removed.
WriteFails ==
  /\ At("temp") \/ At("copying") \/ At("copied")
  /\ \/ UNCHANGED backup
     \/ At("copying") /\ backup' = [backup EXCEPT ![op.thread] = None]
  /\ op' = None
  /\ UNCHANGED <<phase, records, primary, unscanned, faults, stale>>

\* one of the two rm calls throws: memory keeps the record, the other file
\* may be gone
RemoveFails ==
  /\ At("removing") /\ faults < MaxFaults
  /\ op' = None /\ faults' = faults + 1
  /\ UNCHANGED <<phase, records, primary, backup, unscanned, stale>>

-----------------------------------------------------------------------------
(* Stopping and starting *)

NoRecords == [t \in Threads |-> None]

\* close() waits for the queue; a crash does not.  Either way the next
\* process starts from the files alone.
Close ==
  /\ Idle
  /\ phase' = "down" /\ records' = NoRecords
  /\ UNCHANGED <<primary, backup, op, unscanned, faults, stale>>

Crash ==
  /\ phase # "down"
  /\ phase' = "down" /\ records' = NoRecords /\ op' = None /\ unscanned' = {}
  /\ UNCHANGED <<primary, backup, faults, stale>>

\* initialize(): lock, cleanup of temps, the names of threads/*.json
StartInitialize ==
  /\ phase = "down"
  /\ phase' = "init" /\ unscanned' = {t \in Threads : primary[t] # None}
  /\ UNCHANGED <<records, primary, backup, op, faults, stale>>

Scanned(t) == unscanned' = unscanned \ {t}

Provisional(file) == Holds(file) /\ file.state = "creating" /\ file.sess = None

\* the primary reads, and is not a create that never got its session
LoadPrimary(t) ==
  /\ t \in unscanned /\ Holds(primary[t]) /\ ~Provisional(primary[t])
  /\ records' = [records EXCEPT ![t] = primary[t]]
  /\ Scanned(t)
  /\ UNCHANGED <<phase, primary, backup, op, faults, stale>>

\* the primary does not read, the backup does: it is written back
RestoreBackup(t) ==
  /\ t \in unscanned /\ primary[t] = Torn /\ Holds(backup[t])
  /\ primary' = [primary EXCEPT ![t] = backup[t]]
  /\ UNCHANGED <<phase, records, backup, op, unscanned, faults, stale>>

\* neither reads, or the rewrite of the primary fails
Quarantine(t) ==
  /\ t \in unscanned /\ primary[t] = Torn
  /\ \/ ~Holds(backup[t]) /\ UNCHANGED faults
     \/ Holds(backup[t]) /\ faults < MaxFaults /\ faults' = faults + 1
  /\ primary' = [primary EXCEPT ![t] = None] /\ stale' = stale \ {t}
  /\ Scanned(t)
  /\ UNCHANGED <<phase, records, backup, op>>

\* a provisional record is dropped: first its primary, then its backup
DropProvisional(t) ==
  /\ t \in unscanned /\ Provisional(primary[t])
  /\ primary' = [primary EXCEPT ![t] = None]
  /\ UNCHANGED <<phase, records, backup, op, unscanned, faults, stale>>

DropProvisionalBackup(t) ==
  /\ t \in unscanned /\ primary[t] = None
  /\ backup' = [backup EXCEPT ![t] = None]
  /\ Scanned(t)
  /\ UNCHANGED <<phase, records, primary, op, faults, stale>>

\* #rebuildIndexes throws on records that do not fit together, and
\* initialize() closes the store again
FinishInitialize ==
  /\ phase = "init" /\ unscanned = {}
  /\ IF Indexable(records)
       THEN phase' = "open" /\ stale' = {} /\ UNCHANGED records
       ELSE phase' = "down" /\ records' = NoRecords /\ UNCHANGED stale
  /\ UNCHANGED <<primary, backup, op, unscanned, faults>>

\* the fault the backups are for: a primary file that no longer parses
Corrupt(t) ==
  /\ phase = "down" /\ Holds(primary[t]) /\ faults < MaxFaults
  /\ primary' = [primary EXCEPT ![t] = Torn]
  /\ faults' = faults + 1 /\ stale' = stale \cup {t}
  /\ UNCHANGED <<phase, records, backup, op, unscanned>>

-----------------------------------------------------------------------------
Init ==
  /\ phase = "down" /\ records = NoRecords
  /\ primary = NoRecords /\ backup = NoRecords
  /\ op = None /\ unscanned = {} /\ faults = 0 /\ stale = {}

Next ==
  \/ \E t \in Threads :
       \/ CreateProvisional(t) \/ Update(t) \/ Remove(t)
       \/ LoadPrimary(t) \/ RestoreBackup(t) \/ Quarantine(t)
       \/ DropProvisional(t) \/ DropProvisionalBackup(t) \/ Corrupt(t)
  \/ StartCopy \/ FinishCopy \/ Rename \/ Publish
  \/ RmPrimary \/ RmBackup \/ WriteFails \/ RemoveFails
  \/ Close \/ Crash \/ StartInitialize \/ FinishInitialize

Spec == Init /\ [][Next]_vars

-----------------------------------------------------------------------------
(* Properties *)

Steps == {"temp", "copying", "copied", "renamed", "removing"}

Writes == [thread: Threads, next: GoodRecord \cup {None}, step: Steps]

ASSUME NoRecordIsNoneOrTorn ==
  None \notin Writes /\ None \notin Record /\ Torn \notin Record

\* Every variable keeps its type; the record being written is always one
\* the schema accepts, whatever the operation computed, and no write
\* outlives the process that began it.
TypeOK ==
  /\ phase \in {"down", "init", "open"}
  /\ records \in [Threads -> GoodRecord \cup {None}]
  /\ primary \in [Threads -> GoodRecord \cup {None, Torn}]
  /\ backup \in [Threads -> GoodRecord \cup {None, Torn}]
  /\ op \in Writes \cup {None}
  /\ op # None => phase = "open"
  /\ unscanned \subseteq Threads
  /\ unscanned # {} => phase = "init"
  /\ faults \in 0..MaxFaults
  /\ stale \subseteq Threads

\* While the store serves, no two threads share a create request, a native
\* session, a host turn or a native turn: the maps that route a
\* notification to its thread are functions.
GlobalIdentity == phase = "open" => Indexable(records)

\* What initialize() makes of the two files of a thread
Recovered(t) ==
  LET file == IF primary[t] = Torn THEN backup[t] ELSE primary[t]
  IN  IF Holds(file) /\ ~Provisional(file) THEN file ELSE None

\* Whenever the process dies, between any two steps of a write or of the
\* recovery itself, the files it leaves fit together, also after disk faults:
\* the next initialize() does not throw in #rebuildIndexes.  The one record that
\* may keep it from loading is the backup of a damaged primary: it is older than
\* what the other threads were checked against, and they may have taken the
\* session or the turns that the thread has given up since.
RestartNeverFails == \A t, u \in Threads \ stale :
  t # u /\ Recovered(t) # None /\ Recovered(u) # None
    => Compatible(Recovered(t), Recovered(u))

\* Between writes, what the host reads from memory is what a restart reads
\* from disk, except for a removal that failed halfway.
MemoryIsDurable == Idle => \A t \in Threads :
  primary[t] = records[t] \/ (faults > 0 /\ primary[t] = None)

\* A thread keeps the host turn of a native turn for as long as it keeps
\* the native turn, in memory and over restarts.
TurnIdentityIsStable == [][\A t \in Threads :
    Holds(primary[t]) /\ Holds(primary'[t]) =>
      \A m \in MappingsOf(primary[t]), n \in MappingsOf(primary'[t]) :
        NativeKey(m) = NativeKey(n) => m.host = n.host]_primary

\* A ready thread that changes its native session keeps the host turns it
\* shows: the new list is a shorter prefix of the old one.
RollbackKeepsPrefix == [][\A t \in Threads :
    LET old == primary[t]
        new == primary'[t]
    IN  Holds(old) /\ Holds(new) /\ old.state = "ready" /\ new.state = "ready"
          /\ old.sess # new.sess /\ old.turns # <<>>
        => HostPrefix(new.turns, old.turns) /\ Len(new.turns) < Len(old.turns)]_primary

\* The thread registry a client may rely on: whole validated revisions that
\* become durable in one step and are visible only afterwards.
Durable(t) == IF primary[t] = Torn THEN None ELSE primary[t]

Registry == INSTANCE AtomicStore WITH
  durable <- [t \in Threads |-> Durable(t)], visible <- records

ImplementsAtomicStore == Registry!Spec

\* The inductive invariant behind GlobalIdentity and RestartNeverFails
WriteFits == op # None /\ op.next # None =>
  \A u \in Threads \ {op.thread} : records[u] # None => Compatible(op.next, records[u])

\* a primary is what memory holds, or the write in flight has replaced it
DiskFollowsMemory ==
  /\ phase = "open" => \A t \in Threads :
       IF At("renamed") /\ op.thread = t
         THEN primary[t] = op.next ELSE primary[t] \in {None, records[t]}
  /\ phase = "init" => \A t \in Threads :
       IF t \in unscanned THEN records[t] = None ELSE records[t] = primary[t]
  /\ phase = "down" => records = NoRecords

DiskFits ==
  /\ \A t \in Threads \ stale : primary[t] # Torn
  /\ \A t, u \in Threads \ stale : t # u /\ primary[t] # None /\ primary[u] # None =>
       Compatible(primary[t], primary[u])

\* a store that serves has read all its files, and only a fault damages one
SoundUnlessStopped == phase = "open" \/ faults = 0 => stale = {}

IInv ==
  /\ TypeOK /\ GlobalIdentity /\ WriteFits /\ DiskFollowsMemory /\ DiskFits
  /\ SoundUnlessStopped

=============================================================================
