-------------------------- MODULE MappingStoreProofs --------------------------
(***************************************************************************)
(* Theorems about the two parts of the Mapping Store.  Its thread records, *)
(* for any number of threads, requests, sessions, turns, revisions and     *)
(* faults: identities are unique and files load, and what the callers may  *)
(* rely on.  Its process lock, for any number of processes whose starts    *)
(* may overlap: the only way in which an owner loses it, and no refusal    *)
(* because of what a dead process left.                                    *)
(***************************************************************************)
EXTENDS MappingStore, StoreLock, FiniteSetTheorems, TLAPS

\* Which of two records was stored first does not matter to the indexes.
LEMMA CompatibleIsSymmetric ==
  ASSUME NEW r, NEW q
  PROVE  Compatible(r, q) <=> Compatible(q, r)
BY Zenon DEF Compatible

-----------------------------------------------------------------------------
(* Type correctness *)

LEMMA TypeOfInit == Init => TypeOK
BY BoundsAreNaturals, SMT DEF Init, TypeOK, NoRecords

\* The writes that start only move op, to a record the schema accepted.
LEMMA TypeOfStart ==
  ASSUME TypeOK, NEW t \in Threads,
         CreateProvisional(t) \/ Update(t) \/ Remove(t)
  PROVE  TypeOK'
<1>1. CASE CreateProvisional(t)
  BY <1>1 DEF CreateProvisional, TypeOK, Begin, Idle, Writes, Steps
<1>2. CASE Update(t)
  BY <1>2 DEF Update, TypeOK, Begin, Idle, Writes, Steps
<1>3. CASE Remove(t)
  BY <1>3 DEF Remove, TypeOK, Begin, Idle, Writes, Steps
<1>4. QED BY <1>1, <1>2, <1>3

\* The steps of the write in flight put its record, an old primary or
\* nothing into the files and the map.
LEMMA TypeOfWrite ==
  ASSUME TypeOK,
         StartCopy \/ FinishCopy \/ Rename \/ Publish \/ RmPrimary \/ RmBackup
           \/ WriteFails \/ RemoveFails
  PROVE  TypeOK'
<1> USE DEF TypeOK, At, Advance, Writes, Steps
<1>1. op # None /\ op \in Writes BY DEF StartCopy, FinishCopy, Rename, Publish,
                              RmPrimary, RmBackup, WriteFails, RemoveFails
<1>2. CASE StartCopy   BY <1>1, <1>2 DEF StartCopy
<1>3. CASE FinishCopy  BY <1>1, <1>3 DEF FinishCopy
<1>4. CASE Rename      BY <1>1, <1>4 DEF Rename
<1>5. CASE Publish     BY <1>1, <1>5 DEF Publish
<1>6. CASE RmPrimary   BY <1>1, <1>6 DEF RmPrimary
<1>7. CASE RmBackup    BY <1>1, <1>7 DEF RmBackup
<1>8. CASE WriteFails  BY <1>1, <1>8 DEF WriteFails
<1>9. CASE RemoveFails BY <1>1, <1>9, BoundsAreNaturals DEF RemoveFails
<1>10. QED BY <1>2, <1>3, <1>4, <1>5, <1>6, <1>7, <1>8, <1>9

\* Recovery moves records between the files and into the map.
LEMMA TypeOfRecovery ==
  ASSUME TypeOK, NEW t \in Threads,
         LoadPrimary(t) \/ RestoreBackup(t) \/ Quarantine(t) \/ DropProvisional(t)
           \/ DropProvisionalBackup(t) \/ Corrupt(t)
  PROVE  TypeOK'
<1> USE BoundsAreNaturals DEF TypeOK, Holds, Scanned
<1>1. CASE LoadPrimary(t)           BY <1>1 DEF LoadPrimary
<1>2. CASE RestoreBackup(t)         BY <1>2 DEF RestoreBackup
<1>3. CASE Quarantine(t)            BY <1>3 DEF Quarantine
<1>4. CASE DropProvisional(t)       BY <1>4 DEF DropProvisional
<1>5. CASE DropProvisionalBackup(t) BY <1>5 DEF DropProvisionalBackup
<1>6. CASE Corrupt(t)               BY <1>6 DEF Corrupt
<1>7. QED BY <1>1, <1>2, <1>3, <1>4, <1>5, <1>6

LEMMA TypeOfProcess ==
  ASSUME TypeOK, Close \/ Crash \/ StartInitialize \/ FinishInitialize
  PROVE  TypeOK'
<1> USE DEF TypeOK, NoRecords, Idle
<1>1. CASE Close            BY <1>1 DEF Close
<1>2. CASE Crash            BY <1>2 DEF Crash
<1>3. CASE StartInitialize  BY <1>3 DEF StartInitialize
<1>4. CASE FinishInitialize BY <1>4 DEF FinishInitialize
<1>5. QED BY <1>1, <1>2, <1>3, <1>4

LEMMA TypeInductive == TypeOK /\ [Next]_vars => TypeOK'
<1> SUFFICES ASSUME TypeOK, [Next]_vars PROVE TypeOK' OBVIOUS
<1>1. CASE UNCHANGED vars BY <1>1 DEF vars, TypeOK
<1>2. CASE Next BY <1>2, TypeOfStart, TypeOfWrite, TypeOfRecovery, TypeOfProcess DEF Next
<1>3. QED BY <1>1, <1>2

\* Every reachable state has the types of TypeOK: in particular each record
\* on disk and in memory passes the stored-record schema.
THEOREM TypeCorrect == Spec => []TypeOK
BY TypeOfInit, TypeInductive, PTL DEF Spec

-----------------------------------------------------------------------------
(* Identities are unique and the files always load *)

LEMMA SafetyOfInit == Init => IInv
<1> SUFFICES ASSUME Init PROVE IInv OBVIOUS
<1>1. TypeOK BY TypeOfInit
<1>2. /\ GlobalIdentity /\ WriteFits /\ DiskFollowsMemory /\ DiskFits
      /\ SoundUnlessStopped
  BY NoneIsNoData DEF Init, NoRecords, GlobalIdentity, WriteFits, DiskFollowsMemory, DiskFits,
     SoundUnlessStopped
<1>3. QED BY <1>1, <1>2 DEF IInv

\* A write starts only with a record that #validateGlobal accepted.
LEMMA SafetyOfStart ==
  ASSUME IInv, NEW t \in Threads,
         CreateProvisional(t) \/ Update(t) \/ Remove(t)
  PROVE  IInv'
<1>1. TypeOK' BY TypeOfStart DEF IInv
<1>2. UNCHANGED <<phase, records, primary, backup, unscanned, faults, stale>> /\ op = None
  BY DEF CreateProvisional, Update, Remove, Idle
<1>3. WriteFits'
  <2>1. CASE CreateProvisional(t)
    BY <2>1, <1>2 DEF CreateProvisional, WriteFits, Begin, ValidateGlobal
  <2>2. CASE Update(t)
    BY <2>2, <1>2 DEF Update, WriteFits, Begin, ValidateGlobal
  <2>3. CASE Remove(t)
    BY <2>3, <1>2 DEF Remove, WriteFits, Begin
  <2>4. QED BY <2>1, <2>2, <2>3
<1>4. (GlobalIdentity /\ DiskFits /\ SoundUnlessStopped)'
  BY <1>2 DEF IInv, GlobalIdentity, Indexable, DiskFits, SoundUnlessStopped
<1>5. DiskFollowsMemory'
  <2>1. op'.step # "renamed"
    <3>1. CASE CreateProvisional(t) BY <3>1 DEF CreateProvisional, Begin
    <3>2. CASE Update(t) BY <3>2 DEF Update, Begin
    <3>3. CASE Remove(t) BY <3>3 DEF Remove, Begin
    <3>4. QED BY <3>1, <3>2, <3>3
  <2>2. ~At("renamed") /\ ~At("renamed")' BY <1>2, <2>1 DEF At
  <2>3. QED BY <1>2, <2>2 DEF IInv, DiskFollowsMemory
<1>6. QED BY <1>1, <1>3, <1>4, <1>5 DEF IInv

\* The steps that change only the backup, or give up.
LEMMA SafetyOfBackup ==
  ASSUME IInv, StartCopy \/ FinishCopy \/ RmBackup \/ WriteFails \/ RemoveFails
  PROVE  IInv'
<1>1. TypeOK' BY TypeOfWrite DEF IInv
<1>2. /\ UNCHANGED <<phase, records, primary, unscanned, stale>>
      /\ phase = "open" /\ op # None
      /\ faults' = 0 => faults = 0
  <2>1. faults \in Nat BY BoundsAreNaturals DEF IInv, TypeOK
  <2>2. QED BY <2>1 DEF StartCopy, FinishCopy, RmBackup, WriteFails, RemoveFails, At
<1>3. op' = None \/ (op' # None => op'.thread = op.thread /\ op'.next = op.next)
  <2>1. op \in Writes BY <1>2 DEF IInv, TypeOK
  <2>2. QED BY <2>1 DEF StartCopy, FinishCopy, RmBackup, WriteFails, RemoveFails, Advance, Writes
<1>4. (GlobalIdentity /\ DiskFits /\ SoundUnlessStopped)'
  BY <1>2 DEF IInv, GlobalIdentity, Indexable, DiskFits, SoundUnlessStopped
<1>5. WriteFits' BY <1>2, <1>3 DEF IInv, WriteFits
<1>6. DiskFollowsMemory'
  <2>1. op' = None \/ op' = op \/ op' = [op EXCEPT !.step = "copying"]
          \/ op' = [op EXCEPT !.step = "copied"]
    BY DEF StartCopy, FinishCopy, RmBackup, WriteFails, RemoveFails, Advance
  <2>2. ~At("renamed")
    BY DEF StartCopy, FinishCopy, RmBackup, WriteFails, RemoveFails, At
  <2>3. op \in Writes BY <1>2 DEF IInv, TypeOK
  <2>4. ~At("renamed")' BY <2>1, <2>2, <2>3, <1>2 DEF At, Writes
  <2>5. QED BY <1>2, <2>2, <2>4 DEF IInv, DiskFollowsMemory
<1>7. QED BY <1>1, <1>4, <1>5, <1>6 DEF IInv

\* The rename makes durable what fits the records in memory, and the other
\* primaries are those records.
LEMMA SafetyOfRename ==
  ASSUME IInv, Rename
  PROVE  IInv'
<1> DEFINE t == op.thread
<1>1. TypeOK' BY TypeOfWrite DEF IInv
<1>2. /\ UNCHANGED <<phase, records, backup, unscanned, faults, stale>>
      /\ phase = "open" /\ op \in Writes /\ ~At("renamed")
      /\ op' = [op EXCEPT !.step = "renamed"]
      /\ primary' = [primary EXCEPT ![t] = op.next]
  BY DEF IInv, TypeOK, Rename, At, Advance
<1>3. /\ t \in Threads /\ op.next \in GoodRecord \cup {None} /\ op # None
      /\ op'.thread = t /\ op'.next = op.next /\ op'.step = "renamed" /\ op' \in Writes
  BY <1>2, NoRecordIsNoneOrTorn DEF Writes, Steps
<1>4. op' # None BY <1>3, NoRecordIsNoneOrTorn
<1>5. \A u \in Threads \ {t} : primary'[u] = primary[u] /\ primary[u] \in {None, records[u]}
  BY <1>2, <1>3 DEF IInv, TypeOK, DiskFollowsMemory
<1>6. primary'[t] = op.next BY <1>2, <1>3 DEF IInv, TypeOK
<1>7. (GlobalIdentity /\ SoundUnlessStopped)'
  BY <1>2 DEF IInv, GlobalIdentity, Indexable, SoundUnlessStopped
<1>8. WriteFits' BY <1>2, <1>3 DEF IInv, WriteFits
<1>9. DiskFollowsMemory'
  BY <1>2, <1>3, <1>4, <1>5, <1>6 DEF DiskFollowsMemory, At
<1>10. DiskFits'
  <2>1. op.next # Torn
    BY <1>3, NoneIsNoData, NoRecordIsNoneOrTorn DEF GoodRecord
  <2>2. \A u \in Threads \ stale : primary'[u] # Torn
    BY <2>1, <1>5, <1>6 DEF IInv, DiskFits
  <2>3. ASSUME NEW u \in Threads \ {t}, primary'[u] # None, primary'[t] # None
        PROVE  Compatible(primary'[t], primary'[u])
    BY <2>3, <1>3, <1>5, <1>6 DEF IInv, WriteFits
  <2>4. ASSUME NEW u \in Threads \ stale, NEW v \in Threads \ stale,
               u # v, primary'[u] # None, primary'[v] # None
        PROVE  Compatible(primary'[u], primary'[v])
    <3>1. CASE u = t BY <3>1, <2>3, <2>4
    <3>2. CASE v = t BY <3>2, <2>3, <2>4, CompatibleIsSymmetric
    <3>3. CASE u # t /\ v # t BY <3>3, <2>4, <1>5 DEF IInv, DiskFits
    <3>4. QED BY <3>1, <3>2, <3>3
  <2>5. QED BY <1>2, <2>2, <2>4 DEF DiskFits
<1>11. QED BY <1>1, <1>7, <1>8, <1>9, <1>10 DEF IInv

\* The map takes over what the rename made durable.
LEMMA SafetyOfPublish ==
  ASSUME IInv, Publish
  PROVE  IInv'
<1> DEFINE t == op.thread
<1>1. TypeOK' BY TypeOfWrite DEF IInv
<1>2. /\ UNCHANGED <<phase, primary, backup, unscanned, faults, stale>>
      /\ phase = "open" /\ op \in Writes /\ op # None /\ op' = None
      /\ records' = [records EXCEPT ![t] = op.next]
  BY DEF IInv, TypeOK, Publish, At
<1>3. t \in Threads BY <1>2 DEF Writes
<1>4. records'[t] = op.next /\ \A u \in Threads \ {t} : records'[u] = records[u]
  BY <1>2, <1>3 DEF IInv, TypeOK
<1>5. primary[t] = op.next \/ primary[t] = None
  BY <1>2, <1>3 DEF IInv, DiskFollowsMemory, Publish, At
<1>6. GlobalIdentity'
  <2>1. ASSUME NEW u \in Threads \ {t}, records'[u] # None, records'[t] # None
        PROVE  Compatible(records'[t], records'[u])
    BY <2>1, <1>2, <1>4 DEF IInv, WriteFits
  <2>2. ASSUME NEW u \in Threads, NEW v \in Threads,
               u # v, records'[u] # None, records'[v] # None
        PROVE  Compatible(records'[u], records'[v])
    <3>1. CASE u = t BY <3>1, <2>1, <2>2
    <3>2. CASE v = t BY <3>2, <2>1, <2>2, CompatibleIsSymmetric
    <3>3. CASE u # t /\ v # t
      BY <3>3, <2>2, <1>2, <1>4 DEF IInv, GlobalIdentity, Indexable
    <3>4. QED BY <3>1, <3>2, <3>3
  <2>3. QED BY <2>2 DEF GlobalIdentity, Indexable
<1>7. (WriteFits /\ SoundUnlessStopped)'
  BY <1>2 DEF IInv, WriteFits, SoundUnlessStopped
<1>8. DiskFollowsMemory'
  <2>1. \A u \in Threads : primary[u] \in {None, records'[u]}
    BY <1>2, <1>4, <1>5 DEF IInv, DiskFollowsMemory, At
  <2>2. phase' = "open" /\ primary' = primary /\ ~At("renamed")' BY <1>2 DEF At
  <2>3. QED BY <2>1, <2>2 DEF DiskFollowsMemory
<1>9. DiskFits' BY <1>2 DEF IInv, DiskFits
<1>10. QED BY <1>1, <1>6, <1>7, <1>8, <1>9 DEF IInv

\* Removing a primary leaves fewer files to fit together.
LEMMA SafetyOfRmPrimary ==
  ASSUME IInv, RmPrimary
  PROVE  IInv'
<1> DEFINE t == op.thread
<1>1. TypeOK' BY TypeOfWrite DEF IInv
<1>2. /\ UNCHANGED <<phase, records, backup, op, unscanned, faults, stale>>
      /\ phase = "open" /\ op \in Writes
      /\ primary' = [primary EXCEPT ![t] = None]
  BY DEF IInv, TypeOK, RmPrimary, At
<1>3. t \in Threads BY <1>2 DEF Writes
<1>4. \A u \in Threads : primary'[u] \in {None, primary[u]}
  BY <1>2, <1>3 DEF IInv, TypeOK
<1>5. (GlobalIdentity /\ WriteFits /\ SoundUnlessStopped)'
  BY <1>2 DEF IInv, GlobalIdentity, Indexable, WriteFits, SoundUnlessStopped
<1>6. DiskFollowsMemory'
  <2>1. ~At("renamed") /\ ~At("renamed")' BY <1>2 DEF RmPrimary, At
  <2>2. QED BY <1>2, <1>4, <2>1 DEF IInv, DiskFollowsMemory
<1>7. DiskFits'
  BY <1>2, <1>4, NoneIsNoData DEF IInv, DiskFits
<1>8. QED BY <1>1, <1>5, <1>6, <1>7 DEF IInv

\* Recovery: what has been scanned is in memory as it is on disk.
LEMMA SafetyOfRecovery ==
  ASSUME IInv, NEW t \in Threads,
         LoadPrimary(t) \/ RestoreBackup(t) \/ Quarantine(t) \/ DropProvisional(t)
           \/ DropProvisionalBackup(t)
  PROVE  IInv'
<1>1. TypeOK' BY TypeOfRecovery DEF IInv
<1>2. t \in unscanned /\ UNCHANGED <<phase, op>>
  BY DEF LoadPrimary, RestoreBackup, Quarantine, DropProvisional, DropProvisionalBackup
<1>3. phase = "init" /\ op = None /\ records[t] = None
  BY <1>2 DEF IInv, TypeOK, DiskFollowsMemory
<1>4. (GlobalIdentity /\ WriteFits)' BY <1>2, <1>3 DEF GlobalIdentity, WriteFits
<1>5. /\ \A u \in Threads \ {t} : primary'[u] = primary[u] /\ records'[u] = records[u]
      /\ \A u \in Threads \ {t} : u \in unscanned' <=> u \in unscanned
      /\ faults' = 0 => faults = 0
  BY BoundsAreNaturals DEF IInv, TypeOK, LoadPrimary, RestoreBackup, Quarantine,
     DropProvisional, DropProvisionalBackup, Scanned
<1>6. IF t \in unscanned' THEN records'[t] = None ELSE records'[t] = primary'[t]
  BY <1>2, <1>3 DEF IInv, TypeOK, LoadPrimary, RestoreBackup, Quarantine,
     DropProvisional, DropProvisionalBackup, Scanned
<1>7. DiskFollowsMemory'
  BY <1>2, <1>3, <1>5, <1>6 DEF IInv, DiskFollowsMemory
<1>8. DiskFits'
  <2>1. t \notin stale' => primary'[t] \in {None, primary[t]}
    BY <1>5 DEF IInv, TypeOK, DiskFits, LoadPrimary, RestoreBackup, Quarantine,
       DropProvisional, DropProvisionalBackup
  <2>2. stale' = stale \/ (stale' = stale \ {t} /\ primary'[t] = None)
    BY DEF IInv, TypeOK, LoadPrimary, RestoreBackup, Quarantine,
       DropProvisional, DropProvisionalBackup
  <2>3. \A u \in Threads \ stale' :
          primary'[u] = None \/ (u \notin stale /\ primary'[u] = primary[u])
    BY <2>1, <2>2, <1>5
  <2>4. QED BY <2>3, NoneIsNoData DEF IInv, DiskFits
<1>9. SoundUnlessStopped'
  <2>1. stale' \subseteq stale /\ phase' # "open"
    BY <1>2, <1>3 DEF LoadPrimary, RestoreBackup, Quarantine, DropProvisional,
       DropProvisionalBackup
  <2>2. QED BY <2>1, <1>5 DEF IInv, SoundUnlessStopped
<1>10. QED BY <1>1, <1>4, <1>7, <1>8, <1>9 DEF IInv

\* A damaged file spends a fault, and then only initialize() vouches for
\* what the store serves.
LEMMA SafetyOfCorrupt ==
  ASSUME IInv, NEW t \in Threads, Corrupt(t)
  PROVE  IInv'
<1>1. TypeOK' BY TypeOfRecovery DEF IInv
<1>2. phase = "down" /\ op = None /\ UNCHANGED <<phase, op, records>> /\ faults' # 0
  BY BoundsAreNaturals DEF IInv, TypeOK, Corrupt
<1>3. \A u \in Threads \ stale' : u \notin stale /\ primary'[u] = primary[u]
  BY DEF IInv, TypeOK, Corrupt
<1>4. DiskFits' BY <1>3 DEF IInv, DiskFits
<1>5. QED
  BY <1>1, <1>2, <1>4 DEF IInv, GlobalIdentity, WriteFits, DiskFollowsMemory, SoundUnlessStopped

LEMMA SafetyOfProcess ==
  ASSUME IInv, Close \/ Crash \/ StartInitialize \/ FinishInitialize
  PROVE  IInv'
<1>1. TypeOK' BY TypeOfProcess DEF IInv
<1>2. UNCHANGED <<primary, faults>> /\ op' = None
  BY DEF IInv, TypeOK, Close, Crash, StartInitialize, FinishInitialize, Idle
<1>3. WriteFits' BY <1>2 DEF WriteFits
<1>4. GlobalIdentity'
  BY DEF GlobalIdentity, Close, Crash, StartInitialize, FinishInitialize
<1>5. DiskFollowsMemory'
  <2>1. CASE Close BY <2>1 DEF Close, DiskFollowsMemory
  <2>2. CASE Crash BY <2>2 DEF Crash, DiskFollowsMemory
  <2>3. CASE StartInitialize
    BY <2>3 DEF StartInitialize, IInv, DiskFollowsMemory, NoRecords
  <2>4. CASE FinishInitialize
    BY <2>4, <1>2 DEF FinishInitialize, IInv, DiskFollowsMemory, At
  <2>5. QED BY <2>1, <2>2, <2>3, <2>4
<1>6. (DiskFits /\ SoundUnlessStopped)'
  <2>1. CASE UNCHANGED stale /\ phase' # "open"
    BY <2>1, <1>2 DEF IInv, DiskFits, SoundUnlessStopped
  <2>2. CASE ~(UNCHANGED stale /\ phase' # "open")
    \* all files have been read, and they fit together
    <3>1. /\ phase = "init" /\ unscanned = {} /\ stale' = {}
          /\ Indexable(records)
      BY <2>2 DEF Close, Crash, StartInitialize, FinishInitialize
    <3>2. \A t \in Threads : primary'[t] = records[t]
      BY <3>1, <1>2 DEF IInv, DiskFollowsMemory
    <3>3. \A t \in Threads : records[t] # Torn
      BY NoneIsNoData, NoRecordIsNoneOrTorn DEF IInv, TypeOK, GoodRecord
    <3>4. QED BY <3>1, <3>2, <3>3 DEF DiskFits, SoundUnlessStopped, Indexable
  <2>3. QED BY <2>1, <2>2
<1>7. QED BY <1>1, <1>3, <1>4, <1>5, <1>6 DEF IInv

LEMMA SafetyInductive == IInv /\ [Next]_vars => IInv'
<1> SUFFICES ASSUME IInv, [Next]_vars PROVE IInv' OBVIOUS
<1>1. CASE UNCHANGED vars
  BY <1>1 DEF vars, IInv, TypeOK, GlobalIdentity, Indexable, WriteFits,
     DiskFollowsMemory, At, DiskFits, SoundUnlessStopped
<1>2. CASE Next
  BY <1>2, SafetyOfStart, SafetyOfBackup, SafetyOfRename, SafetyOfPublish,
     SafetyOfRmPrimary, SafetyOfRecovery, SafetyOfCorrupt, SafetyOfProcess DEF Next
<1>3. QED BY <1>1, <1>2

THEOREM InvariantHolds == Spec => []IInv
BY SafetyOfInit, SafetyInductive, PTL DEF Spec

\* While the store serves, no two threads share a create request, a native
\* session, a host turn or a native turn, even after disk faults.
THEOREM IdentitiesAreUnique == Spec => []GlobalIdentity
<1>1. IInv => GlobalIdentity BY DEF IInv
<1>2. QED BY <1>1, InvariantHolds, PTL

\* A crash at any step leaves files that initialize() can index, whatever the
\* disk did to others: only a record that had to be read from a backup can clash.
THEOREM RestartAlwaysLoads == Spec => []RestartNeverFails
<1>1. IInv => RestartNeverFails
  <2> SUFFICES ASSUME IInv, NEW t \in Threads \ stale, NEW u \in Threads \ stale, t # u,
                      Recovered(t) # None, Recovered(u) # None
               PROVE  Compatible(Recovered(t), Recovered(u))
    BY DEF RestartNeverFails
  <2>1. Recovered(t) = primary[t] /\ Recovered(u) = primary[u]
    BY DEF IInv, DiskFits, Recovered
  <2>2. QED BY <2>1 DEF IInv, DiskFits
<1>2. QED BY <1>1, InvariantHolds, PTL

-----------------------------------------------------------------------------
(* Memory is what a restart finds, a turn keeps its identity, and as long as
   the disk works the store is the registry of AtomicStore *)

\* the write of this thread has changed its files, and memory does not show it yet
Ahead(t) == op # None /\ op.thread = t /\ op.step \in {"renamed", "removing"}

\* a change keeps the host turn of every native turn the record had
SameHosts(r, old) == old # None =>
  \A m \in MappingsOf(r), n \in MappingsOf(old) : NativeKey(m) = NativeKey(n) => m.host = n.host

\* apart from the write under way, memory is what the files hold
Synchronous == phase = "open" => \A t \in Threads :
  Ahead(t) \/ primary[t] = records[t] \/ (faults > 0 /\ primary[t] = None)

\* the write under way makes the next revision of the record in memory, or removes it
OpFollows == op # None =>
  LET old == records[op.thread]
  IN  IF op.step = "removing"
        THEN op.next = None /\ old # None
        ELSE op.next # None /\ Registry!Successor(old, op.next) /\ SameHosts(op.next, old)

RInv == IInv /\ Synchronous /\ OpFollows

-----------------------------------------------------------------------------
(* Changes *)

\* a change is what one of the operations makes of the record
LEMMA ChangeKinds ==
  ASSUME NEW r, NEW changed \in Changes(r)
  PROVE  \/ \E s \in Sessions, ms \in MappingLists : \/ changed \in CommitReady(r, s, ms)
                                                     \/ changed \in ReplaceReadySession(r, s, ms)
                                                     \/ changed \in ReplaceReadySessionAfterLastTurn(r, s, ms)
         \/ \E m \in Mapping : changed \in UpsertTurnMappings(r, <<m>>)
         \/ \E ms \in MappingLists : changed \in ReconcileTurnMappings(r, ms)
         \/ \E l \in Labels : changed \in SetTitle(r, l) \/ changed \in SetMetadata(r, l)
<1> DEFINE Commits == {CommitReady(r, x, ms) : x \in Sessions,
                         ms \in {l \in MappingLists : Injective(l)}}
           Upserts == {UpsertTurnMappings(r, <<m>>) : m \in Mapping}
           Reconciles == {ReconcileTurnMappings(r, ms) : ms \in MappingLists}
           Replaces == {ReplaceReadySession(r, x, ms) : x \in Sessions, ms \in MappingLists}
           Shortens == {ReplaceReadySessionAfterLastTurn(r, x, ms) :
                          x \in Sessions, ms \in MappingLists}
           Titles == {SetTitle(r, l) : l \in Labels}
           Metadata == {SetMetadata(r, l) : l \in Labels}
<1>1. Changes(r) = UNION (Commits \cup Upserts \cup Reconciles \cup Replaces
                            \cup Shortens \cup Titles \cup Metadata)
  BY DEF Changes
<1>2. PICK set : /\ changed \in set
                 /\ \/ set \in Commits \/ set \in Upserts \/ set \in Reconciles
                    \/ set \in Replaces \/ set \in Shortens \/ set \in Titles \/ set \in Metadata
  <2> HIDE DEF Commits, Upserts, Reconciles, Replaces, Shortens, Titles, Metadata
  <2> QED
    BY <1>1
<1>3. CASE set \in Commits
  BY <1>2, <1>3
<1>4. CASE set \in Upserts
  BY <1>2, <1>4
<1>5. CASE set \in Reconciles
  BY <1>2, <1>5
<1>6. CASE set \in Replaces
  BY <1>2, <1>6
<1>7. CASE set \in Shortens
  BY <1>2, <1>7
<1>8. CASE set \in Titles
  BY <1>2, <1>8
<1>9. CASE set \in Metadata
  BY <1>2, <1>9
<1> QED
  BY <1>2, <1>3, <1>4, <1>5, <1>6, <1>7, <1>8, <1>9

\* whatever an operation computes, it is the record of the same request
LEMMA ChangesKeepRequest ==
  ASSUME NEW r \in Record, NEW changed \in Changes(r)
  PROVE  changed.req = r.req /\ DOMAIN changed = DOMAIN r
<1>1. ASSUME NEW s, NEW ms, NEW l,
             \/ changed \in CommitReady(r, s, ms) \/ changed \in ReplaceReadySession(r, s, ms)
             \/ changed \in ReplaceReadySessionAfterLastTurn(r, s, ms)
             \/ changed \in UpsertTurnMappings(r, ms) \/ changed \in ReconcileTurnMappings(r, ms)
             \/ changed \in SetTitle(r, l) \/ changed \in SetMetadata(r, l)
      PROVE  changed.req = r.req /\ DOMAIN changed = DOMAIN r
  BY <1>1 DEF CommitReady, ReplaceReadySession, ReplaceReadySessionAfterLastTurn,
     UpsertTurnMappings, ReconcileTurnMappings, SetTitle, SetMetadata, Record
<1> QED
  BY <1>1, ChangeKinds

-----------------------------------------------------------------------------
(* The invariant *)

LEMMA RInvOfInit == Init => RInv
<1> SUFFICES ASSUME Init PROVE RInv OBVIOUS
<1>1. IInv BY SafetyOfInit
<1>2. Synchronous /\ OpFollows BY DEF Init, Synchronous, OpFollows
<1> QED BY <1>1, <1>2 DEF RInv

\* A create makes the first revision of a record memory does not have, an
\* update the next one of the record it was computed from.
LEMMA StartFollows ==
  ASSUME RInv, NEW t \in Threads, CreateProvisional(t) \/ Update(t) \/ Remove(t)
  PROVE  OpFollows'
<1>1. records' = records BY DEF CreateProvisional, Update, Remove
<1>2. CASE CreateProvisional(t)
  <2>1. PICK r \in GoodRecord : /\ r.state = "creating" /\ r.rev = 1
                                /\ op' = [thread |-> t, next |-> r, step |-> "temp"]
    BY <1>2 DEF CreateProvisional, Begin
  <2>2. r # None /\ records[t] = None
    BY <1>2, NoRecordIsNoneOrTorn DEF GoodRecord, CreateProvisional
  <2>3. Registry!Successor(None, r) BY <2>1 DEF Registry!Successor
  <2> QED BY <1>1, <2>1, <2>2, <2>3 DEF OpFollows, SameHosts
<1>3. CASE Update(t)
  <2>1. records[t] # None /\ records[t] \in Record
    BY <1>3 DEF Update, RInv, IInv, TypeOK, GoodRecord
  <2>2. PICK changed \in Changes(records[t]) :
          LET r == [changed EXCEPT !.rev = records[t].rev + 1]
          IN  /\ r \in GoodRecord /\ ValidateGlobal(r, t)
              /\ Begin(t, r, "temp")
    BY <1>3 DEF Update
  <2> DEFINE r == [changed EXCEPT !.rev = records[t].rev + 1]
  <2>3. changed.req = records[t].req /\ DOMAIN changed = DOMAIN records[t]
    BY <2>1, <2>2, ChangesKeepRequest
  <2>4. r.rev = records[t].rev + 1 /\ r.req = records[t].req
    BY <2>1, <2>3 DEF Record
  <2>5. r # None /\ SameHosts(r, records[t])
    BY <2>2, NoRecordIsNoneOrTorn DEF GoodRecord, ValidateGlobal, SameHosts
  <2>6. op' = [thread |-> t, next |-> r, step |-> "temp"] BY <2>2 DEF Begin
  <2>7. Registry!Successor(records[t], r) BY <2>1, <2>4 DEF Registry!Successor
  <2> HIDE DEF r
  <2> QED BY <1>1, <2>5, <2>6, <2>7 DEF OpFollows
<1>4. CASE Remove(t) BY <1>1, <1>4 DEF Remove, Begin, OpFollows
<1> QED BY <1>2, <1>3, <1>4

\* The steps of a write leave alone what it writes.
LEMMA WriteFollows ==
  ASSUME RInv, StartCopy \/ FinishCopy \/ Rename \/ RmPrimary \/ RmBackup
  PROVE  OpFollows'
<1>1. op # None /\ op \in Writes /\ records' = records
  BY DEF RInv, IInv, TypeOK, StartCopy, FinishCopy, Rename, RmPrimary, RmBackup, At
<1>2. CASE op' = op BY <1>1, <1>2 DEF RInv, OpFollows, SameHosts
<1>3. CASE op' # op
  <2>1. /\ op.step # "removing"
        /\ op' = [op EXCEPT !.step = "copying"] \/ op' = [op EXCEPT !.step = "copied"]
             \/ op' = [op EXCEPT !.step = "renamed"]
    BY <1>3 DEF StartCopy, FinishCopy, Rename, RmPrimary, RmBackup, At, Advance
  <2>2. op'.thread = op.thread /\ op'.next = op.next /\ op'.step # "removing"
    BY <1>1, <2>1 DEF Writes
  <2> QED BY <1>1, <2>1, <2>2 DEF RInv, OpFollows, SameHosts
<1> QED BY <1>2, <1>3

LEMMA OpFollowsInductive ==
  ASSUME RInv, Next
  PROVE  OpFollows'
<1>1. ASSUME NEW t \in Threads, CreateProvisional(t) \/ Update(t) \/ Remove(t)
      PROVE  OpFollows'
  BY <1>1, StartFollows
<1>2. CASE StartCopy \/ FinishCopy \/ Rename \/ RmPrimary \/ RmBackup BY <1>2, WriteFollows
<1>3. CASE Publish \/ WriteFails \/ RemoveFails \/ Close \/ Crash
  BY <1>3 DEF Publish, WriteFails, RemoveFails, Close, Crash, Idle, OpFollows
<1>4. ASSUME NEW t \in Threads,
             LoadPrimary(t) \/ RestoreBackup(t) \/ Quarantine(t) \/ DropProvisional(t)
               \/ DropProvisionalBackup(t) \/ Corrupt(t)
      PROVE  OpFollows'
  <2>1. phase # "open" /\ op' = op
    BY <1>4 DEF RInv, IInv, TypeOK, LoadPrimary, RestoreBackup, Quarantine,
       DropProvisional, DropProvisionalBackup, Corrupt
  <2> QED BY <2>1 DEF RInv, IInv, TypeOK, OpFollows
<1>5. CASE StartInitialize \/ FinishInitialize
  BY <1>5 DEF RInv, IInv, TypeOK, StartInitialize, FinishInitialize, OpFollows
<1> QED BY <1>1, <1>2, <1>3, <1>4, <1>5 DEF Next

\* While no write is past its rename, memory and files stay equal; a
\* removal that fails halfway has spent a fault.
LEMMA SynchronousInductive ==
  ASSUME RInv, Next
  PROVE  Synchronous'
<1> USE DEF Ahead
<1>1. TypeOK /\ DiskFollowsMemory BY DEF RInv, IInv
<1>2. ASSUME NEW t \in Threads, CreateProvisional(t) \/ Update(t) \/ Remove(t)
      PROVE  Synchronous'
  BY <1>2 DEF RInv, Synchronous, CreateProvisional, Update, Remove, Idle
<1>3. CASE StartCopy \/ FinishCopy
  <2>1. /\ op \in Writes /\ op.step \in {"temp", "copying"} /\ op # None
        /\ UNCHANGED <<phase, records, primary, faults>>
    BY <1>1, <1>3 DEF TypeOK, StartCopy, FinishCopy, At
  <2> QED BY <2>1 DEF RInv, Synchronous
<1>4. CASE Rename
  <2>1. /\ op \in Writes /\ op' = [op EXCEPT !.step = "renamed"]
        /\ op.step \in {"temp", "copied"} /\ op # None
        /\ primary' = [primary EXCEPT ![op.thread] = op.next]
        /\ UNCHANGED <<phase, records, faults>>
    BY <1>1, <1>4 DEF TypeOK, Rename, At, Advance
  <2>2. op' \in Writes /\ op'.thread = op.thread /\ op'.step = "renamed"
    BY <2>1 DEF Writes, Steps
  <2>3. op' # None BY <2>2, NoRecordIsNoneOrTorn
  <2>4. \A t \in Threads : t # op.thread => primary'[t] = primary[t]
    BY <1>1, <2>1 DEF TypeOK
  <2> QED BY <2>1, <2>2, <2>3, <2>4 DEF RInv, Synchronous
<1>5. CASE Publish
  <2>1. /\ op \in Writes /\ op # None /\ phase = "open"
        /\ records' = [records EXCEPT ![op.thread] = op.next]
        /\ UNCHANGED <<phase, primary, faults>>
    BY <1>1, <1>5 DEF TypeOK, Publish, At
  <2>2. op.thread \in Threads BY <2>1 DEF Writes
  <2>3. primary[op.thread] = op.next
    BY <1>1, <1>5, <2>1, <2>2 DEF RInv, OpFollows, DiskFollowsMemory, Publish, At
  <2>4. \A t \in Threads : records'[t] = IF t = op.thread THEN op.next ELSE records[t]
    BY <1>1, <2>1, <2>2 DEF TypeOK
  <2>5. \A t \in Threads : primary[t] = records'[t] \/ (faults > 0 /\ primary[t] = None)
    BY <2>1, <2>3, <2>4 DEF RInv, Synchronous
  <2> QED BY <2>1, <2>5 DEF Synchronous
<1>6. CASE RmPrimary
  <2>1. /\ op \in Writes /\ op # None /\ op.step = "removing"
        /\ primary' = [primary EXCEPT ![op.thread] = None]
        /\ UNCHANGED <<phase, records, faults, op>>
    BY <1>1, <1>6 DEF TypeOK, RmPrimary, At
  <2>2. \A t \in Threads : t # op.thread => primary'[t] = primary[t]
    BY <1>1, <2>1 DEF TypeOK
  <2> QED BY <2>1, <2>2 DEF RInv, Synchronous
<1>7. CASE RmBackup BY <1>7 DEF RInv, Synchronous, RmBackup
<1>8. CASE WriteFails
  <2>1. /\ op.step \in {"temp", "copying", "copied"}
        /\ UNCHANGED <<phase, records, primary, faults>>
    BY <1>8 DEF WriteFails, At
  <2> QED BY <2>1 DEF RInv, Synchronous
<1>9. CASE RemoveFails
  <2>1. /\ op # None /\ op.step = "removing" /\ faults' = faults + 1 /\ faults \in Nat
        /\ phase = "open" /\ UNCHANGED <<phase, records, primary>>
    BY <1>1, <1>9, BoundsAreNaturals DEF TypeOK, RemoveFails, At
  <2>2. \A t \in Threads : primary[t] \in {None, records[t]}
    BY <1>1, <2>1 DEF DiskFollowsMemory, At
  <2>3. faults' > 0 BY <2>1
  <2> QED BY <2>1, <2>2, <2>3 DEF Synchronous
<1>10. ASSUME NEW t \in Threads,
              LoadPrimary(t) \/ RestoreBackup(t) \/ Quarantine(t) \/ DropProvisional(t)
                \/ DropProvisionalBackup(t) \/ Corrupt(t)
       PROVE  Synchronous'
  BY <1>1, <1>10 DEF TypeOK, Synchronous, LoadPrimary, RestoreBackup, Quarantine,
     DropProvisional, DropProvisionalBackup, Corrupt
<1>11. CASE Close \/ Crash \/ StartInitialize
  BY <1>11 DEF Close, Crash, StartInitialize, Synchronous
<1>12. CASE FinishInitialize
  <2>1. \A t \in Threads : records[t] = primary[t]
    BY <1>1, <1>12 DEF DiskFollowsMemory, FinishInitialize
  <2>2. phase' = "open" => records' = records /\ primary' = primary
    BY <1>12 DEF FinishInitialize
  <2> QED BY <2>1, <2>2 DEF Synchronous
<1> QED BY <1>2, <1>3, <1>4, <1>5, <1>6, <1>7, <1>8, <1>9, <1>10, <1>11, <1>12 DEF Next

LEMMA RInvInductive == RInv /\ [Next]_vars => RInv'
<1> SUFFICES ASSUME RInv, [Next]_vars PROVE RInv' OBVIOUS
<1>1. IInv' BY SafetyInductive DEF RInv
<1>2. CASE Next BY <1>1, <1>2, OpFollowsInductive, SynchronousInductive DEF RInv
<1>3. CASE UNCHANGED vars
  BY <1>1, <1>3 DEF RInv, vars, Synchronous, Ahead, OpFollows, SameHosts
<1> QED BY <1>2, <1>3

LEMMA RInvHolds == Spec => []RInv
BY RInvOfInit, RInvInductive, PTL DEF Spec

-----------------------------------------------------------------------------
(* What callers may rely on *)

\* Between writes memory is what a restart finds, except for a removal that
\* a failing disk left half done.
THEOREM MemoryIsOnDisk == Spec => []MemoryIsDurable
<1>1. RInv => MemoryIsDurable
  BY DEF RInv, Synchronous, MemoryIsDurable, Idle, Ahead
<1> QED BY <1>1, RInvHolds, PTL

\* The native turns of one record have one host turn each
LEMMA OneHostPerTurn ==
  ASSUME NEW r \in GoodRecord, NEW m \in MappingsOf(r), NEW n \in MappingsOf(r),
         NativeKey(m) = NativeKey(n)
  PROVE  m.host = n.host
BY DEF GoodRecord, SchemaOK, Injective, MappingsOf

\* the primary of a thread changes from one record to another only by the rename
\* of a write, which was computed from it
LEMMA OnlyRenameReplaces ==
  ASSUME RInv, Next, NEW t \in Threads, Holds(primary[t]), Holds(primary'[t]),
         primary'[t] # primary[t]
  PROVE  op # None /\ op.thread = t /\ primary'[t] = op.next /\ primary[t] = records[t]
           /\ op.step # "removing"
<1>1. TypeOK BY DEF RInv, IInv
<1>2. Rename /\ op.thread = t
  <2>1. ~RmPrimary /\ \A u \in Threads :
          ~RestoreBackup(u) /\ ~Quarantine(u) /\ ~DropProvisional(u) /\ ~Corrupt(u)
    BY <1>1 DEF TypeOK, Holds, RmPrimary, RestoreBackup, Quarantine, DropProvisional, Corrupt
  <2>2. primary' = primary \/ Rename
    BY <2>1 DEF Next, CreateProvisional, Update, Remove, LoadPrimary,
       DropProvisionalBackup, StartCopy, FinishCopy, Publish, RmBackup, WriteFails,
       RemoveFails, Close, Crash, StartInitialize, FinishInitialize
  <2> QED BY <1>1, <2>2 DEF TypeOK, Rename
<1>3. /\ op # None /\ op.step \in {"temp", "copied"} /\ phase = "open"
      /\ primary'[t] = op.next
  BY <1>1, <1>2 DEF TypeOK, Rename, At
<1>4. primary[t] = records[t]
  BY <1>2, <1>3 DEF RInv, IInv, DiskFollowsMemory, At, Holds
<1> QED BY <1>2, <1>3, <1>4

LEMMA StepKeepsIdentity ==
  ASSUME RInv, Next, NEW t \in Threads, Holds(primary[t]), Holds(primary'[t]),
         NEW m \in MappingsOf(primary[t]), NEW n \in MappingsOf(primary'[t]),
         NativeKey(m) = NativeKey(n)
  PROVE  m.host = n.host
<1>1. primary[t] \in GoodRecord BY DEF RInv, IInv, TypeOK, Holds
<1>2. CASE primary'[t] = primary[t] BY <1>1, <1>2, OneHostPerTurn
<1>3. CASE primary'[t] # primary[t]
  <2>1. SameHosts(op.next, records[t]) /\ primary'[t] = op.next /\ primary[t] = records[t]
    BY <1>3, OnlyRenameReplaces DEF RInv, OpFollows
  <2> QED BY <2>1 DEF SameHosts, Holds
<1> QED BY <1>2, <1>3

\* A thread keeps the host turn of a native turn for as long as it keeps
\* the native turn, in memory, on disk and over restarts.
THEOREM TurnsKeepTheirIdentity == Spec => TurnIdentityIsStable
<1> DEFINE Stable == \A t \in Threads :
      Holds(primary[t]) /\ Holds(primary'[t]) =>
        \A m \in MappingsOf(primary[t]), n \in MappingsOf(primary'[t]) :
          NativeKey(m) = NativeKey(n) => m.host = n.host
<1>1. RInv /\ Next => Stable BY StepKeepsIdentity
<1>2. RInv /\ [Next]_vars => [Stable]_primary BY <1>1 DEF vars
<1> QED BY <1>2, RInvHolds, PTL DEF Spec, TurnIdentityIsStable

-----------------------------------------------------------------------------
(* A rollback shows a prefix *)

LEMMA FirstOfBoth ==
  ASSUME NEW S, NEW s \in Seq(S), s # <<>>, NEW t, NEW T, s \o t \in Seq(T)
  PROVE  (s \o t)[1] = s[1] /\ 1 \in DOMAIN (s \o t) /\ 1 \in DOMAIN s
OBVIOUS

\* a change of a ready thread that shows turns: to another native session only
\* with fewer turns, under the same host turns
KeepsTurns(new, old) ==
  old # None /\ old.state = "ready" /\ new.state = "ready" /\ old.sess # new.sess /\ old.turns # <<>>
    => HostPrefix(new.turns, old.turns) /\ Len(new.turns) < Len(old.turns)

\* a second commit keeps the session: the mappings it merges into are of that one
LEMMA CommitKeepsSession ==
  ASSUME NEW r \in GoodRecord, r.state = "ready", r.turns # <<>>, NEW s \in Sessions, NEW ms,
         NEW changed \in CommitReady(r, s, ms), NEW n, [changed EXCEPT !.rev = n] \in GoodRecord
  PROVE  changed.sess = r.sess
<1> DEFINE next == [changed EXCEPT !.rev = n]
           Updates(m) == {x \in {ms[j] : j \in DOMAIN ms} : SameTurn(m, x)}
           Filled(m) == IF m.chk = None /\ Updates(m) # {} THEN CHOOSE x \in Updates(m) : TRUE ELSE m
           IsNew(x)  == \A i \in DOMAIN r.turns : ~SameTurn(r.turns[i], x)
           cur == [i \in DOMAIN r.turns |-> Filled(r.turns[i])]
<1>1. r \in Record /\ SchemaOK(r) /\ r.turns \in Seq(Mapping) /\ next \in Record /\ SchemaOK(next)
  BY DEF GoodRecord, Record
<1>2. changed = [r EXCEPT !.state = "ready", !.sess = s, !.turns = Merge(r.turns, ms)]
  BY DEF CommitReady
<1>3. changed.sess = s /\ next.sess = s /\ next.turns = Merge(r.turns, ms)
  BY <1>1, <1>2 DEF Record
<1>4. Merge(r.turns, ms) = cur \o SelectSeq(ms, IsNew)
  BY DEF Merge
<1>5. \A m : Filled(m).sess = m.sess
  <2> TAKE m
  <2>1. CASE m.chk = None /\ Updates(m) # {}
    <3>1. PICK x : x = Filled(m) /\ x \in Updates(m)
      BY <2>1
    <3> QED
      BY <3>1 DEF SameTurn, NativeKey
  <2>2. CASE ~(m.chk = None /\ Updates(m) # {})
    BY <2>2
  <2> QED
    BY <2>1, <2>2
<1> HIDE DEF Filled
<1>6. /\ cur \in Seq({Filled(m) : m \in Mapping}) /\ cur # <<>>
      /\ 1 \in DOMAIN r.turns /\ cur[1] = Filled(r.turns[1])
  <2>1. /\ Len(r.turns) \in Nat /\ DOMAIN r.turns = 1..Len(r.turns) /\ Len(r.turns) # 0
        /\ \A i \in DOMAIN r.turns : r.turns[i] \in Mapping
    BY <1>1
  <2>2. cur \in Seq({Filled(m) : m \in Mapping}) /\ DOMAIN cur = DOMAIN r.turns
    BY <2>1
  <2> QED
    BY <2>1, <2>2
<1>7. next.turns \in Seq(Mapping)
  BY <1>1 DEF Record
<1> HIDE DEF cur, next, IsNew
<1>8. 1 \in DOMAIN next.turns /\ next.turns[1] = cur[1]
  BY <1>3, <1>4, <1>6, <1>7, FirstOfBoth
<1>9. next.turns[1].sess = s
  BY <1>1, <1>3, <1>8, NoneIsNoData DEF SchemaOK, MappingsOf
<1>10. r.turns[1].sess = r.sess
  BY <1>1, <1>6 DEF SchemaOK, MappingsOf
<1> QED
  BY <1>3, <1>5, <1>6, <1>8, <1>9, <1>10

LEMMA ChangesKeepTurns ==
  ASSUME NEW r \in GoodRecord, NEW changed \in Changes(r), NEW n,
         [changed EXCEPT !.rev = n] \in GoodRecord
  PROVE  KeepsTurns([changed EXCEPT !.rev = n], r)
<1> DEFINE next == [changed EXCEPT !.rev = n]
<1> SUFFICES ASSUME r.state = "ready", r.sess # next.sess, r.turns # <<>>
             PROVE  HostPrefix(next.turns, r.turns) /\ Len(next.turns) < Len(r.turns)
  BY DEF KeepsTurns
<1>1. r \in Record /\ r.turns \in Seq(Mapping)
  BY DEF GoodRecord, Record
<1>2. DOMAIN changed = DOMAIN r
  BY <1>1, ChangesKeepRequest
<1>3. next.sess = changed.sess /\ next.turns = changed.turns
  BY <1>1, <1>2 DEF Record
<1>4. ASSUME NEW s \in Sessions, NEW ms, changed \in CommitReady(r, s, ms) PROVE FALSE
  BY <1>3, <1>4, CommitKeepsSession
<1>5. ASSUME NEW s \in Sessions, NEW ms \in MappingLists,
             \/ changed \in ReplaceReadySession(r, s, ms)
             \/ changed \in ReplaceReadySessionAfterLastTurn(r, s, ms)
      PROVE  HostPrefix(next.turns, r.turns) /\ Len(next.turns) < Len(r.turns)
  <2>1. changed.turns = ms /\ HostPrefix(ms, r.turns)
          /\ (Len(ms) < Len(r.turns) \/ Len(ms) + 1 = Len(r.turns))
    BY <1>1, <1>5 DEF ReplaceReadySession, ReplaceReadySessionAfterLastTurn, Record
  <2>2. Len(ms) \in Nat /\ Len(r.turns) \in Nat
    <3>1. PICK k \in Nat : ms \in [1..k -> Mapping]
      BY BoundsAreNaturals DEF MappingLists
    <3> QED
      BY <1>1, <3>1
  <2> QED
    BY <1>3, <2>1, <2>2
<1>6. ASSUME NEW ms, NEW l, \/ changed \in UpsertTurnMappings(r, ms)
                            \/ changed \in ReconcileTurnMappings(r, ms)
                            \/ changed \in SetTitle(r, l) \/ changed \in SetMetadata(r, l)
      PROVE  FALSE
  <2>1. changed.sess = r.sess
    BY <1>1, <1>6 DEF UpsertTurnMappings, ReconcileTurnMappings, SetTitle, SetMetadata, Record
  <2> QED
    BY <1>3, <2>1
<1> QED
  BY <1>4, <1>5, <1>6, ChangeKinds

\* the write under way keeps the turns of a ready thread
WriteKeepsTurns == op # None /\ op.next # None => KeepsTurns(op.next, records[op.thread])

LEMMA WriteKeepsTurnsInductive ==
  ASSUME RInv, WriteKeepsTurns, [Next]_vars
  PROVE  WriteKeepsTurns'
<1>1. TypeOK
  BY DEF RInv, IInv
<1>2. ASSUME NEW t \in Threads, CreateProvisional(t) PROVE WriteKeepsTurns'
  <2>1. op'.next.state = "creating"
    BY <1>2 DEF CreateProvisional, Begin
  <2> QED
    BY <2>1 DEF WriteKeepsTurns, KeepsTurns
<1>3. ASSUME NEW t \in Threads, Update(t) PROVE WriteKeepsTurns'
  <2>1. records[t] \in GoodRecord
    BY <1>1, <1>3 DEF Update, TypeOK
  <2>2. PICK changed \in Changes(records[t]) :
          /\ [changed EXCEPT !.rev = records[t].rev + 1] \in GoodRecord
          /\ Begin(t, [changed EXCEPT !.rev = records[t].rev + 1], "temp")
    BY <1>3 DEF Update
  <2>3. op'.thread = t /\ op'.next = [changed EXCEPT !.rev = records[t].rev + 1] /\ records' = records
    BY <1>3, <2>2 DEF Begin, Update
  <2>4. KeepsTurns(op'.next, records[t])
    BY <2>1, <2>2, <2>3, ChangesKeepTurns
  <2> QED
    BY <2>3, <2>4 DEF WriteKeepsTurns
<1>4. ASSUME NEW t \in Threads, Remove(t) PROVE WriteKeepsTurns'
  BY <1>4 DEF Remove, Begin, WriteKeepsTurns
<1>5. CASE StartCopy \/ FinishCopy \/ Rename \/ RmPrimary \/ RmBackup
  <2>1. op \in Writes /\ op # None /\ records' = records
    BY <1>1, <1>5 DEF TypeOK, StartCopy, FinishCopy, Rename, RmPrimary, RmBackup, At
  <2>2. op'.thread = op.thread /\ op'.next = op.next
    BY <1>5, <2>1 DEF StartCopy, FinishCopy, Rename, RmPrimary, RmBackup, Advance, Writes
  <2> QED
    BY <2>1, <2>2 DEF WriteKeepsTurns
<1>6. CASE op' = None
  BY <1>6 DEF WriteKeepsTurns
<1>7. CASE op = None /\ op' = op
  BY <1>7 DEF WriteKeepsTurns
<1>8. CASE UNCHANGED vars
  BY <1>8 DEF vars, WriteKeepsTurns, KeepsTurns
<1>9. ASSUME NEW t \in Threads,
             LoadPrimary(t) \/ RestoreBackup(t) \/ Quarantine(t) \/ DropProvisional(t)
               \/ DropProvisionalBackup(t) \/ Corrupt(t)
      PROVE  op = None /\ op' = op
  BY <1>1, <1>9 DEF TypeOK, LoadPrimary, RestoreBackup, Quarantine, DropProvisional,
     DropProvisionalBackup, Corrupt
<1>10. CASE Close \/ Crash \/ StartInitialize \/ FinishInitialize
  BY <1>1, <1>6, <1>7, <1>10 DEF TypeOK, Close, Idle, Crash, StartInitialize, FinishInitialize
<1>11. CASE Publish \/ WriteFails \/ RemoveFails
  BY <1>6, <1>11 DEF Publish, WriteFails, RemoveFails
<1> QED
  BY <1>2, <1>3, <1>4, <1>5, <1>7, <1>8, <1>9, <1>10, <1>11 DEF Next

LEMMA WriteKeepsTurnsHolds == Spec => []WriteKeepsTurns
<1>1. Init => WriteKeepsTurns
  BY DEF Init, WriteKeepsTurns
<1> QED
  BY <1>1, RInvHolds, WriteKeepsTurnsInductive, PTL DEF Spec

\* A ready thread that comes to another native session shows a prefix of the
\* turns it had, also when a commit, a reconciliation or a restart comes between:
\* of the operations only the two replacements change the session of a record
\* with turns (mapping-store.ts), because a commit merges into mappings that the
\* schema ties to the old one.
THEOREM RollbackShowsAPrefix == Spec => RollbackKeepsPrefix
<1> DEFINE Prefix == \A t \in Threads :
      LET old == primary[t]
          new == primary'[t]
      IN  Holds(old) /\ Holds(new) /\ old.state = "ready" /\ new.state = "ready"
            /\ old.sess # new.sess /\ old.turns # <<>>
          => HostPrefix(new.turns, old.turns) /\ Len(new.turns) < Len(old.turns)
<1>1. ASSUME RInv, WriteKeepsTurns, Next PROVE Prefix
  <2> SUFFICES ASSUME NEW t \in Threads, Holds(primary[t]), Holds(primary'[t]),
                      primary[t].state = "ready", primary'[t].state = "ready",
                      primary[t].sess # primary'[t].sess, primary[t].turns # <<>>
               PROVE  HostPrefix(primary'[t].turns, primary[t].turns)
                        /\ Len(primary'[t].turns) < Len(primary[t].turns)
    OBVIOUS
  <2>1. op # None /\ op.thread = t /\ primary'[t] = op.next /\ primary[t] = records[t]
    BY <1>1, OnlyRenameReplaces
  <2>2. KeepsTurns(op.next, records[t])
    BY <1>1, <2>1 DEF WriteKeepsTurns, Holds
  <2> QED BY <2>1, <2>2 DEF KeepsTurns, Holds
<1>2. RInv /\ WriteKeepsTurns /\ [Next]_vars => [Prefix]_primary BY <1>1 DEF vars
<1> QED BY <1>2, RInvHolds, WriteKeepsTurnsHolds, PTL DEF Spec, RollbackKeepsPrefix

-----------------------------------------------------------------------------
(* The store is the registry of AtomicStore *)

LEMMA InitMaps == Init => Registry!Init
BY NoneIsNoData DEF Init, NoRecords, Durable, Registry!Init, Registry!Nothing

\* A rename persists the next revision, the publication and the scan reveal
\* it, the removal of a primary erases it, and the end of a process stops
\* the registry; every other step changes neither files nor memory.
LEMMA StepMaps ==
  ASSUME MaxFaults = 0, RInv, RInv', Next
  PROVE  [Registry!Next]_<<[t \in Threads |-> Durable(t)], records>>
<1> DEFINE d == [t \in Threads |-> Durable(t)]
<1>1. /\ TypeOK /\ DiskFollowsMemory /\ Synchronous /\ OpFollows
      /\ faults = 0 /\ stale = {} /\ stale' = {}
  BY DEF RInv, IInv, TypeOK, SoundUnlessStopped
<1>2. /\ \A t \in Threads : primary[t] # Torn
      /\ primary \in [Threads -> GoodRecord \cup {None, Torn}]
      /\ records \in [Threads -> GoodRecord \cup {None}]
  BY <1>1 DEF RInv, IInv, DiskFits, TypeOK
<1>3. /\ \A t \in Threads : primary'[t] # Torn
      /\ primary' \in [Threads -> GoodRecord \cup {None, Torn}]
  BY <1>1 DEF RInv, IInv, DiskFits, TypeOK
<1>4. d = primary BY <1>2 DEF Durable
<1>5. d' = primary' BY <1>3 DEF Durable
<1> HIDE DEF d
<1>6. CASE Rename
  <2>1. /\ op # None /\ op \in Writes /\ op.step \in {"temp", "copied"} /\ phase = "open"
        /\ primary' = [primary EXCEPT ![op.thread] = op.next] /\ records' = records
    BY <1>1, <1>6 DEF TypeOK, Rename, At
  <2>2. op.thread \in Threads BY <2>1 DEF Writes
  <2>3. /\ op.next # None /\ Registry!Successor(records[op.thread], op.next)
        /\ primary[op.thread] = records[op.thread]
    BY <1>1, <2>1, <2>2 DEF OpFollows, Synchronous, Ahead
  <2>4. primary'[op.thread] = op.next BY <1>2, <2>1, <2>2
  <2>5. Registry!Persist(op.thread, d'[op.thread])
    BY <1>4, <1>5, <2>1, <2>3, <2>4 DEF Registry!Persist, d
  <2> QED BY <1>5, <2>2, <2>3, <2>4, <2>5 DEF Registry!Next, d
<1>7. CASE Publish
  <2>1. /\ op # None /\ op \in Writes /\ phase = "open" /\ primary' = primary
        /\ records' = [records EXCEPT ![op.thread] = op.next]
    BY <1>1, <1>7 DEF TypeOK, Publish, At
  <2>2. op.thread \in Threads BY <2>1 DEF Writes
  <2>3. primary[op.thread] = op.next
    BY <1>1, <1>7, <2>1, <2>2 DEF OpFollows, DiskFollowsMemory, Publish, At
  <2>4. Registry!Reveal(op.thread)
    BY <1>4, <1>5, <2>1, <2>3 DEF Registry!Reveal, d
  <2> QED BY <2>2, <2>4 DEF Registry!Next, d
<1>8. CASE RmPrimary
  <2>1. /\ op # None /\ op \in Writes /\ op.step = "removing" /\ records' = records
        /\ primary' = [primary EXCEPT ![op.thread] = None]
    BY <1>1, <1>8 DEF TypeOK, RmPrimary, At
  <2>2. op.thread \in Threads BY <2>1 DEF Writes
  <2>3. records[op.thread] # None BY <1>1, <2>1 DEF OpFollows
  <2>4. Registry!Erase(op.thread)
    BY <1>4, <1>5, <2>1, <2>3 DEF Registry!Erase, d
  <2> QED BY <2>2, <2>4 DEF Registry!Next, d
<1>9. ASSUME NEW t \in Threads, LoadPrimary(t) PROVE Registry!Next
  <2>1. Registry!Reveal(t)
    BY <1>4, <1>5, <1>9 DEF LoadPrimary, Registry!Reveal, d
  <2> QED BY <2>1 DEF Registry!Next, d
<1>10. ASSUME NEW t \in Threads, DropProvisional(t) PROVE Registry!Next
  <2>1. Registry!Erase(t)
    BY <1>4, <1>5, <1>10 DEF DropProvisional, Provisional, Holds, Registry!Erase, d
  <2> QED BY <2>1 DEF Registry!Next, d
<1>11. CASE Close \/ Crash
  <2>1. Registry!Stop
    BY <1>4, <1>5, <1>11 DEF Close, Crash, NoRecords, Registry!Stop, Registry!Nothing, d
  <2> QED BY <2>1 DEF Registry!Next
<1>12. CASE FinishInitialize
  <2>1. primary' = primary /\ (records' = records \/ records' = NoRecords)
    BY <1>12 DEF FinishInitialize
  <2>2. CASE records' = NoRecords
    <3>1. Registry!Stop
      BY <1>4, <1>5, <2>1, <2>2 DEF NoRecords, Registry!Stop, Registry!Nothing, d
    <3> QED BY <3>1 DEF Registry!Next
  <2> QED BY <1>4, <1>5, <2>1, <2>2 DEF d
<1>13. ~RemoveFails /\ \A t \in Threads : ~RestoreBackup(t) /\ ~Quarantine(t) /\ ~Corrupt(t)
  BY <1>1, <1>2 DEF RemoveFails, RestoreBackup, Quarantine, Corrupt
<1>14. \/ Rename \/ Publish \/ RmPrimary \/ Close \/ Crash \/ FinishInitialize
       \/ \E t \in Threads : LoadPrimary(t) \/ DropProvisional(t)
       \/ primary' = primary /\ records' = records
  BY <1>13 DEF Next, CreateProvisional, Update, Remove, DropProvisionalBackup,
     StartCopy, FinishCopy, RmBackup, WriteFails, StartInitialize
<1> QED
  BY <1>4, <1>5, <1>6, <1>7, <1>8, <1>9, <1>10, <1>11, <1>12, <1>14 DEF d

\* As long as the disk works, a client sees the registry of AtomicStore:
\* whole revisions, durable in one step and visible only afterwards.
THEOREM StoreIsAtomic == ASSUME MaxFaults = 0 PROVE Spec => ImplementsAtomicStore
<1>1. RInv /\ RInv' /\ [Next]_vars
        => [Registry!Next]_<<[t \in Threads |-> Durable(t)], records>>
  BY StepMaps DEF vars, Durable
<1> QED
  BY <1>1, InitMaps, RInvHolds, PTL DEF Spec, ImplementsAtomicStore, Registry!Spec, Registry!avars

-----------------------------------------------------------------------------
(* The process lock *)

LEMMA LockInitInductive == LockInit => LockIInv
BY LockAssumption
   DEF LockInit, LockIInv, LockTypeOK, PC, WritersOwned, OwnersWrote, HoldersHaveTheLock,
       ReadersSawStale, Readers, HasFile, Owners

LEMMA LockStepInductive ==
  ASSUME LockIInv, [LockNext]_lockVars
  PROVE  LockIInv'
<1> USE LockAssumption
        DEF Goto, LockIInv, LockTypeOK, PC, WritersOwned, OwnersWrote, HoldersHaveTheLock,
            ReadersSawStale, Readers, HasFile, Owners
<1>1. ASSUME NEW i \in Processes, Start(i) PROVE LockIInv'
  BY <1>1 DEF Start
<1>2. ASSUME NEW i \in Processes, WriteRecord(i) PROVE LockIInv'
  BY <1>2 DEF WriteRecord
<1>3. ASSUME NEW i \in Processes, WriteRecordFails(i) PROVE LockIInv'
  BY <1>3 DEF WriteRecordFails
<1>4. ASSUME NEW i \in Processes, ReadLock(i) PROVE LockIInv'
  \* a lock in use whose record is there refuses the start
  BY <1>4 DEF ReadLock, LockOwnerIsLive, Running
<1>5. ASSUME NEW i \in Processes, RenameStale(i) PROVE LockIInv'
  BY <1>5 DEF RenameStale
<1>6. ASSUME NEW i \in Processes, Retry(i) PROVE LockIInv'
  BY <1>6 DEF Retry
<1>7. ASSUME NEW i \in Processes, CloseReads(i) PROVE LockIInv'
  BY <1>7 DEF CloseReads
<1>8. ASSUME NEW i \in Processes, CloseRemoves(i) PROVE LockIInv'
  BY <1>8 DEF CloseRemoves
<1>9. ASSUME NEW i \in Processes, Die(i) PROVE LockIInv'
  BY <1>9 DEF Die, Running
<1>10. ASSUME NEW i \in Processes, ReusePid(i) PROVE LockIInv'
  BY <1>10 DEF ReusePid
<1>11. CASE UNCHANGED lockVars
  BY <1>11 DEF lockVars
<1> QED
  BY <1>1, <1>2, <1>3, <1>4, <1>5, <1>6, <1>7, <1>8, <1>9, <1>10, <1>11
     DEF LockNext, Acquire

\* The inductive invariant, for every set of processes and any number of
\* starts that overlap.
THEOREM LockInvariant == LockSpec => []LockIInv
<1>1. LockIInv /\ [LockNext]_lockVars => LockIInv'
  BY LockStepInductive
<1> QED
  BY <1>1, LockInitInductive, PTL DEF LockSpec

\* One live writer per directory (mapping-store.ts 806-845), however starts
\* overlap and whatever processes crash, fail to write their lock or close a
\* store they were refused - as long as no start has renamed away a lock file in
\* use that it had read without its record.
THEOREM OneOwner == LockSpec => []AtMostOneOwner
<1>1. LockIInv => AtMostOneOwner
  <2> SUFFICES ASSUME LockIInv, ~robbed PROVE Cardinality(Owners) <= 1
    BY DEF AtMostOneOwner
  <2>1. Owners \subseteq {lock}
    BY DEF LockIInv, HoldersHaveTheLock, HasFile, Owners
  <2>2. IsFiniteSet({lock}) /\ Cardinality({lock}) = 1
    BY FS_Singleton
  <2>3. Cardinality(Owners) <= Cardinality({lock})
    BY <2>1, <2>2, FS_Subset
  <2> QED
    BY <2>2, <2>3
<1> QED
  BY <1>1, LockInvariant, PTL

\* The lock file of a live owner is taken away by such a rename only: no other
\* start, retry, failed write, crash or close does it.
THEOREM LockIsKept == LockSpec => []OwnerKeepsItsLock
<1>1. LockIInv => OwnerKeepsItsLock
  BY DEF LockIInv, HoldersHaveTheLock, HasFile, OwnerKeepsItsLock, Owners
<1> QED
  BY <1>1, LockInvariant, PTL

\* A start is refused at the lock it finds only for the sake of a process that
\* owns the store: no crash, at whatever step, leaves a lock behind that keeps
\* the next start out, nor does a pid that names another program by now - where
\* the identity of the process is compared (lockOwnerIsLive), and however many
\* starts overlap.
THEOREM NoStaleLockRefuses ==
  ASSUME IdentityIsChecked
  PROVE  LockSpec => RefusedOnlyByALiveOwner
<1> DEFINE Refused == \A i \in Processes : pc[i] = "read" /\ pc'[i] = "refused" => Owners # {}
<1>1. ASSUME LockTypeOK, WritersOwned, LockNext PROVE Refused
  <2> SUFFICES ASSUME NEW i \in Processes, pc[i] = "read", pc'[i] = "refused"
               PROVE  Owners # {}
    OBVIOUS
  <2>1. ReadLock(i)
    BY <1>1 DEF LockNext, Acquire, Start, WriteRecord, WriteRecordFails, ReadLock, RenameStale, Retry,
       CloseReads, CloseRemoves, Die, ReusePid, Running, Goto, LockTypeOK
  <2>2. lock \in written /\ Running(lock)
    BY <1>1, <2>1 DEF ReadLock, Goto, LockTypeOK, LockOwnerIsLive
  <2> QED
    BY <1>1, <2>2 DEF LockTypeOK, WritersOwned, Running, Owners
<1>2. LockIInv /\ [LockNext]_lockVars => [Refused]_lockVars
  BY <1>1 DEF LockIInv
<1> QED
  BY <1>2, LockInvariant, PTL DEF LockSpec, RefusedOnlyByALiveOwner
=============================================================================
