------------------------------ MODULE Delegations ------------------------------
(***************************************************************************)
(* Delegation of a task to an external Harness: start(), read() and the    *)
(* rollback of harness-delegation-coordinator.ts with the delegation       *)
(* records of mapping-store.ts (createDelegation, setDelegationStatus,     *)
(* removeDelegation, #rebuildIndexes).                                     *)
(*                                                                         *)
(* One call of start() creates at most one child thread and one            *)
(* delegation, whose ids are fresh, so the call names both; which of the   *)
(* unused names a start takes makes no difference.  An action runs from    *)
(* one await to the next.  Thread records are written as one step, which   *)
(* is what MappingStore shows of them; delegation files are replaced       *)
(* outside the store's queue, so their writes overlap.  #rebuildIndexes    *)
(* clears the indexes first: when it throws, they hold what it reached,    *)
(* and the change that called it has already been made.                    *)
(*                                                                         *)
(* Any await may end in an error.  The rollback ignores the errors of its  *)
(* own steps, and nothing keeps a caller from repeating a request while    *)
(* the first start runs, or a child from reporting while it is taken back. *)
(* Three history variables record where that leads: `left`, what a start   *)
(* could not take back; `revived`, relations a status write brought back   *)
(* after their removal; `raced`, starts whose lookup ran while another one *)
(* with the same request or task had not written its relation yet.         *)
(*                                                                         *)
(* Bounds: MaxWrites caps the status writes in flight besides those of     *)
(* start(), MaxCrashes the restarts, MaxLeft the rollback's steps that     *)
(* fail.                                                                   *)
(***************************************************************************)
EXTENDS Naturals, Sequences, FiniteSets, SequencesExt

CONSTANTS
  Calls, Requests, Tasks, None,
  Terminal,  \* the terminal statuses: completed, failed, interrupted
  MaxWrites, MaxCrashes, MaxLeft

ASSUME DelegationAssumption ==
  /\ None \notin Requests \cup Calls \cup Terminal \cup {"creating", "running", "ready"}
  /\ IsFiniteSet(Calls) /\ Tasks # {}
  /\ MaxWrites \in Nat /\ MaxCrashes \in Nat /\ MaxLeft \in Nat

VARIABLES
  pc,       \* where each start() is
  req,      \* its request id, None when the caller gave none
  task,     \* what taskDigest tells apart: text, cwd, model, thinking option
  mine,     \* the thread record createProvisional answered with
  known,    \* calls whose local variable `delegation` is set
  record,   \* child thread records: None, "creating" or "ready"
  sessions, \* children whose session is open
  runtime,  \* #externalRuntime: None or what the last turn of the thread did
  dels,     \* #delegations: status by delegation, None when absent
  order,    \* the insertion order of #delegations
  files,    \* delegations/<id>.json
  indexed,  \* delegations in #delegationRequests and #delegationChildren
  bound,    \* threads in #createRequests
  recent,   \* delegations younger than IMPLICIT_DEDUPLICATION_MS
  writes,   \* setDelegationStatus calls whose file write is in flight
  up,       \* the store is initialized
  crashes,
  left,     \* history: <<call, part>> that a failed start left behind
  revived,  \* history: relations that came back after their removal
  raced     \* history: starts that looked for a duplicate at the same time

callVars  == <<req, task, mine>>
storeVars == <<dels, order, files, indexed, bound, recent>>
history == <<left, revived, raced>>
vars == <<pc, callVars, known, record, sessions, runtime, storeVars, writes, up, crashes,
                 history>>

Status == {"creating", "running"} \cup Terminal

Active == {"create", "file", "open", "commit", "turn", "await", "status", "write",
           "cleanup", "undelegate", "unthread"}
Ended == {"refused", "answered", "started", "failed", "lost", "deleted"}

Goto(i, l) == pc' = [pc EXCEPT ![i] = l]

-----------------------------------------------------------------------------
(* #rebuildIndexes *)

SameRequest(c, d) == req[c] # None /\ req[c] = req[d]

Clashes(ord, n) == \E k \in 1..(n - 1) : SameRequest(ord[k], ord[n])

ClashFree(ord) == \A n \in DOMAIN ord : ~Clashes(ord, n)

\* mutant: the request index stays empty after it was cleared
ReachedNothing(ord) == {}

\* the delegations it registers before it throws on a duplicated request
Reached(ord) == {ord[n] : n \in {m \in DOMAIN ord : \A k \in 1..m : ~Clashes(ord, k)}}

Unbound(S) == \A c, d \in S : c # d => ~SameRequest(c, d)

Stored(recs) == {c \in Calls : recs[c] # None}

RebuildSucceeds(ord, recs) == ClashFree(ord) /\ Unbound(Stored(recs))

\* the threads come after the delegations; of two threads with the same
\* request the one first in the map is registered
RebuildIndexes(ord, recs) ==
  /\ indexed' = Reached(ord)
  /\ IF ~ClashFree(ord) THEN bound' = {}
     ELSE IF Unbound(Stored(recs)) THEN bound' = Stored(recs)
     ELSE bound' \in {S \in SUBSET Stored(recs) : Unbound(S)}

SetRecord(c, state) ==
  /\ record' = [record EXCEPT ![c] = state]
  /\ RebuildIndexes(order, [record EXCEPT ![c] = state])

\* #delegations.set: a key that is there keeps its place
SetDelegation(c, status) ==
  LET ord == IF dels[c] = None THEN Append(order, c) ELSE order
  IN  /\ dels' = [dels EXCEPT ![c] = status]
      /\ files' = [files EXCEPT ![c] = status]
      /\ order' = ord
      /\ RebuildIndexes(ord, record)

DeleteDelegation(c) ==
  LET ord == IF dels[c] = None THEN order
             ELSE RemoveAt(order, CHOOSE n \in DOMAIN order : order[n] = c)
  IN  /\ dels' = [dels EXCEPT ![c] = None]
      /\ files' = [files EXCEPT ![c] = None]
      /\ order' = ord
      /\ RebuildIndexes(ord, record)

-----------------------------------------------------------------------------
(* start() *)

\* mutant: only a caller's request id is looked up
DuplicatesByRequest(r, t) == {d \in indexed : r # None /\ req[d] = r}

\* findDelegationByRequest goes through the index, findRecentDelegation
\* through the delegations and their digests
Duplicates(r, t) ==
  IF r # None THEN {d \in indexed : req[d] = r}
              ELSE {d \in recent : dels[d] # None /\ task[d] = t}

\* the starts that have passed the lookup for the same request, or for the
\* same task where one of the two has no request, and whose relation is
\* still to come
Racing(r, t) == {j \in Calls :
  /\ pc[j] \in {"create", "file"}
  /\ (r # None /\ req[j] = r) \/ ((r = None \/ req[j] = None) /\ task[j] = t)}

\* the lookup: a duplicate answers, the same request for another task is
\* refused, otherwise the child is created
Begin(i) ==
  /\ up /\ pc[i] = "new" /\ i = CHOOSE j \in Calls : pc[j] = "new"
  /\ \E r \in Requests \cup {None}, t \in Tasks :
       /\ IF Duplicates(r, t) = {}
            THEN /\ req' = [req EXCEPT ![i] = r]
                 /\ task' = [task EXCEPT ![i] = t]
                 /\ Goto(i, "create") /\ UNCHANGED mine
                 /\ raced' = IF Racing(r, t) = {} THEN raced ELSE raced \cup Racing(r, t) \cup {i}
            ELSE /\ UNCHANGED <<req, task, raced>>
                 /\ \E d \in Duplicates(r, t) :
                      IF task[d] = t
                        THEN Goto(i, "answered") /\ mine' = [mine EXCEPT ![i] = d]
                        ELSE Goto(i, "refused") /\ UNCHANGED mine
  /\ UNCHANGED <<known, record, sessions, runtime, storeVars, writes, up, crashes, left, revived>>

\* createProvisional answers a known create request with its record.  The
\* checks of createDelegation follow without an await on anything.
CreateThread(i) ==
  /\ pc[i] = "create"
  /\ LET requestTaken == \E d \in indexed : SameRequest(i, d)
         next == IF requestTaken THEN "cleanup" ELSE "file"
         hits == {c \in bound : SameRequest(i, c)}
     IN  IF hits # {}
           THEN /\ \E c \in hits : mine' = [mine EXCEPT ![i] = c]
                /\ Goto(i, next)
                /\ UNCHANGED <<record, indexed, bound>>
           ELSE /\ SetRecord(i, "creating")
                /\ mine' = [mine EXCEPT ![i] = i]
                \* it throws before the try block: nothing is rolled back
                /\ Goto(i, IF RebuildSucceeds(order, record') THEN next ELSE "refused")
  /\ UNCHANGED <<req, task, known, sessions, runtime, dels, order, files, recent,
                 writes, up, crashes, history>>

\* the file of the record could not be written
CreateThreadFails(i) ==
  /\ pc[i] = "create"
  /\ \A c \in bound : ~SameRequest(i, c)
  /\ Goto(i, "refused")
  /\ UNCHANGED <<callVars, known, record, sessions, runtime, storeVars, writes, up, crashes,
                 history>>

\* the rest of createDelegation: the file, the map, the indexes.  When they
\* throw, start() does not know of the relation and will not remove it.
WriteDelegation(i) ==
  /\ pc[i] = "file"
  /\ SetDelegation(i, "creating")
  /\ recent' = recent \cup {i}
  /\ IF RebuildSucceeds(order', record)
       THEN Goto(i, "open") /\ known' = known \cup {i} /\ UNCHANGED left
       ELSE Goto(i, "cleanup") /\ left' = left \cup {<<i, "relation">>} /\ UNCHANGED known
  /\ UNCHANGED <<callVars, record, sessions, runtime, writes, up, crashes, revived, raced>>

WriteDelegationFails(i) ==
  /\ pc[i] = "file"
  /\ Goto(i, "cleanup")
  /\ UNCHANGED <<callVars, known, record, sessions, runtime, storeVars, writes, up, crashes,
                 history>>

\* adapter.open fails, or opens a session that knows its native thread
\* already, or one that reports it later
Open(i) ==
  /\ pc[i] = "open"
  /\ \/ Goto(i, "cleanup") /\ UNCHANGED <<sessions, runtime>>
     \/ /\ sessions' = sessions \cup {i}
        /\ \/ Goto(i, "commit") /\ UNCHANGED runtime
           \/ /\ Goto(i, "turn")
              /\ runtime' = [runtime EXCEPT ![mine[i]] = "running"]
  /\ UNCHANGED <<callVars, known, record, storeVars, writes, up, crashes, history>>

\* commitNative, which fails without a record; then the thread is registered and its turn submitted
Commit(i) ==
  /\ pc[i] = "commit"
  /\ \/ Goto(i, "cleanup") /\ UNCHANGED <<record, indexed, bound, runtime>>
     \/ /\ record[mine[i]] # None
        /\ SetRecord(mine[i], "ready")
        /\ IF RebuildSucceeds(order, record')
             THEN /\ Goto(i, "turn")
                  /\ runtime' = [runtime EXCEPT ![mine[i]] = "running"]
             ELSE Goto(i, "cleanup") /\ UNCHANGED runtime
  /\ UNCHANGED <<callVars, known, sessions, dels, order, files, recent, writes, up, crashes,
                 history>>

\* mutant: nobody waits for the native identity
StartTurnWithoutNative(i) ==
  /\ pc[i] = "turn"
  /\ \/ Goto(i, "status") /\ UNCHANGED runtime
     \/ Goto(i, "cleanup") /\ runtime' = [runtime EXCEPT ![mine[i]] = "creating"]
  /\ UNCHANGED <<callVars, known, record, sessions, storeVars, writes, up, crashes, history>>

\* execute(turn.start) is accepted, or rejected and the turn forgotten
StartTurn(i) ==
  /\ pc[i] = "turn"
  /\ \/ /\ Goto(i, IF record[mine[i]] = "ready" THEN "status" ELSE "await")
        /\ UNCHANGED runtime
     \/ /\ Goto(i, "cleanup")
        /\ runtime' = [runtime EXCEPT ![mine[i]] = "creating"]
  /\ UNCHANGED <<callVars, known, record, sessions, storeVars, writes, up, crashes, history>>

\* mutant: waitForChange has no deadline
AwaitNativeForever(i) ==
  /\ pc[i] = "await" /\ record[mine[i]] = "ready"
  /\ Goto(i, "status")
  /\ UNCHANGED <<callVars, known, record, sessions, runtime, storeVars, writes, up, crashes,
                 history>>

\* the native identity arrived, or NATIVE_REF_TIMEOUT_MS passed
AwaitNative(i) ==
  /\ pc[i] = "await"
  /\ \/ record[mine[i]] = "ready" /\ Goto(i, "status")
     \/ Goto(i, "cleanup")
  /\ UNCHANGED <<callVars, known, record, sessions, runtime, storeVars, writes, up, crashes,
                 history>>

\* setDelegationStatus up to its file write: an equal status and a terminal
\* one write nothing
Ignores(c, status) ==
  dels[c] = status \/ (dels[c] \in Terminal /\ status \notin Terminal)

SetRunning(i) ==
  /\ pc[i] = "status"
  /\ IF dels[i] = None THEN Goto(i, "cleanup") /\ UNCHANGED writes
     ELSE IF Ignores(i, "running") THEN Goto(i, "started") /\ UNCHANGED writes
     ELSE /\ Goto(i, "write")
          /\ writes' = writes \cup {[del |-> i, status |-> "running", by |-> "start"]}
  /\ UNCHANGED <<callVars, known, record, sessions, runtime, storeVars, up, crashes, history>>

\* the rest of setDelegationStatus, for the start or for a reader.  The map
\* is set without a look at what happened to the delegation since.
FinishWrite(w) ==
  /\ w \in writes
  /\ writes' = writes \ {w}
  /\ SetDelegation(w.del, w.status)
  /\ revived' = IF dels[w.del] = None THEN revived \cup {w.del} ELSE revived
  /\ IF w.by = "start"
       THEN Goto(w.del, IF RebuildSucceeds(order', record) THEN "started" ELSE "cleanup")
       ELSE UNCHANGED pc
  /\ UNCHANGED <<callVars, known, record, sessions, runtime, recent, up, crashes, left, raced>>

\* the file of the relation could not be written
WriteFails(w) ==
  /\ w \in writes
  /\ writes' = writes \ {w}
  /\ IF w.by = "start" THEN Goto(w.del, "cleanup") ELSE UNCHANGED pc
  /\ UNCHANGED <<callVars, known, record, sessions, runtime, storeVars, up, crashes, history>>

-----------------------------------------------------------------------------
(* the catch block of start() *)

\* (each step goes on to the next when it fails)

CloseSession(i) ==
  /\ pc[i] = "cleanup"
  /\ \/ /\ sessions' = sessions \ {i}
        /\ UNCHANGED left
     \/ /\ i \in sessions /\ Cardinality(left) < MaxLeft /\ UNCHANGED sessions
        /\ left' = left \cup {<<i, "session">>}
  /\ runtime' = [runtime EXCEPT ![i] = None]
  /\ Goto(i, IF i \in known THEN "undelegate" ELSE "unthread")
  /\ UNCHANGED <<callVars, known, record, storeVars, writes, up, crashes, revived, raced>>

\* an exception of #rebuildIndexes comes after the removal
RemoveDelegation(i) ==
  /\ pc[i] = "undelegate"
  /\ DeleteDelegation(i)
  /\ Goto(i, "unthread")
  /\ UNCHANGED <<callVars, known, record, sessions, runtime, recent, writes, up, crashes, history>>

RemoveDelegationFails(i) ==
  /\ pc[i] = "undelegate" /\ Cardinality(left) < MaxLeft
  /\ left' = left \cup {<<i, "relation">>}
  /\ Goto(i, "unthread")
  /\ UNCHANGED <<callVars, known, record, sessions, runtime, storeVars, writes, up, crashes,
                 revived, raced>>

\* mutant: a record that got its native session stays
RemoveProvisional(i) ==
  /\ pc[i] = "unthread"
  /\ IF record[i] # "creating" THEN UNCHANGED <<record, indexed, bound>> ELSE SetRecord(i, None)
  /\ Goto(i, "failed")
  /\ UNCHANGED <<callVars, known, sessions, runtime, dels, order, files, recent, writes,
                 up, crashes, history>>

RemoveThread(i) ==
  /\ pc[i] = "unthread"
  /\ IF record[i] = None THEN UNCHANGED <<record, indexed, bound>> ELSE SetRecord(i, None)
  /\ Goto(i, "failed")
  /\ UNCHANGED <<callVars, known, sessions, runtime, dels, order, files, recent, writes,
                 up, crashes, history>>

\* the store keeps the record until its files are gone
RemoveThreadFails(i) ==
  /\ pc[i] = "unthread" /\ record[i] # None /\ Cardinality(left) < MaxLeft
  /\ left' = left \cup {<<i, "record">>}
  /\ Goto(i, "failed")
  /\ UNCHANGED <<callVars, known, record, sessions, runtime, storeVars, writes, up, crashes,
                 revived, raced>>

-----------------------------------------------------------------------------
(* the child thread and its readers *)

\* a state event of the session brings the native identity
PersistNative(c) ==
  /\ up /\ runtime[c] # None /\ record[c] = "creating"
  /\ SetRecord(c, "ready")
  /\ UNCHANGED <<pc, callVars, known, sessions, runtime, dels, order, files, recent,
                 writes, up, crashes, history>>

\* a status write of a reader or of a finished turn
Writing(c, status) ==
  /\ Cardinality({w \in writes : w.by # "start"}) < MaxWrites
  /\ writes' = writes \cup {[del |-> c, status |-> status, by |-> "other"]}

\* turn.completed, which a closing session reports too: the status of the
\* relation is written before the turn is announced
TurnEnds(c) ==
  /\ runtime[c] = "running"
  /\ \E s \in Terminal :
       /\ runtime' = [runtime EXCEPT ![c] = s]
       /\ IF c \notin indexed \/ Ignores(c, s) THEN UNCHANGED writes ELSE Writing(c, s)
  /\ UNCHANGED <<pc, callVars, known, record, sessions, storeVars, up, crashes, history>>

\* send(): the next turn of a child
Send(c) ==
  /\ pc[c] = "started" /\ runtime[c] \in Terminal
  /\ runtime' = [runtime EXCEPT ![c] = "running"]
  /\ UNCHANGED <<pc, callVars, known, record, sessions, storeVars, writes, up, crashes, history>>

\* resolve() after a restart: the history says how the last turn ended, and
\* "creating" when there is none
Resolve(c) ==
  /\ up /\ runtime[c] = None /\ record[c] = "ready" /\ pc[c] \in {"started", "lost", "failed"}
  /\ \E s \in Terminal \cup {"creating"} : runtime' = [runtime EXCEPT ![c] = s]
  /\ UNCHANGED <<pc, callVars, known, record, sessions, storeVars, writes, up, crashes, history>>

\* read() and wait(): statusFromThread becomes the status of the delegation
Read(c) ==
  /\ up /\ runtime[c] # None /\ c \in indexed /\ pc[c] \in {"started", "lost", "failed"}
  /\ ~Ignores(c, runtime[c])
  /\ Writing(c, runtime[c])
  /\ UNCHANGED <<pc, callVars, known, record, sessions, runtime, storeVars, up, crashes, history>>

\* thread/delete of the Desktop, which lists the child once its start is over
DeleteThread(c) ==
  /\ up /\ pc[c] \in {"started", "lost", "failed"} /\ record[c] = "ready"
  /\ SetRecord(c, None)
  /\ runtime' = [runtime EXCEPT ![c] = None]
  /\ sessions' = IF runtime[c] = None THEN sessions ELSE sessions \ {c}
  /\ Goto(c, "deleted")
  /\ UNCHANGED <<callVars, known, dels, order, files, recent, writes, up, crashes, history>>

\* the window of a delegation ends; only a lookup to come can tell
Expire(c) ==
  /\ c \in recent /\ \E i \in Calls : pc[i] = "new"
  /\ recent' = recent \ {c}
  /\ UNCHANGED <<pc, callVars, known, record, sessions, runtime, dels, order, files,
                 indexed, bound, writes, up, crashes, history>>

\* the process ends and initialize() loads the files: provisional threads
\* are dropped, delegations are taken as they are
Restart ==
  /\ crashes < MaxCrashes
  /\ crashes' = crashes + 1
  /\ pc' = [i \in Calls |-> IF pc[i] \in Active THEN "lost" ELSE pc[i]]
  /\ sessions' = {}
  /\ runtime' = [i \in Calls |-> None]
  /\ record' = [i \in Calls |-> IF record[i] = "creating" THEN None ELSE record[i]]
  /\ dels' = files
  /\ order' = SetToSeq({c \in Calls : files[c] # None})
  /\ RebuildIndexes(order', record')
  /\ up' = RebuildSucceeds(order', record')
  /\ writes' = {} /\ known' = {}
  /\ UNCHANGED <<callVars, files, recent, history>>

-----------------------------------------------------------------------------
Init ==
  /\ pc = [i \in Calls |-> "new"]
  /\ req = [i \in Calls |-> None]
  /\ task = [i \in Calls |-> CHOOSE t \in Tasks : TRUE]
  /\ mine = [i \in Calls |-> i] /\ known = {}
  /\ record = [i \in Calls |-> None] /\ sessions = {}
  /\ runtime = [i \in Calls |-> None]
  /\ dels = [i \in Calls |-> None] /\ order = <<>> /\ files = [i \in Calls |-> None]
  /\ indexed = {} /\ bound = {} /\ recent = {} /\ writes = {}
  /\ up = TRUE /\ crashes = 0
  /\ left = {} /\ revived = {} /\ raced = {}

StepOfStart(i) ==
  \/ Begin(i) \/ CreateThread(i) \/ CreateThreadFails(i)
  \/ WriteDelegation(i) \/ WriteDelegationFails(i)
  \/ Open(i) \/ Commit(i) \/ StartTurn(i) \/ AwaitNative(i) \/ SetRunning(i)
  \/ CloseSession(i) \/ RemoveDelegation(i) \/ RemoveDelegationFails(i)
  \/ RemoveThread(i) \/ RemoveThreadFails(i)

Next ==
  \/ \E i \in Calls :
       \/ StepOfStart(i)
       \/ PersistNative(i) \/ TurnEnds(i) \/ Send(i) \/ Resolve(i) \/ Read(i)
       \/ DeleteThread(i) \/ Expire(i)
  \/ \E w \in writes : FinishWrite(w) \/ WriteFails(w)
  \/ Restart

Spec == Init /\ [][Next]_vars

\* what is under way for the starts goes on: a continuation or a file write
WorkOfStarts ==
  \/ \E i \in Calls : pc[i] # "new" /\ StepOfStart(i)
  \/ \E w \in writes : w.by = "start" /\ (FinishWrite(w) \/ WriteFails(w))

FairSpec == Spec /\ WF_vars(WorkOfStarts)

-----------------------------------------------------------------------------
(* Properties *)

\* The delegations, their order and the indexes stay within the calls; an
\* index never holds more than the map it was rebuilt from.
TypeOK ==
  /\ pc \in [Calls -> {"new"} \cup Active \cup Ended]
  /\ req \in [Calls -> Requests \cup {None}] /\ task \in [Calls -> Tasks]
  /\ mine \in [Calls -> Calls] /\ known \subseteq Calls
  /\ record \in [Calls -> {None, "creating", "ready"}]
  /\ sessions \subseteq Calls
  /\ runtime \in [Calls -> Status \cup {None}]
  /\ dels \in [Calls -> Status \cup {None}]
  /\ files \in [Calls -> Status \cup {None}]
  /\ indexed \subseteq {c \in Calls : dels[c] # None}
  /\ {c \in Calls : dels[c] # None} = {order[n] : n \in DOMAIN order}
  /\ bound \subseteq Stored(record) /\ recent \subseteq Calls
  /\ \A w \in writes : w.del \in Calls /\ w.status \in Status
  /\ up \in BOOLEAN /\ crashes \in 0..MaxCrashes
  /\ left \subseteq Calls \X {"session", "relation", "record"}
  /\ revived \subseteq Calls /\ raced \subseteq {i \in Calls : pc[i] # "new"}

\* a step of the rollback of c failed
Left(c, part) == <<c, part>> \in left

\* createProvisional handed the record of c to another start
Handed(c) == \E i \in Calls \ {c} : mine[i] = c /\ pc[i] # "answered"

\* A start that failed leaves no child behind, at whatever step it failed
\* (openspec/changes/add-cross-harness-delegation/specs/cross-harness-
\* delegation/spec.md:87-90): a step of the rollback that fails leaves what
\* it was to remove and no other part.  Its relation may also come back with
\* a late status write, and its runtime entry with the start that was handed
\* its record.
FailedStartLeavesNothing == \A i \in Calls : pc[i] = "failed" =>
  /\ record[i] # None => Left(i, "record")
  /\ i \in sessions => Left(i, "session")
  /\ runtime[i] # None => Left(i, "record") \/ Handed(i)
  /\ dels[i] # None \/ files[i] # None => Left(i, "relation") \/ i \in revived

\* no two starts with one request missed each other and no relation came
\* back: from then on #rebuildIndexes has not thrown
Clean == revived = {} /\ \A i \in raced : req[i] = None

\* spec.md:97-108 of the same change: a request id, or within the window
\* the same task, never gets a second delegation, also where it is repeated
\* while the first start runs or is rolled back, once its relation is there.
NoSecondChild == [][\A i, d \in Calls :
    dels[i] = None /\ dels'[i] # None /\ d # i =>
      /\ SameRequest(i, d) /\ dels[d] # None => ~Clean'
      /\ req[i] = None /\ d \in recent /\ task[d] = task[i] /\ dels[d] # None =>
           i \in raced \/ {i, d} \cap revived' # {}]_vars

\* start() answers "running" only for a child that a restart will find: its
\* record is ready, its relation is on disk, its runtime entry serves it.
\* Not said of a start that was handed the record of an earlier one, whose
\* rollback a crash cut short: it answers with a child id of its own.
StartedMeansDurable == [][\A i \in Calls :
    pc[i] # "started" /\ pc'[i] = "started" /\ mine[i] = i =>
      record'[i] = "ready" /\ files'[i] # None /\ runtime'[i] # None]_vars

\* The relations on disk fit together at every instant, whatever a rollback
\* left: initialize() after a crash does not throw on them, unless two starts
\* with one request missed each other or a removed relation came back.
RestartLoads == Clean => up

\* Every start() ends: with an answer, a refusal or a completed rollback,
\* also when the native identity never arrives.  Said of all that are under
\* way at once.
StartEnds ==
  (\E i \in Calls : pc[i] \in Active) ~> (\A i \in Calls : pc[i] \notin Active)

(* The inductive invariant behind them: what each start knows of its       *)
(* child (LInv), and what the store has while it is Clean (SInv).          *)

\* the map lists each relation once and says what the files say
MapIsListed ==
  /\ order \in Seq(Calls) /\ \A m, n \in DOMAIN order : order[m] = order[n] => m = n
  /\ files = dels
  /\ writes \subseteq [del : Calls, status : Status, by : {"start", "other"}]

TInv == TypeOK /\ MapIsListed

\* until its file is written a start is what the lookup found it to be: new
StillNew == \A i \in Calls :
  /\ pc[i] \in {"new", "create"} => mine[i] = i
  /\ pc[i] \in {"new", "answered"} => record[i] = None
  /\ pc[i] \in {"new", "create", "file"} => dels[i] = None /\ i \notin known

\* from there on the local variable `delegation` says what the store has
LocalIsTrue == \A i \in Calls :
  /\ pc[i] \in {"open", "commit", "turn", "await", "status", "write", "undelegate"} =>
       dels[i] # None /\ i \in known
  /\ pc[i] = "cleanup" /\ i \in known => dels[i] # None
  /\ pc[i] = "cleanup" /\ i \notin known /\ dels[i] # None =>
       Left(i, "relation") \/ i \in revived

\* a thread of its own is served, and durable once the native identity came
ServesThread == \A i \in Calls : mine[i] = i =>
  /\ pc[i] \in {"turn", "await", "status", "write"} => runtime[i] # None
  /\ pc[i] \in {"status", "write"} => record[i] = "ready"

RolledBack == \A i \in Calls :
  /\ pc[i] \in {"undelegate", "unthread", "failed"} =>
       /\ i \in sessions => Left(i, "session")
       /\ runtime[i] # None => Left(i, "record") \/ Handed(i)
  /\ pc[i] \in {"unthread", "failed"} /\ dels[i] # None =>
       Left(i, "relation") \/ i \in revived
  /\ pc[i] = "failed" /\ record[i] # None => Left(i, "record")

WritesHaveTarget == \A w \in writes :
  /\ pc[w.del] \notin {"new", "create", "file"}
  /\ w.by = "start" => w.status = "running" /\ pc[w.del] = "write"

\* two starts that have passed the lookup for the same know it
RacesAreSeen == \A i, j \in Calls :
  /\ i # j /\ pc[i] \in {"create", "file"} /\ pc[j] \in {"create", "file"}
  /\ SameRequest(i, j) \/ ((req[i] = None \/ req[j] = None) /\ task[i] = task[j])
  => i \in raced

\* a task that was new to the lookup is new until the relation is written
NewTasks == \A i, d \in Calls :
  /\ pc[i] \in {"create", "file"} /\ req[i] = None /\ d \in recent /\ dels[d] # None
  /\ task[d] = task[i]
  => i \in raced \/ d \in revived

LInv ==
  StillNew /\ LocalIsTrue /\ ServesThread /\ RolledBack /\ WritesHaveTarget
    /\ RacesAreSeen /\ NewTasks

IndexesAreComplete ==
  up /\ indexed = {c \in Calls : dels[c] # None} /\ bound = Stored(record)

\* so #rebuildIndexes never throws
RequestsAreUnique ==
  /\ Unbound({c \in Calls : dels[c] # None})
  /\ Unbound(Stored(record))

NewRequests == \A i, d \in Calls :
  pc[i] \in {"create", "file"} /\ dels[d] # None => ~SameRequest(i, d)

SInv == IndexesAreComplete /\ RequestsAreUnique /\ NewRequests

IInv == TInv /\ LInv /\ (Clean => SInv)
=============================================================================
