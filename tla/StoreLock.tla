------------------------------- MODULE StoreLock -------------------------------
(***************************************************************************)
(* The store.lock file of MappingStore: #acquireLock, lockOwnerIsLive and  *)
(* the lock's part of close() (mapping-store.ts 140-197, 638-650 and       *)
(* 806-845).  Processes share nothing but the directory, so every await is *)
(* a step and the steps of all the processes interleave.                   *)
(*                                                                         *)
(* A process opens the store once (a restart is another process) and       *)
(* creates at most one lock file, so the process names the file: lock says *)
(* whose file has the name store.lock, written which files have their      *)
(* content.  A process writes through its handle, also after another one   *)
(* has renamed its file away.                                              *)
(*                                                                         *)
(* Any number of starts overlap.  Two history variables say what happened: *)
(* what a start could read, and whether one renamed away a file that it    *)
(* had not read.                                                           *)
(***************************************************************************)
EXTENDS Naturals, FiniteSets

CONSTANTS
  Processes, NoLock,
  IdentityIsChecked   \* win32: executable and start time are compared too

ASSUME LockAssumption ==
  /\ NoLock \notin Processes /\ IsFiniteSet(Processes)
  /\ IdentityIsChecked \in BOOLEAN

VARIABLES
  lock,     \* whose file is store.lock, NoLock when there is no file
  written,  \* the processes whose lock file holds its record
  pc,       \* where each process is in #acquireLock or close()
  reused,   \* dead processes whose pid now names another program
  seen,     \* history: the records there were when each start read the lock
  robbed    \* history: a start has renamed away the file of a process in use,
            \* whose record was not there when that start read the lock

lockVars == <<lock, written, pc, reused, seen, robbed>>

Starting == {i \in Processes : pc[i] \in {"write", "read", "rename", "retry", "rewrite"}}

\* #lockHandle is set and the process runs: it serves the store
Owners == {i \in Processes : pc[i] \in {"owner", "closing"}}

\* it has created its file and goes on to own the store, or owns it
HasFile(i) == pc[i] \in {"write", "rewrite", "owner", "closing"}

Running(i) == pc[i] \notin {"new", "closed", "dead"}

\* mutant: a process with that pid exists
LiveByPid(i) == Running(i) \/ i \in reused

\* lockOwnerIsLive(record of i)
LockOwnerIsLive(i) == Running(i) \/ (i \in reused /\ ~IdentityIsChecked)

Goto(i, l) == pc' = [pc EXCEPT ![i] = l]

-----------------------------------------------------------------------------
\* open(store.lock, "wx"): creates the file empty, or fails with EEXIST
Start(i) ==
  /\ pc[i] = "new"
  /\ IF lock = NoLock
       THEN lock' = i /\ Goto(i, "write")
       ELSE UNCHANGED lock /\ Goto(i, "read")
  /\ UNCHANGED <<written, reused, seen, robbed>>

\* writeFile and sync through the handle
WriteRecord(i) ==
  /\ pc[i] \in {"write", "rewrite"}
  /\ written' = written \cup {i}
  /\ Goto(i, "owner")
  /\ UNCHANGED <<lock, reused, seen, robbed>>

\* the write fails: the empty file stays, initialize() throws, and the host
\* calls close() on the store it could not open
WriteRecordFails(i) ==
  /\ pc[i] \in {"write", "rewrite"}
  /\ Goto(i, "refused")
  /\ UNCHANGED <<lock, written, reused, seen, robbed>>

\* the lock that exists: a live owner refuses the start, anything else (a
\* file without its record, a vanished file, a dead owner) is stale
ReadLock(i) ==
  /\ pc[i] = "read"
  /\ IF lock \in written /\ LockOwnerIsLive(lock)
       THEN Goto(i, "refused")
       ELSE Goto(i, "rename")
  /\ seen' = [seen EXCEPT ![i] = written]
  /\ UNCHANGED <<lock, written, reused, robbed>>

\* rename(store.lock, store.lock.stale-<now>), whatever file that is by now;
\* an error of the rename is ignored
RenameStale(i) ==
  /\ pc[i] = "rename"
  /\ \/ UNCHANGED <<lock, robbed>>
     \/ /\ lock' = NoLock
        /\ robbed' = (robbed \/ (lock # NoLock /\ HasFile(lock) /\ lock \notin seen[i]))
  /\ Goto(i, "retry")
  /\ UNCHANGED <<written, reused, seen>>

\* mutant: the second open is repeated until the name is free
RetryUntilFree(i) ==
  /\ pc[i] = "retry" /\ lock = NoLock
  /\ lock' = i /\ Goto(i, "rewrite")
  /\ UNCHANGED <<written, reused, seen, robbed>>

\* the second open: EEXIST is final
Retry(i) ==
  /\ pc[i] = "retry"
  /\ IF lock = NoLock
       THEN lock' = i /\ Goto(i, "rewrite")
       ELSE UNCHANGED lock /\ Goto(i, "refused")
  /\ UNCHANGED <<written, reused, seen, robbed>>

\* mutant: close() of a refused store removes the lock of its owner
CloseReadsAny(i) ==
  /\ pc[i] \in {"owner", "refused"}
  /\ Goto(i, IF lock # NoLock THEN "closing" ELSE "closed")
  /\ UNCHANGED <<lock, written, reused, seen, robbed>>

\* close() reads the lock: only the file that carries its instanceId is its
\* own.  app-server-host.ts 665 closes the store of a refused start as well.
CloseReads(i) ==
  /\ pc[i] \in {"owner", "refused"}
  /\ Goto(i, IF lock = i /\ i \in written THEN "closing" ELSE "closed")
  /\ UNCHANGED <<lock, written, reused, seen, robbed>>

\* then it removes the file of that name
CloseRemoves(i) ==
  /\ pc[i] = "closing"
  /\ lock' = NoLock
  /\ Goto(i, "closed")
  /\ UNCHANGED <<written, reused, seen, robbed>>

Die(i) ==
  /\ Running(i)
  /\ Goto(i, "dead")
  /\ UNCHANGED <<lock, written, reused, seen, robbed>>

\* the system gives the pid of a dead process to another program
ReusePid(i) ==
  /\ pc[i] = "dead" /\ i \notin reused
  /\ reused' = reused \cup {i}
  /\ UNCHANGED <<lock, written, pc, seen, robbed>>

LockInit ==
  /\ lock = NoLock /\ written = {} /\ reused = {}
  /\ pc = [i \in Processes |-> "new"]
  /\ seen = [i \in Processes |-> {}] /\ robbed = FALSE

Acquire(i) ==
  Start(i) \/ WriteRecord(i) \/ ReadLock(i) \/ RenameStale(i) \/ Retry(i)

LockNext == \E i \in Processes :
  \/ Acquire(i) \/ WriteRecordFails(i) \/ CloseReads(i) \/ CloseRemoves(i)
  \/ Die(i) \/ ReusePid(i)

\* No fairness for crashes, failures, closes and pids: a started process
\* runs its continuations.
LockSpec == LockInit /\ [][LockNext]_lockVars

FairLockSpec == LockSpec /\ \A i \in Processes :
  WF_lockVars(pc[i] # "new" /\ Acquire(i))

-----------------------------------------------------------------------------
(* Properties *)

PC == {"new", "write", "read", "rename", "retry", "rewrite", "owner",
       "refused", "closing", "closed", "dead"}

\* The lock names a process that got as far as creating it, and only such
\* processes have written a record.
LockTypeOK ==
  /\ lock \in Processes \cup {NoLock}
  /\ written \subseteq Processes /\ reused \subseteq Processes
  /\ pc \in [Processes -> PC]
  /\ seen \in [Processes -> SUBSET written] /\ robbed \in BOOLEAN
  /\ lock # NoLock => pc[lock] \notin {"new", "read", "rename", "retry"}

\* openspec/specs/external-thread-mapping-store/spec.md:33-34 and the test
\* "enforces one live writer per directory" (index.test.ts): at no time do
\* two live processes both believe they own the store - unless one of them was
\* robbed, which is the one gap of #acquireLock.
AtMostOneOwner == ~robbed => Cardinality(Owners) <= 1

\* However many starts, closes and crashes overlap, the file of a live owner
\* loses its name in one way only: a start read the lock while that file had no
\* record yet, or was not the lock yet, and renamed "the stale lock" afterwards.
\* Until then no close of another process removes it, no start that read the
\* record takes it, and two processes never own the store.
OwnerKeepsItsLock == ~robbed => \A i \in Owners : lock = i

\* The lock that a start finds refuses it only when a live process owns the
\* store, never because of what a dead one left behind: a crash, also one
\* between the creation of the lock and its record, or a reused pid needs no
\* repair by hand.
RefusedOnlyByALiveOwner == [][\A i \in Processes :
    pc[i] = "read" /\ pc'[i] = "refused" => Owners # {}]_lockVars

\* Every start is decided: it owns the store, was refused, or died.
StartIsDecided == \A i \in Processes : (i \in Starting) ~> (i \notin Starting)

\* The inductive invariant behind OwnerKeepsItsLock.
Readers == {i \in Processes : pc[i] = "rename"}

WritersOwned == \A i \in written : pc[i] \in {"owner", "closing", "closed", "dead"}

\* as long as nobody was robbed, the one file in use is the lock
HoldersHaveTheLock == ~robbed => \A i \in Processes : HasFile(i) => lock = i

OwnersWrote == Owners \subseteq written

\* a record that a start could read is not the lock of a process in use by the
\* time it renames: that process would have refused the start
ReadersSawStale == ~robbed => \A i \in Readers :
  lock \in seen[i] => ~HasFile(lock)

LockIInv ==
  /\ LockTypeOK /\ WritersOwned /\ OwnersWrote /\ HoldersHaveTheLock /\ ReadersSawStale
=============================================================================
