# codexhost in TLA+

codexhost lets Codex Desktop work with other coding agents (*Harnesses*: Claude
Code, Grok, OpenCode, ...) beside the official one.  Its core is the **Host
Runtime**, a TypeScript process between the Desktop and (a) the official Codex
app-server, (b) one adapter session per external thread.  It speaks the Desktop's
JSON-RPC on one side and relays or imitates it on the other.  It is single-threaded
and asynchronous: every `await` lets another handler run, and nearly every hard
question about it is about what happens between two awaits, or between two writes
to disk.

This directory models that core, checks it with TLC and proves part of it with
TLAPS.  Paths are relative to `packages/` unless they say otherwise; `AS` is
`host-runtime/src/app-server-host.ts`.  An action stands for the code from one
`await` to the next, unless a module's header says otherwise; `PROJECT.json`
maps each definition to the lines it translates.

## The system

| Component (code) | State | Operations | Talks to | What is hard | What makes it correct |
|---|---|---|---|---|---|
| **Mapping Store, records** (`mapping-store/src`) | one JSON file and one backup per external thread, the maps in memory, a write queue | create, commit, upsert turns, reconcile, replace session, metadata, remove, initialize | host, delegations, runtime | crash between two steps of a replacement, failing removals, damaged files | identities are unique, files load unless a backup had to be taken, callers see only what is durable |
| **Mapping Store, lock** | `store.lock` with pid, start time and instance | acquire, close | other processes | overlapping starts, stale locks, reused pids | one owner, no lock needs repair by hand |
| **Delegation** (`host-runtime/src/harness-delegation-coordinator.ts`) | relations in memory and in files outside the queue, indexes | start with rollback, read, send, status changes, removal | store, runtime, sessions, control server | failure at any step, retries, status writes that overlap a rollback, crash | a failed start leaves nothing, no second child, an answer names a durable child |
| **External turns** (`AS` 3472-3900, `external-thread-runtime.ts`) | running, active turn, projections, response gates | turn/start, command, delegated and autonomous turns, interrupt, delete, output consumer | Desktop, session, store | the answer to a request against the events it causes, interrupts, waits of both sides for each other | one turn at a time, answers first, success only when persisted, everything ends |
| **Questions and approvals** (`AS` 4087-4347) | pending requests, timers, ignored interactions | project, answer, expire, refuse, close | Desktop, session | answer against expiry against close against end of the turn | one decision, nothing left behind, stopped turns end |
| **Drain** (`AS` 690-770) | pending and active official turns, running threads and subagents | disconnect, wait, signal | everything that starts or ends work | stale entries, lost wakeups | released only when idle, and then really |
| **Official runtimes** (`official-request-broker.ts`, `codex-runtime/`, `account/account-repository.ts`) | one app-server per account with its start and handshake, the list of accounts and its queue, pending and retired request ids | initialize, forward, refresh and delete an account, time out, fail, close | app-servers, Desktop | an account deleted or the pool closed while a runtime starts or is greeted, late answers | no runtime leaks, a deleted account stays deleted, internal answers stay inside, nobody waits for a runtime that is gone |
| **Thread runtime** (`external-thread-runtime.ts`, `external-thread-repository.ts`, `-fork.ts`, `-rollback.ts`) | open threads, restores under way, the record in memory | resolve, restore, refresh, turn, roll back, fork, delete | store, sessions, Desktop and control channel | a restore that two callers share, a refresh during a turn, a rollback or fork that fails halfway | one session per history, every session has an owner, memory follows the store, announced turns keep their ids |
| **Remote socket lock** (`remote-socket-lock.ts`) | one file per caller with its ticket, a marker for version 1 | choose, wait, recover abandoned files, act, release | other shims of the same machine | a Bakery whose registers are files that are listed and read one by one, callers that die at any step | one caller binds or unlinks at a time, in the order of tickets, nobody loses its file |
| **Thread lists** (`thread-list-aggregator.ts`, `multi-account-thread-list.ts`, `external-thread-list.ts`) | a cursor with a position per account and an anchor among the external records | one page: merge records and official pages, ask again for the prefix used | store, app-servers, Desktop | two merges on top of each other, lists that change between two requests of a page | every row once, in order, to the end |
| **Rest of accounts, updates, rest of remote host, control server, import, plugins** (`host-runtime/src`, `update-manager/src`) | small files, sockets | see `PROJECT.json` | | lock files, races of two updates | |
| **Adapters, broker, discovery, projection, Desktop control, renderer; `crates/`** | per adapter or process | | external programs, operating system, UI | | |

Interactions between the components:

* *Calls*: host and coordinator call the store; the store's queue serialises
  record writes, but not delegation files.
* *Streams*: a session's outputs are consumed by one loop per thread
  (`#consumeHarnessOutputs`); a throw in it ends the loop for good.
* *Gates*: the loop waits for the promise of a turn's response gate, so that the
  Desktop reads the answer to a request before the events the request caused.
* *Serial requests*: `#forwardDesktop` awaits `turn/interrupt` and
  `thread/delete`, so a handler that waits for the loop holds all later requests
  of the Desktop.
* *Signals*: whoever ends work calls `#signalActiveWorkChanged`; the drain looks
  again only then.
* *Files*: another process meets the store only through the lock file and what
  a crash left on disk.

`PROJECT.json` lists the hazards, each at its line, with the properties that
would catch it going wrong.

## Modules

| Module | Models | Checked by | Proved in |
|---|---|---|---|
| `AtomicStore` | what the store promises: whole revisions, durable in one step, visible afterwards | (abstract specification) | |
| `MappingStore` | records, file replacement, crash, recovery | `mapping_store`, `mapping_store_turns` (through `MCMappingStore`) | `MappingStoreProofs` |
| `StoreLock` | lock file of several processes | `store_lock` (`MCStoreLock`) | `MappingStoreProofs` |
| `Delegations` | start, rollback, relations, restart | `delegations` | `DelegationsProofs` |
| `ExternalTurn` | the turns of one external thread | `external_turn` | `ExternalTurnProofs` |
| `Interactions` | questions and approvals of one turn | `interactions` | `InteractionsProofs` |
| `SessionDrain` | when a disconnected session may go | `session_drain` | `DesktopProofs` |
| `ThreadRuntime` | opening, refreshing, rolling back, forking and deleting one external thread | `thread_runtime` | `ThreadRuntimeProofs` |
| `OfficialRuntime` | the runtimes of the official accounts, their requests and the deletion of an account | `official_runtime` (`MCOfficialRuntime`) | `OfficialRuntimeProofs` |
| `SocketLock` | the ticket lock of the remote host's socket | `socket_lock` | `SocketLockProofs` |
| `ThreadList` | a listing of threads over all its pages | `thread_list`, `thread_list_mixed` | `DesktopProofs` |

The modules meet at interfaces and are not composed state by state: `Delegations`,
`ExternalTurn` and `ThreadRuntime` take a write of a thread record as one step, which
is what `ImplementsAtomicStore` shows of `MappingStore`; `Interactions` takes the gate
and the consumer from `ExternalTurn` and keeps a single turn; `SessionDrain` and
`ThreadRuntime` see of a turn only its beginning and its end, with what
`ExternalTurn` shows of its success (`SuccessIsMapped`).

### MappingStore and AtomicStore

`records` is `#records`, `primary` and `backup` are the files, `op` is the write at
the head of `#writeTail`, `unscanned` the directory entries `initialize()` has not
read.  An operation computes its record and checks it against the schema and
`#validateGlobal` when it reaches the head (`CreateProvisional`, `Update`, `Remove`); then the replacement runs
in its steps: temporary file, copy of the old primary to the backup (a crash may
tear it), rename, publication in memory.  A crash is possible between any two.
The four indexes are functions of the records because `#rebuildIndexes` refills
them after every change, so they are operators (`Owns`, `Compatible`,
`ValidateGlobal`, `Indexable`).  `Merge`, `CanMerge` and the prefix rule of
`replaceSession` are the list algorithms of the source over host turn, native turn
and checkpoint.  `stale` is a history variable: the threads whose primary is damaged,
or was rewritten from its backup by an `initialize()` that has not succeeded.  A backup
is one revision older than what the other threads were checked against.  Where the
thread has changed its session meanwhile and another one has taken the session it gave
up, the restored record makes `#rebuildIndexes` throw (`mapping-store.ts` 256-257, 295),
at this start and, as the primary is rewritten by then, at every later one; the run
reaches such states.  The specification of the store asks for the valid record to be
restored and says nothing of the clash
(`openspec/specs/external-thread-mapping-store/spec.md` 55-57).  `RestartNeverFails`
says that nothing else keeps the store from loading.

`AtomicStore` has two variables, what a restart finds and what callers read, and
says that a record changes by one whole revision in one durable step and becomes
visible afterwards.  `ImplementsAtomicStore` maps `durable` to the primary files
(a damaged one counts as absent) and `visible` to `#records`.

### StoreLock

One process per member of `Processes`; `pc` is where its `#acquireLock` or
`close()` is.  `lock` is the file's identity (its creator), `written` the processes
whose record is in their file.  `IdentityIsChecked` says whether the code compares
start time and executable of a pid (it does on Windows only); without it a reused
pid is taken for a live owner.  Any number of starts overlap.  Two history variables
record what happened: `seen`, the records there were when each start read the lock, and
`robbed`, that a start has renamed away a file in use whose record it had not seen.
The file is created empty and its record is written later (`mapping-store.ts` 808), so
this happens when two starts overlap, and then two processes own the store: the
statement of its specification that a start SHALL fail while a live writer owns the
lock (`openspec/specs/external-thread-mapping-store/spec.md` 33-34) fails after seven
steps.  `OwnerKeepsItsLock` says that this is the only way.

### Delegations

A call of `start()` creates at most one child and one relation under fresh ids, so
the call names all three.  `dels`, `order`, `files`, `indexed`, `bound` are the
relations in memory, their insertion order, the files and what `#rebuildIndexes`
reached: it clears the indexes and throws on the first clash, after the change has
been made.  Status writes (`writes`) are in flight outside the queue.  The rollback
(`CloseSession`, `RemoveDelegation`, `RemoveThread`) runs from whatever step failed; each
of its steps may fail too, which `start()` ignores (coordinator 336-340).
`Restart` reads the files back and drops what memory alone held.

What the spec asks of a delegation
(`openspec/changes/add-cross-harness-delegation/specs/cross-harness-delegation/spec.md`
87-90: a failed start leaves no half-persisted child; 97-108: a repeated request gets no
second one) holds up to a few interleavings the code lets happen.  Histories record them,
and the properties except exactly these:

* `left`: a step of the rollback fails.  What it was to remove stays, a relation also
  when `createDelegation` threw after its file was written (`mapping-store.ts` 386-391):
  the local variable `delegation` is then still null and nobody removes it.
* `revived`: a status write that was under way ends after `removeDelegation` and brings
  the relation back (`mapping-store.ts` 411-412), with the child gone.
* `raced`: a retry whose lookup runs before the first start has written its relation
  (coordinator 197, 261).  Without a request id both become children.  With one, the
  second `createDelegation` writes its file, `#rebuildIndexes` throws, and, as just said,
  the file stays: from the next restart on `initialize()` throws on two relations with
  one request (`mapping-store.ts` 295) and the store does not open.

A retry that finds the relation of a start which fails later is answered with its child,
which the rollback then removes; no property forbids that.

### ExternalTurn

A request names its turn.  `gate[t]` is the set of answers the promise of the
turn's response gate waits for, `waits` the promise the consumer took before an
interrupt may have replaced it, `held` the answers not yet handed to the writer.
`queue` and `work` are the session's, `desk` is what `#forwardDesktop` is blocked
on.  `cons = "dead"` is a consumer that has thrown.

### Interactions

The tables `#pendingDesktopApprovals`/`Questions` (`pending`), the timers, the
projector's open interactions and `ignoredInteractionIds` against the session's
own view (`native`), with a Desktop that sees requests, answers them or is told
that they are resolved.  `Odd` interactions are those the projector refuses (a
secret question, an approval it cannot express): the host answers them itself.
An approval that has no single deny action is refused by cancelling the turn; which
of the refused approvals are of that kind is left open.  `decided` records who
decided an interaction, and `"lost"` when the session did not accept the refusal.

### SessionDrain

The tables `#hasActiveWork` looks at, and every place that changes or signals
them: official turns of the Desktop and of delegations with the three frames
(response, started, completed) that may arrive in several orders, one external
turn and one subagent.  A command first waits for `commands.list()` (`catalogue`),
which `#hasActiveWork` does not count: a session whose Desktop leaves in between may
be released and the command is lost.  The release and the closing of the sessions in
`run()` are one step, so a list that comes back after it starts nothing.

### ThreadRuntime

One thread, its native sessions and every caller that turns to it: requests of
`#forwardDesktop`, which come one after the other except for turns, and calls of the
control channel beside them.  `loaded` is its entry of `#threads`, `restoring` of
`#restores`; `object[s]` is the `ExternalThread` of session `s` with the record it
works on, so that a record read before an `await` may be older than `record`, the
one in the store.  A call goes through `locate` and `resolve` (join a restore, take
what is in memory, or start a restore) and then does what it came for: a refreshed
read, a turn, the rollback of the last turn, a fork, the deletion.  Each step of a
rollback and a fork may fail, and what the code takes back then is in `GiveUpRollback`
and `GiveUpFork`.  `alignSnapshot`, the association of a native history with the
mappings of the record, is an operator over positions and ids.

An adapter may answer `rollbackLastTurn` with a copy of the native session
(`OpenCopy`) or revert the native session in place, as that of OpenCode does
(`OpenReverted`, `adapters/opencode/src/opencode-adapter.ts` 1931-1956; its test expects
the old `nativeSessionId`, `opencode-adapter.rollback.real.test.ts` 355-357); `inPlace`
is chosen in `Init`.  The properties hold for both, except after what the code does not
provide for.  Two history variables record it, `overtaken` the turns and `mishaps` the
rest, and the properties name what they except:

* A deletion that overlaps the opening of the thread (`"delete"`): the restore registers
  the thread after its record has gone (`external-thread-runtime.ts` 352), and its
  session stays open although nobody will close it.
* A turn that completes while the snapshot of a refresh is on its way (`overtaken`): the
  refresh replaces the mappings by those of the snapshot (`external-thread-runtime.ts`
  376), and the id just announced is gone.
* A turn started through the control channel during a rollback in place (`"start"`):
  `commitLastTurnRollback` associates by position, so that the retained ids may move to
  other turns.
* A refresh or a late turn of the object that a rollback in place replaces (`"write"`)
  writes the record, which the new object then does not have.
* A turn started after the commit of a rollback (`"replace"`): `replace` throws
  (`external-thread-runtime.ts` 302-308), nobody catches it, and `run()` ends.  No
  session is left, but every other thread goes with it.
* A half-made fork whose removal fails (`"remove"`): its record stays `creating` until
  the store is loaded again (`external-thread-fork.ts` 141-191, `mapping-store.ts` 269).

A rollback in place that fails after the adapter has opened the new session closes it and
reverts nothing: the native history has lost its turn although the Desktop was told that
the rollback failed, and the next refresh takes its id out of the record.
`SucceededTurnsKeepTheirIds` speaks of turns their native session still has.

### OfficialRuntime

A call is one request of the Desktop; promises (`start`, `greet`) and runtimes are
named after the call that made them, and `awaits` is the promise a call waits for.
`pool` holds the four tables of `CodexRuntimePool` per account, `removed` its
`#removedAccountIds`, `closing` how far `close()` is and which starts it waits for.
`pending` and `retired` are the tables of each runtime's broker, `owed` the answers
a runtime may still give, and the history variable `log` all that a broker has retired.
A table of two ids makes it forget within the run: the answer to a request then reaches
the Desktop, once two others were retired after it (1024 in the code).  `mutations` is the queue of the account repository,
where a refresh writes and a deletion takes the account out.  The end of a runtime
fails what is pending at it in the same step (`End`).

### SocketLock

Lamport's Bakery as `remote-socket-lock.ts` does it: choosing and ticket are one
file that is replaced as a whole, a scan lists the directory (`ReadDirectory`) and
reads its files one at a time (`catalog`), and a file whose owner is dead or too
old is reclaimed.  The caller with the first ticket takes the marker at the path of
version 1 (`guard`) before it acts.

### ThreadList

A Desktop that follows `nextCursor`: `listing` is what it has received, `cursor` what
it asks with.  `BeginPage` reads the records; an official request (`Ask`) asks every
account for a batch (`AccountBatch`), merges, asks the accounts of whose batch a part
was used for that part (`AccountPrefix`) and returns rows and positions
(`BatchArrives`).  `aggregateThreadList` then takes external and official rows in turn
(`EmitExternal`, `EmitOfficial`, `PassOwned`), and `EndPage` decides where the official
side goes on: before the batch, behind it, or where a second request for the used
prefix says (`PrefixArrives`).  Threads change between any two requests (`Change`).
The list of an account is ordered as `Before` says, and its cursor is the place behind
a row, which is how the host uses it.

## Runs

| Run | Instance | States | Shows |
|---|---|---|---|
| `mapping_store` | 2 threads, 2 requests, 2 sessions, 2 host turns, 1 native turn, 3 revisions, 1 disk fault, crashes anywhere | 1.1M | `GlobalIdentity`, `RestartNeverFails`, `MemoryIsDurable` |
| `mapping_store_turns` | 1 thread, 2 turns, 2 checkpoints, 2 labels, 4 revisions, crashes anywhere, no disk faults | 230k | `ImplementsAtomicStore`, `TurnIdentityIsStable`, `RollbackKeepsPrefix` |
| `store_lock` | 3 processes that start at any time, crashes, reused pids | 35k | `OwnerKeepsItsLock` (and with it `AtMostOneOwner`), `RefusedOnlyByALiveOwner`, `StartIsDecided` |
| `delegations` | 2 starts that may overlap, 1 request id or none, 2 tasks, 1 status write besides theirs, 1 failing step of a rollback, 1 restart | 1.1M | `FailedStartLeavesNothing`, `RestartLoads`, `NoSecondChild`, `StartedMeansDurable`, `StartEnds` |
| `external_turn` | 2 turns of any kind, 1 interrupt, 1 deletion, 1 failed write | 185k | `BusyWhileSessionWorks`, `SuccessIsMapped`, `AnswersComeFirst`, `EverythingEnds` |
| `interactions` | approval, expiring question, approval the host cannot show; two at a time; interrupt, deletion, 1 failed answer | 116k | `AnsweredOrResolved`, `NothingLeftBehind`, `DecisionsArrive`, `StoppedTurnEndsUnlessLost` |
| `session_drain` | 2 official threads, 2 turns, external turn or command, subagent | 341k | `ReleasedOnlyWhenIdle`, `DrainEnds` |
| `thread_runtime` | a thread with 1 or 2 turns in its history, either kind of rollback, 2 requests of the Desktop, 1 control call, 4 sessions, any step failing | 157k | `OneSessionPerHistory`, `SessionsAreOwned`, `RegistryFollowsStore`, `SucceededTurnsKeepTheirIds`, `CallsEnd` |
| `official_runtime` | 3 calls, 2 accounts, tables of 2 retired ids, ends of runtimes, failures and timeouts anywhere | 1.8M | `NothingOutlivesThePool`, `DeletedIsGone`, `LateAnswersStayInside`, `NobodyWaitsForTheDead`, `GreetedBeforeUse` |
| `socket_lock` | 3 callers, 2 crashes, 2 retries, tickets up to 2 | 623k | `MutualExclusion`, `FirstTicketActs`, `EntryIsKept` |
| `thread_list` | 2 external threads, 3 official ones in 2 accounts, 1 id in both, any 2 timestamps, pages of 1 and 2, both directions, 1 change | 600k | `PagesAreInOrder`, `NothingSkipped`, `ListingEnds` |
| `thread_list_mixed` | 1 external thread, 2 official ones in 1 account, pages of 2 | | `NoPageIsRefused` is violated |

Each module states its types in `TypeOK` (`LockTypeOK` of `StoreLock`).  They are proved
for `MappingStore`, `StoreLock`, `Delegations`, `SessionDrain`, `ThreadRuntime`,
`OfficialRuntime` and `SocketLock`, and the runs check what could really be wrong.

**Bounds, and why they are enough.**  Identity clashes are between two records or
two list positions, so two threads and two turns exhibit every kind of clash; the
record write that follows another one is reached with three revisions (create,
commit, one update), the backup of a backup with four.  One crash resets the
process, and `mapping_store` allows any number of them because phase `down` is a
state like the others; only disk faults, and of `delegations` the restarts and the failing steps of
rollbacks, are counted: a rollback has three steps, and one that fails shows what the
others do without it.
Lock races need two processes and their victim: two starts that have read the same
stale lock, and the one whose file the second of them renames away.  Two starts are what deduplication
compares.  Two turns are what "one at a time" and a stale gate need.  Two
interactions pending at once, of three kinds (one that expires, one that is answered,
one the host refuses), show how
one outlives another.  The drain's stale entries come from a turn and its successor
on the same thread, and the second thread keeps a start pending meanwhile.  In
`ThreadRuntime` two requests and a control call are a call that changes the thread
and two that found it before; four sessions let one be restored, rolled back and
forked with a failure in between.  In `OfficialRuntime` a third call meets a
deletion and the use it overtakes, and the second account shows that the deletion
of one leaves the other alone.  Tickets
of `SocketLock` tie and follow each other with two, the third caller is the one that
is overtaken, and the smallest lease of all, any moment, is allowed for the dead.
In `ThreadList` pages of two rows are the smallest of which a part can be used, pages
of one row give the longest listings; two accounts with three rows are what the inner
merge splits, and two timestamps give every pattern of ties.  The two invariants were
checked with three timestamps as well (4.1 million states), too slow for every change;
larger instances (pages of three, four official rows, two changes) were only simulated.

**Symmetry** is used where members of a constant set are only compared for equality
and only in runs of invariants and action properties: `mapping_store`,
`mapping_store_turns`, `official_runtime`.

**Deadlock** is checked in the runs of `MappingStore`, where the process can
always be started again.  The other systems may really stop: every call has been
made and answered, and the session has been released.

**Fairness.**  A continuation of a handler that has begun, a timer that is set and
a file operation that was started finish: the event loop runs them whatever else
happens.  A session completes a turn it accepted and answers what it was asked,
which is the contract of `harness-adapter`; a session that was asked to stop settles
its interactions and completes.  Nothing is assumed about new requests, answers of
the Desktop, crashes or failures.  `ThreadRuntime` assumes only that a call that has
begun and a restore go on (with success or an error), not that turns end.
In `ThreadList` the Desktop goes on asking, which is the question `ListingEnds` asks;
an account answers or fails, as a request to it has a timeout.
`SessionDrain` needs strong fairness for
`ExternalComplete`, which is disabled from time to time while a subagent works:
the turn ends when it keeps getting the chance, as the parent waits for its children.

**Assumptions about the surroundings** are constants, and each has a reason to be
one: switching it off gives a behaviour in which a property fails.

| Constant | Says | Without it |
|---|---|---|
| `StoreLock.IdentityIsChecked` | a reused pid is recognised (Windows) | a crash whose pid is reused blocks every start until someone removes the file; `RefusedOnlyByALiveOwner` fails |
| `ExternalTurn.QuietAutonomous` | a session starts no turn of its own while a `turn/start` is on its way to it | the consumer throws (`AS` 3830), no turn of the thread ends any more |
| `SessionDrain.OneStartAtATime` | one start per official thread at a time | the end of the first turn forgets the pending start of the second (`AS` 766), the session is released under it |
| `SessionDrain.ResponsesFirst` | a delegation's turn ends after its start was answered | the entry of `#activeOfficialTurns` is set after the end (`AS` 1920, 2012) and stays; the drain never ends |
| `SessionDrain.ParentHolds` | a session ends its turn after its subagents | the signal for the end of a subagent comes before the field that makes it count is cleared (`AS` 4068, 4079); where it was the last work, the drain never looks again and `DrainEnds` fails |
| `Interactions.Fallible` | only answers to approvals and refusals may fail | a question whose answer fails is only logged (`AS` 4309), its request is gone from the table; `DecisionsArrive` fails. Approvals cancel the turn instead (`AS` 4170) |
| `OfficialRuntime.InitializeIsEarly` | the pool is not closed before or during `initialize` | `initializeProtocol` does not ask whether the pool is closed; a runtime outlives it (`NothingOutlivesThePool`) |
| `OfficialRuntime.NoUseWhileDeleting` | nobody turns to an account that is being deleted | between the removal from the pool and from the list of accounts a use starts a runtime for the account, or a refresh writes it back (`DeletedIsGone`) |
| `SocketLock.OwnersArePrompt` | a living caller finishes within `LOCK_MAX_AGE_MS` | its file is reclaimed under it (`EntryIsKept`), and two callers act (`MutualExclusion`) |

`Interactions` does not assume that a session waits for the host before it closes an
interaction.  `StoppedTurnEndsUnlessLost` names the one way in which a stopped turn may
then stay open: the refusal of an interaction the host cannot show fails because the
session has just closed it, the host no longer ignores its end (`AS` 4249), the
projector throws on it and the consumer is dead.

`PagesAreInOrder` and `NothingSkipped` except listings in which an account's list
changed between a batch and the request for the prefix used of it (`drift`): the answer
is compared by its length alone (`multi-account-thread-list.ts` 215), so a row that was
moved to the front makes the next page repeat one, and a row taken out makes it skip
one.

Four more behaviours are outside what the properties say.  A start whose rollback was
cut short by a crash leaves its thread with the request id; the retry is handed
that record by `createProvisional` (coordinator 239) but answers with the child id it
chose itself.  `StartedMeansDurable` therefore speaks about starts that were given
a record of their own.  Recovery takes the backup of a damaged primary even when that
backup is the provisional first revision, and then drops the thread as one that never
got its session (`mapping-store.ts` 269), where the specification of the store
(`openspec/specs/external-thread-mapping-store/spec.md` 56-57) promises the previous
record; the model does what the code does.  After a deletion that failed halfway the
account stays in `#removedAccountIds`, so that the end of a later runtime of it is
not reported; `GreetedBeforeUse` excepts such accounts.
`backwardsCursor`, which is not modelled, says that the official side is over when the
page made no official request (`thread-list-aggregator.ts` 231), so going back from the
last, external pages of a listing leaves out all official threads; and as external
rows of one second are in ascending order of their ids in both directions, going back
from the second of two leaves out the first
(`openspec/specs/external-thread-list-archive-routing/spec.md` 84-87 says that
same-timestamp rows SHALL not be silently skipped).

## Findings

1. `thread_list_mixed`: `aggregateThreadList` asks for the prefix it used of an
   official batch with `params.limit` (`thread-list-aggregator.ts` 190), but the layer
   below fills its page up to `query.limit` (`multi-account-thread-list.ts` 181), the
   limit of the Desktop.  The answer is never as short as it has to be, so every page
   that uses a part of an official batch is refused with -32082.  Each layer is tested
   alone; together they list completely only where official rows come in whole
   batches.  That no such page is ever accepted, on any instance, is the theorem
   `PartsAreRefused`.

## Theorems

All are proved for every value of the constants that satisfies the `ASSUME`s of
the module, by `Init => IInv`, `IInv /\ [Next]_vars => IInv'` and `IInv => Inv`.
Where a property holds only under an assumption about the surroundings (the table
above), the theorem has it as a hypothesis.

* **MappingStoreProofs.**  `TypeCorrect`: every record in memory, on disk and in
  the write under way passes the stored-record schema.  `IdentitiesAreUnique`
  (`GlobalIdentity`) and `RestartAlwaysLoads` (`RestartNeverFails`).
  Neither is inductive: the write under way was checked when it began and is
  published later, so `WriteFits` keeps it compatible with all other records
  meanwhile (the queue admits no other change); the files have to follow memory
  (`DiskFollowsMemory`: a primary is the record in memory, or the one the write has
  just renamed into place), and what is on disk, apart from the `stale` threads, has to
  be pairwise compatible at any instant (`DiskFits`), because a crash may come at any
  instant; a store that has opened is rid of them (`SoundUnlessStopped`), because
  `initialize()` has read every file and indexed the records.
  `StoreIsAtomic` (`ImplementsAtomicStore`, for a disk
  that works, `MaxFaults = 0`): a rename is the durable step of the registry, the
  publication and the scan of `initialize()` reveal, the removal of a primary erases,
  the end of a process stops, and everything else is a stutter.  `MemoryIsOnDisk`
  (`MemoryIsDurable`) and `TurnsKeepTheirIdentity` (`TurnIdentityIsStable`) hold with
  any number of faults.  Their invariant `RInv` adds that memory lags behind
  the files only between a rename and its publication or during a removal
  (`Synchronous`) and that the record being written is the next revision of the one
  memory holds now, not only of the one it was computed from (`OpFollows`).  With
  faults the refinement is false, and rightly so: after a removal that lost only the
  primary, the next update makes a later revision durable where nothing was.
  `RollbackShowsAPrefix` (`RollbackKeepsPrefix`): of the operations only the
  replacements take a record with turns to another native session, because a commit
  merges into mappings that the schema ties to the old one (`CommitKeepsSession`); so
  the write under way keeps a prefix of what memory shows (`WriteKeepsTurns`), which
  is what the rename replaces.
* **StoreLock**, the last part of `MappingStoreProofs`, for any number of processes,
  overlapping starts, crashes and reused pids.  `OneOwner` and `LockIsKept`
  (`OwnerKeepsItsLock`): until a start renames away a file in use whose record it had
  not seen, the one file in use is the lock (`HoldersHaveTheLock`), because a record
  that could be read was written by a process that came to own the store
  (`WritersOwned`), and a start that read the record of a running one was refused, so
  that what is renamed is not in use any more (`ReadersSawStale`).
  `NoStaleLockRefuses` (`RefusedOnlyByALiveOwner`) needs `IdentityIsChecked`: a lock
  that is taken for a live owner's is one.
* **DelegationsProofs.**  `TypesHold`, without any assumption about the callers: the
  map lists each relation of the files once and the indexes hold no more than the maps,
  also where `#rebuildIndexes` throws halfway.  The rest, for any number of calls
  (finitely many), requests, tasks, status writes in flight, failing steps and restarts:
  `NothingIsLeft` (`FailedStartLeavesNothing`), `RestartAlwaysLoads` (`RestartLoads`),
  `OneChildPerRequest` (`NoSecondChild`) and `StartedIsDurable` (`StartedMeansDurable`).
  None of them is inductive.  The invariant has a part that holds whatever happens and
  one that holds while the store is `Clean`, that is, until two starts with one request
  have missed each other or a relation has come back.
  Whatever happens, a start is until it writes its file what the lookup found it to be
  (`StillNew`), from then on its local variables say what the store has (`LocalIsTrue`),
  which is what the rollback relies on, the child of a start that was rolled back is
  nowhere but for what `left` and `revived` say (`RolledBack`), and a thread of its own
  is served and, once its native identity came, durable (`ServesThread`).  Two starts
  that have passed the lookup for the same task or request know of each other
  (`RacesAreSeen`), so that a task new to the lookup is new until the file is written
  (`NewTasks`).  While the store is `Clean`, `RequestsAreUnique` keeps the walk of
  `#rebuildIndexes` from stopping, so that the indexes are complete
  (`IndexesAreComplete`), the lookup of `start()` is worth something, and its request is
  still new when the file is written (`NewRequests`).  `CleanBefore`: no step forgets a
  race.
* **ExternalTurnProofs.**  `SuccessfulTurnsAreMapped` (`SuccessIsMapped`): whatever
  meets the end of a turn, it is announced as succeeded only if its identity is
  persisted.  The invariant adds that only commands are ephemeral
  (`OnlyCommandsAreEphemeral`; ephemeral turns skip the write) and that a success
  about to be announced has been written (`PersistedEvent`).
  `ConsumersLive` and `BusyThreads` (`BusyWhileSessionWorks`), assuming
  `QuietAutonomous`: the consumer throws on an output that does not continue the turn
  the thread is in, so the invariant says what is on its way.  `TurnInv` ties the
  fields of the thread to each other and to its requests; `OrderInv` follows the thread
  through the queue (`After(n)` is its turn after the n-th output): every output
  continues it (`Chained`), and at the end stands the turn the session works on or has
  just been asked for (`TipIsCurrent`).  `AnswersPrecede` (`AnswersComeFirst`) needs no
  assumption: the gate of a turn holds the answer to its request until that is written,
  what the consumer waits for was in the gate when it looked, and no interrupt takes it
  out (`Gated`, `Stops`); beside them, the end of a turn is the last that is heard of
  it, and a turn of the session's own is new (`ReportInv`).
* **InteractionsProofs.**  `RequestsEndOnce` (`AnsweredOrResolved`) and `DecidedOnce`
  (`OneDecision`: the session gets one decision, and it is not taken back), for any number of interactions.  The invariant says that what is
  still on its way to the host is on its way once, and is neither shown nor decided
  (`AskedIsFresh`), and that an undecided interaction has one place from which it can
  be decided: the pending table, an expiry under way or a refusal under way
  (`OneMayDecide`).  It rests on the session asking each interaction once.
  `NothingRemains` (`NothingLeftBehind`): nothing cleans the tables when a turn ends; they
  are empty because every interaction was closed before.  So the invariant (`EndInv`)
  orders the outputs: `turn.completed` is the last and finds nothing open
  (`CompletedIsLast`), the end of an interaction comes after its beginning
  (`ClosedAfterAsked`), and what is ignored has its end still before it (`IgnoredCloses`).
* **DesktopProofs**, part one, of `SessionDrain`.  `TurnsAreCounted` and `ReleasedIdleProof`
  (`ReleasedOnlyWhenIdle`), assuming `OneStartAtATime`, for any number of threads and
  turns and any order of the frames: a frame on its way tells how far the app-server was
  with the turn (`FramesSay`), a thread has one turn whose end the host has not read
  (`OneOngoing`), and until the app-server ended it its start is pending or its thread
  has an active turn (`Counted`); the completion of another turn cannot take the entry
  away.  `WakeupsArrive`, which assumes nothing about the order of parent and subagent: a
  step leaves the drain waiting without work only if it did before, or if it is the end
  of a subagent after its parent's turn while its thread is open (`ChildEndsAlone`), the
  one lost wakeup, which `ParentHolds` keeps out of the run of `DrainEnds`.
* **DesktopProofs**, part two, of `ThreadList`.  `ListTypes` (`ListTInv`), `ListingInOrder`
  (`PagesAreInOrder`) and `ListingIsComplete` (`NothingSkipped`) for any finite sets of
  threads and accounts, any page sizes and any changes.  The lemmas say what the lists
  are: `Sorted` has every row of a set once and in order (`RanksDiffer`,
  `SortedIsOrdered`), a prefix of it is what comes first (`TakeKeepsOrder`), the merged
  page takes of each account's batch the first rows (`DataTakesFirst`), and between the
  position asked from and the position handed on lie exactly the rows of the page
  (`PositionSplits`).  The invariant (`Intact`) says that what is shown is a beginning of
  the global order (`ShownInOrder`, `NoGap`), and of each source where it goes on: at
  rows that come after all that is shown, or nowhere because all is shown
  (`OfficialSide`, `ExternalSide`).  Between two awaits it has to say this of the batch
  in hand, too: with its unused rows it reaches from the position before it to the one
  behind it (`BatchFits`), while the external rows are used up to `lastAnchor`
  (`PageFits`).  It is about rows that did not change, and only where no account's list
  changed under a request (`drift`), as the two properties are; the types do not need
  that.  `PartsAreRefused` states finding 1 for all instances: the answer to the
  request for the used part of a batch is never accepted.  If it is of the right
  length, then nothing is left (`PrefixesEndEveryAccount`), and an answer without
  `nextCursor` is refused as well.
* **ThreadRuntimeProofs.**  `OneSession` (`OneSessionPerHistory`), `NoSessionLeaks`
  (`SessionsAreOwned`) and `RegistryAgrees` (`RegistryFollowsStore`) for any number of
  callers and sessions and both kinds of rollback, with no assumption about the callers:
  what is excepted is what the properties name.  `TypeCorrect` for as long as the
  invariant holds, that is, until the Host has ended or the thread was deleted while
  someone opened it (`Clean`); a Host that has ended has no session and no call, and
  stays so (`Stopped`).  The
  invariant has to say where each caller is and what it holds (`Callers`, `Objects`),
  that only a thread that is not loaded is restored, always on its first native session
  (`Restores`), and who works on which history, the session of a rollback in place
  beside the loaded one (`Histories`).  That the registry agrees
  with the store when all is quiet is not inductive, because a rollback moves the
  record first and the registry later: `Matches` says what holds in between
  (`Switching`), and that the objects which a copy has replaced are on other native
  sessions, so that none of them writes the record any more.  After a rollback in place
  the old object can still write it, and `Matches` knows the record only where it did
  not (`Unwritten`).  A restore that fails after
  its write leaves new ids in the record; `Restored` says which, and that a restore
  never meets a mapping made by its own session.
* **SocketLockProofs.**  `TypeCorrect`, `Exclusion` (`MutualExclusion`), `NoOvertaking`
  (`FirstTicketActs`), `EntryKept` (`EntryIsKept`) and `MarkerInUse` (`MarkerIsInUse`)
  for any set of callers, tickets, retries and crashes, assuming `OwnersArePrompt`.
  The heart of the invariant is `BakeryOrder`: whoever `p` has passed, by reading a
  file or finding none, cannot come before `p` any more, because it has a later
  ticket, or is choosing and has yet to read the file of `p` or has already seen its
  ticket (`Behind`).  The files have to follow the callers (`FilesFollow`), and only
  the files of the dead may be about to be reclaimed (`ReclaimsTheDead`).
* **OfficialRuntimeProofs.**  `TypeCorrect`, `PoolClosesAll` (`NothingOutlivesThePool`),
  `DeathIsTold` (`NobodyWaitsForTheDead`) and `OnlyGreetedRuntimes`
  (`GreetedBeforeUse`) for any number of calls and accounts, assuming
  `InitializeIsEarly`.  The invariant ties the tables together: a start under way is
  known to the pool (`Starts`), what runs is what its account has loaded, and a
  runtime that is gone took the host with it or its account was removed, so that an
  account that stays has at most one (`Runtimes`); a removed account has a call that
  deletes it, and who waits in vain waits for its runtime (`Deletions`); a promise
  somebody awaits was made for the same account (`Promises`); a handshake that is
  confirmed was one with the runtime of the account (`Greetings`).
  `LateAnswersAreKnown` (`LateAnswersStayInside`), for any number of requests and any
  size of the table: whatever may still be answered is pending or was retired at the
  broker that will read it (`PendingOrLogged`), and the table holds the newest of what
  was retired, as many as it can (`NewestKept`).  `DeletedStaysGone`
  (`DeletedIsGone`), assuming also `NoUseWhileDeleting`: the invariant follows each
  deletion (`Progress`).  Once it has left the pool nothing of the account starts or
  runs, while it is queued no refresh that would bring the account back waits behind
  it, and after its write none is left (`Leaves`); the queue holds each change once
  (`Queue`), and only an open runtime of the account may still answer (`OwedOpen`).

Only model-checked: liveness (`StartIsDecided`,
`StartEnds`, `EverythingEnds`, `DecisionsArrive`, `StoppedTurnEndsUnlessLost`,
`DrainEnds`, `CallsEnd`, `ListingEnds`), which TLAPS does not reach under fairness.
Every other property of the passing runs is proved, except
`SucceededTurnsKeepTheirIds`.  Nothing here needs
induction over data, which the provers do not offer: `Sorted` is defined by the rank of
a row and not by recursion.  `RECURSIVE` operators are not used.

## Not modelled

* Text, items, usage and models inside a turn: data that no property tells apart.
* Adapters: their contract is taken from `harness-adapter/src` and from how the host
  uses a session (the external definitions of the map).
* Desktop control and renderer, discovery, contracts, native crates: user interface,
  input checking, operating system calls.
* Several Host sessions over one Mapping Store (`run-host-runtime.ts`), the end of
  the process while its queues are busy (`close()`), sessions that throw and
  writers that fail: see the plan.
* Of the thread runtime: the rollback of a forked thread through a second fork of its
  source, read-only subagent threads, pages of history.
* Of the official side: creating, activating and logging in to an account, usage
  figures, the binding of threads to accounts and the search for the account of an
  old thread.  The end of a runtime and the failure of what is pending at it are one
  step.
* Version 1 of the socket lock, which is not in this repository; the marker it would
  have made is.
* The rest of `PROJECT.json`'s components marked `not_modelled`, with the reason.

## Plan

Done: MappingStore with AtomicStore, StoreLock, Delegations, ExternalTurn,
SessionDrain, Interactions, ThreadRuntime, OfficialRuntime, SocketLock, ThreadList, and the
proofs above.  In order of importance:

1. `close()` of the store and two Host sessions over one store: MappingStore and
   StoreLock composed, with the removals that outlive their operation
   (`mapping-store.ts` 630, 639).
2. `Updates`: operation lock and background update; `backwardsCursor` of `ThreadList`.
3. The local runtime lease of the shim (`crates/shim/src`).

New runs replace runs whose questions can share an instance, so that all of them
together stay quick enough to be run on every change.
