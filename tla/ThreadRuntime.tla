---------------------------- MODULE ThreadRuntime ----------------------------
(***************************************************************************)
(* How one external thread is opened, refreshed, rolled back, forked and   *)
(* deleted (ExternalThreadRuntime, ExternalThreadRepository,               *)
(* external-thread-fork.ts and external-thread-rollback.ts of              *)
(* src/packages/host-runtime/src), and the callers that do so: the         *)
(* requests of #forwardDesktop of AppServerHost, and the delegation        *)
(* control calls beside them.                                              *)
(*                                                                         *)
(* An ExternalThread object lives as long as its HarnessSession, so the    *)
(* session's number names both.  A turn of a native session is the pair of *)
(* the session and a number the session never gives twice; the id the Host *)
(* gave a turn when it started it is that same pair, and an id made up by  *)
(* alignSnapshot is named after the call or the session that made it.      *)
(*                                                                         *)
(* The adapter of the thread rolls back into a new native session, or in   *)
(* place (inPlace), as that of OpenCode does (revertSession): the new      *)
(* HarnessSession then works on the native session of the old one.         *)
(*                                                                         *)
(* Two history variables say what the properties have to except: overtaken *)
(* has the turns that completed while a snapshot without them was on its   *)
(* way to alignSnapshot, and mishaps what else went wrong:                 *)
(*   "delete"  the thread was deleted while someone opened it              *)
(*   "start"   a turn was started while a rollback in place was under way  *)
(*   "write"   an object wrote the record that a rollback in place was     *)
(*             replacing, or had replaced                                  *)
(*   "replace" a rollback met a running turn after its commit; the Host    *)
(*             ends with the exception of replace                          *)
(*   "remove"  the record of a fork that failed could not be removed       *)
(*                                                                         *)
(* A write of the record is one step, with the assignment of its result:   *)
(* the write queue of the Mapping Store runs writes and their              *)
(* continuations in the order they were asked for (ImplementsAtomicStore). *)
(* Titles, models, configuration and usage are left out; a step that may   *)
(* fail for such a reason just may fail.                                   *)
(*                                                                         *)
(* Bounds: MaxSessions caps the sessions opened in a behaviour, a call is  *)
(* made once, and one fork is made of the thread.                          *)
(***************************************************************************)
EXTENDS Naturals, Sequences, FiniteSets

CONSTANTS
  Desktop,        \* requests of the Desktop
  Control,        \* calls of the delegation control channel
  None,
  MaxSessions

Calls == Desktop \cup Control
Sessions == 1..MaxSessions
Origin == 0                      \* the native session of the thread's creation
Natives == Sessions \cup {Origin}

ASSUME CallsAreNamed ==
  /\ MaxSessions \in Nat
  /\ Desktop \cap Control = {}
  /\ None \notin Calls \cup Natives
  /\ Calls \cap Natives = {}

VARIABLES
  record,     \* the stored record: native session and turn mappings
  inPlace,    \* how the adapter of the thread rolls back
  history,    \* the turns of each native session
  born,       \* how many turns it ever had
  session,    \* "unused", "open", "closed"
  native,     \* the native session a session works on
  object,     \* ExternalThread: its record, its turn, its persistenceError
  loaded,     \* the thread's entry of #threads
  restoring,  \* its entry of #restores
  call,       \* where each caller is
  derived,    \* record and #threads entry of the forked thread
  succeeded,  \* turns announced as succeeded, by id
  overtaken,  \* turns that completed behind the back of a refresh
  mishaps     \* what went wrong that the code does not provide for

storeVars == <<record, derived>>
nativeVars == <<inPlace, history, born>>
sessionVars == <<nativeVars, session, native>>
ghostVars == <<succeeded, overtaken, mishaps>>
vars == <<record, inPlace, history, born, session, native, object, loaded,
          restoring, call, derived, succeeded, overtaken, mishaps>>

-----------------------------------------------------------------------------
(* Records *)

Turn == [at: Nat, host: (Calls \cup Natives) \X Nat]

Record == [native: Natives, turns: Seq(Turn)]

\* mutant: the last turn is taken for one under way and left out
AlignFinished(rec, snap, maker) ==
  [i \in 1..(Len(snap) - 1) |->
     IF \E j \in DOMAIN rec.turns : rec.turns[j].at = snap[i]
       THEN rec.turns[CHOOSE j \in DOMAIN rec.turns : rec.turns[j].at = snap[i]]
       ELSE [at |-> snap[i], host |-> <<maker, snap[i]>>]]

\* alignSnapshot: the mappings of the turns of a snapshot, known turns by their
\* native identity, new ones under an id of the maker
Align(rec, snap, maker) ==
  [i \in 1..Len(snap) |->
     IF \E j \in DOMAIN rec.turns : rec.turns[j].at = snap[i]
       THEN rec.turns[CHOOSE j \in DOMAIN rec.turns : rec.turns[j].at = snap[i]]
       ELSE [at |-> snap[i], host |-> <<maker, snap[i]>>]]

\* the first n turns of a history
Upto(turns, n) == [i \in 1..n |-> turns[i]]

\* the turns that native session n has
TurnsOf(n) == {history[n][i] : i \in DOMAIN history[n]}

\* a history of n turns of its own
Numbered(n) == [i \in 1..n |-> i]

\* identities that both lists know are associated alike
Associates(ms, ns) == \A i \in DOMAIN ms, j \in DOMAIN ns :
  (ms[i].host = ns[j].host) <=> (ms[i].at = ns[j].at)

\* the store accepts the mappings for the stored record
Reconciles(rec, turns) ==
  /\ record # None /\ record.native = rec.native
  /\ Associates(record.turns, turns)

-----------------------------------------------------------------------------
(* Callers *)

Free == [op |-> None, pc |-> "idle", obj |-> None, fresh |-> FALSE,
         rec |-> None, snap |-> <<>>, new |-> None]

Ended(c) == call' = [call EXCEPT ![c] = [Free EXCEPT !.pc = "ended"]]

Goto(c, pc) == call' = [call EXCEPT ![c].pc = pc]

At(c, pc) == call[c].pc = pc

Begun(c) == call[c].pc \notin {"idle", "ended"}

Running(s) == object[s].turn # "none"

Mishap(m, happens) == mishaps' = IF happens THEN mishaps \cup {m} ELSE mishaps

\* a rollback of the thread found the object idle and has not replaced it yet
RollingBack(s) == \E c \in Calls :
  /\ call[c].op = "rollback" /\ call[c].obj = s
  /\ call[c].pc \in {"reading", "aligning", "opening", "comparing", "committing",
                     "replacing", "closing"}

\* object s is no longer the one of #threads, or will not be for long
Outdated(s) ==
  \/ s # loaded
  \/ \E c \in Calls : call[c].obj = s /\ call[c].pc \in {"replacing", "closing"}

\* #forwardDesktop takes a request when the one before it is answered; a turn is
\* handed to #dispatchDesktopRequest and runs beside the next ones
Surroundings(c) ==
  c \in Desktop => \A d \in Desktop : Begun(d) => call[d].op = "send"

Operations(c) ==
  IF c \in Desktop THEN {"read", "send", "rollback", "fork", "delete"}
                   ELSE {"read", "send"}

\* locate: the object in memory, or else the record; a thread of neither is
\* taken for an official one and passed on
Begin(c) ==
  /\ call[c] = Free
  /\ \E op \in Operations(c) :
       /\ Surroundings(c)
       /\ op = "fork" => derived.state = "none"
       /\ \/ /\ loaded # None
             /\ call' = [call EXCEPT ![c].op = op, ![c].pc = "resolved", ![c].obj = loaded]
          \/ /\ loaded = None /\ record # None
             /\ call' = [call EXCEPT ![c].op = op, ![c].pc = "located", ![c].rec = record]
          \/ loaded = None /\ record = None /\ Ended(c)
  /\ UNCHANGED <<storeVars, sessionVars, object, loaded, restoring, ghostVars>>

\* mutant: only #threads is looked up before a restore, not #restores
ResolveAlone(c) ==
  /\ At(c, "located") /\ call[c].op # "delete"
  /\ IF loaded # None
       THEN /\ call' = [call EXCEPT ![c].pc = "resolved", ![c].obj = loaded, ![c].rec = None]
            /\ UNCHANGED restoring
       ELSE /\ call' = [call EXCEPT ![c].pc = "awaiting", ![c].rec = None]
            /\ restoring' = [step |-> "opening", rec |-> call[c].rec, new |-> None, snap |-> <<>>]
  /\ UNCHANGED <<storeVars, sessionVars, object, loaded, ghostVars>>

\* resolve: join the restore under way, or take the object that appeared
\* during locate, or start a restore of the record found by it
Resolve(c) ==
  /\ At(c, "located") /\ call[c].op # "delete"
  /\ \/ /\ restoring # None
        /\ call' = [call EXCEPT ![c].pc = "awaiting", ![c].rec = None]
        /\ UNCHANGED restoring
     \/ /\ restoring = None /\ loaded # None
        /\ call' = [call EXCEPT ![c].pc = "resolved", ![c].obj = loaded, ![c].rec = None]
        /\ UNCHANGED restoring
     \/ /\ restoring = None /\ loaded = None
        /\ call' = [call EXCEPT ![c].pc = "awaiting", ![c].rec = None]
        /\ restoring' = [step |-> "opening", rec |-> call[c].rec, new |-> None, snap |-> <<>>]
  /\ UNCHANGED <<storeVars, sessionVars, object, loaded, ghostVars>>

-----------------------------------------------------------------------------
(* Sessions and restores *)

Unused == {s \in Sessions : session[s] = "unused"}

\* a session is opened on native session n, or on one of its own
Open(s, n) ==
  /\ s \in Unused /\ \A u \in Unused : s <= u
  /\ session' = [session EXCEPT ![s] = "open"]
  /\ native' = [native EXCEPT ![s] = n]

Close(s) == session' = [session EXCEPT ![s] = "closed"]

RestoreOpens ==
  /\ restoring # None /\ restoring.step = "opening"
  /\ \E s \in Sessions :
       /\ Open(s, restoring.rec.native)
       /\ restoring' = [restoring EXCEPT !.step = "reading", !.new = s]
  /\ UNCHANGED <<storeVars, nativeVars, object, loaded, call, ghostVars>>

\* the promise of #restores is rejected: everyone who awaits it gets the error
Rejected ==
  /\ restoring' = None
  /\ call' = [c \in Calls |-> IF At(c, "awaiting") THEN [Free EXCEPT !.pc = "ended"]
                                                   ELSE call[c]]

\* mutant: who awaits a failed restore is not told
RestoreFailsSilently ==
  /\ restoring # None
  /\ IF restoring.new = None THEN UNCHANGED session ELSE Close(restoring.new)
  /\ restoring' = None
  /\ UNCHANGED <<storeVars, nativeVars, native, object, loaded, call, ghostVars>>

\* mutant: the session of a failed restore is forgotten
RestoreFailsOpen ==
  /\ restoring # None
  /\ Rejected
  /\ UNCHANGED <<storeVars, sessionVars, object, loaded, ghostVars>>

\* the adapter cannot open the session, or a later step fails and closes it
RestoreFails ==
  /\ restoring # None
  /\ IF restoring.new = None THEN UNCHANGED session ELSE Close(restoring.new)
  /\ Rejected
  /\ UNCHANGED <<storeVars, nativeVars, native, object, loaded, ghostVars>>

RestoreReads ==
  /\ restoring # None /\ restoring.step = "reading"
  /\ restoring' = [restoring EXCEPT !.step = "aligning", !.snap = history[restoring.rec.native]]
  /\ UNCHANGED <<storeVars, sessionVars, object, loaded, call, ghostVars>>

\* alignSnapshot writes only when the mappings differ; a rejected write is a
\* RestoreFails
RestoreAligns ==
  /\ restoring # None /\ restoring.step = "aligning"
  /\ LET rec   == restoring.rec
         turns == Align(rec, restoring.snap, restoring.new)
     IN  IF turns = rec.turns
           THEN restoring' = [restoring EXCEPT !.step = "aligned"] /\ UNCHANGED record
           ELSE /\ Reconciles(rec, turns)
                /\ record' = [record EXCEPT !.turns = turns]
                /\ restoring' = [restoring EXCEPT !.step = "aligned", !.rec.turns = turns]
  /\ UNCHANGED <<derived, sessionVars, object, loaded, call, ghostVars>>

Idle(rec) == [rec |-> rec, turn |-> "none", done |-> 0, broken |-> FALSE]

\* register, after the await of sessionTreeId
Register ==
  /\ restoring # None /\ restoring.step = "aligned"
  /\ object' = [object EXCEPT ![restoring.new] = Idle(restoring.rec)]
  /\ loaded' = restoring.new
  /\ restoring' = None
  /\ call' = [c \in Calls |->
       IF At(c, "awaiting")
         THEN [call[c] EXCEPT !.pc = "resolved", !.obj = restoring.new, !.fresh = TRUE]
         ELSE call[c]]
  /\ UNCHANGED <<storeVars, sessionVars, ghostVars>>

-----------------------------------------------------------------------------
(* Refresh *)

\* a read of a running or just restored thread needs no refresh; a rollback
\* refreshes always and a fork unless a turn runs
Proceed(c) ==
  /\ At(c, "resolved")
  /\ LET o == call[c].obj
     IN  \/ /\ call[c].op = "read"
            /\ IF Running(o) \/ call[c].fresh THEN Ended(c) ELSE Goto(c, "reading")
         \/ /\ call[c].op = "rollback"
            /\ IF Running(o) THEN Ended(c) ELSE Goto(c, "reading")
         \/ /\ call[c].op = "fork"
            /\ IF Running(o) THEN Goto(c, "forking") ELSE Goto(c, "reading")
  /\ UNCHANGED <<storeVars, sessionVars, object, loaded, restoring, ghostVars>>

\* readSnapshot fails on a closed or busy session, and may fail anyway
ReadSnapshot(c) ==
  /\ At(c, "reading")
  /\ LET o == call[c].obj
     IN  \/ /\ session[o] = "open"
            /\ call' = [call EXCEPT ![c].pc = "aligning", ![c].snap = history[native[o]]]
         \/ Ended(c)
  /\ UNCHANGED <<storeVars, sessionVars, object, loaded, restoring, ghostVars>>

AfterRefresh(c) == CASE call[c].op = "read"     -> Ended(c)
                     [] call[c].op = "rollback" -> Goto(c, "opening")
                     [] call[c].op = "fork"     -> Goto(c, "forking")

\* refresh: the snapshot is aligned with the record the object has by now
Refresh(c) ==
  /\ At(c, "aligning")
  /\ LET o     == call[c].obj
         rec   == object[o].rec
         turns == Align(rec, call[c].snap, c)
     IN  IF turns = rec.turns
           THEN UNCHANGED <<record, object, mishaps>> /\ AfterRefresh(c)
           ELSE \/ /\ Reconciles(rec, turns)
                   /\ record' = [record EXCEPT !.turns = turns]
                   /\ object' = [object EXCEPT ![o].rec = record']
                   /\ Mishap("write", record' # record /\ Outdated(o))
                   /\ AfterRefresh(c)
                \/ UNCHANGED <<record, object, mishaps>> /\ Ended(c)
  /\ UNCHANGED <<derived, sessionVars, loaded, restoring, succeeded, overtaken>>

-----------------------------------------------------------------------------
(* Turns *)

\* turn/start, or send of a delegation: a closed session does not take it
StartTurn(c) ==
  /\ At(c, "resolved") /\ call[c].op = "send"
  /\ LET o == call[c].obj
     IN  \/ /\ ~Running(o) /\ session[o] = "open"
            /\ object' = [object EXCEPT ![o].turn = "working"]
            /\ Mishap("start", inPlace /\ RollingBack(o))
         \/ UNCHANGED <<object, mishaps>>
  /\ Ended(c)
  /\ UNCHANGED <<storeVars, sessionVars, loaded, restoring, succeeded, overtaken>>

\* a snapshot of native session n is on its way to alignSnapshot
SnapshotOut(n) == \E c \in Calls : At(c, "aligning") /\ native[call[c].obj] = n

\* the native session completes the turn and has it in its history
CompleteTurn(s) ==
  /\ object[s] # None /\ object[s].turn = "working" /\ session[s] = "open"
  /\ LET n    == native[s]
         turn == born[n] + 1
     IN  /\ born' = [born EXCEPT ![n] = turn]
         /\ history' = [history EXCEPT ![n] = Append(@, turn)]
         /\ object' = [object EXCEPT ![s].turn = "completed", ![s].done = turn]
         /\ overtaken' = IF SnapshotOut(n) THEN overtaken \cup {<<n, turn>>} ELSE overtaken
  /\ UNCHANGED <<storeVars, inPlace, session, native, loaded, restoring, call,
                 succeeded, mishaps>>

\* it fails without a trace in the history, or the session is closed under it
FailTurn(s) ==
  /\ object[s] # None /\ object[s].turn = "working"
  /\ object' = [object EXCEPT ![s].turn = "none"]
  /\ UNCHANGED <<storeVars, sessionVars, loaded, restoring, call, ghostVars>>

\* persistTerminalIdentity and what follows it; a thread whose turn was not
\* stored has a persistenceError for good
PersistTurn(s) ==
  /\ object[s] # None /\ object[s].turn = "completed"
  /\ LET n     == object[s].rec.native
         turn  == [at |-> object[s].done, host |-> <<n, object[s].done>>]
         known == \E i \in DOMAIN record.turns : record.turns[i] = turn
     IN  \/ /\ ~object[s].broken
            /\ record # None /\ record.native = n /\ Associates(record.turns, <<turn>>)
            /\ record' = IF known THEN record
                         ELSE [record EXCEPT !.turns = Append(@, turn)]
            /\ object' = [object EXCEPT ![s].rec = record', ![s].turn = "none"]
            /\ succeeded' = succeeded \cup {turn.host}
            /\ Mishap("write", record' # record /\ Outdated(s))
         \/ /\ object' = [object EXCEPT ![s].turn = "none", ![s].broken = TRUE]
            /\ UNCHANGED <<record, succeeded, mishaps>>
  /\ UNCHANGED <<derived, sessionVars, loaded, restoring, call, overtaken>>

-----------------------------------------------------------------------------
(* Rollback of the last turn *)

\* the adapter opens a copy of the native session without its last turn
OpenCopy(c, h) == \E s \in Sessions :
  /\ Open(s, s)
  /\ history' = [history EXCEPT ![s] = Numbered(Len(h) - 1)]
  /\ born' = [born EXCEPT ![s] = Len(h) - 1]
  /\ call' = [call EXCEPT ![c].pc = "comparing", ![c].new = s]

\* the native session itself loses its last turn
Revert(n) == history' = [history EXCEPT ![n] = Upto(@, Len(@) - 1)]

\* a second session is opened on the shorter history, which takes no busy one
OpenReverted(c, n) == \E s \in Sessions :
  /\ object[call[c].obj].turn # "working"
  /\ Open(s, n) /\ Revert(n) /\ UNCHANGED born
  /\ call' = [call EXCEPT ![c].pc = "comparing", ![c].new = s]

\* an open that fails takes back what it reverted, if the native session lets it
OpenRollback(c) ==
  /\ At(c, "opening")
  /\ LET rec == object[call[c].obj].rec
         h   == history[rec.native]
     IN  \/ /\ rec.turns # <<>> /\ h # <<>>
            /\ \/ ~inPlace /\ OpenCopy(c, h)
               \/ inPlace /\ OpenReverted(c, rec.native)
               \/ inPlace /\ Revert(rec.native) /\ Ended(c) /\ UNCHANGED <<born, session, native>>
         \/ Ended(c) /\ UNCHANGED <<history, born, session, native>>
  /\ UNCHANGED <<storeVars, inPlace, object, loaded, restoring, ghostVars>>

\* a step after the open fails: the new session is closed, nothing else; what was
\* reverted in place stays so
GiveUpRollback(c) ==
  /\ call[c].op = "rollback" /\ call[c].pc \in {"comparing", "committing"}
  /\ Close(call[c].new) /\ Ended(c)
  /\ UNCHANGED <<storeVars, nativeVars, native, object, loaded, restoring, ghostVars>>

\* the snapshot of the new session has exactly one turn fewer than the record
Compare(c) ==
  /\ At(c, "comparing")
  /\ LET snap == history[native[call[c].new]]
     IN  /\ Len(snap) + 1 = Len(object[call[c].obj].rec.turns)
         /\ call' = [call EXCEPT ![c].pc = "committing", ![c].snap = snap]
  /\ UNCHANGED <<storeVars, sessionVars, object, loaded, restoring, ghostVars>>

\* commitLastTurnRollback: retained turns keep the Host's ids
Commit(c) ==
  /\ At(c, "committing")
  /\ LET snap == call[c].snap
         rec  == object[call[c].obj].rec
         next == [native |-> native[call[c].new],
                  turns  |-> [i \in 1..Len(snap) |->
                                [at |-> snap[i], host |-> rec.turns[i].host]]]
     IN  /\ Len(rec.turns) = Len(snap) + 1
         /\ record # None /\ Len(record.turns) = Len(rec.turns)
         /\ \A i \in DOMAIN next.turns : record.turns[i].host = next.turns[i].host
         /\ record' = next
         /\ call' = [call EXCEPT ![c].pc = "replacing", ![c].rec = next]
  /\ UNCHANGED <<derived, sessionVars, object, loaded, restoring, ghostVars>>

\* run() of the Host ends: its sessions and those of its adapters are closed
HostEnds ==
  /\ session' = [s \in Sessions |-> IF session[s] = "open" THEN "closed" ELSE session[s]]
  /\ loaded' = None /\ restoring' = None
  /\ call' = [c \in Calls |-> [Free EXCEPT !.pc = "ended"]]
  /\ Mishap("replace", TRUE)

\* replace: refused for a running or stale object, by an exception that ends
\* #forwardDesktop and with it the Host
Replace(c) ==
  /\ At(c, "replacing")
  /\ LET o == call[c].obj
     IN  IF Running(o) \/ loaded # o
           THEN HostEnds
           ELSE Goto(c, "closing") /\ Close(o) /\ UNCHANGED <<loaded, restoring, mishaps>>
  /\ UNCHANGED <<storeVars, nativeVars, native, object, succeeded, overtaken>>

\* the old session has closed and its outputs have ended
Replaced(c) ==
  /\ At(c, "closing")
  /\ loaded' = call[c].new
  /\ object' = [object EXCEPT ![call[c].new] = Idle(call[c].rec)]
  /\ Ended(c)
  /\ UNCHANGED <<storeVars, sessionVars, restoring, ghostVars>>

-----------------------------------------------------------------------------
(* Fork *)

NoFork == [state |-> "none", obj |-> None]

\* the boundary needs a mapped turn; then the provisional record
CreateDerived(c) ==
  /\ At(c, "forking")
  /\ \/ /\ object[call[c].obj].rec.turns # <<>>
        /\ derived' = [derived EXCEPT !.state = "creating"]
        /\ Goto(c, "forkOpening")
     \/ UNCHANGED derived /\ Ended(c)
  /\ UNCHANGED <<record, sessionVars, object, loaded, restoring, ghostVars>>

OpenFork(c) ==
  /\ At(c, "forkOpening")
  /\ \E s \in Sessions, n \in DOMAIN object[call[c].obj].rec.turns :
       /\ Open(s, s)
       /\ history' = [history EXCEPT ![s] = Numbered(n)]
       /\ born' = [born EXCEPT ![s] = n]
       /\ call' = [call EXCEPT ![c].pc = "forkReading", ![c].new = s]
  /\ UNCHANGED <<storeVars, inPlace, object, loaded, restoring, ghostVars>>

\* open, readSnapshot or the commit fails: the session is closed and the record
\* removed, unless that fails as well
GiveUpFork(c) ==
  /\ call[c].pc \in {"forkOpening", "forkReading"}
  /\ IF call[c].new = None THEN UNCHANGED session ELSE Close(call[c].new)
  /\ \/ derived' = NoFork /\ UNCHANGED mishaps
     \/ UNCHANGED derived /\ Mishap("remove", TRUE)
  /\ Ended(c)
  /\ UNCHANGED <<record, nativeVars, native, object, loaded, restoring, succeeded, overtaken>>

\* commitDerivedSnapshot gives every turn an id of its own, then register
CommitDerived(c) ==
  /\ At(c, "forkReading")
  /\ LET s   == call[c].new
         rec == [native |-> s, turns |-> [i \in DOMAIN history[s] |->
                                    [at |-> history[s][i], host |-> <<s, i>>]]]
     IN  /\ derived' = [state |-> "ready", obj |-> s]
         /\ object' = [object EXCEPT ![s] = Idle(rec)]
  /\ Ended(c)
  /\ UNCHANGED <<record, sessionVars, loaded, restoring, ghostVars>>

-----------------------------------------------------------------------------
(* Deletion *)

\* mutant: the record goes, the object stays in #threads
DeleteRecordOnly(c) ==
  /\ call[c].op = "delete" /\ call[c].pc \in {"located", "resolved"}
  /\ record' = None
  /\ IF call[c].obj = None THEN UNCHANGED session ELSE Close(call[c].obj)
  /\ Ended(c)
  /\ UNCHANGED <<derived, nativeVars, native, object, loaded, restoring, ghostVars>>

\* the thread is being opened, or some other call is about to open it
Opening(c) ==
  restoring # None \/ \E d \in Calls \ {c} : call[d].pc \in {"located", "awaiting"}

\* removeThread, then runtime.remove and the close of the object locate found
Delete(c) ==
  /\ call[c].op = "delete" /\ call[c].pc \in {"located", "resolved"}
  /\ \/ /\ record # None
        /\ record' = None /\ loaded' = None
        /\ IF call[c].obj = None THEN UNCHANGED session ELSE Close(call[c].obj)
        /\ Mishap("delete", Opening(c) \/ loaded # call[c].obj)
     \/ UNCHANGED <<record, loaded, session, mishaps>>
  /\ Ended(c)
  /\ UNCHANGED <<derived, nativeVars, native, object, restoring, succeeded, overtaken>>

-----------------------------------------------------------------------------
Init ==
  /\ record = [native |-> Origin, turns |-> <<[at |-> 1, host |-> <<Origin, 1>>]>>]
  /\ inPlace \in BOOLEAN
  /\ \E k \in 1..2 :
       /\ history = [n \in Natives |-> IF n = Origin THEN Numbered(k) ELSE <<>>]
       /\ born = [n \in Natives |-> IF n = Origin THEN k ELSE 0]
  /\ session = [s \in Sessions |-> "unused"]
  /\ native = [s \in Sessions |-> None]
  /\ object = [s \in Sessions |-> None]
  /\ loaded = None /\ restoring = None
  /\ call = [c \in Calls |-> Free]
  /\ derived = NoFork
  /\ succeeded = {<<Origin, 1>>} /\ overtaken = {} /\ mishaps = {}

Step(c) ==
  \/ Resolve(c) \/ Proceed(c) \/ ReadSnapshot(c) \/ Refresh(c) \/ StartTurn(c)
  \/ OpenRollback(c) \/ GiveUpRollback(c) \/ Compare(c) \/ Commit(c)
  \/ Replace(c) \/ Replaced(c)
  \/ CreateDerived(c) \/ OpenFork(c) \/ GiveUpFork(c) \/ CommitDerived(c)
  \/ Delete(c)

Restore == RestoreOpens \/ RestoreFails \/ RestoreReads \/ RestoreAligns \/ Register

EndTurn(s) == CompleteTurn(s) \/ FailTurn(s) \/ PersistTurn(s)

Next ==
  \/ \E c \in Calls : Begin(c) \/ Step(c)
  \/ Restore
  \/ \E s \in Sessions : EndTurn(s)

Spec == Init /\ [][Next]_vars

\* a handler that has begun and a request to an adapter come to an end
FairSpec == Spec /\ WF_vars(Restore) /\ \A c \in Calls : WF_vars(Step(c))

-----------------------------------------------------------------------------
(* Properties *)

Pcs == {"idle", "ended", "located", "awaiting", "resolved", "reading", "aligning",
        "opening", "comparing", "committing", "replacing", "closing",
        "forking", "forkOpening", "forkReading"}

\* what an ExternalThread, an entry of #restores and a call remember
Object == [rec: Record, turn: {"none", "working", "completed"}, done: Nat, broken: BOOLEAN]

Restoration == [step: {"opening", "reading", "aligning", "aligned"}, rec: Record,
                new: Sessions \cup {None}, snap: Seq(Nat)]

Call == [op: {None, "read", "send", "rollback", "fork", "delete"}, pc: Pcs,
         obj: Sessions \cup {None}, fresh: BOOLEAN, rec: Record \cup {None},
         snap: Seq(Nat), new: Sessions \cup {None}]

\* None is a value of its own
ASSUME NoneIsNoRecord == None \notin Record /\ None \notin Object /\ None \notin Restoration

\* Type correctness of the thread's record, its objects and its callers.
TypeOK ==
  /\ record \in Record \cup {None}
  /\ inPlace \in BOOLEAN /\ history \in [Natives -> Seq(Nat)] /\ born \in [Natives -> Nat]
  /\ session \in [Sessions -> {"unused", "open", "closed"}]
  /\ native \in [Sessions -> Natives \cup {None}]
  /\ object \in [Sessions -> Object \cup {None}]
  /\ loaded \in Sessions \cup {None}
  /\ restoring \in Restoration \cup {None}
  /\ call \in [Calls -> Call]
  /\ derived \in [state: {"none", "creating", "ready"}, obj: Sessions \cup {None}]
  /\ succeeded \subseteq (Natives \X Nat) /\ overtaken \subseteq (Natives \X Nat)
  /\ mishaps \subseteq {"delete", "start", "write", "replace", "remove"}

\* A native session has at most one live session, except while a rollback in place
\* has two, the thread's and the one that will replace it: whoever resolves the
\* thread while it is opened, rolled back or replaced, and wherever a rollback fails,
\* no second agent works on its history.  Only a deletion that overlaps the opening
\* of the thread may leave one behind that nobody closes.
OneSessionPerHistory == "delete" \notin mishaps => \A s, u \in Sessions :
  session[s] = "open" /\ session[u] = "open" /\ native[s] = native[u] =>
    \/ s = u
    \/ inPlace /\ \E c \in Calls : call[c].op = "rollback" /\ {s, u} = {call[c].obj, call[c].new}

InFlight(s) == \/ restoring # None /\ restoring.new = s
               \/ \E c \in Calls : Begun(c) /\ call[c].new = s

\* Every live session has an owner who will close it: the registry, the
\* restore or the call that opened it.  No failure leaks an agent process, not even
\* a replace that is refused; only a deletion that overlaps the opening of the
\* thread does.
SessionsAreOwned == "delete" \notin mishaps => \A s \in Sessions :
  session[s] = "open" => s \in {loaded, derived.obj} \/ InFlight(s)

Settled == restoring = None /\ \A c \in Calls : ~Begun(c)

\* When no call is under way, memory agrees with the store: a loaded thread has
\* a record, is on its native session and knows its mappings, a deleted one is
\* not loaded, and a half-made fork is left only where its removal failed.  This
\* holds until the Host has ended, the thread was deleted while someone opened it,
\* or an object that a rollback in place replaced has written the record.
RegistryFollowsStore == Settled /\ mishaps \cap {"delete", "replace", "write"} = {} =>
  /\ loaded # None => /\ record # None /\ object[loaded].rec = record
                      /\ session[loaded] = "open" /\ native[loaded] = record.native
  /\ derived.state = "creating" => "remove" \in mishaps
  /\ derived.state = "ready" => session[derived.obj] = "open"

\* A turn the Desktop was told has succeeded keeps its id for as long as its
\* native session is the thread's and has the turn: no rollback, failed rollback,
\* restore or refresh takes it away.  Excepted are turns that completed while the
\* snapshot of a refresh was on its way, which the refresh drops, and threads on
\* which a turn was started during a rollback in place.
SucceededTurnsKeepTheirIds == record # None /\ "start" \notin mishaps =>
  \A id \in succeeded \ overtaken :
    id[1] = record.native /\ id[2] \in TurnsOf(id[1]) =>
      \E i \in DOMAIN record.turns : record.turns[i] = [at |-> id[2], host |-> id]

\* Every call gets an answer, whatever fails and whoever it waited for.
CallsEnd == \A c \in Calls : Begun(c) ~> At(c, "ended")
=============================================================================
