----------------------------- MODULE ExternalTurn -----------------------------
(***************************************************************************)
(* The turns of one external thread in app-server-host.ts: turn/start and  *)
(* commands of the Desktop, turns started for a delegation, turn/interrupt *)
(* and thread/delete on one side, the consumer of the session's outputs    *)
(* (#consumeHarnessOutputs, #projectHarnessOutput) on the other.           *)
(*                                                                         *)
(* A request names the turn it starts.  An action runs from one await to   *)
(* the next.  #writer keeps the order in which messages are handed to it,  *)
(* so a message counts as sent when it is handed over.  The promise of a   *)
(* response gate is the set of the responses it waits for.  The session is *)
(* the adapter's: it runs one turn at a time, completes what it accepted   *)
(* and answers every command.                                              *)
(*                                                                         *)
(* Bounds: MaxFaults caps the writes to the mapping store that fail.       *)
(* QuietAutonomous says that a session starts no turn of its own while a   *)
(* turn/start is on its way to it, nor the Desktop one before the host has *)
(* seen the autonomous turn.                                               *)
(***************************************************************************)
EXTENDS Naturals, Sequences

CONSTANTS Turns, Interrupts, None, QuietAutonomous, MaxFaults

ASSUME ExternalTurnAssumption ==
  /\ None \notin Turns \cup Interrupts /\ Turns \cap Interrupts = {}
  /\ None \notin {"turn", "command", "delegated", "autonomous", "error"}
  /\ None \notin {"delete", "started", "succeeded", "failed", "ok"}
  /\ "delete" \notin Interrupts
  /\ Turns # {} /\ QuietAutonomous \in BOOLEAN /\ MaxFaults \in Nat

VARIABLES
  pc,        \* where the request of each turn is
  kind,      \* "turn", "command", "delegated", "autonomous"; None before it begins
  answered,  \* the Desktop's answer: None, "turn" or "error"
  running, active, projected, ephemeral,  \* fields of ExternalThread
  gate,      \* responseGates: the responses the turn's promise waits for
  held,      \* responses that are not written yet
  pending,   \* #pendingExternalCommandRequests holds the thread
  desk,      \* what #forwardDesktop awaits: None, an interrupt or "delete"
  asked,     \* the turn each interrupt is about, None before
  cancelled, \* the session's answer to the interrupt: None, "ok", "error"
  replied,   \* the Desktop has the answer to the interrupt
  verdict,   \* the session's answer to turn.start: None, "ok", "error"
  work,      \* the session's turn, None when idle
  begun,     \* the session's turn has reported turn.started
  queue,     \* the session's outputs
  closed,    \* the session was closed by thread/delete
  cons,      \* the consumer: "next", "wait", "persist", "announce", "done", "dead"
  event,     \* the output it projects
  waits,     \* the promise it awaits
  mapped,    \* turns with an identity in the mapping store
  unmapped,  \* thread.persistenceError is set
  seen,      \* what the Desktop saw of a turn: None, "started", "succeeded", "failed"
  faults

reqVars  == <<pc, kind, answered>>
hostVars == <<running, active, projected, ephemeral, gate>>
interruptVars == <<asked, cancelled, replied>>
sessionVars == <<verdict, work, begun, queue, closed>>
consVars == <<cons, event, waits, mapped, unmapped, seen>>
vars == <<reqVars, hostVars, held, pending, desk, interruptVars, sessionVars, consVars, faults>>

Outputs == [what : {"autonomous", "started", "completed"}, turn : Turns, ok : BOOLEAN]

Output(what, t, ok) == [what |-> what, turn |-> t, ok |-> ok]

Step(t, l) == pc' = [pc EXCEPT ![t] = l]

Answer(t, a) == answered' = [answered EXCEPT ![t] = a]

-----------------------------------------------------------------------------
(* turn/start, commands and delegated turns *)

\* the autonomous turns the host has not seen yet
Unseen == \E n \in 1..Len(queue) : queue[n].what = "autonomous"

MayBegin(t) == pc[t] = "new" /\ kind[t] = None /\ (QuietAutonomous => ~Unseen)

\* the thread takes up the turn and the command goes to the session
TakeUp(t, k) ==
  /\ running' = TRUE /\ active' = t
  /\ projected' = projected \cup {t}
  /\ gate' = [gate EXCEPT ![t] = IF k = "delegated" THEN {} ELSE {t}]
  /\ held' = IF k = "delegated" THEN held ELSE held \cup {t}
  /\ ephemeral' = IF k = "command" THEN ephemeral \cup {t} ELSE ephemeral

\* #startExternalTurn with plain text, and its early return
StartTurn(t) ==
  /\ MayBegin(t) /\ desk = None /\ ~closed
  /\ kind' = [kind EXCEPT ![t] = "turn"]
  /\ IF running \/ pending
       THEN Step(t, "ended") /\ Answer(t, "error") /\ UNCHANGED <<hostVars, held>>
       ELSE Step(t, "execute") /\ TakeUp(t, "turn") /\ UNCHANGED answered
  /\ UNCHANGED <<pending, desk, interruptVars, sessionVars, consVars, faults>>

\* a slash command of turn/start, or thread/command/execute: both await the
\* command catalog first
StartCommand(t) ==
  /\ MayBegin(t) /\ desk = None /\ ~closed
  /\ kind' = [kind EXCEPT ![t] = "command"]
  /\ IF running \/ pending
       THEN Step(t, "ended") /\ Answer(t, "error") /\ UNCHANGED pending
       ELSE Step(t, "list") /\ pending' = TRUE /\ UNCHANGED answered
  /\ UNCHANGED <<hostVars, held, desk, interruptVars, sessionVars, consVars, faults>>

\* the catalog does not list it, or #startExternalCommand: another turn may
\* have been taken up meanwhile
Listed(t) ==
  /\ pc[t] = "list"
  /\ \/ /\ Step(t, "ended") /\ Answer(t, "error") /\ pending' = FALSE
        /\ UNCHANGED <<hostVars, held>>
     \/ /\ ~running /\ (QuietAutonomous => ~Unseen)
        /\ Step(t, "execute") /\ TakeUp(t, "command")
        /\ UNCHANGED <<answered, pending>>
  /\ UNCHANGED <<kind, desk, interruptVars, sessionVars, consVars, faults>>

\* mutant: the check for an active turn is lost
StartDelegatedAnyway(t) ==
  /\ MayBegin(t) /\ ~closed
  /\ kind' = [kind EXCEPT ![t] = "delegated"]
  /\ Step(t, "execute") /\ TakeUp(t, "delegated") /\ UNCHANGED answered
  /\ UNCHANGED <<pending, desk, interruptVars, sessionVars, consVars, faults>>

\* #startDelegatedExternalTurn, which ignores commands that are being looked up
StartDelegated(t) ==
  /\ MayBegin(t) /\ ~closed
  /\ kind' = [kind EXCEPT ![t] = "delegated"]
  /\ IF running
       THEN Step(t, "ended") /\ Answer(t, "error") /\ UNCHANGED <<hostVars, held>>
       ELSE Step(t, "execute") /\ TakeUp(t, "delegated") /\ UNCHANGED answered
  /\ UNCHANGED <<pending, desk, interruptVars, sessionVars, consVars, faults>>

\* the session accepted: the response is written, a delegated start returns
Accepted(t) ==
  /\ pc[t] = "execute" /\ verdict[t] = "ok"
  /\ Answer(t, "turn")
  /\ Step(t, IF kind[t] = "delegated" THEN "ended" ELSE "respond")
  /\ UNCHANGED <<kind, hostVars, held, pending, desk, interruptVars, sessionVars, consVars, faults>>

\* the session refused: the thread forgets the turn, the gate resolves
Rejected(t) ==
  /\ pc[t] = "execute" /\ verdict[t] = "error"
  /\ running' = FALSE /\ active' = None
  /\ projected' = projected \ {t} /\ ephemeral' = ephemeral \ {t}
  /\ gate' = [gate EXCEPT ![t] = {}]
  /\ held' = held \ {t}
  /\ pending' = (pending /\ kind[t] # "command")
  /\ Answer(t, "error") /\ Step(t, "ended")
  /\ UNCHANGED <<kind, desk, interruptVars, sessionVars, consVars, faults>>

\* the response is on the wire: gate.resolve(), and a command is over
Respond(t) ==
  /\ pc[t] = "respond"
  /\ held' = held \ {t}
  /\ pending' = (pending /\ kind[t] # "command")
  /\ Step(t, "ended")
  /\ UNCHANGED <<kind, answered, hostVars, desk, interruptVars, sessionVars, consVars, faults>>

-----------------------------------------------------------------------------
(* turn/interrupt and thread/delete, which #forwardDesktop awaits *)

\* the Desktop names a turn it was told of; a command's id is its own choice
Known(t) == answered[t] = "turn" \/ seen[t] # None \/ kind[t] = "command"

\* mutant: the turn keeps its old gate
InterruptBesideGate(i) ==
  /\ desk = None /\ asked[i] = None /\ ~closed
  /\ \E t \in Turns :
       /\ Known(t)
       /\ asked' = [asked EXCEPT ![i] = t]
       /\ IF running /\ active = t
            THEN /\ held' = held \cup {i} /\ desk' = i /\ UNCHANGED replied
            ELSE /\ replied' = replied \cup {i} /\ UNCHANGED <<held, desk>>
  /\ UNCHANGED <<reqVars, hostVars, pending, cancelled, sessionVars, consVars, faults>>

\* #interruptExternalTurn: the gate of the turn also waits for this answer
Interrupt(i) ==
  /\ desk = None /\ asked[i] = None /\ ~closed
  /\ \E t \in Turns :
       /\ Known(t)
       /\ asked' = [asked EXCEPT ![i] = t]
       /\ IF running /\ active = t
            THEN /\ gate' = [gate EXCEPT ![t] = @ \cup {i}]
                 /\ held' = held \cup {i} /\ desk' = i
                 /\ UNCHANGED replied
            ELSE replied' = replied \cup {i} /\ UNCHANGED <<gate, held, desk>>
  /\ UNCHANGED <<reqVars, running, active, projected, ephemeral, pending, cancelled,
                 sessionVars, consVars, faults>>

\* the answer is handed to the writer
Interrupted(i) ==
  /\ desk = i /\ cancelled[i] # None /\ i \notin replied
  /\ replied' = replied \cup {i}
  /\ UNCHANGED <<reqVars, hostVars, held, pending, desk, asked, cancelled, sessionVars,
                 consVars, faults>>

\* mutant: a refused interrupt does not resolve its gate
ReleaseAccepted(i) ==
  /\ desk = i /\ i \in replied
  /\ held' = IF cancelled[i] = "ok" THEN held \ {i} ELSE held
  /\ desk' = None
  /\ UNCHANGED <<reqVars, hostVars, pending, interruptVars, sessionVars, consVars, faults>>

\* it is written: the cancellation gate resolves, accepted or not
Release(i) ==
  /\ desk = i /\ i \in replied
  /\ held' = held \ {i}
  /\ desk' = None
  /\ UNCHANGED <<reqVars, hostVars, pending, interruptVars, sessionVars, consVars, faults>>

\* #deleteExternalThread: the record is gone, the session closes and ends
\* its outputs after failing the turn it runs
Delete ==
  /\ desk = None /\ ~closed
  /\ closed' = TRUE /\ desk' = "delete"
  /\ queue' = IF work = None THEN queue ELSE Append(queue, Output("completed", work, FALSE))
  /\ work' = None
  /\ UNCHANGED <<reqVars, hostVars, held, pending, interruptVars, verdict, begun, consVars, faults>>

\* outputTask has ended
Deleted ==
  /\ desk = "delete" /\ cons \in {"done", "dead"}
  /\ desk' = None
  /\ UNCHANGED <<reqVars, hostVars, held, pending, interruptVars, sessionVars, consVars, faults>>

-----------------------------------------------------------------------------
(* the session *)

\* a busy or closed session refuses, another one may
Execute(t) ==
  /\ pc[t] = "execute" /\ verdict[t] = None
  /\ \/ /\ work = None /\ ~closed
        /\ work' = t /\ begun' = FALSE
        /\ verdict' = [verdict EXCEPT ![t] = "ok"]
     \/ /\ verdict' = [verdict EXCEPT ![t] = "error"]
        /\ UNCHANGED <<work, begun>>
  /\ UNCHANGED <<reqVars, hostVars, held, pending, desk, interruptVars, queue, closed,
                 consVars, faults>>

Cancel(i) ==
  /\ desk = i /\ cancelled[i] = None
  /\ cancelled' = [cancelled EXCEPT ![i] = IF work = asked[i] THEN "ok" ELSE "error"]
  /\ UNCHANGED <<reqVars, hostVars, held, pending, desk, asked, replied, sessionVars,
                 consVars, faults>>

ReportStarted ==
  /\ work # None /\ ~begun
  /\ begun' = TRUE
  /\ queue' = Append(queue, Output("started", work, TRUE))
  /\ UNCHANGED <<reqVars, hostVars, held, pending, desk, interruptVars, verdict, work, closed,
                 consVars, faults>>

ReportCompleted ==
  /\ work # None /\ begun
  /\ \E ok \in BOOLEAN : queue' = Append(queue, Output("completed", work, ok))
  /\ work' = None
  /\ UNCHANGED <<reqVars, hostVars, held, pending, desk, interruptVars, verdict, begun, closed,
                 consVars, faults>>

StartAutonomous(t) ==
  /\ work = None /\ ~closed /\ pc[t] = "new" /\ kind[t] = None
  /\ QuietAutonomous => \A s \in Turns : pc[s] = "execute" => verdict[s] = "ok"
  /\ kind' = [kind EXCEPT ![t] = "autonomous"] /\ Step(t, "ended")
  /\ work' = t /\ begun' = FALSE
  /\ queue' = Append(queue, Output("autonomous", t, TRUE))
  /\ UNCHANGED <<answered, hostVars, held, pending, desk, interruptVars, verdict, closed,
                 consVars, faults>>

-----------------------------------------------------------------------------
(* #consumeHarnessOutputs *)

\* an exception of #projectHarnessOutput ends the loop for good
TakeAutonomous ==
  /\ cons = "next" /\ queue # <<>> /\ Head(queue).what = "autonomous"
  /\ queue' = Tail(queue)
  /\ IF running \/ active # None
       THEN cons' = "dead" /\ UNCHANGED hostVars
       ELSE /\ running' = TRUE /\ active' = Head(queue).turn
            /\ projected' = projected \cup {Head(queue).turn}
            /\ UNCHANGED <<ephemeral, gate, cons>>
  /\ UNCHANGED <<reqVars, held, pending, desk, interruptVars, verdict, work, begun, closed,
                 event, waits, mapped, unmapped, seen, faults>>

\* #projectedTurn, then the promise that is in responseGates now
TakeTurnEvent ==
  /\ cons = "next" /\ queue # <<>> /\ Head(queue).what # "autonomous"
  /\ queue' = Tail(queue)
  /\ IF Head(queue).turn \notin projected
       THEN cons' = "dead" /\ UNCHANGED <<event, waits>>
       ELSE /\ cons' = "wait" /\ event' = Head(queue)
            /\ waits' = gate[Head(queue).turn]
  /\ UNCHANGED <<reqVars, hostVars, held, pending, desk, interruptVars, verdict, work, begun,
                 closed, mapped, unmapped, seen, faults>>

EndOfOutputs ==
  /\ cons = "next" /\ queue = <<>> /\ closed
  /\ cons' = "done"
  /\ UNCHANGED <<reqVars, hostVars, held, pending, desk, interruptVars, sessionVars,
                 event, waits, mapped, unmapped, seen, faults>>

Passed == cons = "wait" /\ waits \cap held = {}

ProjectStarted ==
  /\ Passed /\ event.what = "started"
  /\ seen' = [seen EXCEPT ![event.turn] = "started"]
  /\ cons' = "next"
  /\ UNCHANGED <<reqVars, hostVars, held, pending, desk, interruptVars, sessionVars,
                 event, waits, mapped, unmapped, faults>>

\* what persistTurn does to the mapping store
Stored(t) ==
  /\ ~closed
  /\ mapped' = mapped \cup {t}
  /\ UNCHANGED <<unmapped, faults>>

NotStored ==
  /\ closed \/ faults < MaxFaults
  /\ faults' = IF closed THEN faults ELSE faults + 1
  /\ unmapped' = TRUE
  /\ UNCHANGED mapped

\* mutant: an error of the mapping store is not reported
PersistQuietly ==
  /\ Passed /\ event.what = "completed"
  /\ IF event.turn \in ephemeral THEN UNCHANGED <<event, mapped, unmapped, faults>>
     ELSE \/ /\ event' = [event EXCEPT !.ok = FALSE]
             /\ UNCHANGED <<mapped, unmapped, faults>>
          \/ /\ ~unmapped /\ (Stored(event.turn) \/ NotStored)
             /\ UNCHANGED event
  /\ cons' = "persist"
  /\ UNCHANGED <<reqVars, hostVars, held, pending, desk, interruptVars, sessionVars,
                 waits, seen>>

\* persistTerminalIdentity, which skips commands: the error of an earlier
\* turn sticks and a success needs a native turn, else the turn is announced
\* as failed; so is one whose identity cannot be stored, which is so when
\* thread/delete has removed the record
Persist ==
  /\ Passed /\ event.what = "completed"
  /\ IF event.turn \in ephemeral THEN UNCHANGED <<event, mapped, unmapped, faults>>
     ELSE \/ /\ event' = [event EXCEPT !.ok = FALSE]
             /\ UNCHANGED <<mapped, unmapped, faults>>
          \/ /\ ~unmapped /\ Stored(event.turn) /\ UNCHANGED event
          \/ /\ ~unmapped /\ NotStored /\ event' = [event EXCEPT !.ok = FALSE]
  /\ cons' = "persist"
  /\ UNCHANGED <<reqVars, hostVars, held, pending, desk, interruptVars, sessionVars,
                 waits, seen>>

\* the thread is free again; then the delegation of the thread is looked up
Finish ==
  /\ cons = "persist"
  /\ running' = FALSE /\ active' = None
  /\ projected' = projected \ {event.turn} /\ ephemeral' = ephemeral \ {event.turn}
  /\ gate' = [gate EXCEPT ![event.turn] = {}]
  /\ cons' = "announce"
  /\ UNCHANGED <<reqVars, held, pending, desk, interruptVars, sessionVars,
                 event, waits, mapped, unmapped, seen, faults>>

\* turn/completed, after the status of the delegation was written
Announce ==
  /\ cons = "announce"
  /\ seen' = [seen EXCEPT ![event.turn] = IF event.ok THEN "succeeded" ELSE "failed"]
  /\ cons' = "next"
  /\ UNCHANGED <<reqVars, hostVars, held, pending, desk, interruptVars, sessionVars,
                 event, waits, mapped, unmapped, faults>>

-----------------------------------------------------------------------------
Init ==
  /\ pc = [t \in Turns |-> "new"] /\ kind = [t \in Turns |-> None]
  /\ answered = [t \in Turns |-> None]
  /\ running = FALSE /\ active = None /\ projected = {} /\ ephemeral = {}
  /\ gate = [t \in Turns |-> {}] /\ held = {} /\ pending = FALSE /\ desk = None
  /\ asked = [i \in Interrupts |-> None] /\ cancelled = [i \in Interrupts |-> None]
  /\ replied = {} /\ verdict = [t \in Turns |-> None]
  /\ work = None /\ begun = FALSE /\ queue = <<>> /\ closed = FALSE
  /\ cons = "next" /\ event = Output("started", CHOOSE t \in Turns : TRUE, TRUE)
  /\ waits = {} /\ mapped = {} /\ unmapped = FALSE
  /\ seen = [t \in Turns |-> None] /\ faults = 0

Continue(t) == Listed(t) \/ Accepted(t) \/ Rejected(t) \/ Respond(t)

Consume ==
  TakeAutonomous \/ TakeTurnEvent \/ EndOfOutputs \/ ProjectStarted \/ Persist \/ Finish
    \/ Announce

Next ==
  \/ \E t \in Turns : \/ StartTurn(t) \/ StartCommand(t) \/ StartDelegated(t)
                      \/ Continue(t) \/ Execute(t) \/ StartAutonomous(t)
  \/ \E i \in Interrupts : Interrupt(i) \/ Interrupted(i) \/ Release(i) \/ Cancel(i)
  \/ Delete \/ Deleted \/ ReportStarted \/ ReportCompleted \/ Consume

Spec == Init /\ [][Next]_vars

\* continuations run, and the session answers and completes what it accepted
FairSpec ==
  /\ Spec
  /\ \A t \in Turns : WF_vars(Continue(t)) /\ WF_vars(Execute(t))
  /\ \A i \in Interrupts : WF_vars(Interrupted(i) \/ Release(i) \/ Cancel(i))
  /\ WF_vars(Deleted) /\ WF_vars(ReportStarted \/ ReportCompleted) /\ WF_vars(Consume)

-----------------------------------------------------------------------------
(* Properties *)

\* The thread, its turns and the session's outputs have their types; a turn
\* is projected exactly while the thread runs it.
TypeOK ==
  /\ pc \in [Turns -> {"new", "list", "execute", "respond", "ended"}]
  /\ kind \in [Turns -> {None, "turn", "command", "delegated", "autonomous"}]
  /\ answered \in [Turns -> {None, "turn", "error"}]
  /\ active \in Turns \cup {None} /\ running = (active # None)
  /\ projected = {active} \ {None} /\ ephemeral \subseteq projected
  /\ gate \in [Turns -> SUBSET (Turns \cup Interrupts)]
  /\ held \subseteq Turns \cup Interrupts /\ pending \in BOOLEAN
  /\ desk \in Interrupts \cup {None, "delete"}
  /\ asked \in [Interrupts -> Turns \cup {None}]
  /\ cancelled \in [Interrupts -> {None, "ok", "error"}] /\ replied \subseteq Interrupts
  /\ verdict \in [Turns -> {None, "ok", "error"}]
  /\ work \in Turns \cup {None} /\ begun \in BOOLEAN /\ queue \in Seq(Outputs)
  /\ closed \in BOOLEAN
  /\ cons \in {"next", "wait", "persist", "announce", "done", "dead"}
  /\ event \in Outputs /\ waits \subseteq Turns \cup Interrupts
  /\ mapped \subseteq Turns /\ unmapped \in BOOLEAN
  /\ seen \in [Turns -> {None, "started", "succeeded", "failed"}]
  /\ faults \in 0..MaxFaults

\* The thread counts as running as long as the session works on a turn of
\* which the host was told: a drain does not close a session at work, a
\* second turn is not started beside it.
BusyWhileSessionWorks == work # None => running \/ Unseen

\* #turnProjectionGate: no event of a turn the Desktop asked for is written
\* before the response to the request, and the end of a turn not before the
\* answer to an interrupt of it that the session accepted.
AnswersComeFirst == [][\A t \in Turns : seen'[t] # seen[t] =>
    /\ kind[t] \in {"turn", "command"} => answered[t] = "turn"
    /\ seen'[t] \in {"succeeded", "failed"} =>
         \A i \in Interrupts : asked[i] = t /\ cancelled[i] = "ok" => i \in replied]_vars

\* A turn is announced as succeeded only when the mapping store can find it
\* again: after a restart the Desktop meets no turn id it cannot resolve.
SuccessIsMapped == \A t \in Turns :
  seen[t] = "succeeded" /\ kind[t] # "command" => t \in mapped

\* Every request ends, with an error or with the end of its turn, and every
\* turn the session starts on its own is shown to its end.  Interrupts and a
\* deletion do not block the Desktop's requests for good, although they await
\* the session and the consumer that awaits the gates.
EverythingEnds ==
  /\ \A t \in Turns :
       (kind[t] # None) ~> (answered[t] = "error" \/ seen[t] \in {"succeeded", "failed"})
  /\ (desk # None) ~> (desk = None)
=============================================================================
