----------------------------- MODULE SessionDrain -----------------------------
(***************************************************************************)
(* How a Host session whose Desktop has disconnected finds out that its    *)
(* work is over: disconnect(), #waitForActiveWorkToDrain, #hasActiveWork   *)
(* and #signalActiveWorkChanged of app-server-host.ts, with what they      *)
(* count: official turns, a turn of an external thread and its subagent.   *)
(*                                                                         *)
(* A start of a turn names the turn.  The official app-server runs one     *)
(* turn of a thread at a time; its frames arrive in order, the response to *)
(* a start anywhere after the turn was accepted.  A waiter of the drain    *)
(* looks again only when a signal finds nothing active.                    *)
(*                                                                         *)
(* Assumptions about the surroundings, each a constant: OneStartAtATime,   *)
(* the Desktop and the delegations start a turn of a thread only after the *)
(* host relayed the end of the one before; ResponsesFirst, a turn of a     *)
(* delegation ends after the delegation has used the response to its       *)
(* start; ParentHolds, a session ends its turn after its subagents.        *)
(***************************************************************************)
EXTENDS Naturals, Sequences

CONSTANTS Threads, Turns, None, OneStartAtATime, ResponsesFirst, ParentHolds

ASSUME SessionDrainAssumption ==
  /\ None \notin Threads \cup Turns \cup {"desktop", "delegation"}
  /\ OneStartAtATime \in BOOLEAN /\ ResponsesFirst \in BOOLEAN
  /\ ParentHolds \in BOOLEAN

VARIABLES
  by,       \* who started an official turn: None, "desktop", "delegation"
  thread,   \* its thread
  native,   \* the app-server: "none", "sent", "active", "over", "refused"
  told,     \* which of its frames were sent: "response", "started", "completed"
  frames,   \* frames on their way to the host
  starts,   \* #pendingOfficialTurnStarts
  active,   \* #activeOfficialTurns: a turn or None by thread
  resumed,  \* responses a delegation awaits: "none", "resolved", "used", "undone"
  catalogue, \* #pendingExternalCommandRequests: a command awaits commands.list()
  running,  \* the external thread has a turn
  tracked,  \* #runningSubagentsByParent is not empty
  loaded,   \* the subagent's thread is open in the runtime
  childRunning, \* its field `running`
  subagent, \* the subagent works
  external, \* the external session works on a turn
  drain     \* "serving", "check", "waiting", "released"

officialVars == <<by, thread, native, told, frames, starts, active, resumed>>
externalVars == <<catalogue, running, tracked, loaded, childRunning, subagent, external>>
vars == <<officialVars, externalVars, drain>>

HasActiveWork ==
  \/ starts # {} \/ \E o \in Threads : active[o] # None
  \/ tracked \/ running \/ childRunning

\* #signalActiveWorkChanged, evaluated when `work` says what is active
Signal(work) == drain' = IF drain = "waiting" /\ ~work THEN "check" ELSE drain

Alive == drain # "released"

\* the turns of a thread that the host has not seen end
Open(o) == {t \in Turns :
  /\ by[t] # None /\ thread[t] = o
  /\ \/ native[t] \in {"sent", "active"}
     \/ \E n \in DOMAIN frames : frames[n].turn = t /\ frames[n].what # "response"}

-----------------------------------------------------------------------------
(* official turns *)

Start(t, who) ==
  \E o \in Threads :
    /\ Alive /\ by[t] = None
    /\ OneStartAtATime => Open(o) = {}
    /\ by' = [by EXCEPT ![t] = who] /\ thread' = [thread EXCEPT ![t] = o]
    /\ native' = [native EXCEPT ![t] = "sent"]

\* turn/start of the Desktop
DesktopStart(t) ==
  /\ drain = "serving"
  /\ Start(t, "desktop")
  /\ starts' = starts \cup {t}
  /\ UNCHANGED <<told, frames, active, resumed, externalVars, drain>>

\* #startOfficialDelegation and #sendOfficialDelegationThread, which refuses
\* a busy thread: the request goes through the broker
DelegationStart(t) ==
  /\ Start(t, "delegation")
  /\ active[thread'[t]] = None
  /\ UNCHANGED <<told, frames, starts, active, resumed, externalVars, drain>>

\* mutant: a failed send leaves the start pending
ForwardFailsSilently(t) ==
  /\ Alive /\ by[t] = "desktop" /\ native[t] = "sent"
  /\ native' = [native EXCEPT ![t] = "refused"]
  /\ UNCHANGED <<by, thread, told, frames, starts, active, resumed, externalVars, drain>>

\* the frame could not be written to the app-server
ForwardFails(t) ==
  /\ Alive /\ by[t] = "desktop" /\ native[t] = "sent"
  /\ native' = [native EXCEPT ![t] = "refused"]
  /\ starts' = starts \ {t}
  /\ UNCHANGED <<by, thread, told, frames, active, resumed, externalVars>>
  /\ Signal(HasActiveWork')

Forget(o) == {t \in starts : thread[t] # o}

\* #observeOfficialTurnStartResponse; a response of the broker resolves its promise
Response(t, ok) ==
  IF by[t] = "delegation"
    THEN /\ resumed' = [resumed EXCEPT ![t] = IF ok THEN "resolved" ELSE "used"]
         /\ UNCHANGED <<starts, active, drain>>
    ELSE /\ starts' = starts \ {t}
         /\ active' = IF ok /\ t \in starts THEN [active EXCEPT ![thread[t]] = t] ELSE active
         /\ IF t \in starts THEN Signal(HasActiveWork') ELSE UNCHANGED drain
         /\ UNCHANGED resumed

\* #observeOfficialTurnLifecycle
Lifecycle(t, what) ==
  /\ starts' = Forget(thread[t])
  /\ active' = [active EXCEPT ![thread[t]] = IF what = "started" THEN t ELSE None]
  /\ IF what = "started" THEN UNCHANGED drain ELSE Signal(HasActiveWork')
  /\ UNCHANGED resumed

HandleFrame ==
  /\ Alive /\ frames # <<>>
  /\ frames' = Tail(frames)
  /\ UNCHANGED <<by, thread, native, told, externalVars>>
  /\ LET f == Head(frames)
     IN  IF f.what = "response" THEN Response(f.turn, f.ok) ELSE Lifecycle(f.turn, f.what)

\* the delegation goes on with the turn its start answered with
Resume(t) ==
  /\ Alive /\ resumed[t] = "resolved"
  /\ resumed' = [resumed EXCEPT ![t] = "used"]
  /\ active' = [active EXCEPT ![thread[t]] = t]
  /\ UNCHANGED <<by, thread, native, told, frames, starts, externalVars, drain>>

\* the relation of a new thread could not be stored: the start is undone
UndoStart(t) ==
  /\ Alive /\ resumed[t] = "used" /\ native[t] \in {"active", "over"}
  /\ \A s \in Turns \ {t} : thread[s] # thread[t]
  /\ resumed' = [resumed EXCEPT ![t] = "undone"]
  /\ active' = [active EXCEPT ![thread[t]] = None]
  /\ UNCHANGED <<by, thread, native, told, frames, starts, externalVars>>
  /\ Signal(HasActiveWork')

\* the app-server
Send(t, what, ok) ==
  /\ told' = [told EXCEPT ![t] = @ \cup {what}]
  /\ frames' = Append(frames, [what |-> what, turn |-> t, ok |-> ok])

Refuse(t) ==
  /\ Alive /\ native[t] = "sent"
  /\ native' = [native EXCEPT ![t] = "refused"]
  /\ Send(t, "response", FALSE)
  /\ UNCHANGED <<by, thread, starts, active, resumed, externalVars, drain>>

Accept(t) ==
  /\ Alive /\ native[t] = "sent"
  /\ \A s \in Turns : thread[s] = thread[t] => native[s] # "active"
  /\ native' = [native EXCEPT ![t] = "active"]
  /\ UNCHANGED <<by, thread, told, frames, starts, active, resumed, externalVars, drain>>

Respond(t) ==
  /\ Alive /\ native[t] \in {"active", "over"} /\ "response" \notin told[t]
  /\ Send(t, "response", TRUE)
  /\ UNCHANGED <<by, thread, native, starts, active, resumed, externalVars, drain>>

ReportStarted(t) ==
  /\ Alive /\ native[t] = "active" /\ "started" \notin told[t]
  /\ Send(t, "started", TRUE)
  /\ UNCHANGED <<by, thread, native, starts, active, resumed, externalVars, drain>>

Complete(t) ==
  /\ Alive /\ native[t] = "active" /\ "started" \in told[t]
  /\ ResponsesFirst /\ by[t] = "delegation" => resumed[t] \in {"used", "undone"}
  /\ native' = [native EXCEPT ![t] = "over"]
  /\ Send(t, "completed", TRUE)
  /\ UNCHANGED <<by, thread, starts, active, resumed, externalVars, drain>>

-----------------------------------------------------------------------------
(* an external thread and its subagent *)

\* a turn of text: the thread is busy before the session is asked
ExternalStart ==
  /\ drain = "serving" /\ ~catalogue /\ ~running /\ ~external
  /\ running' = TRUE /\ external' = TRUE
  /\ UNCHANGED <<officialVars, catalogue, tracked, loaded, childRunning, subagent, drain>>

\* a command: the list of commands is asked for first, which is no work
\* that the drain waits for
ListCommands ==
  /\ drain = "serving" /\ ~catalogue /\ ~running
  /\ catalogue' = TRUE
  /\ UNCHANGED <<officialVars, running, external, tracked, loaded, childRunning, subagent, drain>>

\* the list has the command and the thread is free; or neither
CommandStart ==
  /\ Alive /\ catalogue
  /\ catalogue' = FALSE
  /\ \/ ~running /\ ~external /\ running' = TRUE /\ external' = TRUE
     \/ UNCHANGED <<running, external>>
  /\ UNCHANGED <<officialVars, tracked, loaded, childRunning, subagent, drain>>

\* turn.completed of #projectHarnessOutput, or the session refused the turn
ExternalComplete ==
  /\ Alive /\ external /\ (ParentHolds => ~subagent)
  /\ external' = FALSE /\ running' = FALSE
  /\ UNCHANGED <<officialVars, catalogue, tracked, loaded, childRunning, subagent>>
  /\ Signal(HasActiveWork')

\* #trackRunningSubagent and #setSubagentThreadStatus for "active"
SubagentActive ==
  /\ Alive /\ (external \/ subagent)
  /\ subagent' = TRUE /\ tracked' = TRUE
  /\ childRunning' = loaded
  /\ UNCHANGED <<officialVars, catalogue, running, loaded, external, drain>>

\* for "idle": the signal comes before the field of the child is set
SubagentIdle ==
  /\ Alive /\ subagent
  /\ subagent' = FALSE /\ tracked' = FALSE /\ childRunning' = FALSE
  /\ Signal(starts # {} \/ (\E o \in Threads : active[o] # None) \/ running \/ childRunning)
  /\ UNCHANGED <<officialVars, catalogue, running, loaded, external>>

\* the Desktop opens the subagent's thread, which is registered as not running
OpenSubagent ==
  /\ drain = "serving" /\ tracked /\ ~loaded
  /\ loaded' = TRUE
  /\ UNCHANGED <<officialVars, catalogue, running, tracked, childRunning, subagent, external, drain>>

-----------------------------------------------------------------------------
(* the drain *)

Disconnect ==
  /\ drain = "serving"
  /\ drain' = "check"
  /\ UNCHANGED <<officialVars, externalVars>>

\* mutant: a drain does not count starts without a response
CheckActiveOnly ==
  /\ drain = "check"
  /\ drain' = IF (\E o \in Threads : active[o] # None) \/ tracked \/ running \/ childRunning
                THEN "waiting" ELSE "released"
  /\ UNCHANGED <<officialVars, externalVars>>

\* the loop of #waitForActiveWorkToDrain
Check ==
  /\ drain = "check"
  /\ drain' = IF HasActiveWork THEN "waiting" ELSE "released"
  /\ UNCHANGED <<officialVars, externalVars>>

Init ==
  /\ by = [t \in Turns |-> None] /\ thread = [t \in Turns |-> None]
  /\ native = [t \in Turns |-> "none"] /\ told = [t \in Turns |-> {}]
  /\ frames = <<>> /\ starts = {} /\ active = [o \in Threads |-> None]
  /\ resumed = [t \in Turns |-> "none"]
  /\ catalogue = FALSE /\ running = FALSE /\ tracked = FALSE /\ loaded = FALSE /\ childRunning = FALSE
  /\ subagent = FALSE /\ external = FALSE /\ drain = "serving"

Native(t) == Refuse(t) \/ Accept(t) \/ Respond(t) \/ ReportStarted(t) \/ Complete(t)

Next ==
  \/ \E t \in Turns : DesktopStart(t) \/ DelegationStart(t) \/ ForwardFails(t)
                        \/ Resume(t) \/ UndoStart(t) \/ Native(t)
  \/ HandleFrame \/ ExternalStart \/ ListCommands \/ CommandStart \/ ExternalComplete
  \/ SubagentActive \/ SubagentIdle \/ OpenSubagent \/ Disconnect \/ Check

Spec == Init /\ [][Next]_vars

\* frames and continuations are handled; turns and subagents end
FairSpec ==
  /\ Spec
  /\ \A t \in Turns : WF_vars(Native(t)) /\ WF_vars(Resume(t))
  /\ WF_vars(HandleFrame) /\ SF_vars(ExternalComplete) /\ WF_vars(SubagentIdle) /\ WF_vars(Check)

-----------------------------------------------------------------------------
(* Properties *)

\* The frames, the host's tables and the threads have their types; only the
\* Desktop's starts are pending, and only an open child counts as running.
TypeOK ==
  /\ by \in [Turns -> {None, "desktop", "delegation"}]
  /\ thread \in [Turns -> Threads \cup {None}]
  /\ native \in [Turns -> {"none", "sent", "active", "over", "refused"}]
  /\ told \in [Turns -> SUBSET {"response", "started", "completed"}]
  /\ frames \in Seq([what : {"response", "started", "completed"}, turn : Turns, ok : BOOLEAN])
  /\ starts \subseteq {t \in Turns : by[t] = "desktop"}
  /\ active \in [Threads -> Turns \cup {None}]
  /\ resumed \in [Turns -> {"none", "resolved", "used", "undone"}]
  /\ catalogue \in BOOLEAN /\ running \in BOOLEAN /\ tracked \in BOOLEAN /\ loaded \in BOOLEAN
  /\ childRunning \in BOOLEAN /\ subagent \in BOOLEAN /\ external \in BOOLEAN
  /\ (childRunning => loaded)
  /\ drain \in {"serving", "check", "waiting", "released"}

\* openspec/specs/remote-ssh-harness-host/spec.md:37-51: the connections
\* stay while a start the Desktop sent has no answer and until its turn, or
\* the turn of the external session, has really ended.
ReleasedOnlyWhenIdle == drain = "released" =>
  /\ \A t \in Turns : by[t] = "desktop" => native[t] \in {"over", "refused"}
  /\ ~external /\ ~subagent

\* A session whose Desktop left is released once its work has ended.
DrainEnds == (drain # "serving") ~> (drain = "released")
=============================================================================
