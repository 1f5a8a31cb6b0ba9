----------------------------- MODULE Interactions -----------------------------
(***************************************************************************)
(* The questions and approvals of one turn of an external thread, in       *)
(* app-server-host.ts: the session asks (#projectQuestion,                 *)
(* #projectApproval), the Desktop answers, a question expires, the session *)
(* closes it, the turn is interrupted or the thread deleted.               *)
(*                                                                         *)
(* An action runs from one await to the next.  A message counts as sent    *)
(* when it is handed to #writer, which keeps the order; what the session   *)
(* does with a command and the answer it gives are one step.  The promise  *)
(* of the turn's response gate is the set of answers it waits for, as in   *)
(* ExternalTurn.  The session follows the contract of harness-adapter: it  *)
(* closes an interaction once, before the turn completes, and answers      *)
(* invalidState about one that is closed.                                  *)
(*                                                                         *)
(* Bounds: MaxFailures caps the answers the session fails to pass on;      *)
(* Fallible are the interactions they may be about; MaxPending caps what   *)
(* the session asks at once; Deletable says whether the thread may be      *)
(* deleted.                                                                *)
(***************************************************************************)
EXTENDS Naturals, Sequences, FiniteSets

CONSTANTS
  Asked,       \* the interactions of the turn
  Approvals,   \* the approvals among them, the others are questions
  Expiring,    \* questions with expiresAt
  Odd,         \* what the projector throws on, such as a secret question
  Fallible, MaxFailures, MaxPending, Deletable, None

ASSUME InteractionsAssumption ==
  /\ Approvals \subseteq Asked /\ Odd \subseteq Asked /\ Fallible \subseteq Asked
  /\ Expiring \subseteq Asked \ Approvals
  /\ None \notin Asked \cup {"stop", "stopped", "delete", "desktop", "expiry", "refusal", "lost"}
  /\ Asked \cap {"stop", "stopped", "delete"} = {}
  /\ Asked # {} /\ MaxFailures \in Nat /\ MaxPending \in Nat \ {0}
  /\ Deletable \in BOOLEAN

VARIABLES
  native,    \* of each interaction at the session: "new", "pending", "closed"
  work,      \* the session works on the turn
  stopping,  \* it was asked to cancel or close
  closed,    \* the session was closed by thread/delete
  queue,     \* its outputs
  cons,      \* the consumer: "next", "wait", "refuse", "done", "dead"
  event,     \* the output it projects
  waits,     \* the promise it awaits
  gate,      \* responseGates: the answers the promise of the turn waits for
  held,      \* answers that are not written yet
  desk,      \* what #forwardDesktop awaits: None, an answer, "stop", "delete"
  failing,   \* the session failed the answer, the turn is being cancelled
  open,      \* #interactions of the turn's projector
  pending,   \* #pendingDesktopApprovals and #pendingDesktopQuestions
  timer,     \* timeouts that are set
  expiring,  \* #cancelExpiredQuestion calls that await the writer
  ignored,   \* ignoredInteractionIds
  shown,     \* requests the Desktop has got
  answered,  \* those it answered in time
  resolved,  \* those it was told are resolved
  decided,   \* who decided it: None, "desktop", "expiry", the host's "refusal";
             \* "lost" when the refusal failed
  ended,     \* turn/completed was written
  failures

sessionVars == <<native, work, stopping, closed, queue>>
consVars == <<cons, event, waits>>
gateVars == <<gate, held>>
deskVars == <<desk, failing>>
hostVars == <<open, pending, timer, expiring, ignored>>
seenVars == <<shown, answered, resolved, decided, ended>>
vars == <<sessionVars, consVars, gateVars, deskVars, hostVars, seenVars, failures>>

Outputs == [what : {"asked", "closed"}, id : Asked] \cup [what : {"completed"}]

Output(what, i) == [what |-> what, id |-> i]

Decide(i, who) == decided' = [decided EXCEPT ![i] = who]

-----------------------------------------------------------------------------
(* the session *)

\* it takes the answer to a pending interaction, and closes it
Accept(i) ==
  /\ native[i] = "pending"
  /\ native' = [native EXCEPT ![i] = "closed"]
  /\ queue' = Append(queue, Output("closed", i))
  /\ UNCHANGED <<work, stopping, closed, failures>>

\* the interaction is closed: invalidState
TooLate(i) == native[i] = "closed" /\ UNCHANGED <<sessionVars, failures>>

\* the native side does not get the answer
Fail(i) ==
  /\ native[i] = "pending" /\ i \in Fallible /\ failures < MaxFailures
  /\ failures' = failures + 1
  /\ UNCHANGED sessionVars

\* turn.cancel
CancelTurn ==
  /\ stopping' = (stopping \/ work)
  /\ UNCHANGED <<native, work, closed, queue, failures>>

Ask(i) ==
  /\ work /\ ~stopping /\ native[i] = "new"
  /\ Cardinality({j \in Asked : native[j] = "pending"}) < MaxPending
  /\ native' = [native EXCEPT ![i] = "pending"]
  /\ queue' = Append(queue, Output("asked", i))
  /\ UNCHANGED <<work, stopping, closed, consVars, gateVars, deskVars, hostVars, seenVars,
                 failures>>

\* expired, superseded or cancelled
Settle(i) ==
  /\ native[i] = "pending"
  /\ native' = [native EXCEPT ![i] = "closed"]
  /\ queue' = Append(queue, Output("closed", i))
  /\ UNCHANGED <<work, stopping, closed, consVars, gateVars, deskVars, hostVars, seenVars,
                 failures>>

Complete ==
  /\ work /\ \A i \in Asked : native[i] # "pending"
  /\ work' = FALSE
  /\ queue' = Append(queue, [what |-> "completed"])
  /\ UNCHANGED <<native, stopping, closed, consVars, gateVars, deskVars, hostVars, seenVars,
                 failures>>

-----------------------------------------------------------------------------
(* the consumer of the outputs *)

\* an output of the turn: the promise that is in responseGates now
Take ==
  /\ cons = "next" /\ queue # <<>>
  /\ event' = Head(queue) /\ queue' = Tail(queue)
  /\ waits' = gate /\ cons' = "wait"
  /\ UNCHANGED <<native, work, stopping, closed, gateVars, deskVars, hostVars, seenVars,
                 failures>>

EndOfOutputs ==
  /\ cons = "next" /\ queue = <<>> /\ closed /\ ~work
  /\ cons' = "done"
  /\ UNCHANGED <<sessionVars, event, waits, gateVars, deskVars, hostVars, seenVars, failures>>

Passed(what) == cons = "wait" /\ waits \cap held = {} /\ event.what = what

\* #projectApproval, #projectQuestion: the request goes to the Desktop
Project ==
  /\ Passed("asked") /\ event.id \notin Odd
  /\ open' = open \cup {event.id} /\ pending' = pending \cup {event.id}
  /\ timer' = timer \cup ({event.id} \cap Expiring)
  /\ shown' = shown \cup {event.id}
  /\ cons' = "next"
  /\ UNCHANGED <<sessionVars, event, waits, gateVars, deskVars, expiring, ignored,
                 answered, resolved, decided, ended, failures>>

\* the projector throws: the host refuses, and will ignore the end of it
Refuse ==
  /\ Passed("asked") /\ event.id \in Odd
  /\ ignored' = ignored \cup {event.id}
  /\ cons' = "refuse"
  /\ UNCHANGED <<sessionVars, event, waits, gateVars, deskVars, open, pending, timer, expiring,
                 seenVars, failures>>

\* mutant: an accepted refusal is forgotten as well
RefusedAndForgotten ==
  /\ cons = "refuse" /\ Accept(event.id)
  /\ Decide(event.id, "refusal")
  /\ ignored' = ignored \ {event.id}
  /\ cons' = "next"
  /\ UNCHANGED <<event, waits, gateVars, deskVars, open, pending, timer, expiring,
                 shown, answered, resolved, ended>>

\* the session accepts the refusal: #denyApproval, or the question cancelled
RefusalAccepted ==
  /\ cons = "refuse" /\ Accept(event.id)
  /\ Decide(event.id, "refusal")
  /\ cons' = "next"
  /\ UNCHANGED <<event, waits, gateVars, deskVars, hostVars, shown, answered, resolved, ended>>

\* an approval without exactly one deny action cancels the turn
RefusalCancelsTurn ==
  /\ cons = "refuse" /\ event.id \in Approvals /\ work /\ CancelTurn
  /\ Decide(event.id, "refusal")
  /\ cons' = "next"
  /\ UNCHANGED <<event, waits, gateVars, deskVars, hostVars, shown, answered, resolved, ended>>

\* the refusal is not accepted: the end of it is no longer ignored
RefusalFails ==
  /\ cons = "refuse"
  /\ \/ event.id \in Approvals /\ ~work /\ CancelTurn
     \/ TooLate(event.id) \/ Fail(event.id)
  /\ Decide(event.id, "lost")
  /\ ignored' = ignored \ {event.id}
  /\ cons' = "next"
  /\ UNCHANGED <<event, waits, gateVars, deskVars, open, pending, timer, expiring,
                 shown, answered, resolved, ended>>

\* interaction.closed of something the host refused
IgnoreClosed ==
  /\ Passed("closed") /\ event.id \in ignored
  /\ ignored' = ignored \ {event.id}
  /\ cons' = "next"
  /\ UNCHANGED <<sessionVars, event, waits, gateVars, deskVars, open, pending, timer, expiring,
                 seenVars, failures>>

\* mutant: the request stays with the Desktop
ProjectClosedQuietly ==
  /\ Passed("closed") /\ event.id \notin ignored
  /\ open' = open \ {event.id}
  /\ cons' = IF event.id \in open THEN "next" ELSE "dead"
  /\ UNCHANGED <<sessionVars, event, waits, gateVars, deskVars, pending, timer, expiring, ignored,
                 seenVars, failures>>

\* #resolveDesktopApproval, #resolveDesktopQuestion
Resolve(i) ==
  /\ pending' = pending \ {i} /\ timer' = timer \ {i}
  /\ resolved' = resolved \cup (pending \cap {i})

\* interaction.closed: the request is resolved; the projector throws on an
\* interaction it does not know
ProjectClosed ==
  /\ Passed("closed") /\ event.id \notin ignored
  /\ Resolve(event.id)
  /\ open' = open \ {event.id}
  /\ cons' = IF event.id \in open THEN "next" ELSE "dead"
  /\ UNCHANGED <<sessionVars, event, waits, gateVars, deskVars, expiring, ignored,
                 shown, answered, decided, ended, failures>>

\* turn.completed, on which the projector throws while something is open
\* (codex-ui-projector.ts, #completeTurn)
ProjectCompleted ==
  /\ Passed("completed")
  /\ IF open = {} THEN cons' = "next" /\ ended' = TRUE
                  ELSE cons' = "dead" /\ UNCHANGED ended
  /\ UNCHANGED <<sessionVars, event, waits, gateVars, deskVars, hostVars,
                 shown, answered, resolved, decided, failures>>

-----------------------------------------------------------------------------
(* the Desktop *)

\* mutant: the answer stays registered until the session has it
AnswerKeepsEntry(i) ==
  /\ desk = None /\ i \in shown /\ i \in pending
  /\ answered' = answered \cup {i}
  /\ Decide(i, "desktop")
  /\ desk' = i
  /\ UNCHANGED <<sessionVars, consVars, gateVars, failing, hostVars,
                 shown, resolved, ended, failures>>

\* #handleDesktopApprovalResponse, #handleDesktopQuestionResponse; late and
\* repeated answers are dropped.  A malformed one denies or cancels.
Answer(i) ==
  /\ desk = None /\ i \in shown /\ i \in pending
  /\ pending' = pending \ {i} /\ timer' = timer \ {i}
  /\ answered' = answered \cup {i}
  /\ Decide(i, "desktop")
  /\ desk' = i
  /\ UNCHANGED <<sessionVars, consVars, gateVars, failing, open, expiring, ignored,
                 shown, resolved, ended, failures>>

\* mutant: the failure is only reported
RepliedWithoutCancel(i) ==
  /\ desk = i /\ ~failing
  /\ Accept(i) \/ TooLate(i) \/ Fail(i)
  /\ desk' = None /\ UNCHANGED failing
  /\ UNCHANGED <<consVars, gateVars, hostVars, seenVars>>

\* what the session makes of it: a failed approval cancels the turn, a
\* failed question is only reported
Replied(i) ==
  /\ desk = i /\ ~failing
  /\ \/ (Accept(i) \/ TooLate(i)) /\ desk' = None /\ UNCHANGED failing
     \/ Fail(i) /\ i \notin Approvals /\ desk' = None /\ UNCHANGED failing
     \/ Fail(i) /\ i \in Approvals /\ failing' = TRUE /\ UNCHANGED desk
  /\ UNCHANGED <<consVars, gateVars, hostVars, seenVars>>

FailClosed ==
  /\ failing /\ CancelTurn
  /\ failing' = FALSE /\ desk' = None
  /\ UNCHANGED <<consVars, gateVars, hostVars, seenVars>>

\* #cancelExpiredQuestion, and its early return
Expire(i) ==
  /\ i \in timer
  /\ Resolve(i)
  /\ expiring' = expiring \cup (pending \cap {i})
  /\ UNCHANGED <<sessionVars, consVars, gateVars, deskVars, open, ignored,
                 shown, answered, decided, ended, failures>>

\* serverRequest/resolved is written
CancelExpired(i) ==
  /\ i \in expiring
  /\ expiring' = expiring \ {i}
  /\ Decide(i, "expiry")
  /\ Accept(i) \/ TooLate(i) \/ Fail(i)
  /\ UNCHANGED <<consVars, gateVars, deskVars, open, pending, timer, ignored,
                 shown, answered, resolved, ended>>

\* the response to the request that started the turn is written
StartAnswered ==
  /\ "start" \in held
  /\ held' = held \ {"start"}
  /\ UNCHANGED <<sessionVars, consVars, gate, deskVars, hostVars, seenVars, failures>>

\* turn/interrupt: the gate of the turn also waits for its answer
Interrupt ==
  /\ desk = None /\ "start" \notin held /\ "stop" \notin gate /\ ~ended /\ ~closed
  /\ gate' = gate \cup {"stop"} /\ held' = held \cup {"stop"}
  /\ desk' = "stop"
  /\ UNCHANGED <<sessionVars, consVars, failing, hostVars, seenVars, failures>>

Interrupted ==
  /\ desk = "stop" /\ CancelTurn
  /\ desk' = "stopped"
  /\ UNCHANGED <<consVars, gateVars, failing, hostVars, seenVars>>

InterruptAnswered ==
  /\ desk = "stopped"
  /\ held' = held \ {"stop"} /\ desk' = None
  /\ UNCHANGED <<sessionVars, consVars, gate, failing, hostVars, seenVars, failures>>

\* thread/delete closes the session, which settles and ends its outputs
Delete ==
  /\ Deletable /\ desk = None /\ ~closed
  /\ closed' = TRUE /\ stopping' = TRUE /\ desk' = "delete"
  /\ UNCHANGED <<native, work, queue, consVars, gateVars, failing, hostVars, seenVars, failures>>

Deleted ==
  /\ desk = "delete" /\ cons \in {"done", "dead"}
  /\ desk' = None
  /\ UNCHANGED <<sessionVars, consVars, gateVars, failing, hostVars, seenVars, failures>>

-----------------------------------------------------------------------------
Init ==
  /\ native = [i \in Asked |-> "new"] /\ work = TRUE /\ stopping = FALSE /\ closed = FALSE
  /\ queue = <<>> /\ cons = "next" /\ event = [what |-> "completed"] /\ waits = {}
  /\ gate = {"start"} /\ held = {"start"} /\ desk = None /\ failing = FALSE
  /\ open = {} /\ pending = {} /\ timer = {} /\ expiring = {} /\ ignored = {}
  /\ shown = {} /\ answered = {} /\ resolved = {}
  /\ decided = [i \in Asked |-> None] /\ ended = FALSE /\ failures = 0

Consume ==
  \/ Take \/ EndOfOutputs \/ Project \/ Refuse
  \/ RefusalAccepted \/ RefusalCancelsTurn \/ RefusalFails
  \/ IgnoreClosed \/ ProjectClosed \/ ProjectCompleted

Next ==
  \/ \E i \in Asked : \/ Ask(i) \/ Settle(i) \/ Answer(i) \/ Replied(i)
                      \/ Expire(i) \/ CancelExpired(i)
  \/ Complete \/ Consume \/ FailClosed \/ StartAnswered
  \/ Interrupt \/ Interrupted \/ InterruptAnswered \/ Delete \/ Deleted

Spec == Init /\ [][Next]_vars

\* continuations run, timeouts fire, and a session that was asked to stop
\* settles and completes its turn; nobody needs to answer
FairSpec ==
  /\ Spec /\ WF_vars(Consume) /\ WF_vars(StartAnswered) /\ WF_vars(FailClosed)
  /\ WF_vars(Interrupted \/ InterruptAnswered) /\ WF_vars(Deleted)
  /\ WF_vars(stopping /\ (Complete \/ \E i \in Asked : Settle(i)))
  /\ WF_vars(\E i \in Asked : Replied(i))
  /\ WF_vars(\E i \in Asked : Expire(i) \/ CancelExpired(i))

-----------------------------------------------------------------------------
(* Properties *)

\* The tables of the host stay within the interactions of the turn, and a
\* timeout is set only for a question that is still with the Desktop.
TypeOK ==
  /\ native \in [Asked -> {"new", "pending", "closed"}]
  /\ work \in BOOLEAN /\ stopping \in BOOLEAN /\ closed \in BOOLEAN
  /\ queue \in Seq(Outputs) /\ event \in Outputs
  /\ cons \in {"next", "wait", "refuse", "done", "dead"}
  /\ gate \subseteq {"start", "stop"} /\ held \subseteq gate /\ waits \subseteq gate
  /\ desk \in Asked \cup {None, "stop", "stopped", "delete"} /\ failing \in BOOLEAN
  /\ open \subseteq shown /\ pending \subseteq open /\ timer \subseteq pending \cap Expiring
  /\ expiring \subseteq resolved /\ ignored \subseteq Odd
  /\ shown \subseteq Asked \ Odd /\ answered \subseteq shown /\ resolved \subseteq shown
  /\ decided \in [Asked -> {None, "desktop", "expiry", "refusal", "lost"}]
  /\ ended \in BOOLEAN /\ failures \in 0..MaxFailures

\* The Desktop's answer and the expiry of a question race; the session gets
\* one decision about an interaction, and it is not taken back.
OneDecision == [][\A i \in Asked : decided[i] # None => decided'[i] = decided[i]]_vars

\* A request ends on the Desktop in one way: by its answer or by
\* serverRequest/resolved.
AnsweredOrResolved == answered \cap resolved = {}

\* openspec/specs/harness-adapter-approval-interaction-session: once the
\* turn has ended, no request is left on the Desktop and nothing of it in
\* the tables of the host.
NothingLeftBehind == ended =>
  /\ shown = answered \cup resolved
  /\ pending = {} /\ timer = {} /\ ignored = {} /\ open = {}

\* A decision reaches its interaction: what was answered, refused or has
\* expired is closed, if need be by cancelling the turn.
DecisionsArrive == \A i \in Asked :
  (decided[i] \notin {None, "lost"} \/ i \in shown \cap Expiring) ~> (native[i] = "closed")

\* A turn that was interrupted, whose thread is deleted or which the session
\* has completed ends on the Desktop, whatever is pending; all that may keep
\* it from that is the end of an interaction the host failed to refuse.
StoppedTurnEndsUnlessLost == (stopping \/ ~work) ~>
  \/ ended
  \/ cons = "dead" /\ event.what = "closed" /\ decided[event.id] = "lost"
=============================================================================
