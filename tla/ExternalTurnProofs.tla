-------------------------- MODULE ExternalTurnProofs --------------------------
(***************************************************************************)
(* A turn that the Desktop saw succeed has an identity in the mapping      *)
(* store, a thread counts as running while its session works, the consumer *)
(* of the outputs lives, and answers come before events: for any number of *)
(* turns, interrupts and failed writes.                                    *)
(***************************************************************************)
EXTENDS ExternalTurn, TLAPS

\* what the argument needs of the types
Types ==
  /\ pc \in [Turns -> {"new", "list", "execute", "respond", "ended"}]
  /\ kind \in [Turns -> {None, "turn", "command", "delegated", "autonomous"}]
  /\ seen \in [Turns -> {None, "started", "succeeded", "failed"}]
  /\ work \in Turns \cup {None}
  /\ queue \in Seq(Outputs)
  /\ event \in Outputs

\* only a command skips the mapping store, and only one is looked up
OnlyCommandsAreEphemeral == \A t \in Turns :
  t \in ephemeral \/ pc[t] = "list" => kind[t] = "command"

\* past persistTerminalIdentity the output is a success only if it is mapped
PersistedEvent == cons \in {"persist", "announce"} =>
  (event.ok /\ kind[event.turn] # "command" => event.turn \in mapped)

IInv == Types /\ OnlyCommandsAreEphemeral /\ PersistedEvent /\ SuccessIsMapped

LEMMA OutputsAreOutputs ==
  ASSUME NEW what \in {"autonomous", "started", "completed"}, NEW t \in Turns, NEW ok \in BOOLEAN
  PROVE  Output(what, t, ok) \in Outputs
  BY DEF Output, Outputs

LEMMA Queued ==
  ASSUME queue \in Seq(Outputs), NEW o \in Outputs
  PROVE  Append(queue, o) \in Seq(Outputs)
  OBVIOUS

LEMMA Dequeued ==
  ASSUME queue \in Seq(Outputs), queue # <<>>
  PROVE  Head(queue) \in Outputs /\ Tail(queue) \in Seq(Outputs)
  OBVIOUS

\* IInv holds before the first request.
THEOREM InitialState == Init => IInv
<1> SUFFICES ASSUME Init PROVE IInv
  OBVIOUS
<1>1. (CHOOSE t \in Turns : TRUE) \in Turns
  BY ExternalTurnAssumption
<1>2. event \in Outputs
  BY <1>1, OutputsAreOutputs DEF Init
<1>3. Types
  <2>1. /\ pc \in [Turns -> {"new", "list", "execute", "respond", "ended"}]
        /\ kind \in [Turns -> {None, "turn", "command", "delegated", "autonomous"}]
        /\ seen \in [Turns -> {None, "started", "succeeded", "failed"}]
        /\ work \in Turns \cup {None}
    BY DEF Init
  <2>2. queue \in Seq(Outputs)
    BY DEF Init
  <2> QED
    BY <1>2, <2>1, <2>2 DEF Types
<1>4. SuccessIsMapped
  BY ExternalTurnAssumption DEF Init, SuccessIsMapped
<1> QED
  BY <1>3, <1>4 DEF Init, IInv, OnlyCommandsAreEphemeral, PersistedEvent

\* A request that begins gets its kind once; a command is a command before
\* its turn is ephemeral.
LEMMA RequestSteps ==
  ASSUME IInv, NEW t \in Turns,
         StartTurn(t) \/ StartCommand(t) \/ StartDelegated(t) \/ StartAutonomous(t)
  PROVE  IInv'
<1> USE ExternalTurnAssumption DEF IInv, Types, OnlyCommandsAreEphemeral, PersistedEvent,
      SuccessIsMapped, Step, Answer
<1>1. CASE StartTurn(t)
  BY <1>1 DEF StartTurn, MayBegin, TakeUp, hostVars, sessionVars, consVars
<1>2. CASE StartCommand(t)
  BY <1>2 DEF StartCommand, MayBegin, hostVars, sessionVars, consVars
<1>3. CASE StartDelegated(t)
  BY <1>3 DEF Outputs, StartDelegated, MayBegin, TakeUp, hostVars, sessionVars, consVars
<1>4. CASE StartAutonomous(t)
  <2>1. Output("autonomous", t, TRUE) \in Outputs
    BY OutputsAreOutputs
  <2>2. queue' \in Seq(Outputs)
    BY <1>4, <2>1, Queued DEF StartAutonomous
  <2> QED
    BY <1>4, <2>2, ZenonT(30) DEF Outputs, StartAutonomous, hostVars, consVars
<1> QED
  BY <1>1, <1>2, <1>3, <1>4

\* The rest of a request changes neither its kind nor what is persisted.
LEMMA ContinueSteps ==
  ASSUME IInv, NEW t \in Turns, Continue(t) \/ Execute(t)
  PROVE  IInv'
<1> USE ExternalTurnAssumption DEF IInv, Types, OnlyCommandsAreEphemeral, PersistedEvent,
      SuccessIsMapped, Step, Answer
<1>1. CASE Listed(t)
  BY <1>1 DEF Listed, TakeUp, hostVars, sessionVars, consVars
<1>2. CASE Accepted(t)
  BY <1>2 DEF Accepted, hostVars, sessionVars, consVars
<1>3. CASE Rejected(t)
  BY <1>3 DEF Rejected, sessionVars, consVars
<1>4. CASE Respond(t)
  BY <1>4 DEF Respond, hostVars, sessionVars, consVars
<1>5. CASE Execute(t)
  BY <1>5 DEF Execute, reqVars, hostVars, consVars
<1> QED
  BY <1>1, <1>2, <1>3, <1>4, <1>5 DEF Continue

\* Interrupts and deletions only add an output that is a failure.
LEMMA DesktopSteps ==
  ASSUME IInv,
         \/ \E i \in Interrupts : Interrupt(i) \/ Interrupted(i) \/ Release(i) \/ Cancel(i)
         \/ Delete \/ Deleted
  PROVE  IInv'
<1> USE ExternalTurnAssumption DEF IInv, Types, OnlyCommandsAreEphemeral, PersistedEvent,
      SuccessIsMapped
<1>1. ASSUME NEW i \in Interrupts, Interrupt(i) PROVE IInv'
  BY <1>1 DEF Interrupt, reqVars, sessionVars, consVars
<1>2. ASSUME NEW i \in Interrupts, Interrupted(i) PROVE IInv'
  BY <1>2 DEF Interrupted, reqVars, hostVars, sessionVars, consVars
<1>3. ASSUME NEW i \in Interrupts, Release(i) PROVE IInv'
  BY <1>3 DEF Release, reqVars, hostVars, sessionVars, consVars
<1>4. ASSUME NEW i \in Interrupts, Cancel(i) PROVE IInv'
  BY <1>4 DEF Cancel, reqVars, hostVars, sessionVars, consVars
<1>5. CASE Delete
  <2>1. work # None => Output("completed", work, FALSE) \in Outputs
    BY OutputsAreOutputs
  <2>2. queue' \in Seq(Outputs)
    BY <1>5, <2>1, Queued DEF Delete
  <2> QED
    BY <1>5, <2>2 DEF Delete, reqVars, hostVars, consVars
<1>6. CASE Deleted
  BY <1>6 DEF Deleted, reqVars, hostVars, sessionVars, consVars
<1> QED
  BY <1>1, <1>2, <1>3, <1>4, <1>5, <1>6

\* The session adds outputs about the turn it works on.
LEMMA SessionSteps ==
  ASSUME IInv, ReportStarted \/ ReportCompleted
  PROVE  IInv'
<1> USE DEF IInv, Types, OnlyCommandsAreEphemeral, PersistedEvent, SuccessIsMapped
<1>1. CASE ReportStarted
  <2>1. Output("started", work, TRUE) \in Outputs
    BY <1>1, OutputsAreOutputs DEF ReportStarted
  <2>2. queue' \in Seq(Outputs)
    BY <1>1, <2>1, Queued DEF ReportStarted
  <2> QED
    BY <1>1, <2>2 DEF ReportStarted, reqVars, hostVars, consVars
<1>2. CASE ReportCompleted
  <2>1. \A ok \in BOOLEAN : Output("completed", work, ok) \in Outputs
    BY <1>2, OutputsAreOutputs DEF ReportCompleted
  <2>2. queue' \in Seq(Outputs) /\ work' \in Turns \cup {None}
    BY <1>2, <2>1, Queued DEF ReportCompleted
  <2> QED
    BY <1>2, <2>2 DEF ReportCompleted, reqVars, hostVars, consVars
<1> QED
  BY <1>1, <1>2

\* The consumer stores the identity before it passes a success on.
LEMMA ConsumeSteps ==
  ASSUME IInv, Consume
  PROVE  IInv'
<1> USE ExternalTurnAssumption DEF IInv, Types, OnlyCommandsAreEphemeral, PersistedEvent,
      SuccessIsMapped
<1>1. CASE TakeAutonomous
  BY <1>1 DEF TakeAutonomous, hostVars, reqVars
<1>2. CASE TakeTurnEvent
  <2>1. event' \in Outputs /\ queue' \in Seq(Outputs)
    BY <1>2, Dequeued DEF TakeTurnEvent
  <2>2. cons' \notin {"persist", "announce"}
    BY <1>2 DEF TakeTurnEvent
  <2> QED
    BY <1>2, <2>1, <2>2 DEF TakeTurnEvent, hostVars, reqVars
<1>3. CASE EndOfOutputs
  BY <1>3 DEF EndOfOutputs, hostVars, reqVars, sessionVars
<1>4. CASE ProjectStarted
  BY <1>4 DEF ProjectStarted, Passed, hostVars, reqVars, sessionVars
<1>5. CASE Persist
  BY <1>5 DEF Outputs, Persist, Passed, Stored, NotStored, hostVars, reqVars, sessionVars
<1>6. CASE Finish
  BY <1>6 DEF Finish, reqVars, sessionVars
<1>7. CASE Announce
  BY <1>7 DEF Outputs, Announce, hostVars, reqVars, sessionVars
<1> QED
  BY <1>1, <1>2, <1>3, <1>4, <1>5, <1>6, <1>7 DEF Consume

\* Every step keeps IInv.
THEOREM Preserved == IInv /\ [Next]_vars => IInv'
<1> SUFFICES ASSUME IInv, [Next]_vars PROVE IInv'
  OBVIOUS
<1>1. CASE Next
  BY <1>1, RequestSteps, ContinueSteps, DesktopSteps, SessionSteps, ConsumeSteps DEF Next
<1>2. CASE UNCHANGED vars
  BY <1>2 DEF vars, reqVars, hostVars, sessionVars, consVars, IInv, Types,
     OnlyCommandsAreEphemeral, PersistedEvent, SuccessIsMapped
<1> QED
  BY <1>1, <1>2

\* A turn announced as succeeded is one a restarted host can resolve, however
\* commands, interrupts, a deletion and failing writes meet its end.
THEOREM SuccessfulTurnsAreMapped == Spec => []SuccessIsMapped
<1>1. IInv => SuccessIsMapped
  BY DEF IInv
<1> QED
  BY InitialState, Preserved, <1>1, PTL DEF Spec

-----------------------------------------------------------------------------
(* The thread and the session take turns *)

\* the session took the turn, or began it on its own
Works(t) == verdict[t] = "ok" \/ kind[t] = "autonomous"

\* the command is with the session, which has not accepted it
Undecided(t) == pc[t] = "execute" /\ verdict[t] # "ok"

\* the output the consumer has taken is not projected yet
InHand == cons \in {"wait", "persist"}

\* the life of a request, and the one turn that may be undecided
Requests == verdict \in [Turns -> {None, "ok", "error"}] /\ \A t \in Turns :
  /\ kind[t] = None <=> pc[t] = "new"
  /\ pc[t] \in {"new", "list"} => verdict[t] = None
  /\ pc[t] = "respond" => verdict[t] = "ok"
  /\ kind[t] = "autonomous" => pc[t] = "ended" /\ verdict[t] = None
  /\ Undecided(t) => active = t

\* the fields of ExternalThread agree, and the output in hand is about its turn
ThreadAgrees ==
  /\ active \in Turns \cup {None} /\ running \in BOOLEAN /\ (running <=> active # None)
  /\ \A t \in Turns : t \in projected <=> t = active
  /\ InHand => event.turn = active /\ Works(event.turn) /\ event.what # "autonomous"
  /\ cons = "persist" => event.what = "completed"

\* the session reports only turns it works on or has worked on
ReportsAreWork ==
  /\ work # None => Works(work)
  /\ \A n \in 1..Len(queue) : Works(queue[n].turn)

TurnInv == Requests /\ ThreadAgrees /\ ReportsAreWork

LEMMA AppendAt ==
  ASSUME NEW q \in Seq(Outputs), NEW o \in Outputs
  PROVE  /\ Append(q, o) \in Seq(Outputs) /\ Len(q) \in Nat
         /\ Len(Append(q, o)) = Len(q) + 1
         /\ \A n \in 1..Len(q) : Append(q, o)[n] = q[n]
         /\ Append(q, o)[Len(q) + 1] = o
  OBVIOUS

LEMMA TailAt ==
  ASSUME NEW q \in Seq(Outputs), q # <<>>
  PROVE  /\ Tail(q) \in Seq(Outputs) /\ Len(q) \in Nat \ {0}
         /\ Len(Tail(q)) = Len(q) - 1
         /\ \A n \in 1..(Len(q) - 1) : Tail(q)[n] = q[n + 1]
         /\ Head(q) = q[1]
  OBVIOUS

LEMMA InQueue ==
  ASSUME NEW q \in Seq(Outputs), NEW n \in 1..Len(q)
  PROVE  q[n] \in Outputs /\ q[n].turn \in Turns
<1>1. q[n] \in Outputs
  OBVIOUS
<1> QED
  BY <1>1 DEF Outputs

LEMMA TurnInvInit == Init => TurnInv
<1> SUFFICES ASSUME Init PROVE TurnInv
  OBVIOUS
<1>1. Requests
  BY ExternalTurnAssumption DEF Init, Requests, Undecided
<1>2. ThreadAgrees
  BY ExternalTurnAssumption DEF Init, ThreadAgrees, InHand
<1>3. ReportsAreWork
  BY DEF Init, ReportsAreWork
<1> QED
  BY <1>1, <1>2, <1>3 DEF TurnInv

\* what no step takes back: a turn the session has worked on stays one
WorksStay == \A t \in Turns : Works(t) => Works(t)'

LEMMA AgreesKept ==
  ASSUME IInv, ThreadAgrees, WorksStay, UNCHANGED <<running, active, projected, cons, event>>
  PROVE  ThreadAgrees'
  BY DEF IInv, Types, Outputs, ThreadAgrees, WorksStay, InHand

LEMMA AgreesTakenUp ==
  ASSUME IInv, ThreadAgrees, ~running, UNCHANGED <<cons, event>>, NEW t \in Turns, NEW k,
         TakeUp(t, k)
  PROVE  ThreadAgrees'
<1>1. active = None /\ ~InHand
  BY ExternalTurnAssumption DEF IInv, Types, Outputs, ThreadAgrees
<1>2. active' = t /\ running' = TRUE /\ projected' = projected \cup {t}
  BY DEF TakeUp
<1> QED
  BY <1>1, <1>2, ExternalTurnAssumption DEF ThreadAgrees, InHand

LEMMA ReportsKept ==
  ASSUME IInv, ReportsAreWork, WorksStay, work' = work \/ work' = None, queue' = queue
  PROVE  ReportsAreWork'
  BY InQueue DEF IInv, Types, ReportsAreWork, WorksStay

LEMMA ReportsGrow ==
  ASSUME IInv, ReportsAreWork, WorksStay, NEW o \in Outputs, Works(o.turn)',
         work' \in {None, o.turn}, queue' = Append(queue, o)
  PROVE  ReportsAreWork'
<1>1. ASSUME NEW n \in 1..Len(queue') PROVE Works(queue[n].turn)'
  <2>1. CASE n \in 1..Len(queue)
    <3>1. queue'[n] = queue[n] /\ queue[n].turn \in Turns /\ Works(queue[n].turn)
      BY <2>1, InQueue, AppendAt DEF IInv, Types, ReportsAreWork
    <3> QED
      BY <3>1 DEF WorksStay, Works
  <2>2. CASE n = Len(queue) + 1
    <3>1. queue'[n] = o
      BY <2>2, AppendAt DEF IInv, Types
    <3> QED
      BY <3>1 DEF Works
  <2> QED
    BY <2>1, <2>2, AppendAt DEF IInv, Types
<1>2. (work # None)' => Works(work)'
  BY DEF Works
<1> QED
  BY <1>1, <1>2 DEF ReportsAreWork

LEMMA ReportsShrink ==
  ASSUME IInv, ReportsAreWork, WorksStay, work' = work, queue # <<>>, queue' = Tail(queue)
  PROVE  ReportsAreWork'
<1>1. ASSUME NEW n \in 1..Len(queue') PROVE Works(queue[n].turn)'
  <2>1. n + 1 \in 1..Len(queue) /\ queue'[n] = queue[n + 1]
    BY TailAt DEF IInv, Types
  <2>2. queue[n + 1].turn \in Turns /\ Works(queue[n + 1].turn)
    BY <2>1, InQueue DEF IInv, Types, ReportsAreWork
  <2> QED
    BY <2>1, <2>2 DEF WorksStay, Works
<1>2. (work # None)' => Works(work)'
  BY DEF ReportsAreWork, IInv, Types, WorksStay, Works
<1> QED
  BY <1>1, <1>2 DEF ReportsAreWork

LEMMA TurnInvRequests ==
  ASSUME IInv, TurnInv, NEW t \in Turns,
         StartTurn(t) \/ StartCommand(t) \/ StartDelegated(t) \/ Continue(t) \/ Execute(t)
  PROVE  TurnInv'
<1> USE ExternalTurnAssumption DEF TurnInv
<1>1. WorksStay /\ Requests'
  <2> USE DEF IInv, Types, ThreadAgrees, WorksStay, Requests, Works, Undecided, Step, Answer
  <2>1. CASE StartTurn(t)
    BY <2>1 DEF StartTurn, MayBegin, TakeUp, hostVars, sessionVars
  <2>2. CASE StartCommand(t)
    BY <2>2 DEF StartCommand, MayBegin, hostVars, sessionVars
  <2>3. CASE StartDelegated(t)
    BY <2>3 DEF StartDelegated, MayBegin, TakeUp, hostVars, sessionVars
  <2>4. CASE Listed(t)
    BY <2>4 DEF Listed, TakeUp, hostVars, sessionVars, OnlyCommandsAreEphemeral
  <2>5. CASE Accepted(t)
    BY <2>5 DEF Accepted, hostVars, sessionVars
  <2>6. CASE Rejected(t)
    BY <2>6 DEF Rejected, sessionVars
  <2>7. CASE Respond(t)
    BY <2>7 DEF Respond, hostVars, sessionVars
  <2>8. CASE Execute(t)
    BY <2>8 DEF Execute, reqVars, hostVars
  <2> QED
    BY <2>1, <2>2, <2>3, <2>4, <2>5, <2>6, <2>7, <2>8 DEF Continue
<1>2. ThreadAgrees'
  <2>1. cons' = cons /\ event' = event
    BY DEF StartTurn, StartCommand, StartDelegated, Continue, Listed, Accepted, Rejected, Respond,
         Execute, consVars
  <2>2. CASE Rejected(t)
    <3>1. active = t /\ verdict[t] # "ok" /\ kind[t] # "autonomous"
      BY <2>2 DEF Rejected, Requests, Undecided
    <3>2. ~InHand
      BY <3>1 DEF ThreadAgrees, Works
    <3> QED
      BY <2>1, <2>2, <3>1, <3>2 DEF Rejected, ThreadAgrees, InHand
  <2>3. CASE ~running /\ \E k \in {"turn", "command", "delegated"} : TakeUp(t, k)
    BY <2>1, <2>3, AgreesTakenUp
  <2>4. CASE UNCHANGED <<running, active, projected>>
    BY <1>1, <2>1, <2>4, AgreesKept
  <2> QED
    BY <2>2, <2>3, <2>4 DEF StartTurn, StartCommand, StartDelegated, Continue, Listed, Accepted,
      Respond, Execute, hostVars
<1>3. ReportsAreWork'
  <2>1. CASE Execute(t)
    <3>1. queue' = queue /\ (work' = work \/ (work' = t /\ Works(t)'))
      BY <2>1 DEF Execute, Works, Requests
    <3> QED
      BY <1>1, <2>1, <3>1, InQueue DEF IInv, Types, ReportsAreWork, WorksStay
  <2>2. CASE ~Execute(t)
    BY <1>1, <2>2, ReportsKept DEF StartTurn, StartCommand, StartDelegated, Continue, Listed,
      Accepted, Rejected, Respond, sessionVars
  <2> QED
    BY <2>1, <2>2
<1> QED
  BY <1>1, <1>2, <1>3

LEMMA TurnInvDesktop ==
  ASSUME IInv, TurnInv,
         \/ \E i \in Interrupts : Interrupt(i) \/ Interrupted(i) \/ Release(i) \/ Cancel(i)
         \/ Delete \/ Deleted
  PROVE  TurnInv'
<1>1. /\ UNCHANGED <<pc, kind, verdict, running, active, projected, cons, event>>
      /\ work' = work \/ work' = None
  BY DEF Interrupt, Interrupted, Release, Cancel, Delete, Deleted, reqVars, hostVars, sessionVars,
    consVars
<1>2. WorksStay /\ Requests'
  BY <1>1 DEF TurnInv, WorksStay, Works, Requests, Undecided
<1>3. ThreadAgrees'
  BY <1>1, <1>2, AgreesKept DEF TurnInv
<1>4. ReportsAreWork'
  <2>1. CASE Delete /\ work # None
    <3>1. work \in Turns /\ Works(work)
      BY <2>1 DEF IInv, Types, TurnInv, ReportsAreWork
    <3>2. /\ Output("completed", work, FALSE) \in Outputs
          /\ Output("completed", work, FALSE).turn = work
      BY <3>1, OutputsAreOutputs DEF Output
    <3> QED
      BY <1>1, <1>2, <2>1, <3>1, <3>2, ReportsGrow DEF Delete, TurnInv, WorksStay
  <2>2. CASE ~(Delete /\ work # None)
    BY <1>1, <1>2, <2>2, ReportsKept DEF Interrupt, Interrupted, Release, Cancel, Delete, Deleted,
      sessionVars, TurnInv
  <2> QED
    BY <2>1, <2>2
<1> QED
  BY <1>2, <1>3, <1>4 DEF TurnInv

LEMMA TurnInvSession ==
  ASSUME IInv, TurnInv,
         ReportStarted \/ ReportCompleted \/ \E t \in Turns : StartAutonomous(t)
  PROVE  TurnInv'
<1>1. UNCHANGED <<verdict, running, active, projected, cons, event>>
  BY DEF ReportStarted, ReportCompleted, StartAutonomous, hostVars, consVars
<1>2. WorksStay /\ Requests'
  <2> USE ExternalTurnAssumption DEF IInv, Types, TurnInv, WorksStay, Works, Requests, Undecided
  <2>1. ASSUME NEW t \in Turns, StartAutonomous(t) PROVE WorksStay /\ Requests'
    BY <1>1, <2>1 DEF StartAutonomous, Step
  <2>2. CASE ReportStarted \/ ReportCompleted
    BY <1>1, <2>2 DEF ReportStarted, ReportCompleted, reqVars
  <2> QED
    BY <2>1, <2>2
<1>3. ThreadAgrees'
  BY <1>1, <1>2, AgreesKept DEF TurnInv
<1>4. ReportsAreWork'
  <2>1. ASSUME NEW t \in Turns, StartAutonomous(t) PROVE ReportsAreWork'
    <3>1. Output("autonomous", t, TRUE) \in Outputs /\ Output("autonomous", t, TRUE).turn = t
      BY OutputsAreOutputs DEF Output
    <3>2. Works(t)'
      BY <2>1 DEF StartAutonomous, Works, IInv, Types
    <3> QED
      BY <1>2, <2>1, <3>1, <3>2, ReportsGrow DEF StartAutonomous, TurnInv
  <2>2. CASE ReportStarted
    <3>1. work \in Turns /\ Works(work)'
      BY <1>2, <2>2 DEF ReportStarted, IInv, Types, TurnInv, ReportsAreWork, WorksStay
    <3>2. /\ Output("started", work, TRUE) \in Outputs
          /\ Output("started", work, TRUE).turn = work
      BY <3>1, OutputsAreOutputs DEF Output
    <3> QED
      BY <1>2, <2>2, <3>1, <3>2, ReportsGrow DEF ReportStarted, TurnInv
  <2>3. CASE ReportCompleted
    <3>1. PICK t \in Turns : t = work
      BY <2>3 DEF ReportCompleted, IInv, Types
    <3>2. PICK ok \in BOOLEAN : queue' = Append(queue, Output("completed", work, ok))
      BY <2>3 DEF ReportCompleted
    <3>3. /\ Output("completed", work, ok) \in Outputs
          /\ Output("completed", work, ok).turn = work
      BY <3>1, OutputsAreOutputs DEF Output
    <3>4. Works(t)'
      BY <1>2, <2>3, <3>1 DEF ReportCompleted, TurnInv, ReportsAreWork, WorksStay
    <3> QED
      BY <1>2, <2>3, <3>4, <3>1, <3>2, <3>3, ReportsGrow DEF ReportCompleted, TurnInv
  <2> QED
    BY <2>1, <2>2, <2>3
<1> QED
  BY <1>2, <1>3, <1>4 DEF TurnInv

LEMMA TurnInvConsume ==
  ASSUME IInv, TurnInv, Consume
  PROVE  TurnInv'
<1> USE ExternalTurnAssumption DEF TurnInv
<1>1. UNCHANGED <<pc, kind, verdict, work>>
  BY DEF Consume, TakeAutonomous, TakeTurnEvent, EndOfOutputs, ProjectStarted, Persist, Finish,
    Announce, reqVars, sessionVars
<1>2. WorksStay
  BY <1>1 DEF WorksStay, Works
<1>3. CASE TakeAutonomous
  <2>1. Head(queue) \in Outputs /\ Head(queue).turn \in Turns /\ 1 \in 1..Len(queue)
        /\ Head(queue) = queue[1]
    BY <1>3, Dequeued, TailAt DEF TakeAutonomous, IInv, Types, Outputs
  <2>2. Works(Head(queue).turn)
    BY <2>1 DEF ReportsAreWork
  <2>3. ReportsAreWork'
    BY <1>1, <1>2, <1>3, ReportsShrink DEF TakeAutonomous
  <2>4. Requests'
    BY <1>1, <1>3, <2>1, <2>2 DEF TakeAutonomous, Requests, Undecided, Works, ThreadAgrees, hostVars
  <2>5. ThreadAgrees'
    BY <1>3, <2>1, ZenonT(30) DEF TakeAutonomous, ThreadAgrees, InHand, hostVars, IInv, Types
  <2> QED
    BY <2>3, <2>4, <2>5
<1>4. CASE TakeTurnEvent
  <2>1. Head(queue) \in Outputs /\ Head(queue).turn \in Turns /\ 1 \in 1..Len(queue)
        /\ Head(queue) = queue[1]
    BY <1>4, Dequeued, TailAt DEF TakeTurnEvent, IInv, Types, Outputs
  <2>2. Works(Head(queue).turn)
    BY <2>1 DEF ReportsAreWork
  <2>3. ReportsAreWork'
    BY <1>1, <1>2, <1>4, ReportsShrink DEF TakeTurnEvent
  <2>4. Requests'
    BY <1>1, <1>4 DEF TakeTurnEvent, Requests, Undecided, hostVars
  <2>5. ThreadAgrees'
    BY <1>1, <1>4, <2>1, <2>2 DEF TakeTurnEvent, ThreadAgrees, InHand, hostVars, Works
  <2> QED
    BY <2>3, <2>4, <2>5
<1>5. CASE EndOfOutputs \/ ProjectStarted \/ Persist \/ Announce
  <2>1. ReportsAreWork' /\ Requests'
    BY <1>1, <1>2, <1>5, ReportsKept DEF EndOfOutputs, ProjectStarted, Persist, Announce, Requests,
      Undecided, hostVars, sessionVars
  <2>2. ThreadAgrees'
    BY <1>1, <1>5 DEF EndOfOutputs, ProjectStarted, Persist, Announce, Passed, ThreadAgrees, InHand,
      hostVars, IInv, Types, Outputs, Works
  <2> QED
    BY <2>1, <2>2
<1>6. CASE Finish
  <2>1. ReportsAreWork'
    BY <1>1, <1>2, <1>6, ReportsKept DEF Finish, sessionVars
  <2>2. event.turn = active /\ Works(active) /\ event' = event
    BY <1>6 DEF Finish, ThreadAgrees, InHand
  <2>3. Requests'
    BY <1>1, <1>6, <2>2 DEF Finish, Requests, Undecided, Works
  <2>4. ThreadAgrees'
    BY <1>6, <2>2 DEF Finish, ThreadAgrees, InHand
  <2> QED
    BY <2>1, <2>3, <2>4
<1> QED
  BY <1>3, <1>4, <1>5, <1>6 DEF Consume

LEMMA TurnInvPreserved == IInv /\ TurnInv /\ [Next]_vars => TurnInv'
<1> SUFFICES ASSUME IInv, TurnInv, [Next]_vars PROVE TurnInv'
  OBVIOUS
<1>1. CASE Next
  BY <1>1, TurnInvRequests, TurnInvDesktop, TurnInvSession, TurnInvConsume DEF Next
<1>2. CASE UNCHANGED vars
  BY <1>2 DEF vars, reqVars, hostVars, sessionVars, consVars, TurnInv, Requests, ThreadAgrees,
     ReportsAreWork, Works, Undecided, InHand
<1> QED
  BY <1>1, <1>2

-----------------------------------------------------------------------------
(* The outputs on their way continue the turn the thread is in: read in    *)
(* order they end in the turn the session works on.                        *)

\* the turn the consumer leaves off with
Base == IF InHand /\ event.what = "completed" THEN None ELSE active

\* the turn after the n-th output on its way
After(n) == IF n = 0 THEN Base
            ELSE IF queue[n].what = "completed" THEN None ELSE queue[n].turn

Chained == \A n \in 1..Len(queue) :
  IF queue[n].what = "autonomous" THEN After(n - 1) = None
                                  ELSE queue[n].turn = After(n - 1)

\* after the last output: what the session works on, or was not yet asked to
Tip == After(Len(queue))

TipIsCurrent ==
  /\ Tip # None => Tip = work \/ Undecided(Tip)
  /\ work # None => Tip = work
  /\ \A t \in Turns : Undecided(t) => Tip = t

\* no exception has ended the consumer
ConsumerLives == cons # "dead"

OrderInv == Chained /\ TipIsCurrent /\ ConsumerLives

LEMMA AfterType ==
  ASSUME IInv, ThreadAgrees, NEW n \in 0..Len(queue)
  PROVE  After(n) \in Turns \cup {None}
<1>1. CASE n = 0
  BY <1>1 DEF After, Base, ThreadAgrees
<1>2. CASE n \in 1..Len(queue)
  BY <1>2, InQueue DEF After, IInv, Types
<1> QED
  BY <1>1, <1>2

\* nothing is on its way but a turn of the session's own when the thread is
\* free, and nothing at all when the Host has not seen such a turn
LEMMA FreeThreadIsQuiet ==
  ASSUME IInv, TurnInv, OrderInv, ~running, ~Unseen
  PROVE  queue = <<>> /\ work = None /\ Base = None /\ ~InHand /\ \A t \in Turns : ~Undecided(t)
<1>1. active = None /\ Base = None /\ ~InHand
  BY ExternalTurnAssumption DEF IInv, Types, Outputs, TurnInv, ThreadAgrees, Base
<1>2. queue = <<>>
  <2> SUFFICES ASSUME queue # <<>> PROVE FALSE
    OBVIOUS
  <2>1. 1 \in 1..Len(queue) /\ queue[1] \in Outputs /\ queue[1].turn \in Turns
    BY TailAt, InQueue DEF IInv, Types
  <2>2. queue[1].turn = After(0)
    BY <2>1 DEF OrderInv, Chained, Unseen
  <2> QED
    BY <1>1, <2>1, <2>2, ExternalTurnAssumption DEF After
<1>3. Tip = None
  BY <1>1, <1>2 DEF Tip, After
<1> QED
  BY <1>1, <1>2, <1>3, ExternalTurnAssumption DEF OrderInv, TipIsCurrent

\* while a command is undecided nothing is on its way
LEMMA UndecidedIsQuiet ==
  ASSUME IInv, TurnInv, OrderInv, NEW t \in Turns, Undecided(t)
  PROVE  queue = <<>> /\ active = t /\ work = None /\ ~InHand
         /\ \A u \in Turns : Undecided(u) => u = t
<1>1. active = t /\ Tip = t /\ ~Works(t) /\ t # None
  BY ExternalTurnAssumption DEF TurnInv, Requests, OrderInv, TipIsCurrent, Works, Undecided
<1>2. ~InHand
  BY <1>1 DEF TurnInv, ThreadAgrees
<1>3. queue = <<>>
  <2> SUFFICES ASSUME queue # <<>> PROVE FALSE
    OBVIOUS
  <2>1. Len(queue) \in 1..Len(queue) /\ Len(queue) # 0
    BY TailAt DEF IInv, Types
  <2>2. Works(queue[Len(queue)].turn)
    BY <2>1 DEF TurnInv, ReportsAreWork
  <2> QED
    BY <1>1, <2>1, <2>2 DEF Tip, After
<1>4. work = None
  BY <1>1 DEF OrderInv, TipIsCurrent, TurnInv, ReportsAreWork
<1> QED
  BY <1>1, <1>2, <1>3, <1>4 DEF OrderInv, TipIsCurrent

\* A step that moves neither the outputs nor the thread.
LEMMA OrderKept ==
  ASSUME IInv, TurnInv, OrderInv, UNCHANGED <<queue, work>>, Base' = Base, ConsumerLives',
         \A t \in Turns : Undecided(t)' <=> Undecided(t)
  PROVE  OrderInv'
<1>1. \A n : After(n)' = After(n)
  BY DEF After
<1>2. Tip' = Tip /\ Chained'
  BY <1>1 DEF Tip, OrderInv, Chained
<1>3. Tip \in Turns \cup {None}
  BY AfterType DEF Tip, TurnInv, IInv, Types
<1> QED
  BY <1>2, <1>3 DEF OrderInv, TipIsCurrent, Undecided

LEMMA OrderGrows ==
  ASSUME IInv, TurnInv, OrderInv, NEW o \in Outputs, queue' = Append(queue, o), Base' = Base,
         IF o.what = "autonomous" THEN Tip = None ELSE o.turn = Tip,
         work' = IF o.what = "completed" THEN None ELSE o.turn,
         \A t \in Turns : ~Undecided(t)', ConsumerLives'
  PROVE  OrderInv'
<1>1. /\ Len(queue) \in Nat /\ Len(queue') = Len(queue) + 1 /\ queue'[Len(queue) + 1] = o
      /\ \A n \in 1..Len(queue) : queue'[n] = queue[n]
  BY AppendAt DEF IInv, Types
<1>2. \A n \in 0..Len(queue) : After(n)' = After(n)
  BY <1>1 DEF After
<1>3. Tip' = work'
  BY <1>1 DEF Tip, After
<1>4. Chained'
  <2> SUFFICES ASSUME NEW n \in 1..Len(queue')
               PROVE  IF queue'[n].what = "autonomous" THEN After(n - 1)' = None
                                                       ELSE queue'[n].turn = After(n - 1)'
    BY DEF Chained
  <2>1. CASE n \in 1..Len(queue)
    BY <1>1, <1>2, <2>1 DEF OrderInv, Chained
  <2>2. CASE n = Len(queue) + 1
    BY <1>1, <1>2, <2>2 DEF Tip
  <2> QED
    BY <1>1, <2>1, <2>2
<1> QED
  BY <1>3, <1>4 DEF OrderInv, TipIsCurrent

\* The consumer takes an output: what it leaves off with moves along.
LEMMA OrderShrinks ==
  ASSUME IInv, TurnInv, OrderInv, queue # <<>>, queue' = Tail(queue), Base' = After(1), ConsumerLives',
         work' = work, \A t \in Turns : Undecided(t)' <=> Undecided(t)
  PROVE  OrderInv'
<1>1. /\ Len(queue) \in Nat \ {0} /\ Len(queue') = Len(queue) - 1
      /\ \A n \in 1..Len(queue') : queue'[n] = queue[n + 1]
  BY TailAt DEF IInv, Types
<1>2. \A n \in 0..Len(queue') : After(n)' = After(n + 1)
  BY <1>1 DEF After
<1>3. Tip' = Tip
  BY <1>1, <1>2 DEF Tip
<1>4. Chained'
  <2> SUFFICES ASSUME NEW n \in 1..Len(queue')
               PROVE  IF queue'[n].what = "autonomous" THEN After(n - 1)' = None
                                                       ELSE queue'[n].turn = After(n - 1)'
    BY DEF Chained
  <2>1. n + 1 \in 1..Len(queue) /\ After(n - 1)' = After(n) /\ queue'[n] = queue[n + 1]
    BY <1>1, <1>2
  <2>2. IF queue[n + 1].what = "autonomous" THEN After((n + 1) - 1) = None
                                            ELSE queue[n + 1].turn = After((n + 1) - 1)
    BY <2>1 DEF OrderInv, Chained
  <2> QED
    BY <2>1, <2>2
<1>5. Tip \in Turns \cup {None}
  BY AfterType DEF Tip, TurnInv, IInv, Types
<1> QED
  BY <1>3, <1>4, <1>5 DEF OrderInv, TipIsCurrent, Undecided

LEMMA OrderInit == Init => OrderInv
<1> SUFFICES ASSUME Init PROVE OrderInv
  OBVIOUS
<1>1. Len(queue) = 0 /\ Base = None /\ \A t \in Turns : ~Undecided(t)
  BY DEF Init, Base, InHand, Undecided
<1> QED
  BY <1>1 DEF Init, OrderInv, Chained, TipIsCurrent, ConsumerLives, Tip, After

\* A turn is taken up only when nothing is on its way.
LEMMA OrderTakeUp ==
  ASSUME IInv, TurnInv, OrderInv, ~running, ~Unseen, NEW t \in Turns, active' = t,
         UNCHANGED <<queue, work, cons, event>>, Undecided(t)',
         \A u \in Turns \ {t} : Undecided(u)' <=> Undecided(u)
  PROVE  OrderInv'
<1>1. queue = <<>> /\ work = None /\ ~InHand /\ \A u \in Turns : ~Undecided(u)
  BY FreeThreadIsQuiet
<1>2. Base' = t
  BY <1>1 DEF Base, InHand
<1>3. Tip' = t
  BY <1>1, <1>2 DEF Tip, After
<1>4. Undecided(Tip)'
  BY <1>3 DEF Undecided
<1> QED
  BY <1>1, <1>3, <1>4 DEF OrderInv, Chained, TipIsCurrent, ConsumerLives

LEMMA OrderRequests ==
  ASSUME QuietAutonomous, IInv, TurnInv, OrderInv, NEW t \in Turns,
         StartTurn(t) \/ StartCommand(t) \/ StartDelegated(t) \/ Continue(t)
  PROVE  OrderInv'
<1>1. UNCHANGED <<queue, work, cons, event, verdict>>
  BY DEF StartTurn, StartCommand, StartDelegated, Continue, Listed, Accepted, Rejected, Respond,
    sessionVars, consVars
<1>2. \A u \in Turns \ {t} : Undecided(u)' <=> Undecided(u)
  BY <1>1 DEF StartTurn, StartCommand, StartDelegated, Continue, Listed, Accepted, Rejected,
    Respond, Step, Undecided, IInv, Types
<1>3. CASE Rejected(t)
  <2>1. Undecided(t) /\ ~Undecided(t)'
    BY <1>3 DEF Rejected, Undecided, Step, IInv, Types
  <2>2. queue = <<>> /\ work = None /\ ~InHand /\ \A u \in Turns : ~Undecided(u)'
    BY <1>2, <2>1, UndecidedIsQuiet
  <2>3. Base' = None
    BY <1>1, <1>3, <2>2 DEF Base, Rejected, InHand
  <2> QED
    BY <1>1, <2>2, <2>3 DEF OrderInv, Chained, TipIsCurrent, ConsumerLives, Tip, After
<1>4. CASE active' = t /\ ~running /\ ~Unseen /\ pc' = [pc EXCEPT ![t] = "execute"]
           /\ pc[t] \in {"new", "list"}
  <2>1. Undecided(t)'
    BY <1>1, <1>4, ExternalTurnAssumption DEF Undecided, TurnInv, Requests, IInv, Types
  <2> QED
    BY <1>1, <1>2, <1>4, <2>1, OrderTakeUp
<1>5. CASE active' = active /\ (Undecided(t)' <=> Undecided(t))
  <2>1. Base' = Base
    BY <1>1, <1>5 DEF Base, InHand
  <2> QED
    BY <1>1, <1>2, <1>5, <2>1, OrderKept DEF OrderInv, ConsumerLives
<1>6. ~Rejected(t) => \/ active' = active /\ (Undecided(t)' <=> Undecided(t))
                      \/ /\ active' = t /\ ~running /\ ~Unseen
                         /\ pc' = [pc EXCEPT ![t] = "execute"] /\ pc[t] \in {"new", "list"}
  <2> USE DEF Step, Undecided, IInv, Types, hostVars
  <2>1. CASE StartTurn(t)
    BY <2>1, <1>1 DEF StartTurn, MayBegin, TakeUp
  <2>2. CASE StartCommand(t)
    BY <2>2, <1>1 DEF StartCommand, MayBegin
  <2>3. CASE StartDelegated(t)
    BY <2>3, <1>1 DEF StartDelegated, MayBegin, TakeUp
  <2>4. CASE Listed(t)
    BY <2>4, <1>1 DEF Listed, TakeUp
  <2>5. CASE Accepted(t) \/ Respond(t)
    BY <2>5, <1>1 DEF Accepted, Respond
  <2> QED
    BY <2>1, <2>2, <2>3, <2>4, <2>5 DEF Continue
<1> QED
  BY <1>3, <1>4, <1>5, <1>6

LEMMA OrderSession ==
  ASSUME QuietAutonomous, IInv, TurnInv, OrderInv,
         \/ \E t \in Turns : Execute(t) \/ StartAutonomous(t)
         \/ ReportStarted \/ ReportCompleted \/ Delete
  PROVE  OrderInv'
<1>1. UNCHANGED <<active, cons, event>> /\ Base' = Base /\ ConsumerLives'
  BY DEF Execute, StartAutonomous, ReportStarted, ReportCompleted, Delete, hostVars, consVars, Base,
    InHand, OrderInv, ConsumerLives
<1>2. ASSUME NEW t \in Turns, Execute(t) PROVE OrderInv'
  <2>1. Undecided(t) /\ t # None
    BY <1>2, ExternalTurnAssumption DEF Execute, Undecided
  <2>2. queue = <<>> /\ active = t /\ work = None /\ Tip = t
        /\ \A u \in Turns : Undecided(u) => u = t
    BY <2>1, UndecidedIsQuiet DEF OrderInv, TipIsCurrent
  <2>3. queue' = queue /\ Tip' = t
    BY <1>1, <1>2, <2>2 DEF Execute, Tip, After
  <2>4. \A u \in Turns : Undecided(u)' => u = t
    BY <1>2, <2>2 DEF Execute, Undecided, reqVars, TurnInv, Requests
  <2>5. work' = t \/ (work' = None /\ Undecided(t)')
    BY <1>2, <2>1, <2>2 DEF Execute, Undecided, reqVars, TurnInv, Requests
  <2>6. (Undecided(t)' => Undecided(Tip)') /\ Chained'
    BY <2>2, <2>3 DEF Undecided, Chained
  <2> QED
    BY <1>1, <2>1, <2>3, <2>4, <2>5, <2>6 DEF OrderInv, TipIsCurrent
<1>3. ASSUME NEW t \in Turns, StartAutonomous(t) PROVE OrderInv'
  <2>1. /\ Output("autonomous", t, TRUE) \in Outputs
        /\ Output("autonomous", t, TRUE).turn = t
        /\ Output("autonomous", t, TRUE).what = "autonomous"
    BY OutputsAreOutputs DEF Output
  <2>2. \A u \in Turns : ~Undecided(u) /\ ~Undecided(u)'
    BY <1>3 DEF StartAutonomous, Undecided, Step, IInv, Types
  <2>3. Tip = None
    <3>1. Tip \in Turns \cup {None}
      BY AfterType DEF Tip, TurnInv, IInv, Types
    <3> QED
      BY <1>3, <2>2, <3>1 DEF StartAutonomous, OrderInv, TipIsCurrent
  <2> QED
    BY <1>1, <1>3, <2>1, <2>2, <2>3, OrderGrows DEF StartAutonomous
<1>4. CASE work # None /\ (ReportStarted \/ ReportCompleted \/ Delete)
  <2>1. PICK t \in Turns : t = work /\ t = Tip
    BY <1>4 DEF IInv, Types, OrderInv, TipIsCurrent
  <2>2. \A u \in Turns : ~Undecided(u)
    BY <1>4, UndecidedIsQuiet
  <2>3. \A u \in Turns : ~Undecided(u)'
    BY <1>4, <2>2 DEF ReportStarted, ReportCompleted, Delete, Undecided, reqVars
  <2>4. CASE ReportStarted
    <3>1. LET o == Output("started", t, TRUE)
          IN  o \in Outputs /\ o.turn = t /\ o.what = "started"
      BY OutputsAreOutputs DEF Output
    <3> QED
      BY <1>1, <2>1, <2>3, <2>4, <3>1, OrderGrows DEF ReportStarted
  <2>5. CASE ReportCompleted \/ Delete
    <3>1. PICK ok \in BOOLEAN : queue' = Append(queue, Output("completed", t, ok))
      BY <1>4, <2>1, <2>5 DEF ReportCompleted, Delete
    <3>2. LET o == Output("completed", t, ok)
          IN  o \in Outputs /\ o.turn = t /\ o.what = "completed"
      BY OutputsAreOutputs DEF Output
    <3>3. work' = None
      BY <2>5 DEF ReportCompleted, Delete
    <3> QED
      BY <1>1, <2>1, <2>3, <3>1, <3>2, <3>3, OrderGrows
  <2> QED
    BY <1>4, <2>4, <2>5
<1>5. CASE Delete /\ work = None
  BY <1>1, <1>5, OrderKept DEF Delete, Undecided, reqVars
<1> QED
  BY <1>2, <1>3, <1>4, <1>5 DEF ReportStarted, ReportCompleted

LEMMA OrderConsume ==
  ASSUME IInv, TurnInv, OrderInv, Consume
  PROVE  OrderInv'
<1>1. work' = work /\ \A t \in Turns : Undecided(t)' <=> Undecided(t)
  BY DEF Consume, TakeAutonomous, TakeTurnEvent, EndOfOutputs, ProjectStarted, Persist, Finish,
    Announce, reqVars, sessionVars, Undecided
<1>2. CASE TakeAutonomous \/ TakeTurnEvent
  <2>1. /\ queue # <<>> /\ Head(queue) = queue[1] /\ 1 \in 1..Len(queue)
        /\ queue[1] \in Outputs /\ queue[1].turn \in Turns /\ queue[1].turn # None
        /\ cons = "next" /\ queue' = Tail(queue) /\ Base = active
    BY <1>2, TailAt, InQueue, ExternalTurnAssumption
       DEF TakeAutonomous, TakeTurnEvent, IInv, Types, Base, InHand
  <2>2. IF queue[1].what = "autonomous" THEN active = None ELSE queue[1].turn = active
    BY <2>1 DEF OrderInv, Chained, After
  <2>3. Base' = After(1) /\ ConsumerLives'
    <3>1. CASE TakeAutonomous
      <4>1. active = None /\ ~running
        BY <2>1, <2>2, <3>1 DEF TakeAutonomous, TurnInv, ThreadAgrees
      <4> QED
        BY <2>1, <3>1, <4>1 DEF TakeAutonomous, Base, InHand, After, ConsumerLives
    <3>2. CASE TakeTurnEvent
      <4>1. queue[1].turn = active /\ queue[1].turn \in projected
        BY <2>1, <2>2, <3>2 DEF TakeTurnEvent, TurnInv, ThreadAgrees
      <4> QED
        BY <2>1, <3>2, <4>1 DEF TakeTurnEvent, Base, InHand, After, ConsumerLives, hostVars
    <3> QED
      BY <1>2, <3>1, <3>2
  <2> QED
    BY <1>1, <2>1, <2>3, OrderShrinks
<1>3. CASE EndOfOutputs \/ ProjectStarted \/ Persist \/ Finish \/ Announce
  <2>1. queue' = queue /\ ConsumerLives'
    BY <1>3 DEF EndOfOutputs, ProjectStarted, Persist, Finish, Announce, sessionVars, ConsumerLives
  <2>2. Base' = Base
    BY <1>3 DEF EndOfOutputs, ProjectStarted, Persist, Finish, Announce, Passed, Base, InHand,
      hostVars, TurnInv, ThreadAgrees, IInv, Types, Outputs
  <2> QED
    BY <1>1, <2>1, <2>2, OrderKept
<1> QED
  BY <1>2, <1>3 DEF Consume

LEMMA OrderPreserved ==
  ASSUME QuietAutonomous
  PROVE  IInv /\ TurnInv /\ OrderInv /\ [Next]_vars => OrderInv'
<1> SUFFICES ASSUME IInv, TurnInv, OrderInv, [Next]_vars PROVE OrderInv'
  OBVIOUS
<1>1. CASE UNCHANGED vars
       \/ (\E i \in Interrupts : Interrupt(i) \/ Interrupted(i) \/ Release(i) \/ Cancel(i))
       \/ Deleted
  <2>1. UNCHANGED <<queue, work, active, cons, event, pc, verdict>>
    BY <1>1 DEF Interrupt, Interrupted, Release, Cancel, Deleted, vars, reqVars, hostVars,
      sessionVars, consVars
  <2> QED
    BY <2>1, OrderKept DEF Base, InHand, Undecided, OrderInv, ConsumerLives
<1> QED
  BY <1>1, OrderRequests, OrderSession, OrderConsume DEF Next

\* What the session works on is what the thread runs or what the Host is
\* about to see: no drain closes a session at work.  The surroundings keep
\* QuietAutonomous.
THEOREM BusyThreads ==
  ASSUME QuietAutonomous
  PROVE  Spec => []BusyWhileSessionWorks
<1>1. IInv /\ TurnInv /\ OrderInv => BusyWhileSessionWorks
  <2> SUFFICES ASSUME IInv, TurnInv, OrderInv, work # None, ~running, ~Unseen PROVE FALSE
    BY DEF BusyWhileSessionWorks
  <2> QED
    BY FreeThreadIsQuiet
<1>2. IInv /\ TurnInv /\ OrderInv /\ [Next]_vars => OrderInv'
  BY OrderPreserved
<1> QED
  BY InitialState, Preserved, TurnInvInit, TurnInvPreserved, OrderInit, <1>1, <1>2, PTL DEF Spec

\* The consumer of a session's outputs never meets an output its thread does
\* not expect, so no exception ends it and every output is projected.
THEOREM ConsumersLive ==
  ASSUME QuietAutonomous
  PROVE  Spec => []ConsumerLives
<1>1. OrderInv => ConsumerLives
  BY DEF OrderInv
<1>2. IInv /\ TurnInv /\ OrderInv /\ [Next]_vars => OrderInv'
  BY OrderPreserved
<1> QED
  BY InitialState, Preserved, TurnInvInit, TurnInvPreserved, OrderInit, <1>1, <1>2, PTL DEF Spec

-----------------------------------------------------------------------------
(* Answers are written before what they announce *)

\* the consumer has the end of the turn in hand, or is about to announce it
Ending == (InHand /\ event.what = "completed") \/ cons = "announce"

\* the end of a turn is the last that is heard of it
EndsOnce ==
  /\ Ending => /\ Works(event.turn) /\ work # event.turn
               /\ \A n \in 1..Len(queue) : queue[n].turn # event.turn
  /\ \A m \in 1..Len(queue) : queue[m].what = "completed" =>
       /\ work # queue[m].turn
       /\ \A n \in 1..Len(queue) : n > m => queue[n].turn # queue[m].turn

\* a turn of the session's own is new to the Host
BeginsOnce ==
  /\ \A n \in 1..Len(queue) : queue[n].what = "autonomous" =>
       /\ queue[n].turn # active
       /\ \A m \in 1..Len(queue) : m < n => queue[m].turn # queue[n].turn
  /\ active # None => pc[active] \notin {"new", "list"}

ReportInv == EndsOnce /\ BeginsOnce

LEMMA ReportInit == Init => ReportInv
  BY DEF Init, ReportInv, EndsOnce, BeginsOnce, Ending, InHand, Output

\* no output tells of a turn the session has not begun
LEMMA NotYetReported ==
  ASSUME IInv, TurnInv, NEW t \in Turns, ~Works(t)
  PROVE  /\ work # t
         /\ \A n \in 1..Len(queue) : queue[n].turn # t
  BY ExternalTurnAssumption DEF TurnInv, ReportsAreWork

LEMMA TurnsAreTurns ==
  ASSUME IInv
  PROVE  /\ event.turn \in Turns /\ event.turn # None
         /\ \A n \in 1..Len(queue) : queue[n].turn \in Turns /\ queue[n].turn # None
<1>1. event.turn \in Turns
  BY DEF IInv, Types, Outputs
<1>2. \A n \in 1..Len(queue) : queue[n].turn \in Turns
  BY InQueue DEF IInv, Types
<1> QED
  BY <1>1, <1>2, ExternalTurnAssumption

LEMMA EndsKept ==
  ASSUME IInv, EndsOnce, WorksStay, UNCHANGED <<queue, cons, event>>,
         \/ work' = work \/ work' = None
         \/ work' \in Turns /\ (Ending => work' # event.turn)
            /\ \A n \in 1..Len(queue) : queue[n].turn # work'
  PROVE  EndsOnce'
<1>1. event.turn \in Turns /\ event.turn # None
      /\ \A n \in 1..Len(queue) : queue[n].turn \in Turns /\ queue[n].turn # None
  BY TurnsAreTurns
<1>2. Ending' = Ending /\ (Ending => Works(event.turn)')
  BY <1>1 DEF Ending, InHand, EndsOnce, WorksStay, Works
<1> QED
  BY <1>1, <1>2 DEF EndsOnce

LEMMA EndsGrow ==
  ASSUME IInv, EndsOnce, WorksStay, UNCHANGED <<cons, event>>, NEW o \in Outputs,
         queue' = Append(queue, o), work' = IF o.what = "completed" THEN None ELSE o.turn,
         Ending => o.turn # event.turn,
         \A m \in 1..Len(queue) : queue[m].what = "completed" => o.turn # queue[m].turn
  PROVE  EndsOnce'
<1>0. o.turn \in Turns
  BY DEF Outputs
<1>1. event.turn \in Turns /\ event.turn # None /\ o.turn \in Turns /\ o.turn # None
      /\ \A n \in 1..Len(queue) : queue[n].turn \in Turns /\ queue[n].turn # None
  BY <1>0, TurnsAreTurns, ExternalTurnAssumption
<1>2. /\ Len(queue) \in Nat /\ Len(queue') = Len(queue) + 1 /\ queue'[Len(queue) + 1] = o
      /\ \A n \in 1..Len(queue) : queue'[n] = queue[n]
  BY AppendAt DEF IInv, Types
<1>3. Ending' = Ending /\ (Ending => Works(event.turn)')
  BY <1>1 DEF Ending, InHand, EndsOnce, WorksStay, Works
<1>4. Ending => /\ work' # event.turn
                /\ \A n \in 1..Len(queue') : queue'[n].turn # event.turn
  BY <1>1, <1>2 DEF EndsOnce
<1>5. ASSUME NEW m \in 1..Len(queue'), queue'[m].what = "completed"
      PROVE  /\ work' # queue'[m].turn
             /\ \A n \in 1..Len(queue') : n > m => queue'[n].turn # queue'[m].turn
  <2>1. CASE m \in 1..Len(queue)
    BY <1>1, <1>2, <1>5, <2>1 DEF EndsOnce
  <2>2. CASE m = Len(queue) + 1
    BY <1>1, <1>2, <1>5, <2>2
  <2> QED
    BY <1>2, <2>1, <2>2
<1> QED
  BY <1>3, <1>4, <1>5 DEF EndsOnce

LEMMA BeginsGrow ==
  ASSUME IInv, BeginsOnce, NEW o \in Outputs, queue' = Append(queue, o), active' = active,
         active # None => pc'[active] = pc[active],
         o.what = "autonomous" => /\ o.turn # active
                                  /\ \A n \in 1..Len(queue) : queue[n].turn # o.turn
  PROVE  BeginsOnce'
<1>1. /\ Len(queue) \in Nat /\ Len(queue') = Len(queue) + 1 /\ queue'[Len(queue) + 1] = o
      /\ \A n \in 1..Len(queue) : queue'[n] = queue[n]
  BY AppendAt DEF IInv, Types
<1>2. ASSUME NEW n \in 1..Len(queue'), queue'[n].what = "autonomous"
      PROVE  /\ queue'[n].turn # active
             /\ \A m \in 1..Len(queue') : m < n => queue'[m].turn # queue'[n].turn
  <2>1. CASE n \in 1..Len(queue)
    BY <1>1, <1>2, <2>1 DEF BeginsOnce
  <2>2. CASE n = Len(queue) + 1
    BY <1>1, <1>2, <2>2
  <2> QED
    BY <1>1, <2>1, <2>2
<1> QED
  BY <1>2 DEF BeginsOnce

LEMMA ReportRequests ==
  ASSUME IInv, TurnInv, ReportInv, NEW t \in Turns,
         StartTurn(t) \/ StartCommand(t) \/ StartDelegated(t) \/ Continue(t) \/ Execute(t)
  PROVE  ReportInv'
<1>1. UNCHANGED <<queue, cons, event>> /\ WorksStay
  <2> USE DEF IInv, Types, TurnInv, Requests, WorksStay, Works, Step
  <2>1. CASE StartTurn(t)
    BY <2>1 DEF StartTurn, MayBegin, sessionVars, consVars
  <2>2. CASE StartCommand(t)
    BY <2>2 DEF StartCommand, MayBegin, sessionVars, consVars
  <2>3. CASE StartDelegated(t)
    BY <2>3 DEF StartDelegated, MayBegin, sessionVars, consVars
  <2>4. CASE Continue(t)
    BY <2>4 DEF Continue, Listed, Accepted, Rejected, Respond, sessionVars, consVars
  <2>5. CASE Execute(t)
    BY <2>5, ExternalTurnAssumption DEF Execute, reqVars, consVars
  <2> QED
    BY <2>1, <2>2, <2>3, <2>4, <2>5
<1>2. EndsOnce'
  <2>1. CASE ~Execute(t)
    <3>1. work' = work
      BY <2>1 DEF StartTurn, StartCommand, StartDelegated, Continue, Listed, Accepted, Rejected,
        Respond, sessionVars
    <3> QED
      BY <1>1, <3>1, EndsKept DEF ReportInv
  <2>2. CASE Execute(t)
    <3>1. ~Works(t)
      BY <2>2, ExternalTurnAssumption DEF Execute, Works, TurnInv, Requests
    <3>2. Ending => t # event.turn
      BY <3>1 DEF ReportInv, EndsOnce
    <3>3. work' = work \/ work' = t
      BY <2>2 DEF Execute
    <3> QED
      BY <1>1, <3>1, <3>2, <3>3, NotYetReported, EndsKept DEF ReportInv
  <2> QED
    BY <2>1, <2>2
<1>3. BeginsOnce'
  <2>1. ASSUME UNCHANGED active PROVE active # None => pc'[active] \notin {"new", "list"}
    BY <2>1 DEF IInv, Types, TurnInv, ThreadAgrees, ReportInv, BeginsOnce, Step,
      StartTurn, StartCommand, StartDelegated, MayBegin, Continue, Listed, Accepted, Rejected,
      Respond, Execute, reqVars
  <2>2. \/ active' = active \/ active' = None
        \/ active' = t /\ pc'[t] = "execute" /\ ~Works(t)
    <3> USE ExternalTurnAssumption DEF Step, TakeUp, IInv, Types, TurnInv, Requests, Works, hostVars,
          OnlyCommandsAreEphemeral
    <3>1. CASE StartTurn(t)
      BY <3>1 DEF StartTurn, MayBegin
    <3>2. CASE StartCommand(t)
      BY <3>2 DEF StartCommand
    <3>3. CASE StartDelegated(t)
      BY <3>3 DEF StartDelegated, MayBegin
    <3>4. CASE Listed(t)
      BY <3>4 DEF Listed
    <3>5. CASE Accepted(t) \/ Rejected(t) \/ Respond(t) \/ Execute(t)
      BY <3>5 DEF Accepted, Rejected, Respond, Execute
    <3> QED
      BY <3>1, <3>2, <3>3, <3>4, <3>5 DEF Continue
  <2>3. \A n \in 1..Len(queue) : queue[n].turn # None
    BY InQueue, ExternalTurnAssumption DEF IInv, Types
  <2>4. CASE active' = active
    BY <1>1, <2>1, <2>4 DEF ReportInv, BeginsOnce
  <2>5. CASE active' = None
    BY <1>1, <2>3, <2>5 DEF ReportInv, BeginsOnce
  <2>6. CASE active' = t /\ pc'[t] = "execute" /\ ~Works(t)
    <3>1. \A n \in 1..Len(queue) : queue[n].turn # t
      BY <2>6, NotYetReported
    <3> QED
      BY <1>1, <2>6, <3>1 DEF ReportInv, BeginsOnce
  <2> QED
    BY <2>2, <2>4, <2>5, <2>6
<1> QED
  BY <1>2, <1>3 DEF ReportInv

LEMMA ReportSession ==
  ASSUME IInv, TurnInv, ReportInv,
         \/ \E t \in Turns : StartAutonomous(t)
         \/ ReportStarted \/ ReportCompleted \/ Delete
  PROVE  ReportInv'
<1>1. /\ UNCHANGED <<active, cons, event>> /\ WorksStay
      /\ active # None => pc'[active] = pc[active]
  <2>1. ASSUME NEW t \in Turns, StartAutonomous(t)
        PROVE  /\ UNCHANGED <<active, cons, event>> /\ WorksStay
               /\ active # None => pc'[active] = pc[active]
    BY <2>1 DEF StartAutonomous, Step, hostVars, consVars, IInv, Types, WorksStay, Works, ReportInv,
      BeginsOnce, TurnInv, ThreadAgrees
  <2>2. CASE ReportStarted \/ ReportCompleted \/ Delete
    BY <2>2 DEF ReportStarted, ReportCompleted, Delete, reqVars, hostVars, sessionVars, consVars,
      WorksStay, Works
  <2> QED
    BY <2>1, <2>2
<1>2. ASSUME NEW t \in Turns, StartAutonomous(t) PROVE ReportInv'
  <2>1. LET o == Output("autonomous", t, TRUE)
        IN  o \in Outputs /\ o.turn = t /\ o.what = "autonomous"
    BY OutputsAreOutputs DEF Output
  <2>2. ~Works(t) /\ active # t
    BY <1>2, ExternalTurnAssumption DEF StartAutonomous, Works, TurnInv, Requests, ReportInv,
      BeginsOnce
  <2>3. Ending => t # event.turn
    BY <2>2 DEF ReportInv, EndsOnce
  <2>4. \A n \in 1..Len(queue) : queue[n].turn # t
    BY <2>2, NotYetReported
  <2>5. EndsOnce'
    BY <1>1, <1>2, <2>1, <2>3, <2>4, EndsGrow DEF StartAutonomous, ReportInv
  <2>6. BeginsOnce'
    BY <1>1, <1>2, <2>1, <2>2, <2>4, BeginsGrow DEF StartAutonomous, ReportInv
  <2> QED
    BY <2>5, <2>6 DEF ReportInv
<1>3. ASSUME work # None, NEW o \in Outputs, o.turn = work, o.what # "autonomous",
             queue' = Append(queue, o), work' = IF o.what = "completed" THEN None ELSE o.turn
      PROVE  ReportInv'
  <2>1. EndsOnce'
    BY <1>1, <1>3, EndsGrow DEF ReportInv, EndsOnce
  <2>2. BeginsOnce'
    BY <1>1, <1>3, BeginsGrow DEF ReportInv
  <2> QED
    BY <2>1, <2>2 DEF ReportInv
<1>4. CASE ReportStarted
  <2>1. LET o == Output("started", work, TRUE)
        IN  o \in Outputs /\ o.turn = work /\ o.what = "started"
    BY <1>4, OutputsAreOutputs DEF Output, ReportStarted, IInv, Types
  <2> QED
    BY <1>3, <1>4, <2>1 DEF ReportStarted
<1>5. CASE ReportCompleted \/ (Delete /\ work # None)
  <2>1. PICK ok \in BOOLEAN : queue' = Append(queue, Output("completed", work, ok))
    BY <1>5 DEF ReportCompleted, Delete
  <2>2. LET o == Output("completed", work, ok)
        IN  o \in Outputs /\ o.turn = work /\ o.what = "completed"
    BY <1>5, OutputsAreOutputs DEF Output, ReportCompleted, IInv, Types
  <2>3. work # None /\ work' = None
    BY <1>5 DEF ReportCompleted, Delete
  <2> QED
    BY <1>3, <2>1, <2>2, <2>3
<1>6. CASE Delete /\ work = None
  <2>1. UNCHANGED <<queue, work>>
    BY <1>6 DEF Delete
  <2>2. EndsOnce'
    BY <1>1, <2>1, EndsKept DEF ReportInv
  <2> QED
    BY <1>1, <2>1, <2>2 DEF ReportInv, BeginsOnce
<1> QED
  BY <1>2, <1>4, <1>5, <1>6

LEMMA ReportConsume ==
  ASSUME IInv, TurnInv, ReportInv, Consume
  PROVE  ReportInv'
<1>1. UNCHANGED <<pc, kind, verdict, work>> /\ WorksStay
  BY DEF Consume, TakeAutonomous, TakeTurnEvent, EndOfOutputs, ProjectStarted, Persist, Finish,
    Announce, reqVars, sessionVars, WorksStay, Works
<1>2. CASE TakeAutonomous \/ TakeTurnEvent
  <2>1. /\ queue # <<>> /\ Head(queue) = queue[1] /\ 1 \in 1..Len(queue)
        /\ queue[1].turn \in Turns /\ Works(queue[1].turn)
        /\ queue' = Tail(queue) /\ cons = "next"
    BY <1>2, TailAt, InQueue DEF TakeAutonomous, TakeTurnEvent, IInv, Types, TurnInv, ReportsAreWork
  <2>2. /\ Len(queue) \in Nat \ {0} /\ Len(queue') = Len(queue) - 1
        /\ \A n \in 1..Len(queue') : n + 1 \in 1..Len(queue) /\ queue'[n] = queue[n + 1]
    BY <2>1, TailAt DEF IInv, Types
  <2>3. \A m \in 1..Len(queue') : queue'[m].what = "completed" =>
          /\ work # queue'[m].turn
          /\ \A n \in 1..Len(queue') : n > m => queue'[n].turn # queue'[m].turn
    BY <2>2, SMTT(30) DEF ReportInv, EndsOnce
  <2>4. Ending' => event' = queue[1] /\ queue[1].what = "completed"
    BY <1>2, <2>1 DEF TakeAutonomous, TakeTurnEvent, Ending, InHand
  <2>5. EndsOnce'
    <3>1. queue[1].what = "completed" =>
            work # queue[1].turn /\ \A n \in 1..Len(queue') : queue'[n].turn # queue[1].turn
      BY <2>1, <2>2 DEF ReportInv, EndsOnce
    <3>2. Ending' => Works(event.turn)'
      BY <1>1, <2>1, <2>4 DEF Works
    <3> QED
      BY <1>1, <2>3, <2>4, <3>1, <3>2 DEF EndsOnce
  <2>6. active' = active \/ (active' = queue[1].turn /\ queue[1].what = "autonomous")
    BY <1>2, <2>1 DEF TakeAutonomous, TakeTurnEvent, hostVars
  <2>7. \A n \in 1..Len(queue') : queue'[n].what = "autonomous" =>
          /\ queue'[n].turn # active /\ queue'[n].turn # queue[1].turn
          /\ \A m \in 1..Len(queue') : m < n => queue'[m].turn # queue'[n].turn
    BY <2>1, <2>2 DEF ReportInv, BeginsOnce
  <2>8. pc[queue[1].turn] \notin {"new", "list"}
    BY <2>1, ExternalTurnAssumption DEF Works, TurnInv, Requests
  <2>9. BeginsOnce'
    BY <1>1, <2>6, <2>7, <2>8 DEF BeginsOnce, ReportInv
  <2> QED
    BY <2>5, <2>9 DEF ReportInv
<1>3. CASE EndOfOutputs \/ ProjectStarted \/ Persist \/ Finish \/ Announce
  <2>1. queue' = queue /\ event'.turn = event.turn /\ (Ending' => Ending)
    BY <1>3 DEF EndOfOutputs, ProjectStarted, Persist, Finish, Announce, Passed, sessionVars, Ending,
      InHand, TurnInv, ThreadAgrees, IInv, Types, Outputs
  <2>2. EndsOnce'
    BY <1>1, <2>1 DEF ReportInv, EndsOnce, Works
  <2>3. active' = active \/ active' = None
    BY <1>3 DEF EndOfOutputs, ProjectStarted, Persist, Finish, Announce, hostVars
  <2>4. \A n \in 1..Len(queue) : queue[n].turn # None
    BY InQueue, ExternalTurnAssumption DEF IInv, Types
  <2>5. BeginsOnce'
    BY <1>1, <2>1, <2>3, <2>4 DEF ReportInv, BeginsOnce
  <2> QED
    BY <2>2, <2>5 DEF ReportInv
<1> QED
  BY <1>2, <1>3 DEF Consume

LEMMA ReportPreserved == IInv /\ TurnInv /\ ReportInv /\ [Next]_vars => ReportInv'
<1> SUFFICES ASSUME IInv, TurnInv, ReportInv, [Next]_vars PROVE ReportInv'
  OBVIOUS
<1>1. CASE UNCHANGED vars
       \/ (\E i \in Interrupts : Interrupt(i) \/ Interrupted(i) \/ Release(i) \/ Cancel(i))
       \/ Deleted
  <2>1. UNCHANGED <<queue, work, active, cons, event, pc, kind, verdict>>
    BY <1>1 DEF Interrupt, Interrupted, Release, Cancel, Deleted, vars, reqVars, hostVars,
      sessionVars, consVars
  <2>2. EndsOnce'
    BY <2>1, EndsKept DEF ReportInv, WorksStay, Works
  <2> QED
    BY <2>1, <2>2 DEF ReportInv, BeginsOnce
<1> QED
  BY <1>1, ReportRequests, ReportSession, ReportConsume DEF Next

\* what a session reports as a turn of its own is one
OwnTurns == \A n \in 1..Len(queue) :
  queue[n].what = "autonomous" => kind[queue[n].turn] = "autonomous"

LEMMA OwnTurnsPreserved == IInv /\ OwnTurns /\ [Next]_vars => OwnTurns'
<1> SUFFICES ASSUME IInv, OwnTurns, [Next]_vars PROVE OwnTurns'
  OBVIOUS
<1>1. \A u \in Turns : kind[u] # None => kind'[u] = kind[u]
  <2> USE DEF IInv, Types
  <2>1. ASSUME NEW t \in Turns, StartTurn(t) \/ StartCommand(t) \/ StartDelegated(t)
                                \/ StartAutonomous(t)
        PROVE  \A u \in Turns : kind[u] # None => kind'[u] = kind[u]
    BY <2>1 DEF StartTurn, StartCommand, StartDelegated, StartAutonomous, MayBegin
  <2>2. CASE UNCHANGED kind
    BY <2>2
  <2> QED
    BY <2>1, <2>2 DEF Next, vars, reqVars, Continue, Listed, Accepted, Rejected, Respond, Execute,
      Interrupt, Interrupted, Release, Cancel, Delete, Deleted, ReportStarted, ReportCompleted,
      Consume, TakeAutonomous, TakeTurnEvent, EndOfOutputs, ProjectStarted, Persist, Finish, Announce
<1>2. CASE queue' = queue
  BY <1>1, <1>2, TurnsAreTurns, ExternalTurnAssumption DEF OwnTurns
<1>3. CASE queue # <<>> /\ queue' = Tail(queue)
  <2>1. \A n \in 1..Len(queue') : n + 1 \in 1..Len(queue) /\ queue'[n] = queue[n + 1]
    BY <1>3, TailAt DEF IInv, Types
  <2> QED
    BY <1>1, <2>1, TurnsAreTurns, ExternalTurnAssumption DEF OwnTurns
<1>4. ASSUME NEW o \in Outputs, queue' = Append(queue, o),
             o.what = "autonomous" => kind'[o.turn] = "autonomous"
      PROVE  OwnTurns'
  <2>1. /\ Len(queue) \in Nat /\ Len(queue') = Len(queue) + 1 /\ queue'[Len(queue) + 1] = o
        /\ \A n \in 1..Len(queue) : queue'[n] = queue[n]
    BY <1>4, AppendAt DEF IInv, Types
  <2> QED
    BY <1>1, <1>4, <2>1, TurnsAreTurns, ExternalTurnAssumption DEF OwnTurns
<1>5. ASSUME NEW t \in Turns, StartAutonomous(t) PROVE OwnTurns'
  <2>1. kind'[t] = "autonomous"
    BY <1>5 DEF StartAutonomous, IInv, Types
  <2>2. LET o == Output("autonomous", t, TRUE)
        IN  o \in Outputs /\ o.turn = t
    BY OutputsAreOutputs DEF Output
  <2> QED
    BY <1>4, <1>5, <2>1, <2>2 DEF StartAutonomous
<1>6. CASE ReportStarted \/ ReportCompleted \/ (Delete /\ work # None)
  <2>1. PICK what \in {"started", "completed"}, ok \in BOOLEAN :
          queue' = Append(queue, Output(what, work, ok))
    BY <1>6 DEF ReportStarted, ReportCompleted, Delete
  <2>2. work \in Turns
    BY <1>6 DEF ReportStarted, ReportCompleted, IInv, Types
  <2>3. LET o == Output(what, work, ok)
        IN  o \in Outputs /\ o.what # "autonomous"
    BY <2>2, OutputsAreOutputs DEF Output
  <2> QED
    BY <1>4, <2>1, <2>3
<1> QED
  BY <1>2, <1>3, <1>5, <1>6 DEF Next, vars, sessionVars, StartTurn, StartCommand, StartDelegated,
    Continue, Listed, Accepted, Rejected, Respond, Execute, Interrupt, Interrupted, Release, Cancel,
    Delete, Deleted, Consume, TakeAutonomous, TakeTurnEvent, EndOfOutputs, ProjectStarted, Persist,
    Finish, Announce

\* the Desktop waits for a response about the turn
FromDesktop(t) == kind[t] \in {"turn", "command"}

AnswerTypes ==
  /\ answered \in [Turns -> {None, "turn", "error"}]
  /\ gate \in [Turns -> SUBSET (Turns \cup Interrupts)]
  /\ asked \in [Interrupts -> Turns \cup {None}]
  /\ cancelled \in [Interrupts -> {None, "ok", "error"}]

\* what the consumer waits for before it projects the first output of a turn
GatedTurn(t) == FromDesktop(t) =>
  /\ active = t => t \in gate[t]
  /\ pc[t] \in {"execute", "respond"} => t \in held
  /\ pc[t] = "respond" \/ (pc[t] = "ended" /\ verdict[t] = "ok") => answered[t] = "turn"
  /\ cons = "wait" /\ event.turn = t => t \in waits
  /\ cons \in {"persist", "announce"} /\ event.turn = t => answered[t] = "turn"

Gated == \A t \in Turns : GatedTurn(t)

\* and before it projects the end of a turn that is interrupted
Stops == \A i \in Interrupts :
  /\ asked[i] = None => i \notin replied /\ desk # i /\ cancelled[i] = None
  /\ asked[i] # None /\ i \notin replied =>
       /\ desk = i /\ i \in held /\ pc[asked[i]] \notin {"new", "list"}
       /\ active = asked[i] => i \in gate[asked[i]]
       /\ \A n \in 1..Len(queue) : queue[n].what = "autonomous" => queue[n].turn # asked[i]
  /\ asked[i] = event.turn /\ cancelled[i] = "ok" /\ i \notin replied =>
       /\ cons = "wait" /\ event.what = "completed" => i \in waits
       /\ cons \notin {"persist", "announce"}

AnswerInv == AnswerTypes /\ Gated /\ Stops

LEMMA AnswerInit == Init => AnswerInv
  BY ExternalTurnAssumption DEF Init, AnswerInv, AnswerTypes, Gated, GatedTurn, Stops, FromDesktop

LEMMA AnswerRequests ==
  ASSUME IInv, TurnInv, ReportInv, AnswerInv, NEW t \in Turns,
         StartTurn(t) \/ StartCommand(t) \/ StartDelegated(t) \/ Continue(t) \/ Execute(t)
  PROVE  AnswerInv'
<1> USE ExternalTurnAssumption DEF AnswerInv
<1>1. UNCHANGED <<queue, cons, event, waits, asked, cancelled, replied, desk>>
  BY DEF StartTurn, StartCommand, StartDelegated, Continue, Listed, Accepted, Rejected, Respond,
    Execute, interruptVars, sessionVars, consVars
<1>2. AnswerTypes'
  <2> USE DEF AnswerTypes, Answer
  <2>1. CASE StartTurn(t) \/ StartCommand(t) \/ StartDelegated(t)
    BY <1>1, <2>1 DEF StartTurn, StartCommand, StartDelegated, TakeUp, hostVars
  <2>2. CASE Listed(t)
    BY <1>1, <2>2 DEF Listed, TakeUp, hostVars
  <2>3. CASE Accepted(t) \/ Rejected(t) \/ Respond(t) \/ Execute(t)
    BY <1>1, <2>3 DEF Accepted, Rejected, Respond, Execute, reqVars, hostVars
  <2> QED
    BY <2>1, <2>2, <2>3 DEF Continue
<1>3. event.turn \in Turns
  BY TurnsAreTurns
<1>4. \A u \in Turns \ {t} : GatedTurn(u) => GatedTurn(u)'
  <2>1. active' \in {active, t, None}
    BY DEF StartTurn, StartCommand, StartDelegated, Continue, Listed, Accepted, Rejected, Respond,
      Execute, TakeUp, hostVars
  <2>2. ASSUME NEW u \in Turns \ {t}
        PROVE  /\ UNCHANGED <<pc[u], kind[u], verdict[u], answered[u], gate[u]>>
               /\ u \in held' <=> u \in held
    <3> USE DEF Step, Answer, TakeUp, hostVars, reqVars, sessionVars, IInv, Types, TurnInv, Requests,
          AnswerTypes
    <3>1. CASE StartTurn(t)
      BY <3>1 DEF StartTurn
    <3>2. CASE StartCommand(t)
      BY <3>2 DEF StartCommand
    <3>3. CASE StartDelegated(t)
      BY <3>3 DEF StartDelegated
    <3>4. CASE Listed(t)
      BY <3>4 DEF Listed
    <3>5. CASE Accepted(t) \/ Rejected(t) \/ Respond(t) \/ Execute(t)
      BY <3>5 DEF Accepted, Rejected, Respond, Execute
    <3> QED
      BY <3>1, <3>2, <3>3, <3>4, <3>5 DEF Continue
  <2> QED
    BY <1>1, <2>1, <2>2 DEF GatedTurn, FromDesktop
<1>6. GatedTurn(t)'
  <2>1. GatedTurn(t)
    BY DEF Gated
  <2>2. event.turn = t /\ cons \in {"wait", "persist"} => Works(t) /\ active = t
    BY DEF TurnInv, ThreadAgrees, InHand
  <2>3. (pc[t] \in {"new", "list"} \/ verdict[t] = "error") => ~Works(t)
    BY DEF TurnInv, Requests, Works
  <2> USE DEF IInv, Types, AnswerTypes, GatedTurn, FromDesktop, Step, Answer, TakeUp, hostVars
  <2>4. cons = "announce" /\ event.turn = t => Works(t)
    BY DEF ReportInv, EndsOnce, Ending
  <2>5. ASSUME pc[t] \in {"new", "list"}, pc' = [pc EXCEPT ![t] = "ended"], verdict' = verdict,
               active' = active, active # t
        PROVE  GatedTurn(t)'
    BY <1>1, <2>2, <2>3, <2>4, <2>5 DEF TurnInv, Requests
  <2>6. ASSUME pc[t] \in {"new", "list"}, pc' = [pc EXCEPT ![t] = "execute"], verdict' = verdict,
               TakeUp(t, "turn") \/ TakeUp(t, "command")
        PROVE  GatedTurn(t)'
    BY <1>1, <2>2, <2>3, <2>4, <2>6 DEF TurnInv, Requests
  <2>7. pc[t] \in {"new", "list"} => active # t
    BY DEF ReportInv, BeginsOnce
  <2>11. CASE StartTurn(t)
    BY <2>5, <2>6, <2>7, <2>11 DEF StartTurn, MayBegin, sessionVars
  <2>12. CASE StartCommand(t)
    BY <1>1, <2>2, <2>3, <2>4, <2>5, <2>7, <2>12 DEF StartCommand, MayBegin, sessionVars
  <2>13. CASE StartDelegated(t)
    BY <1>1, <2>13 DEF StartDelegated, MayBegin, sessionVars
  <2>14. CASE Listed(t)
    BY <2>5, <2>6, <2>7, <2>14 DEF Listed, sessionVars
  <2>15. CASE Accepted(t)
    BY <1>1, <2>1, <2>15 DEF Accepted, sessionVars
  <2>16. CASE Rejected(t)
    BY <1>1, <2>2, <2>3, <2>4, <2>16 DEF Rejected, sessionVars
  <2>17. CASE Respond(t)
    BY <1>1, <2>1, <2>17 DEF Respond, sessionVars
  <2>18. CASE Execute(t)
    BY <1>1, <2>1, <2>18 DEF Execute, reqVars
  <2> QED
    BY <2>11, <2>12, <2>13, <2>14, <2>15, <2>16, <2>17, <2>18 DEF Continue
<1>5. Stops'
  <2> USE DEF IInv, Types, TurnInv, Requests, ThreadAgrees, Undecided, AnswerTypes, Stops, Step,
        TakeUp, hostVars
  <2>1. CASE StartTurn(t)
    BY <1>1, <2>1 DEF StartTurn, MayBegin
  <2>2. CASE StartCommand(t)
    BY <1>1, <2>2 DEF StartCommand, MayBegin
  <2>3. CASE StartDelegated(t)
    BY <1>1, <2>3 DEF StartDelegated, MayBegin
  <2>4. CASE Listed(t)
    BY <1>1, <2>4 DEF Listed
  <2>5. CASE Accepted(t) \/ Rejected(t) \/ Respond(t) \/ Execute(t)
    BY <1>1, <2>5 DEF Accepted, Rejected, Respond, Execute, reqVars
  <2> QED
    BY <2>1, <2>2, <2>3, <2>4, <2>5 DEF Continue
<1> QED
  BY <1>2, <1>4, <1>5, <1>6 DEF Gated

LEMMA AnswerInterrupts ==
  ASSUME IInv, TurnInv, ReportInv, AnswerInv, NEW i \in Interrupts,
         Interrupt(i) \/ Interrupted(i) \/ Release(i) \/ Cancel(i)
  PROVE  AnswerInv'
<1> USE ExternalTurnAssumption DEF AnswerInv, AnswerTypes
<1>1. UNCHANGED <<queue, cons, event, waits, pc, kind, verdict, answered, active, work>>
  BY DEF Interrupt, Interrupted, Release, Cancel, reqVars, hostVars, sessionVars, consVars
<1>2. AnswerTypes'
  <2>1. CASE Interrupt(i)
    BY <1>1, <2>1 DEF Interrupt
  <2>2. CASE Interrupted(i) \/ Release(i) \/ Cancel(i)
    BY <1>1, <2>2 DEF Interrupted, Release, Cancel, hostVars, interruptVars
  <2> QED
    BY <2>1, <2>2
<1>3. Gated'
  BY <1>1 DEF Gated, GatedTurn, FromDesktop, Interrupt, Interrupted, Release, Cancel, hostVars
<1>4. Stops'
  <2>1. CASE Interrupt(i)
    <3>1. PICK t \in Turns :
            /\ asked' = [asked EXCEPT ![i] = t]
            /\ IF running /\ active = t
                 THEN /\ gate' = [gate EXCEPT ![t] = @ \cup {i}]
                      /\ held' = held \cup {i} /\ desk' = i /\ UNCHANGED replied
                 ELSE replied' = replied \cup {i} /\ UNCHANGED <<gate, held, desk>>
      BY <2>1 DEF Interrupt
    <3>2. /\ desk = None /\ asked[i] = None /\ cancelled' = cancelled /\ cancelled[i] = None
          /\ \A j \in Interrupts : asked[j] # None => j \in replied
      BY <2>1 DEF Interrupt, Stops
    <3>3. running /\ active = t =>
            /\ pc[t] \notin {"new", "list"}
            /\ \A n \in 1..Len(queue) : queue[n].what = "autonomous" => queue[n].turn # t
      BY DEF ReportInv, BeginsOnce
    <3> QED
      BY <1>1, <3>1, <3>2, <3>3 DEF Stops
  <2>2. CASE Interrupted(i)
    BY <1>1, <2>2 DEF Stops, Interrupted, hostVars
  <2>4. CASE Release(i)
    BY <1>1, <2>4 DEF Stops, Release, hostVars, interruptVars
  <2>3. CASE Cancel(i)
    <3>1. work # None /\ work = event.turn => ~Ending
      BY DEF ReportInv, EndsOnce
    <3>2. cons \in {"persist", "announce"} => Ending
      BY DEF Ending, InHand, TurnInv, ThreadAgrees
    <3> QED
      BY <1>1, <2>3, <3>1, <3>2 DEF Stops, Cancel, hostVars, Ending, InHand
  <2> QED
    BY <2>1, <2>2, <2>3, <2>4
<1> QED
  BY <1>2, <1>3, <1>4

LEMMA AnswerSession ==
  ASSUME IInv, TurnInv, AnswerInv,
         \/ \E t \in Turns : StartAutonomous(t)
         \/ ReportStarted \/ ReportCompleted \/ Delete \/ Deleted
  PROVE  AnswerInv'
<1> USE ExternalTurnAssumption DEF AnswerInv, AnswerTypes
<1>1. UNCHANGED <<cons, event, waits, verdict, answered, active, asked, cancelled, replied, gate,
                  held>>
  BY DEF StartAutonomous, ReportStarted, ReportCompleted, Delete, Deleted, reqVars, hostVars,
    interruptVars, sessionVars, consVars
<1>2. AnswerTypes'
  BY <1>1
<1>3. Gated'
  <2>1. ASSUME NEW t \in Turns, StartAutonomous(t) PROVE Gated'
    BY <1>1, <2>1 DEF Gated, GatedTurn, FromDesktop, StartAutonomous, Step, IInv, Types
  <2>2. CASE UNCHANGED <<pc, kind>>
    BY <1>1, <2>2 DEF Gated, GatedTurn, FromDesktop
  <2> QED
    BY <2>1, <2>2 DEF ReportStarted, ReportCompleted, Delete, Deleted, reqVars
<1>4. Stops'
  <2>1. \A i \in Interrupts : i \notin replied /\ asked[i] # None =>
          \A n \in 1..Len(queue') : queue'[n].what = "autonomous" => queue'[n].turn # asked[i]
    <3>1. CASE queue' = queue
      BY <3>1 DEF Stops
    <3>2. ASSUME NEW o \in Outputs, queue' = Append(queue, o),
                 o.what # "autonomous" \/ pc[o.turn] = "new"
          PROVE  \A i \in Interrupts : i \notin replied /\ asked[i] # None =>
            \A n \in 1..Len(queue') : queue'[n].what = "autonomous" => queue'[n].turn # asked[i]
      <4>1. /\ Len(queue) \in Nat /\ Len(queue') = Len(queue) + 1
            /\ queue'[Len(queue) + 1] = o
            /\ \A n \in 1..Len(queue) : queue'[n] = queue[n]
        BY <3>2, AppendAt DEF IInv, Types
      <4> QED
        BY <3>2, <4>1 DEF Stops
    <3>3. ASSUME NEW t \in Turns, NEW what \in {"autonomous", "started", "completed"},
                 NEW ok \in BOOLEAN
          PROVE  LET o == Output(what, t, ok)
                 IN  o \in Outputs /\ o.what = what /\ o.turn = t
      BY OutputsAreOutputs DEF Output
    <3>4. ASSUME NEW t \in Turns, StartAutonomous(t)
          PROVE  \E o \in Outputs : queue' = Append(queue, o) /\ pc[o.turn] = "new"
      <4>1. LET o == Output("autonomous", t, TRUE)
            IN  o \in Outputs /\ o.turn = t /\ queue' = Append(queue, o)
        BY <3>3, <3>4 DEF StartAutonomous
      <4> QED
        BY <3>4, <4>1 DEF StartAutonomous
    <3>5. CASE ReportStarted \/ ReportCompleted \/ (Delete /\ work # None)
      <4>1. PICK what \in {"started", "completed"}, ok \in BOOLEAN :
              queue' = Append(queue, Output(what, work, ok))
        BY <3>5 DEF ReportStarted, ReportCompleted, Delete
      <4>2. work \in Turns
        BY <3>5 DEF ReportStarted, ReportCompleted, IInv, Types
      <4> QED
        BY <3>2, <3>3, <4>1, <4>2
    <3> QED
      BY <3>1, <3>2, <3>4, <3>5 DEF Delete, Deleted, sessionVars
  <2>2. ASSUME NEW i \in Interrupts
        PROVE  /\ asked[i] = None => desk' # i
               /\ asked[i] # None /\ i \notin replied =>
                    desk' = i /\ pc'[asked[i]] \notin {"new", "list"}
    <3>1. ASSUME NEW t \in Turns, StartAutonomous(t)
          PROVE  desk' = desk /\ \A u \in Turns : pc'[u] = pc[u] \/ pc'[u] = "ended"
      BY <3>1 DEF StartAutonomous, Step, IInv, Types
    <3>2. ~(\E t \in Turns : StartAutonomous(t)) => pc' = pc
      BY DEF ReportStarted, ReportCompleted, Delete, Deleted, reqVars
    <3>3. desk' = desk \/ (Delete /\ desk = None /\ desk' = "delete")
                       \/ (Deleted /\ desk = "delete" /\ desk' = None)
      BY <3>1 DEF ReportStarted, ReportCompleted, Delete, Deleted
    <3>4. asked[i] = None => desk' # i
      BY <3>3 DEF Stops
    <3>5. asked[i] # None /\ i \notin replied => desk' = i
      BY <3>3 DEF Stops
    <3>6. asked[i] # None /\ i \notin replied => pc'[asked[i]] \notin {"new", "list"}
      BY <3>1, <3>2 DEF Stops
    <3> QED
      BY <3>4, <3>5, <3>6
  <2> QED
    BY <1>1, <2>1, <2>2 DEF Stops
<1> QED
  BY <1>2, <1>3, <1>4

LEMMA AnswerConsume ==
  ASSUME IInv, TurnInv, ReportInv, OwnTurns, AnswerInv, Consume
  PROVE  AnswerInv'
<1> USE ExternalTurnAssumption DEF AnswerInv, AnswerTypes
<1>1. UNCHANGED <<pc, kind, verdict, answered, asked, cancelled, replied, desk, held>>
  BY DEF Consume, TakeAutonomous, TakeTurnEvent, EndOfOutputs, ProjectStarted, Persist, Finish,
    Announce, reqVars, interruptVars, sessionVars
<1>2. AnswerTypes'
  BY <1>1 DEF Consume, TakeAutonomous, TakeTurnEvent, EndOfOutputs, ProjectStarted, Persist, Finish,
    Announce, hostVars
<1>3. event.turn \in Turns
  BY TurnsAreTurns
<1>4. CASE TakeAutonomous \/ TakeTurnEvent
  <2>1. /\ queue # <<>> /\ Head(queue) = queue[1] /\ 1 \in 1..Len(queue)
        /\ queue[1].turn \in Turns /\ Works(queue[1].turn)
        /\ queue' = Tail(queue) /\ cons = "next"
    BY <1>4, TailAt, InQueue DEF TakeAutonomous, TakeTurnEvent, IInv, Types, TurnInv, ReportsAreWork
  <2>2. \A n \in 1..Len(queue') : n + 1 \in 1..Len(queue) /\ queue'[n] = queue[n + 1]
    BY <2>1, TailAt DEF IInv, Types
  <2>3. CASE TakeAutonomous
    <3>1. /\ UNCHANGED <<gate, event, waits>> /\ cons' \in {"next", "dead"}
          /\ active' = active \/ active' = queue[1].turn
          /\ queue[1].what = "autonomous"
      BY <2>1, <2>3 DEF TakeAutonomous, hostVars
    <3>2. kind[queue[1].turn] = "autonomous" /\ queue[1].turn \in Turns
      BY <2>1, <3>1 DEF OwnTurns
    <3>3. Gated'
      BY <1>1, <2>1, <3>1, <3>2 DEF Gated, GatedTurn, FromDesktop
    <3>4. Stops'
      BY <1>1, <2>1, <2>2, <3>1 DEF Stops
    <3> QED
      BY <1>2, <3>3, <3>4
  <2>4. CASE TakeTurnEvent
    <3>1. /\ UNCHANGED <<gate, active>>
          /\ \/ cons' = "dead" /\ UNCHANGED <<event, waits>>
             \/ /\ cons' = "wait" /\ event' = queue[1] /\ waits' = gate[queue[1].turn]
                /\ active = queue[1].turn
      BY <2>1, <2>4 DEF TakeTurnEvent, hostVars, TurnInv, ThreadAgrees
    <3>2. Gated'
      BY <1>1, <1>3, <2>1, <3>1 DEF Gated, GatedTurn, FromDesktop
    <3>3. Stops'
      BY <1>1, <2>1, <2>2, <3>1 DEF Stops
    <3> QED
      BY <1>2, <3>2, <3>3
  <2> QED
    BY <1>4, <2>3, <2>4
<1>5. CASE Persist
  <2>1. waits \cap held = {} /\ cons = "wait" /\ event.what = "completed"
        /\ event'.turn = event.turn /\ cons' = "persist"
        /\ UNCHANGED <<queue, active, gate, waits>> /\ event.turn = active /\ Works(event.turn)
    BY <1>5 DEF Persist, Passed, hostVars, sessionVars, IInv, Types, Outputs, TurnInv, ThreadAgrees,
      InHand
  <2>2. FromDesktop(event.turn) => answered[event.turn] = "turn"
    BY <1>3, <2>1 DEF Gated, GatedTurn, TurnInv, Requests, Works, FromDesktop, IInv, Types
  <2>3. Gated'
    BY <1>1, <2>1, <2>2 DEF Gated, GatedTurn, FromDesktop
  <2>4. \A i \in Interrupts : asked[i] = event.turn /\ cancelled[i] = "ok" => i \in replied
    BY <1>3, <2>1 DEF Stops
  <2>5. Stops'
    BY <1>1, <2>1, <2>4 DEF Stops
  <2> QED
    BY <1>2, <2>3, <2>5
<1>6. CASE Finish
  <2>1. cons = "persist" /\ cons' = "announce" /\ active' = None /\ UNCHANGED <<queue, event, waits>>
    BY <1>6 DEF Finish, sessionVars
  <2>2. Gated'
    BY <1>1, <2>1 DEF Gated, GatedTurn, FromDesktop
  <2>3. Stops'
    BY <1>1, <2>1 DEF Stops
  <2> QED
    BY <1>2, <2>2, <2>3
<1>7. CASE EndOfOutputs \/ ProjectStarted \/ Announce
  <2>1. UNCHANGED <<queue, event, waits, active, gate>> /\ cons' \in {"next", "done"}
    BY <1>7 DEF EndOfOutputs, ProjectStarted, Announce, hostVars, sessionVars
  <2>2. Gated'
    BY <1>1, <2>1 DEF Gated, GatedTurn, FromDesktop
  <2>3. Stops'
    BY <1>1, <2>1 DEF Stops
  <2> QED
    BY <1>2, <2>2, <2>3
<1> QED
  BY <1>4, <1>5, <1>6, <1>7 DEF Consume

LEMMA AnswerPreserved ==
  IInv /\ TurnInv /\ ReportInv /\ OwnTurns /\ AnswerInv /\ [Next]_vars => AnswerInv'
<1> SUFFICES ASSUME IInv, TurnInv, ReportInv, OwnTurns, AnswerInv, [Next]_vars PROVE AnswerInv'
  OBVIOUS
<1>1. CASE UNCHANGED vars
  BY <1>1 DEF vars, reqVars, hostVars, interruptVars, sessionVars, consVars, AnswerInv, AnswerTypes,
    Gated, GatedTurn, FromDesktop, Stops
<1> QED
  BY <1>1, AnswerRequests, AnswerInterrupts, AnswerSession, AnswerConsume DEF Next

\* Only the consumer shows a turn, past the gates of the turn.
LEMMA ShownPastTheGates ==
  ASSUME IInv, TurnInv, AnswerInv, Next, NEW t \in Turns, seen'[t] # seen[t]
  PROVE  /\ kind[t] \in {"turn", "command"} => answered[t] = "turn"
         /\ seen'[t] \in {"succeeded", "failed"} =>
              \A i \in Interrupts : asked[i] = t /\ cancelled[i] = "ok" => i \in replied
<1>1. ProjectStarted \/ Announce
  BY DEF Next, StartTurn, StartCommand, StartDelegated, Continue, Listed, Accepted, Rejected,
    Respond, Execute, StartAutonomous, Interrupt, Interrupted, Release, Cancel, Delete, Deleted,
    ReportStarted, ReportCompleted, Consume, TakeAutonomous, TakeTurnEvent, EndOfOutputs, Persist,
    Finish, consVars
<1>2. event.turn = t
  BY <1>1 DEF ProjectStarted, Announce, IInv, Types
<1>3. CASE ProjectStarted
  <2>1. cons = "wait" /\ waits \cap held = {} /\ seen'[t] = "started" /\ Works(t)
    BY <1>2, <1>3 DEF ProjectStarted, Passed, IInv, Types, TurnInv, ThreadAgrees, InHand
  <2> QED
    BY <1>2, <2>1, ExternalTurnAssumption
       DEF AnswerInv, Gated, GatedTurn, FromDesktop, TurnInv, Requests, Works, IInv, Types
<1>4. CASE Announce
  BY <1>2, <1>4 DEF Announce, AnswerInv, Gated, GatedTurn, FromDesktop, Stops
<1> QED
  BY <1>1, <1>3, <1>4

\* No output of a turn overtakes the response to its request, and no end of it
\* the answer to an accepted interrupt, however requests, interrupts and the
\* consumer interleave.
THEOREM AnswersPrecede == Spec => AnswersComeFirst
<1>1. IInv /\ TurnInv /\ AnswerInv /\ [Next]_vars =>
        [\A t \in Turns : seen'[t] # seen[t] =>
           /\ kind[t] \in {"turn", "command"} => answered[t] = "turn"
           /\ seen'[t] \in {"succeeded", "failed"} =>
                \A i \in Interrupts : asked[i] = t /\ cancelled[i] = "ok" => i \in replied]_vars
  BY ShownPastTheGates
<1>2. Init => OwnTurns
  BY DEF Init, OwnTurns
<1> QED
  BY InitialState, Preserved, TurnInvInit, TurnInvPreserved, ReportInit, ReportPreserved, <1>2,
     OwnTurnsPreserved, AnswerInit, AnswerPreserved, <1>1, PTL DEF Spec, AnswersComeFirst
=============================================================================
