-------------------------- MODULE InteractionsProofs --------------------------
(***************************************************************************)
(* One decision about every interaction, one end of every request and      *)
(* nothing left of either after the turn, for any number of interactions.  *)
(***************************************************************************)
EXTENDS Interactions, TLAPS

\* q holds the output with which the session asks i
Holds(q, i) == \E n \in DOMAIN q : q[n] = Output("asked", i)

\* no interaction is asked twice
Once(q) == \A m, n \in DOMAIN q, i \in Asked :
  q[m] = Output("asked", i) /\ q[n] = Output("asked", i) => m = n

\* the consumer has taken that output
InHand(i) == cons \in {"wait", "refuse"} /\ event = Output("asked", i)

\* what the argument needs of the types
Types ==
  /\ native \in [Asked -> {"new", "pending", "closed"}]
  /\ decided \in [Asked -> {None, "desktop", "expiry", "refusal", "lost"}]
  /\ queue \in Seq(Outputs) /\ event \in Outputs

\* what is on its way to the host has been asked, is neither shown nor
\* decided, and is on its way once
AskedIsFresh ==
  /\ Once(queue)
  /\ \A i \in Asked : Holds(queue, i) \/ InHand(i) =>
       i \notin shown /\ decided[i] = None /\ native[i] # "new"
  /\ \A i \in Asked : ~(Holds(queue, i) /\ InHand(i))
  /\ \A i \in Asked : native[i] = "new" => i \notin shown /\ decided[i] = None

\* whoever may still decide is the only one who may
OneMayDecide ==
  /\ pending \subseteq shown /\ expiring \subseteq shown /\ shown \cap Odd = {}
  /\ answered \cup resolved \subseteq shown
  /\ pending \cap expiring = {} /\ pending \cap (answered \cup resolved) = {}
  /\ \A i \in Asked : i \in pending \cup expiring => decided[i] = None
  /\ cons = "refuse" => \E i \in Odd : event = Output("asked", i)

IInv == Types /\ AskedIsFresh /\ OneMayDecide /\ AnsweredOrResolved

-----------------------------------------------------------------------------
(* Outputs and their queue *)

LEMMA OutputFields ==
  /\ \A i \in Asked : /\ Output("asked", i) \in Outputs
                      /\ Output("asked", i).what = "asked" /\ Output("asked", i).id = i
                      /\ Output("closed", i) \in Outputs
                      /\ Output("closed", i).what = "closed"
  /\ [what |-> "completed"] \in Outputs /\ [what |-> "completed"].what = "completed"
BY DEF Output, Outputs

LEMMA AskedOutput ==
  ASSUME NEW o \in Outputs, o.what = "asked"
  PROVE  o.id \in Asked /\ o = Output("asked", o.id)
BY DEF Output, Outputs

LEMMA AppendOther ==
  ASSUME NEW q \in Seq(Outputs), NEW o \in Outputs, o.what # "asked"
  PROVE  /\ Append(q, o) \in Seq(Outputs)
         /\ \A i \in Asked : Holds(Append(q, o), i) => Holds(q, i)
         /\ Once(q) => Once(Append(q, o))
<1>1. \A i \in Asked : o # Output("asked", i)
  BY OutputFields
<1>2. /\ Append(q, o) \in Seq(Outputs)
      /\ \A n \in DOMAIN Append(q, o) :
           (n \in DOMAIN q /\ Append(q, o)[n] = q[n]) \/ Append(q, o)[n] = o
  OBVIOUS
<1> QED
  BY <1>1, <1>2 DEF Holds, Once

LEMMA AppendAsked ==
  ASSUME NEW q \in Seq(Outputs), NEW i \in Asked, Once(q), ~Holds(q, i)
  PROVE  LET r == Append(q, Output("asked", i))
         IN  /\ r \in Seq(Outputs) /\ Once(r)
             /\ \A j \in Asked : Holds(r, j) => j = i \/ Holds(q, j)
<1> DEFINE o == Output("asked", i)
           r == Append(q, o)
<1>1. o \in Outputs /\ \A j \in Asked : o = Output("asked", j) => j = i
  BY OutputFields
<1> HIDE DEF o
<1>2. /\ r \in Seq(Outputs) /\ Len(r) = Len(q) + 1 /\ DOMAIN r = 1..(Len(q) + 1)
      /\ DOMAIN q = 1..Len(q) /\ Len(q) \in Nat
      /\ \A n \in 1..Len(q) : r[n] = q[n]
      /\ r[Len(q) + 1] = o
  BY <1>1
<1> HIDE DEF r
<1>3. \A j \in Asked : Holds(r, j) => j = i \/ Holds(q, j)
  BY <1>1, <1>2 DEF Holds
<1>4. Once(r)
  <2> SUFFICES ASSUME NEW m \in DOMAIN r, NEW n \in DOMAIN r, NEW j \in Asked,
                      r[m] = Output("asked", j), r[n] = Output("asked", j)
               PROVE  m = n
    BY DEF Once
  <2>1. CASE j = i
    BY <1>2, <2>1 DEF Holds
  <2>2. CASE j # i
    BY <1>1, <1>2, <2>2 DEF Once
  <2> QED
    BY <2>1, <2>2
<1> QED
  BY <1>2, <1>3, <1>4 DEF r, o

LEMMA TakeHead ==
  ASSUME NEW q \in Seq(Outputs), q # <<>>, Once(q)
  PROVE  /\ Head(q) \in Outputs /\ Tail(q) \in Seq(Outputs) /\ Once(Tail(q))
         /\ \A i \in Asked : Holds(Tail(q), i) => Holds(q, i) /\ Head(q) # Output("asked", i)
         /\ \A i \in Asked : Head(q) = Output("asked", i) => Holds(q, i)
<1>1. /\ Head(q) \in Outputs /\ Tail(q) \in Seq(Outputs)
      /\ 1 \in DOMAIN q /\ Head(q) = q[1]
      /\ \A n \in DOMAIN Tail(q) : n \in Nat /\ n + 1 \in DOMAIN q /\ n + 1 # 1
                                   /\ Tail(q)[n] = q[n + 1]
  OBVIOUS
<1>2. Once(Tail(q))
  <2> SUFFICES ASSUME NEW m \in DOMAIN Tail(q), NEW n \in DOMAIN Tail(q), NEW i \in Asked,
                      Tail(q)[m] = Output("asked", i), Tail(q)[n] = Output("asked", i)
               PROVE  m = n
    BY DEF Once
  <2>1. m + 1 = n + 1
    BY <1>1 DEF Once
  <2> QED
    BY <1>1, <2>1
<1>3. ASSUME NEW i \in Asked, Holds(Tail(q), i)
      PROVE  Holds(q, i) /\ Head(q) # Output("asked", i)
  <2>1. PICK n \in DOMAIN Tail(q) : Tail(q)[n] = Output("asked", i)
    BY <1>3 DEF Holds
  <2>2. n + 1 \in DOMAIN q /\ n + 1 # 1 /\ q[n + 1] = Output("asked", i)
    BY <1>1, <2>1
  <2> QED
    BY <1>1, <2>2 DEF Holds, Once
<1> QED
  BY <1>1, <1>2, <1>3 DEF Holds

-----------------------------------------------------------------------------
(* Every step keeps IInv *)

LEMMA InitInductive == Init => IInv
<1> SUFFICES ASSUME Init PROVE IInv
  OBVIOUS
<1>1. Types
  BY OutputFields DEF Init, Types
<1>2. \A i \in Asked : ~Holds(queue, i) /\ ~InHand(i)
  BY DEF Init, Holds, InHand
<1>3. Once(queue)
  BY DEF Init, Once
<1> QED
  BY <1>1, <1>2, <1>3 DEF Init, IInv, AskedIsFresh, OneMayDecide, AnsweredOrResolved

\* The session asks what is new and closes what it asked.
LEMMA SessionSteps ==
  ASSUME IInv, (\E i \in Asked : Ask(i) \/ Settle(i)) \/ Complete
  PROVE  IInv'
<1> USE DEF IInv, Types, AskedIsFresh, OneMayDecide, AnsweredOrResolved, InHand,
      consVars, gateVars, deskVars, hostVars, seenVars
<1>1. ASSUME NEW i \in Asked, Ask(i) PROVE IInv'
  <2>1. ~Holds(queue, i) /\ i \notin shown /\ decided[i] = None
    BY <1>1 DEF Ask
  <2>2. ~InHand(i)
    BY <1>1 DEF Ask
  <2>3. /\ queue' \in Seq(Outputs) /\ Once(queue')
        /\ \A j \in Asked : Holds(queue', j) => j = i \/ Holds(queue, j)
    BY <1>1, <2>1, AppendAsked DEF Ask
  <2> QED
    BY <1>1, <2>1, <2>2, <2>3 DEF Ask
<1>2. ASSUME NEW i \in Asked, Settle(i) PROVE IInv'
  <2>1. /\ queue' \in Seq(Outputs) /\ Once(queue')
        /\ \A j \in Asked : Holds(queue', j) => Holds(queue, j)
    BY <1>2, OutputFields, AppendOther DEF Settle
  <2> QED
    BY <1>2, <2>1 DEF Settle
<1>3. CASE Complete
  <2>1. /\ queue' \in Seq(Outputs) /\ Once(queue')
        /\ \A j \in Asked : Holds(queue', j) => Holds(queue, j)
    BY <1>3, OutputFields, AppendOther DEF Complete
  <2> QED
    BY <1>3, <2>1 DEF Complete
<1> QED
  BY <1>1, <1>2, <1>3

\* The session answers a command of the host: it keeps what was asked.
LEMMA Commands ==
  ASSUME IInv, NEW i \in Asked, Accept(i) \/ TooLate(i) \/ Fail(i) \/ CancelTurn
  PROVE  /\ native' \in [Asked -> {"new", "pending", "closed"}]
         /\ \A j \in Asked : native'[j] = "new" <=> native[j] = "new"
         /\ queue' \in Seq(Outputs) /\ Once(queue')
         /\ \A j \in Asked : Holds(queue', j) => Holds(queue, j)
<1> USE DEF IInv, Types, AskedIsFresh, sessionVars
<1>1. CASE Accept(i)
  BY <1>1, OutputFields, AppendOther DEF Accept
<1>2. CASE TooLate(i)
  BY <1>2 DEF TooLate
<1>3. CASE Fail(i)
  BY <1>3 DEF Fail
<1>4. CASE CancelTurn
  BY <1>4 DEF CancelTurn
<1> QED
  BY <1>1, <1>2, <1>3, <1>4

\* The consumer shows or refuses what it has taken, once.
LEMMA ConsumeSteps ==
  ASSUME IInv, Consume
  PROVE  IInv'
<1> USE DEF IInv, Types, AskedIsFresh, OneMayDecide, AnsweredOrResolved, InHand, Passed,
      sessionVars, gateVars, deskVars, hostVars, seenVars
<1>1. CASE Take
  BY <1>1, TakeHead DEF Take
<1>2. CASE EndOfOutputs
  BY <1>2 DEF EndOfOutputs
<1>3. CASE Project
  <2>1. event.id \in Asked /\ event = Output("asked", event.id)
    BY <1>3, AskedOutput DEF Project
  <2>2. InHand(event.id)
    BY <1>3, <2>1 DEF Project
  <2> QED
    BY <1>3, <2>1, <2>2 DEF Project
<1>4. CASE Refuse
  <2>1. event.id \in Asked /\ event = Output("asked", event.id)
    BY <1>4, AskedOutput DEF Refuse
  <2> QED
    BY <1>4, <2>1 DEF Refuse
<1>5. CASE RefusalAccepted \/ RefusalCancelsTurn \/ RefusalFails
  <2>1. event.id \in Odd /\ event.id \in Asked /\ event = Output("asked", event.id)
    BY <1>5, OutputFields, InteractionsAssumption
       DEF RefusalAccepted, RefusalCancelsTurn, RefusalFails
  <2>2. Accept(event.id) \/ TooLate(event.id) \/ Fail(event.id) \/ CancelTurn
    BY <1>5 DEF RefusalAccepted, RefusalCancelsTurn, RefusalFails
  <2>3. /\ native' \in [Asked -> {"new", "pending", "closed"}]
        /\ \A j \in Asked : native'[j] = "new" <=> native[j] = "new"
        /\ queue' \in Seq(Outputs) /\ Once(queue')
        /\ \A j \in Asked : Holds(queue', j) => Holds(queue, j)
    BY <2>1, <2>2, Commands
  <2>4. \E who \in {"refusal", "lost"} : Decide(event.id, who)
    BY <1>5 DEF RefusalAccepted, RefusalCancelsTurn, RefusalFails
  <2>5. cons = "refuse" /\ cons' = "next" /\ event' = event
        /\ UNCHANGED <<shown, answered, resolved, pending, expiring>>
    BY <1>5 DEF RefusalAccepted, RefusalCancelsTurn, RefusalFails
  <2>6. event.id \notin pending \cup expiring /\ event.id \notin shown
        /\ ~Holds(queue, event.id) /\ native[event.id] # "new"
    BY <2>1, <2>5
  <2> QED
    BY <2>1, <2>3, <2>4, <2>5, <2>6 DEF Decide
<1>6. CASE IgnoreClosed
  BY <1>6 DEF IgnoreClosed
<1>7. CASE ProjectClosed
  BY <1>7 DEF ProjectClosed, Resolve
<1>8. CASE ProjectCompleted
  BY <1>8 DEF ProjectCompleted
<1> QED
  BY <1>1, <1>2, <1>3, <1>4, <1>5, <1>6, <1>7, <1>8 DEF Consume

\* The Desktop decides, a timeout fires, the turn is stopped.
LEMMA DesktopSteps ==
  ASSUME IInv,
         \/ \E i \in Asked : Answer(i) \/ Replied(i) \/ Expire(i) \/ CancelExpired(i)
         \/ FailClosed \/ StartAnswered \/ Interrupt \/ Interrupted \/ InterruptAnswered
         \/ Delete \/ Deleted
  PROVE  IInv'
<1> USE DEF IInv, Types, AskedIsFresh, OneMayDecide, AnsweredOrResolved, InHand,
      sessionVars, consVars, gateVars, deskVars, hostVars, seenVars
<1>1. ASSUME NEW i \in Asked, Answer(i) PROVE IInv'
  BY <1>1 DEF Answer, Decide
<1>2. ASSUME NEW i \in Asked, Replied(i) PROVE IInv'
  <2>1. Accept(i) \/ TooLate(i) \/ Fail(i)
    BY <1>2 DEF Replied
  <2>2. /\ native' \in [Asked -> {"new", "pending", "closed"}]
        /\ \A j \in Asked : native'[j] = "new" <=> native[j] = "new"
        /\ queue' \in Seq(Outputs) /\ Once(queue')
        /\ \A j \in Asked : Holds(queue', j) => Holds(queue, j)
    BY <2>1, Commands
  <2> QED
    BY <1>2, <2>2 DEF Replied
<1>3. ASSUME NEW i \in Asked, Expire(i) PROVE IInv'
  BY <1>3 DEF Expire, Resolve
<1>4. ASSUME NEW i \in Asked, CancelExpired(i) PROVE IInv'
  <2>1. Accept(i) \/ TooLate(i) \/ Fail(i)
    BY <1>4 DEF CancelExpired
  <2>2. /\ native' \in [Asked -> {"new", "pending", "closed"}]
        /\ \A j \in Asked : native'[j] = "new" <=> native[j] = "new"
        /\ queue' \in Seq(Outputs) /\ Once(queue')
        /\ \A j \in Asked : Holds(queue', j) => Holds(queue, j)
    BY <2>1, Commands
  <2>3. i \notin pending /\ i \in shown /\ ~Holds(queue, i) /\ ~InHand(i)
        /\ native[i] # "new"
    BY <1>4 DEF CancelExpired
  <2> QED
    BY <1>4, <2>2, <2>3 DEF CancelExpired, Decide
<1>5. CASE FailClosed \/ Interrupted
  BY <1>5 DEF FailClosed, Interrupted, CancelTurn
<1>6. CASE StartAnswered \/ Interrupt \/ InterruptAnswered \/ Delete \/ Deleted
  BY <1>6 DEF StartAnswered, Interrupt, InterruptAnswered, Delete, Deleted
<1> QED
  BY <1>1, <1>2, <1>3, <1>4, <1>5, <1>6

LEMMA Inductive == IInv /\ [Next]_vars => IInv'
<1>1. ASSUME IInv, Next PROVE IInv'
  BY <1>1, SessionSteps, ConsumeSteps, DesktopSteps DEF Next
<1>2. ASSUME IInv, UNCHANGED vars PROVE IInv'
  BY <1>2 DEF IInv, Types, AskedIsFresh, OneMayDecide, AnsweredOrResolved, InHand, Holds, Once,
    vars, sessionVars, consVars, gateVars, deskVars, hostVars, seenVars
<1> QED
  BY <1>1, <1>2

\* Every request ends on the Desktop in one way: #handleDesktopQuestionResponse
\* and #resolveDesktopQuestion never both end it.
THEOREM RequestsEndOnce == Spec => []AnsweredOrResolved
<1>1. IInv => AnsweredOrResolved
  BY DEF IInv
<1> QED
  BY <1>1, InitInductive, Inductive, PTL DEF Spec

\* A decision, once taken, is never taken back, whoever else still had one
\* to make.
LEMMA DecisionStays ==
  ASSUME IInv, Next, NEW i \in Asked, decided[i] # None
  PROVE  decided'[i] = decided[i]
<1> USE DEF IInv, Types, AskedIsFresh, OneMayDecide, InHand
<1>1. ASSUME NEW j \in Asked, NEW who, Decide(j, who), decided[j] = None
      PROVE  decided'[i] = decided[i]
  BY <1>1 DEF Decide
<1>2. ASSUME NEW j \in Asked, Answer(j) \/ CancelExpired(j)
      PROVE  decided'[i] = decided[i]
  BY <1>1, <1>2 DEF Answer, CancelExpired
<1>3. CASE RefusalAccepted \/ RefusalCancelsTurn \/ RefusalFails
  <2>1. PICK j \in Odd : event = Output("asked", j) /\ cons = "refuse"
    BY <1>3 DEF RefusalAccepted, RefusalCancelsTurn, RefusalFails
  <2>2. j \in Asked /\ event.id = j /\ decided[j] = None
    BY <2>1, OutputFields, InteractionsAssumption
  <2>3. \E who \in {"refusal", "lost"} : Decide(event.id, who)
    BY <1>3 DEF RefusalAccepted, RefusalCancelsTurn, RefusalFails
  <2> QED
    BY <1>1, <2>2, <2>3
<1>4. ASSUME NEW j \in Asked, Ask(j) \/ Settle(j) \/ Replied(j) \/ Expire(j)
      PROVE  decided' = decided
  BY <1>4 DEF Ask, Settle, Replied, Expire, seenVars
<1>5. CASE Complete \/ FailClosed \/ StartAnswered \/ Interrupt \/ Interrupted
           \/ InterruptAnswered \/ Delete \/ Deleted
  BY <1>5 DEF Complete, FailClosed, StartAnswered, Interrupt, Interrupted, InterruptAnswered,
    Delete, Deleted, seenVars
<1>6. CASE Take \/ EndOfOutputs \/ Project \/ Refuse \/ IgnoreClosed \/ ProjectClosed
           \/ ProjectCompleted
  BY <1>6 DEF Take, EndOfOutputs, Project, Refuse, IgnoreClosed, ProjectClosed,
    ProjectCompleted, seenVars
<1> QED
  BY <1>2, <1>3, <1>4, <1>5, <1>6 DEF Next, Consume

\* Answer, expiry and refusal of one interaction exclude each other.
THEOREM DecidedOnce == Spec => OneDecision
<1>1. IInv /\ [Next]_vars =>
        [\A i \in Asked : decided[i] # None => decided'[i] = decided[i]]_vars
  BY DecisionStays
<1> QED
  BY <1>1, InitInductive, Inductive, PTL DEF Spec, OneDecision

-----------------------------------------------------------------------------
(* The end of the turn leaves nothing behind *)

\* the tables of the host: what is not over is open, what is pending is open
Tables ==
  /\ shown \subseteq answered \cup resolved \cup pending
  /\ pending \subseteq open /\ timer \subseteq pending /\ open \subseteq shown
  /\ ignored \subseteq Asked

\* the end of i is on its way
Closing(i) == \E n \in DOMAIN queue : queue[n] = Output("closed", i)

\* turn.completed is the last output, and asks and closes nothing after it
CompletedIsLast ==
  /\ work \in BOOLEAN /\ (work \/ \A i \in Asked : native[i] # "pending")
  /\ \A n \in DOMAIN queue : queue[n].what = "completed" => n = Len(queue) /\ ~work
  /\ cons = "wait" /\ event.what = "completed" => queue = <<>> /\ ~work
  /\ ended => queue = <<>> /\ ~work /\ cons \notin {"wait", "refuse"}

\* the end of an interaction comes after its beginning
ClosedAfterAsked == \A i \in Asked : native[i] = "closed" =>
  /\ \A n \in DOMAIN queue : queue[n] = Output("asked", i) =>
       \E m \in DOMAIN queue : m > n /\ queue[m] = Output("closed", i)
  /\ InHand(i) => Closing(i)

\* what is ignored has its end before it
IgnoredCloses == \A i \in ignored :
  native[i] = "pending" \/ Closing(i) \/ (cons = "wait" /\ event = Output("closed", i))

EndInv == Tables /\ CompletedIsLast /\ ClosedAfterAsked /\ IgnoredCloses /\ NothingLeftBehind

LEMMA ClosedOutput ==
  /\ \A o \in Outputs : o.what = "closed" => o.id \in Asked /\ o = Output("closed", o.id)
  /\ \A i, j \in Asked : /\ Output("closed", i) # Output("asked", j)
                         /\ Output("closed", i) = Output("closed", j) => i = j
                         /\ Output("closed", i).id = i
  /\ \A o \in Outputs : o.what \in {"asked", "closed", "completed"}
BY DEF Output, Outputs

LEMMA AppendAt ==
  ASSUME NEW q \in Seq(Outputs), NEW o \in Outputs
  PROVE  /\ Len(q) \in Nat /\ Len(Append(q, o)) = Len(q) + 1
         /\ DOMAIN q = 1..Len(q) /\ DOMAIN Append(q, o) = 1..(Len(q) + 1)
         /\ \A n \in 1..Len(q) : Append(q, o)[n] = q[n]
         /\ Append(q, o)[Len(q) + 1] = o
  OBVIOUS

LEMMA TailAt ==
  ASSUME NEW q \in Seq(Outputs), q # <<>>
  PROVE  /\ Len(q) \in Nat \ {0} /\ Len(Tail(q)) = Len(q) - 1
         /\ DOMAIN q = 1..Len(q) /\ DOMAIN Tail(q) = 1..(Len(q) - 1)
         /\ \A n \in 1..(Len(q) - 1) : Tail(q)[n] = q[n + 1]
         /\ Head(q) = q[1] /\ Head(q) \in Outputs
  OBVIOUS

\* the session settles j, or takes a decision about it
Closes(j) == /\ native[j] = "pending" /\ native' = [native EXCEPT ![j] = "closed"]
             /\ queue' = Append(queue, Output("closed", j)) /\ work' = work

\* The end of an interaction is put on its way: whatever the consumer does in
\* the same step, it has nothing new in hand.
LEMMA CloseStep ==
  ASSUME IInv, EndInv, NEW j \in Asked, Closes(j), UNCHANGED <<event, ended>>,
         cons' = cons \/ (cons = "refuse" /\ cons' = "next"), ignored' \subseteq ignored
  PROVE  CompletedIsLast' /\ ClosedAfterAsked' /\ IgnoredCloses' /\ ~ended
<1> USE DEF EndInv, Tables, IInv, Types
<1>1. work /\ ~ended
  BY DEF Closes, CompletedIsLast
<1>2. /\ Len(queue) \in Nat /\ Len(queue') = Len(queue) + 1
      /\ DOMAIN queue = 1..Len(queue) /\ DOMAIN queue' = 1..(Len(queue) + 1)
      /\ \A n \in 1..Len(queue) : queue'[n] = queue[n]
      /\ queue'[Len(queue) + 1] = Output("closed", j)
  BY OutputFields, AppendAt DEF Closes
<1>3. CompletedIsLast'
  BY <1>1, <1>2, OutputFields DEF CompletedIsLast, Closes
<1>4. Closing(j)' /\ \A i \in Asked : Closing(i) => Closing(i)'
  BY <1>2 DEF Closing
<1>5. \A i \in Asked : InHand(i)' => InHand(i)
  BY DEF InHand
<1>6. \A i \in Asked : i # j => native'[i] = native[i]
  BY DEF Closes
<1>7. ASSUME NEW i \in Asked, native'[i] = "closed", NEW n \in DOMAIN queue',
             queue'[n] = Output("asked", i)
      PROVE  \E m \in DOMAIN queue' : m > n /\ queue'[m] = Output("closed", i)
  <2>1. n \in 1..Len(queue)
    BY <1>2, <1>7, ClosedOutput
  <2>2. CASE i = j
    BY <1>2, <2>1, <2>2
  <2>3. CASE i # j
    <3>1. PICK m \in DOMAIN queue : m > n /\ queue[m] = Output("closed", i)
      BY <1>2, <1>6, <1>7, <2>1, <2>3 DEF ClosedAfterAsked
    <3> QED
      BY <1>2, <3>1
  <2> QED
    BY <2>2, <2>3
<1>8. ClosedAfterAsked'
  BY <1>4, <1>5, <1>6, <1>7 DEF ClosedAfterAsked
<1>9. IgnoredCloses'
  <2> SUFFICES ASSUME NEW i \in ignored'
               PROVE  native'[i] = "pending" \/ Closing(i)'
                        \/ (cons' = "wait" /\ event' = Output("closed", i))
    BY DEF IgnoredCloses
  <2>1. native[i] = "pending" \/ Closing(i) \/ (cons = "wait" /\ event = Output("closed", i))
    BY DEF IgnoredCloses
  <2> QED
    BY <1>4, <1>6, <2>1
<1> QED
  BY <1>1, <1>3, <1>8, <1>9

\* A step without outputs.
LEMMA StillStep ==
  ASSUME IInv, EndInv, UNCHANGED <<native, queue, work, event, ended>>,
         cons' = cons \/ cons' \notin {"wait", "refuse"} \/ (cons = "wait" /\ cons' = "refuse"),
         \A i \in ignored' : \/ i \in ignored /\ (cons = "wait" => cons' = cons \/ event # Output("closed", i))
                             \/ i \in Asked /\ InHand(i) /\ native[i] # "new"
  PROVE  CompletedIsLast' /\ ClosedAfterAsked' /\ IgnoredCloses'
<1> USE DEF EndInv, IInv, Types
<1>1. \A i \in Asked : (InHand(i)' => InHand(i)) /\ (Closing(i)' <=> Closing(i))
  BY DEF InHand, Closing
<1>2. CompletedIsLast'
  BY DEF CompletedIsLast
<1>3. ClosedAfterAsked'
  BY <1>1 DEF ClosedAfterAsked
<1>4. IgnoredCloses'
  <2> SUFFICES ASSUME NEW i \in ignored'
               PROVE  native'[i] = "pending" \/ Closing(i)'
                        \/ (cons' = "wait" /\ event' = Output("closed", i))
    BY DEF IgnoredCloses
  <2>1. CASE i \in ignored /\ (cons = "wait" => cons' = cons \/ event # Output("closed", i))
    BY <1>1, <2>1 DEF IgnoredCloses, Tables
  <2>2. CASE i \in Asked /\ InHand(i) /\ native[i] # "new"
    BY <1>1, <2>2 DEF ClosedAfterAsked
  <2> QED
    BY <2>1, <2>2
<1> QED
  BY <1>2, <1>3, <1>4

LEMMA EndInit == Init => EndInv
  BY DEF Init, EndInv, Tables, CompletedIsLast, ClosedAfterAsked, IgnoredCloses, NothingLeftBehind,
    InHand

LEMMA EndSession ==
  ASSUME IInv, EndInv, (\E i \in Asked : Ask(i) \/ Settle(i)) \/ Complete
  PROVE  EndInv'
<1> USE DEF EndInv
<1>1. /\ UNCHANGED <<cons, event, shown, answered, resolved, pending, open, timer, ignored, ended>>
      /\ Tables'
  BY DEF Ask, Settle, Complete, consVars, hostVars, seenVars, Tables
<1>2. CASE ended' = FALSE /\ CompletedIsLast' /\ ClosedAfterAsked' /\ IgnoredCloses'
  BY <1>1, <1>2 DEF NothingLeftBehind
<1>3. ASSUME NEW j \in Asked, Settle(j) PROVE EndInv'
  <2>1. Closes(j)
    BY <1>3 DEF Settle, Closes
  <2>2. CompletedIsLast' /\ ClosedAfterAsked' /\ IgnoredCloses' /\ ~ended
    BY <1>1, <2>1, CloseStep
  <2> QED
    BY <1>1, <2>2 DEF NothingLeftBehind
<1>4. ASSUME NEW o \in Outputs, queue' = Append(queue, o), work, o.what # "closed",
             \A i \in Asked : native'[i] = native[i] \/ (native'[i] = "pending" /\ native[i] = "new"),
             \A i \in Asked : o = Output("asked", i) => native'[i] = "pending",
             o.what = "completed" => ~work' /\ \A i \in Asked : native'[i] # "pending",
             o.what # "completed" => work' = work,
             work' \in BOOLEAN
      PROVE  EndInv'
  <2> USE DEF IInv, Types
  <2>1. /\ Len(queue) \in Nat /\ Len(queue') = Len(queue) + 1
        /\ DOMAIN queue = 1..Len(queue) /\ DOMAIN queue' = 1..(Len(queue) + 1)
        /\ \A n \in 1..Len(queue) : queue'[n] = queue[n]
        /\ queue'[Len(queue) + 1] = o
    BY <1>4, AppendAt
  <2>2. ~ended /\ ~(cons = "wait" /\ event.what = "completed")
        /\ \A n \in DOMAIN queue : queue[n].what # "completed"
    BY <1>4 DEF CompletedIsLast
  <2>3. CompletedIsLast'
    <3>1. work' \in BOOLEAN /\ (work' \/ \A i \in Asked : native'[i] # "pending")
      BY <1>4
    <3>2. \A n \in DOMAIN queue' : queue'[n].what = "completed" => n = Len(queue') /\ ~work'
      BY <1>4, <2>1, <2>2
    <3>3. ~(cons' = "wait" /\ event'.what = "completed") /\ ~ended'
      BY <1>1, <2>2
    <3> QED
      BY <3>1, <3>2, <3>3 DEF CompletedIsLast
  <2>4. \A i \in Asked : Closing(i) => Closing(i)'
    BY <2>1 DEF Closing
  <2>5. ASSUME NEW i \in Asked, native'[i] = "closed", NEW n \in DOMAIN queue',
               queue'[n] = Output("asked", i)
        PROVE  \E m \in DOMAIN queue' : m > n /\ queue'[m] = Output("closed", i)
    <3>1. native[i] = "closed" /\ n \in 1..Len(queue)
      BY <1>4, <2>1, <2>5
    <3>2. PICK m \in DOMAIN queue : m > n /\ queue[m] = Output("closed", i)
      BY <2>1, <2>5, <3>1 DEF ClosedAfterAsked
    <3> QED
      BY <2>1, <3>2
  <2>6. ClosedAfterAsked'
    BY <1>1, <1>4, <2>4, <2>5 DEF ClosedAfterAsked, InHand
  <2>7. IgnoredCloses'
    BY <1>1, <1>4, <2>4 DEF IgnoredCloses, Tables
  <2> QED
    BY <1>1, <2>2, <2>3, <2>6, <2>7 DEF NothingLeftBehind
<1>5. ASSUME NEW i \in Asked, Ask(i) PROVE EndInv'
  <2>1. /\ Output("asked", i) \in Outputs /\ Output("asked", i).what = "asked"
        /\ \A j \in Asked : Output("asked", i) = Output("asked", j) => i = j
    BY OutputFields
  <2> QED
    BY <1>4, <1>5, <2>1 DEF Ask, IInv, Types, CompletedIsLast
<1>6. CASE Complete
  <2>1. LET o == [what |-> "completed"]
        IN  o \in Outputs /\ o.what = "completed" /\ \A j \in Asked : o # Output("asked", j)
    BY OutputFields
  <2> QED
    BY <1>4, <1>6, <2>1 DEF Complete
<1> QED
  BY <1>3, <1>5, <1>6

\* A command of the host closes its interaction or leaves all as it is.
LEMMA CommandStep ==
  ASSUME IInv, EndInv, NEW i \in Asked, Accept(i) \/ TooLate(i) \/ Fail(i) \/ CancelTurn,
         UNCHANGED <<event, ended>>, cons' = cons \/ (cons = "refuse" /\ cons' = "next"),
         ignored' \subseteq ignored
  PROVE  CompletedIsLast' /\ ClosedAfterAsked' /\ IgnoredCloses'
<1>1. CASE Accept(i)
  BY <1>1, CloseStep DEF Accept, Closes
<1>2. CASE TooLate(i) \/ Fail(i) \/ CancelTurn
  <2>1. UNCHANGED <<native, queue, work>>
    BY <1>2 DEF TooLate, Fail, CancelTurn, sessionVars
  <2> QED
    BY <2>1, StillStep
<1> QED
  BY <1>1, <1>2

LEMMA EndTake ==
  ASSUME IInv, EndInv, Take
  PROVE  EndInv'
<1> USE DEF EndInv, IInv, Types
<1>1. /\ queue # <<>> /\ cons = "next" /\ cons' = "wait" /\ event' = Head(queue)
      /\ queue' = Tail(queue)
      /\ UNCHANGED <<native, work, shown, answered, resolved, pending, open, timer, ignored, ended>>
  BY DEF Take, hostVars, seenVars
<1>2. /\ Len(queue) \in Nat \ {0} /\ Len(queue') = Len(queue) - 1
      /\ DOMAIN queue = 1..Len(queue) /\ DOMAIN queue' = 1..(Len(queue) - 1)
      /\ \A n \in 1..(Len(queue) - 1) : queue'[n] = queue[n + 1]
      /\ Head(queue) = queue[1]
  BY <1>1, TailAt
<1>3. ~ended
  BY <1>1 DEF CompletedIsLast
<1>4. CompletedIsLast'
  <2>1. event'.what = "completed" => Len(queue) = 1 /\ ~work
    BY <1>1, <1>2 DEF CompletedIsLast
  <2>2. Len(queue) = 1 => queue' = <<>>
    BY <1>1
  <2> QED
    BY <1>1, <1>2, <1>3, <2>1, <2>2 DEF CompletedIsLast
<1>5. ASSUME NEW i \in Asked
      PROVE  Closing(i) => Closing(i)' \/ event' = Output("closed", i)
  <2> SUFFICES ASSUME Closing(i), event' # Output("closed", i) PROVE Closing(i)'
    OBVIOUS
  <2>1. PICK n \in DOMAIN queue : queue[n] = Output("closed", i)
    BY DEF Closing
  <2>2. n # 1 /\ n - 1 \in DOMAIN queue' /\ queue'[n - 1] = queue[n]
    BY <1>1, <1>2, <2>1
  <2> QED
    BY <2>1, <2>2 DEF Closing
<1>6. ASSUME NEW i \in Asked, native[i] = "closed", NEW n \in DOMAIN queue,
             queue[n] = Output("asked", i)
      PROVE  \E m \in DOMAIN queue' : m > n - 1 /\ queue'[m] = Output("closed", i)
  <2>1. PICK m \in DOMAIN queue : m > n /\ queue[m] = Output("closed", i)
    BY <1>6 DEF ClosedAfterAsked
  <2>2. m - 1 \in DOMAIN queue' /\ m - 1 > n - 1 /\ queue'[m - 1] = Output("closed", i)
    BY <1>2, <2>1
  <2> QED
    BY <2>2
<1>7. ASSUME NEW i \in Asked, native[i] = "closed", NEW n \in DOMAIN queue',
             queue'[n] = Output("asked", i)
      PROVE  \E m \in DOMAIN queue' : m > n /\ queue'[m] = Output("closed", i)
  <2>1. n + 1 \in DOMAIN queue /\ queue[n + 1] = Output("asked", i) /\ (n + 1) - 1 = n
    BY <1>2, <1>7
  <2> QED
    BY <1>6, <1>7, <2>1
<1>8. ASSUME NEW i \in Asked, native[i] = "closed", event' = Output("asked", i)
      PROVE  Closing(i)'
  <2>1. 1 \in DOMAIN queue /\ queue[1] = Output("asked", i)
    BY <1>1, <1>2, <1>8
  <2> QED
    BY <1>6, <1>8, <2>1 DEF Closing
<1>9. ClosedAfterAsked'
  BY <1>1, <1>7, <1>8 DEF ClosedAfterAsked, InHand
<1>10. IgnoredCloses'
  BY <1>1, <1>5 DEF IgnoredCloses, Tables
<1> QED
  BY <1>1, <1>3, <1>4, <1>9, <1>10 DEF Tables, NothingLeftBehind

LEMMA EndConsume ==
  ASSUME IInv, EndInv, Consume
  PROVE  EndInv'
<1> USE DEF EndInv
<1>1. CASE EndOfOutputs
  <2>1. /\ CompletedIsLast' /\ ClosedAfterAsked' /\ IgnoredCloses'
    BY <1>1, StillStep DEF EndOfOutputs, sessionVars, hostVars, seenVars
  <2> QED
    BY <1>1, <2>1 DEF EndOfOutputs, Tables, NothingLeftBehind, hostVars, seenVars
<1>2. CASE Project
  <2>1. /\ CompletedIsLast' /\ ClosedAfterAsked' /\ IgnoredCloses'
    BY <1>2, ClosedOutput, OutputFields, StillStep DEF Project, Passed, sessionVars, Tables
  <2> QED
    BY <1>2, <2>1 DEF Project, Passed, Tables, NothingLeftBehind, CompletedIsLast
<1>3. CASE Refuse
  <2>1. event.id \in Asked /\ event = Output("asked", event.id)
    BY <1>3, AskedOutput DEF Refuse, Passed, IInv, Types
  <2>2. InHand(event.id) /\ native[event.id] # "new"
    BY <1>3, <2>1 DEF Refuse, Passed, IInv, AskedIsFresh, InHand
  <2>3. /\ CompletedIsLast' /\ ClosedAfterAsked' /\ IgnoredCloses'
    BY <1>3, <2>1, <2>2, ClosedOutput, StillStep DEF Refuse, Passed, sessionVars, seenVars, Tables
  <2> QED
    BY <1>3, <2>1, <2>3 DEF Refuse, Passed, Tables, NothingLeftBehind, CompletedIsLast, seenVars
<1>4. CASE RefusalAccepted \/ RefusalCancelsTurn \/ RefusalFails
  <2>1. event.id \in Asked
    BY <1>4, OutputFields, InteractionsAssumption
       DEF RefusalAccepted, RefusalCancelsTurn, RefusalFails, IInv, OneMayDecide
  <2>2. /\ Accept(event.id) \/ TooLate(event.id) \/ Fail(event.id) \/ CancelTurn
        /\ cons = "refuse" /\ cons' = "next" /\ ignored' \subseteq ignored
        /\ UNCHANGED <<event, shown, answered, resolved, pending, open, timer, ended>>
    BY <1>4 DEF RefusalAccepted, RefusalCancelsTurn, RefusalFails, hostVars
  <2>3. CompletedIsLast' /\ ClosedAfterAsked' /\ IgnoredCloses'
    BY <2>1, <2>2, CommandStep
  <2> QED
    BY <2>2, <2>3 DEF Tables, NothingLeftBehind
<1>5. CASE IgnoreClosed \/ ProjectClosed
  <2>1. event.id \in Asked /\ event = Output("closed", event.id) /\ cons = "wait"
        /\ event.id \notin ignored' /\ ignored' \subseteq ignored
        /\ cons' \notin {"wait", "refuse"}
    BY <1>5, ClosedOutput DEF IgnoreClosed, ProjectClosed, Passed, IInv, Types
  <2>2. /\ CompletedIsLast' /\ ClosedAfterAsked' /\ IgnoredCloses'
    BY <1>5, <2>1, ClosedOutput, StillStep DEF IgnoreClosed, ProjectClosed, sessionVars, seenVars, Tables
  <2>3. ~ended
    BY <2>1 DEF CompletedIsLast
  <2> QED
    BY <1>5, <2>1, <2>2, <2>3
       DEF IgnoreClosed, ProjectClosed, Resolve, Tables, NothingLeftBehind, seenVars, IInv,
           OneMayDecide
<1>6. CASE ProjectCompleted
  <2>1. /\ cons = "wait" /\ event.what = "completed" /\ queue = <<>> /\ ~work
        /\ cons' \in {"next", "dead"} /\ UNCHANGED <<native, queue, work, event, ignored>>
        /\ UNCHANGED <<shown, answered, resolved, pending, open, timer>>
        /\ ended' = ended \/ (ended' = TRUE /\ open = {})
    BY <1>6 DEF ProjectCompleted, Passed, CompletedIsLast, sessionVars, hostVars
  <2>2. ignored = {}
    <3>1. \A i \in Asked : native[i] # "pending" /\ ~Closing(i) /\ event # Output("closed", i)
      BY <2>1, OutputFields DEF CompletedIsLast, Closing
    <3> QED
      BY <3>1 DEF IgnoredCloses, Tables
  <2>3. CompletedIsLast'
    BY <2>1 DEF CompletedIsLast
  <2>4. ClosedAfterAsked' /\ IgnoredCloses'
    BY <2>1, <2>2 DEF ClosedAfterAsked, InHand, Closing, IgnoredCloses
  <2>5. NothingLeftBehind'
    BY <2>1, <2>2 DEF NothingLeftBehind, Tables, IInv, OneMayDecide
  <2> QED
    BY <2>1, <2>3, <2>4, <2>5 DEF Tables
<1> QED
  BY <1>1, <1>2, <1>3, <1>4, <1>5, <1>6, EndTake DEF Consume

LEMMA EndDesktop ==
  ASSUME IInv, EndInv,
         \/ \E i \in Asked : Answer(i) \/ Replied(i) \/ Expire(i) \/ CancelExpired(i)
         \/ FailClosed \/ StartAnswered \/ Interrupt \/ Interrupted \/ InterruptAnswered
         \/ Delete \/ Deleted
  PROVE  EndInv'
<1> USE DEF EndInv
<1>1. ASSUME NEW i \in Asked, Answer(i) \/ Expire(i) PROVE EndInv'
  <2>1. CompletedIsLast' /\ ClosedAfterAsked' /\ IgnoredCloses'
    BY <1>1, StillStep DEF Answer, Expire, sessionVars, consVars
  <2>2. Tables'
    BY <1>1 DEF Answer, Expire, Resolve, Tables
  <2>3. NothingLeftBehind'
    BY <1>1 DEF Answer, Expire, Resolve, NothingLeftBehind, Tables
  <2> QED
    BY <2>1, <2>2, <2>3
<1>2. ASSUME NEW i \in Asked, Replied(i) \/ CancelExpired(i) PROVE EndInv'
  <2>1. /\ Accept(i) \/ TooLate(i) \/ Fail(i)
        /\ UNCHANGED <<cons, event, ignored, shown, answered, resolved, pending, open, timer, ended>>
    BY <1>2 DEF Replied, CancelExpired, consVars, hostVars, seenVars
  <2>2. CompletedIsLast' /\ ClosedAfterAsked' /\ IgnoredCloses'
    BY <2>1, CommandStep
  <2> QED
    BY <2>1, <2>2 DEF Tables, NothingLeftBehind
<1>3. CASE FailClosed \/ StartAnswered \/ Interrupt \/ Interrupted \/ InterruptAnswered
           \/ Delete \/ Deleted
  <2>1. UNCHANGED <<native, queue, work, cons, event, ignored, shown, answered, resolved, pending,
                    open, timer, ended>>
    BY <1>3 DEF FailClosed, StartAnswered, Interrupt, Interrupted, InterruptAnswered, Delete,
      Deleted, CancelTurn, sessionVars, consVars, hostVars, seenVars
  <2>2. CompletedIsLast' /\ ClosedAfterAsked' /\ IgnoredCloses'
    BY <2>1, StillStep
  <2> QED
    BY <2>1, <2>2 DEF Tables, NothingLeftBehind
<1> QED
  BY <1>1, <1>2, <1>3

LEMMA EndInductive == IInv /\ EndInv /\ [Next]_vars => EndInv'
<1>1. ASSUME IInv, EndInv, Next PROVE EndInv'
  BY <1>1, EndSession, EndConsume, EndDesktop DEF Next
<1>2. ASSUME IInv, EndInv, UNCHANGED vars PROVE EndInv'
  BY <1>2 DEF EndInv, Tables, CompletedIsLast, ClosedAfterAsked, IgnoredCloses, NothingLeftBehind,
    InHand, Closing, vars, sessionVars, consVars, hostVars, seenVars
<1> QED
  BY <1>1, <1>2

\* When turn/completed is written every request has ended on the Desktop and
\* the tables are empty: refusals, answers, expiries and the end of the turn
\* may meet in any order.
THEOREM NothingRemains == Spec => []NothingLeftBehind
<1>1. EndInv => NothingLeftBehind
  BY DEF EndInv
<1> QED
  BY InitInductive, Inductive, EndInit, EndInductive, <1>1, PTL DEF Spec
=============================================================================
