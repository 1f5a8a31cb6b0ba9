----------------------------- MODULE DesktopProofs -----------------------------
(***************************************************************************)
(* What a Desktop relies on when it goes and when it comes.  SessionDrain: *)
(* a disconnected session is released only when its work is over, and its  *)
(* drain does not sleep through the end of it.  ThreadList: the pages it   *)
(* reads when it lists the threads are in order and leave no gap.          *)
(***************************************************************************)
EXTENDS SessionDrain, ThreadList, FiniteSetTheorems, SequenceTheorems, TLAPS

-----------------------------------------------------------------------------
(* SessionDrain *)

Frame == [what : {"response", "started", "completed"}, turn : Turns, ok : BOOLEAN]

\* a frame tells how far the app-server was with the turn
FramesSay == \A n \in DOMAIN frames :
  LET f == frames[n]
  IN  /\ f.what = "response" /\ f.ok => native[f.turn] \in {"active", "over"}
      /\ f.what = "response" /\ ~f.ok => native[f.turn] = "refused"
      /\ f.what = "started" => native[f.turn] \in {"active", "over"}
      /\ f.what = "completed" => native[f.turn] = "over"

\* a turn that was asked for has a thread, and only such a turn is answered
Placed == \A t \in Turns :
  /\ by[t] = None <=> native[t] = "none"
  /\ by[t] # None => thread[t] \in Threads
  /\ resumed[t] # "none" => by[t] = "delegation"

Base == TypeOK /\ FramesSay /\ Placed

\* the host has not seen the end of the turn
Ongoing(t) ==
  \/ native[t] \in {"sent", "active"}
  \/ \E n \in DOMAIN frames : frames[n].turn = t /\ frames[n].what # "response"

\* one turn of a thread is under way
OneOngoing == \A s, t \in Turns :
  by[s] # None /\ by[t] # None /\ thread[s] = thread[t] /\ Ongoing(s) /\ Ongoing(t) => s = t

\* the host counts a turn of the Desktop until it is over: its start is
\* pending, or its thread has an active turn
Counted == \A t \in Turns : by[t] = "desktop" =>
  /\ native[t] = "sent" => t \in starts
  /\ native[t] = "active" => t \in starts \/ active[thread[t]] # None

\* what the host counts of the external session is what the session does
Mirrors == running = external /\ tracked = subagent

ReleasedIdle == drain = "released" => ~HasActiveWork

IInv == OneOngoing /\ Counted /\ Mirrors /\ ReleasedIdle

-----------------------------------------------------------------------------
(* Frames *)

LEMMA AppendFrame ==
  ASSUME NEW q \in Seq(Frame), NEW f \in Frame
  PROVE  /\ Append(q, f) \in Seq(Frame)
         /\ \A n \in DOMAIN Append(q, f) :
              Append(q, f)[n] = f \/ (n \in DOMAIN q /\ Append(q, f)[n] = q[n])
         /\ \A n \in DOMAIN q : n \in DOMAIN Append(q, f) /\ Append(q, f)[n] = q[n]
OBVIOUS

LEMMA FirstFrame ==
  ASSUME NEW q \in Seq(Frame), q # <<>>
  PROVE  /\ Tail(q) \in Seq(Frame) /\ Head(q) \in Frame
         /\ 1 \in DOMAIN q /\ Head(q) = q[1]
         /\ \A n \in DOMAIN Tail(q) : n + 1 \in DOMAIN q /\ Tail(q)[n] = q[n + 1]
OBVIOUS

\* how the first frame is handled: a response, or the lifecycle of its turn
LEMMA Handled ==
  ASSUME Base, HandleFrame
  PROVE  LET f == Head(frames)
         IN  /\ f \in Frame /\ f = frames[1] /\ 1 \in DOMAIN frames
             /\ by[f.turn] # None /\ thread[f.turn] \in Threads
             /\ f.what = "response" => Response(f.turn, f.ok)
             /\ f.what # "response" => Lifecycle(f.turn, f.what)
<1> DEFINE f == Head(frames)
<1>1. f \in Frame /\ f = frames[1] /\ 1 \in DOMAIN frames
  BY FirstFrame DEF Base, TypeOK, Frame, HandleFrame
<1>2. f.what \in {"response", "started", "completed"} /\ f.turn \in Turns
  BY <1>1 DEF Frame
<1>3. native[f.turn] # "none"
  BY <1>1, <1>2 DEF Base, FramesSay
<1>4. by[f.turn] # None /\ thread[f.turn] \in Threads
  BY <1>2, <1>3 DEF Base, Placed
<1> QED
  BY <1>1, <1>4 DEF HandleFrame

-----------------------------------------------------------------------------
(* Types, frames and threads *)

LEMMA FramesType ==
  ASSUME TypeOK
  PROVE  frames \in Seq(Frame) /\ \A n \in DOMAIN frames : frames[n] \in Frame
<1>1. frames \in Seq(Frame)
  BY DEF TypeOK, Frame
<1> QED
  BY <1>1

LEMMA BaseInit == Init => Base
<1> SUFFICES ASSUME Init PROVE Base
  OBVIOUS
<1>1. TypeOK
  <2>1. frames \in Seq([what : {"response", "started", "completed"}, turn : Turns, ok : BOOLEAN])
    BY DEF Init
  <2>2. told \in [Turns -> SUBSET {"response", "started", "completed"}]
    BY DEF Init
  <2> QED
    BY <2>1, <2>2 DEF Init, TypeOK
<1>2. FramesSay /\ Placed
  BY SessionDrainAssumption DEF Init, FramesSay, Placed
<1> QED
  BY <1>1, <1>2 DEF Base

LEMMA BaseStart ==
  ASSUME Base, NEW t \in Turns, DesktopStart(t) \/ DelegationStart(t)
  PROVE  Base'
<1> USE SessionDrainAssumption DEF Base
<1>1. PICK o \in Threads, who \in {"desktop", "delegation"} :
        /\ by[t] = None /\ by' = [by EXCEPT ![t] = who] /\ thread' = [thread EXCEPT ![t] = o]
        /\ native' = [native EXCEPT ![t] = "sent"]
        /\ starts' = starts \/ (who = "desktop" /\ starts' = starts \cup {t})
  BY DEF DesktopStart, DelegationStart, Start
<1>2. UNCHANGED <<told, frames, active, resumed, externalVars, drain>>
  BY DEF DesktopStart, DelegationStart
<1>3. TypeOK'
  <2>1. /\ by' \in [Turns -> {None, "desktop", "delegation"}]
        /\ thread' \in [Turns -> Threads \cup {None}]
        /\ native' \in [Turns -> {"none", "sent", "active", "over", "refused"}]
    BY <1>1 DEF TypeOK
  <2>2. starts' \subseteq {s \in Turns : by'[s] = "desktop"}
    BY <1>1 DEF TypeOK
  <2> QED
    BY <1>2, <2>1, <2>2 DEF TypeOK, externalVars
<1>4. FramesSay'
  <2>1. native[t] = "none"
    BY <1>1 DEF Placed
  <2>2. \A s \in Turns : native[s] # "none" => native'[s] = native[s]
    BY <1>1, <2>1 DEF TypeOK
  <2>3. \A n \in DOMAIN frames : frames[n] \in Frame
    BY FramesType
  <2> QED
    BY <1>2, <2>2, <2>3 DEF FramesSay, Frame
<1>5. Placed'
  <2>1. by'[t] = who /\ who # None /\ thread'[t] = o /\ native'[t] = "sent"
    BY <1>1 DEF TypeOK
  <2>2. \A s \in Turns \ {t} : by'[s] = by[s] /\ thread'[s] = thread[s] /\ native'[s] = native[s]
    BY <1>1 DEF TypeOK
  <2> QED
    BY <1>1, <1>2, <2>1, <2>2 DEF Placed
<1> QED
  BY <1>3, <1>4, <1>5

\* a step of the app-server tells the host with a new frame or not at all
LEMMA BaseNative ==
  ASSUME Base, NEW t \in Turns, Native(t)
  PROVE  Base'
<1> USE DEF Base
<1>1. /\ UNCHANGED <<by, thread, starts, active, resumed, externalVars, drain>>
      /\ native[t] \in {"sent", "active", "over"}
      /\ native' = native \/ native' = [native EXCEPT ![t] = "refused"]
           \/ native' = [native EXCEPT ![t] = "active"] \/ native' = [native EXCEPT ![t] = "over"]
  BY DEF Native, Refuse, Accept, Respond, ReportStarted, Complete
<1>2. UNCHANGED <<told, frames>>
        \/ \E f \in Frame : told' = [told EXCEPT ![t] = @ \cup {f.what}] /\ f.turn = t
                              /\ f.what \in {"response", "started", "completed"}
                              /\ frames' = Append(frames, f)
  BY DEF Native, Refuse, Accept, Respond, ReportStarted, Complete, Send, Frame
<1>3. TypeOK'
  <2>1. told' \in [Turns -> SUBSET {"response", "started", "completed"}]
    BY <1>2 DEF TypeOK
  <2>2. frames' \in Seq(Frame)
    BY <1>2, AppendFrame, FramesType
  <2> QED
    BY <1>1, <2>1, <2>2 DEF TypeOK, externalVars, Frame
<1>4. Placed'
  BY <1>1, SessionDrainAssumption DEF Placed, TypeOK
<1>5. FramesSay'
  <2>1. \A n \in DOMAIN frames : frames[n] \in Frame
    BY FramesType
  <2>2. \A s \in Turns \ {t} : native'[s] = native[s]
    BY <1>1 DEF TypeOK
  <2>3. CASE native[t] = "sent" /\ frames' = frames
    BY <1>1, <2>1, <2>2, <2>3 DEF FramesSay, Frame, TypeOK
  <2>4. CASE Refuse(t)
    <3>1. \A n \in DOMAIN frames : frames[n].turn # t
      BY <2>1, <2>4 DEF Refuse, FramesSay, Frame
    <3>2. /\ native' = [native EXCEPT ![t] = "refused"]
          /\ frames' = Append(frames, [what |-> "response", turn |-> t, ok |-> FALSE])
      BY <2>4 DEF Refuse, Send
    <3>3. [what |-> "response", turn |-> t, ok |-> FALSE] \in Frame
      BY DEF Frame
    <3>4. \A n \in DOMAIN frames' : frames'[n] = [what |-> "response", turn |-> t, ok |-> FALSE]
                                      \/ (n \in DOMAIN frames /\ frames'[n] = frames[n])
      BY <3>2, <3>3, AppendFrame, FramesType
    <3>5. \A n \in DOMAIN frames : frames[n].turn \in Turns \ {t}
      BY <2>1, <3>1 DEF Frame
    <3> QED
      BY <2>2, <3>2, <3>4, <3>5 DEF FramesSay, TypeOK
  <2>5. CASE Accept(t)
    BY <2>3, <2>5 DEF Accept
  <2>6. ASSUME NEW f \in Frame, f.turn = t, frames' = Append(frames, f),
               f.ok, native[t] \in {"active", "over"}, native'[t] \in {"active", "over"},
               native[t] = "over" => native'[t] = "over",
               f.what = "completed" => native'[t] = "over"
        PROVE  FramesSay'
    <3>1. \A n \in DOMAIN frames' : frames'[n] = f \/ (n \in DOMAIN frames /\ frames'[n] = frames[n])
      BY <2>6, AppendFrame, FramesType
    <3>2. \A n \in DOMAIN frames : frames[n].turn \in Turns
      BY <2>1 DEF Frame
    <3> QED
      BY <2>2, <2>6, <3>1, <3>2 DEF FramesSay
  <2>7. CASE Respond(t) \/ ReportStarted(t) \/ Complete(t)
    <3>1. PICK f \in Frame : f.turn = t /\ f.ok /\ frames' = Append(frames, f)
                             /\ (f.what = "completed" => native'[t] = "over")
      <4>1. \A w \in {"response", "started", "completed"} :
              LET f == [what |-> w, turn |-> t, ok |-> TRUE]
              IN  f \in Frame /\ f.turn = t /\ f.what = w /\ f.ok
        BY DEF Frame
      <4>2. CASE Respond(t)
        BY <4>1, <4>2 DEF Respond, Send
      <4>3. CASE ReportStarted(t)
        BY <4>1, <4>3 DEF ReportStarted, Send
      <4>4. CASE Complete(t)
        BY <4>1, <4>4 DEF Complete, Send, TypeOK
      <4> QED
        BY <2>7, <4>2, <4>3, <4>4
    <3>2. /\ native[t] \in {"active", "over"} /\ native'[t] \in {"active", "over"}
          /\ native[t] = "over" => native'[t] = "over"
      BY <2>7 DEF Respond, ReportStarted, Complete, TypeOK
    <3> QED
      BY <2>6, <3>1, <3>2
  <2> QED
    BY <2>4, <2>5, <2>7 DEF Native
<1> QED
  BY <1>3, <1>4, <1>5

LEMMA BaseHandle ==
  ASSUME Base, HandleFrame
  PROVE  Base'
<1> USE DEF Base
<1> DEFINE f == Head(frames)
<1>1. /\ frames # <<>> /\ frames' = Tail(frames)
      /\ UNCHANGED <<by, thread, native, told, externalVars>>
  BY DEF HandleFrame
<1>2. /\ f.turn \in Turns /\ by[f.turn] # None /\ thread[f.turn] \in Threads
      /\ f.what = "response" => Response(f.turn, f.ok)
      /\ f.what # "response" => Lifecycle(f.turn, f.what)
  BY Handled DEF Frame
<1>3. /\ starts' \subseteq starts /\ active' \in [Threads -> Turns \cup {None}]
      /\ drain' \in {drain, "check"}
      /\ resumed' = resumed
           \/ (/\ by[f.turn] = "delegation"
              /\ \E x \in {"resolved", "used"} : resumed' = [resumed EXCEPT ![f.turn] = x])
  <2>1. CASE f.what = "response"
    BY <1>2, <2>1 DEF Response, Signal, TypeOK
  <2>2. CASE f.what # "response"
    BY <1>2, <2>2 DEF Lifecycle, Forget, Signal, TypeOK
  <2> QED
    BY <2>1, <2>2
<1>4. frames' \in Seq(Frame) /\ \A n \in DOMAIN frames' : n + 1 \in DOMAIN frames
                                                        /\ frames'[n] = frames[n + 1]
  BY <1>1, FirstFrame, FramesType
<1>5. TypeOK'
  <2>1. UNCHANGED <<catalogue, running, tracked, loaded, childRunning, subagent, external>>
    BY <1>1 DEF externalVars
  <2>2. resumed' \in [Turns -> {"none", "resolved", "used", "undone"}]
    BY <1>2, <1>3 DEF TypeOK
  <2> QED
    BY <1>1, <1>3, <1>4, <2>1, <2>2 DEF TypeOK, Frame
<1>6. FramesSay'
  BY <1>1, <1>4 DEF FramesSay
<1>7. Placed'
  BY <1>1, <1>2, <1>3 DEF Placed, TypeOK
<1> QED
  BY <1>5, <1>6, <1>7

LEMMA BaseHost ==
  ASSUME Base, NEW t \in Turns, ForwardFails(t) \/ Resume(t) \/ UndoStart(t)
  PROVE  Base'
<1> USE DEF Base
<1>1. UNCHANGED <<by, thread, told, frames, externalVars>>
  BY DEF ForwardFails, Resume, UndoStart
<1>2. CASE ForwardFails(t)
  <2>1. /\ native[t] = "sent" /\ native' = [native EXCEPT ![t] = "refused"]
        /\ starts' = starts \ {t} /\ UNCHANGED <<active, resumed>> /\ drain' \in {drain, "check"}
    BY <1>2 DEF ForwardFails, Signal
  <2>2. TypeOK'
    BY <1>1, <2>1 DEF TypeOK, externalVars
  <2>3. \A n \in DOMAIN frames : frames[n] \in Frame
    BY FramesType
  <2>4. \A n \in DOMAIN frames : frames[n].turn # t /\ native'[frames[n].turn] = native[frames[n].turn]
    BY <2>1, <2>3 DEF FramesSay, TypeOK, Frame
  <2>5. FramesSay'
    BY <1>1, <2>4 DEF FramesSay
  <2>6. Placed'
    BY <1>1, <2>1 DEF Placed, TypeOK
  <2> QED
    BY <2>2, <2>5, <2>6
<1>3. CASE Resume(t) \/ UndoStart(t)
  <2>1. /\ native' = native /\ starts' = starts /\ resumed[t] # "none" /\ drain' \in {drain, "check"}
        /\ active' = [active EXCEPT ![thread[t]] = t] \/ active' = [active EXCEPT ![thread[t]] = None]
        /\ \E x \in {"used", "undone"} : resumed' = [resumed EXCEPT ![t] = x]
    BY <1>3 DEF Resume, UndoStart, Signal
  <2>2. TypeOK'
    BY <1>1, <2>1 DEF TypeOK, externalVars
  <2>3. FramesSay' /\ Placed'
    BY <1>1, <2>1 DEF FramesSay, Placed, TypeOK
  <2> QED
    BY <2>2, <2>3
<1> QED
  BY <1>2, <1>3

LEMMA BaseRest ==
  ASSUME Base, ExternalStart \/ ListCommands \/ CommandStart \/ ExternalComplete
                 \/ SubagentActive \/ SubagentIdle \/ OpenSubagent \/ Disconnect \/ Check \/ UNCHANGED vars
  PROVE  Base'
<1> USE DEF Base
<1>1. UNCHANGED officialVars
  BY DEF ExternalStart, ListCommands, CommandStart, ExternalComplete, SubagentActive, SubagentIdle,
         OpenSubagent, Disconnect, Check, vars
<1>2. /\ catalogue' \in BOOLEAN /\ running' \in BOOLEAN /\ tracked' \in BOOLEAN /\ loaded' \in BOOLEAN
      /\ childRunning' \in BOOLEAN /\ subagent' \in BOOLEAN /\ external' \in BOOLEAN
      /\ (childRunning' => loaded')
      /\ drain' \in {"serving", "check", "waiting", "released"}
  <2> USE DEF TypeOK, externalVars, Signal
  <2>1. CASE ExternalStart
    BY <2>1 DEF ExternalStart
  <2>8. CASE ListCommands
    BY <2>8 DEF ListCommands
  <2>9. CASE CommandStart
    BY <2>9 DEF CommandStart
  <2>2. CASE ExternalComplete
    BY <2>2 DEF ExternalComplete
  <2>3. CASE SubagentActive
    BY <2>3 DEF SubagentActive
  <2>4. CASE SubagentIdle
    BY <2>4 DEF SubagentIdle
  <2>5. CASE OpenSubagent
    BY <2>5 DEF OpenSubagent
  <2>6. CASE Disconnect \/ Check
    BY <2>6 DEF Disconnect, Check
  <2>7. CASE UNCHANGED vars
    BY <2>7 DEF vars
  <2> QED
    BY <2>1, <2>2, <2>3, <2>4, <2>5, <2>6, <2>7, <2>8, <2>9
<1>3. TypeOK'
  BY <1>1, <1>2 DEF TypeOK, officialVars
<1>4. FramesSay' /\ Placed'
  BY <1>1 DEF FramesSay, Placed, officialVars
<1> QED
  BY <1>3, <1>4

LEMMA BaseStep == Base /\ [Next]_vars => Base'
<1> SUFFICES ASSUME Base, [Next]_vars PROVE Base'
  OBVIOUS
<1>1. ASSUME NEW t \in Turns, DesktopStart(t) \/ DelegationStart(t) PROVE Base'
  BY <1>1, BaseStart
<1>2. ASSUME NEW t \in Turns, ForwardFails(t) \/ Resume(t) \/ UndoStart(t) PROVE Base'
  BY <1>2, BaseHost
<1>3. ASSUME NEW t \in Turns, Native(t) PROVE Base'
  BY <1>3, BaseNative
<1> QED
  BY <1>1, <1>2, <1>3, BaseHandle, BaseRest DEF Next

-----------------------------------------------------------------------------
(* Released only when idle *)

LEMMA IInit == Init => IInv
BY SessionDrainAssumption DEF Init, IInv, OneOngoing, Counted, Mirrors, ReleasedIdle

\* where no turn begins to be under way, one stays one
LEMMA OngoingShrinks ==
  ASSUME OneOngoing, UNCHANGED <<by, thread>>,
         \A t \in Turns : by[t] # None /\ Ongoing(t)' => Ongoing(t)
  PROVE  OneOngoing'
BY DEF OneOngoing

\* the last look of the drain is what releases the session
LEMMA OnlyCheckReleases ==
  ASSUME ReleasedIdle, [Next]_vars, drain' = "released"
  PROVE  ReleasedIdle' /\ (UNCHANGED vars \/ Check)
<1>1. CASE UNCHANGED vars
  BY <1>1 DEF vars, officialVars, externalVars, ReleasedIdle, HasActiveWork
<1>2. CASE Check
  BY <1>2 DEF Check, officialVars, externalVars, ReleasedIdle, HasActiveWork
<1>3. ASSUME NEW t \in Turns,
             DesktopStart(t) \/ DelegationStart(t) \/ ForwardFails(t) \/ Resume(t)
               \/ UndoStart(t) \/ Native(t)
      PROVE  FALSE
  BY <1>3 DEF DesktopStart, DelegationStart, Start, ForwardFails, Resume, UndoStart, Native,
    Refuse, Accept, Respond, ReportStarted, Complete, Alive, Signal
<1>4. CASE HandleFrame
  BY <1>4 DEF HandleFrame, Response, Lifecycle, Alive, Signal
<1>5. CASE ExternalStart \/ ListCommands \/ CommandStart \/ ExternalComplete
             \/ SubagentActive \/ SubagentIdle \/ OpenSubagent \/ Disconnect
  BY <1>5 DEF ExternalStart, ListCommands, CommandStart, ExternalComplete, SubagentActive,
    SubagentIdle, OpenSubagent, Disconnect, Alive, Signal
<1> QED
  BY <1>1, <1>2, <1>3, <1>4, <1>5 DEF Next

\* a turn is started only after the one before it has ended for the host
LEMMA IStart ==
  ASSUME OneStartAtATime, Base, OneOngoing, Counted,
         NEW t \in Turns, DesktopStart(t) \/ DelegationStart(t)
  PROVE  OneOngoing' /\ Counted'
<1> USE SessionDrainAssumption DEF Base
<1>1. PICK o \in Threads, who \in {"desktop", "delegation"} :
        /\ by[t] = None /\ Open(o) = {}
        /\ by' = [by EXCEPT ![t] = who] /\ thread' = [thread EXCEPT ![t] = o]
        /\ native' = [native EXCEPT ![t] = "sent"] /\ UNCHANGED <<frames, active>>
        /\ starts \subseteq starts' /\ (who = "desktop" => t \in starts')
  BY DEF DesktopStart, DelegationStart, Start
<1>2. /\ by'[t] = who /\ thread'[t] = o /\ native'[t] = "sent"
      /\ \A s \in Turns \ {t} : by'[s] = by[s] /\ thread'[s] = thread[s] /\ native'[s] = native[s]
  BY <1>1 DEF TypeOK
<1>3. \A s \in Turns \ {t} : Ongoing(s)' <=> Ongoing(s)
  BY <1>1, <1>2 DEF Ongoing
<1>4. \A s \in Turns : by[s] # None /\ thread[s] = o => ~Ongoing(s)
  BY <1>1 DEF Open, Ongoing
<1>5. OneOngoing'
  BY <1>2, <1>3, <1>4 DEF OneOngoing
<1>6. Counted'
  BY <1>1, <1>2 DEF Counted
<1> QED
  BY <1>5, <1>6

\* of the steps of the app-server none begins a turn
LEMMA INative ==
  ASSUME Base, OneOngoing, Counted, NEW t \in Turns, Native(t)
  PROVE  OneOngoing' /\ Counted'
<1> USE DEF Base
<1>1. /\ UNCHANGED <<by, thread, starts, active>>
      /\ \A s \in Turns \ {t} : native'[s] = native[s]
  BY DEF Native, Refuse, Accept, Respond, ReportStarted, Complete, TypeOK
<1>2. \A n \in DOMAIN frames' :
        \/ n \in DOMAIN frames /\ frames'[n] = frames[n]
        \/ frames'[n].turn = t /\ (frames'[n].what = "response" \/ native[t] = "active")
  <2>1. CASE frames' = frames
    BY <2>1
  <2>2. CASE \E f \in Frame : /\ frames' = Append(frames, f) /\ f.turn = t
                              /\ f.what = "response" \/ native[t] = "active"
    BY <2>2, AppendFrame, FramesType
  <2>3. \A w \in {"response", "started", "completed"}, ok \in BOOLEAN :
          LET f == [what |-> w, turn |-> t, ok |-> ok]
          IN  f \in Frame /\ f.turn = t /\ f.what = w
    BY DEF Frame
  <2> QED
    BY <2>1, <2>2, <2>3 DEF Native, Refuse, Accept, Respond, ReportStarted, Complete, Send
<1>3. native'[t] = "active" => native[t] \in {"sent", "active"}
  BY DEF Native, Refuse, Accept, Respond, ReportStarted, Complete, TypeOK
<1>4. native'[t] # "sent" \/ native'[t] = native[t]
  BY DEF Native, Refuse, Accept, Respond, ReportStarted, Complete, TypeOK
<1>5. \A s \in Turns : Ongoing(s)' => Ongoing(s)
  BY <1>1, <1>2, <1>3, <1>4 DEF Ongoing
<1>6. Counted'
  BY <1>1, <1>3, <1>4 DEF Counted
<1> QED
  BY <1>1, <1>5, <1>6, OngoingShrinks

\* a lifecycle frame of another turn finds no turn of the Desktop on its thread
LEMMA IHandle ==
  ASSUME Base, OneOngoing, Counted, HandleFrame
  PROVE  OneOngoing' /\ Counted'
<1> USE SessionDrainAssumption DEF Base
<1> DEFINE f == Head(frames)
<1>1. frames # <<>> /\ frames' = Tail(frames) /\ UNCHANGED <<by, thread, native>>
  BY DEF HandleFrame
<1>2. /\ f \in Frame /\ f = frames[1] /\ 1 \in DOMAIN frames
      /\ by[f.turn] # None /\ thread[f.turn] \in Threads
      /\ f.what = "response" => Response(f.turn, f.ok)
      /\ f.what # "response" => Lifecycle(f.turn, f.what)
  BY Handled
<1>3. \A n \in DOMAIN frames' : n + 1 \in DOMAIN frames /\ frames'[n] = frames[n + 1]
  BY <1>1, FirstFrame, FramesType
<1>4. OneOngoing'
  <2>1. \A t \in Turns : Ongoing(t)' => Ongoing(t)
    BY <1>1, <1>3 DEF Ongoing
  <2> QED
    BY <1>1, <2>1, OngoingShrinks
<1>5. f.turn \in Turns
  BY <1>2 DEF Frame
<1>6. Counted'
  <2> SUFFICES ASSUME NEW t \in Turns, by[t] = "desktop", native[t] \in {"sent", "active"}
               PROVE  /\ native[t] = "sent" => t \in starts'
                      /\ native[t] = "active" => t \in starts' \/ active'[thread[t]] # None
    BY <1>1 DEF Counted
  <2>1. thread[t] \in Threads
    BY DEF Placed
  <2>2. CASE f.what = "response"
    <3>1. CASE by[f.turn] = "delegation"
      BY <1>2, <2>2, <3>1 DEF Response, Counted
    <3>2. CASE by[f.turn] # "delegation"
      <4>1. /\ starts' = starts \ {f.turn}
            /\ active' = IF f.ok /\ f.turn \in starts
                           THEN [active EXCEPT ![thread[f.turn]] = f.turn] ELSE active
        BY <1>2, <2>2, <3>2 DEF Response
      <4>2. \A o \in Threads : active[o] # None => active'[o] # None
        BY <1>5, <4>1 DEF TypeOK
      <4>3. CASE t # f.turn
        BY <2>1, <4>1, <4>2, <4>3 DEF Counted
      <4>4. CASE t = f.turn
        <5>1. native[t] # "sent" /\ f.ok \in BOOLEAN
          BY <1>2, <2>2, <4>4 DEF FramesSay, Frame
        <5>2. CASE t \notin starts
          BY <2>1, <4>2, <5>1, <5>2 DEF Counted
        <5>3. CASE t \in starts /\ f.ok
          BY <1>5, <2>1, <4>1, <4>4, <5>1, <5>3 DEF TypeOK
        <5>4. CASE ~f.ok
          <6>1. native[t] = "refused"
            BY <1>2, <2>2, <4>4, <5>4 DEF FramesSay
          <6> QED
            BY <6>1
        <5> QED
          BY <5>1, <5>2, <5>3, <5>4
      <4> QED
        BY <4>3, <4>4
    <3> QED
      BY <3>1, <3>2
  <2>3. CASE f.what # "response"
    <3>1. Ongoing(f.turn) /\ Ongoing(t)
      BY <1>2, <2>3 DEF Ongoing
    <3>2. t = f.turn \/ thread[t] # thread[f.turn]
      BY <1>2, <1>5, <3>1, SessionDrainAssumption DEF OneOngoing
    <3>3. /\ starts' = {s \in starts : thread[s] # thread[f.turn]}
          /\ active' = [active EXCEPT ![thread[f.turn]] = IF f.what = "started" THEN f.turn ELSE None]
      BY <1>2, <2>3 DEF Lifecycle, Forget
    <3>4. CASE thread[t] # thread[f.turn]
      BY <2>1, <3>3, <3>4 DEF Counted, TypeOK
    <3>5. CASE t = f.turn
      <4>1. f.what = "started" /\ native[t] = "active"
        BY <1>2, <2>3, <3>5 DEF FramesSay, Frame
      <4> QED
        BY <1>5, <2>1, <3>3, <3>5, <4>1 DEF TypeOK
    <3> QED
      BY <3>2, <3>4, <3>5
  <2> QED
    BY <2>2, <2>3
<1> QED
  BY <1>4, <1>6

\* a start that fails, and what the delegation does with its turn
LEMMA IHost ==
  ASSUME Base, OneOngoing, Counted, NEW t \in Turns, ForwardFails(t) \/ Resume(t) \/ UndoStart(t)
  PROVE  OneOngoing' /\ Counted'
<1> USE SessionDrainAssumption DEF Base
<1>1. /\ UNCHANGED <<by, thread, frames>>
      /\ native' = native \/ native' = [native EXCEPT ![t] = "refused"]
  BY DEF ForwardFails, Resume, UndoStart
<1>2. \A s \in Turns : native'[s] = native[s] \/ native'[s] = "refused"
  BY <1>1 DEF TypeOK
<1>3. OneOngoing'
  <2>1. \A s \in Turns : Ongoing(s)' => Ongoing(s)
    BY <1>1, <1>2 DEF Ongoing
  <2> QED
    BY <1>1, <2>1, OngoingShrinks
<1>4. CASE ForwardFails(t)
  <2>1. /\ native' = [native EXCEPT ![t] = "refused"] /\ starts' = starts \ {t} /\ active' = active
    BY <1>4 DEF ForwardFails
  <2>2. Counted'
    BY <1>1, <2>1 DEF Counted, TypeOK
  <2> QED
    BY <1>3, <2>2
<1>5. CASE Resume(t)
  <2>1. native' = native /\ starts' = starts /\ active' = [active EXCEPT ![thread[t]] = t]
    BY <1>5 DEF Resume
  <2>2. \A o \in Threads : active[o] # None => active'[o] # None
    BY <2>1 DEF TypeOK
  <2>3. Counted'
    BY <1>1, <2>1, <2>2 DEF Counted, Placed
  <2> QED
    BY <1>3, <2>3
<1>6. CASE UndoStart(t)
  <2>1. /\ native' = native /\ starts' = starts /\ active' = [active EXCEPT ![thread[t]] = None]
        /\ \A s \in Turns \ {t} : thread[s] # thread[t]
    BY <1>6 DEF UndoStart, Placed
  <2>2. by[t] # "desktop"
    BY <1>6 DEF UndoStart, Placed
  <2>3. Counted'
    BY <1>1, <2>1, <2>2 DEF Counted, Placed, TypeOK
  <2> QED
    BY <1>3, <2>3
<1> QED
  BY <1>4, <1>5, <1>6

LEMMA IRest ==
  ASSUME OneOngoing, Counted, UNCHANGED officialVars
  PROVE  OneOngoing' /\ Counted'
BY DEF OneOngoing, Counted, Ongoing, officialVars

LEMMA MirrorsStep == Mirrors /\ [Next]_vars => Mirrors'
<1> SUFFICES ASSUME Mirrors, [Next]_vars PROVE Mirrors'
  OBVIOUS
<1>1. CASE UNCHANGED externalVars
  BY <1>1 DEF Mirrors, externalVars
<1>2. CASE UNCHANGED vars \/ HandleFrame \/ Disconnect \/ Check
  BY <1>1, <1>2 DEF vars, HandleFrame, Disconnect, Check, externalVars
<1>3. ASSUME NEW t \in Turns,
             DesktopStart(t) \/ DelegationStart(t) \/ ForwardFails(t) \/ Resume(t)
               \/ UndoStart(t) \/ Native(t)
      PROVE  Mirrors'
  BY <1>1, <1>3 DEF DesktopStart, DelegationStart, ForwardFails, Resume, UndoStart, Native, Refuse,
    Accept, Respond, ReportStarted, Complete, externalVars
<1>4. CASE ExternalStart \/ ListCommands \/ CommandStart
  BY <1>4 DEF ExternalStart, ListCommands, CommandStart, Mirrors
<1>5. CASE ExternalComplete \/ SubagentActive \/ SubagentIdle \/ OpenSubagent
  BY <1>5 DEF ExternalComplete, SubagentActive, SubagentIdle, OpenSubagent, Mirrors
<1> QED
  BY <1>2, <1>3, <1>4, <1>5 DEF Next

LEMMA IStep ==
  ASSUME OneStartAtATime, Base, IInv, [Next]_vars
  PROVE  IInv'
<1> USE DEF IInv
<1>1. ReleasedIdle'
  BY OnlyCheckReleases DEF ReleasedIdle
<1>2. ASSUME NEW t \in Turns, DesktopStart(t) \/ DelegationStart(t)
      PROVE  OneOngoing' /\ Counted'
  BY <1>2, IStart
<1>3. ASSUME NEW t \in Turns, ForwardFails(t) \/ Resume(t) \/ UndoStart(t)
      PROVE  OneOngoing' /\ Counted'
  BY <1>3, IHost
<1>4. ASSUME NEW t \in Turns, Native(t)
      PROVE  OneOngoing' /\ Counted'
  BY <1>4, INative
<1>5. ASSUME ExternalStart \/ ListCommands \/ CommandStart \/ ExternalComplete
               \/ SubagentActive \/ SubagentIdle \/ OpenSubagent \/ Disconnect \/ Check \/ UNCHANGED vars
      PROVE  OneOngoing' /\ Counted'
  <2>1. UNCHANGED officialVars
    BY <1>5 DEF ExternalStart, ListCommands, CommandStart, ExternalComplete, SubagentActive,
      SubagentIdle, OpenSubagent, Disconnect, Check, vars
  <2> QED
    BY <2>1, IRest
<1>6. OneOngoing' /\ Counted'
  BY <1>2, <1>3, <1>4, <1>5, IHandle DEF Next
<1> QED
  BY <1>1, <1>6, MirrorsStep

\* The host's tables count every turn of the Desktop: from turn/start until
\* the app-server ended or refused it, its start is pending or its thread has
\* an active turn, though response, started and completed frames come in any
\* order and a lifecycle frame forgets all pending starts of its thread.
THEOREM TurnsAreCounted ==
  ASSUME OneStartAtATime
  PROVE  Spec => [](Counted /\ FramesSay /\ Placed)
<1>1. Base /\ IInv => Counted /\ FramesSay /\ Placed
  BY DEF Base, IInv
<1> QED
  BY <1>1, BaseInit, BaseStep, IInit, IStep, PTL DEF Spec

\* A session whose Desktop left is released only after every turn the Desktop
\* started is over or refused and the external session and its subagent are
\* still: pending starts and active turns count a turn from turn/start to the
\* frame of its end, whatever order response and frames come in.  It takes
\* that a thread is started only after the host has seen the end of its turn.
THEOREM ReleasedIdleProof ==
  ASSUME OneStartAtATime
  PROVE  Spec => []ReleasedOnlyWhenIdle
<1>1. Base /\ IInv => ReleasedOnlyWhenIdle
  <2> SUFFICES ASSUME Base, IInv, drain = "released" PROVE ReleasedOnlyWhenIdle
    BY DEF ReleasedOnlyWhenIdle
  <2>1. ~HasActiveWork
    BY DEF IInv, ReleasedIdle
  <2>2. ~external /\ ~subagent
    BY <2>1 DEF IInv, Mirrors, HasActiveWork
  <2>3. ASSUME NEW t \in Turns, by[t] = "desktop" PROVE native[t] \in {"over", "refused"}
    <3>1. native[t] # "none" /\ thread[t] \in Threads
      BY <2>3, SessionDrainAssumption DEF Base, Placed
    <3>2. native[t] \notin {"sent", "active"}
      BY <2>1, <2>3, <3>1 DEF IInv, Counted, HasActiveWork
    <3> QED
      BY <3>1, <3>2 DEF Base, TypeOK
  <2> QED
    BY <2>2, <2>3 DEF ReleasedOnlyWhenIdle
<1> QED
  BY <1>1, BaseInit, BaseStep, IInit, IStep, PTL DEF Spec

-----------------------------------------------------------------------------
(* A waiter does not sleep through the end of the work *)

\* a waiter of the drain has something to wait for
WaitsForWork == drain = "waiting" => HasActiveWork

\* the end of the subagent when nothing but its own open thread is at work:
\* the signal comes while the field of that thread still counts
ChildEndsAlone == SubagentIdle /\ childRunning /\ ~running

LEMMA WaitsStep ==
  ASSUME Base, WaitsForWork, [Next]_vars
  PROVE  WaitsForWork' \/ ChildEndsAlone
<1> SUFFICES ASSUME drain' = "waiting" PROVE HasActiveWork' \/ ChildEndsAlone
  BY DEF WaitsForWork
<1> USE SessionDrainAssumption
<1>1. CASE Check
  BY <1>1 DEF Check, HasActiveWork, officialVars, externalVars
<1>2. CASE UNCHANGED vars
  BY <1>2 DEF WaitsForWork, HasActiveWork, vars, officialVars, externalVars
<1>3. CASE ExternalStart \/ ListCommands \/ OpenSubagent \/ Disconnect
  BY <1>3 DEF ExternalStart, ListCommands, OpenSubagent, Disconnect
<1>11. CASE CommandStart
  BY <1>11 DEF CommandStart, WaitsForWork, HasActiveWork, officialVars
<1>4. CASE ExternalComplete
  BY <1>4 DEF ExternalComplete, Signal
<1>5. CASE SubagentActive
  BY <1>5 DEF SubagentActive, HasActiveWork
<1>6. CASE SubagentIdle
  BY <1>6 DEF SubagentIdle, Signal, WaitsForWork, HasActiveWork, ChildEndsAlone, officialVars
<1>7. CASE HandleFrame
  <2> DEFINE f == Head(frames)
  <2>1. /\ f \in Frame /\ thread[f.turn] \in Threads
        /\ f.what = "response" => Response(f.turn, f.ok)
        /\ f.what # "response" => Lifecycle(f.turn, f.what)
        /\ UNCHANGED externalVars
    BY <1>7, Handled DEF HandleFrame
  <2>2. f.turn \in Turns /\ f.turn # None
    BY <2>1 DEF Frame
  <2>3. CASE UNCHANGED <<starts, active, drain>>
    BY <2>1, <2>3 DEF WaitsForWork, HasActiveWork, externalVars
  <2>4. CASE Signal(HasActiveWork')
    BY <2>4 DEF Signal
  <2>5. CASE f.what = "response"
    <3>1. CASE by[f.turn] = "delegation" \/ f.turn \in starts
      BY <2>1, <2>3, <2>4, <2>5, <3>1 DEF Response
    <3>2. CASE by[f.turn] # "delegation" /\ f.turn \notin starts
      <4>1. UNCHANGED <<starts, active, drain>>
        BY <2>1, <2>5, <3>2 DEF Response
      <4> QED
        BY <2>3, <4>1
    <3> QED
      BY <3>1, <3>2
  <2>6. CASE f.what = "started"
    <3>1. active' = [active EXCEPT ![thread[f.turn]] = f.turn]
      BY <2>1, <2>6 DEF Lifecycle
    <3>2. active'[thread[f.turn]] # None
      BY <2>1, <2>2, <3>1 DEF Base, TypeOK
    <3> QED
      BY <2>1, <3>2 DEF HasActiveWork
  <2>7. CASE f.what \notin {"response", "started"}
    BY <2>1, <2>4, <2>7 DEF Lifecycle
  <2> QED
    BY <2>5, <2>6, <2>7
<1>8. ASSUME NEW t \in Turns, DesktopStart(t) \/ DelegationStart(t) \/ Native(t)
      PROVE  HasActiveWork'
  BY <1>8 DEF DesktopStart, DelegationStart, Native, Refuse, Accept, Respond, ReportStarted,
    Complete, WaitsForWork, HasActiveWork, externalVars
<1>9. ASSUME NEW t \in Turns, ForwardFails(t) \/ UndoStart(t)
      PROVE  HasActiveWork'
  BY <1>9 DEF ForwardFails, UndoStart, Signal
<1>10. ASSUME NEW t \in Turns, Resume(t)
       PROVE  HasActiveWork'
  <2>1. thread[t] \in Threads
    BY <1>10 DEF Resume, Base, Placed
  <2>2. active' = [active EXCEPT ![thread[t]] = t]
    BY <1>10 DEF Resume
  <2>3. active'[thread[t]] # None
    BY <2>1, <2>2 DEF Base, TypeOK
  <2> QED
    BY <2>1, <2>3 DEF HasActiveWork
<1> QED
  BY <1>1, <1>2, <1>3, <1>4, <1>5, <1>6, <1>7, <1>8, <1>9, <1>10, <1>11 DEF Next

\* One wakeup is lost and no other: a step leaves the drain waiting for no
\* work only where it did before, or where the subagent ends after its
\* parent's turn with its thread open, because the signal comes before the
\* field of that thread is cleared.  Whatever else ends the last work, a
\* response, a frame, a failed forward, an undone delegation or a turn of the
\* external session, wakes the drain.
THEOREM WakeupsArrive ==
  Spec => [][WaitsForWork => WaitsForWork' \/ ChildEndsAlone]_vars
<1>1. Base /\ [Next]_vars => [WaitsForWork => WaitsForWork' \/ ChildEndsAlone]_vars
  BY WaitsStep
<1> QED
  BY <1>1, BaseInit, BaseStep, PTL DEF Spec

-----------------------------------------------------------------------------
(* ThreadList: the order of rows, and sets of rows in order *)

\* compareThreadListEntries: time, then the thread, so two rows never tie.
LEMMA BeforeIsOrder ==
  /\ \A r \in RowType : ~Before(r, r)
  /\ \A r, s \in RowType : r # s => Before(r, s) \/ Before(s, r)
  /\ \A r, s \in RowType : Before(r, s) => ~Before(s, r) /\ r # s
  /\ \A r, s, t \in RowType : Before(r, s) /\ Before(s, t) => Before(r, t)
<1>1. \A r, s \in RowType : r # s => r.from # s.from \/ r.id # s.id \/ r.time # s.time
  BY DEF RowType
<1> QED
  BY <1>1 DEF Before, RowType

\* How many of a set come before a row.
Rank(S, r) == Cardinality({s \in S : Before(s, r)})

\* It tells the rows apart.
LEMMA RanksDiffer ==
  ASSUME NEW S \in SUBSET RowType, IsFiniteSet(S)
  PROVE  /\ \A r \in S : Rank(S, r) \in 0..(Cardinality(S) - 1)
         /\ \A r, s \in S : Before(r, s) => Rank(S, r) < Rank(S, s)
         /\ \A r, s \in S : Rank(S, r) = Rank(S, s) => r = s
<1> DEFINE low(r) == {s \in S : Before(s, r)}
<1>1. Cardinality(S) \in Nat
  BY FS_CardinalityType
<1>2. \A r \in S : IsFiniteSet(low(r)) /\ Rank(S, r) \in Nat
  BY FS_Subset, FS_CardinalityType DEF Rank
<1>3. ASSUME NEW T, NEW U, T \subseteq U, U \subseteq S, T # U
      PROVE  Cardinality(T) < Cardinality(U)
  <2>1. IsFiniteSet(U)
    BY <1>3, FS_Subset
  <2>2. IsFiniteSet(T) /\ Cardinality(T) <= Cardinality(U) /\ Cardinality(T) # Cardinality(U)
    BY <1>3, <2>1, FS_Subset
  <2> QED
    BY <2>1, <2>2, FS_CardinalityType
<1>4. ASSUME NEW r \in S PROVE Rank(S, r) < Cardinality(S)
  <2>1. r \notin low(r)
    BY BeforeIsOrder
  <2> QED
    BY <1>3, <2>1 DEF Rank
<1>5. ASSUME NEW r \in S, NEW s \in S, Before(r, s) PROVE Rank(S, r) < Rank(S, s)
  <2>1. low(r) \subseteq low(s) /\ r \in low(s) /\ r \notin low(r)
    BY <1>5, BeforeIsOrder
  <2> QED
    BY <1>3, <2>1 DEF Rank
<1> HIDE DEF low
<1>6. \A r, s \in S : Rank(S, r) = Rank(S, s) => r = s
  BY <1>2, <1>5, BeforeIsOrder
<1> QED
  BY <1>1, <1>2, <1>4, <1>5, <1>6

\* What the model's Sorted returns: the rows of the set, each once, in order.
LEMMA SortedIsOrdered ==
  ASSUME NEW S \in SUBSET RowType, IsFiniteSet(S)
  PROVE  /\ Sorted(S) \in Seq(S) /\ Len(Sorted(S)) = Cardinality(S) /\ Cardinality(S) \in Nat
         /\ Ordered(Sorted(S)) /\ ToSet(Sorted(S)) = S
<1> DEFINE n == Cardinality(S)
           f == [r \in S |-> Rank(S, r) + 1]
           u == Sorted(S)
<1>1. n \in Nat
  BY FS_CardinalityType
<1>2. \A r \in S : Rank(S, r) \in 0..(n - 1)
  BY RanksDiffer
<1>3. \A r, s \in S : Before(r, s) => Rank(S, r) < Rank(S, s)
  BY RanksDiffer
<1>4. \A r, s \in S : Rank(S, r) = Rank(S, s) => r = s
  BY RanksDiffer
<1>5. f \in Surjection(S, 1..n)
  <2>1. f \in Injection(S, 1..n)
    BY <1>1, <1>2, <1>4 DEF Injection, IsInjective
  <2>2. IsFiniteSet(1..n) /\ Cardinality(1..n) = n
    BY <1>1, FS_Interval
  <2> QED
    BY <2>1, <2>2, FS_Injection
<1>6. \A i \in 1..n : \E r \in S : Rank(S, r) = i - 1
  <2> SUFFICES ASSUME NEW i \in 1..n PROVE \E r \in S : Rank(S, r) = i - 1
    OBVIOUS
  <2>1. PICK r \in S : f[r] = i
    BY <1>5 DEF Surjection
  <2> QED
    BY <1>1, <1>2, <2>1
<1>7. u = [i \in 1..n |-> CHOOSE r \in S : Rank(S, r) = i - 1]
  BY DEF Sorted, Rank
<1>8. \A i \in 1..n : u[i] \in S /\ Rank(S, u[i]) = i - 1
  BY <1>6, <1>7
<1>9. u \in Seq(S) /\ Len(u) = n /\ DOMAIN u = 1..n
  BY <1>1, <1>7, <1>8
<1> HIDE DEF u
<1>10. Ordered(u)
  <2> SUFFICES ASSUME NEW i \in 1..n, NEW j \in 1..n, i < j PROVE Before(u[i], u[j])
    BY <1>9 DEF Ordered
  <2>1. Rank(S, u[i]) < Rank(S, u[j]) /\ u[i] \in RowType /\ u[j] \in RowType
    BY <1>1, <1>8
  <2>2. u[i] # u[j] /\ ~Before(u[j], u[i])
    BY <1>3, <1>8, <2>1
  <2> QED
    BY <2>1, <2>2, BeforeIsOrder
<1>11. ASSUME NEW r \in S PROVE r \in ToSet(u)
  <2>1. Rank(S, r) + 1 \in 1..n
    BY <1>1, <1>2
  <2>2. Rank(S, u[Rank(S, r) + 1]) = Rank(S, r)
    BY <1>2, <1>8, <2>1
  <2> QED
    BY <1>4, <1>9, <2>1, <2>2 DEF ToSet
<1>12. ToSet(u) = S
  BY <1>9, <1>11 DEF ToSet
<1> QED
  BY <1>9, <1>10, <1>12 DEF u

\* The beginning of a list in order.
LEMMA TakeKeepsOrder ==
  ASSUME NEW s \in Seq(RowType), Ordered(s), NEW n \in Nat
  PROVE  LET t == Take(s, n) IN
         /\ t \in Seq(RowType) /\ Len(t) = (IF n < Len(s) THEN n ELSE Len(s)) /\ Len(t) \in Nat
         /\ Ordered(t) /\ ToSet(t) \subseteq ToSet(s)
         /\ \A i \in DOMAIN t : t[i] = s[i]
         /\ \A r \in ToSet(s) \ ToSet(t) : \A x \in ToSet(t) : Before(x, r)
<1> DEFINE m == IF n < Len(s) THEN n ELSE Len(s)
           t == Take(s, n)
<1>1. Len(s) \in Nat /\ DOMAIN s = 1..Len(s) /\ m \in Nat /\ m <= Len(s)
  BY LenProperties
<1>2. \A i \in 1..m : s[i] \in RowType
  BY <1>1
<1>3. t \in Seq(RowType) /\ Len(t) = m /\ \A i \in 1..m : t[i] = s[i]
  <2>1. t = SubSeq(s, 1, m)
    BY DEF Take
  <2> HIDE DEF m, t
  <2>2. SubSeq(s, 1, m) \in Seq(RowType) /\ Len(SubSeq(s, 1, m)) = (IF 1 <= m THEN m - 1 + 1 ELSE 0)
    BY <1>1, <1>2, SubSeqProperties
  <2>4. m - 1 + 1 = m /\ (~(1 <= m) => m = 0) /\ \A i \in 1..m : 1 + i - 1 = i
    BY <1>1
  <2> QED
    BY <2>1, <2>2, <2>4
<1> HIDE DEF m, t
<1>5. Ordered(t) /\ ToSet(t) \subseteq ToSet(s)
  BY <1>1, <1>3 DEF Ordered, ToSet
<1>6. ASSUME NEW i \in DOMAIN s, s[i] \notin ToSet(t), NEW j \in DOMAIN t PROVE Before(t[j], s[i])
  <2>1. i > m
    BY <1>3, <1>6 DEF ToSet
  <2> QED
    BY <1>3, <2>1 DEF Ordered
<1>7. \A r \in ToSet(s) \ ToSet(t) : \A x \in ToSet(t) : Before(x, r)
  BY <1>6 DEF ToSet
<1> QED
  BY <1>3, <1>5, <1>7 DEF m, t

\* Part of a list in order that holds with a row all before it.
LEMMA LowerPart ==
  ASSUME NEW s \in Seq(RowType), Ordered(s), NEW D \in SUBSET ToSet(s),
         \A r \in D : \A x \in ToSet(s) : Before(x, r) => x \in D
  PROVE  /\ IsFiniteSet(D) /\ Cardinality(D) \in 0..Len(s)
         /\ \A i \in DOMAIN s : s[i] \in D <=> i <= Cardinality(D)
<1> DEFINE J == {i \in DOMAIN s : s[i] \in D}
           f == [i \in J |-> s[i]]
<1>1. Len(s) \in Nat /\ DOMAIN s = 1..Len(s)
  BY LenProperties
<1>2. \A i, j \in DOMAIN s : s[i] = s[j] => i = j
  BY <1>1, BeforeIsOrder DEF Ordered
<1>3. IsFiniteSet(1..Len(s)) /\ Cardinality(1..Len(s)) = Len(s)
  BY <1>1, FS_Interval
<1>4. IsFiniteSet(J) /\ Cardinality(J) <= Len(s)
  BY <1>1, <1>3, FS_Subset
<1>5. f \in Bijection(J, D)
  <2>1. f \in [J -> D] /\ \A i, j \in J : f[i] = f[j] => i = j
    BY <1>2
  <2>2. \A r \in D : \E i \in J : f[i] = r
    BY DEF ToSet
  <2> QED
    BY <2>1, <2>2 DEF Bijection, Injection, Surjection, IsInjective
<1>6. IsFiniteSet(D) /\ Cardinality(D) = Cardinality(J) /\ Cardinality(J) \in Nat
  BY <1>4, <1>5, FS_Bijection, FS_CardinalityType DEF ExistsBijection
<1> HIDE DEF J, f
<1>7. ASSUME NEW i \in J PROVE i <= Cardinality(J)
  <2>1. i \in 1..Len(s) /\ 1..i \subseteq J
    BY DEF J, Ordered, ToSet
  <2>2. IsFiniteSet(1..i) /\ Cardinality(1..i) = i
    BY <2>1, FS_Interval
  <2> QED
    BY <1>4, <2>1, <2>2, FS_Subset
<1>8. J = 1..Cardinality(J)
  <2> DEFINE n == Cardinality(J)
  <2>1. IsFiniteSet(1..n) /\ Cardinality(1..n) = n
    BY <1>6, FS_Interval
  <2>2. J \subseteq 1..n
    BY <1>6, <1>7 DEF J
  <2> QED
    BY <2>1, <2>2, FS_Subset
<1> QED
  BY <1>4, <1>6, <1>8 DEF J

-----------------------------------------------------------------------------
(* Rows, and the lists of a request *)

\* A list has finitely many rows.
LEMMA SequenceIsFinite ==
  ASSUME NEW S, NEW s \in Seq(S)
  PROVE  IsFiniteSet(ToSet(s)) /\ ToSet(s) \subseteq S
<1>1. Len(s) \in Nat /\ DOMAIN s = 1..Len(s) /\ s \in [1..Len(s) -> S]
  BY LenProperties
<1>2. IsFiniteSet(1..Len(s))
  BY <1>1, FS_Interval
<1>3. s \in Surjection(1..Len(s), ToSet(s))
  BY <1>1 DEF Surjection, ToSet
<1> QED
  BY <1>2, <1>3, FS_Surjection DEF ToSet

\* An account's list has finitely many rows, and one for a thread.
LEMMA ListedRows ==
  ASSUME ListTypeOK, NEW a
  PROVE  /\ Listed(a) \in SUBSET RowType /\ IsFiniteSet(Listed(a))
         /\ \A r \in Listed(a) :
              r.from = a /\ <<r.from, r.id>> \in Rows /\ Row(<<r.from, r.id>>) = r /\ r.time > 0
<1>1. /\ \A e \in External : e \in Nat /\ Row(<<0, e>>) \in RowType
      /\ \A o \in Official : o \in Nat /\ home[o] \in Nat \ {0} /\ Row(<<home[o], o>>) \in RowType
  <2>1. \A x \in Rows : time[x] \in Nat
    BY ThreadListAssumption DEF ListTypeOK
  <2>2. /\ \A e \in External : e \in Nat /\ <<0, e>> \in Rows
        /\ \A o \in Official : o \in Nat /\ home[o] \in Nat \ {0} /\ <<home[o], o>> \in Rows
    BY ThreadListAssumption DEF ListTypeOK, Rows
  <2> QED
    BY <2>1, <2>2 DEF Row, RowType
<1>2. ASSUME NEW x \in Rows PROVE Row(x) \in RowType /\ x = <<Row(x).from, Row(x).id>>
  <2>1. \A y : Row(y).from = y[1] /\ Row(y).id = y[2]
    BY DEF Row
  <2>2. CASE \E e \in External : x = <<0, e>>
    BY <1>1, <2>1, <2>2
  <2>3. CASE \E o \in Official : x = <<home[o], o>>
    BY <1>1, <2>1, <2>3
  <2> QED
    BY <2>2, <2>3 DEF Rows
<1>3. IsFiniteSet(Rows)
  <2> DEFINE f == [e \in External |-> <<0, e>>]
             g == [o \in Official |-> <<home[o], o>>]
  <2>1. IsFiniteSet({<<0, e>> : e \in External})
    <3>1. f \in Surjection(External, {<<0, e>> : e \in External})
      BY DEF Surjection
    <3> QED
      BY <3>1, FS_Surjection, ThreadListAssumption
  <2>2. IsFiniteSet({<<home[o], o>> : o \in Official})
    <3>1. g \in Surjection(Official, {<<home[o], o>> : o \in Official})
      BY DEF Surjection
    <3> QED
      BY <3>1, FS_Surjection, ThreadListAssumption
  <2> QED
    BY <2>1, <2>2, FS_Union DEF Rows
<1>4. IsFiniteSet({Row(x) : x \in Rows})
  <2> DEFINE f == [x \in Rows |-> Row(x)]
  <2>1. f \in Surjection(Rows, {Row(x) : x \in Rows})
    BY DEF Surjection
  <2> QED
    BY <1>3, <2>1, FS_Surjection
<1> QED
  BY <1>2, <1>4, FS_Subset DEF Listed

\* What a request finds: the rows that follow a position, in order.
LEMMA RowsAfter ==
  ASSUME ListTypeOK, NEW a, NEW p
  PROVE  LET S == {r \in Listed(a) : Follows(p, r)} IN
         /\ After(a, p) \in Seq(RowType) /\ Ordered(After(a, p)) /\ ToSet(After(a, p)) = S
         /\ \A i \in DOMAIN After(a, p) : After(a, p)[i].from = a
<1> DEFINE S == {r \in Listed(a) : Follows(p, r)}
<1>1. S \in SUBSET RowType /\ IsFiniteSet(S) /\ \A r \in S : r.from = a
  BY ListedRows, FS_Subset
<1>2. After(a, p) = Sorted(S)
  BY DEF After, Follows
<1> HIDE DEF S
<1>3. /\ After(a, p) \in Seq(S) /\ Ordered(After(a, p)) /\ ToSet(After(a, p)) = S
  BY <1>1, <1>2, SortedIsOrdered
<1> QED
  BY <1>1, <1>3 DEF S

\* The rows that the accounts of a request offer.
Offered == UNION {ToSet(page[a].rows) : a \in OpenAccounts}

\* Of each account the merged page takes the first rows.
LEMMA DataTakesFirst ==
  ASSUME ListTypeOK, RequestShape, Fetched
  PROVE  /\ Data \in Seq(RowType) /\ Ordered(Data) /\ Len(Data) \in 0..limit
         /\ \A i \in DOMAIN Data : Data[i].from \in OpenAccounts
         /\ ToSet(Data) \subseteq Offered
         /\ \A r \in Offered \ ToSet(Data) :
              Len(Data) = limit /\ \A x \in ToSet(Data) : Before(x, r)
         /\ \A a \in OpenAccounts :
              /\ TakenOf(Data, a) \in 0..Len(page[a].rows)
              /\ \A i \in DOMAIN page[a].rows :
                   page[a].rows[i] \in ToSet(Data) <=> i <= TakenOf(Data, a)
<1>1. \A a \in OpenAccounts : /\ page[a] # Nothing /\ page[a].rows \in Seq(RowType) /\ Ordered(page[a].rows)
                              /\ \A r \in ToSet(page[a].rows) : r.from = a
  BY DEF ListTypeOK, RequestShape, Fetched, OpenAccounts, Pages, ToSet
<1>2. \A a \in OpenAccounts : IsFiniteSet(ToSet(page[a].rows)) /\ ToSet(page[a].rows) \subseteq RowType
  BY <1>1, SequenceIsFinite
<1>3. IsFiniteSet(Offered) /\ Offered \subseteq RowType
  <2> DEFINE L == {ToSet(page[a].rows) : a \in OpenAccounts}
             f == [a \in OpenAccounts |-> ToSet(page[a].rows)]
  <2>1. IsFiniteSet(OpenAccounts)
    BY ThreadListAssumption, FS_Subset DEF OpenAccounts
  <2>2. f \in Surjection(OpenAccounts, L)
    BY DEF Surjection
  <2>3. IsFiniteSet(L)
    BY <2>1, <2>2, FS_Surjection
  <2> QED
    BY <1>2, <2>3, FS_UNION DEF Offered
<1> DEFINE u == Sorted(Offered)
<1>4. /\ u \in Seq(RowType) /\ Ordered(u) /\ ToSet(u) = Offered
  BY <1>3, SortedIsOrdered, SeqMonotonic
<1>5. limit \in Nat /\ Data = Take(u, limit)
  BY ThreadListAssumption DEF ListTypeOK, Data, Offered
<1> HIDE DEF u
<1>6. /\ Data \in Seq(RowType) /\ Ordered(Data) /\ Len(Data) \in 0..limit
      /\ ToSet(Data) \subseteq Offered
      /\ \A r \in Offered \ ToSet(Data) : \A x \in ToSet(Data) : Before(x, r)
  BY <1>4, <1>5, TakeKeepsOrder
<1>7. ASSUME Offered \ ToSet(Data) # {} PROVE Len(Data) = limit
  <2> SUFFICES ASSUME ~(limit < Len(u)) PROVE FALSE
    BY <1>4, <1>5, TakeKeepsOrder
  <2>1. Len(Data) = Len(u) /\ \A i \in DOMAIN Data : Data[i] = u[i]
    BY <1>4, <1>5, TakeKeepsOrder
  <2>2. ToSet(u) \subseteq ToSet(Data)
    BY <2>1, LenProperties DEF ToSet
  <2> QED
    BY <1>4, <1>7, <2>2
<1>8. \A i \in DOMAIN Data : Data[i].from \in OpenAccounts
  <2> SUFFICES ASSUME NEW i \in DOMAIN Data PROVE Data[i].from \in OpenAccounts
    OBVIOUS
  <2>1. Data[i] \in Offered
    BY <1>6 DEF ToSet
  <2> QED
    BY <1>1, <2>1 DEF Offered
<1>9. ASSUME NEW a \in OpenAccounts
      PROVE  /\ TakenOf(Data, a) \in 0..Len(page[a].rows)
             /\ \A i \in DOMAIN page[a].rows :
                  page[a].rows[i] \in ToSet(Data) <=> i <= TakenOf(Data, a)
  <2> DEFINE s == page[a].rows
             D == {r \in ToSet(Data) : r.from = a}
             I == {i \in DOMAIN Data : Data[i].from = a}
             f == [i \in I |-> Data[i]]
  <2>1. D \in SUBSET ToSet(s)
    BY <1>1, <1>6 DEF Offered
  <2>2. ASSUME NEW r \in D, NEW x \in ToSet(s), Before(x, r) PROVE x \in D
    <3>1. x \in Offered /\ x \in RowType /\ r \in RowType /\ x.from = a
      BY <1>1, <1>2, <2>1 DEF Offered
    <3> QED
      BY <1>6, <2>2, <3>1, BeforeIsOrder
  <2> HIDE DEF D
  <2>3. /\ Cardinality(D) \in 0..Len(s) /\ IsFiniteSet(D)
        /\ \A i \in DOMAIN s : s[i] \in D <=> i <= Cardinality(D)
    BY <1>1, <2>1, <2>2, LowerPart
  <2>4. f \in Bijection(I, D)
    <3>1. f \in [I -> D] /\ \A i, j \in I : f[i] = f[j] => i = j
      <4> QED
        BY <1>6, BeforeIsOrder DEF Ordered, ToSet, D
    <3>2. \A r \in D : \E i \in I : f[i] = r
      BY DEF ToSet, D
    <3> QED
      BY <3>1, <3>2 DEF Bijection, Injection, Surjection, IsInjective
  <2>5. IsFiniteSet(I)
    <3>1. DOMAIN Data = 1..Len(Data) /\ Len(Data) \in Nat
      BY <1>6, LenProperties
    <3>2. IsFiniteSet(DOMAIN Data)
      BY <3>1, FS_Interval
    <3> QED
      BY <3>2, FS_Subset
  <2>6. Cardinality(D) = Cardinality(I)
    BY <2>4, <2>5, FS_Bijection DEF ExistsBijection
  <2>7. TakenOf(Data, a) = Cardinality(D)
    BY <2>6 DEF TakenOf
  <2>8. \A i \in DOMAIN s : s[i] \in ToSet(Data) <=> s[i] \in D
    BY <1>1 DEF D, ToSet
  <2> QED
    BY <2>3, <2>7, <2>8
<1> QED
  BY <1>6, <1>7, <1>8, <1>9

\* The positions the merge of the accounts hands out are positions.
LEMMA PositionIsPosition ==
  ASSUME ListTypeOK, RequestShape, Fetched
  PROVE  Position(Data) \in Positions
<1> SUFFICES ASSUME NEW a \in Accounts
             PROVE  Position(Data)[a] \in [at : RowType \cup {Nothing}, done : BOOLEAN]
  BY DEF Positions, Position
<1> DEFINE n == TakenOf(Data, a)
           Place == [at : RowType \cup {Nothing}, done : BOOLEAN]
<1>1. start[a] \in Place /\ edge[a] \in RowType \cup {Nothing}
  BY DEF ListTypeOK, Positions
<1>2. CASE a \notin OpenAccounts
  BY <1>1, <1>2 DEF Position
<1>3. CASE a \in OpenAccounts
  <2>1. page[a].rows \in Seq(RowType) /\ page[a].more \in BOOLEAN
    BY <1>3 DEF ListTypeOK, Fetched, Pages
  <2>2. n \in 0..Len(page[a].rows)
    BY <1>3, DataTakesFirst
  <2> HIDE DEF n
  <2>3. n # 0 => page[a].rows[n] \in RowType
    BY <2>1, <2>2, LenProperties
  <2>4. Position(Data)[a] =
          IF page[a].rows = <<>> THEN [start[a] EXCEPT !.done = TRUE]
          ELSE IF n = 0 THEN start[a]
          ELSE IF edge[a] # Nothing THEN [at |-> edge[a], done |-> FALSE]
          ELSE [at |-> page[a].rows[n], done |-> ~page[a].more]
    BY <1>3 DEF Position, n
  <2>6. /\ edge[a] # Nothing => [at |-> edge[a], done |-> FALSE] \in Place
        /\ n # 0 => [at |-> page[a].rows[n], done |-> ~page[a].more] \in Place
    BY <1>1, <2>1, <2>3
  <2> HIDE DEF Place
  <2> QED
    BY <1>1, <2>4, <2>6 DEF Place
<1> QED
  BY <1>2, <1>3

\* The rows that come next.
LEMMA NextRows ==
  ASSUME ListTypeOK
  PROVE  /\ ext = <<>> => ExternalRow = Nothing
         /\ ext # <<>> => /\ ExternalRow = ext[1] /\ ExternalRow # Nothing /\ 1 \in DOMAIN ext
                          /\ Tail(ext) \in Seq(RowType) /\ Len(Tail(ext)) = Len(ext) - 1
                          /\ DOMAIN Tail(ext) = 1..(Len(ext) - 1)
                          /\ \A i \in 1..(Len(ext) - 1) : Tail(ext)[i] = ext[i + 1]
         /\ batch = Nothing => OfficialRow = Nothing
         /\ pc = "merging" /\ batch # Nothing /\ BatchShape =>
              IF index = Len(batch.rows) THEN OfficialRow = Nothing
              ELSE /\ index + 1 \in DOMAIN batch.rows
                   /\ OfficialRow = batch.rows[index + 1] /\ OfficialRow # Nothing
<1>1. Nothing \notin RowType
  BY ThreadListAssumption DEF RowType
<1>2. ext \in Seq(RowType)
  BY DEF ListTypeOK
<1>3. ASSUME ext # <<>>
      PROVE  /\ ExternalRow = ext[1] /\ ExternalRow # Nothing /\ 1 \in DOMAIN ext
             /\ Tail(ext) \in Seq(RowType) /\ Len(Tail(ext)) = Len(ext) - 1
             /\ DOMAIN Tail(ext) = 1..(Len(ext) - 1)
             /\ \A i \in 1..(Len(ext) - 1) : Tail(ext)[i] = ext[i + 1]
  <2>2. /\ Tail(ext) \in Seq(RowType) /\ Len(Tail(ext)) = Len(ext) - 1
        /\ \A i \in 1..(Len(ext) - 1) : Tail(ext)[i] = ext[i + 1]
    BY <1>2, <1>3, HeadTailProperties
  <2>3. ExternalRow = ext[1]
    BY <1>3 DEF ExternalRow, Head1
  <2> QED
    BY <1>1, <2>2, <2>3
<1>4. ASSUME pc = "merging", batch # Nothing, BatchShape
      PROVE  IF index = Len(batch.rows) THEN OfficialRow = Nothing
             ELSE /\ index + 1 \in DOMAIN batch.rows
                  /\ OfficialRow = batch.rows[index + 1] /\ OfficialRow # Nothing
  <2> DEFINE s == batch.rows
             t == SubSeq(s, index + 1, Len(s))
  <2>1. s \in Seq(RowType) /\ Len(s) \in Nat /\ DOMAIN s = 1..Len(s) /\ index \in 0..Len(s)
    BY <1>4 DEF ListTypeOK, BatchShape
  <2>2. OfficialRow = IF t = <<>> THEN Nothing ELSE Head(t)
    BY <1>4 DEF OfficialRow, Head1
  <2> HIDE DEF s
  <2>3. \A i \in 1..Len(s) : s[i] \in RowType
    BY <2>1
  <2>4. /\ t \in Seq(RowType)
        /\ Len(t) = IF index + 1 <= Len(s) THEN Len(s) - (index + 1) + 1 ELSE 0
        /\ \A i \in 1..(Len(s) - (index + 1) + 1) : t[i] = s[(index + 1) + i - 1]
    BY <2>1, <2>3, SubSeqProperties
  <2> HIDE DEF t
  <2>5. CASE index = Len(s)
    <3>1. t = <<>>
      BY <2>4, <2>5, EmptySeq
    <3> QED
      BY <2>2, <2>5, <3>1 DEF s
  <2>6. CASE index # Len(s)
    <3>0. index + 1 <= Len(s) /\ index + 1 \in 1..Len(s) /\ (index + 1) + 1 - 1 = index + 1
          /\ 1 \in 1..(Len(s) - (index + 1) + 1)
      <4>1. Len(s) \in Nat /\ index \in 0..Len(s) /\ index # Len(s)
        BY <2>1, <2>6
      <4> QED
        BY <4>1
    <3>1. t[1] = s[index + 1] /\ Len(t) > 0
      BY <2>1, <2>4, <3>0
    <3>3. OfficialRow = s[index + 1] /\ s[index + 1] \in RowType
      BY <2>2, <2>3, <3>0, <3>1
    <3> QED
      BY <1>1, <3>0, <3>3 DEF s
  <2> QED
    BY <2>5, <2>6
<1> QED
  BY <1>3, <1>4 DEF ExternalRow, OfficialRow, Head1

-----------------------------------------------------------------------------
(* Types, and the shape of a request and of a batch *)

\* What does not depend on anything but the threads and the query.
LEMMA ListsStay ==
  ASSUME UNCHANGED <<query, world>>
  PROVE  /\ Rows' = Rows /\ \A a : Listed(a)' = Listed(a)
         /\ \A r, s : Before(r, s)' <=> Before(r, s)
         /\ \A s : Ordered(s)' <=> Ordered(s)
         /\ \A r : Kept(r)' <=> Kept(r)
<1>1. dir' = dir /\ home' = home /\ time' = time /\ moved' = moved
  BY DEF query, world
<1> QED
  BY <1>1 DEF Rows, Listed, Row, Before, Ordered, Kept

\* What depends on the request only stays with it.
LEMMA RequestsStay ==
  ASSUME UNCHANGED <<query, world, start, page>>
  PROVE  OpenAccounts' = OpenAccounts /\ (\A s, a : TakenOf(s, a)' = TakenOf(s, a)) /\ Data' = Data
<1>1. dir' = dir /\ limit' = limit /\ start' = start /\ page' = page
  BY DEF query
<1> QED
  BY <1>1 DEF OpenAccounts, Data, Sorted, Before

\* A request begins with no account's batch.
LEMMA AskIsTyped ==
  ASSUME NEW from \in Positions, NEW forExact \in BOOLEAN, Ask(from, forExact)
  PROVE  /\ pc' = "asked" /\ start' \in Positions /\ exact' \in BOOLEAN
         /\ page' \in [Accounts -> Pages \cup {Nothing}]
         /\ edge' \in [Accounts -> RowType \cup {Nothing}]
         /\ \A a \in Accounts : page'[a] = Nothing /\ edge'[a] = Nothing
BY DEF Ask

LEMMA InitIsTyped == ListInit => ListTInv
<1> SUFFICES ASSUME ListInit PROVE ListTInv
  OBVIOUS
<1>1. Origin \in Positions
  BY DEF Origin, Positions
<1>2. time \in [Rows -> 0..MaxTime]
  BY ThreadListAssumption DEF ListInit
<1>4. <<>> \in Seq(RowType)
  OBVIOUS
<1>5. ListTypeOK
  <2>1. cursor \in [official : Positions, officialDone : BOOLEAN,
                    anchor : RowType \cup {Nothing}, externalDone : BOOLEAN]
    BY <1>1 DEF ListInit
  <2>3. /\ changes \in 0..MaxChanges /\ drift \in BOOLEAN /\ moved \subseteq Rows
        /\ pc \in {"idle", "asked", "merging", "done", "refused", "failed"}
    <3>1. moved = {} /\ changes = 0 /\ drift = FALSE /\ pc = "idle"
      BY DEF ListInit
    <3>2. changes \in 0..MaxChanges
      BY <3>1, ThreadListAssumption
    <3>3. moved \subseteq Rows /\ drift \in BOOLEAN
      BY <3>1, Zenon
    <3> QED
      BY <3>1, <3>2, <3>3
  <2> QED
    BY <1>2, <1>4, <2>1, <2>3 DEF ListInit, ListTypeOK
<1> QED
  BY <1>5 DEF ListInit, ListTInv, RequestShape, BatchShape

\* A request for an account's batch.
LEMMA AccountBatchKeepsTypes ==
  ASSUME ListTInv, NEW a \in Accounts, AccountBatch(a)
  PROVE  ListTInv'
<1> DEFINE all == After(a, start[a].at)
           rows == Take(all, limit)
<1>1. /\ pc = "asked" /\ a \in OpenAccounts /\ page[a] = Nothing
      /\ page' = [page EXCEPT ![a] = [rows |-> rows, more |-> Len(all) > limit]]
      /\ UNCHANGED <<query, world, pc, listing, cursor, ext, more, lastAnchor, out, batch, index, start, exact, edge>>
  BY DEF AccountBatch
<1>2. \A b \in Accounts : edge[b] = Nothing
  BY <1>1 DEF ListTInv, RequestShape, Fetched
<1>3. /\ all \in Seq(RowType) /\ Ordered(all)
      /\ \A i \in DOMAIN all : all[i].from = a
  BY RowsAfter DEF ListTInv
<1>4. limit \in Nat
  BY ThreadListAssumption DEF ListTInv, ListTypeOK
<1> HIDE DEF all
<1>5. /\ rows \in Seq(RowType) /\ Ordered(rows) /\ Len(rows) <= limit
      /\ Len(all) > limit => Len(rows) = limit
      /\ \A i \in DOMAIN rows : rows[i] = all[i] /\ rows[i] \in ToSet(rows)
      /\ ToSet(rows) \subseteq ToSet(all)
  BY <1>3, <1>4, TakeKeepsOrder DEF ToSet
<1>6. \A i \in DOMAIN rows : rows[i].from = a
  <2>1. \A r \in ToSet(all) : r.from = a
    BY <1>3 DEF ToSet
  <2> QED
    BY <1>5, <2>1
<1> HIDE DEF rows
<1>7. ListTypeOK'
  <2>1. [rows |-> rows, more |-> Len(all) > limit] \in Pages
    BY <1>5 DEF Pages
  <2>2. page' \in [Accounts -> Pages \cup {Nothing}]
    BY <1>1, <2>1 DEF ListTInv, ListTypeOK
  <2>3. Rows' = Rows
    BY <1>1, ListsStay
  <2> QED
    BY <1>1, <2>2, <2>3 DEF ListTInv, ListTypeOK, query, world
<1>8. RequestShape'
  <2>1. OpenAccounts' = OpenAccounts /\ limit' = limit
    BY <1>1 DEF OpenAccounts, query
  <2>2. \A s : Ordered(s)' <=> Ordered(s)
    BY <1>1, ListsStay
  <2>3. ASSUME NEW b \in Accounts, page'[b] # Nothing
        PROVE  /\ b \in OpenAccounts /\ Ordered(page'[b].rows) /\ Len(page'[b].rows) <= limit
               /\ page'[b].more => Len(page'[b].rows) = limit
               /\ \A i \in DOMAIN page'[b].rows : page'[b].rows[i].from = b
    <3>1. CASE b = a
      <4>1. page'[b].rows = rows /\ page'[b].more = (Len(all) > limit)
        BY <1>1, <3>1 DEF ListTInv, ListTypeOK
      <4> QED
        BY <1>1, <1>5, <1>6, <3>1, <4>1
    <3>2. CASE b # a
      BY <1>1, <2>3, <3>2 DEF ListTInv, RequestShape
    <3> QED
      BY <3>1, <3>2
  <2> QED
    BY <1>1, <1>2, <2>1, <2>2, <2>3 DEF ListTInv, RequestShape
<1>9. BatchShape'
  BY <1>1 DEF ListTInv, BatchShape, query
<1> QED
  BY <1>7, <1>8, <1>9 DEF ListTInv

\* The listing ends: nothing is left to say of a request or a batch.
LEMMA Stopping ==
  ASSUME ListTInv, pc' \in {"refused", "failed", "done", "idle"},
         UNCHANGED <<query, world, ext, more, lastAnchor, out, batch, index, request>>,
         listing' \in Seq(RowType),
         cursor' \in [official : Positions, officialDone : BOOLEAN,
                      anchor : RowType \cup {Nothing}, externalDone : BOOLEAN]
  PROVE  ListTInv'
<1>1. Rows' = Rows
  BY ListsStay
<1> QED
  BY <1>1 DEF ListTInv, ListTypeOK, RequestShape, BatchShape, query, world, request

\* A request for the part that was used of an account's batch.
LEMMA AccountPrefixKeepsTypes ==
  ASSUME ListTInv, NEW a \in Accounts, AccountPrefix(a)
  PROVE  ListTInv'
<1>1. CASE RefusePage
  BY <1>1, Stopping DEF RefusePage, ListTInv, ListTypeOK
<1>2. CASE ~RefusePage
  <2> DEFINE rows == After(a, start[a].at)
             n == TakenOf(Data, a)
  <2>1. /\ Fetched /\ a \in Split(Data) /\ ~(Len(rows) <= n)
        /\ edge' = [edge EXCEPT ![a] = rows[n]]
        /\ UNCHANGED <<query, world, pc, listing, cursor, ext, more, lastAnchor, out, batch, index, start, exact, page>>
    BY <1>2 DEF AccountPrefix
  <2>2. a \in OpenAccounts /\ n \in 1..(Len(page[a].rows) - 1)
    <3>1. a \in OpenAccounts /\ 0 < n /\ n < Len(page[a].rows)
      BY <2>1 DEF Split
    <3>2. n \in 0..Len(page[a].rows)
      BY <2>1, <3>1, DataTakesFirst DEF ListTInv
    <3>3. Len(page[a].rows) \in Nat
      BY DEF ListTypeOK, Fetched, Pages
    <3> HIDE DEF n
    <3> QED
      BY <3>1, <3>2, <3>3
  <2>3. rows \in Seq(RowType)
    BY RowsAfter DEF ListTInv
  <2>4. n \in Nat /\ n > 0
    <3> HIDE DEF n
    <3> QED
      BY <2>2
  <2> HIDE DEF rows
  <2>5. rows[n] \in RowType
    <3> HIDE DEF n
    <3> QED
      BY <2>1, <2>3, <2>4
  <2>6. ListTypeOK'
    <3>1. Rows' = Rows
      BY <2>1, ListsStay
    <3> HIDE DEF n
    <3>2. edge' \in [Accounts -> RowType \cup {Nothing}]
      BY <2>1, <2>5 DEF ListTInv, ListTypeOK
    <3> QED
      BY <2>1, <3>1, <3>2 DEF ListTInv, ListTypeOK, query, world
  <2>7. /\ Data' = Data /\ \A s, b : TakenOf(s, b)' = TakenOf(s, b)
        /\ OpenAccounts' = OpenAccounts
    BY <2>1, RequestsStay
  <2>8. \A b \in Accounts : edge'[b] # Nothing =>
          TakenOf(Data, b) \in 1..(Len(page[b].rows) - 1)
    BY <2>1, <2>2 DEF ListTInv, RequestShape, Fetched
  <2>9. \A s : Ordered(s)' <=> Ordered(s)
    BY <2>1, ListsStay
  <2>10. Fetched' /\ limit' = limit
    BY <2>1, <2>7 DEF Fetched, query
  <2> HIDE DEF n
  <2>11. RequestShape'
    <3>1. \A b \in Accounts : edge'[b] # Nothing =>
            Fetched' /\ TakenOf(Data, b)' \in 1..(Len(page'[b].rows) - 1)
      BY <2>1, <2>7, <2>8, <2>10
    <3> QED
      BY <2>1, <2>7, <2>9, <2>10, <3>1 DEF ListTInv, RequestShape
  <2>12. BatchShape'
    BY <2>1, <2>10 DEF ListTInv, BatchShape
  <2> QED
    BY <2>6, <2>11, <2>12 DEF ListTInv
<1> QED
  BY <1>1, <1>2

LEMMA BatchArrivesKeepsTypes == ListTInv /\ BatchArrives => ListTInv'
<1> SUFFICES ASSUME ListTInv, BatchArrives PROVE ListTInv'
  OBVIOUS
<1>1. /\ pc = "asked" /\ Fetched /\ pc' = "merging" /\ index' = 0
      /\ batch' = [rows |-> Data, next |-> Position(Data)]
      /\ UNCHANGED <<query, world, listing, cursor, ext, more, lastAnchor, out, request>>
  BY DEF BatchArrives, Fetched
<1>2. Position(Data) \in Positions
  BY <1>1, PositionIsPosition DEF ListTInv
<1>3. /\ Data \in Seq(RowType) /\ Len(Data) <= limit /\ 0 <= Len(Data)
      /\ \A i \in DOMAIN Data : Data[i].from \in OpenAccounts
  BY <1>1, DataTakesFirst DEF ListTInv
<1> DEFINE data == Data
           next == Position(Data)
<1> HIDE DEF data, next
<1>4. batch' = [rows |-> data, next |-> next]
  BY <1>1 DEF data, next
<1>5. batch' \in [rows : Seq(RowType), next : Positions]
  BY <1>2, <1>3, <1>4 DEF data, next
<1>6. ListTypeOK'
  <2>1. Rows' = Rows
    BY <1>1, ListsStay
  <2> QED
    BY <1>1, <1>5, <2>1 DEF ListTInv, ListTypeOK, query, world, request
<1>7. \A i \in DOMAIN data : data[i].from # 0
  BY <1>3, ThreadListAssumption DEF data, OpenAccounts
<1>8. BatchShape'
  <2>1. Len(out') <= limit'
    BY <1>1 DEF ListTInv, BatchShape, query
  <2>2. index' <= Len(batch'.rows) /\ Len(batch'.rows) <= limit'
    BY <1>1, <1>3 DEF query
  <2> QED
    BY <1>4, <1>7, <2>1, <2>2 DEF BatchShape
<1> QED
  BY <1>1, <1>6, <1>8 DEF ListTInv, RequestShape

\* The listing with the page added to it.
LEMMA JoinedRows ==
  ASSUME ListTypeOK
  PROVE  /\ listing \o out \in Seq(RowType)
         /\ Len(listing) \in Nat /\ Len(out) \in Nat
         /\ DOMAIN listing = 1..Len(listing) /\ DOMAIN out = 1..Len(out)
         /\ DOMAIN (listing \o out) = 1..(Len(listing) + Len(out))
         /\ \A i \in 1..(Len(listing) + Len(out)) :
              (listing \o out)[i] = IF i <= Len(listing) THEN listing[i] ELSE out[i - Len(listing)]
<1>1. listing \in Seq(RowType) /\ out \in Seq(RowType)
  BY DEF ListTypeOK
<1>2. /\ listing \o out \in Seq(RowType)
      /\ Len(listing \o out) = Len(listing) + Len(out)
      /\ \A i \in 1..(Len(listing) + Len(out)) :
           (listing \o out)[i] = IF i <= Len(listing) THEN listing[i] ELSE out[i - Len(listing)]
  BY <1>1, ConcatProperties
<1>3. DOMAIN (listing \o out) = 1..Len(listing \o out)
  BY <1>2, LenProperties
<1> QED
  BY <1>2, <1>3, LenProperties

\* The page is handed out.
LEMMA FinishKeepsTypes ==
  ASSUME ListTInv, NEW official \in Positions, NEW officialDone \in BOOLEAN,
         Finish(official, officialDone)
  PROVE  ListTInv'
<1>1. listing' \in Seq(RowType)
  BY JoinedRows DEF Finish, ListTInv
<1>2. cursor' \in [official : Positions, officialDone : BOOLEAN,
                   anchor : RowType \cup {Nothing}, externalDone : BOOLEAN]
  BY DEF Finish, ListTInv, ListTypeOK
<1>3. /\ pc' \in {"refused", "failed", "done", "idle"}
      /\ UNCHANGED <<query, world, ext, more, lastAnchor, out, batch, index, request>>
  BY DEF Finish
<1> QED
  BY <1>1, <1>2, <1>3, Stopping

LEMMA PrefixArrivesKeepsTypes == ListTInv /\ PrefixArrives => ListTInv'
<1> SUFFICES ASSUME ListTInv, PrefixArrives PROVE ListTInv'
  OBVIOUS
<1>1. CASE RefusePage
  BY <1>1, Stopping DEF RefusePage, ListTInv, ListTypeOK
<1>2. CASE Finish(Position(Data), FALSE)
  <2>1. Position(Data) \in Positions
    BY PositionIsPosition DEF PrefixArrives, ListTInv
  <2> QED
    BY <1>2, <2>1, FinishKeepsTypes
<1> QED
  BY <1>1, <1>2 DEF PrefixArrives

\* A request is sent.
LEMMA AskingKeepsTypes ==
  ASSUME ListTInv, NEW from \in Positions, NEW forExact \in BOOLEAN, Ask(from, forExact),
         UNCHANGED <<query, world, listing, cursor, batch, index>>,
         ext' \in Seq(RowType), more' \in BOOLEAN, lastAnchor' \in RowType \cup {Nothing},
         out' \in Seq(RowType), Len(out') <= limit,
         exact' => 0 < index /\ index < limit
  PROVE  ListTInv'
<1>1. /\ pc' = "asked" /\ start' \in Positions /\ exact' \in BOOLEAN
      /\ page' \in [Accounts -> Pages \cup {Nothing}]
      /\ edge' \in [Accounts -> RowType \cup {Nothing}]
      /\ \A a \in Accounts : page'[a] = Nothing /\ edge'[a] = Nothing
  BY AskIsTyped
<1>2. ListTypeOK'
  <2>1. Rows' = Rows
    BY ListsStay
  <2> QED
    BY <1>1, <2>1 DEF ListTInv, ListTypeOK, query, world
<1>3. RequestShape'
  BY <1>1 DEF RequestShape, query
<1>4. BatchShape'
  BY <1>1 DEF BatchShape, query
<1> QED
  BY <1>2, <1>3, <1>4 DEF ListTInv

LEMMA BeginPageKeepsTypes == ListTInv /\ BeginPage => ListTInv'
<1> SUFFICES ASSUME ListTInv, BeginPage PROVE ListTInv'
  OBVIOUS
<1> DEFINE rows == IF cursor.externalDone THEN <<>> ELSE ExternalRows
<1>1. /\ ext' = Take(rows, limit) /\ more' = (Len(rows) > limit) /\ lastAnchor' = cursor.anchor
      /\ out' = <<>> /\ batch' = Nothing /\ index' = 0
      /\ IF cursor.officialDone
           THEN pc' = "merging" /\ UNCHANGED request
           ELSE Ask(cursor.official, FALSE)
      /\ UNCHANGED <<query, world, listing, cursor>>
  BY DEF BeginPage
<1>2. rows \in Seq(RowType) /\ Ordered(rows)
  <2>1. ExternalRows \in Seq(RowType) /\ Ordered(ExternalRows)
    BY RowsAfter DEF ExternalRows, ListTInv
  <2>2. <<>> \in Seq(RowType) /\ Ordered(<<>>)
    BY DEF Ordered
  <2> QED
    BY <2>1, <2>2
<1> HIDE DEF rows
<1>3. limit \in Nat
  BY ThreadListAssumption DEF ListTInv, ListTypeOK
<1>4. ext' \in Seq(RowType) /\ more' \in BOOLEAN
  BY <1>1, <1>2, <1>3, TakeKeepsOrder
<1>5. cursor.official \in Positions /\ cursor.anchor \in RowType \cup {Nothing}
  BY DEF ListTInv, ListTypeOK
<1>6. out' \in Seq(RowType) /\ Len(out') <= limit
  BY <1>1, <1>3
<1>7. /\ start' \in Positions /\ exact' \in BOOLEAN
      /\ page' \in [Accounts -> Pages \cup {Nothing}]
      /\ edge' \in [Accounts -> RowType \cup {Nothing}]
      /\ pc' = "asked" => ~exact' /\ \A a \in Accounts : page'[a] = Nothing /\ edge'[a] = Nothing
      /\ pc' \in {"asked", "merging"}
  <2>1. CASE cursor.officialDone
    BY <1>1, <2>1 DEF ListTInv, ListTypeOK, request
  <2>2. CASE ~cursor.officialDone
    <3>1. Ask(cursor.official, FALSE) /\ ~exact'
      BY <1>1, <2>2 DEF Ask
    <3> QED
      BY <1>5, <3>1, AskIsTyped
  <2> QED
    BY <2>1, <2>2
<1>8. ListTypeOK'
  <2>1. Rows' = Rows
    BY <1>1, ListsStay
  <2> QED
    BY <1>1, <1>4, <1>7, <2>1 DEF ListTInv, ListTypeOK, query, world
<1>9. RequestShape' /\ BatchShape'
  BY <1>1, <1>6, <1>7 DEF RequestShape, BatchShape, query
<1> QED
  BY <1>8, <1>9 DEF ListTInv

\* Steps of the merge that leave the batch as it is.
LEMMA MergingKeepsTypes ==
  ASSUME ListTInv, pc = "merging", UNCHANGED <<query, world, pc, listing, cursor, more, batch, request>>,
         index' \in Nat, batch # Nothing => index' <= Len(batch.rows),
         ext' \in Seq(RowType), lastAnchor' \in RowType \cup {Nothing},
         out' \in Seq(RowType), Len(out') <= limit
  PROVE  ListTInv'
<1>1. Rows' = Rows
  BY ListsStay
<1>2. ListTypeOK'
  BY <1>1 DEF ListTInv, ListTypeOK, query, world, request
<1>3. BatchShape'
  BY DEF ListTInv, BatchShape, query
<1> QED
  BY <1>2, <1>3 DEF ListTInv, RequestShape

LEMMA OneMoreRow ==
  ASSUME ListTypeOK, Filling, NEW r \in RowType
  PROVE  /\ Append(out, r) \in Seq(RowType) /\ Len(Append(out, r)) = Len(out) + 1
         /\ Len(out) + 1 <= limit /\ Len(out) \in Nat /\ DOMAIN out = 1..Len(out)
         /\ DOMAIN Append(out, r) = 1..(Len(out) + 1)
         /\ \A i \in 1..Len(out) : Append(out, r)[i] = out[i]
         /\ Append(out, r)[Len(out) + 1] = r
<1>1. out \in Seq(RowType) /\ limit \in Nat /\ Len(out) < limit
  BY ThreadListAssumption DEF ListTypeOK, Filling
<1>2. /\ Append(out, r) \in Seq(RowType) /\ Len(Append(out, r)) = Len(out) + 1
      /\ \A i \in 1..Len(out) : Append(out, r)[i] = out[i]
      /\ Append(out, r)[Len(out) + 1] = r
  BY <1>1, AppendProperties
<1>3. Len(out) \in Nat /\ DOMAIN out = 1..Len(out) /\ DOMAIN Append(out, r) = 1..Len(Append(out, r))
  BY <1>1, <1>2, LenProperties
<1> QED
  BY <1>1, <1>2, <1>3

\* Where the next official row is in the batch.
LEMMA OfficialRowIs ==
  ASSUME ListTInv, pc = "merging", OfficialRow # Nothing
  PROVE  /\ batch # Nothing /\ batch.rows \in Seq(RowType)
         /\ index \in Nat /\ index + 1 <= Len(batch.rows) /\ index + 1 \in DOMAIN batch.rows
         /\ DOMAIN batch.rows = 1..Len(batch.rows) /\ Len(batch.rows) \in Nat
         /\ OfficialRow = batch.rows[index + 1] /\ OfficialRow \in RowType /\ OfficialRow.from # 0
<1>1. batch # Nothing /\ BatchShape /\ ListTypeOK
  BY NextRows DEF ListTInv
<1>2. batch.rows \in Seq(RowType) /\ index \in Nat
  BY <1>1 DEF ListTypeOK
<1>3. index + 1 \in DOMAIN batch.rows /\ OfficialRow = batch.rows[index + 1]
  BY <1>1, NextRows
<1> QED
  BY <1>1, <1>2, <1>3 DEF BatchShape

\* Where the next external row is.
LEMMA ExternalRowIs ==
  ASSUME ListTInv, ExternalRow # Nothing
  PROVE  /\ ext # <<>> /\ ExternalRow = ext[1] /\ 1 \in DOMAIN ext /\ ExternalRow \in RowType
         /\ Tail(ext) \in Seq(RowType) /\ Len(Tail(ext)) = Len(ext) - 1
         /\ DOMAIN ext = 1..Len(ext) /\ Len(ext) \in Nat
         /\ DOMAIN Tail(ext) = 1..(Len(ext) - 1)
         /\ \A i \in 1..(Len(ext) - 1) : Tail(ext)[i] = ext[i + 1]
<1>1. ext # <<>> /\ ext \in Seq(RowType) /\ ListTypeOK
  BY NextRows DEF ListTInv, ListTypeOK
<1>4. DOMAIN ext = 1..Len(ext) /\ Len(ext) \in Nat
  BY <1>1, LenProperties
<1> QED
  BY <1>1, <1>4, NextRows

\* The three steps of the merge.
LEMMA MergeKeepsTypes ==
  ASSUME ListTInv, PassOwned \/ EmitExternal \/ EmitOfficial
  PROVE  ListTInv'
<1>1. /\ pc = "merging" /\ ListTypeOK /\ ext \in Seq(RowType) /\ lastAnchor \in RowType \cup {Nothing}
      /\ out \in Seq(RowType) /\ Len(out) <= limit /\ Filling /\ index \in Nat
      /\ batch # Nothing => index <= Len(batch.rows)
  BY DEF PassOwned, EmitExternal, EmitOfficial, Filling, ListTInv, ListTypeOK, BatchShape
<1>2. CASE PassOwned
  <2>1. OfficialRow # Nothing /\ index' = index + 1
    BY <1>2 DEF PassOwned
  <2>2. index' <= Len(batch.rows) /\ index' \in Nat
    BY <1>1, <2>1, OfficialRowIs
  <2> QED
    BY <1>1, <1>2, <2>2, MergingKeepsTypes DEF PassOwned
<1>3. CASE EmitExternal
  <2>1. /\ ExternalRow # Nothing /\ out' = Append(out, ExternalRow) /\ ext' = Tail(ext)
        /\ lastAnchor' = ExternalRow
        /\ UNCHANGED <<query, world, pc, listing, cursor, more, batch, index, request>>
    BY <1>3 DEF EmitExternal
  <2>2. ExternalRow \in RowType /\ Tail(ext) \in Seq(RowType)
    BY <2>1, ExternalRowIs
  <2>3. out' \in Seq(RowType) /\ Len(out') <= limit
    BY <1>1, <2>1, <2>2, OneMoreRow
  <2> QED
    BY <1>1, <2>1, <2>2, <2>3, MergingKeepsTypes
<1>4. CASE EmitOfficial
  <2>1. /\ OfficialRow # Nothing /\ out' = Append(out, OfficialRow) /\ index' = index + 1
        /\ UNCHANGED <<query, world, pc, listing, cursor, ext, more, lastAnchor, batch, request>>
    BY <1>4 DEF EmitOfficial
  <2>2. OfficialRow \in RowType /\ index' <= Len(batch.rows) /\ index' \in Nat
    BY <1>1, <2>1, OfficialRowIs
  <2>3. out' \in Seq(RowType) /\ Len(out') <= limit
    BY <1>1, <2>1, <2>2, OneMoreRow
  <2> QED
    BY <1>1, <2>1, <2>2, <2>3, MergingKeepsTypes
<1> QED
  BY <1>2, <1>3, <1>4

LEMMA EndPageKeepsTypes == ListTInv /\ EndPage => ListTInv'
<1> SUFFICES ASSUME ListTInv, EndPage PROVE ListTInv'
  OBVIOUS
<1>1. /\ pc = "merging" /\ cursor.official \in Positions /\ start \in Positions
      /\ batch # Nothing => batch.next \in Positions
  BY DEF EndPage, ListTInv, ListTypeOK
<1>2. CASE batch = Nothing
  BY <1>1, <1>2, FinishKeepsTypes DEF EndPage
<1>3. CASE batch # Nothing /\ index = Len(batch.rows)
  <2>1. Finish(batch.next, Exhausted(batch.next)) /\ Exhausted(batch.next) \in BOOLEAN
    BY <1>3 DEF EndPage, Exhausted
  <2> QED
    BY <1>1, <1>3, <2>1, FinishKeepsTypes
<1>4. CASE batch # Nothing /\ index # Len(batch.rows) /\ index = 0
  BY <1>1, <1>4, FinishKeepsTypes DEF EndPage
<1>5. CASE batch # Nothing /\ index # Len(batch.rows) /\ index # 0
  <2>1. /\ Ask(start, TRUE)
        /\ UNCHANGED <<query, world, listing, cursor, ext, more, lastAnchor, out, batch, index>>
    BY <1>5 DEF EndPage
  <2>2. /\ Len(batch.rows) \in Nat /\ index \in Nat /\ index <= Len(batch.rows)
        /\ Len(batch.rows) <= limit /\ limit \in Nat /\ Len(out) <= limit
    BY <1>1, <1>5, ThreadListAssumption DEF ListTInv, ListTypeOK, BatchShape
  <2>3. 0 < index /\ index < limit
    BY <1>5, <2>2
  <2> QED
    BY <2>1, <2>2, <2>3, AskingKeepsTypes DEF ListTInv, ListTypeOK
<1> QED
  BY <1>2, <1>3, <1>4, <1>5

LEMMA NextBatchKeepsTypes == ListTInv /\ NextBatch => ListTInv'
<1> SUFFICES ASSUME ListTInv, NextBatch PROVE ListTInv'
  OBVIOUS
<1>1. /\ batch.next \in Positions /\ Ask(batch.next, FALSE) /\ ~exact' /\ Len(out) <= limit
      /\ UNCHANGED <<query, world, listing, cursor, ext, more, lastAnchor, out, batch, index>>
  BY DEF NextBatch, Filling, ListTInv, ListTypeOK, BatchShape, Ask
<1> QED
  BY <1>1, AskingKeepsTypes DEF ListTInv, ListTypeOK

\* A thread changes while the Desktop pages.
LEMMA ChangeKeepsTypes ==
  ASSUME ListTInv, NEW r \in Rows, Change(r)
  PROVE  ListTInv'
<1>1. /\ pc \in {"idle", "asked"} /\ changes < MaxChanges /\ moved' = moved \cup {r} /\ changes' = changes + 1
      /\ drift' \in BOOLEAN
      /\ UNCHANGED <<query, pc, listing, cursor, ext, more, lastAnchor, out, batch, index, request>>
  BY DEF Change
<1>2. PICK t \in {0, MaxTime} : time' = [time EXCEPT ![r] = t]
  BY DEF Change
<1>3. Rows' = Rows /\ OpenAccounts' = OpenAccounts /\ Data' = Data
      /\ (\A s, a : TakenOf(s, a)' = TakenOf(s, a)) /\ (\A s : Ordered(s)' <=> Ordered(s))
  BY <1>1 DEF query, request, Rows, OpenAccounts, Data, Sorted, Before, Ordered
<1>4. ListTypeOK'
  <2>1. time' \in [Rows -> 0..MaxTime]
    BY <1>2, ThreadListAssumption DEF ListTInv, ListTypeOK
  <2>2. changes' \in 0..MaxChanges
    BY <1>1, ThreadListAssumption DEF ListTInv, ListTypeOK
  <2> QED
    BY <1>1, <1>3, <2>1, <2>2 DEF ListTInv, ListTypeOK, query, request
<1>5. RequestShape' /\ BatchShape'
  <2>1. Fetched' = Fetched
    BY <1>1, <1>3 DEF Fetched, request
  <2>2. limit' = limit /\ page' = page /\ edge' = edge /\ exact' = exact
    BY <1>1 DEF query, request
  <2> QED
    BY <1>1, <1>3, <2>1, <2>2 DEF ListTInv, RequestShape, BatchShape
<1> QED
  BY <1>4, <1>5 DEF ListTInv

LEMMA NextKeepsTypes == ListTInv /\ [ListNext]_listVars => ListTInv'
<1> SUFFICES ASSUME ListTInv, [ListNext]_listVars PROVE ListTInv'
  OBVIOUS
<1>1. CASE \E a \in Accounts : AccountBatch(a) \/ AccountPrefix(a)
  BY <1>1, AccountBatchKeepsTypes, AccountPrefixKeepsTypes
<1>2. CASE RequestFails
  BY <1>2, Stopping DEF RequestFails, ListTInv, ListTypeOK
<1>3. CASE \E r \in Rows : Change(r)
  BY <1>3, ChangeKeepsTypes
<1>4. CASE UNCHANGED listVars
  <2>1. Rows' = Rows /\ OpenAccounts' = OpenAccounts /\ Data' = Data
        /\ (\A s, a : TakenOf(s, a)' = TakenOf(s, a)) /\ (\A s : Ordered(s)' <=> Ordered(s))
    BY <1>4, ListsStay, RequestsStay DEF listVars, request
  <2>2. UNCHANGED <<query, world, pc, listing, cursor, ext, more, lastAnchor, out, batch, index, request>>
    BY <1>4 DEF listVars
  <2>3. Fetched' = Fetched /\ ListTypeOK'
    BY <2>1, <2>2 DEF ListTInv, ListTypeOK, Fetched, query, world, request
  <2>4. limit' = limit /\ page' = page /\ edge' = edge /\ exact' = exact
    BY <2>2 DEF query, request
  <2>5. RequestShape' /\ BatchShape'
    BY <2>1, <2>2, <2>3, <2>4 DEF ListTInv, RequestShape, BatchShape
  <2> QED
    BY <2>3, <2>5 DEF ListTInv
<1> QED
  BY <1>1, <1>2, <1>3, <1>4, BeginPageKeepsTypes, BatchArrivesKeepsTypes, PrefixArrivesKeepsTypes,
     NextBatchKeepsTypes, MergeKeepsTypes, EndPageKeepsTypes DEF ListNext, Step

-----------------------------------------------------------------------------
(* A request for the part that was used of a batch *)

\* An answer as short as the prefix is all that the accounts have left.
LEMMA PrefixesEndEveryAccount ==
  ASSUME ListTInv, Fetched, exact, Len(Data) = index
  PROVE  Exhausted(Position(Data))
<1> SUFFICES ASSUME NEW a \in Accounts PROVE Position(Data)[a].done
  BY DEF Exhausted
<1>1. ListTypeOK /\ RequestShape /\ pc = "asked"
  BY DEF ListTInv, Fetched
<1>2. Len(Data) < limit /\ limit \in Nat
  BY <1>1, ThreadListAssumption DEF RequestShape, ListTypeOK
<1>3. CASE a \notin OpenAccounts
  BY <1>3 DEF Position, OpenAccounts
<1>4. CASE a \in OpenAccounts
  <2> DEFINE rows == page[a].rows
             n == TakenOf(Data, a)
  <2>1. /\ page[a] # Nothing /\ rows \in Seq(RowType) /\ page[a].more \in BOOLEAN
        /\ Len(rows) <= limit /\ (page[a].more => Len(rows) = limit)
        /\ edge[a] # Nothing => n \in 1..(Len(rows) - 1)
    BY <1>1, <1>4 DEF ListTypeOK, RequestShape, Fetched, Pages
  <2>2. DOMAIN rows = 1..Len(rows) /\ Len(rows) \in Nat
    BY <2>1, LenProperties
  <2>3. /\ n \in 0..Len(rows)
        /\ \A i \in DOMAIN rows : rows[i] \in ToSet(Data) <=> i <= n
    BY <1>1, <1>4, DataTakesFirst
  <2>4. Len(Data) \in Nat /\ Offered \subseteq ToSet(Data)
    BY <1>1, <1>2, DataTakesFirst
  <2> HIDE DEF n
  <2>5. n = Len(rows)
    <3> SUFFICES ASSUME n # Len(rows) PROVE FALSE
      OBVIOUS
    <3>1. Len(rows) \in DOMAIN rows /\ ~(Len(rows) <= n)
      BY <2>2, <2>3
    <3>2. rows[Len(rows)] \in Offered
      BY <1>4, <3>1 DEF Offered, ToSet
    <3> QED
      BY <2>3, <2>4, <3>2
  <2>6. n <= Len(Data)
    <3>2. IsFiniteSet(1..Len(Data)) /\ Cardinality(1..Len(Data)) = Len(Data)
      BY <2>4, FS_Interval
    <3> QED
      BY <3>2, FS_Subset DEF n, TakenOf
  <2>7. edge[a] = Nothing /\ ~page[a].more
    BY <1>2, <2>1, <2>5, <2>6
  <2>8. n = 0 => rows = <<>>
    BY <2>1, <2>5, EmptySeq
  <2>9. Position(Data)[a] =
          IF rows = <<>> THEN [start[a] EXCEPT !.done = TRUE]
          ELSE IF n = 0 THEN start[a]
          ELSE IF edge[a] # Nothing THEN [at |-> edge[a], done |-> FALSE]
          ELSE [at |-> rows[n], done |-> ~page[a].more]
    BY <1>4 DEF Position, n
  <2>10. start[a] \in [at : RowType \cup {Nothing}, done : BOOLEAN]
    BY <1>1 DEF ListTypeOK, Positions
  <2>11. [start[a] EXCEPT !.done = TRUE].done
    BY <2>10
  <2> HIDE DEF rows
  <2>12. CASE rows = <<>>
    BY <2>9, <2>11, <2>12
  <2>13. CASE rows # <<>>
    <3>2. Position(Data)[a] = [at |-> rows[n], done |-> TRUE]
      BY <2>7, <2>8, <2>9, <2>13
    <3> QED
      BY <3>2
  <2> QED
    BY <2>12, <2>13
<1> QED
  BY <1>3, <1>4

\* So the answer to a request for a used prefix always ends the listing.
LEMMA PrefixesAreRefused == ListTInv /\ PrefixArrives => RefusePage
BY PrefixesEndEveryAccount DEF PrefixArrives

-----------------------------------------------------------------------------
(* What a true request says of the accounts' lists *)

\* A part of a list that nothing outside precedes is its beginning.
LEMMA BeginningOf ==
  ASSUME NEW s \in Seq(RowType), NEW all \in Seq(RowType), Ordered(s), Ordered(all),
         ToSet(s) \subseteq ToSet(all),
         \A r \in ToSet(all) \ ToSet(s) : \A x \in ToSet(s) : Before(x, r)
  PROVE  \A i \in DOMAIN s : i \in DOMAIN all /\ all[i] = s[i]
<1>1. /\ DOMAIN s = 1..Len(s) /\ Len(s) \in Nat /\ \A i \in DOMAIN s : s[i] \in RowType
      /\ DOMAIN all = 1..Len(all) /\ Len(all) \in Nat /\ \A i \in DOMAIN all : all[i] \in RowType
  BY LenProperties
<1> SUFFICES ASSUME NEW i \in DOMAIN s PROVE i \in DOMAIN all /\ all[i] = s[i]
  OBVIOUS
<1> DEFINE D == {s[j] : j \in 1..i}
<1>2. D \subseteq ToSet(s) /\ D \subseteq ToSet(all)
  <2>1. D \subseteq ToSet(s)
    BY <1>1 DEF ToSet
  <2> QED
    BY <2>1
<1>3. \A j \in DOMAIN s : s[j] \in D <=> j <= i
  <2> SUFFICES ASSUME NEW j \in DOMAIN s PROVE s[j] \in D <=> j <= i
    OBVIOUS
  <2>1. j <= i => s[j] \in D
    BY <1>1
  <2>2. ASSUME NEW k \in 1..i, s[j] = s[k] PROVE j <= i
    BY <2>2, BeforeIsOrder DEF Ordered
  <2> QED
    BY <2>1, <2>2
<1>4. \A r \in D : \A x \in ToSet(s) : Before(x, r) => x \in D
  <2> SUFFICES ASSUME NEW k \in 1..i, NEW m \in DOMAIN s, Before(s[m], s[k]) PROVE s[m] \in D
    BY DEF ToSet
  <2>1. m <= k
    BY <1>1, BeforeIsOrder DEF Ordered
  <2> QED
    BY <1>1, <1>3, <2>1
<1> HIDE DEF D
<1>5. \A r \in D : \A x \in ToSet(all) : Before(x, r) => x \in D
  <2> SUFFICES ASSUME NEW r \in D, NEW x \in ToSet(all), Before(x, r) PROVE x \in D
    OBVIOUS
  <2>1. r \in RowType /\ x \in RowType
    BY <1>1, <1>2 DEF ToSet
  <2>2. x \in ToSet(s)
    BY <1>2, <2>1, BeforeIsOrder
  <2> QED
    BY <1>4, <2>2
<1>6. Cardinality(D) \in 0..Len(s) /\ \A j \in DOMAIN s : s[j] \in D <=> j <= Cardinality(D)
  BY <1>2, <1>4, LowerPart
<1>7. Cardinality(D) \in 0..Len(all) /\ \A j \in DOMAIN all : all[j] \in D <=> j <= Cardinality(D)
  BY <1>2, <1>5, LowerPart
<1>8. Cardinality(D) = i
  <2> DEFINE c == Cardinality(D)
  <2>1. i <= c
    BY <1>1, <1>3, <1>6
  <2>2. c <= i
    BY <1>1, <1>3, <1>6
  <2> QED
    BY <1>6, <2>1, <2>2
<1>9. i \in DOMAIN all /\ all[i] \in D
  BY <1>1, <1>7, <1>8
<1>10. PICK k \in DOMAIN all : all[k] = s[i] /\ k <= i
  BY <1>3, <1>7, <1>8 DEF ToSet
<1>11. PICK m \in 1..i : all[i] = s[m]
  BY <1>9 DEF D
<1>12. CASE k < i
  <2>1. Before(s[i], s[m])
    BY <1>9, <1>10, <1>11, <1>12 DEF Ordered
  <2>2. m < i => Before(s[m], s[i])
    BY <1>1 DEF Ordered
  <2> QED
    BY <2>1, <2>2, BeforeIsOrder
<1> QED
  BY <1>9, <1>10, <1>12

\* Between the position that was asked from and the one that is the result lie
\* the rows of the merged page.
LEMMA PositionSplits ==
  ASSUME ListTInv, Fetched, Split(Data) = {}, RequestIsTrue,
         NEW a \in Accounts, NEW r \in Listed(a)
  PROVE  /\ Beyond(start, r) <=> Beyond(Position(Data), r) \/ r \in ToSet(Data)
         /\ Beyond(Position(Data), r) => \A x \in ToSet(Data) : Before(x, r)
<1>1. ListTypeOK /\ RequestShape /\ pc = "asked"
  BY DEF ListTInv, Fetched
<1>2. r \in RowType /\ r.from = a
  BY <1>1, ListedRows
<1>3. /\ Data \in Seq(RowType) /\ ToSet(Data) \subseteq Offered /\ ToSet(Data) \subseteq RowType
      /\ \A i \in DOMAIN Data : Data[i].from \in OpenAccounts
      /\ \A x \in Offered \ ToSet(Data) : \A y \in ToSet(Data) : Before(y, x)
  BY <1>1, DataTakesFirst, SequenceIsFinite
<1>4. CASE a \notin OpenAccounts
  <2>1. start[a].done /\ Position(Data)[a] = start[a]
    BY <1>4 DEF OpenAccounts, Position
  <2>2. r \notin ToSet(Data)
    BY <1>2, <1>3, <1>4 DEF ToSet
  <2> QED
    BY <1>2, <2>1, <2>2 DEF Beyond
<1>5. CASE a \in OpenAccounts
  <2> DEFINE rows == page[a].rows
             n == TakenOf(Data, a)
             S == {x \in Listed(a) : Follows(start[a].at, x)}
  <2>1. /\ page[a] # Nothing /\ rows \in Seq(RowType) /\ page[a].more \in BOOLEAN
        /\ Ordered(rows) /\ Len(rows) <= limit /\ (page[a].more => Len(rows) = limit)
        /\ \A i \in DOMAIN rows : rows[i].from = a
    BY <1>1, <1>5 DEF ListTypeOK, RequestShape, Fetched, Pages
  <2>2. DOMAIN rows = 1..Len(rows) /\ Len(rows) \in Nat
    BY <2>1, LenProperties
  <2>3. /\ n \in 0..Len(rows)
        /\ \A i \in DOMAIN rows : rows[i] \in ToSet(Data) <=> i <= n
    BY <1>1, <1>5, DataTakesFirst
  <2>4. /\ ToSet(rows) \subseteq S
        /\ \A x \in S \ ToSet(rows) : \A y \in ToSet(rows) : Before(y, x)
        /\ ~page[a].more => S = ToSet(rows)
        /\ edge[a] # Nothing => edge[a] = rows[n] /\ n \in 1..(Len(rows) - 1)
    BY <1>1, <2>1 DEF RequestIsTrue, RequestShape
  <2>5. r \in ToSet(Data) => r \in ToSet(rows)
    <3> SUFFICES ASSUME r \in ToSet(Data) PROVE r \in ToSet(rows)
      OBVIOUS
    <3>1. PICK b \in OpenAccounts : r \in ToSet(page[b].rows)
      BY <1>3 DEF Offered
    <3>2. r.from = b
      BY <1>1, <3>1 DEF RequestShape, Fetched, OpenAccounts, ToSet
    <3> QED
      BY <1>2, <3>1, <3>2
  <2>6. Beyond(start, r) <=> r \in S
    BY <1>2, <1>5 DEF Beyond, OpenAccounts
  <2>7. ToSet(rows) \subseteq Offered
    BY <1>5 DEF Offered
  <2>8. Position(Data)[a] =
          IF rows = <<>> THEN [start[a] EXCEPT !.done = TRUE]
          ELSE IF n = 0 THEN start[a]
          ELSE IF edge[a] # Nothing THEN [at |-> edge[a], done |-> FALSE]
          ELSE [at |-> rows[n], done |-> ~page[a].more]
    BY <1>5 DEF Position
  <2>9. start[a] \in [at : RowType \cup {Nothing}, done : BOOLEAN] /\ ~start[a].done
    BY <1>1, <1>5 DEF ListTypeOK, Positions, OpenAccounts
  <2>10. \A x \in S : x \in RowType /\ Follows(start[a].at, x)
    BY <1>1, ListedRows
  <2>12. limit \in Nat \ {0}
    BY <1>1, ThreadListAssumption DEF ListTypeOK
  <2>13. r \in S <=> Follows(start[a].at, r)
    OBVIOUS
  <2>14. edge[a] = Nothing /\ n # 0 => n = Len(rows)
    <3>1. edge[a] = Nothing /\ 0 < n => ~(n < Len(rows))
      BY <1>5 DEF Split
    <3> HIDE DEF n
    <3> QED
      BY <2>2, <2>3, <3>1
  <2>15. ASSUME n = Len(rows), n = limit PROVE ToSet(Data) \subseteq ToSet(rows)
    <3> DEFINE I == {i \in DOMAIN Data : Data[i].from = a}
    <3>1. DOMAIN Data = 1..Len(Data) /\ Len(Data) \in 0..limit
      BY <1>1, DataTakesFirst, LenProperties
    <3>2. IsFiniteSet(DOMAIN Data) /\ Cardinality(DOMAIN Data) = Len(Data)
      <4>1. Len(Data) \in Nat
        BY <2>12, <3>1
      <4>2. \A k \in Nat : IsFiniteSet(1..k) /\ Cardinality(1..k) = k
        BY FS_Interval
      <4> QED
        BY <3>1, <4>1, <4>2
    <3>3. Cardinality(I) = limit
      BY <2>15 DEF TakenOf
    <3>4. I = DOMAIN Data
      <4>1. /\ Cardinality(I) <= Cardinality(DOMAIN Data)
            /\ Cardinality(I) = Cardinality(DOMAIN Data) => I = DOMAIN Data
        BY <3>2, FS_Subset
      <4> QED
        BY <2>12, <3>1, <3>2, <3>3, <4>1
    <3>5. \A x \in ToSet(Data) : x.from = a
      BY <3>4 DEF ToSet
    <3> SUFFICES ASSUME NEW x \in ToSet(Data) PROVE x \in ToSet(rows)
      OBVIOUS
    <3>6. PICK b \in OpenAccounts : x \in ToSet(page[b].rows)
      BY <1>3 DEF Offered
    <3>7. x.from = b
      BY <1>1, <3>6 DEF RequestShape, Fetched, OpenAccounts, ToSet
    <3> QED
      BY <3>5, <3>6, <3>7
  <2>16. \A i \in DOMAIN rows : rows[i] \in RowType /\ rows[i] \in ToSet(rows)
    BY <2>1, <2>2 DEF ToSet
  <2> DEFINE next == Position(Data)[a]
  <2>17. Beyond(Position(Data), r) <=> ~next.done /\ Follows(next.at, r)
    BY <1>2 DEF Beyond
  <2> HIDE DEF n, S, rows, next
  <2>20. CASE rows = <<>>
    <3>1. ~page[a].more /\ ToSet(rows) = {}
      BY <2>1, <2>12, <2>20 DEF ToSet
    <3>2. next.done
      BY <2>8, <2>20 DEF next
    <3> QED
      BY <2>4, <2>5, <2>6, <2>17, <3>1, <3>2
  <2>21. CASE rows # <<>> /\ n = 0
    <3>1. next = start[a]
      BY <2>8, <2>21 DEF next
    <3>2. 1 \in DOMAIN rows /\ \A i \in DOMAIN rows : rows[i] \notin ToSet(Data)
      BY <2>3, <2>21, EmptySeq
    <3>3. r \notin ToSet(Data)
      BY <2>5, <3>2 DEF ToSet
    <3>4. ASSUME r \in S, NEW x \in ToSet(Data) PROVE Before(x, r)
      <4>1. CASE r \in ToSet(rows)
        BY <1>3, <2>7, <3>3, <4>1
      <4>2. CASE r \notin ToSet(rows)
        <5>1. Before(rows[1], r) /\ rows[1] \in RowType
          BY <2>4, <2>16, <3>2, <3>4, <4>2
        <5>2. Before(x, rows[1])
          BY <1>3, <2>7, <2>16, <3>2
        <5> QED
          BY <1>2, <1>3, <5>1, <5>2, BeforeIsOrder
      <4> QED
        BY <4>1, <4>2
    <3> QED
      BY <2>6, <2>9, <2>13, <2>17, <3>1, <3>3, <3>4
  <2>22. CASE rows # <<>> /\ n # 0 /\ edge[a] # Nothing
    <3>1. next.at = rows[n] /\ ~next.done /\ n \in 1..(Len(rows) - 1)
      BY <2>4, <2>8, <2>22 DEF next
    <3>2. n \in DOMAIN rows /\ n + 1 \in DOMAIN rows /\ rows[n + 1] \notin ToSet(Data) /\ rows[n] \in RowType
      BY <2>3, <2>16, <3>1
    <3>3. Beyond(Position(Data), r) <=> Before(rows[n], r)
      BY <2>17, <3>1, <3>2, ThreadListAssumption DEF Follows, RowType
    <3>4. ASSUME Before(rows[n], r) PROVE r \in S /\ r \notin ToSet(Data)
      <4>1. rows[n] \in S
        BY <2>4, <2>16, <3>2
      <4>2. r \in S
        BY <1>1, <1>2, <2>10, <2>13, <3>4, <4>1, BeforeIsOrder DEF Follows, ListTypeOK, Positions
      <4>3. r \in ToSet(rows) => r \notin ToSet(Data)
        <5> SUFFICES ASSUME NEW i \in DOMAIN rows, r = rows[i] PROVE i > n
          BY <2>2, <2>3 DEF ToSet
        <5> QED
          BY <2>1, <3>2, <3>4, BeforeIsOrder DEF Ordered
      <4> QED
        BY <2>5, <4>2, <4>3
    <3>5. ASSUME r \in S, r \notin ToSet(Data) PROVE Before(rows[n], r) /\ \A x \in ToSet(Data) : Before(x, r)
      <4>1. CASE r \in ToSet(rows)
        <5>1. PICK i \in DOMAIN rows : r = rows[i]
          BY <4>1 DEF ToSet
        <5>2. i > n
          BY <2>3, <3>5, <5>1
        <5>3. Before(rows[n], rows[i])
          BY <2>1, <3>2, <5>2 DEF Ordered
        <5> QED
          BY <1>3, <2>7, <3>5, <4>1, <5>1, <5>3
      <4>2. CASE r \notin ToSet(rows)
        <5>1. Before(rows[n], r) /\ Before(rows[n + 1], r) /\ rows[n + 1] \in RowType
          BY <2>4, <2>16, <3>2, <3>5, <4>2
        <5>2. \A x \in ToSet(Data) : Before(x, rows[n + 1])
          BY <1>3, <2>7, <2>16, <3>2
        <5> QED
          BY <1>2, <1>3, <5>1, <5>2, BeforeIsOrder
      <4> QED
        BY <4>1, <4>2
    <3>6. r \in ToSet(Data) => r \in S
      BY <2>4, <2>5
    <3> QED
      BY <2>6, <3>3, <3>4, <3>5, <3>6
  <2>23. CASE rows # <<>> /\ n # 0 /\ edge[a] = Nothing
    <3>1. next.at = rows[n] /\ next.done = ~page[a].more /\ n = Len(rows)
      BY <2>8, <2>14, <2>23 DEF next
    <3>2. n \in DOMAIN rows /\ rows[n] \in RowType /\ rows[n] \in ToSet(rows)
      BY <2>16, <2>23, <3>1
    <3>3. r \in ToSet(Data) <=> r \in ToSet(rows)
      BY <2>3, <2>5, <3>1 DEF ToSet
    <3>4. CASE ~page[a].more
      BY <2>4, <2>6, <2>17, <3>1, <3>3, <3>4
    <3>5. CASE page[a].more
      <4>1. ToSet(Data) \subseteq ToSet(rows)
        BY <2>1, <2>15, <3>1, <3>5
      <4>2. Beyond(Position(Data), r) <=> Before(rows[n], r)
        BY <2>17, <3>1, <3>2, <3>5, ThreadListAssumption DEF Follows, RowType
      <4>3. ASSUME Before(rows[n], r) PROVE r \in S /\ r \notin ToSet(rows)
        <5>1. rows[n] \in S
          BY <2>4, <3>2
        <5>2. r \in S
          BY <1>1, <1>2, <2>10, <2>13, <4>3, <5>1, BeforeIsOrder DEF Follows, ListTypeOK, Positions
        <5>3. r \notin ToSet(rows)
          <6> SUFFICES ASSUME NEW i \in DOMAIN rows, r = rows[i] PROVE FALSE
            BY DEF ToSet
          <6> QED
            BY <2>1, <3>1, <4>3, BeforeIsOrder DEF Ordered
        <5> QED
          BY <5>2, <5>3
      <4>4. ASSUME r \in S, r \notin ToSet(rows) PROVE Before(rows[n], r) /\ \A x \in ToSet(Data) : Before(x, r)
        BY <2>4, <3>2, <4>1, <4>4
      <4>5. r \in ToSet(rows) => r \in S
        BY <2>4
      <4> QED
        BY <2>6, <3>3, <4>2, <4>3, <4>4, <4>5
    <3> QED
      BY <2>1, <3>4, <3>5
  <2> QED
    BY <2>20, <2>21, <2>22, <2>23
<1> QED
  BY <1>4, <1>5

-----------------------------------------------------------------------------
(* What is shown, and what is not yet *)

\* The rows that did not change, and those of them that are shown.
LEMMA FixedRows ==
  ASSUME ListTypeOK
  PROVE  /\ \A r \in Fixed : /\ r \in RowType /\ Kept(r) /\ r \in Listed(r.from)
                             /\ r.from \in Accounts \cup {0}
         /\ \A a \in Accounts \cup {0} : \A r \in Listed(a) : Kept(r) => r \in Fixed
         /\ Shown \subseteq RowType /\ \A r \in Shown : Kept(r)
<1>1. \A a : \A r \in Listed(a) : r \in RowType /\ r.from = a
  BY ListedRows
<1>2. ToSet(listing) \subseteq RowType /\ ToSet(out) \subseteq RowType
  BY SequenceIsFinite DEF ListTypeOK
<1> QED
  BY <1>1, <1>2 DEF Fixed, Shown

\* While no thread changes, the lists and what is said of a position stay.
LEMMA ThreadsStay ==
  ASSUME UNCHANGED <<query, world>>
  PROVE  /\ Fixed' = Fixed /\ \A r : Due(r)' <=> Due(r)
         /\ \A p, r : Follows(p, r)' <=> Follows(p, r)
         /\ \A p, r : Beyond(p, r)' <=> Beyond(p, r)
<1>1. /\ \A a : Listed(a)' = Listed(a)
      /\ \A r, s : Before(r, s)' <=> Before(r, s)
      /\ \A r : Kept(r)' <=> Kept(r)
  BY ListsStay
<1> QED
  BY <1>1 DEF Fixed, Follows, Beyond

\* A step that shows nothing.
LEMMA ShownStays ==
  ASSUME UNCHANGED <<query, world>>, Shown' = Shown
  PROVE  /\ \A r : AfterShown(r)' <=> AfterShown(r)
         /\ \A p : OfficialAt(p)' <=> OfficialAt(p)
         /\ OfficialOver' <=> OfficialOver
         /\ \A p : ExternalAt(p)' <=> ExternalAt(p)
         /\ ExternalOver' <=> ExternalOver
         /\ NoGap /\ pc' # "done" => NoGap'
<1>1. \A r, s : Before(r, s)' <=> Before(r, s)
  BY ListsStay
<1>2. /\ Fixed' = Fixed /\ \A r : Due(r)' <=> Due(r)
      /\ \A p, r : Follows(p, r)' <=> Follows(p, r)
      /\ \A p, r : Beyond(p, r)' <=> Beyond(p, r)
  BY ThreadsStay
<1>3. \A r : AfterShown(r)' <=> AfterShown(r)
  BY <1>1 DEF AfterShown
<1>4. \A p : OfficialAt(p)' <=> OfficialAt(p)
  BY <1>2, <1>3 DEF OfficialAt
<1>5. \A p : ExternalAt(p)' <=> ExternalAt(p)
  BY <1>2, <1>3 DEF ExternalAt
<1>6. NoGap /\ pc' # "done" => NoGap'
  BY <1>2, <1>3 DEF NoGap
<1> QED
  BY <1>2, <1>3, <1>4, <1>5, <1>6 DEF OfficialOver, ExternalOver

\* A step within a page that adds nothing to it.
LEMMA PageStays ==
  ASSUME UNCHANGED <<query, world, listing, out>>, Paging, Paging'
  PROVE  /\ Shown' = Shown /\ (ShownInOrder => ShownInOrder')
         /\ UNCHANGED <<cursor, ext, more, lastAnchor>> /\ PageFits => PageFits'
<1>1. /\ \A r, s : Before(r, s)' <=> Before(r, s)
      /\ \A s : Ordered(s)' <=> Ordered(s)
      /\ \A r : Kept(r)' <=> Kept(r)
  BY ListsStay
<1>2. Fixed' = Fixed /\ \A p, r : Follows(p, r)' <=> Follows(p, r)
  BY ThreadsStay
<1>3. Shown' = Shown
  BY <1>1 DEF Shown, ToSet
<1>4. ShownInOrder => ShownInOrder'
  BY <1>1 DEF ShownInOrder
<1>5. \A r : AfterShown(r)' <=> AfterShown(r)
  BY <1>3, ShownStays
<1>6. UNCHANGED <<cursor, ext, more, lastAnchor>> /\ PageFits => PageFits'
  <2> SUFFICES ASSUME UNCHANGED <<cursor, ext, more, lastAnchor>>, PageFits PROVE PageFits'
    OBVIOUS
  <2>1. limit' = limit
    BY DEF query
  <2> QED
    BY <1>1, <1>2, <1>3, <1>5, <2>1 DEF PageFits
<1> QED
  BY <1>3, <1>4, <1>6

\* When the official and the external side both go on where they should,
\* nothing is skipped.
LEMMA SidesLeaveNoGap ==
  ListTInv /\ OfficialSide /\ ExternalSide
    /\ (pc \in {"idle", "merging"} \/ (pc = "asked" /\ ~exact)) => NoGap
<1> SUFFICES ASSUME ListTInv, OfficialSide, ExternalSide,
                    pc \in {"idle", "merging"} \/ (pc = "asked" /\ ~exact),
                    NEW r \in Fixed, Due(r)
             PROVE  r \in Shown \/ AfterShown(r)
  BY DEF NoGap
<1>1. Kept(r)
  BY FixedRows DEF ListTInv
<1>2. CASE r.from = 0
  <2>1. CASE pc = "idle"
    BY <1>2, <2>1 DEF ExternalSide, ExternalAt
  <2>2. CASE pc # "idle"
    <3>1. PageFits
      BY <2>2 DEF ExternalSide, Paging
    <3> QED
      BY <1>1, <1>2, <3>1 DEF PageFits, ToSet
  <2> QED
    BY <2>1, <2>2
<1>3. CASE r.from # 0
  <2>1. CASE pc = "idle"
    BY <1>3, <2>1 DEF OfficialSide, OfficialAt, OfficialOver
  <2>2. CASE pc = "asked"
    BY <1>3, <2>2 DEF OfficialSide, OfficialAt
  <2>3. CASE pc = "merging"
    <3>1. CASE batch = Nothing
      BY <1>3, <2>3, <3>1 DEF OfficialSide, OfficialOver
    <3>2. CASE batch # Nothing
      <4>1. BatchFits
        BY <2>3 DEF OfficialSide
      <4> QED
        BY <1>1, <1>3, <3>2, <4>1 DEF BatchFits
    <3> QED
      BY <3>1, <3>2
  <2> QED
    BY <2>1, <2>2, <2>3
<1> QED
  BY <1>2, <1>3

\* The listing stops with a page under way.
LEMMA StoppingIsIntact ==
  ASSUME Intact, Paging, pc' \in {"refused", "failed"},
         UNCHANGED <<query, world, listing>>
  PROVE  Intact'
<1>1. /\ \A r, s : Before(r, s)' <=> Before(r, s)
      /\ \A r : Kept(r)' <=> Kept(r)
  BY ListsStay
<1>2. Fixed' = Fixed /\ \A r : Due(r)' <=> Due(r)
  BY ThreadsStay
<1>3. ~Paging' /\ pc' # "done" /\ pc' # "idle" /\ pc' # "asked" /\ pc' # "merging"
  BY DEF Paging
<1>4. ShownInOrder'
  BY <1>1, <1>3 DEF Intact, ShownInOrder
<1>5. Shown' = {r \in ToSet(listing) : Kept(r)}
  BY <1>1, <1>3 DEF Shown
<1>6. ASSUME NEW r \in Fixed, Due(r) PROVE r \in Shown' \/ \A s \in Shown' : Before(s, r)
  <2>1. CASE AfterShown(r)
    BY <1>5, <2>1 DEF AfterShown, Shown
  <2>2. CASE r \in Shown /\ r \notin Shown'
    <3>1. PICK j \in DOMAIN out : r = out[j] /\ Kept(out[j])
      BY <1>5, <2>2 DEF Shown, ToSet
    <3> QED
      BY <1>5, <3>1 DEF Intact, ShownInOrder, ToSet
  <2> QED
    BY <1>6, <2>1, <2>2 DEF Intact, NoGap
<1>7. NoGap'
  BY <1>1, <1>2, <1>6 DEF NoGap, AfterShown
<1> QED
  BY <1>3, <1>4, <1>7 DEF Intact, RequestIsTrue, OfficialSide, ExternalSide

\* The official source is asked where the cursor says.
LEMMA AskIsIntact ==
  ASSUME ListTInv, Intact, pc = "merging", NEW from, NEW forExact \in BOOLEAN, Ask(from, forExact),
         forExact \/ OfficialAt(from),
         UNCHANGED <<query, world, listing, cursor, ext, more, lastAnchor, out, batch, index>>
  PROVE  Intact'
<1>1. /\ pc' = "asked" /\ start' = from /\ exact' = forExact
      /\ \A a \in Accounts : page'[a] = Nothing /\ edge'[a] = Nothing
  BY DEF Ask
<1>2. Paging /\ Paging'
  BY <1>1 DEF Paging
<1>3. Shown' = Shown /\ ShownInOrder' /\ PageFits'
  BY <1>2, PageStays DEF Intact, ExternalSide
<1>4. NoGap' /\ \A p : OfficialAt(p)' <=> OfficialAt(p)
  BY <1>1, <1>3, ShownStays DEF Intact
<1>5. RequestIsTrue'
  BY <1>1 DEF RequestIsTrue
<1>6. OfficialSide'
  BY <1>1, <1>4 DEF OfficialSide
<1>7. ExternalSide'
  BY <1>1, <1>3 DEF ExternalSide
<1> QED
  BY <1>3, <1>4, <1>5, <1>6, <1>7 DEF Intact

LEMMA BeginPageIsIntact == ListTInv /\ Intact /\ BeginPage => Intact'
<1> SUFFICES ASSUME ListTInv, Intact, BeginPage PROVE Intact'
  OBVIOUS
<1> DEFINE rows == IF cursor.externalDone THEN <<>> ELSE ExternalRows
<1>1. /\ pc = "idle"
      /\ ext' = Take(rows, limit) /\ more' = (Len(rows) > limit) /\ lastAnchor' = cursor.anchor
      /\ out' = <<>> /\ batch' = Nothing
      /\ IF cursor.officialDone
           THEN pc' = "merging" /\ UNCHANGED request
           ELSE Ask(cursor.official, FALSE)
      /\ UNCHANGED <<query, world, listing, cursor>>
  BY DEF BeginPage
<1>2. /\ \A r, s : Before(r, s)' <=> Before(r, s)
      /\ \A s : Ordered(s)' <=> Ordered(s)
      /\ \A r : Kept(r)' <=> Kept(r)
  BY <1>1, ListsStay
<1>3. /\ Fixed' = Fixed /\ \A p, r : Follows(p, r)' <=> Follows(p, r)
  BY <1>1, ThreadsStay
<1>4. ~Paging /\ pc' # "idle" /\ pc' # "done" /\ (pc' = "merging" <=> cursor.officialDone)
      /\ (pc' = "asked" <=> ~cursor.officialDone)
  BY <1>1 DEF Paging, Ask
<1>5. Shown' = Shown
  BY <1>1, <1>2, <1>4 DEF Shown, ToSet
<1>6. ShownInOrder'
  <2> QED
    BY <1>1, <1>2 DEF Intact, ShownInOrder
<1>7. /\ NoGap' /\ (\A r : AfterShown(r)' <=> AfterShown(r))
      /\ (\A p : OfficialAt(p)' <=> OfficialAt(p)) /\ (OfficialOver' <=> OfficialOver)
  BY <1>1, <1>4, <1>5, ShownStays DEF Intact
<1>8. RequestIsTrue'
  BY <1>1 DEF RequestIsTrue, Ask
<1>9. OfficialSide'
  <2>1. CASE cursor.officialDone
    BY <1>1, <1>7, <2>1 DEF Intact, OfficialSide, BatchFits
  <2>2. CASE ~cursor.officialDone
    <3>1. start' = cursor.official /\ OfficialAt(cursor.official)
      BY <1>1, <2>2 DEF Ask, Intact, OfficialSide
    <3> QED
      BY <1>4, <1>7, <2>2, <3>1 DEF OfficialSide
  <2> QED
    BY <2>1, <2>2
<1>10. /\ ExternalAt(cursor.anchor) /\ (cursor.externalDone => ExternalOver)
       /\ \A r \in Fixed : r \in RowType /\ r \in Listed(r.from) /\ Kept(r)
       /\ \A r \in Listed(0) : r.from = 0 /\ r \in RowType /\ (Kept(r) => r \in Fixed)
  BY <1>1, FixedRows, ListedRows DEF Intact, ExternalSide, ListTInv
<1>11. /\ rows \in Seq(RowType) /\ Ordered(rows) /\ limit \in Nat
       /\ \A i \in DOMAIN rows : rows[i] \in Listed(0) /\ Follows(cursor.anchor, rows[i])
       /\ \A r \in Fixed : r.from = 0 /\ Follows(cursor.anchor, r) => r \in ToSet(rows)
  <2>1. limit \in Nat
    BY ThreadListAssumption DEF ListTInv, ListTypeOK
  <2>2. CASE cursor.externalDone
    <3>1. rows = <<>> /\ DOMAIN rows = {} /\ rows \in Seq(RowType)
      BY <2>2
    <3>2. ASSUME NEW r \in Fixed, r.from = 0, Follows(cursor.anchor, r) PROVE FALSE
      <4>1. AfterShown(r) /\ r \in Shown
        BY <1>10, <2>2, <3>2 DEF ExternalAt, ExternalOver
      <4> QED
        BY <1>10, <4>1, BeforeIsOrder DEF AfterShown
    <3> HIDE DEF rows
    <3>3. Ordered(rows)
      BY <3>1 DEF Ordered
    <3> QED
      BY <2>1, <3>1, <3>2, <3>3
  <2>3. CASE ~cursor.externalDone
    <3>1. rows = After(0, cursor.anchor)
      BY <2>3 DEF ExternalRows
    <3> HIDE DEF rows
    <3>2. /\ rows \in Seq(RowType) /\ Ordered(rows)
          /\ ToSet(rows) = {r \in Listed(0) : Follows(cursor.anchor, r)}
      BY <3>1, RowsAfter DEF ListTInv
    <3>3. \A i \in DOMAIN rows : rows[i] \in ToSet(rows)
      BY DEF ToSet
    <3> QED
      BY <1>10, <2>1, <3>2, <3>3
  <2> QED
    BY <2>2, <2>3
<1>12. /\ ext' \in Seq(RowType) /\ Ordered(ext') /\ Len(ext') \in Nat
       /\ (\A i \in DOMAIN ext' : i \in DOMAIN rows /\ ext'[i] = rows[i])
       /\ Len(ext') = (IF limit < Len(rows) THEN limit ELSE Len(rows))
       /\ \A r \in ToSet(rows) \ ToSet(ext') : \A x \in ToSet(ext') : Before(x, r)
  <2> HIDE DEF rows
  <2>1. /\ ext' \in Seq(RowType) /\ Ordered(ext') /\ Len(ext') \in Nat
        /\ \A i \in DOMAIN ext' : ext'[i] = rows[i]
        /\ Len(ext') = (IF limit < Len(rows) THEN limit ELSE Len(rows))
        /\ \A r \in ToSet(rows) \ ToSet(ext') : \A x \in ToSet(ext') : Before(x, r)
    BY <1>1, <1>11, TakeKeepsOrder
  <2>2. DOMAIN ext' = 1..Len(ext') /\ DOMAIN rows = 1..Len(rows) /\ Len(rows) \in Nat
    BY <1>11, <2>1, LenProperties
  <2> QED
    BY <1>11, <2>1, <2>2
<1>13. cursor.externalDone => ext' = <<>> /\ ~more'
  <2> SUFFICES ASSUME cursor.externalDone PROVE ext' = <<>> /\ ~more'
    OBVIOUS
  <2>1. Len(rows) = 0
    OBVIOUS
  <2> HIDE DEF rows
  <2>2. ~(Len(rows) > limit)
    BY <1>11, <2>1
  <2>3. Len(ext') = 0
    BY <1>11, <1>12, <2>1
  <2>4. ext' = <<>>
    BY <1>12, <2>3, EmptySeq
  <2> QED
    BY <1>1, <2>2, <2>4
<1> HIDE DEF rows
<1>14. ~more' => ToSet(rows) \subseteq ToSet(ext')
  <2> SUFFICES ASSUME ~(Len(rows) > limit), NEW i \in DOMAIN rows PROVE rows[i] \in ToSet(ext')
    BY <1>1 DEF ToSet
  <2>1. DOMAIN ext' = 1..Len(ext') /\ DOMAIN rows = 1..Len(rows) /\ Len(rows) \in Nat
    BY <1>11, <1>12, LenProperties
  <2>2. i \in DOMAIN ext'
    BY <1>11, <1>12, <2>1
  <2>3. ext'[i] = rows[i]
    BY <1>12, <2>2
  <2> QED
    BY <2>2, <2>3 DEF ToSet
<1>15. PageFits'
  <2>1. \A i \in DOMAIN ext' : /\ ext'[i].from = 0 /\ Follows(lastAnchor', ext'[i])
                               /\ Kept(ext'[i]) => AfterShown(ext'[i])
    <3> SUFFICES ASSUME NEW i \in DOMAIN ext'
                 PROVE  /\ ext'[i].from = 0 /\ Follows(lastAnchor', ext'[i])
                        /\ Kept(ext'[i]) => AfterShown(ext'[i])
      OBVIOUS
    <3>1. ext'[i] \in Listed(0) /\ Follows(cursor.anchor, ext'[i])
      BY <1>11, <1>12
    <3> QED
      BY <1>1, <1>10, <3>1 DEF ExternalAt
  <2>2. \A r \in Fixed : r.from = 0 =>
          IF ~Follows(lastAnchor', r) THEN r \in Shown
          ELSE \/ r \in ToSet(ext')
               \/ more' /\ AfterShown(r) /\ \A i \in DOMAIN ext' : Before(ext'[i], r)
    <3> SUFFICES ASSUME NEW r \in Fixed, r.from = 0
                 PROVE  IF ~Follows(lastAnchor', r) THEN r \in Shown
                        ELSE \/ r \in ToSet(ext')
                             \/ more' /\ AfterShown(r) /\ \A i \in DOMAIN ext' : Before(ext'[i], r)
      OBVIOUS
    <3>1. ~Follows(cursor.anchor, r) => r \in Shown
      BY <1>10 DEF ExternalAt
    <3>2. Follows(cursor.anchor, r) => r \in ToSet(rows) /\ AfterShown(r)
      BY <1>10, <1>11 DEF ExternalAt
    <3>3. r \in ToSet(rows) /\ r \notin ToSet(ext') => more' /\ \A i \in DOMAIN ext' : Before(ext'[i], r)
      BY <1>12, <1>14 DEF ToSet
    <3> QED
      BY <1>1, <3>1, <3>2, <3>3
  <2>3. more' => Len(out') + Len(ext') >= limit
    <3>1. Len(out') = 0
      BY <1>1
    <3>2. more' => limit < Len(rows)
      BY <1>1
    <3>3. limit < Len(rows) => Len(ext') = limit
      BY <1>12
    <3> QED
      BY <3>1, <3>2, <3>3
  <2>4. limit' = limit /\ cursor' = cursor
    BY <1>1 DEF query
  <2> QED
    BY <1>2, <1>3, <1>5, <1>7, <1>12, <1>13, <2>1, <2>2, <2>3, <2>4 DEF PageFits
<1>16. ExternalSide'
  BY <1>4, <1>15 DEF ExternalSide
<1> QED
  BY <1>6, <1>7, <1>8, <1>9, <1>16 DEF Intact

\* An account answers with its batch.
LEMMA AccountBatchIsIntact ==
  ASSUME ListTInv, Intact, NEW a \in Accounts, AccountBatch(a)
  PROVE  Intact'
<1> DEFINE all == After(a, start[a].at)
           rows == Take(all, limit)
<1>1. /\ pc = "asked" /\ a \in OpenAccounts /\ page[a] = Nothing
      /\ page' = [page EXCEPT ![a] = [rows |-> rows, more |-> Len(all) > limit]]
      /\ UNCHANGED <<query, world, pc, listing, cursor, ext, more, lastAnchor, out, batch, index, start, exact, edge>>
  BY DEF AccountBatch
<1>2. Paging /\ Paging'
  BY <1>1 DEF Paging
<1>3. Shown' = Shown /\ ShownInOrder' /\ PageFits'
  BY <1>1, <1>2, PageStays DEF Intact, ExternalSide
<1>4. NoGap' /\ \A p : OfficialAt(p)' <=> OfficialAt(p)
  BY <1>1, <1>3, ShownStays DEF Intact
<1>5. OfficialSide' /\ ExternalSide'
  BY <1>1, <1>3, <1>4 DEF Intact, OfficialSide, ExternalSide
<1>6. \A b \in Accounts : edge'[b] = Nothing
  BY <1>1 DEF ListTInv, RequestShape, Fetched
<1>7. /\ all \in Seq(RowType) /\ Ordered(all)
      /\ ToSet(all) = {r \in Listed(a) : Follows(start[a].at, r)}
  BY RowsAfter DEF ListTInv
<1>8. limit \in Nat
  BY ThreadListAssumption DEF ListTInv, ListTypeOK
<1> HIDE DEF all
<1>9. /\ rows \in Seq(RowType) /\ Len(rows) = (IF limit < Len(all) THEN limit ELSE Len(all))
      /\ \A i \in DOMAIN rows : rows[i] = all[i]
      /\ ToSet(rows) \subseteq ToSet(all)
      /\ \A r \in ToSet(all) \ ToSet(rows) : \A x \in ToSet(rows) : Before(x, r)
  BY <1>7, <1>8, TakeKeepsOrder
<1> HIDE DEF rows
<1>11. /\ \A c : Listed(c)' = Listed(c)
       /\ \A r, s : Before(r, s)' <=> Before(r, s)
       /\ \A p, r : Follows(p, r)' <=> Follows(p, r)
  BY <1>1, ListsStay, ThreadsStay
<1>12. ASSUME NEW b \in Accounts, page'[b] # Nothing
       PROVE  LET S == {r \in Listed(b) : Follows(start[b].at, r)} IN
              /\ ToSet(page'[b].rows) \subseteq S
              /\ \A r \in S \ ToSet(page'[b].rows) : \A s \in ToSet(page'[b].rows) : Before(s, r)
              /\ ~page'[b].more => S = ToSet(page'[b].rows)
  <2>1. CASE b = a
    <3>1. page'[b].rows = rows /\ (page'[b].more <=> Len(all) > limit)
      BY <1>1, <2>1 DEF ListTInv, ListTypeOK
    <3> QED
      BY <1>7, <1>9, <2>1, <3>1
  <2>2. CASE b # a
    <3>1. page'[b] = page[b]
      BY <1>1, <2>2 DEF ListTypeOK
    <3> QED
      BY <1>1, <1>12, <3>1 DEF Intact, RequestIsTrue
  <2> QED
    BY <2>1, <2>2
<1>13. RequestIsTrue'
  BY <1>1, <1>6, <1>11, <1>12 DEF RequestIsTrue
<1> QED
  BY <1>3, <1>4, <1>5, <1>13 DEF Intact

\* An account answers with the prefix that was used.
LEMMA AccountPrefixIsIntact ==
  ASSUME ListTInv, Intact, NEW a \in Accounts, AccountPrefix(a)
  PROVE  Intact'
<1>1. pc = "asked" /\ Paging
  BY DEF AccountPrefix, Fetched, Paging
<1>2. CASE RefusePage
  BY <1>1, <1>2, StoppingIsIntact DEF RefusePage
<1>3. CASE ~RefusePage
  <2> DEFINE all == After(a, start[a].at)
             rows == page[a].rows
             n == TakenOf(Data, a)
  <2>1. /\ Fetched /\ a \in Split(Data) /\ ~(Len(all) <= n)
        /\ edge' = [edge EXCEPT ![a] = all[n]]
        /\ UNCHANGED <<query, world, pc, listing, cursor, ext, more, lastAnchor, out, batch, index, start, exact, page>>
    BY <1>3 DEF AccountPrefix
  <2>2. Paging'
    BY <1>1, <2>1 DEF Paging
  <2>3. Shown' = Shown /\ ShownInOrder' /\ PageFits'
    BY <1>1, <2>1, <2>2, PageStays DEF Intact, ExternalSide
  <2>4. NoGap' /\ \A p : OfficialAt(p)' <=> OfficialAt(p)
    BY <1>1, <2>1, <2>3, ShownStays DEF Intact
  <2>5. OfficialSide' /\ ExternalSide'
    BY <1>1, <2>1, <2>3, <2>4 DEF Intact, OfficialSide, ExternalSide
  <2>6. /\ a \in OpenAccounts /\ 0 < n /\ n < Len(rows) /\ n \in 0..Len(rows)
    BY <2>1, DataTakesFirst DEF Split, ListTInv
  <2>7. /\ page[a] # Nothing /\ rows \in Seq(RowType) /\ Ordered(rows)
    BY <2>1, <2>6 DEF ListTInv, ListTypeOK, RequestShape, Fetched, Pages
  <2>8. /\ all \in Seq(RowType) /\ Ordered(all)
        /\ ToSet(all) = {r \in Listed(a) : Follows(start[a].at, r)}
    BY RowsAfter DEF ListTInv
  <2>9. /\ ToSet(rows) \subseteq ToSet(all)
        /\ \A r \in ToSet(all) \ ToSet(rows) : \A x \in ToSet(rows) : Before(x, r)
    BY <1>1, <2>7, <2>8 DEF Intact, RequestIsTrue
  <2> HIDE DEF all, rows, n
  <2>10. n \in DOMAIN rows
    BY <2>6, <2>7, LenProperties
  <2>11. all[n] = rows[n]
    BY <2>7, <2>8, <2>9, <2>10, BeginningOf
  <2>12. \A b \in Accounts : edge'[b] # Nothing => edge'[b] = page[b].rows[TakenOf(Data, b)]
    BY <1>1, <2>1, <2>11 DEF Intact, RequestIsTrue, rows, n
  <2>13. /\ \A c : Listed(c)' = Listed(c)
         /\ \A r, s : Before(r, s)' <=> Before(r, s)
         /\ \A p, r : Follows(p, r)' <=> Follows(p, r)
         /\ Data' = Data /\ \A s, b : TakenOf(s, b)' = TakenOf(s, b)
    BY <2>1, ListsStay, ThreadsStay, RequestsStay
  <2>14. \A b \in Accounts : page[b] # Nothing =>
           LET S == {r \in Listed(b) : Follows(start[b].at, r)} IN
           /\ ToSet(page[b].rows) \subseteq S
           /\ \A r \in S \ ToSet(page[b].rows) : \A s \in ToSet(page[b].rows) : Before(s, r)
           /\ ~page[b].more => S = ToSet(page[b].rows)
    BY <1>1 DEF Intact, RequestIsTrue
  <2>15. RequestIsTrue'
    <3>1. \A b \in Accounts : (edge[b] # Nothing => edge[b] = page[b].rows[TakenOf(Data, b)])'
      BY <2>1, <2>12, <2>13
    <3>2. \A b \in Accounts :
            (page[b] # Nothing =>
               LET S == {r \in Listed(b) : Follows(start[b].at, r)} IN
               /\ ToSet(page[b].rows) \subseteq S
               /\ \A r \in S \ ToSet(page[b].rows) : \A s \in ToSet(page[b].rows) : Before(s, r)
               /\ ~page[b].more => S = ToSet(page[b].rows))'
      BY <2>1, <2>13, <2>14
    <3> QED
      BY <3>1, <3>2 DEF RequestIsTrue
  <2> QED
    BY <2>3, <2>4, <2>5, <2>15 DEF Intact
<1> QED
  BY <1>2, <1>3

LEMMA BatchArrivesIsIntact == ListTInv /\ Intact /\ BatchArrives => Intact'
<1> SUFFICES ASSUME ListTInv, Intact, BatchArrives PROVE Intact'
  OBVIOUS
<1> DEFINE data == Data
           next == Position(Data)
<1>1. /\ pc = "asked" /\ Fetched /\ ~exact /\ Split(Data) = {} /\ pc' = "merging" /\ index' = 0
      /\ batch' = [rows |-> data, next |-> next]
      /\ UNCHANGED <<query, world, listing, cursor, ext, more, lastAnchor, out, request>>
  BY DEF BatchArrives, Fetched
<1>2. Paging /\ Paging'
  BY <1>1 DEF Paging
<1>3. Shown' = Shown /\ ShownInOrder' /\ PageFits'
  BY <1>1, <1>2, PageStays DEF Intact, ExternalSide
<1>4. NoGap' /\ \A r : AfterShown(r)' <=> AfterShown(r)
  BY <1>1, <1>3, ShownStays DEF Intact
<1>5. RequestIsTrue' /\ ExternalSide'
  BY <1>1, <1>3 DEF RequestIsTrue, ExternalSide
<1>6. OfficialAt(start) /\ start' = start
  BY <1>1 DEF Intact, OfficialSide, request
<1>7. /\ data \in Seq(RowType) /\ Ordered(data) /\ DOMAIN data = 1..Len(data) /\ Len(data) \in Nat
      /\ \A i \in DOMAIN data : data[i].from \in OpenAccounts
      /\ ToSet(data) \subseteq Offered
  BY <1>1, DataTakesFirst DEF ListTInv
<1>8. \A a \in Accounts : \A r \in Listed(a) :
        /\ Beyond(start, r) <=> Beyond(next, r) \/ r \in ToSet(data)
        /\ Beyond(next, r) => \A x \in ToSet(data) : Before(x, r)
  BY <1>1, PositionSplits DEF Intact
<1>9. \A r \in ToSet(data) : \E a \in Accounts : r \in Listed(a) /\ (Kept(r) => r \in Fixed) /\ r.from # 0
  <2> SUFFICES ASSUME NEW a \in OpenAccounts, NEW r \in ToSet(page[a].rows)
               PROVE  a \in Accounts /\ r \in Listed(a) /\ (Kept(r) => r \in Fixed) /\ r.from # 0
    BY <1>7 DEF Offered, OpenAccounts
  <2>1. a \in Accounts /\ page[a] # Nothing
    BY <1>1 DEF Fetched, OpenAccounts
  <2>2. r \in Listed(a)
    BY <1>1, <2>1 DEF Intact, RequestIsTrue
  <2>3. r.from = a /\ a # 0
    BY <2>1, <2>2, ThreadListAssumption DEF Listed
  <2> QED
    BY <2>1, <2>2, <2>3, FixedRows DEF ListTInv
<1>10. \A r \in Fixed : r.from # 0 => r.from \in Accounts /\ r \in Listed(r.from)
  BY FixedRows DEF ListTInv
<1> HIDE DEF data, next
<1>11. \A r \in Fixed : r.from # 0 =>
         /\ Beyond(start, r) <=> Beyond(next, r) \/ r \in ToSet(data)
         /\ Beyond(next, r) => AfterShown(r) /\ \A s \in ToSet(data) : Before(s, r)
         /\ Due(r) => \/ r \in Shown \/ Beyond(next, r)
                      \/ \E i \in 1..Len(data) : r = data[i]
  BY <1>6, <1>8, <1>10 DEF OfficialAt, ToSet
<1>12. \A i \in 1..Len(data) : Kept(data[i]) => AfterShown(data[i])
  <2> SUFFICES ASSUME NEW i \in 1..Len(data), Kept(data[i]) PROVE AfterShown(data[i])
    OBVIOUS
  <2>1. data[i] \in ToSet(data)
    BY <1>7 DEF ToSet
  <2>2. data[i] \in Fixed /\ data[i].from # 0
    BY <1>9, <2>1
  <2> QED
    BY <1>6, <1>11, <2>1, <2>2 DEF OfficialAt
<1>13. /\ Fixed' = Fixed /\ (\A r : Due(r)' <=> Due(r)) /\ (\A p, r : Beyond(p, r)' <=> Beyond(p, r))
       /\ (\A r, s : Before(r, s)' <=> Before(r, s)) /\ (\A r : Kept(r)' <=> Kept(r))
       /\ (\A s : Ordered(s)' <=> Ordered(s))
  BY <1>1, ListsStay, ThreadsStay
<1>14. BatchFits'
  <2>1. batch'.rows = data /\ batch'.next = next /\ index' + 1 = 1
    BY <1>1
  <2>2. \A r : Beyond(start, r)' <=> Beyond(start, r)
    BY <1>6, <1>13 DEF Beyond
  <2> QED
    BY <1>3, <1>4, <1>7, <1>11, <1>12, <1>13, <2>1, <2>2 DEF BatchFits
<1>15. OfficialSide'
  <2>1. batch' # Nothing
    <3>2. next \in Positions
      BY <1>1, PositionIsPosition DEF next, ListTInv
    <3>3. batch' \in [rows : Seq(RowType), next : Positions]
      BY <1>1, <1>7, <3>2
    <3> QED
      BY <3>3, ThreadListAssumption DEF Positions, RowType
  <2> QED
    BY <1>1, <1>14, <2>1 DEF OfficialSide
<1> QED
  BY <1>3, <1>4, <1>5, <1>15 DEF Intact

LEMMA NextBatchIsIntact == ListTInv /\ Intact /\ NextBatch => Intact'
<1> SUFFICES ASSUME ListTInv, Intact, NextBatch PROVE Intact'
  OBVIOUS
<1>1. /\ pc = "merging" /\ batch # Nothing /\ OfficialRow = Nothing /\ Ask(batch.next, FALSE)
      /\ UNCHANGED <<query, world, listing, cursor, ext, more, lastAnchor, out, batch, index>>
  BY DEF NextBatch, Filling
<1>2. index = Len(batch.rows) /\ Len(batch.rows) \in Nat
  BY <1>1, NextRows DEF ListTInv
<1>3. BatchFits
  BY <1>1 DEF Intact, OfficialSide
<1>4. (index + 1)..Len(batch.rows) = {}
  BY <1>2
<1>5. OfficialAt(batch.next)
  BY <1>1, <1>3, <1>4 DEF BatchFits, OfficialAt
<1> QED
  BY <1>1, <1>5, AskIsIntact

LEMMA PassOwnedIsIntact == ListTInv /\ Intact /\ PassOwned => Intact'
<1> SUFFICES ASSUME ListTInv, Intact, PassOwned PROVE Intact'
  OBVIOUS
<1>1. /\ pc = "merging" /\ pc' = pc /\ OfficialRow # Nothing /\ OfficialRow.id \in External /\ index' = index + 1
      /\ UNCHANGED <<query, world, listing, cursor, ext, more, lastAnchor, out, batch, request>>
  BY DEF PassOwned, Filling
<1>2. Paging /\ Paging'
  BY <1>1 DEF Paging
<1>3. Shown' = Shown /\ ShownInOrder' /\ PageFits'
  BY <1>1, <1>2, PageStays DEF Intact, ExternalSide
<1>4. NoGap' /\ \A r : AfterShown(r)' <=> AfterShown(r)
  BY <1>1, <1>3, ShownStays DEF Intact
<1>5. /\ batch # Nothing /\ index \in Nat /\ Len(batch.rows) \in Nat
      /\ OfficialRow = batch.rows[index + 1] /\ OfficialRow.from # 0
  BY <1>1, OfficialRowIs
<1>6. ~Due(batch.rows[index + 1])
  BY <1>1, <1>5 DEF Due
<1>7. \A i \in (index + 1)..Len(batch.rows) : i = index + 1 \/ i \in (index' + 1)..Len(batch.rows)
  BY <1>1, <1>5
<1>8. (index' + 1)..Len(batch.rows) \subseteq (index + 1)..Len(batch.rows)
  BY <1>1, <1>5
<1>9. /\ Fixed' = Fixed /\ (\A r : Due(r)' <=> Due(r)) /\ (\A p, r : Beyond(p, r)' <=> Beyond(p, r))
      /\ (\A r, s : Before(r, s)' <=> Before(r, s)) /\ (\A r : Kept(r)' <=> Kept(r))
      /\ (\A s : Ordered(s)' <=> Ordered(s))
  BY <1>1, ListsStay, ThreadsStay
<1>10. BatchFits
  BY <1>1 DEF Intact, OfficialSide
<1>11. BatchFits'
  <2>1. start' = start /\ batch' = batch
    BY <1>1 DEF request
  <2>2. \A r \in Fixed : r.from # 0 /\ Due(r) =>
          r \in Shown \/ Beyond(batch.next, r) \/ \E i \in (index' + 1)..Len(batch.rows) : r = batch.rows[i]
    BY <1>5, <1>6, <1>7, <1>10 DEF BatchFits
  <2>5. \A i \in (index' + 1)..Len(batch.rows) : Kept(batch.rows[i]) => AfterShown(batch.rows[i])
    BY <1>5, <1>8, <1>10 DEF BatchFits
  <2>6. \A i \in (index' + 1)..Len(batch.rows) : (Kept(batch.rows[i]) => AfterShown(batch.rows[i]))'
    BY <1>4, <1>9, <2>1, <2>5
  <2> QED
    BY <1>3, <1>4, <1>9, <1>10, <2>1, <2>2, <2>6 DEF BatchFits
<1>12. OfficialSide' /\ ExternalSide' /\ RequestIsTrue'
  BY <1>1, <1>3, <1>5, <1>11 DEF OfficialSide, ExternalSide, RequestIsTrue
<1> QED
  BY <1>3, <1>4, <1>12 DEF Intact

\* A row joins the page: what that takes, and what it means for the rest.
LEMMA ShowingARow ==
  ASSUME ListTInv, Intact, pc = "merging", Filling, NEW e \in RowType, Kept(e) => AfterShown(e),
         out' = Append(out, e), UNCHANGED <<query, world, pc, listing>>
  PROVE  /\ ShownInOrder' /\ Shown \subseteq Shown' /\ (Kept(e) => e \in Shown')
         /\ \A r : AfterShown(r) /\ (Kept(e) => Before(e, r)) =>
              AfterShown(r)' /\ \A s \in Shown' : Before(s, r)
         /\ Paging'
<1>1. /\ (\A r, s : Before(r, s)' <=> Before(r, s)) /\ (\A r : Kept(r)' <=> Kept(r))
  BY ListsStay
<1>2. Paging /\ Paging'
  BY DEF Paging
<1>3. /\ DOMAIN out = 1..Len(out) /\ Len(out) \in Nat /\ DOMAIN out' = 1..(Len(out) + 1)
      /\ \A i \in 1..Len(out) : out'[i] = out[i]
      /\ out'[Len(out) + 1] = e
  BY OneMoreRow DEF ListTInv
<1>4. \A j \in DOMAIN out' : j = Len(out) + 1 \/ j \in DOMAIN out
  BY <1>3
<1>5. /\ \A i \in DOMAIN listing : Kept(listing[i]) => listing[i] \in Shown
      /\ \A i \in DOMAIN out : Kept(out[i]) => out[i] \in Shown
  BY <1>2 DEF Shown, ToSet
<1>6. ShownInOrder'
  <2>1. ASSUME NEW i \in DOMAIN out', NEW j \in DOMAIN out', i < j, Kept(out'[i]), Kept(out'[j])
        PROVE  Before(out'[i], out'[j])
    <3>2. CASE j = Len(out) + 1
      BY <1>5, <2>1, <3>2 DEF AfterShown
    <3>3. CASE j \in DOMAIN out
      BY <1>2, <2>1, <3>3 DEF Intact, ShownInOrder
    <3> QED
      BY <1>4, <3>2, <3>3
  <2>2. ASSUME NEW i \in DOMAIN listing, NEW j \in DOMAIN out', Kept(listing[i]), Kept(out'[j])
        PROVE  Before(listing[i], out'[j])
    <3>1. CASE j = Len(out) + 1
      BY <1>5, <2>2, <3>1 DEF AfterShown
    <3>2. CASE j \in DOMAIN out
      BY <1>2, <2>2, <3>2 DEF Intact, ShownInOrder
    <3> QED
      BY <1>4, <3>1, <3>2
  <2> QED
    BY <1>1, <2>1, <2>2 DEF Intact, ShownInOrder
<1>7. ToSet(out') = ToSet(out) \cup {e}
  BY <1>3, <1>4 DEF ToSet
<1>8. Shown' = Shown \cup {r \in {e} : Kept(r)}
  <2>1. Shown = {r \in ToSet(listing) \cup ToSet(out) : Kept(r)}
    BY <1>2 DEF Shown
  <2>2. Shown' = {r \in ToSet(listing) \cup ToSet(out') : Kept(r)}
    BY <1>1, <1>2 DEF Shown
  <2> QED
    BY <1>7, <2>1, <2>2
<1>9. \A r : AfterShown(r) /\ (Kept(e) => Before(e, r)) =>
        AfterShown(r)' /\ \A s \in Shown' : Before(s, r)
  BY <1>1, <1>8 DEF AfterShown
<1> QED
  BY <1>2, <1>6, <1>8, <1>9

LEMMA EmitExternalIsIntact == ListTInv /\ Intact /\ EmitExternal => Intact'
<1> SUFFICES ASSUME ListTInv, Intact, EmitExternal PROVE Intact'
  OBVIOUS
<1> DEFINE e == ExternalRow
<1>1. /\ pc = "merging" /\ Filling /\ OfficialKnown /\ e # Nothing
      /\ OfficialRow # Nothing => Before(e, OfficialRow)
      /\ out' = Append(out, e) /\ ext' = Tail(ext) /\ lastAnchor' = e
      /\ UNCHANGED <<query, world, pc, listing, cursor, more, batch, index, request>>
  BY DEF EmitExternal, Filling
<1>2. /\ e = ext[1] /\ 1 \in DOMAIN ext /\ e \in RowType /\ ext # <<>>
      /\ DOMAIN ext = 1..Len(ext) /\ Len(ext) \in Nat
      /\ Len(ext') = Len(ext) - 1 /\ DOMAIN ext' = 1..(Len(ext) - 1)
      /\ \A i \in 1..(Len(ext) - 1) : ext'[i] = ext[i + 1]
  BY <1>1, ExternalRowIs
<1> HIDE DEF e
<1>3. PageFits /\ Paging
  BY <1>1 DEF Intact, ExternalSide, Paging
<1>4. Kept(e) => AfterShown(e)
  BY <1>2, <1>3 DEF PageFits
<1>5. /\ ShownInOrder' /\ Shown \subseteq Shown' /\ (Kept(e) => e \in Shown')
      /\ \A r : AfterShown(r) /\ (Kept(e) => Before(e, r)) =>
           AfterShown(r)' /\ \A s \in Shown' : Before(s, r)
      /\ Paging'
  BY <1>1, <1>2, <1>4, ShowingARow
<1>6. /\ Fixed' = Fixed /\ (\A r : Due(r)' <=> Due(r)) /\ (\A p, r : Beyond(p, r)' <=> Beyond(p, r))
      /\ (\A r, s : Before(r, s)' <=> Before(r, s)) /\ (\A r : Kept(r)' <=> Kept(r))
      /\ (\A s : Ordered(s)' <=> Ordered(s)) /\ (\A p, r : Follows(p, r)' <=> Follows(p, r))
  BY <1>1, ListsStay, ThreadsStay
<1>7. /\ \A r \in Fixed : r \in RowType /\ Kept(r)
      /\ \A i \in DOMAIN ext : ext[i] \in RowType
      /\ \A i \in DOMAIN ext : i > 1 => Before(e, ext[i])
  <2>1. \A r \in Fixed : r \in RowType /\ Kept(r)
    BY FixedRows DEF ListTInv
  <2>2. ext \in Seq(RowType)
    BY DEF ListTInv, ListTypeOK
  <2>3. \A i \in DOMAIN ext : ext[i] \in RowType
    BY <1>2, <2>2
  <2> QED
    BY <1>2, <1>3, <2>1, <2>3 DEF PageFits, Ordered
<1>8. batch # Nothing => BatchFits'
  <2> SUFFICES ASSUME batch # Nothing PROVE BatchFits'
    OBVIOUS
  <2>1. BatchFits
    BY <1>1 DEF Intact, OfficialSide
  <2>2. /\ batch.rows \in Seq(RowType) /\ DOMAIN batch.rows = 1..Len(batch.rows) /\ Len(batch.rows) \in Nat
        /\ index \in Nat
    BY LenProperties DEF ListTInv, ListTypeOK
  <2>3. \A i \in (index + 1)..Len(batch.rows) : batch.rows[i] \in RowType
    BY <2>2
  <2>4. \A i \in (index + 1)..Len(batch.rows) : Before(e, batch.rows[i])
    <3> SUFFICES ASSUME NEW i \in (index + 1)..Len(batch.rows) PROVE Before(e, batch.rows[i])
      OBVIOUS
    <3>1. OfficialRow # Nothing
      BY <1>1, NextRows DEF ListTInv
    <3>2. /\ OfficialRow = batch.rows[index + 1] /\ index + 1 \in DOMAIN batch.rows
          /\ OfficialRow \in RowType
      BY <1>1, <3>1, OfficialRowIs
    <3>3. i = index + 1 \/ Before(batch.rows[index + 1], batch.rows[i])
      BY <2>1, <3>2 DEF BatchFits, Ordered
    <3> QED
      BY <1>1, <1>2, <2>3, <3>1, <3>2, <3>3, BeforeIsOrder
  <2>5. \A r \in Fixed : r.from # 0 /\ Beyond(batch.next, r) => Before(e, r)
    <3> SUFFICES ASSUME NEW r \in Fixed, r.from # 0, Beyond(batch.next, r) PROVE Before(e, r)
      OBVIOUS
    <3>1. CASE OfficialRow = Nothing
      <4>1. Exhausted(batch.next)
        BY <1>1, <3>1 DEF OfficialKnown
      <4>2. r.from \in Accounts
        BY FixedRows DEF ListTInv
      <4> QED
        BY <4>1, <4>2 DEF Exhausted, Beyond
    <3>2. CASE OfficialRow # Nothing
      <4>1. /\ OfficialRow = batch.rows[index + 1] /\ index + 1 \in DOMAIN batch.rows
            /\ OfficialRow \in RowType
        BY <1>1, <3>2, OfficialRowIs
      <4>2. OfficialRow \in ToSet(batch.rows)
        BY <4>1 DEF ToSet
      <4>3. Before(OfficialRow, r)
        BY <2>1, <4>2 DEF BatchFits
      <4> QED
        BY <1>1, <1>2, <1>7, <3>2, <4>1, <4>3, BeforeIsOrder
    <3> QED
      BY <3>1, <3>2
  <2>6. start' = start /\ batch' = batch /\ index' = index
    BY <1>1 DEF request
  <2>9. \A i \in (index + 1)..Len(batch.rows) : (Kept(batch.rows[i]) => AfterShown(batch.rows[i]))'
    <3> SUFFICES ASSUME NEW i \in (index + 1)..Len(batch.rows), Kept(batch.rows[i])
                 PROVE  AfterShown(batch.rows[i])'
      BY <1>6, <2>6
    <3>1. AfterShown(batch.rows[i]) /\ Before(e, batch.rows[i])
      BY <2>1, <2>4 DEF BatchFits
    <3>2. \A r : r = batch.rows[i] => AfterShown(r)'
      BY <1>5, <3>1
    <3> QED
      BY <2>6, <3>2 DEF AfterShown
  <2>10. \A r \in Fixed : r.from # 0 => (Beyond(batch.next, r) => AfterShown(r)')
    BY <1>5, <2>1, <2>5 DEF BatchFits
  <2>11. \A r \in Fixed : r.from # 0 /\ Due(r) =>
           r \in Shown' \/ Beyond(batch.next, r) \/ \E i \in (index + 1)..Len(batch.rows) : r = batch.rows[i]
    BY <1>5, <2>1 DEF BatchFits
  <2> QED
    BY <1>6, <2>1, <2>6, <2>9, <2>10, <2>11 DEF BatchFits
<1>9. OfficialSide'
  <2>1. batch = Nothing => BatchFits' /\ OfficialOver'
    BY <1>1, <1>5, <1>6 DEF Intact, OfficialSide, OfficialOver, BatchFits
  <2> QED
    BY <1>1, <1>8, <2>1 DEF OfficialSide
<1>10. PageFits'
  <2>1. e # Nothing /\ \A r : Follows(e, r) <=> Before(e, r)
    BY <1>1 DEF Follows
  <2>2. \A i \in DOMAIN ext' : i \in Nat /\ i + 1 \in DOMAIN ext /\ i + 1 > 1 /\ ext'[i] = ext[i + 1]
    BY <1>2
  <2>3. Ordered(ext')
    <3> SUFFICES ASSUME NEW i \in DOMAIN ext', NEW j \in DOMAIN ext', i < j PROVE Before(ext'[i], ext'[j])
      BY DEF Ordered
    <3> QED
      BY <1>3, <2>2 DEF PageFits, Ordered
  <2>4. \A i \in DOMAIN ext' : /\ ext'[i].from = 0 /\ Follows(e, ext'[i])
                               /\ Kept(ext'[i]) => \A s \in Shown' : Before(s, ext'[i])
    <3> SUFFICES ASSUME NEW i \in DOMAIN ext'
                 PROVE  /\ ext'[i].from = 0 /\ Before(e, ext'[i])
                        /\ Kept(ext'[i]) => \A s \in Shown' : Before(s, ext'[i])
      BY <2>1
    <3>1. /\ ext'[i].from = 0 /\ Before(e, ext'[i]) /\ (Kept(ext'[i]) => AfterShown(ext'[i]))
      BY <1>3, <1>7, <2>2 DEF PageFits
    <3> QED
      BY <1>5, <3>1
  <2>5. \A r \in Fixed : r.from = 0 =>
          IF ~Before(e, r) THEN r \in Shown'
          ELSE \/ r \in ToSet(ext')
               \/ more /\ AfterShown(r)' /\ \A i \in DOMAIN ext' : Before(ext'[i], r)
    <3> SUFFICES ASSUME NEW r \in Fixed, r.from = 0
                 PROVE  IF ~Before(e, r) THEN r \in Shown'
                        ELSE \/ r \in ToSet(ext')
                             \/ more /\ AfterShown(r)' /\ \A i \in DOMAIN ext' : Before(ext'[i], r)
      OBVIOUS
    <3>1. Follows(lastAnchor, e)
      BY <1>2, <1>3 DEF PageFits
    <3>2. lastAnchor \in RowType \cup {Nothing} /\ r \in RowType /\ Kept(r)
      BY <1>7 DEF ListTInv, ListTypeOK
    <3>3. Before(e, r) => Follows(lastAnchor, r)
      BY <1>2, <3>1, <3>2, BeforeIsOrder DEF Follows
    <3>4. r \in ToSet(ext) => r = e \/ (Before(e, r) /\ r \in ToSet(ext'))
      <4> SUFFICES ASSUME NEW i \in DOMAIN ext, r = ext[i], i # 1 PROVE Before(e, r) /\ r \in ToSet(ext')
        BY <1>2 DEF ToSet
      <4>1. i - 1 \in DOMAIN ext' /\ i > 1 /\ (i - 1) + 1 = i
        BY <1>2
      <4> QED
        BY <1>2, <1>7, <4>1 DEF ToSet
    <3>5. /\ ~Follows(lastAnchor, r) => r \in Shown
          /\ Follows(lastAnchor, r) => \/ r \in ToSet(ext)
                                       \/ more /\ AfterShown(r) /\ \A i \in DOMAIN ext : Before(ext[i], r)
      BY <1>3 DEF PageFits
    <3>6. CASE ~Before(e, r)
      BY <1>2, <1>5, <3>2, <3>4, <3>5, <3>6
    <3>7. CASE Before(e, r)
      <4>1. r # e
        BY <1>2, <3>7, BeforeIsOrder
      <4>2. CASE r \in ToSet(ext)
        BY <3>4, <4>1, <4>2
      <4>3. CASE more /\ AfterShown(r) /\ \A i \in DOMAIN ext : Before(ext[i], r)
        BY <1>5, <2>2, <3>7, <4>3
      <4> QED
        BY <3>3, <3>5, <3>7, <4>2, <4>3
    <3> QED
      BY <3>6, <3>7
  <2>6. more => Len(out') + Len(ext') >= limit
    <3>1. Len(out') = Len(out) + 1 /\ Len(out) \in Nat
      BY <1>1, OneMoreRow DEF ListTInv
    <3>2. more => Len(out) + Len(ext) >= limit
      BY <1>3 DEF PageFits
    <3> QED
      BY <1>2, <3>1, <3>2
  <2>7. ~cursor.externalDone
    BY <1>2, <1>3 DEF PageFits
  <2>8. limit' = limit /\ cursor' = cursor /\ more' = more /\ lastAnchor' = e
    BY <1>1 DEF query
  <2>10. \A i \in DOMAIN ext' : /\ ext'[i].from = 0 /\ Follows(lastAnchor, ext[i])'
                                /\ (Kept(ext[i]) => AfterShown(ext[i]))'
    <3> SUFFICES ASSUME NEW i \in DOMAIN ext'
                 PROVE  /\ ext'[i].from = 0 /\ Follows(lastAnchor, ext[i])'
                        /\ (Kept(ext[i]) => AfterShown(ext[i]))'
      OBVIOUS
    <3>1. /\ ext'[i].from = 0 /\ Before(e, ext'[i])
          /\ Kept(ext'[i]) => \A s \in Shown' : Before(s, ext'[i])
      BY <2>1, <2>4
    <3>2. (Kept(ext[i])' <=> Kept(ext'[i])) /\ dir' = dir
      BY <1>1 DEF Kept, world, query
    <3>3. Follows(lastAnchor, ext[i])'
      BY <2>8, <3>1, <3>2 DEF Follows, Before
    <3>4. Kept(ext[i])' => AfterShown(ext[i])'
      BY <3>1, <3>2 DEF AfterShown, Before
    <3> QED
      BY <3>1, <3>3, <3>4
  <2> QED
    BY <1>6, <2>1, <2>3, <2>5, <2>6, <2>7, <2>8, <2>10 DEF PageFits
<1>11. ExternalSide' /\ RequestIsTrue'
  BY <1>1, <1>10 DEF ExternalSide, RequestIsTrue
<1>12. NoGap'
  <2>1. ListTInv'
    BY MergeKeepsTypes
  <2>2. pc' = "merging"
    BY <1>1
  <2>3. (ListTInv /\ OfficialSide /\ ExternalSide
          /\ (pc \in {"idle", "merging"} \/ (pc = "asked" /\ ~exact)) => NoGap)'
    BY SidesLeaveNoGap, PTL
  <2> QED
    BY <1>9, <1>11, <2>1, <2>2, <2>3
<1> QED
  BY <1>5, <1>9, <1>11, <1>12 DEF Intact

LEMMA EmitOfficialIsIntact == ListTInv /\ Intact /\ EmitOfficial => Intact'
<1> SUFFICES ASSUME ListTInv, Intact, EmitOfficial PROVE Intact'
  OBVIOUS
<1> DEFINE o == OfficialRow
           rows == batch.rows
<1>1. /\ pc = "merging" /\ Filling /\ o # Nothing
      /\ ExternalRow # Nothing => Before(o, ExternalRow)
      /\ out' = Append(out, o) /\ index' = index + 1
      /\ UNCHANGED <<query, world, pc, listing, cursor, ext, more, lastAnchor, batch, request>>
  BY DEF EmitOfficial, Filling
<1>2. /\ batch # Nothing /\ rows \in Seq(RowType)
      /\ index \in Nat /\ index + 1 \in DOMAIN rows
      /\ DOMAIN rows = 1..Len(rows) /\ Len(rows) \in Nat
      /\ o = rows[index + 1] /\ o \in RowType /\ o \in ToSet(rows)
  BY <1>1, OfficialRowIs DEF ToSet
<1> HIDE DEF o
<1>3. BatchFits /\ PageFits /\ Paging
  BY <1>1 DEF Intact, OfficialSide, ExternalSide, Paging
<1>5. Kept(o) => AfterShown(o)
  BY <1>2, <1>3 DEF BatchFits
<1>6. /\ ShownInOrder' /\ Shown \subseteq Shown' /\ (Kept(o) => o \in Shown')
      /\ \A r : AfterShown(r) /\ (Kept(o) => Before(o, r)) =>
           AfterShown(r)' /\ \A s \in Shown' : Before(s, r)
      /\ Paging'
  BY <1>1, <1>2, <1>5, ShowingARow
<1>7. /\ Fixed' = Fixed /\ (\A r : Due(r)' <=> Due(r)) /\ (\A p, r : Beyond(p, r)' <=> Beyond(p, r))
      /\ (\A r, s : Before(r, s)' <=> Before(r, s)) /\ (\A r : Kept(r)' <=> Kept(r))
      /\ (\A s : Ordered(s)' <=> Ordered(s)) /\ (\A p, r : Follows(p, r)' <=> Follows(p, r))
  BY <1>1, ListsStay, ThreadsStay
<1>8. \A r \in Fixed : r \in RowType /\ Kept(r)
  BY FixedRows DEF ListTInv
<1>9. BatchFits'
  <2>1. \A i \in (index' + 1)..Len(rows) : i \in (index + 1)..Len(rows) /\ i > index + 1 /\ i \in DOMAIN rows
    BY <1>1, <1>2
  <2>2. \A i \in (index + 1)..Len(rows) : i = index + 1 \/ i \in (index' + 1)..Len(rows)
    BY <1>1, <1>2
  <2>3. \A i \in (index' + 1)..Len(rows) : (Kept(batch.rows[i]) => AfterShown(batch.rows[i]))'
    <3> SUFFICES ASSUME NEW i \in (index' + 1)..Len(rows), Kept(rows[i])
                 PROVE  AfterShown(batch.rows[i])'
      BY <1>1, <1>7
    <3>1. AfterShown(rows[i]) /\ Before(o, rows[i])
      BY <1>2, <1>3, <2>1 DEF BatchFits, Ordered
    <3>2. \A r : r = rows[i] => AfterShown(r)'
      BY <1>6, <3>1
    <3> QED
      BY <1>1, <3>2 DEF AfterShown
  <2>4. \A r \in Fixed : r.from # 0 => (Beyond(batch.next, r) => AfterShown(r)')
    BY <1>2, <1>3, <1>6 DEF BatchFits
  <2>5. \A r \in Fixed : r.from # 0 /\ Due(r) =>
          r \in Shown' \/ Beyond(batch.next, r) \/ \E i \in (index' + 1)..Len(rows) : r = rows[i]
    BY <1>2, <1>3, <1>6, <1>8, <2>2 DEF BatchFits
  <2>6. start' = start /\ batch' = batch
    BY <1>1 DEF request
  <2> QED
    BY <1>3, <1>7, <2>3, <2>4, <2>5, <2>6 DEF BatchFits
<1>10. OfficialSide'
  BY <1>1, <1>2, <1>9 DEF OfficialSide
<1>11. ext \in Seq(RowType) /\ DOMAIN ext = 1..Len(ext) /\ Len(ext) \in Nat
  BY LenProperties DEF ListTInv, ListTypeOK
<1>12. \A i \in DOMAIN ext : Before(o, ext[i])
  <2> SUFFICES ASSUME NEW i \in DOMAIN ext PROVE Before(o, ext[i])
    OBVIOUS
  <2>1. ExternalRow # Nothing
    BY NextRows, EmptySeq DEF ListTInv
  <2>2. ExternalRow = ext[1] /\ 1 \in DOMAIN ext /\ ext[1] \in RowType /\ ext[i] \in RowType
    BY <1>11, <2>1, ExternalRowIs
  <2>3. i = 1 \/ Before(ext[1], ext[i])
    BY <1>3, <1>11 DEF PageFits, Ordered
  <2> QED
    BY <1>1, <1>2, <2>1, <2>2, <2>3, BeforeIsOrder
<1>13. PageFits'
  <2>1. Len(out') = Len(out) + 1 /\ Len(out) + 1 <= limit /\ Len(out) \in Nat /\ limit \in Nat
    BY <1>1, OneMoreRow, ThreadListAssumption DEF ListTInv, ListTypeOK
  <2>2. more => Len(out) + Len(ext) >= limit
    BY <1>3 DEF PageFits
  <2>3. more => Len(out') + Len(ext) >= limit
    BY <1>11, <2>1, <2>2
  <2>4. more => 1 \in DOMAIN ext
    BY <1>11, <2>1, <2>2
  <2>5. \A i \in DOMAIN ext : (Kept(ext[i]) => AfterShown(ext[i]))'
    <3> SUFFICES ASSUME NEW i \in DOMAIN ext, Kept(ext[i]) PROVE AfterShown(ext[i])'
      BY <1>1, <1>7
    <3>1. AfterShown(ext[i]) /\ Before(o, ext[i])
      BY <1>3, <1>12 DEF PageFits
    <3>2. \A r : r = ext[i] => AfterShown(r)'
      BY <1>6, <3>1
    <3> QED
      BY <1>1, <3>2 DEF AfterShown
  <2>6. \A r \in Fixed : r.from = 0 =>
          IF ~Follows(lastAnchor, r) THEN r \in Shown'
          ELSE \/ r \in ToSet(ext)
               \/ more /\ AfterShown(r)' /\ \A i \in DOMAIN ext : Before(ext[i], r)
    <3> SUFFICES ASSUME NEW r \in Fixed, r.from = 0, more, AfterShown(r),
                        \A i \in DOMAIN ext : Before(ext[i], r)
                 PROVE  AfterShown(r)'
      BY <1>3, <1>6 DEF PageFits
    <3>1. Before(o, ext[1]) /\ Before(ext[1], r) /\ ext[1] \in RowType
      BY <1>11, <1>12, <2>4
    <3>2. Before(o, r)
      BY <1>2, <1>8, <3>1, BeforeIsOrder
    <3> QED
      BY <1>6, <3>2
  <2>7. limit' = limit /\ cursor' = cursor /\ more' = more /\ lastAnchor' = lastAnchor /\ ext' = ext
    BY <1>1 DEF query
  <2> QED
    BY <1>3, <1>7, <2>3, <2>5, <2>6, <2>7 DEF PageFits
<1>14. ExternalSide' /\ RequestIsTrue'
  BY <1>1, <1>13 DEF ExternalSide, RequestIsTrue
<1>15. NoGap'
  <2>1. ListTInv'
    BY MergeKeepsTypes
  <2>2. pc' = "merging"
    BY <1>1
  <2>3. (ListTInv /\ OfficialSide /\ ExternalSide
          /\ (pc \in {"idle", "merging"} \/ (pc = "asked" /\ ~exact)) => NoGap)'
    BY SidesLeaveNoGap, PTL
  <2> QED
    BY <1>10, <1>14, <2>1, <2>2, <2>3
<1> QED
  BY <1>6, <1>10, <1>14, <1>15 DEF Intact

\* The page is handed out, and the official side goes on or is over.
LEMMA FinishIsIntact ==
  ASSUME ListTInv, Intact, pc = "merging", NEW official, NEW officialDone \in BOOLEAN,
         Finish(official, officialDone),
         IF officialDone THEN OfficialOver ELSE OfficialAt(official)
  PROVE  Intact'
<1> DEFINE over == ext = <<>> /\ ~more
<1>1. /\ listing' = listing \o out
      /\ cursor' = [official |-> official, officialDone |-> officialDone, anchor |-> lastAnchor,
                    externalDone |-> over]
      /\ pc' = IF officialDone /\ over THEN "done" ELSE "idle"
      /\ UNCHANGED <<query, world, ext, more, lastAnchor, out, batch, index, request>>
  BY DEF Finish
<1>2. Paging /\ ~Paging' /\ pc' # "asked" /\ pc' # "merging"
  BY <1>1 DEF Paging
<1>3. /\ (\A r, s : Before(r, s)' <=> Before(r, s)) /\ (\A r : Kept(r)' <=> Kept(r))
  BY <1>1, ListsStay
<1>4. Fixed' = Fixed /\ \A r : Due(r)' <=> Due(r)
  BY <1>1, ThreadsStay
<1>5. /\ Len(listing) \in Nat /\ Len(out) \in Nat
      /\ DOMAIN listing = 1..Len(listing) /\ DOMAIN out = 1..Len(out)
      /\ DOMAIN listing' = 1..(Len(listing) + Len(out))
      /\ \A i \in DOMAIN listing' :
           listing'[i] = IF i <= Len(listing) THEN listing[i] ELSE out[i - Len(listing)]
  BY <1>1, JoinedRows DEF ListTInv
<1>6. \A i \in DOMAIN listing' : IF i <= Len(listing) THEN i \in DOMAIN listing
                                 ELSE i - Len(listing) \in DOMAIN out
  BY <1>5
<1>7. Shown' = Shown
  <2>1. ToSet(listing') = ToSet(listing) \cup ToSet(out)
    <3>1. ToSet(listing') \subseteq ToSet(listing) \cup ToSet(out)
      BY <1>5, <1>6 DEF ToSet
    <3>2. ASSUME NEW i \in DOMAIN listing PROVE listing[i] \in ToSet(listing')
      <4>1. i \in DOMAIN listing' /\ i <= Len(listing)
        BY <1>5
      <4> QED
        BY <1>5, <4>1 DEF ToSet
    <3>3. ASSUME NEW i \in DOMAIN out PROVE out[i] \in ToSet(listing')
      <4>1. /\ Len(listing) + i \in DOMAIN listing' /\ ~(Len(listing) + i <= Len(listing))
            /\ (Len(listing) + i) - Len(listing) = i
        BY <1>5
      <4>2. listing'[Len(listing) + i] = out[i]
        BY <1>5, <4>1
      <4> QED
        BY <4>1, <4>2 DEF ToSet
    <3> QED
      BY <3>1, <3>2, <3>3 DEF ToSet
  <2>2. Shown = {r \in ToSet(listing) \cup ToSet(out) : Kept(r)}
    BY <1>2 DEF Shown
  <2>3. Shown' = {r \in ToSet(listing') : Kept(r)}
    BY <1>2, <1>3 DEF Shown
  <2> QED
    BY <2>1, <2>2, <2>3
<1>8. ShownInOrder'
  <2> SUFFICES ASSUME NEW i \in DOMAIN listing', NEW j \in DOMAIN listing', i < j,
                      Kept(listing'[i]), Kept(listing'[j])
               PROVE  Before(listing'[i], listing'[j])
    BY <1>2, <1>3 DEF ShownInOrder
  <2>1. CASE j <= Len(listing)
    <3>1. i <= Len(listing) /\ i \in DOMAIN listing /\ j \in DOMAIN listing
      BY <1>5, <1>6, <2>1
    <3>2. listing'[i] = listing[i] /\ listing'[j] = listing[j]
      BY <1>5, <2>1, <3>1
    <3> QED
      BY <3>1, <3>2 DEF Intact, ShownInOrder
  <2>2. CASE i <= Len(listing) /\ ~(j <= Len(listing))
    BY <1>2, <1>5 DEF Intact, ShownInOrder
  <2>3. CASE ~(i <= Len(listing))
    <3>1. ~(j <= Len(listing)) /\ i - Len(listing) < j - Len(listing)
      BY <1>5, <2>3
    <3>2. i - Len(listing) \in DOMAIN out /\ j - Len(listing) \in DOMAIN out
      BY <1>6, <2>3, <3>1
    <3>3. listing'[i] = out[i - Len(listing)] /\ listing'[j] = out[j - Len(listing)]
      BY <1>5, <2>3, <3>1
    <3> QED
      BY <1>2, <3>2, <3>3 DEF Intact, ShownInOrder
  <2> QED
    BY <2>1, <2>2, <2>3
<1>9. /\ \A r : AfterShown(r)' <=> AfterShown(r)
      /\ \A p : OfficialAt(p)' <=> OfficialAt(p)
      /\ OfficialOver' <=> OfficialOver
      /\ \A p : ExternalAt(p)' <=> ExternalAt(p)
      /\ ExternalOver' <=> ExternalOver
      /\ NoGap /\ pc' # "done" => NoGap'
  BY <1>1, <1>7, ShownStays
<1>10. PageFits
  BY <1>2 DEF Intact, ExternalSide
<1>11. ExternalAt(lastAnchor)
  BY <1>10, FixedRows DEF PageFits, ExternalAt, ListTInv, ToSet
<1>12. over => ExternalOver
  <2> SUFFICES ASSUME over PROVE ExternalOver
    OBVIOUS
  <2>1. ToSet(ext) = {} /\ ~more
    BY DEF ToSet
  <2> QED
    BY <1>10, <2>1 DEF PageFits, ExternalOver
<1>13. NoGap'
  <2>1. CASE pc' = "done"
    <3>1. OfficialOver /\ ExternalOver
      BY <1>1, <1>12, <2>1
    <3>2. \A r \in Fixed : Due(r) => r \in Shown
      BY <3>1 DEF OfficialOver, ExternalOver
    <3> QED
      BY <1>4, <1>7, <3>2 DEF NoGap
  <2>2. CASE pc' # "done"
    BY <1>9, <2>2 DEF Intact
  <2> QED
    BY <2>1, <2>2
<1>14. /\ cursor'.official = official /\ cursor'.anchor = lastAnchor
       /\ (cursor'.officialDone <=> officialDone) /\ (cursor'.externalDone <=> over)
  BY <1>1
<1> HIDE DEF over
<1>15. OfficialSide'
  BY <1>2, <1>9, <1>14 DEF OfficialSide
<1>16. ExternalSide'
  <2>1. ExternalAt(cursor.anchor)'
    BY <1>9, <1>11, <1>14
  <2> QED
    BY <1>2, <1>9, <1>12, <1>14, <2>1 DEF ExternalSide
<1>17. RequestIsTrue'
  BY <1>2 DEF RequestIsTrue
<1> QED
  BY <1>8, <1>13, <1>15, <1>16, <1>17 DEF Intact

LEMMA EndPageIsIntact == ListTInv /\ Intact /\ EndPage => Intact'
<1> SUFFICES ASSUME ListTInv, Intact, EndPage PROVE Intact'
  OBVIOUS
<1>1. pc = "merging" /\ OfficialSide
  BY DEF EndPage, Intact
<1>2. CASE batch = Nothing
  BY <1>1, <1>2, FinishIsIntact DEF EndPage, OfficialSide
<1>3. CASE batch # Nothing
  <2>1. BatchFits /\ index \in Nat /\ Len(batch.rows) \in Nat
    BY <1>1 DEF OfficialSide, ListTInv, ListTypeOK
  <2>2. /\ \A r \in Fixed : /\ Kept(r) /\ (r.from # 0 => r.from \in Accounts)
    BY FixedRows DEF ListTInv
  <2>3. CASE index = Len(batch.rows)
    <3>1. (index + 1)..Len(batch.rows) = {}
      BY <2>1, <2>3
    <3>2. OfficialAt(batch.next)
      BY <1>3, <2>1, <3>1 DEF BatchFits, OfficialAt
    <3>3. Exhausted(batch.next) => OfficialOver
      BY <2>2, <3>2 DEF OfficialAt, OfficialOver, Exhausted, Beyond
    <3>4. Finish(batch.next, Exhausted(batch.next)) /\ Exhausted(batch.next) \in BOOLEAN
      BY <1>3, <2>3 DEF EndPage, Exhausted
    <3> QED
      BY <1>1, <3>2, <3>3, <3>4, FinishIsIntact
  <2>4. CASE index # Len(batch.rows) /\ index = 0
    <3>1. \A r : r \in ToSet(batch.rows) <=> \E i \in (index + 1)..Len(batch.rows) : r = batch.rows[i]
      <4>1. DOMAIN batch.rows = (index + 1)..Len(batch.rows)
        BY <2>4 DEF ListTInv, ListTypeOK
      <4> QED
        BY <4>1 DEF ToSet
    <3>2. OfficialAt(start)
      BY <1>3, <2>1, <2>2, <3>1 DEF BatchFits, OfficialAt
    <3>3. Finish(start, FALSE)
      BY <1>3, <2>4 DEF EndPage
    <3> QED
      BY <1>1, <3>2, <3>3, FinishIsIntact
  <2>5. CASE index # Len(batch.rows) /\ index # 0
    <3>1. /\ Ask(start, TRUE)
          /\ UNCHANGED <<query, world, listing, cursor, ext, more, lastAnchor, out, batch, index>>
      BY <1>3, <2>5 DEF EndPage
    <3> QED
      BY <1>1, <3>1, AskIsIntact
  <2> QED
    BY <2>3, <2>4, <2>5
<1> QED
  BY <1>2, <1>3

LEMMA PrefixArrivesIsIntact == ListTInv /\ Intact /\ PrefixArrives => Intact'
<1> SUFFICES ASSUME ListTInv, Intact, PrefixArrives PROVE Intact'
  OBVIOUS
<1>1. RefusePage /\ Paging
  BY PrefixesAreRefused DEF PrefixArrives, Fetched, Paging
<1> QED
  BY <1>1, StoppingIsIntact DEF RefusePage

\* A thread that changes is no longer one of those that did not; the others
\* are as they were.
LEMMA ChangeIsIntact ==
  ASSUME ListTInv, Intact, NEW x \in Rows, Change(x), ~drift'
  PROVE  Intact'
<1>1. /\ pc \in {"idle", "asked"} /\ moved' = moved \cup {x}
      /\ ~(pc = "asked" /\ x[1] # 0 /\ page[x[1]] # Nothing)
      /\ UNCHANGED <<query, pc, listing, cursor, ext, more, lastAnchor, out, batch, index, request>>
  BY DEF Change
<1>2. PICK t \in {0, MaxTime} : time' = [time EXCEPT ![x] = t]
  BY DEF Change
<1>3. /\ dir' = dir /\ limit' = limit /\ home' = home /\ Rows' = Rows
      /\ start' = start /\ page' = page /\ edge' = edge /\ exact' = exact
      /\ listing' = listing /\ cursor' = cursor /\ ext' = ext /\ more' = more
      /\ lastAnchor' = lastAnchor /\ out' = out /\ pc' = pc
  BY <1>1 DEF query, request, Rows
<1>4. /\ (\A r, s : Before(r, s)' <=> Before(r, s)) /\ (\A s : Ordered(s)' <=> Ordered(s))
      /\ (\A r : Kept(r)' => Kept(r)) /\ (\A r : Due(r)' <=> Due(r))
      /\ (\A p, r : Follows(p, r)' <=> Follows(p, r)) /\ (\A p, r : Beyond(p, r)' <=> Beyond(p, r))
      /\ OpenAccounts' = OpenAccounts /\ Data' = Data /\ (\A s, a : TakenOf(s, a)' = TakenOf(s, a))
  BY <1>1, <1>3 DEF Before, Ordered, Kept, Follows, Beyond, OpenAccounts, Data, Sorted
<1>5. \A y \in Rows : y # x => Row(y)' = Row(y)
  BY <1>2 DEF Row, ListTypeOK
<1>6. \A a : Listed(a)' = {r \in {Row(y)' : y \in Rows} : r.from = a /\ r.time > 0}
  BY <1>3 DEF Listed
<1>7. ASSUME NEW a, x[1] # a PROVE Listed(a)' = Listed(a)
  <2>1. Row(x).from # a /\ Row(x)'.from # a
    BY <1>7 DEF Row
  <2> QED
    BY <1>5, <1>6, <2>1 DEF Listed
<1>8. Fixed' = {r \in Fixed : Kept(r)'}
  <2>1. ASSUME NEW a \in Accounts \cup {0}, NEW r, <<r.from, r.id>> \notin moved'
        PROVE  r \in Listed(a)' <=> r \in Listed(a)
    <3>1. <<r.from, r.id>> # x
      BY <1>1, <2>1
    <3>2. /\ Row(x).from = x[1] /\ Row(x).id = x[2] /\ Row(x)'.from = x[1] /\ Row(x)'.id = x[2]
          /\ x = <<x[1], x[2]>>
      BY DEF Row, Rows
    <3>3. r # Row(x) /\ r # Row(x)'
      BY <3>1, <3>2
    <3> QED
      BY <1>5, <1>6, <3>3 DEF Listed
  <2>2. \A r : Kept(r)' <=> <<r.from, r.id>> \notin moved'
    BY DEF Kept
  <2> QED
    BY <1>4, <2>1, <2>2 DEF Fixed
<1>9. Paging' <=> Paging
  BY <1>3 DEF Paging
<1>10. Shown' = {r \in Shown : Kept(r)'}
  BY <1>3, <1>4, <1>9 DEF Shown
<1>11. \A r : AfterShown(r) => AfterShown(r)'
  BY <1>4, <1>10 DEF AfterShown
<1>12. ShownInOrder'
  BY <1>3, <1>4, <1>9 DEF Intact, ShownInOrder
<1>13. NoGap'
  <2>1. pc' # "done"
    BY <1>1, <1>3
  <2>2. \A r \in Fixed' : r \in Fixed /\ Kept(r)'
    BY <1>8
  <2> QED
    BY <1>10, <1>11, <2>1, <2>2 DEF Intact, NoGap
<1>14. RequestIsTrue'
  <2> SUFFICES ASSUME pc = "asked" PROVE RequestIsTrue'
    BY <1>3 DEF RequestIsTrue
  <2>1. \A b \in Accounts : page[b] # Nothing => Listed(b)' = Listed(b)
    <3> SUFFICES ASSUME NEW b \in Accounts, page[b] # Nothing PROVE x[1] # b
      BY <1>7
    <3> QED
      BY <1>1, ThreadListAssumption
  <2>2. \A b \in Accounts :
          (page[b] # Nothing =>
             LET S == {r \in Listed(b) : Follows(start[b].at, r)} IN
             /\ ToSet(page[b].rows) \subseteq S
             /\ \A r \in S \ ToSet(page[b].rows) : \A s \in ToSet(page[b].rows) : Before(s, r)
             /\ ~page[b].more => S = ToSet(page[b].rows))'
    BY <1>3, <1>4, <2>1 DEF Intact, RequestIsTrue
  <2>3. \A b \in Accounts : (edge[b] # Nothing => edge[b] = page[b].rows[TakenOf(Data, b)])'
    BY <1>3, <1>4 DEF Intact, RequestIsTrue
  <2> QED
    BY <2>2, <2>3 DEF RequestIsTrue
<1>15. OfficialSide'
  <2>1. ASSUME NEW p, OfficialAt(p) PROVE OfficialAt(p)'
    BY <1>4, <1>8, <1>10, <1>11, <2>1 DEF OfficialAt
  <2>2. OfficialOver => OfficialOver'
    BY <1>8, <1>10 DEF OfficialOver
  <2>3. OfficialAt(cursor.official) => OfficialAt(cursor.official)'
    BY <1>3, <2>1 DEF Beyond
  <2>4. OfficialAt(start) => OfficialAt(start)'
    BY <1>3, <2>1 DEF Beyond
  <2> QED
    BY <1>1, <1>3, <2>2, <2>3, <2>4 DEF Intact, OfficialSide
<1>16. ExternalSide'
  <2>1. ExternalAt(cursor.anchor) => ExternalAt(cursor.anchor)'
    <3>1. \A r : Follows(cursor.anchor, r)' <=> Follows(cursor.anchor, r)
      BY <1>3, <1>4 DEF Follows
    <3> QED
      BY <1>8, <1>10, <1>11, <3>1 DEF ExternalAt
  <2>2. ExternalOver => ExternalOver'
    BY <1>8, <1>10 DEF ExternalOver
  <2>3. PageFits => PageFits'
    <3> QED
      BY <1>3, <1>4, <1>8, <1>10, <1>11 DEF PageFits
  <2> QED
    BY <1>3, <1>9, <2>1, <2>2, <2>3 DEF Intact, ExternalSide
<1> QED
  BY <1>12, <1>13, <1>14, <1>15, <1>16 DEF Intact

LEMMA InitIsIntact == ListInit => Intact
<1> SUFFICES ASSUME ListInit PROVE Intact
  OBVIOUS
<1>1. pc = "idle" /\ ~Paging /\ DOMAIN listing = {} /\ Shown = {}
  BY DEF ListInit, Paging, Shown, ToSet
<1>2. \A r : AfterShown(r)
  BY <1>1 DEF AfterShown
<1>3. /\ cursor.official = Origin /\ cursor.officialDone = FALSE
      /\ cursor.anchor = Nothing /\ cursor.externalDone = FALSE
  BY DEF ListInit
<1>4. \A r \in Fixed : r.from # 0 => Beyond(Origin, r)
  <2>1. \A r \in Fixed : r.from # 0 => r.from \in Accounts
    BY InitIsTyped, FixedRows DEF ListTInv
  <2> QED
    BY <2>1 DEF Beyond, Origin, Follows
<1>5. OfficialSide /\ ExternalSide
  BY <1>1, <1>2, <1>3, <1>4 DEF OfficialSide, OfficialAt, ExternalSide, ExternalAt, Follows
<1> QED
  BY <1>1, <1>2, <1>5 DEF Intact, ShownInOrder, NoGap, RequestIsTrue

LEMMA StutterIsIntact == Intact /\ UNCHANGED listVars => Intact'
<1> SUFFICES ASSUME Intact, UNCHANGED listVars PROVE Intact'
  OBVIOUS
<1>1. /\ UNCHANGED <<query, world, pc, listing, cursor, ext, more, lastAnchor, out, batch, index,
                     start, exact, page, edge>>
      /\ limit' = limit
  BY DEF listVars, request, query
<1>2. /\ (\A r, s : Before(r, s)' <=> Before(r, s)) /\ (\A r : Kept(r)' <=> Kept(r))
      /\ (\A s : Ordered(s)' <=> Ordered(s)) /\ \A a : Listed(a)' = Listed(a)
  BY <1>1, ListsStay
<1>3. /\ Fixed' = Fixed /\ (\A r : Due(r)' <=> Due(r)) /\ (\A p, r : Beyond(p, r)' <=> Beyond(p, r))
      /\ (\A p, r : Follows(p, r)' <=> Follows(p, r))
      /\ Data' = Data /\ \A s, a : TakenOf(s, a)' = TakenOf(s, a)
  BY <1>1, ThreadsStay, RequestsStay
<1>4. (Paging' <=> Paging) /\ Shown' = Shown
  BY <1>1, <1>2 DEF Paging, Shown
<1>5. /\ \A r : AfterShown(r)' <=> AfterShown(r)
      /\ \A p : OfficialAt(p)' <=> OfficialAt(p)
      /\ OfficialOver' <=> OfficialOver
      /\ \A p : ExternalAt(p)' <=> ExternalAt(p)
      /\ ExternalOver' <=> ExternalOver
  BY <1>1, <1>4, ShownStays
<1>6. ShownInOrder'
  BY <1>1, <1>2, <1>4 DEF Intact, ShownInOrder
<1>7. NoGap'
  BY <1>1, <1>3, <1>4, <1>5 DEF Intact, NoGap
<1>8. RequestIsTrue'
  <2>1. (pc = "asked" => \A b \in Accounts : edge[b] # Nothing => edge[b] = page[b].rows[TakenOf(Data, b)])'
    BY <1>1, <1>3 DEF Intact, RequestIsTrue
  <2>2. (pc = "asked" => \A b \in Accounts :
           page[b] # Nothing =>
             LET S == {r \in Listed(b) : Follows(start[b].at, r)} IN
             /\ ToSet(page[b].rows) \subseteq S
             /\ \A r \in S \ ToSet(page[b].rows) : \A s \in ToSet(page[b].rows) : Before(s, r)
             /\ ~page[b].more => S = ToSet(page[b].rows))'
    BY <1>1, <1>2, <1>3 DEF Intact, RequestIsTrue
  <2> QED
    BY <2>1, <2>2 DEF RequestIsTrue
<1>9. BatchFits => BatchFits'
  <2> QED
    BY <1>1, <1>2, <1>3, <1>4, <1>5 DEF BatchFits
<1>10. PageFits => PageFits'
  <2> QED
    BY <1>1, <1>2, <1>3, <1>4, <1>5 DEF PageFits
<1>11. OfficialSide'
  <2> QED
    BY <1>1, <1>5, <1>9 DEF Intact, OfficialSide
<1>12. ExternalSide'
  <2> QED
    BY <1>1, <1>4, <1>5, <1>10 DEF Intact, ExternalSide
<1> QED
  BY <1>6, <1>7, <1>8, <1>11, <1>12 DEF Intact

\* Each step keeps the inductive invariant.
LEMMA NextIsSafe == ListIInv /\ [ListNext]_listVars => ListIInv'
<1> SUFFICES ASSUME ListIInv, [ListNext]_listVars PROVE ListIInv'
  OBVIOUS
<1>1. ListTInv /\ ListTInv'
  BY NextKeepsTypes DEF ListIInv
<1>2. ASSUME ~drift' PROVE Intact'
  <2>1. CASE \E x \in Rows : Change(x)
    <3>1. ~drift
      BY <1>2, <2>1 DEF Change
    <3> QED
      BY <1>2, <2>1, <3>1, ChangeIsIntact DEF ListIInv, ListSInv
  <2>2. CASE ~\E x \in Rows : Change(x)
    <3>1. drift' = drift
      BY <2>2 DEF ListNext, Step, BeginPage, BatchArrives, PrefixArrives, AccountBatch,
         AccountPrefix, NextBatch, PassOwned, EmitExternal, EmitOfficial, EndPage, RequestFails,
         RefusePage, Finish, listVars, world
    <3>2. Intact
      BY <1>2, <3>1 DEF ListIInv, ListSInv
    <3>3. CASE \E a \in Accounts : AccountBatch(a) \/ AccountPrefix(a)
      BY <1>1, <3>2, <3>3, AccountBatchIsIntact, AccountPrefixIsIntact
    <3>4. CASE RequestFails
      BY <3>2, <3>4, StoppingIsIntact DEF RequestFails, Paging
    <3>5. CASE UNCHANGED listVars
      BY <3>2, <3>5, StutterIsIntact
    <3> QED
      BY <1>1, <2>2, <3>2, <3>3, <3>4, <3>5, BeginPageIsIntact, BatchArrivesIsIntact,
         PrefixArrivesIsIntact, NextBatchIsIntact, PassOwnedIsIntact, EmitExternalIsIntact,
         EmitOfficialIsIntact, EndPageIsIntact DEF ListNext, Step
  <2> QED
    BY <2>1, <2>2
<1> QED
  BY <1>1, <1>2 DEF ListIInv, ListSInv

\* The inductive invariant holds for all threads, accounts and page sizes, with
\* threads that change between any two requests.
THEOREM ListInvariant == ListSpec => []ListIInv
<1>1. ListInit => ListIInv
  BY InitIsTyped, InitIsIntact DEF ListIInv, ListSInv
<1> QED
  BY <1>1, NextIsSafe, PTL DEF ListSpec

\* A page never has more rows than the Desktop asked for, nor has a batch; an
\* account's batch is in order and its own, and of one that goes on full; a cursor
\* holds a position of every account.
THEOREM ListTypes == ListSpec => []ListTInv
<1>1. ListIInv => ListTInv
  BY DEF ListIInv
<1> QED
  BY <1>1, ListInvariant, PTL

\* Over all pages the rows that did not change come in the global order and none
\* comes twice: each page starts behind the last row of the one before, on the
\* official side and on the external one (aggregateThreadList,
\* thread-list-aggregator.ts 86-247).
THEOREM ListingInOrder == ListSpec => []PagesAreInOrder
<1>1. ListIInv => PagesAreInOrder
  BY DEF ListIInv, ListSInv, Intact, ShownInOrder, PagesAreInOrder
<1> QED
  BY <1>1, ListInvariant, PTL

\* The pages leave out no row that did not change: none before the last one
\* handed out, and none at all when nextCursor is null, wherever a page ends
\* within a batch and whatever part of a batch an account's rows make up
\* (aggregateThreadList, thread-list-aggregator.ts 86-247;
\* aggregateOfficialAccountThreadListPage, multi-account-thread-list.ts 113-244).
THEOREM ListingIsComplete == ListSpec => []NothingSkipped
<1>1. ListIInv => NothingSkipped
  <2> SUFFICES ASSUME ListIInv, ~drift, NEW r \in UNION {Listed(a) : a \in Accounts \cup {0}},
                      Kept(r), Due(r),
                      pc = "done" \/ \E i \in DOMAIN listing : Kept(listing[i]) /\ Before(r, listing[i])
               PROVE  r \in ToSet(listing)
    BY DEF NothingSkipped
  <2>1. Intact /\ ListTypeOK /\ r \in Fixed
    BY DEF ListIInv, ListTInv, ListSInv, Fixed
  <2>2. r \in RowType
    BY <2>1, FixedRows
  <2>3. CASE pc = "done"
    BY <2>1, <2>3 DEF Intact, NoGap, Shown, Paging
  <2>4. CASE \E i \in DOMAIN listing : Kept(listing[i]) /\ Before(r, listing[i])
    <3>1. PICK i \in DOMAIN listing : Kept(listing[i]) /\ Before(r, listing[i])
      BY <2>4
    <3>2. listing[i] \in Shown /\ listing[i] \in RowType
      BY <2>1, <3>1, FixedRows DEF Shown, ToSet
    <3>3. ~AfterShown(r)
      BY <2>2, <3>1, <3>2, BeforeIsOrder DEF AfterShown
    <3>4. r \in Shown
      BY <2>1, <3>3 DEF Intact, NoGap
    <3>5. CASE r \in ToSet(listing)
      BY <3>5
    <3>6. CASE r \notin ToSet(listing)
      <4>1. Paging /\ \E j \in DOMAIN out : r = out[j]
        BY <3>4, <3>6 DEF Shown, ToSet
      <4>2. Before(listing[i], r)
        BY <2>1, <3>1, <4>1 DEF Intact, ShownInOrder
      <4> QED
        BY <2>2, <3>1, <3>2, <4>2, BeforeIsOrder
    <3> QED
      BY <3>5, <3>6
  <2> QED
    BY <2>3, <2>4
<1> QED
  BY <1>1, ListInvariant, PTL

\* A page that used n rows of an official batch, and not all, asks for those n
\* again and is always refused: the merge of the accounts fills its answer up to
\* the Desktop's limit, so an answer of n rows is all there is and its nextCursor
\* is null (aggregateThreadList, thread-list-aggregator.ts 189-194; Data,
\* multi-account-thread-list.ts 179-205).
THEOREM PartsAreRefused == ListSpec => [][PrefixArrives => pc' = "refused"]_listVars
<1>1. ListIInv /\ [ListNext]_listVars => [PrefixArrives => pc' = "refused"]_listVars
  BY PrefixesAreRefused DEF ListIInv, RefusePage
<1> QED
  BY <1>1, ListInvariant, PTL DEF ListSpec
=============================================================================
