-------------------------- MODULE ThreadRuntimeProofs --------------------------
(***************************************************************************)
(* For any number of callers and sessions, whether the adapter rolls back  *)
(* into a new native session or in place: but for a rollback in place, no  *)
(* two live sessions work on one native history, every live session has an *)
(* owner, and the registry agrees with the store whenever no call is under *)
(* way. What the theorems except is in mishaps, and nothing else.          *)
(*                                                                         *)
(* The invariant IInv has a part for each thing the proof has to know: who *)
(* is where (Callers), what calls hold (Objects), when a restore may run   *)
(* (Restores), whose history a session works on (Histories), which         *)
(* sessions have objects yet (Fresh), how memory and store agree in the    *)
(* middle of a rollback (Matches), the fork (Derived), and what a restore  *)
(* may write (Restored). It holds until the thread is deleted while        *)
(* someone opens it, or the Host has ended, which leaves nothing to do     *)
(* (Stopped).                                                              *)
(***************************************************************************)
EXTENDS ThreadRuntime, SequenceTheorems, TLAPS

Rolling == {"opening", "comparing", "committing", "replacing", "closing"}

Forking == {"forking", "forkOpening", "forkReading"}

\* the call has a session of its own
Opened == {"comparing", "committing", "replacing", "closing", "forkReading"}

\* the call has the object of the thread
Resolved == {"resolved", "reading", "aligning"} \cup Rolling \cup Forking

\* what a call does fits to where it is
Fits(k) ==
  /\ k.pc \in Rolling => k.op = "rollback"
  /\ k.pc \in Forking => k.op = "fork"
  /\ k.pc \in {"reading", "aligning"} => k.op \in {"read", "rollback", "fork"}
  /\ k.pc = "awaiting" => k.op # "delete"
  /\ k.new # None <=> k.pc \in Opened
  /\ k.pc = "located" => k.rec # None /\ k.rec.native = Origin
  /\ k.pc \in {"replacing", "closing"} => k.rec # None

\* the Desktop's requests come one after the other, except for turns
Serial == \A c, d \in Desktop :
  Begun(c) /\ Begun(d) /\ call[c].op # "send" /\ call[d].op # "send" => c = d

Callers ==
  /\ \A c \in Calls : (Begun(c) => call[c].op \in Operations(c)) /\ Fits(call[c])
  /\ Serial

\* the object a call works on exists; a rollback and a deletion work on the one
\* in the registry
Holds(c) ==
  LET k == call[c]
  IN  /\ k.pc \in Resolved => k.obj \in Sessions /\ object[k.obj] # None
      /\ k.op \in {"rollback", "delete"} /\ k.pc \in Resolved => loaded = k.obj
      /\ k.pc = "closing" => session[k.obj] = "closed"
      /\ Begun(c) /\ k.op = "fork" => derived.state # "ready"

Objects ==
  /\ loaded # None => object[loaded] # None
  /\ derived.state # "ready" => derived.obj = None
  /\ \A c \in Calls : Holds(c)

\* only a thread that is not loaded is restored, on the native session it was
\* created with; a deleted one is not restored
Restores ==
  /\ restoring # None => /\ loaded = None /\ restoring.rec.native = Origin
                         /\ restoring.new = None <=> restoring.step = "opening"
  /\ record = None => /\ loaded = None /\ restoring = None
                      /\ \A c \in Calls : call[c].pc \notin {"located", "awaiting"}

Owned(s) ==
  \/ s \in {loaded, derived.obj}
  \/ restoring # None /\ restoring.new = s
  \/ \E c \in Calls : call[c].pc \in Opened /\ call[c].new = s

\* a rollback in place has opened the session
Reverting(s) == inPlace /\ \E c \in Calls :
  call[c].op = "rollback" /\ call[c].pc \in Opened /\ call[c].new = s

\* a thread leaves its first native session only by a rollback that copies it, and
\* is loaded then; a session on the first native session is loaded, restores it or
\* will replace the loaded one
Histories ==
  /\ record # None /\ (loaded = None \/ inPlace) => record.native = Origin
  /\ \A s \in Sessions : session[s] = "open" =>
       /\ native[s] \in {Origin, s}
       /\ native[s] = Origin =>
            s = loaded \/ (restoring # None /\ restoring.new = s) \/ Reverting(s)
       /\ Owned(s)

\* there is an object of session s
Known(s) == object[s] # None

\* the native session of the session that call c has opened
OpenedOn(c) == IF inPlace /\ call[c].op = "rollback" THEN Origin ELSE call[c].new

\* a session that a call or the restore has opened has no object yet
Fresh ==
  /\ \A s \in Sessions : session[s] = "unused" => ~Known(s)
  /\ \A c \in Calls : call[c].pc \in Opened =>
       /\ session[call[c].new] = "open" /\ native[call[c].new] = OpenedOn(c)
       /\ ~Known(call[c].new)
  /\ restoring # None /\ restoring.new # None =>
       session[restoring.new] = "open" /\ native[restoring.new] = Origin
  /\ \A c \in Calls : call[c].pc = "located" => call[c].obj = None

\* the record has moved to the new session, the registry has not
Switching == \E c \in Calls : call[c].pc \in {"replacing", "closing"}

Unwritten == "write" \notin mishaps

\* the object in the registry has the stored record, unless one that it replaced
\* has written it; objects that a rollback has replaced with a copy, and that of
\* the fork, are on other native sessions
Matches ==
  /\ loaded # None => record # None
  /\ loaded = None /\ record # None => \A s \in Sessions : ~Known(s)
  /\ loaded # None /\ ~Switching =>
       /\ native[loaded] = record.native
       /\ Unwritten => object[loaded].rec = record
  /\ loaded # None /\ (\A c \in Calls : call[c].pc # "closing") => session[loaded] = "open"
  /\ \A c \in Calls : call[c].pc \in {"replacing", "closing"} =>
       /\ record.native = native[call[c].new] /\ record.native = call[c].rec.native
       /\ Unwritten => record = call[c].rec
  /\ \A s \in Sessions : Known(s) =>
       /\ object[s].rec.native = native[s] /\ native[s] \in {Origin, s}
       /\ record # None /\ ~inPlace /\ (s # loaded \/ Switching) => native[s] # record.native

\* the forked thread has an object of its own, or a call that makes or undoes it
Derived ==
  /\ derived.state = "ready" => /\ derived.obj \in Sessions /\ derived.obj # loaded
                                /\ Known(derived.obj) /\ session[derived.obj] = "open"
                                /\ \A c \in Calls : call[c].pc \in Resolved =>
                                     call[c].obj # derived.obj
  /\ derived.state = "creating" => \/ "remove" \in mishaps
                                   \/ \E c \in Calls : call[c].pc \in {"forkOpening", "forkReading"}

\* the mappings of the thread's first turn, and of its second by session m
First == [at |-> 1, host |-> <<Origin, 1>>]

Second(m) == [at |-> 2, host |-> <<m, 2>>]

\* a record read before the first restore, or the stored one
Early(rec) == rec.native = Origin /\ (rec.turns = <<First>> \/ rec = record)

\* until the thread is loaded its history stands still, and only a restore adds
\* to the record: an id for the second turn, made by a session of its own
Restored == loaded = None /\ record # None =>
  /\ history[Origin] \in {Numbered(1), Numbered(2)}
  /\ \/ record.turns = <<First>>
     \/ /\ history[Origin] = Numbered(2)
        /\ \E m \in Sessions : session[m] # "unused" /\ record.turns = <<First, Second(m)>>
  /\ \A c \in Calls : call[c].pc = "located" => Early(call[c].rec)
  /\ restoring # None =>
       /\ Early(restoring.rec)
       /\ restoring.step \in {"aligning", "aligned"} => restoring.snap = history[Origin]
       /\ restoring.step \in {"reading", "aligning"} =>
            \A i \in DOMAIN record.turns : record.turns[i].host[1] # restoring.new
       /\ restoring.step = "aligned" => restoring.rec = record

IInv ==
  /\ TypeOK /\ Callers /\ Objects /\ Restores /\ Histories
  /\ Fresh /\ Matches /\ Derived /\ Restored

-----------------------------------------------------------------------------
(* Records *)

LEMMA Names ==
  /\ Sessions \subseteq Nat /\ Origin \notin Sessions /\ None \notin Sessions
  /\ None # Origin /\ Sessions \subseteq Natives /\ Origin \in Natives
  /\ Natives \subseteq Nat
BY CallsAreNamed DEF Sessions, Natives, Origin

\* an alignment is a list of mappings
LEMMA AlignType ==
  ASSUME NEW rec \in Record, NEW snap \in Seq(Nat), NEW maker \in Calls \cup Natives
  PROVE  Align(rec, snap, maker) \in Seq(Turn)
<1>1. ASSUME NEW i \in 1..Len(snap), \E j \in DOMAIN rec.turns : rec.turns[j].at = snap[i]
      PROVE  rec.turns[CHOOSE j \in DOMAIN rec.turns : rec.turns[j].at = snap[i]] \in Turn
  <2>1. rec.turns \in Seq(Turn)
    BY DEF Record
  <2>2. (CHOOSE j \in DOMAIN rec.turns : rec.turns[j].at = snap[i]) \in DOMAIN rec.turns
    BY <1>1
  <2> QED
    BY <2>1, <2>2, LenProperties, ElementOfSeq
<1>2. ASSUME NEW i \in 1..Len(snap)
      PROVE  [at |-> snap[i], host |-> <<maker, snap[i]>>] \in Turn
  <2>1. snap[i] \in Nat
    BY ElementOfSeq
  <2> QED
    BY <2>1 DEF Turn
<1>3. Align(rec, snap, maker) \in [1..Len(snap) -> Turn]
  BY <1>1, <1>2 DEF Align
<1>4. Len(snap) \in Nat
  BY LenProperties
<1> QED
  BY <1>3, <1>4

\* the turn at place i of an alignment is the one there in the snapshot; a turn
\* that the record knows keeps its mapping
LEMMA AlignAt ==
  ASSUME NEW rec \in Record, NEW snap \in Seq(Nat), NEW maker \in Calls \cup Natives
  PROVE  /\ DOMAIN Align(rec, snap, maker) = 1..Len(snap)
         /\ Len(Align(rec, snap, maker)) = Len(snap)
         /\ \A i \in 1..Len(snap) : Align(rec, snap, maker)[i].at = snap[i]
         /\ \A i \in 1..Len(snap) : (\A j \in DOMAIN rec.turns : rec.turns[j].at # snap[i]) =>
              Align(rec, snap, maker)[i] = [at |-> snap[i], host |-> <<maker, snap[i]>>]
<1>1. Align(rec, snap, maker) \in Seq(Turn) /\ DOMAIN Align(rec, snap, maker) = 1..Len(snap)
  BY AlignType DEF Align
<1>2. Len(Align(rec, snap, maker)) = Len(snap)
  BY <1>1, LenProperties
<1>3. ASSUME NEW i \in 1..Len(snap)
      PROVE  Align(rec, snap, maker)[i].at = snap[i]
  <2>1. CASE \E j \in DOMAIN rec.turns : rec.turns[j].at = snap[i]
    BY <2>1 DEF Align
  <2>2. CASE ~ \E j \in DOMAIN rec.turns : rec.turns[j].at = snap[i]
    BY <2>2 DEF Align
  <2> QED
    BY <2>1, <2>2
<1>4. ASSUME NEW i \in 1..Len(snap), \A j \in DOMAIN rec.turns : rec.turns[j].at # snap[i]
      PROVE  Align(rec, snap, maker)[i] = [at |-> snap[i], host |-> <<maker, snap[i]>>]
  BY <1>4 DEF Align
<1> QED
  BY <1>1, <1>2, <1>3, <1>4

LEMMA AlignKeeps ==
  ASSUME NEW rec \in Record, NEW snap \in Seq(Nat), NEW maker \in Calls \cup Natives,
         \A i, j \in DOMAIN rec.turns : rec.turns[i].at = rec.turns[j].at => i = j,
         NEW i \in DOMAIN rec.turns, NEW k \in 1..Len(snap), rec.turns[i].at = snap[k]
  PROVE  Align(rec, snap, maker)[k] = rec.turns[i]
<1> DEFINE j == CHOOSE j \in DOMAIN rec.turns : rec.turns[j].at = snap[k]
<1>1. j \in DOMAIN rec.turns /\ rec.turns[j].at = snap[k]
  OBVIOUS
<1>2. j = i
  BY <1>1
<1>3. Align(rec, snap, maker)[k] = rec.turns[j]
  BY DEF Align
<1> QED
  BY <1>2, <1>3

\* a record keeps its native session when its mappings change
LEMMA WithTurns ==
  ASSUME NEW rec \in Record, NEW turns \in Seq(Turn)
  PROVE  /\ [rec EXCEPT !.turns = turns] \in Record
         /\ [rec EXCEPT !.turns = turns].native = rec.native
         /\ [rec EXCEPT !.turns = turns].turns = turns
BY DEF Record

\* the record after the rollback of the last turn
LEMMA RolledBack ==
  ASSUME NEW rec \in Record, NEW s \in Natives, NEW snap \in Seq(Nat),
         Len(rec.turns) = Len(snap) + 1
  PROVE  [native |-> s,
          turns  |-> [i \in 1..Len(snap) |->
                        [at |-> snap[i], host |-> rec.turns[i].host]]] \in Record
<1> DEFINE n == Len(snap)
<1>0. n \in Nat
  BY LenProperties
<1>1. ASSUME NEW i \in 1..n
      PROVE  [at |-> snap[i], host |-> rec.turns[i].host] \in Turn
  <2>1. rec.turns \in Seq(Turn) /\ i \in 1..Len(rec.turns)
    BY <1>0 DEF Record
  <2>2. rec.turns[i] \in Turn /\ snap[i] \in Nat
    BY <2>1, ElementOfSeq
  <2> QED
    BY <2>2 DEF Turn
<1>2. [i \in 1..n |-> [at |-> snap[i], host |-> rec.turns[i].host]] \in [1..n -> Turn]
  BY <1>1
<1>3. [i \in 1..n |-> [at |-> snap[i], host |-> rec.turns[i].host]] \in Seq(Turn)
  BY <1>0, <1>2
<1> QED
  BY <1>3 DEF Record

\* the record of a fork
LEMMA ForkedRecord ==
  ASSUME NEW s \in Natives, NEW h \in Seq(Nat)
  PROVE  [native |-> s,
          turns  |-> [i \in DOMAIN h |-> [at |-> h[i], host |-> <<s, i>>]]] \in Record
<1> DEFINE n == Len(h)
<1>0. n \in Nat /\ DOMAIN h = 1..n
  BY LenProperties
<1>1. ASSUME NEW i \in 1..n
      PROVE  [at |-> h[i], host |-> <<s, i>>] \in Turn
  <2>1. h[i] \in Nat /\ i \in Nat
    BY <1>0, ElementOfSeq
  <2> QED
    BY <2>1 DEF Turn
<1>2. [i \in 1..n |-> [at |-> h[i], host |-> <<s, i>>]] \in [1..n -> Turn]
  BY <1>1
<1>3. [i \in 1..n |-> [at |-> h[i], host |-> <<s, i>>]] \in Seq(Turn)
  BY <1>0, <1>2
<1> QED
  BY <1>0, <1>3 DEF Record

\* histories are sequences of numbers, and stay so when they lose their last turn
LEMMA History ==
  /\ \A n \in Nat : Numbered(n) \in Seq(Nat) /\ Len(Numbered(n)) = n
  /\ \A h \in Seq(Nat) : h # <<>> =>
       /\ Len(h) \in Nat /\ Len(h) > 0
       /\ Upto(h, Len(h) - 1) \in Seq(Nat) /\ Len(Upto(h, Len(h) - 1)) = Len(h) - 1
       /\ \A i \in 1..(Len(h) - 1) : Upto(h, Len(h) - 1)[i] = h[i]
<1>1. ASSUME NEW n \in Nat
      PROVE  Numbered(n) \in Seq(Nat) /\ Len(Numbered(n)) = n
  <2>1. Numbered(n) \in [1..n -> Nat]
    BY DEF Numbered
  <2> QED
    BY <2>1
<1>2. ASSUME NEW h \in Seq(Nat), h # <<>>
      PROVE  /\ Len(h) \in Nat /\ Len(h) > 0
             /\ Upto(h, Len(h) - 1) \in Seq(Nat) /\ Len(Upto(h, Len(h) - 1)) = Len(h) - 1
             /\ \A i \in 1..(Len(h) - 1) : Upto(h, Len(h) - 1)[i] = h[i]
  <2>1. Len(h) \in Nat /\ Len(h) > 0
    BY <1>2, EmptySeq, LenProperties
  <2>2. Upto(h, Len(h) - 1) \in [1..(Len(h) - 1) -> Nat]
    BY <2>1, ElementOfSeq DEF Upto
  <2>3. \A i \in 1..(Len(h) - 1) : Upto(h, Len(h) - 1)[i] = h[i]
    BY DEF Upto
  <2> DEFINE u == Upto(h, Len(h) - 1)
             n == Len(h) - 1
  <2>4. n \in Nat /\ u \in [1..n -> Nat]
    BY <2>1, <2>2
  <2>5. u \in Seq(Nat) /\ Len(u) = n
    <3> HIDE DEF u, n
    <3> QED
      BY <2>4
  <2> QED
    BY <2>1, <2>3, <2>5
<1> QED
  BY <1>1, <1>2

-----------------------------------------------------------------------------
(* Calls *)

\* nothing happens to the other calls
Others(c) == \A d \in Calls \ {c} : call'[d] = call[d]

LEMMA FreeCall ==
  /\ Free \in Call /\ [Free EXCEPT !.pc = "ended"] \in Call
  /\ [Free EXCEPT !.pc = "ended"].pc = "ended"
  /\ [Free EXCEPT !.pc = "ended"].new = None
  /\ [Free EXCEPT !.pc = "ended"].op = None
  /\ Free.pc = "idle" /\ Free.new = None
<1>1. <<>> \in Seq(Nat) /\ "idle" \in Pcs /\ "ended" \in Pcs
  BY DEF Pcs
<1> QED
  BY <1>1 DEF Free, Call

LEMMA EndedCall ==
  ASSUME call \in [Calls -> Call], NEW c \in Calls, Ended(c)
  PROVE  /\ call' \in [Calls -> Call] /\ Others(c)
         /\ call'[c].pc = "ended" /\ call'[c].new = None
BY FreeCall DEF Ended, Others

LEMMA MovedCall ==
  ASSUME call \in [Calls -> Call], NEW c \in Calls, NEW p \in Pcs, Goto(c, p)
  PROVE  /\ call' \in [Calls -> Call] /\ Others(c)
         /\ call'[c].pc = p /\ call'[c].op = call[c].op /\ call'[c].obj = call[c].obj
         /\ call'[c].new = call[c].new /\ call'[c].rec = call[c].rec
         /\ call'[c].snap = call[c].snap
BY DEF Goto, Others, Call

\* a call that ends, or goes on with what it does
Ends(c) == Others(c) /\ call'[c].pc = "ended" /\ call'[c].new = None

Goes(c, p) ==
  /\ Others(c) /\ call'[c].pc = p
  /\ call'[c].op = call[c].op /\ call'[c].obj = call[c].obj

LEMMA EndsCallers ==
  ASSUME Callers, NEW c \in Calls, Ends(c)
  PROVE  Callers'
<1>1. Fits(call[c])'
  BY DEF Ends, Fits, Rolling, Forking, Opened
<1>2. ASSUME NEW d \in Calls, Begun(d)'
      PROVE  d # c /\ call'[d] = call[d] /\ Begun(d)
  BY <1>2 DEF Ends, Others, Begun
<1>3. ASSUME NEW d \in Calls
      PROVE  Fits(call[d])'
  BY <1>1 DEF Ends, Others, Callers
<1>4. ASSUME NEW d \in Calls, Begun(d)'
      PROVE  (call[d].op \in Operations(d))'
  BY <1>2, <1>4 DEF Callers, Operations
<1>5. Serial'
  BY <1>2 DEF Callers, Serial, Calls
<1> QED
  BY <1>3, <1>4, <1>5 DEF Callers

LEMMA GoesCallers ==
  ASSUME Callers, NEW c \in Calls, Others(c), call'[c].op = call[c].op,
         Begun(c), Fits(call'[c])
  PROVE  Callers'
<1>1. ASSUME NEW d \in Calls, Begun(d)'
      PROVE  Begun(d) /\ call'[d].op = call[d].op
  BY <1>1 DEF Others, Begun
<1>2. ASSUME NEW d \in Calls
      PROVE  Fits(call[d])'
  BY DEF Others, Callers
<1>3. ASSUME NEW d \in Calls, Begun(d)'
      PROVE  (call[d].op \in Operations(d))'
  BY <1>1, <1>3 DEF Callers, Operations
<1>4. Serial'
  BY <1>1 DEF Callers, Serial, Calls
<1> QED
  BY <1>2, <1>3, <1>4 DEF Callers

\* at most one rollback, fork or deletion is under way
LEMMA OneAtATime ==
  ASSUME Callers, NEW c \in Calls, NEW d \in Calls, Begun(c), Begun(d),
         call[c].op \in {"rollback", "fork", "delete"},
         call[d].op \in {"rollback", "fork", "delete"}
  PROVE  c = d
<1>1. c \in Desktop /\ d \in Desktop
  BY DEF Callers, Operations
<1> QED
  BY <1>1 DEF Callers, Serial

\* so at most one call has a session of its own, and a rollback meets no restore
LEMMA OneOpened ==
  ASSUME IInv, NEW c \in Calls, call[c].pc \in Rolling \cup Forking
  PROVE  /\ Begun(c) /\ call[c].op \in {"rollback", "fork"} /\ call[c].pc \in Resolved
         /\ \A d \in Calls \ {c} : call[d].pc \notin Rolling \cup Forking \cup Opened
         /\ call[c].op = "rollback" => loaded = call[c].obj /\ loaded # None /\ restoring = None
<1>1. ASSUME NEW d \in Calls, call[d].pc \in Rolling \cup Forking \cup Opened
      PROVE  Begun(d) /\ call[d].op \in {"rollback", "fork"} /\ call[d].pc \in Resolved
  BY <1>1 DEF IInv, Callers, Fits, Rolling, Forking, Opened, Begun, Resolved
<1>2. Begun(c) /\ call[c].op \in {"rollback", "fork"} /\ call[c].pc \in Resolved
  BY <1>1
<1>3. ASSUME NEW d \in Calls \ {c}
      PROVE  call[d].pc \notin Rolling \cup Forking \cup Opened
  BY <1>1, <1>2, OneAtATime DEF IInv
<1>4. ASSUME call[c].op = "rollback"
      PROVE  loaded = call[c].obj /\ loaded # None /\ restoring = None
  <2>1. loaded = call[c].obj /\ call[c].obj \in Sessions
    BY <1>2, <1>4 DEF IInv, Objects, Holds
  <2> QED
    BY <2>1, Names DEF IInv, Restores
<1> QED
  BY <1>2, <1>3, <1>4

-----------------------------------------------------------------------------
(* Steps that open and close nothing *)

ObjectsStay == \A s \in Sessions : object[s] # None => object'[s] # None

RecordStays ==
  /\ record' = None <=> record = None
  /\ record # None /\ (loaded = None \/ inPlace) => record'.native = record.native

\* what a call holds it holds on to
LEMMA OthersHold ==
  ASSUME Objects, NEW d \in Calls, call'[d] = call[d], ObjectsStay,
         loaded' = loaded, derived' = derived,
         \A s \in Sessions : session[s] = "closed" => session'[s] = "closed"
  PROVE  Holds(d)'
<1>1. call[d].pc \in Resolved => Begun(d)
  BY DEF Resolved, Rolling, Forking, Begun
<1>2. Holds(d)
  BY DEF Objects
<1> QED
  BY <1>1, <1>2 DEF Holds, ObjectsStay, Begun, Resolved, Rolling, Forking

LEMMA EndsPlainly ==
  ASSUME IInv, NEW c \in Calls, Ends(c), call[c].pc \notin Opened,
         ObjectsStay, RecordStays,
         UNCHANGED <<inPlace, session, native, loaded, restoring, derived>>
  PROVE  Callers' /\ Objects' /\ Restores' /\ Histories'
<1>1. Callers'
  BY EndsCallers DEF IInv
<1>2. Objects'
  <2>1. Holds(c)'
    BY DEF Ends, Holds, Resolved, Rolling, Forking, Begun
  <2>2. ASSUME NEW d \in Calls
        PROVE  Holds(d)'
    BY <2>1, OthersHold DEF Ends, Others, IInv
  <2>3. loaded # None => loaded \in Sessions
    BY DEF IInv, TypeOK
  <2> QED
    BY <2>2, <2>3 DEF IInv, Objects, ObjectsStay
<1>3. Restores'
  BY DEF IInv, Restores, RecordStays, Ends, Others
<1>4. Histories'
  <2>1. ASSUME NEW s \in Sessions, Owned(s)
        PROVE  Owned(s)'
    BY <2>1 DEF Owned, Ends, Others
  <2>2. ASSUME NEW s \in Sessions, Reverting(s)
        PROVE  Reverting(s)'
    BY <2>2 DEF Reverting, Ends, Others
  <2> QED
    BY <2>1, <2>2 DEF IInv, Histories, RecordStays
<1> QED
  BY <1>1, <1>2, <1>3, <1>4

LEMMA GoesPlainly ==
  ASSUME IInv, NEW c \in Calls, NEW p, Goes(c, p), Fits(call'[c]),
         call[c].pc \in Resolved, p \in Resolved, call'[c].new = call[c].new,
         p = "closing" => session[call[c].obj] = "closed",
         ObjectsStay, RecordStays,
         UNCHANGED <<inPlace, session, native, loaded, restoring, derived>>
  PROVE  Callers' /\ Objects' /\ Restores' /\ Histories'
<1>1. Begun(c)
  BY DEF Begun, Resolved, Rolling, Forking
<1>2. Callers'
  BY <1>1, GoesCallers DEF IInv, Goes
<1>3. Objects'
  <2>1. Holds(c)'
    <3>1. Holds(c)
      BY DEF IInv, Objects
    <3> QED
      BY <1>1, <3>1 DEF Goes, Holds, ObjectsStay
  <2>2. ASSUME NEW d \in Calls
        PROVE  Holds(d)'
    BY <2>1, OthersHold DEF Goes, Others, IInv
  <2>3. loaded # None => loaded \in Sessions
    BY DEF IInv, TypeOK
  <2> QED
    BY <2>2, <2>3 DEF IInv, Objects, ObjectsStay
<1>4. Restores'
  <2>1. p \notin {"located", "awaiting"}
    BY DEF Resolved, Rolling, Forking
  <2> QED
    BY <2>1 DEF IInv, Restores, RecordStays, Goes, Others
<1>5. Histories'
  <2>1. p \in Opened <=> call[c].pc \in Opened
    BY DEF IInv, Callers, Fits, Goes
  <2>2. ASSUME NEW s \in Sessions, Owned(s)
        PROVE  Owned(s)'
    BY <2>1, <2>2 DEF Owned, Goes, Others
  <2>3. ASSUME NEW s \in Sessions, Reverting(s)
        PROVE  Reverting(s)'
    BY <2>1, <2>3 DEF Reverting, Goes, Others
  <2> QED
    BY <2>2, <2>3 DEF IInv, Histories, RecordStays
<1> QED
  BY <1>2, <1>3, <1>4, <1>5

\* a call ends or goes on without a session, or compares the one it has
Mild == \A d \in Calls :
  \/ call'[d] = call[d]
  \/ /\ call'[d].pc = "ended" /\ call'[d].new = None
     /\ call[d].pc \notin Opened \cup {"forkOpening"}
  \/ /\ call[d].pc \in Resolved \ {"forkOpening", "forkReading", "replacing", "closing"}
     /\ call'[d].pc \in Resolved \ {"replacing", "closing"}
     /\ call[d].pc \in Opened <=> call'[d].pc \in Opened
     /\ call'[d].new = call[d].new /\ call'[d].op = call[d].op /\ call'[d].obj = call[d].obj

\* the record is left alone, or written by the object that has it, or by one that
\* has been replaced
RecordFollows ==
  \/ record' = record /\ \A s \in Sessions : Known(s) => object'[s].rec = object[s].rec
  \/ /\ record # None /\ record' # None /\ record'.native = record.native
     /\ \E o \in Sessions :
          /\ Known(o) /\ object[o].rec.native = record.native /\ object'[o].rec = record'
          /\ \A s \in Sessions \ {o} : Known(s) => object'[s].rec = object[s].rec
          /\ "write" \in mishaps' \/ record' = record \/ ~Outdated(o)

LEMMA MildKeeps ==
  ASSUME IInv, Mild, \A s \in Sessions : object'[s] # None <=> object[s] # None,
         RecordFollows,
         loaded = None /\ record # None => UNCHANGED history,
         UNCHANGED <<inPlace, session, native, loaded, restoring, derived>>,
         mishaps \subseteq mishaps'
  PROVE  Fresh' /\ Matches' /\ Derived' /\ Restored'
<1>1. ASSUME NEW d \in Calls
      PROVE  /\ call'[d].pc \in Opened => /\ call[d].pc \in Opened /\ call'[d].new = call[d].new
                                          /\ call'[d].op = call[d].op
             /\ call'[d].pc \in {"located", "replacing", "closing"} => call'[d] = call[d]
             /\ call[d].pc \in {"replacing", "closing", "forkOpening", "forkReading"} =>
                  call'[d] = call[d]
             /\ call'[d].pc \in Resolved => call[d].pc \in Resolved /\ call'[d].obj = call[d].obj
  BY DEF Mild, Opened, Resolved, Rolling, Forking
<1>2. Fresh'
  <2>1. restoring # None /\ restoring.new # None => restoring.new \in Sessions
    BY DEF IInv, TypeOK, Restoration
  <2>2. ASSUME NEW d \in Calls, call'[d].pc \in Opened
        PROVE  /\ call'[d].new = call[d].new /\ call[d].pc \in Opened /\ call[d].new \in Sessions
               /\ OpenedOn(d)' = OpenedOn(d)
    BY <1>1, <2>2 DEF IInv, TypeOK, Call, Callers, Fits, OpenedOn
  <2>3. ASSUME NEW d \in Calls, call'[d].pc = "located"
        PROVE  call'[d].obj = None
    BY <1>1, <2>3 DEF IInv, Fresh
  <2> QED
    BY <2>1, <2>2, <2>3 DEF IInv, Fresh, Known
<1>3. Switching' <=> Switching
  BY <1>1 DEF Switching
<1>4. (\A c \in Calls : call'[c].pc # "closing") <=> (\A c \in Calls : call[c].pc # "closing")
  BY <1>1
<1>5. loaded # None => loaded \in Sessions /\ Known(loaded)
  BY DEF IInv, TypeOK, Objects, Known
<1>12. Unwritten' => Unwritten
  BY DEF Unwritten
<1>6. ASSUME record' = record,
             \A s \in Sessions : Known(s) => object'[s].rec = object[s].rec
      PROVE  Matches' /\ Restored'
  <2>1. ASSUME NEW c \in Calls, call'[c].pc \in {"replacing", "closing"}
        PROVE  /\ record.native = native[call'[c].new] /\ record.native = call'[c].rec.native
               /\ Unwritten => record = call'[c].rec
    BY <1>1, <2>1 DEF IInv, Matches
  <2>2. Matches'
    BY <1>3, <1>4, <1>5, <1>6, <1>12, <2>1 DEF IInv, Matches, Known
  <2>3. ASSUME NEW c \in Calls, call'[c].pc = "located"
        PROVE  call'[c].rec = call[c].rec /\ call[c].pc = "located"
    BY <1>1, <2>3
  <2>4. Restored'
    BY <1>6, <2>3 DEF IInv, Restored, Early
  <2> QED
    BY <2>2, <2>4
<1>7. ASSUME NEW o \in Sessions, Known(o), record # None, record' # None,
             record'.native = record.native, object[o].rec.native = record.native,
             object'[o].rec = record',
             \A s \in Sessions \ {o} : Known(s) => object'[s].rec = object[s].rec,
             "write" \in mishaps' \/ record' = record \/ ~Outdated(o)
      PROVE  Matches' /\ Restored'
  <2>1. loaded # None
    BY <1>7 DEF IInv, Matches
  <2>2. ASSUME Unwritten', ~Switching
        PROVE  object'[loaded].rec = record'
    <3>1. object[loaded].rec = record /\ Known(loaded) /\ loaded \in Sessions
      BY <1>5, <1>12, <2>1, <2>2 DEF IInv, Matches
    <3>2. record' = record \/ loaded = o
      BY <1>7, <2>2 DEF Unwritten, Outdated
    <3> QED
      BY <1>7, <3>1, <3>2
  <2>3. ASSUME NEW c \in Calls, call'[c].pc \in {"replacing", "closing"}
        PROVE  /\ record'.native = native[call'[c].new] /\ record'.native = call'[c].rec.native
               /\ Unwritten' => record' = call'[c].rec
    <3>1. call'[c] = call[c]
      BY <1>1, <2>3
    <3>2. /\ record.native = native[call[c].new] /\ record.native = call[c].rec.native
          /\ Unwritten => record = call[c].rec
      BY <2>3, <3>1 DEF IInv, Matches
    <3>3. call[c].pc \in Rolling /\ call[c].op = "rollback"
      BY <2>3, <3>1 DEF Rolling, IInv, Callers, Fits
    <3>4. call[c].obj = loaded
      BY <3>3, OneOpened
    <3>5. Outdated(o)
      BY <2>3, <3>1, <3>4 DEF Outdated
    <3>6. Unwritten' => record' = record
      BY <1>7, <3>5 DEF Unwritten
    <3> QED
      BY <1>7, <1>12, <3>1, <3>2, <3>6
  <2>4. ASSUME NEW s \in Sessions, Known(s)'
        PROVE  /\ object'[s].rec.native = native[s] /\ native[s] \in {Origin, s}
               /\ ~inPlace /\ (s # loaded \/ Switching) => native[s] # record.native
    <3>1. Known(s) /\ object'[s].rec.native = object[s].rec.native
      BY <1>7, <2>4 DEF Known
    <3> QED
      BY <1>7, <3>1 DEF IInv, Matches
  <2>5. Matches'
    <3>1. ~Switching => native[loaded] = record'.native
      BY <1>7, <2>1 DEF IInv, Matches
    <3>2. (\A c \in Calls : call'[c].pc # "closing") => session[loaded] = "open"
      BY <1>4, <2>1 DEF IInv, Matches
    <3> QED
      BY <1>3, <1>7, <2>1, <2>2, <2>3, <2>4, <3>1, <3>2 DEF Matches
  <2> QED
    BY <2>1, <2>5 DEF Restored
<1>8. Derived'
  BY <1>1 DEF IInv, Derived, Known
<1> QED
  BY <1>2, <1>6, <1>7, <1>8 DEF RecordFollows

\* nothing happens but to the callers
Rest == UNCHANGED <<record, derived, inPlace, history, born, session, native, object,
                    loaded, restoring, succeeded, overtaken, mishaps>>

\* a call ends
LEMMA JustEnds ==
  ASSUME IInv, NEW c \in Calls, Ended(c), Rest, call[c].pc \notin Opened \cup {"forkOpening"}
  PROVE  IInv'
<1>1. call' \in [Calls -> Call] /\ Ends(c)
  BY EndedCall DEF Ends, IInv, TypeOK
<1>2. TypeOK'
  BY <1>1 DEF IInv, TypeOK, Rest
<1>3. ObjectsStay /\ RecordStays
  BY DEF ObjectsStay, RecordStays, Rest
<1>4. Callers' /\ Objects' /\ Restores' /\ Histories'
  BY <1>1, <1>3, EndsPlainly DEF Rest
<1>5. Mild
  BY <1>1 DEF Mild, Ends, Others
<1>6. RecordFollows
  BY DEF RecordFollows, Rest
<1>7. Fresh' /\ Matches' /\ Derived' /\ Restored'
  BY <1>5, <1>6, MildKeeps DEF Rest
<1> QED
  BY <1>2, <1>4, <1>7 DEF IInv

\* a call goes on with the object and the session it has
LEMMA JustGoes ==
  ASSUME IInv, NEW c \in Calls, NEW p, Goes(c, p), call' \in [Calls -> Call], Rest,
         Fits(call'[c]), call'[c].new = call[c].new,
         call[c].pc \in Resolved \ {"forkOpening", "forkReading", "replacing", "closing"},
         p \in Resolved \ {"replacing", "closing"}
  PROVE  IInv'
<1>1. TypeOK'
  BY DEF IInv, TypeOK, Rest
<1>2. ObjectsStay /\ RecordStays
  BY DEF ObjectsStay, RecordStays, Rest
<1>3. Callers' /\ Objects' /\ Restores' /\ Histories'
  BY <1>2, GoesPlainly DEF Rest
<1>4. call[c].pc \in Opened <=> call'[c].pc \in Opened
  BY DEF IInv, Callers, Fits
<1>5. Mild
  BY <1>4 DEF Mild, Goes, Others
<1>6. RecordFollows
  BY DEF RecordFollows, Rest
<1>7. Fresh' /\ Matches' /\ Derived' /\ Restored'
  BY <1>5, <1>6, MildKeeps DEF Rest
<1> QED
  BY <1>1, <1>3, <1>7 DEF IInv

LEMMA BeginKeeps ==
  ASSUME IInv, NEW c \in Calls, Begin(c)
  PROVE  IInv'
<1>1. PICK op \in Operations(c) :
        /\ Surroundings(c)
        /\ op = "fork" => derived.state = "none"
        /\ \/ /\ loaded # None
              /\ call' = [call EXCEPT ![c].op = op, ![c].pc = "resolved", ![c].obj = loaded]
           \/ /\ loaded = None /\ record # None
              /\ call' = [call EXCEPT ![c].op = op, ![c].pc = "located", ![c].rec = record]
           \/ loaded = None /\ record = None /\ Ended(c)
  BY DEF Begin
<1>2. /\ call[c] = Free /\ op \in {"read", "send", "rollback", "fork", "delete"}
      /\ Rest /\ call \in [Calls -> Call]
  BY DEF Begin, storeVars, sessionVars, nativeVars, ghostVars, Rest, Operations, IInv, TypeOK
<1>3. CASE loaded = None /\ record = None /\ Ended(c)
  <2>1. call[c].pc \notin Opened \cup {"forkOpening"}
    BY <1>2, FreeCall DEF Opened
  <2> QED
    BY <1>2, <1>3, <2>1, JustEnds
<1>4. CASE ~(loaded = None /\ record = None /\ Ended(c))
  <2> DEFINE k == call'[c]
  <2>1. /\ call' \in [Calls -> Call] /\ Others(c)
        /\ k.op = op /\ k.new = None
        /\ \/ /\ loaded # None /\ k.pc = "resolved" /\ k.obj = loaded
           \/ /\ loaded = None /\ record # None /\ k.pc = "located"
              /\ k.rec = record /\ k.obj = None
    BY <1>1, <1>2, <1>4 DEF Others, Call, Pcs, Free, IInv, TypeOK
  <2>2. ~Begun(c) /\ Begun(c)'
    BY <1>2, <2>1 DEF Begun, Free
  <2>3. ASSUME NEW d \in Calls \ {c}
        PROVE  call'[d] = call[d] /\ Begun(d)' = Begun(d)
    BY <2>1 DEF Others, Begun
  <2>4. TypeOK'
    BY <1>2, <2>1 DEF IInv, TypeOK, Rest
  <2>5. Callers'
    <3>1. Fits(k)
      BY <1>2, <2>1 DEF IInv, Histories, Fits, Rolling, Forking, Opened
    <3>2. ASSUME NEW d \in Calls
          PROVE  Fits(call[d])' /\ (Begun(d)' => (call[d].op \in Operations(d))')
      BY <1>1, <2>1, <2>3, <3>1 DEF IInv, Callers, Operations
    <3>3. Serial'
      <4>1. ASSUME NEW d \in Desktop, c \in Desktop, d # c, Begun(d)
            PROVE  call[d].op = "send"
        BY <1>1, <4>1 DEF Surroundings
      <4> QED
        BY <2>3, <4>1 DEF Serial, IInv, Callers, Calls
    <3> QED
      BY <3>2, <3>3 DEF Callers
  <2>6. Objects'
    <3>1. Holds(c)'
      BY <1>1, <1>2, <2>1 DEF Holds, IInv, Objects, TypeOK, Resolved, Rolling, Forking, Rest
    <3>2. ASSUME NEW d \in Calls \ {c}
          PROVE  Holds(d)'
      BY <1>2, <2>3 DEF Holds, IInv, Objects, Rest
    <3> QED
      BY <1>2, <3>1, <3>2 DEF IInv, Objects, Rest
  <2>7. Restores'
    BY <1>2, <2>1, <2>3 DEF IInv, Restores, Rest, Matches
  <2>9. k.pc \notin Opened \cup {"forkOpening"} /\ call[c].pc \notin Opened \cup {"forkOpening"}
    BY <1>2, <2>1 DEF Free, Opened
  <2>8. Histories'
    <3>1. ASSUME NEW s \in Sessions, Owned(s)
          PROVE  Owned(s)'
      BY <1>2, <2>3, <2>9, <3>1 DEF Owned, Rest
    <3>2. ASSUME NEW s \in Sessions, Reverting(s)
          PROVE  Reverting(s)'
      BY <1>2, <2>3, <2>9, <3>2 DEF Reverting, Rest
    <3> QED
      BY <1>2, <3>1, <3>2 DEF IInv, Histories, Rest
  <2>10. Fresh'
    <3>1. \A d \in Calls : call'[d].pc \in Opened => call'[d] = call[d] /\ OpenedOn(d)' = OpenedOn(d)
      BY <1>2, <2>3, <2>9 DEF OpenedOn, Rest
    <3> QED
      BY <1>2, <2>1, <2>3, <3>1 DEF IInv, Fresh, Known, Rest
  <2>11. Matches'
    <3>1. Switching' <=> Switching
      BY <2>3, <2>9 DEF Switching, Opened
    <3>2. (\A d \in Calls : call'[d].pc # "closing") <=> (\A d \in Calls : call[d].pc # "closing")
      BY <2>3, <2>9 DEF Opened
    <3>3. \A d \in Calls : call'[d].pc \in {"replacing", "closing"} => call'[d] = call[d]
      BY <2>3, <2>9 DEF Opened
    <3>4. Unwritten' = Unwritten
      BY <1>2 DEF Unwritten, Rest
    <3> QED
      BY <1>2, <3>1, <3>2, <3>3, <3>4 DEF IInv, Matches, Known, Rest
  <2>12. Derived'
    <3>1. \A d \in Calls : call'[d].pc \in Resolved =>
            (call'[d].obj = loaded /\ loaded # None) \/ (call'[d] = call[d] /\ call[d].pc \in Resolved)
      <4>1. k.pc \in Resolved => k.obj = loaded /\ loaded # None
        BY <2>1 DEF Resolved, Rolling, Forking
      <4>2. ASSUME NEW d \in Calls \ {c}
            PROVE  call'[d] = call[d]
        BY <2>3
      <4> HIDE DEF k
      <4>3. ASSUME NEW d \in Calls, call'[d].pc \in Resolved
            PROVE  (call'[d].obj = loaded /\ loaded # None) \/ (call'[d] = call[d] /\ call[d].pc \in Resolved)
        <5>1. CASE d = c
          BY <4>1, <4>3, <5>1 DEF k
        <5>2. CASE d # c
          BY <4>2, <4>3, <5>2
        <5> QED
          BY <5>1, <5>2
      <4> QED
        BY <4>3
    <3>2. \A d \in Calls : call[d].pc \in {"forkOpening", "forkReading"} => call'[d] = call[d]
      BY <2>3, <2>9 DEF Opened
    <3> QED
      BY <1>2, <3>1, <3>2 DEF IInv, Derived, Known, Rest
  <2>13. Restored'
    <3>1. loaded = None /\ record # None => Early(record)
      BY DEF IInv, Histories, Early
    <3>2. ASSUME loaded = None, record # None, NEW d \in Calls, call'[d].pc = "located"
          PROVE  Early(call'[d].rec)
      <4>1. CASE d = c
        BY <2>1, <3>1, <3>2, <4>1
      <4>2. CASE d # c
        BY <2>3, <3>2, <4>2 DEF IInv, Restored
      <4> QED
        BY <4>1, <4>2
    <3> QED
      BY <1>2, <3>2 DEF IInv, Restored, Early, Rest
  <2> QED
    BY <2>4, <2>5, <2>6, <2>7, <2>8, <2>10, <2>11, <2>12, <2>13 DEF IInv
<1> QED
  BY <1>3, <1>4

LEMMA ProceedKeeps ==
  ASSUME IInv, NEW c \in Calls, Proceed(c)
  PROVE  IInv'
<1>1. Rest /\ call \in [Calls -> Call] /\ call[c].pc = "resolved"
  BY DEF Proceed, At, storeVars, sessionVars, nativeVars, ghostVars, Rest, IInv, TypeOK
<1>2. call[c].pc \in Resolved \ {"forkOpening", "forkReading", "replacing", "closing"}
      /\ call[c].pc \notin Opened \cup {"forkOpening"}
  BY <1>1 DEF Resolved, Opened
<1>3. CASE Ended(c)
  BY <1>1, <1>2, <1>3, JustEnds
<1>4. ASSUME NEW p \in {"reading", "forking"}, Goto(c, p),
             p = "reading" => call[c].op \in {"read", "rollback", "fork"},
             p = "forking" => call[c].op = "fork"
      PROVE  IInv'
  <2>1. p \in Pcs
    BY DEF Pcs
  <2>2. /\ call' \in [Calls -> Call] /\ Goes(c, p)
        /\ call'[c].new = call[c].new /\ call'[c].op = call[c].op
    BY <1>1, <1>4, <2>1, MovedCall DEF Goes
  <2>3. Fits(call[c])
    BY DEF IInv, Callers
  <2>4. Fits(call'[c])
    BY <1>1, <1>4, <2>2, <2>3 DEF Fits, Goes, Rolling, Forking, Opened
  <2>5. p \in Resolved \ {"replacing", "closing"}
    BY DEF Resolved, Forking
  <2> QED
    BY <1>1, <1>2, <2>2, <2>4, <2>5, JustGoes
<1>5. CASE ~Ended(c)
  <2> DEFINE o == call[c].obj
  <2>1. \/ call[c].op = "read" /\ Goto(c, "reading")
        \/ call[c].op = "rollback" /\ Goto(c, "reading")
        \/ call[c].op = "fork" /\ (Goto(c, "forking") \/ Goto(c, "reading"))
    BY <1>5 DEF Proceed
  <2> QED
    BY <1>4, <2>1
<1> QED
  BY <1>3, <1>5

LEMMA ReadSnapshotKeeps ==
  ASSUME IInv, NEW c \in Calls, ReadSnapshot(c)
  PROVE  IInv'
<1>1. Rest /\ call \in [Calls -> Call] /\ call[c].pc = "reading"
  BY DEF ReadSnapshot, At, storeVars, sessionVars, nativeVars, ghostVars, Rest, IInv, TypeOK
<1>2. call[c].pc \in Resolved \ {"forkOpening", "forkReading", "replacing", "closing"}
      /\ call[c].pc \notin Opened \cup {"forkOpening"}
  BY <1>1 DEF Resolved, Opened
<1>3. CASE Ended(c)
  BY <1>1, <1>2, <1>3, JustEnds
<1>4. CASE ~Ended(c)
  <2> DEFINE o == call[c].obj
             h == history[native[o]]
  <2>1. /\ session[o] = "open"
        /\ call' = [call EXCEPT ![c].pc = "aligning", ![c].snap = h]
    BY <1>4 DEF ReadSnapshot
  <2>2. o \in Sessions
    BY <1>2 DEF IInv, Objects, Holds
  <2>3. h \in Seq(Nat)
    BY <2>1, <2>2, Names DEF IInv, TypeOK, Histories
  <2> HIDE DEF h
  <2>4. /\ call' \in [Calls -> Call] /\ Goes(c, "aligning") /\ call'[c].new = call[c].new
        /\ call'[c].snap = h
    <3> DEFINE k == [call[c] EXCEPT !.pc = "aligning", !.snap = h]
    <3>1. call[c] \in Call
      BY <1>1
    <3>2. k \in Call /\ k.pc = "aligning" /\ k.snap = h
      BY <2>3, <3>1 DEF Call, Pcs
    <3>3. k.op = call[c].op /\ k.obj = call[c].obj /\ k.new = call[c].new
      BY <3>1 DEF Call
    <3>4. call' = [call EXCEPT ![c] = k]
      BY <1>1, <2>1, <3>1 DEF Call
    <3> HIDE DEF k
    <3> QED
      BY <1>1, <3>2, <3>3, <3>4 DEF Goes, Others
  <2>5. Fits(call[c])
    BY DEF IInv, Callers
  <2>6. Fits(call'[c])
    BY <1>1, <2>4, <2>5 DEF Fits, Goes, Rolling, Forking, Opened
  <2>7. "aligning" \in Resolved \ {"replacing", "closing"}
    BY DEF Resolved
  <2> QED
    BY <1>1, <1>2, <2>4, <2>6, <2>7, JustGoes
<1> QED
  BY <1>3, <1>4

\* where a call is after a refresh
LEMMA Refreshed ==
  ASSUME IInv, NEW c \in Calls, call[c].pc = "aligning", AfterRefresh(c) \/ Ended(c)
  PROVE  /\ call' \in [Calls -> Call]
         /\ \/ Ends(c)
            \/ \E p \in {"opening", "forking"} :
                 /\ Goes(c, p) /\ call'[c].new = call[c].new /\ Fits(call'[c])
<1>1. call \in [Calls -> Call]
  BY DEF IInv, TypeOK
<1>2. CASE Ended(c)
  BY <1>1, <1>2, EndedCall DEF Ends
<1>3. ASSUME NEW p \in {"opening", "forking"}, Goto(c, p),
             p = "opening" => call[c].op = "rollback",
             p = "forking" => call[c].op = "fork"
      PROVE  /\ call' \in [Calls -> Call] /\ Goes(c, p) /\ call'[c].new = call[c].new
             /\ Fits(call'[c])
  <2>1. p \in Pcs
    BY DEF Pcs
  <2>2. /\ call' \in [Calls -> Call] /\ Goes(c, p)
        /\ call'[c].new = call[c].new /\ call'[c].op = call[c].op
    BY <1>1, <1>3, <2>1, MovedCall DEF Goes
  <2>3. Fits(call[c])
    BY DEF IInv, Callers
  <2>4. Fits(call'[c])
    BY <1>3, <2>2, <2>3 DEF Fits, Goes, Rolling, Forking, Opened
  <2> QED
    BY <2>2, <2>4
<1>4. CASE ~Ended(c)
  <2>1. call[c].op \in {"read", "rollback", "fork"}
    BY DEF IInv, Callers, Fits
  <2>2. \/ call[c].op = "rollback" /\ Goto(c, "opening")
        \/ call[c].op = "fork" /\ Goto(c, "forking")
    BY <1>4, <2>1 DEF AfterRefresh
  <2> QED
    BY <1>3, <2>2
<1> QED
  BY <1>2, <1>4

\* a refresh changes mappings and nothing else
LEMMA RefreshKeeps ==
  ASSUME IInv, NEW c \in Calls, Refresh(c)
  PROVE  IInv'
<1> DEFINE o == call[c].obj
           rec == object[o].rec
           turns == Align(rec, call[c].snap, c)
<1>1. /\ UNCHANGED <<derived, inPlace, history, born, session, native, loaded, restoring,
                     succeeded, overtaken>>
      /\ call \in [Calls -> Call] /\ call[c].pc = "aligning"
  BY DEF Refresh, At, sessionVars, nativeVars, IInv, TypeOK
<1>2. call[c].pc \in Resolved \ Opened
  BY <1>1 DEF Resolved, Opened
<1>3. o \in Sessions /\ object[o] \in Object /\ call[c].snap \in Seq(Nat)
  BY <1>1, <1>2 DEF IInv, Objects, Holds, TypeOK, Call
<1>4. rec \in Record /\ turns \in Seq(Turn)
  BY <1>3, AlignType DEF Object
<1>5. \/ UNCHANGED <<record, object, mishaps>> /\ (AfterRefresh(c) \/ Ended(c))
      \/ /\ record # None /\ record.native = rec.native
         /\ record' = [record EXCEPT !.turns = turns]
         /\ object' = [object EXCEPT ![o].rec = record']
         /\ Mishap("write", record' # record /\ Outdated(o))
         /\ AfterRefresh(c)
  BY DEF Refresh, Reconciles
<1> HIDE DEF turns
<1>6. /\ RecordStays /\ record' \in Record \cup {None}
      /\ object' \in [Sessions -> Object \cup {None}]
      /\ \A s \in Sessions : object'[s] # None <=> object[s] # None
      /\ RecordFollows
      /\ mishaps \subseteq mishaps' /\ mishaps' \subseteq mishaps \cup {"write"}
  <2>1. CASE UNCHANGED <<record, object, mishaps>>
    BY <2>1 DEF RecordStays, RecordFollows, IInv, TypeOK
  <2>2. CASE /\ record # None /\ record.native = rec.native
             /\ record' = [record EXCEPT !.turns = turns]
             /\ object' = [object EXCEPT ![o].rec = record']
             /\ Mishap("write", record' # record /\ Outdated(o))
    <3>1. record' \in Record /\ record'.native = record.native
      BY <1>4, <2>2, WithTurns DEF IInv, TypeOK
    <3> DEFINE x == [object[o] EXCEPT !.rec = record']
    <3>2. x \in Object /\ x.rec = record'
      BY <1>3, <3>1 DEF Object
    <3>3. object' = [object EXCEPT ![o] = x]
      BY <2>2
    <3> HIDE DEF x
    <3>4. /\ object' \in [Sessions -> Object \cup {None}]
          /\ object'[o] = x /\ x # None /\ object[o] # None
          /\ \A s \in Sessions \ {o} : object'[s] = object[s]
      BY <1>3, <3>2, <3>3, NoneIsNoRecord DEF IInv, TypeOK
    <3>5. mishaps \subseteq mishaps' /\ mishaps' \subseteq mishaps \cup {"write"}
          /\ ("write" \in mishaps' \/ record' = record \/ ~Outdated(o))
      BY <2>2 DEF Mishap
    <3>6. RecordFollows
      BY <1>3, <2>2, <3>1, <3>2, <3>4, <3>5, NoneIsNoRecord DEF RecordFollows, Known
    <3> QED
      BY <2>2, <3>1, <3>2, <3>4, <3>5, <3>6, NoneIsNoRecord DEF RecordStays
  <2> QED
    BY <1>5, <2>1, <2>2
<1>7. ObjectsStay
  BY <1>6 DEF ObjectsStay
<1>8. /\ call' \in [Calls -> Call]
      /\ \/ Ends(c)
         \/ \E p \in {"opening", "forking"} :
              /\ Goes(c, p) /\ call'[c].new = call[c].new /\ Fits(call'[c])
  BY <1>1, <1>5, Refreshed
<1>9. TypeOK'
  BY <1>1, <1>6, <1>8 DEF IInv, TypeOK
<1>10. CASE Ends(c)
  <2>1. Callers' /\ Objects' /\ Restores' /\ Histories'
    BY <1>1, <1>2, <1>6, <1>7, <1>10, EndsPlainly
  <2>2. Mild
    BY <1>1, <1>10 DEF Mild, Ends, Others, Opened
  <2>3. Fresh' /\ Matches' /\ Derived' /\ Restored'
    BY <1>1, <1>6, <2>2, MildKeeps
  <2> QED
    BY <1>9, <2>1, <2>3 DEF IInv
<1>11. ASSUME NEW p \in {"opening", "forking"}, Goes(c, p), call'[c].new = call[c].new,
              Fits(call'[c])
       PROVE  IInv'
  <2>1. p \in Resolved \ {"replacing", "closing"} /\ p \notin Opened
    BY DEF Resolved, Rolling, Forking, Opened
  <2>2. Callers' /\ Objects' /\ Restores' /\ Histories'
    BY <1>1, <1>2, <1>6, <1>7, <1>11, <2>1, GoesPlainly
  <2>3. Mild
    BY <1>1, <1>2, <1>11, <2>1 DEF Mild, Goes, Others
  <2>4. Fresh' /\ Matches' /\ Derived' /\ Restored'
    BY <1>1, <1>6, <2>3, MildKeeps
  <2> QED
    BY <1>9, <2>2, <2>4 DEF IInv
<1> QED
  BY <1>8, <1>10, <1>11

LEMMA StartTurnKeeps ==
  ASSUME IInv, NEW c \in Calls, StartTurn(c)
  PROVE  IInv'
<1> DEFINE o == call[c].obj
<1>1. /\ UNCHANGED <<record, derived, inPlace, history, born, session, native, loaded,
                     restoring, succeeded, overtaken>>
      /\ call \in [Calls -> Call] /\ call[c].pc = "resolved" /\ call[c].op = "send"
  BY DEF StartTurn, At, storeVars, sessionVars, nativeVars, IInv, TypeOK
<1>2. call[c].pc \in Resolved \ Opened /\ RecordStays
  BY <1>1 DEF Resolved, Opened, RecordStays
<1>3. o \in Sessions /\ object[o] \in Object
  BY <1>2 DEF IInv, Objects, Holds, TypeOK
<1>4. mishaps \subseteq mishaps' /\ mishaps' \subseteq mishaps \cup {"start"}
  BY DEF StartTurn, Mishap
<1>5. /\ object' \in [Sessions -> Object \cup {None}]
      /\ \A s \in Sessions : object'[s] # None <=> object[s] # None
      /\ \A s \in Sessions : object[s] # None => object'[s].rec = object[s].rec
  <2>1. CASE UNCHANGED object
    BY <2>1 DEF IInv, TypeOK
  <2>2. CASE object' = [object EXCEPT ![o].turn = "working"]
    <3> DEFINE x == [object[o] EXCEPT !.turn = "working"]
    <3>1. x \in Object /\ x.rec = object[o].rec
      BY <1>3 DEF Object
    <3>2. object' = [object EXCEPT ![o] = x]
      BY <2>2
    <3> HIDE DEF x
    <3> QED
      BY <1>3, <3>1, <3>2, NoneIsNoRecord DEF IInv, TypeOK
  <2> QED
    BY <2>1, <2>2 DEF StartTurn
<1>6. ObjectsStay
  BY <1>5 DEF ObjectsStay
<1>7. call' \in [Calls -> Call] /\ Ends(c)
  BY <1>1, EndedCall DEF StartTurn, Ends
<1>8. TypeOK'
  BY <1>1, <1>4, <1>5, <1>7 DEF IInv, TypeOK
<1>9. Callers' /\ Objects' /\ Restores' /\ Histories'
  BY <1>1, <1>2, <1>6, <1>7, EndsPlainly
<1>10. Mild /\ RecordFollows
  BY <1>1, <1>5, <1>7 DEF Mild, RecordFollows, Ends, Others, Opened, Known
<1>11. Fresh' /\ Matches' /\ Derived' /\ Restored'
  BY <1>1, <1>4, <1>5, <1>10, MildKeeps
<1> QED
  BY <1>8, <1>9, <1>11 DEF IInv

LEMMA CompareKeeps ==
  ASSUME IInv, NEW c \in Calls, Compare(c)
  PROVE  IInv'
<1> DEFINE h == history[native[call[c].new]]
<1>1. /\ Rest /\ call \in [Calls -> Call] /\ call[c].pc = "comparing"
      /\ call' = [call EXCEPT ![c].pc = "committing", ![c].snap = h]
  BY DEF Compare, At, storeVars, sessionVars, nativeVars, ghostVars, Rest, IInv, TypeOK
<1>2. /\ call[c].pc \in Resolved \ {"forkOpening", "forkReading", "replacing", "closing"}
      /\ "committing" \in Resolved \ {"replacing", "closing"}
  BY <1>1 DEF Resolved, Rolling
<1>3. Fits(call[c]) /\ call[c].pc \in Opened
  BY <1>1 DEF IInv, Callers, Opened
<1>4. h \in Seq(Nat)
  <2>1. call[c].new \in Sessions
    BY <1>1, <1>3 DEF Fits, Call
  <2>2. native[call[c].new] \in Natives
    BY <1>3, <2>1, Names DEF IInv, Fresh, OpenedOn
  <2> QED
    BY <2>2 DEF IInv, TypeOK
<1> HIDE DEF h
<1>5. /\ call' \in [Calls -> Call] /\ Goes(c, "committing") /\ call'[c].new = call[c].new
  <2> DEFINE k == [call[c] EXCEPT !.pc = "committing", !.snap = h]
  <2>1. call[c] \in Call
    BY <1>1
  <2>2. k \in Call /\ k.pc = "committing"
    BY <1>4, <2>1 DEF Call, Pcs
  <2>3. k.op = call[c].op /\ k.obj = call[c].obj /\ k.new = call[c].new
    BY <2>1 DEF Call
  <2>4. call' = [call EXCEPT ![c] = k]
    BY <1>1, <2>1 DEF Call
  <2> HIDE DEF k
  <2> QED
    BY <1>1, <2>2, <2>3, <2>4 DEF Goes, Others
<1>6. Fits(call'[c])
  BY <1>1, <1>3, <1>5 DEF Fits, Goes, Rolling, Forking, Opened
<1> QED
  BY <1>1, <1>2, <1>5, <1>6, JustGoes

\* what a rollback in state committing has, and the record it makes
LEMMA Committing ==
  ASSUME IInv, NEW c \in Calls, Commit(c)
  PROVE  LET s == call[c].new
             o == call[c].obj
             next == [native |-> native[s],
                      turns  |-> [i \in 1..Len(call[c].snap) |->
                        [at |-> call[c].snap[i], host |-> object[o].rec.turns[i].host]]]
         IN  /\ s \in Sessions /\ s # None /\ o \in Sessions /\ loaded = o
             /\ native[s] \in Natives /\ native[s] = IF inPlace THEN Origin ELSE s
             /\ object[o] \in Object /\ call[c].snap \in Seq(Nat)
             /\ Len(object[o].rec.turns) = Len(call[c].snap) + 1
             /\ next \in Record /\ record' = next /\ record # None
             /\ call' \in [Calls -> Call] /\ Goes(c, "replacing")
             /\ call'[c].new = s /\ call'[c].rec = next /\ Fits(call'[c])
<1> DEFINE s == call[c].new
           o == call[c].obj
           rec == object[o].rec
           snap == call[c].snap
           next == [native |-> native[s],
                    turns  |-> [i \in 1..Len(snap) |->
                                  [at |-> snap[i], host |-> rec.turns[i].host]]]
<1>1. call \in [Calls -> Call] /\ call[c].pc = "committing"
  BY DEF Commit, At, IInv, TypeOK
<1>2. Fits(call[c]) /\ Holds(c)
  BY DEF IInv, Callers, Objects
<1>3. /\ call[c].pc \in Resolved /\ call[c].pc \in Opened
      /\ call[c].op = "rollback" /\ s # None
  BY <1>1, <1>2 DEF Fits, Resolved, Rolling, Opened
<1>4. /\ s \in Sessions /\ o \in Sessions /\ object[o] # None /\ loaded = o
      /\ snap \in Seq(Nat)
  BY <1>1, <1>2, <1>3 DEF Holds, IInv, TypeOK, Call
<1>5. /\ object[o] \in Object /\ rec \in Record
      /\ native[s] = (IF inPlace THEN Origin ELSE s) /\ native[s] \in Natives
  BY <1>3, <1>4, Names DEF IInv, TypeOK, Object, Fresh, OpenedOn
<1>6. /\ Len(rec.turns) = Len(snap) + 1 /\ record' = next /\ record # None
      /\ call' = [call EXCEPT ![c].pc = "replacing", ![c].rec = next]
  BY DEF Commit
<1>7. next \in Record
  BY <1>4, <1>5, <1>6, RolledBack
<1> HIDE DEF next
<1>8. /\ call' \in [Calls -> Call] /\ Goes(c, "replacing")
      /\ call'[c].new = call[c].new /\ call'[c].rec = next
  <2> DEFINE k == [call[c] EXCEPT !.pc = "replacing", !.rec = next]
  <2>1. call[c] \in Call
    BY <1>1
  <2>2. k \in Call /\ k.pc = "replacing" /\ k.rec = next
    BY <1>7, <2>1 DEF Call, Pcs
  <2>3. k.op = call[c].op /\ k.obj = call[c].obj /\ k.new = call[c].new
    BY <2>1 DEF Call
  <2>4. call' = [call EXCEPT ![c] = k]
    BY <1>1, <1>6, <2>1 DEF Call
  <2> HIDE DEF k
  <2> QED
    BY <1>1, <2>2, <2>3, <2>4 DEF Goes, Others
<1>9. Fits(call'[c])
  BY <1>1, <1>2, <1>7, <1>8, NoneIsNoRecord DEF Fits, Goes, Rolling, Forking, Opened
<1> QED
  BY <1>3, <1>4, <1>5, <1>6, <1>7, <1>8, <1>9 DEF next

\* the record moves to the new session while the thread is loaded
LEMMA CommitKeeps ==
  ASSUME IInv, NEW c \in Calls, Commit(c)
  PROVE  IInv'
<1> DEFINE s == call[c].new
           o == call[c].obj
<1>1. /\ UNCHANGED <<derived, inPlace, history, born, session, native, object, loaded,
                     restoring, succeeded, overtaken, mishaps>>
      /\ call[c].pc = "committing"
  BY DEF Commit, At, sessionVars, nativeVars, ghostVars
<1>2. PICK next \in Record :
        /\ next.native = native[s] /\ record' = next /\ call'[c].rec = next
  BY Committing
<1>3. /\ s \in Sessions /\ s # None /\ o \in Sessions /\ loaded = o
      /\ native[s] \in Natives /\ native[s] = IF inPlace THEN Origin ELSE s
      /\ record # None
      /\ call' \in [Calls -> Call] /\ Goes(c, "replacing")
      /\ call'[c].new = s /\ Fits(call'[c])
  BY Committing
<1>4. /\ call[c].pc \in Resolved /\ "replacing" \in Resolved /\ call[c].pc \in Rolling
      /\ call[c].pc \in Opened /\ next # None
  BY <1>1, NoneIsNoRecord DEF Resolved, Rolling, Opened
<1>5. call[c].op = "rollback" /\ \A d \in Calls \ {c} : call[d].pc \notin Rolling \cup Opened
  BY <1>4, OneOpened DEF IInv, Callers, Fits
<1>10. TypeOK'
  BY <1>1, <1>2, <1>3 DEF IInv, TypeOK
<1>11. ObjectsStay /\ RecordStays
  BY <1>1, <1>2, <1>3, <1>4, Names DEF ObjectsStay, RecordStays, IInv, Histories
<1>12. Callers' /\ Objects' /\ Restores' /\ Histories'
  BY <1>1, <1>3, <1>4, <1>11, GoesPlainly
<1>14. ASSUME NEW d \in Calls \ {c}
       PROVE  call'[d] = call[d] /\ call[d].pc \notin {"replacing", "closing"}
  BY <1>3, <1>5 DEF Goes, Others, Rolling
<1>15. Fresh'
  <2>1. OpenedOn(c)' = OpenedOn(c)
    BY <1>1, <1>3 DEF OpenedOn, Goes
  <2>2. \A d \in Calls \ {c} : OpenedOn(d)' = OpenedOn(d)
    BY <1>1, <1>14 DEF OpenedOn
  <2> QED
    BY <1>1, <1>3, <1>4, <1>14, <2>1, <2>2 DEF IInv, Fresh, Known, Goes
<1>17. ~Known(s) /\ s # Origin
  BY <1>3, <1>4, Names DEF IInv, Fresh
<1>18. Matches'
  <2>1. Switching'
    BY <1>3 DEF Switching, Goes
  <2>2. ASSUME NEW d \in Calls, call'[d].pc \in {"replacing", "closing"}
        PROVE  /\ record'.native = native'[call'[d].new] /\ record'.native = call'[d].rec.native
               /\ record' = call'[d].rec
    <3>1. d = c
      BY <1>14, <2>2
    <3> QED
      BY <1>1, <1>2, <1>3, <3>1
  <2>3. ASSUME ~inPlace, NEW x \in Sessions, Known(x)
        PROVE  native[x] # record'.native
    BY <1>2, <1>3, <1>17, <2>3 DEF IInv, Matches
  <2>4. \A d \in Calls : call[d].pc # "closing"
    BY <1>1, <1>14
  <2>5. loaded # None /\ session[loaded] = "open"
    BY <1>3, <2>4, Names DEF IInv, Matches
  <2>6. ASSUME NEW x \in Sessions, Known(x)'
        PROVE  Known(x) /\ object'[x].rec.native = native'[x] /\ native'[x] \in {Origin, x}
    BY <1>1, <2>6 DEF IInv, Matches, Known
  <2> QED
    BY <1>1, <1>2, <1>4, <2>1, <2>2, <2>3, <2>5, <2>6 DEF Matches
<1>19. Derived'
  <2>1. \A d \in Calls : call'[d].pc \in Resolved =>
          call[d].pc \in Resolved /\ call'[d].obj = call[d].obj
    BY <1>3, <1>4, <1>14 DEF Goes
  <2> QED
    BY <1>1, <1>14, <2>1 DEF IInv, Derived, Known
<1>20. Restored'
  BY <1>1, <1>3, Names DEF Restored
<1> QED
  BY <1>10, <1>12, <1>15, <1>18, <1>19, <1>20 DEF IInv

-----------------------------------------------------------------------------
(* Restores *)

\* a call that looks for the thread's object joins a restore, finds the object
\* or starts a restore, which then is the only one
LEMMA ResolveKeeps ==
  ASSUME IInv, NEW c \in Calls, Resolve(c)
  PROVE  IInv'
<1>1. /\ UNCHANGED <<record, derived, inPlace, history, born, session, native, object,
                     loaded, succeeded, overtaken, mishaps>>
      /\ call \in [Calls -> Call] /\ call[c].pc = "located" /\ call[c].op # "delete"
  BY DEF Resolve, At, storeVars, sessionVars, nativeVars, ghostVars, IInv, TypeOK
<1>2. Fits(call[c]) /\ Holds(c) /\ Begun(c)
  BY <1>1 DEF IInv, Callers, Objects, Begun
<1>3. call[c].new = None /\ call[c].rec \in Record /\ call[c].rec.native = Origin
  BY <1>1, <1>2 DEF Fits, Opened, Call
<1> DEFINE started == [step |-> "opening", rec |-> call[c].rec, new |-> None, snap |-> <<>>]
<1>4. started \in Restoration /\ started # None
  <2> DEFINE none == <<>>
  <2>1. none \in Seq(Nat) /\ call[c].rec \in Record
    BY <1>3
  <2>2. started = [step |-> "opening", rec |-> call[c].rec, new |-> None, snap |-> none]
    OBVIOUS
  <2> HIDE DEF none, started
  <2>3. started \in Restoration
    BY <2>1, <2>2 DEF Restoration
  <2> QED
    BY <2>3, NoneIsNoRecord
<1>5. \/ /\ restoring # None \/ loaded # None
         /\ UNCHANGED restoring
      \/ restoring = None /\ loaded = None /\ restoring' = started
  BY DEF Resolve
<1>6. restoring' = None => loaded # None
  BY <1>4, <1>5
<1>7. /\ call' \in [Calls -> Call] /\ Others(c)
      /\ call'[c].op = call[c].op /\ call'[c].new = None
      /\ \/ call'[c].pc = "awaiting"
         \/ call'[c].pc = "resolved" /\ loaded # None /\ call'[c].obj = loaded
  <2>1. CASE call' = [call EXCEPT ![c].pc = "awaiting", ![c].rec = None]
    <3> DEFINE k == [call[c] EXCEPT !.pc = "awaiting", !.rec = None]
    <3>1. call[c] \in Call
      BY <1>1
    <3>2. k \in Call /\ k.pc = "awaiting"
      BY <3>1 DEF Call, Pcs
    <3>3. k.op = call[c].op /\ k.new = call[c].new
      BY <3>1 DEF Call
    <3>4. call' = [call EXCEPT ![c] = k]
      BY <1>1, <2>1, <3>1 DEF Call
    <3> HIDE DEF k
    <3> QED
      BY <1>1, <1>3, <3>2, <3>3, <3>4 DEF Others
  <2>2. CASE /\ loaded # None
             /\ call' = [call EXCEPT ![c].pc = "resolved", ![c].obj = loaded, ![c].rec = None]
    <3> DEFINE k == [call[c] EXCEPT !.pc = "resolved", !.obj = loaded, !.rec = None]
    <3>1. call[c] \in Call /\ loaded \in Sessions \cup {None}
      BY <1>1 DEF IInv, TypeOK
    <3>2. k \in Call /\ k.pc = "resolved" /\ k.obj = loaded
      BY <3>1 DEF Call, Pcs
    <3>3. k.op = call[c].op /\ k.new = call[c].new
      BY <3>1 DEF Call
    <3>4. call' = [call EXCEPT ![c] = k]
      BY <1>1, <2>2, <3>1 DEF Call
    <3> HIDE DEF k
    <3> QED
      <4>1. call' \in [Calls -> Call] /\ Others(c) /\ call'[c] = k
        BY <1>1, <3>2, <3>4 DEF Others
      <4> QED
        BY <1>3, <2>2, <3>2, <3>3, <4>1
  <2> QED
    BY <2>1, <2>2 DEF Resolve
<1>8. TypeOK'
  BY <1>1, <1>4, <1>5, <1>7 DEF IInv, TypeOK
<1>9. Fits(call'[c])
  BY <1>1, <1>7 DEF Fits, Rolling, Forking, Opened
<1>10. Callers'
  BY <1>2, <1>7, <1>9, GoesCallers DEF IInv
<1>11. Objects'
  <2>1. ObjectsStay
    BY <1>1 DEF ObjectsStay
  <2>2. Holds(c)'
    BY <1>1, <1>2, <1>7 DEF IInv, Objects, TypeOK, Holds, Resolved, Rolling, Forking, Begun
  <2>3. ASSUME NEW d \in Calls
        PROVE  Holds(d)'
    BY <1>1, <1>7, <2>1, <2>2, OthersHold DEF Others, IInv
  <2> QED
    BY <1>1, <2>3 DEF IInv, Objects
<1>12. Restores'
  <2>1. started.rec.native = Origin /\ started.new = None /\ started.step = "opening"
    BY <1>3
  <2>2. record # None
    BY <1>1 DEF IInv, Restores
  <2> QED
    BY <1>1, <1>5, <2>1, <2>2 DEF IInv, Restores
<1>13. Histories'
  <2>1. call[c].pc \notin Opened
    BY <1>1 DEF Opened
  <2>2. ASSUME NEW s \in Sessions, Owned(s)
        PROVE  Owned(s)'
    BY <1>1, <1>5, <1>7, <2>1, <2>2 DEF Owned, Others
  <2>3. ASSUME NEW s \in Sessions, Reverting(s)
        PROVE  Reverting(s)'
    BY <1>1, <1>7, <2>1, <2>3 DEF Reverting, Others
  <2> QED
    BY <1>1, <1>5, <2>2, <2>3 DEF IInv, Histories
<1>14. /\ call'[c].pc \notin Opened \cup {"located", "aligning", "forkOpening"}
       /\ call[c].pc \notin Opened \cup {"forkOpening"}
  BY <1>1, <1>7 DEF Opened
<1>15. started.new = None /\ started.rec = call[c].rec /\ started.step = "opening"
  OBVIOUS
<1> HIDE DEF started
<1>16. Fresh'
  <2>1. \A d \in Calls : call'[d].pc \in Opened => call'[d] = call[d] /\ OpenedOn(d)' = OpenedOn(d)
    BY <1>1, <1>7, <1>14 DEF OpenedOn, Others
  <2> QED
    BY <1>1, <1>5, <1>7, <1>14, <1>15, <2>1 DEF IInv, Fresh, Known, Others
<1>17. Matches'
  <2>1. Switching' <=> Switching
    BY <1>7, <1>14 DEF Switching, Opened, Others
  <2>2. ASSUME NEW d \in Calls, call[d].pc \in {"replacing", "closing"}
        PROVE  call'[d] = call[d]
    BY <1>7, <1>14, <2>2 DEF Opened, Others
  <2>3. ASSUME NEW d \in Calls, call'[d].pc \in {"replacing", "closing"}
        PROVE  call'[d] = call[d]
    BY <1>7, <1>14, <2>3 DEF Opened, Others
  <2>5. (\A d \in Calls : call'[d].pc # "closing") <=> (\A d \in Calls : call[d].pc # "closing")
    BY <2>2, <2>3
  <2>6. Unwritten' = Unwritten
    BY <1>1 DEF Unwritten
  <2> QED
    BY <1>1, <2>1, <2>3, <2>5, <2>6 DEF IInv, Matches, Known
<1>18. Derived'
  <2>1. \A d \in Calls : call'[d].pc \in Resolved =>
          (call'[d].obj = loaded /\ loaded # None) \/ (call'[d] = call[d] /\ call[d].pc \in Resolved)
    <3>1. call'[c].pc \in Resolved => call'[c].obj = loaded /\ loaded # None
      BY <1>7 DEF Resolved, Rolling, Forking
    <3>2. ASSUME NEW d \in Calls, call'[d].pc \in Resolved
          PROVE  (call'[d].obj = loaded /\ loaded # None) \/ (call'[d] = call[d] /\ call[d].pc \in Resolved)
      <4>1. CASE d = c
        BY <3>1, <3>2, <4>1
      <4>2. CASE d # c
        BY <1>7, <3>2, <4>2 DEF Others
      <4> QED
        BY <4>1, <4>2
    <3> QED
      BY <3>2
  <2> QED
    BY <1>1, <1>7, <1>14, <2>1 DEF IInv, Derived, Known, Opened, Others
<1>19. Restored'
  <2>1. ASSUME NEW d \in Calls, call'[d].pc = "located"
        PROVE  call'[d] = call[d]
    BY <1>7, <1>14, <2>1 DEF Others
  <2>2. loaded = None /\ record # None => Early(call[c].rec)
    BY <1>1 DEF IInv, Restored
  <2>3. ASSUME loaded = None, record # None, NEW d \in Calls, call'[d].pc = "located"
        PROVE  Early(call'[d].rec)
    BY <2>1, <2>3 DEF IInv, Restored
  <2> QED
    BY <1>1, <1>5, <1>15, <2>2, <2>3 DEF IInv, Restored, Early
<1> QED
  BY <1>8, <1>10, <1>11, <1>12, <1>13, <1>16, <1>17, <1>18, <1>19 DEF IInv

\* what a restore makes of the first record, and of one that is complete
LEMMA AlignFirst ==
  ASSUME NEW rec \in Record, rec.turns = <<First>>, NEW m \in Natives
  PROVE  Align(rec, Numbered(1), m) = <<First>> /\ Align(rec, Numbered(2), m) = <<First, Second(m)>>
<1>1. rec.turns \in Seq(Turn) /\ DOMAIN rec.turns = {1} /\ rec.turns[1] = First /\ First.at = 1
  <2>1. rec.turns \in Seq(Turn)
    BY DEF Record
  <2>2. DOMAIN rec.turns = {1} /\ rec.turns[1] = First
    OBVIOUS
  <2>3. First.at = 1
    BY DEF First
  <2> QED
    BY <2>1, <2>2, <2>3
<1>2. First \in Turn /\ Second(m) \in Turn
  BY Names DEF First, Second, Turn
<1>0. /\ \A n \in 1..2 : Numbered(n) \in Seq(Nat) /\ Len(Numbered(n)) = n
      /\ \A n \in 1..2 : \A i \in 1..n : Numbered(n)[i] = i
      /\ m \in Calls \cup Natives
  BY History DEF Numbered
<1>3. ASSUME NEW n \in 1..2
      PROVE  Align(rec, Numbered(n), m)[1] = First
  <2>1. Numbered(n) \in Seq(Nat) /\ 1 \in 1..Len(Numbered(n)) /\ Numbered(n)[1] = 1
    BY <1>0
  <2> HIDE DEF First
  <2> QED
    BY <1>0, <1>1, <2>1, AlignKeeps
<1>4. Align(rec, Numbered(2), m)[2] = Second(m)
  <2>1. Numbered(2) \in Seq(Nat) /\ 2 \in 1..Len(Numbered(2)) /\ Numbered(2)[2] = 2
    BY <1>0
  <2> QED
    BY <1>0, <1>1, <2>1, AlignAt DEF Second
<1>5. /\ Align(rec, Numbered(1), m) \in Seq(Turn) /\ Len(Align(rec, Numbered(1), m)) = 1
      /\ Align(rec, Numbered(2), m) \in Seq(Turn) /\ Len(Align(rec, Numbered(2), m)) = 2
  <2>1. ASSUME NEW n \in 1..2
        PROVE  Align(rec, Numbered(n), m) \in Seq(Turn) /\ Len(Align(rec, Numbered(n), m)) = n
    BY <1>0, AlignType, AlignAt
  <2> QED
    BY <2>1
<1>6. Align(rec, Numbered(1), m) = <<First>>
  <2> DEFINE t == <<First>>
             a == Align(rec, Numbered(1), m)
  <2>1. t \in Seq(Turn) /\ Len(t) = 1 /\ t[1] = First
    BY <1>2
  <2>2. a \in Seq(Turn) /\ Len(a) = 1 /\ a[1] = First
    BY <1>3, <1>5
  <2> HIDE DEF t, a
  <2>3. \A i \in 1..Len(t) : a[i] = t[i]
    BY <2>1, <2>2
  <2>4. a = t
    BY <2>1, <2>2, <2>3, SeqEqual
  <2> QED
    BY <2>4 DEF t, a
<1>7. Align(rec, Numbered(2), m) = <<First, Second(m)>>
  <2> DEFINE t == <<First, Second(m)>>
             a == Align(rec, Numbered(2), m)
  <2>1. t \in Seq(Turn) /\ Len(t) = 2 /\ t[1] = First /\ t[2] = Second(m)
    BY <1>2
  <2>2. a \in Seq(Turn) /\ Len(a) = 2 /\ a[1] = First /\ a[2] = Second(m)
    BY <1>3, <1>4, <1>5
  <2> HIDE DEF t, a
  <2>3. \A i \in 1..Len(t) : a[i] = t[i]
    BY <2>1, <2>2
  <2>4. a = t
    BY <2>1, <2>2, <2>3, SeqEqual
  <2> QED
    BY <2>4 DEF t, a
<1> QED
  BY <1>6, <1>7

LEMMA AlignComplete ==
  ASSUME NEW rec \in Record, NEW k \in Natives, rec.turns = <<First, Second(k)>>,
         NEW m \in Natives
  PROVE  Align(rec, Numbered(2), m) = rec.turns
<1>1. /\ rec.turns \in Seq(Turn) /\ DOMAIN rec.turns = 1..2 /\ Len(rec.turns) = 2
      /\ rec.turns[1].at = 1 /\ rec.turns[2].at = 2
  <2>1. rec.turns \in Seq(Turn)
    BY DEF Record
  <2>2. DOMAIN rec.turns = 1..2 /\ Len(rec.turns) = 2
    OBVIOUS
  <2>3. rec.turns[1] = First /\ rec.turns[2] = Second(k)
    OBVIOUS
  <2> QED
    BY <2>1, <2>2, <2>3 DEF First, Second
<1> DEFINE h == Numbered(2)
<1>0. /\ h \in Seq(Nat) /\ Len(h) = 2 /\ h[1] = 1 /\ h[2] = 2
      /\ m \in Calls \cup Natives
  BY History DEF Numbered
<1> HIDE DEF h
<1>2. Align(rec, h, m) \in Seq(Turn) /\ Len(Align(rec, h, m)) = 2
  BY <1>0, AlignType, AlignAt
<1>3. ASSUME NEW i \in 1..2
      PROVE  Align(rec, h, m)[i] = rec.turns[i]
  <2>1. i \in DOMAIN rec.turns /\ i \in 1..Len(h)
    BY <1>0, <1>1
  <2>2. rec.turns[i].at = h[i]
    BY <1>0, <1>1
  <2>3. \A k1, k2 \in DOMAIN rec.turns : rec.turns[k1].at = rec.turns[k2].at => k1 = k2
    BY <1>1
  <2> QED
    BY <1>0, <2>1, <2>2, <2>3, AlignKeeps
<1>4. Align(rec, h, m) = rec.turns
  BY <1>1, <1>2, <1>3, SeqEqual
<1> QED
  BY <1>4 DEF h

\* while the thread is not loaded nothing has an object and no rollback is under way
LEMMA Unloaded ==
  ASSUME IInv, loaded = None, record # None
  PROVE  /\ \A d \in Calls : call[d].pc \notin {"replacing", "closing"}
         /\ \A s \in Sessions : ~Known(s)
         /\ \A d \in Calls : call[d].pc \notin Resolved
         /\ derived.state # "ready"
         /\ record.native = Origin
<1>1. \A s \in Sessions : ~Known(s)
  BY DEF IInv, Matches
<1>2. ASSUME NEW d \in Calls
      PROVE  call[d].pc \notin Resolved
  BY <1>1 DEF IInv, Objects, Holds, Known
<1>3. "replacing" \in Resolved /\ "closing" \in Resolved
  BY DEF Resolved, Rolling
<1> QED
  BY <1>1, <1>2, <1>3 DEF IInv, Derived, Histories

\* a step of the restore that leaves sessions, callers and registry alone
LEMMA RestoreGoesOn ==
  ASSUME IInv, restoring # None, restoring.step # "opening",
         restoring' \in Restoration, restoring'.step # "opening",
         restoring'.new = restoring.new, restoring'.rec.native = Origin,
         record' \in Record \cup {None}, RecordStays,
         UNCHANGED <<derived, inPlace, history, born, session, native, object, loaded,
                     call, succeeded, overtaken, mishaps>>,
         Restored'
  PROVE  IInv'
<1>1. TypeOK'
  BY DEF IInv, TypeOK
<1>2. Callers'
  BY DEF IInv, Callers, Serial, Begun, Operations
<1>3. Objects'
  BY DEF IInv, Objects, Holds, Begun
<1>4. restoring' # None /\ restoring.new # None
  BY NoneIsNoRecord DEF IInv, Restores
<1>5. Restores'
  BY <1>4 DEF IInv, Restores, RecordStays
<1>6. Histories'
  BY <1>4 DEF IInv, Histories, Owned, Reverting, RecordStays
<1>7. loaded = None /\ record # None
  BY DEF IInv, Restores
<1>8. \A d \in Calls : call[d].pc \notin {"replacing", "closing"}
  BY <1>7, Unloaded
<1>9. Fresh'
  BY <1>4 DEF IInv, Fresh, Known, OpenedOn
<1>10. Matches'
  BY <1>7, <1>8 DEF IInv, Matches, Known
<1>11. Derived'
  BY DEF IInv, Derived, Known
<1> QED
  BY <1>1, <1>2, <1>3, <1>5, <1>6, <1>9, <1>10, <1>11 DEF IInv

LEMMA RestoreReadsKeeps ==
  ASSUME IInv, RestoreReads
  PROVE  IInv'
<1>1. /\ UNCHANGED <<record, derived, inPlace, history, born, session, native, object,
                     loaded, call, succeeded, overtaken, mishaps>>
      /\ restoring # None /\ restoring.step = "reading"
      /\ restoring' = [restoring EXCEPT !.step = "aligning", !.snap = history[restoring.rec.native]]
  BY DEF RestoreReads, storeVars, sessionVars, nativeVars, ghostVars
<1>2. restoring \in Restoration /\ restoring.rec.native = Origin
  BY <1>1 DEF IInv, TypeOK, Restores
<1>3. history[restoring.rec.native] \in Seq(Nat)
  BY <1>2, Names DEF IInv, TypeOK
<1>4. /\ restoring' \in Restoration /\ restoring'.step = "aligning"
      /\ restoring'.new = restoring.new /\ restoring'.rec = restoring.rec
      /\ restoring'.snap = history[Origin]
  BY <1>1, <1>2, <1>3 DEF Restoration
<1>5. RecordStays /\ record' \in Record \cup {None}
  BY <1>1 DEF RecordStays, IInv, TypeOK
<1>6. Restored'
  BY <1>1, <1>4 DEF IInv, Restored, Early
<1> QED
  BY <1>1, <1>2, <1>4, <1>5, <1>6, RestoreGoesOn

LEMMA RestoreAlignsKeeps ==
  ASSUME IInv, RestoreAligns
  PROVE  IInv'
<1> DEFINE rec == restoring.rec
           m == restoring.new
           h == history[Origin]
           turns == Align(rec, h, m)
           made == [rec EXCEPT !.turns = turns]
<1>1. /\ UNCHANGED <<derived, inPlace, history, born, session, native, object, loaded, call,
                     succeeded, overtaken, mishaps>>
      /\ restoring # None /\ restoring.step = "aligning"
  BY DEF RestoreAligns, sessionVars, nativeVars, ghostVars
<1>2. restoring \in Restoration /\ rec.native = Origin /\ m # None /\ loaded = None /\ record # None
  BY <1>1 DEF IInv, TypeOK, Restores
<1>3. rec \in Record /\ h \in Seq(Nat) /\ m \in Natives /\ record \in Record
  BY <1>2, Names DEF Restoration, IInv, TypeOK
<1>4. turns \in Seq(Turn)
  BY <1>3, AlignType
<1>5. made \in Record /\ made.native = Origin /\ made.turns = turns
  BY <1>2, <1>3, <1>4, WithTurns DEF Record
<1>6. /\ h \in {Numbered(1), Numbered(2)} /\ restoring.snap = h /\ Early(rec)
      /\ \A i \in DOMAIN record.turns : record.turns[i].host[1] # m
      /\ record.native = Origin
      /\ \A c \in Calls : call[c].pc = "located" => Early(call[c].rec)
  BY <1>1, <1>2 DEF IInv, Restored, Histories
<1>7. \/ record.turns = <<First>>
      \/ /\ h = Numbered(2)
         /\ \E k \in Sessions : session[k] # "unused" /\ record.turns = <<First, Second(k)>>
  BY <1>2 DEF IInv, Restored
<1>8. m \in Sessions /\ session[m] # "unused"
  BY <1>1, <1>2 DEF IInv, Fresh, Restoration
\* the alignment and the stored record
<1>9. \/ turns = <<First>> /\ h # Numbered(2)
      \/ turns = <<First, Second(m)>> /\ h = Numbered(2) /\ rec.turns = <<First>>
      \/ turns = rec.turns /\ rec = record
  <2>1. CASE rec.turns = <<First>> /\ h # Numbered(2)
    BY <1>3, <1>6, <2>1, AlignFirst
  <2>2. CASE rec.turns = <<First>> /\ h = Numbered(2)
    BY <1>3, <1>6, <2>2, AlignFirst
  <2>3. CASE rec.turns # <<First>>
    <3>1. rec = record
      BY <1>6, <2>3 DEF Early
    <3>2. PICK k \in Sessions : record.turns = <<First, Second(k)>>
      BY <1>7, <2>3, <3>1
    <3>3. k \in Natives /\ h = Numbered(2)
      BY <1>7, <2>3, <3>1, Names
    <3>4. Align(rec, Numbered(2), m) = rec.turns
      BY <1>3, <3>1, <3>2, <3>3, AlignComplete
    <3> QED
      BY <3>1, <3>3, <3>4
  <2> QED
    BY <1>6, <2>1, <2>2, <2>3
<1> HIDE DEF turns
<1>10. \/ /\ turns = rec.turns
          /\ restoring' = [restoring EXCEPT !.step = "aligned"] /\ UNCHANGED record
       \/ /\ turns # rec.turns /\ Associates(record.turns, turns)
          /\ record' = [record EXCEPT !.turns = turns]
          /\ restoring' = [restoring EXCEPT !.step = "aligned", !.rec.turns = turns]
  BY <1>6 DEF RestoreAligns, Reconciles, turns
<1>11. CASE turns = rec.turns /\ UNCHANGED record /\ restoring' = [restoring EXCEPT !.step = "aligned"]
  <2>1. /\ restoring' \in Restoration /\ restoring'.step = "aligned"
        /\ restoring'.new = m /\ restoring'.rec = rec /\ restoring'.snap = restoring.snap
    BY <1>2, <1>11 DEF Restoration
  <2>2. rec = record
    <3>1. (rec.turns = <<First>> /\ h # Numbered(2)) \/ rec = record
      <4>1. <<First>> # <<First, Second(m)>>
        OBVIOUS
      <4> QED
        BY <1>9, <1>11, <4>1
    <3>2. rec.turns = <<First>> /\ h # Numbered(2) => record.turns = <<First>>
      BY <1>7
    <3>3. rec.turns = record.turns => rec = record
      BY <1>2, <1>3, <1>6 DEF Record
    <3> QED
      BY <3>1, <3>2, <3>3
  <2>3. Restored'
    BY <1>1, <1>6, <1>11, <2>1, <2>2 DEF IInv, Restored, Early
  <2>4. RecordStays /\ record' \in Record \cup {None}
    BY <1>3, <1>11 DEF RecordStays
  <2> QED
    BY <1>1, <1>2, <2>1, <2>3, <2>4, RestoreGoesOn
<1>12. CASE /\ turns # rec.turns /\ Associates(record.turns, turns)
            /\ record' = [record EXCEPT !.turns = turns]
            /\ restoring' = [restoring EXCEPT !.step = "aligned", !.rec.turns = turns]
  <2>1. /\ restoring' \in Restoration /\ restoring'.step = "aligned"
        /\ restoring'.new = m /\ restoring'.rec = made /\ restoring'.snap = restoring.snap
    <3>1. restoring' = [restoring EXCEPT !.step = "aligned", !.rec = made]
      BY <1>2, <1>12 DEF Restoration
    <3> HIDE DEF made
    <3> QED
      BY <1>2, <1>5, <3>1 DEF Restoration
  <2>2. record' \in Record /\ record'.native = Origin /\ record'.turns = turns
    BY <1>3, <1>4, <1>6, <1>12, WithTurns DEF Record
  <2>3. record' = made
    BY <1>5, <2>2 DEF Record
  <2>4. turns = <<First, Second(m)>> /\ h = Numbered(2)
    <3>1. turns = <<First>> /\ h # Numbered(2) => rec.turns = <<First>>
      BY <1>6, <1>7 DEF Early
    <3> QED
      BY <1>9, <1>12, <3>1
  <2>5. record.turns = <<First>>
    <3>1. ASSUME NEW k \in Sessions, record.turns = <<First, Second(k)>>
          PROVE  FALSE
      <4>1. 2 \in DOMAIN record.turns /\ 2 \in DOMAIN turns
        BY <2>4, <3>1
      <4>2. record.turns[2] = Second(k) /\ turns[2] = Second(m)
        BY <2>4, <3>1
      <4>3. Second(k).at = Second(m).at /\ Second(k).host[1] = k /\ Second(m).host[1] = m
        BY DEF Second
      <4>4. record.turns[2].host = turns[2].host
        BY <1>12, <4>1, <4>2, <4>3 DEF Associates
      <4> QED
        BY <1>6, <4>1, <4>2, <4>3, <4>4
    <3> QED
      BY <1>7, <3>1
  <2>6. record' # None /\ record # None /\ RecordStays
    BY <1>2, <1>6, <2>2, NoneIsNoRecord DEF RecordStays
  <2>9. Restored'
    <3>1. ASSUME NEW c \in Calls, call[c].pc = "located"
          PROVE  Early(call[c].rec)'
      <4>1. call[c].rec.native = Origin /\ call[c].rec.turns = <<First>>
        BY <1>6, <2>5, <3>1 DEF Early
      <4> QED
        BY <1>1, <4>1 DEF Early
    <3>2. Early(restoring.rec)'
      BY <1>5, <2>1, <2>3 DEF Early
    <3>3. \E k \in Sessions : session[k] # "unused" /\ record'.turns = <<First, Second(k)>>
      BY <1>8, <2>2, <2>4
    <3> HIDE DEF made
    <3> QED
      BY <1>1, <1>6, <2>1, <2>3, <2>4, <3>1, <3>2, <3>3 DEF Restored
  <2> QED
    BY <1>1, <1>2, <1>5, <2>1, <2>2, <2>6, <2>9, RestoreGoesOn
<1> QED
  BY <1>10, <1>11, <1>12

\* the session that is opened is a new one
LEMMA OpenedSession ==
  ASSUME TypeOK, NEW s \in Sessions, NEW n \in Natives, Open(s, n)
  PROVE  /\ session[s] = "unused"
         /\ session' = [session EXCEPT ![s] = "open"]
         /\ native' = [native EXCEPT ![s] = n]
         /\ session' \in [Sessions -> {"unused", "open", "closed"}]
         /\ native' \in [Sessions -> Natives \cup {None}]
         /\ \A u \in Sessions : session[u] = "closed" => session'[u] = "closed"
BY DEF Open, Unused, TypeOK

LEMMA ClosedSession ==
  ASSUME TypeOK, NEW s \in Sessions, Close(s)
  PROVE  /\ session' \in [Sessions -> {"unused", "open", "closed"}]
         /\ session'[s] = "closed" /\ \A u \in Sessions \ {s} : session'[u] = session[u]
         /\ \A u \in Sessions : session'[u] = "open" => u # s /\ session[u] = "open"
         /\ \A u \in Sessions : session[u] = "closed" => session'[u] = "closed"
BY DEF TypeOK, Close

LEMMA RestoreOpensKeeps ==
  ASSUME IInv, RestoreOpens
  PROVE  IInv'
<1>1. PICK s \in Sessions :
        /\ Open(s, restoring.rec.native)
        /\ restoring' = [restoring EXCEPT !.step = "reading", !.new = s]
  BY DEF RestoreOpens
<1>2. /\ UNCHANGED <<record, derived, inPlace, history, born, object, loaded, call,
                     succeeded, overtaken, mishaps>>
      /\ restoring # None /\ restoring.step = "opening" /\ restoring \in Restoration
  BY DEF RestoreOpens, storeVars, nativeVars, ghostVars, IInv, TypeOK
<1>3. /\ restoring.rec.native = Origin /\ loaded = None /\ restoring.new = None
  BY <1>2 DEF IInv, Restores
<1>4. /\ restoring' \in Restoration /\ restoring' # None /\ restoring'.step = "reading"
      /\ restoring'.new = s /\ restoring'.rec.native = Origin
  BY <1>1, <1>2, <1>3, NoneIsNoRecord DEF Restoration
<1>5. /\ session[s] = "unused"
      /\ session' = [session EXCEPT ![s] = "open"] /\ native' = [native EXCEPT ![s] = Origin]
      /\ session' \in [Sessions -> {"unused", "open", "closed"}]
      /\ native' \in [Sessions -> Natives \cup {None}]
      /\ \A u \in Sessions : session[u] = "closed" => session'[u] = "closed"
  BY <1>1, <1>3, OpenedSession, Names DEF IInv
<1>6. TypeOK'
  BY <1>2, <1>4, <1>5 DEF IInv, TypeOK
<1>7. Callers'
  BY <1>2 DEF IInv, Callers, Serial, Begun, Operations
<1>8. Objects'
  <2>1. ObjectsStay
    BY <1>2 DEF ObjectsStay
  <2>2. ASSUME NEW d \in Calls
        PROVE  Holds(d)'
    BY <1>2, <1>5, <2>1, OthersHold DEF IInv
  <2> QED
    BY <1>2, <2>2 DEF IInv, Objects
<1>9. Restores'
  BY <1>2, <1>3, <1>4, Names DEF IInv, Restores
<1>10. Histories'
  <2>1. ASSUME NEW u \in Sessions, Owned(u)
        PROVE  Owned(u)'
    BY <1>2, <1>3, <2>1, Names DEF Owned
  <2>2. Owned(s)'
    BY <1>4 DEF Owned
  <2>3. ASSUME NEW u \in Sessions \ {s}
        PROVE  session'[u] = session[u] /\ native'[u] = native[u] /\ restoring.new # u
    BY <1>3, <1>5, Names DEF IInv, TypeOK
  <2>4. session[s] # "open" /\ native'[s] = Origin
    BY <1>5 DEF IInv, TypeOK
  <2>5. \A u \in Sessions : Reverting(u)' = Reverting(u)
    BY <1>2 DEF Reverting
  <2> QED
    BY <1>2, <1>3, <1>4, <2>1, <2>2, <2>3, <2>4, <2>5 DEF IInv, Histories
<1>11. record # None /\ \A d \in Calls : call[d].pc \notin {"replacing", "closing"}
  BY <1>2, <1>3, Unloaded DEF IInv, Restores
<1>12. /\ \A u \in Sessions : ~Known(u)
       /\ derived.state # "ready"
  BY <1>3, <1>11, Unloaded
<1>13. ASSUME NEW u \in Sessions, session[u] # "unused"
       PROVE  session'[u] = session[u] /\ native'[u] = native[u] /\ u # s
  BY <1>5, <1>13 DEF IInv, TypeOK
<1>14. session'[s] = "open" /\ native'[s] = Origin
  BY <1>5 DEF IInv, TypeOK
<1>15. Fresh'
  <2>1. ASSUME NEW c \in Calls, call[c].pc \in Opened
        PROVE  session'[call[c].new] = "open" /\ native'[call[c].new] = OpenedOn(c)'
    <3>1. call[c].new \in Sessions
      BY <2>1 DEF IInv, Callers, Fits, TypeOK, Call
    <3> QED
      BY <1>2, <1>13, <2>1, <3>1 DEF IInv, Fresh, OpenedOn
  <2> QED
    BY <1>2, <1>4, <1>12, <1>14, <2>1 DEF IInv, Fresh, Known
<1>16. Matches'
  BY <1>2, <1>3, <1>11, <1>12 DEF Matches, Known
<1>17. Derived'
  BY <1>2, <1>12 DEF IInv, Derived, Known
<1>18. Restored'
  <2>1. Restored /\ \A i \in DOMAIN record.turns : record.turns[i].host[1] # s
    <3>1. CASE record.turns = <<First>>
      <4>1. DOMAIN record.turns = {1} /\ record.turns[1] = First
        BY <3>1
      <4> QED
        BY <4>1, Names DEF First, IInv
    <3>2. CASE \E m \in Sessions : session[m] # "unused" /\ record.turns = <<First, Second(m)>>
      <4>1. PICK m \in Sessions : session[m] # "unused" /\ record.turns = <<First, Second(m)>>
        BY <3>2
      <4>2. DOMAIN record.turns = {1, 2} /\ record.turns[1] = First /\ record.turns[2] = Second(m)
        BY <4>1
      <4>3. m # s /\ First.host[1] = Origin /\ Second(m).host[1] = m
        BY <1>5, <4>1 DEF First, Second
      <4> QED
        BY <4>2, <4>3, Names DEF IInv
    <3> QED
      BY <1>3, <1>11, <3>1, <3>2 DEF IInv, Restored
  <2>2. restoring'.rec = restoring.rec
    BY <1>1, <1>2 DEF Restoration
  <2>3. ASSUME NEW m \in Sessions, session[m] # "unused"
        PROVE  session'[m] # "unused"
    BY <1>13, <2>3
  <2> QED
    BY <1>2, <1>3, <1>4, <1>11, <2>1, <2>2, <2>3 DEF Restored, Early
<1> QED
  BY <1>6, <1>7, <1>8, <1>9, <1>10, <1>15, <1>16, <1>17, <1>18 DEF IInv

\* what becomes of a call that waits changes nothing in who may do what
LEMMA WaitersCallers ==
  ASSUME Callers, NEW s,
         \A c \in Calls : call[c].pc # "awaiting" => call'[c] = call[c],
         \A c \in Calls : call[c].pc = "awaiting" =>
           \/ call'[c].pc = "ended" /\ call'[c].new = None
           \/ /\ call'[c].pc = "resolved" /\ call'[c].obj = s
              /\ call'[c].op = call[c].op /\ call'[c].new = call[c].new
  PROVE  Callers'
<1>1. ASSUME NEW d \in Calls, Begun(d)'
      PROVE  Begun(d) /\ call'[d].op = call[d].op
  BY <1>1 DEF Begun
<1>2. ASSUME NEW d \in Calls
      PROVE  Fits(call[d])'
  <2>1. Fits(call[d])
    BY DEF Callers
  <2>2. CASE call[d].pc # "awaiting"
    BY <2>1, <2>2
  <2>3. CASE call[d].pc = "awaiting"
    BY <2>1, <2>3 DEF Fits, Rolling, Forking, Opened
  <2> QED
    BY <2>2, <2>3
<1>3. ASSUME NEW d \in Calls, Begun(d)'
      PROVE  (call[d].op \in Operations(d))'
  BY <1>1, <1>3 DEF Callers, Operations
<1>4. Serial'
  BY <1>1 DEF Callers, Serial, Calls
<1> QED
  BY <1>2, <1>3, <1>4 DEF Callers

\* a failed restore closes the session it has opened
LEMMA RestoreFailsKeeps ==
  ASSUME IInv, RestoreFails
  PROVE  IInv'
<1>1. /\ UNCHANGED <<record, derived, inPlace, history, born, native, object, loaded,
                     succeeded, overtaken, mishaps>>
      /\ restoring # None /\ restoring' = None /\ Rejected
      /\ call \in [Calls -> Call]
  BY DEF RestoreFails, Rejected, storeVars, nativeVars, ghostVars, IInv, TypeOK
<1>2. /\ call' \in [Calls -> Call]
      /\ \A c \in Calls : call[c].pc # "awaiting" => call'[c] = call[c]
      /\ \A c \in Calls : call[c].pc = "awaiting" =>
           call'[c] = [Free EXCEPT !.pc = "ended"]
  BY <1>1, FreeCall DEF Rejected, At
<1>3. /\ session' \in [Sessions -> {"unused", "open", "closed"}]
      /\ \A u \in Sessions : session'[u] = "open" => u # restoring.new /\ session[u] = "open"
      /\ \A u \in Sessions : session[u] = "closed" => session'[u] = "closed"
  <2>1. restoring.new \in Sessions \cup {None}
    BY <1>1 DEF IInv, TypeOK, Restoration
  <2>2. CASE restoring.new = None
    BY <2>2, Names DEF RestoreFails, IInv, TypeOK
  <2>3. CASE restoring.new # None
    BY <1>1, <2>1, <2>3, ClosedSession DEF RestoreFails, IInv
  <2> QED
    BY <2>2, <2>3
<1>4. TypeOK'
  BY <1>1, <1>2, <1>3 DEF IInv, TypeOK
<1>5. Callers'
  BY <1>2, FreeCall, WaitersCallers DEF IInv
<1>6. Objects'
  <2>1. ObjectsStay
    BY <1>1 DEF ObjectsStay
  <2>2. ASSUME NEW d \in Calls
        PROVE  Holds(d)'
    <3>1. CASE call[d].pc # "awaiting"
      BY <1>1, <1>2, <1>3, <2>1, <3>1, OthersHold DEF IInv
    <3>2. CASE call[d].pc = "awaiting"
      BY <1>2, <3>2, FreeCall DEF Holds, Begun, Resolved, Rolling, Forking
    <3> QED
      BY <3>1, <3>2
  <2> QED
    BY <1>1, <2>2 DEF IInv, Objects
<1>7. Restores'
  <2>1. ASSUME NEW c \in Calls, call[c].pc \notin {"located", "awaiting"}
        PROVE  call'[c].pc \notin {"located", "awaiting"}
    BY <1>2, <2>1
  <2> QED
    BY <1>1, <2>1 DEF IInv, Restores
<1>8. Histories'
  <2>1. ASSUME NEW u \in Sessions, Owned(u), u # restoring.new
        PROVE  Owned(u)'
    BY <1>1, <1>2, <2>1 DEF Owned, Opened
  <2>2. ASSUME NEW u \in Sessions, Reverting(u)
        PROVE  Reverting(u)'
    BY <1>1, <1>2, <2>2 DEF Reverting, Opened
  <2> QED
    BY <1>1, <1>3, <2>1, <2>2 DEF IInv, Histories
<1>9. loaded = None /\ record # None
  BY <1>1 DEF IInv, Restores
<1>10. /\ \A d \in Calls : call[d].pc \notin {"replacing", "closing"}
       /\ \A u \in Sessions : ~Known(u)
       /\ derived.state # "ready"
  BY <1>9, Unloaded
<1>11. ASSUME NEW u \in Sessions, u # restoring.new
       PROVE  session'[u] = session[u]
  BY <1>1, <1>11 DEF RestoreFails, Close, IInv, TypeOK
<1>12. ASSUME NEW u \in Sessions, session[u] # "unused"
       PROVE  session'[u] # "unused"
  BY <1>1, <1>11, <1>12 DEF RestoreFails, Close, IInv, TypeOK
<1>13. ASSUME NEW d \in Calls, call'[d].pc # "ended"
       PROVE  call'[d] = call[d]
  BY <1>2, <1>13, FreeCall
<1>14. Fresh'
  <2>1. ASSUME NEW c \in Calls, call'[c].pc \in Opened
        PROVE  /\ session'[call'[c].new] = "open" /\ native'[call'[c].new] = OpenedOn(c)'
               /\ ~Known(call[c].new)'
    <3>1. call'[c] = call[c]
      BY <1>13, <2>1 DEF Opened
    <3>2. /\ call[c].new \in Sessions /\ session[call[c].new] = "open"
          /\ native[call[c].new] = OpenedOn(c) /\ OpenedOn(c)' = OpenedOn(c)
      BY <1>1, <2>1, <3>1 DEF IInv, Callers, Fits, TypeOK, Call, Fresh, OpenedOn
    <3>3. call[c].pc \in Rolling \cup Forking /\ call[c].pc \in Resolved
      BY <2>1, <3>1 DEF Opened, Rolling, Forking, Resolved
    <3> QED
      BY <1>9, <3>3, Unloaded
  <2>2. \A c \in Calls : call'[c].pc = "located" => call'[c].obj = None
    BY <1>13 DEF IInv, Fresh
  <2> QED
    BY <1>1, <1>10, <2>1, <2>2 DEF Fresh, Known
<1>15. Matches'
  <2>1. \A d \in Calls : call'[d].pc \notin {"replacing", "closing"}
    BY <1>10, <1>13
  <2> QED
    BY <1>1, <1>9, <1>10, <2>1 DEF Matches, Known
<1>16. Derived'
  BY <1>1, <1>2, <1>10 DEF IInv, Derived, Known
<1>17. Restored'
  BY <1>1, <1>9, <1>12, <1>13 DEF IInv, Restored, Early
<1> QED
  BY <1>4, <1>5, <1>6, <1>7, <1>8, <1>14, <1>15, <1>16, <1>17 DEF IInv

\* the restored session becomes the thread's object, for all who wait
LEMMA RegisterKeeps ==
  ASSUME IInv, Register
  PROVE  IInv'
<1> DEFINE s == restoring.new
<1>1. /\ UNCHANGED <<record, derived, inPlace, history, born, session, native,
                     succeeded, overtaken, mishaps>>
      /\ restoring # None /\ restoring.step = "aligned"
      /\ loaded' = s /\ restoring' = None
      /\ object' = [object EXCEPT ![s] = Idle(restoring.rec)]
      /\ call \in [Calls -> Call]
  <2>1. call \in [Calls -> Call]
    BY DEF IInv, TypeOK
  <2> QED
    BY <2>1 DEF Register, storeVars, sessionVars, nativeVars, ghostVars
<1>2. loaded = None /\ s \in Sessions /\ s # None /\ restoring.rec \in Record
  BY <1>1, Names DEF IInv, TypeOK, Restores, Restoration
<1>3. Idle(restoring.rec) \in Object /\ Idle(restoring.rec).turn = "none"
  BY <1>2 DEF Idle, Object
<1>4. /\ object' \in [Sessions -> Object \cup {None}]
      /\ object'[s] # None /\ object'[s].turn = "none"
      /\ ObjectsStay
  <2>1. /\ object' \in [Sessions -> Object \cup {None}]
        /\ object'[s] = Idle(restoring.rec)
        /\ \A u \in Sessions \ {s} : object'[u] = object[u]
    BY <1>1, <1>2, <1>3 DEF IInv, TypeOK
  <2>2. object'[s] # None /\ object'[s].turn = "none"
    BY <1>3, <2>1, NoneIsNoRecord
  <2>3. ObjectsStay
    BY <2>1, <2>2 DEF ObjectsStay
  <2> QED
    BY <2>1, <2>2, <2>3
<1>5. /\ call' \in [Calls -> Call]
      /\ \A c \in Calls : call[c].pc # "awaiting" => call'[c] = call[c]
      /\ \A c \in Calls : call[c].pc = "awaiting" =>
           /\ call'[c].pc = "resolved" /\ call'[c].obj = s
           /\ call'[c].op = call[c].op /\ call'[c].new = call[c].new
  <2> DEFINE k(c) == [call[c] EXCEPT !.pc = "resolved", !.obj = s, !.fresh = TRUE]
  <2>1. ASSUME NEW c \in Calls
        PROVE  /\ k(c) \in Call /\ k(c).pc = "resolved" /\ k(c).obj = s
               /\ k(c).op = call[c].op /\ k(c).new = call[c].new
    <3>1. call[c] \in Call
      BY <1>1
    <3>2. k(c) \in Call /\ k(c).pc = "resolved" /\ k(c).obj = s
      BY <1>2, <3>1 DEF Call, Pcs
    <3>3. k(c).op = call[c].op /\ k(c).new = call[c].new
      BY <3>1 DEF Call
    <3> HIDE DEF k
    <3> QED
      BY <3>2, <3>3
  <2> HIDE DEF k
  <2>2. call' = [c \in Calls |-> IF At(c, "awaiting") THEN k(c) ELSE call[c]]
    BY DEF Register, k
  <2> QED
    BY <1>1, <2>1, <2>2 DEF At
<1>6. TypeOK'
  BY <1>1, <1>2, <1>4, <1>5 DEF IInv, TypeOK
<1>7. Callers'
  BY <1>5, WaitersCallers DEF IInv
<1>8. Objects'
  <2>1. ASSUME NEW d \in Calls, call[d].pc = "awaiting"
        PROVE  Holds(d)'
    <3>1. Holds(d) /\ Fits(call[d]) /\ Begun(d)
      BY <2>1 DEF IInv, Callers, Objects, Begun
    <3> QED
      BY <1>1, <1>4, <1>5, <1>2, <2>1, <3>1 DEF Holds, Fits, Running, Begun
  <2>2. ASSUME NEW d \in Calls, call[d].pc # "awaiting"
        PROVE  Holds(d)'
    <3>1. Holds(d) /\ (call[d].pc \in Resolved => Begun(d))
      BY DEF IInv, Objects, Resolved, Rolling, Forking, Begun
    <3>2. ~(call[d].op \in {"rollback", "delete"} /\ call[d].pc \in Resolved)
      BY <1>2, <3>1, Names DEF Holds
    <3> QED
      BY <1>1, <1>4, <1>5, <2>2, <3>1, <3>2
         DEF Holds, ObjectsStay, Running, Begun, Resolved, Rolling, Forking
  <2> QED
    BY <1>1, <1>4, <2>1, <2>2 DEF IInv, Objects
<1>9. Restores'
  <2>1. record # None
    BY <1>1 DEF IInv, Restores
  <2> QED
    BY <1>1, <2>1 DEF Restores
<1>10. Histories'
  <2>1. ASSUME NEW u \in Sessions, Owned(u)
        PROVE  Owned(u)'
    BY <1>1, <1>2, <1>5, <2>1, Names DEF Owned, Opened
  <2>2. ASSUME NEW u \in Sessions, Reverting(u)
        PROVE  Reverting(u)'
    BY <1>1, <1>5, <2>2 DEF Reverting, Opened
  <2> QED
    BY <1>1, <1>2, <2>1, <2>2, Names DEF IInv, Histories
<1>11. record # None
  BY <1>1 DEF IInv, Restores
<1>12. /\ \A d \in Calls : call[d].pc \notin {"replacing", "closing"}
       /\ \A u \in Sessions : ~Known(u)
       /\ derived.state # "ready" /\ record.native = Origin
  BY <1>2, <1>11, Unloaded
<1>13. session[s] = "open" /\ native[s] = Origin /\ restoring.rec = record
  BY <1>1, <1>2, <1>11 DEF IInv, Fresh, Restored
<1>14. /\ object'[s].rec = record
       /\ \A u \in Sessions \ {s} : ~Known(u)'
  <2>1. object'[s] = Idle(restoring.rec) /\ \A u \in Sessions \ {s} : object'[u] = object[u]
    BY <1>1, <1>2 DEF IInv, TypeOK
  <2>2. Idle(restoring.rec).rec = restoring.rec
    BY DEF Idle
  <2> QED
    BY <1>12, <1>13, <2>1, <2>2 DEF Known
<1>15. ASSUME NEW d \in Calls, call'[d].pc # "resolved"
       PROVE  call'[d] = call[d]
  BY <1>5, <1>15
<1>16. Fresh'
  <2>1. ASSUME NEW c \in Calls, call'[c].pc \in Opened
        PROVE  /\ session'[call'[c].new] = "open" /\ native'[call'[c].new] = OpenedOn(c)'
               /\ ~Known(call[c].new)'
    <3>1. call'[c] = call[c]
      BY <1>15, <2>1 DEF Opened
    <3>2. call[c].pc \in Resolved
      BY <2>1, <3>1 DEF Opened, Rolling, Forking, Resolved
    <3> QED
      BY <1>2, <1>11, <3>2, Unloaded
  <2>2. \A c \in Calls : call'[c].pc = "located" => call'[c].obj = None
    BY <1>15 DEF IInv, Fresh
  <2>3. ASSUME NEW u \in Sessions, session'[u] = "unused"
        PROVE  ~Known(u)'
    BY <1>1, <1>13, <1>14, <2>3
  <2> QED
    BY <1>1, <2>1, <2>2, <2>3 DEF Fresh
<1>17. Matches'
  <2>1. \A d \in Calls : call'[d].pc \notin {"replacing", "closing"}
    BY <1>12, <1>15
  <2>2. s # None
    BY <1>2
  <2> QED
    BY <1>1, <1>2, <1>11, <1>12, <1>13, <1>14, <2>1, <2>2 DEF Matches, Switching
<1>18. Derived'
  BY <1>1, <1>5, <1>12 DEF IInv, Derived
<1>19. Restored'
  BY <1>1, <1>2 DEF Restored
<1> QED
  BY <1>6, <1>7, <1>8, <1>9, <1>10, <1>16, <1>17, <1>18, <1>19 DEF IInv

-----------------------------------------------------------------------------
(* Turns *)

\* the end of a turn leaves sessions, registry and callers alone
LEMMA TurnsKeep ==
  ASSUME IInv, ObjectsStay, RecordStays,
         record' \in Record \cup {None},
         history' \in [Natives -> Seq(Nat)], born' \in [Natives -> Nat],
         object' \in [Sessions -> Object \cup {None}],
         succeeded' \subseteq Natives \X Nat, overtaken' \subseteq Natives \X Nat,
         mishaps' \subseteq mishaps \cup {"write"}, mishaps \subseteq mishaps',
         UNCHANGED <<derived, inPlace, session, native, loaded, restoring, call>>,
         \A s \in Sessions : object'[s] # None <=> object[s] # None,
         RecordFollows,
         loaded = None /\ record # None => UNCHANGED history
  PROVE  IInv'
<1>1. TypeOK'
  BY DEF IInv, TypeOK
<1>2. Callers'
  BY DEF IInv, Callers, Serial, Begun, Operations
<1>3. Objects'
  <2>1. ASSUME NEW d \in Calls
        PROVE  Holds(d)'
    BY OthersHold DEF IInv
  <2>2. loaded # None => loaded \in Sessions
    BY DEF IInv, TypeOK
  <2> QED
    BY <2>1, <2>2 DEF IInv, Objects, ObjectsStay
<1>4. Restores'
  BY DEF IInv, Restores, RecordStays
<1>5. Histories'
  BY DEF IInv, Histories, Owned, Reverting, RecordStays
<1>6. Mild
  BY DEF Mild
<1>7. Fresh' /\ Matches' /\ Derived' /\ Restored'
  BY <1>6, MildKeeps
<1> QED
  BY <1>1, <1>2, <1>3, <1>4, <1>5, <1>7 DEF IInv

LEMMA CompleteTurnKeeps ==
  ASSUME IInv, NEW s \in Sessions, CompleteTurn(s)
  PROVE  IInv'
<1> DEFINE n == native[s]
           turn == born[n] + 1
           o == [object[s] EXCEPT !.turn = "completed", !.done = turn]
<1>1. /\ UNCHANGED <<record, derived, inPlace, session, native, loaded, restoring, call,
                     succeeded, mishaps>>
      /\ object[s] \in Object /\ Known(s) /\ session[s] = "open"
      /\ born' = [born EXCEPT ![n] = turn]
      /\ history' = [history EXCEPT ![n] = Append(@, turn)]
      /\ object' = [object EXCEPT ![s] = o]
      /\ overtaken' = overtaken \/ overtaken' = overtaken \cup {<<n, turn>>}
  BY DEF CompleteTurn, storeVars, IInv, TypeOK, Known
<1>2. n \in Natives /\ turn \in Nat /\ history[n] \in Seq(Nat)
  BY <1>1, Names DEF IInv, TypeOK, Histories
<1> HIDE DEF n
<1>3. /\ history' \in [Natives -> Seq(Nat)] /\ born' \in [Natives -> Nat]
      /\ overtaken' \subseteq Natives \X Nat
  <2>1. Append(history[n], turn) \in Seq(Nat)
    BY <1>2
  <2>2. history' \in [Natives -> Seq(Nat)] /\ born' \in [Natives -> Nat]
    BY <1>1, <1>2, <2>1 DEF IInv, TypeOK
  <2>3. <<n, turn>> \in Natives \X Nat
    BY <1>2
  <2> QED
    BY <1>1, <2>2, <2>3 DEF IInv, TypeOK
<1>4. o \in Object /\ o.rec = object[s].rec
  BY <1>1, <1>2 DEF Object
<1> HIDE DEF o
<1>5. /\ object' \in [Sessions -> Object \cup {None}] /\ object'[s] = o /\ o # None
      /\ \A u \in Sessions \ {s} : object'[u] = object[u]
  BY <1>1, <1>4, NoneIsNoRecord DEF IInv, TypeOK
<1>6. ObjectsStay /\ RecordStays
  BY <1>1, <1>5 DEF ObjectsStay, RecordStays
<1>7. /\ \A u \in Sessions : object'[u] # None <=> object[u] # None
      /\ \A u \in Sessions : Known(u) => object'[u].rec = object[u].rec
  BY <1>1, <1>4, <1>5 DEF Known
<1>8. RecordFollows /\ ~(loaded = None /\ record # None)
  BY <1>1, <1>7, Unloaded DEF RecordFollows
<1> QED
  BY <1>1, <1>3, <1>5, <1>6, <1>7, <1>8, TurnsKeep DEF IInv, TypeOK

LEMMA FailTurnKeeps ==
  ASSUME IInv, NEW s \in Sessions, FailTurn(s)
  PROVE  IInv'
<1> DEFINE o == [object[s] EXCEPT !.turn = "none"]
<1>1. /\ UNCHANGED <<record, derived, inPlace, history, born, session, native, loaded,
                     restoring, call, succeeded, overtaken, mishaps>>
      /\ object[s] \in Object
      /\ object' = [object EXCEPT ![s] = o]
  BY DEF FailTurn, storeVars, sessionVars, nativeVars, ghostVars, IInv, TypeOK
<1>2. o \in Object /\ o.rec = object[s].rec
  BY <1>1 DEF Object
<1> HIDE DEF o
<1>3. /\ object' \in [Sessions -> Object \cup {None}] /\ object'[s] = o /\ o # None
      /\ object[s] # None
      /\ \A u \in Sessions \ {s} : object'[u] = object[u]
  BY <1>1, <1>2, NoneIsNoRecord DEF IInv, TypeOK
<1>4. ObjectsStay /\ RecordStays
  BY <1>1, <1>2, <1>3 DEF ObjectsStay, RecordStays
<1>5. /\ \A u \in Sessions : object'[u] # None <=> object[u] # None
      /\ \A u \in Sessions : Known(u) => object'[u].rec = object[u].rec
  BY <1>2, <1>3 DEF Known
<1>6. RecordFollows
  BY <1>1, <1>5 DEF RecordFollows
<1> QED
  BY <1>1, <1>3, <1>4, <1>5, <1>6, TurnsKeep DEF IInv, TypeOK

LEMMA PersistTurnKeeps ==
  ASSUME IInv, NEW s \in Sessions, PersistTurn(s)
  PROVE  IInv'
<1> DEFINE n == object[s].rec.native
           turn == [at |-> object[s].done, host |-> <<n, object[s].done>>]
<1>1. /\ UNCHANGED <<derived, inPlace, history, born, session, native, loaded, restoring,
                     call, overtaken>>
      /\ object[s] \in Object /\ Known(s)
  BY NoneIsNoRecord DEF PersistTurn, sessionVars, nativeVars, IInv, TypeOK, Known
<1>2. n \in Natives /\ object[s].done \in Nat
  BY <1>1 DEF Object, Record
<1>3. turn \in Turn /\ turn.host \in Natives \X Nat
  BY <1>2 DEF Turn
<1>6. ~(loaded = None /\ record # None)
  BY <1>1, Unloaded
<1>7. \/ /\ record # None /\ record.native = n
         /\ record' = record \/ record' = [record EXCEPT !.turns = Append(@, turn)]
         /\ object' = [object EXCEPT ![s].rec = record', ![s].turn = "none"]
         /\ succeeded' = succeeded \cup {turn.host}
         /\ Mishap("write", record' # record /\ Outdated(s))
      \/ /\ object' = [object EXCEPT ![s].turn = "none", ![s].broken = TRUE]
         /\ UNCHANGED <<record, succeeded, mishaps>>
  BY DEF PersistTurn
<1> HIDE DEF turn
\* the turn is stored and announced as succeeded
<1>8. CASE /\ record # None /\ record.native = n
           /\ record' = record \/ record' = [record EXCEPT !.turns = Append(@, turn)]
           /\ object' = [object EXCEPT ![s].rec = record', ![s].turn = "none"]
           /\ succeeded' = succeeded \cup {turn.host}
           /\ Mishap("write", record' # record /\ Outdated(s))
  <2>1. record \in Record /\ record.turns \in Seq(Turn)
    BY <1>8 DEF IInv, TypeOK, Record
  <2>2. Append(record.turns, turn) \in Seq(Turn)
    BY <1>3, <2>1
  <2>3. record' \in Record /\ record'.native = n
    BY <1>8, <2>1, <2>2, WithTurns DEF Record
  <2> DEFINE o == [object[s] EXCEPT !.rec = record', !.turn = "none"]
  <2>4. o \in Object /\ o.rec = record'
    BY <1>1, <2>3 DEF Object
  <2>5. object' = [object EXCEPT ![s] = o]
    BY <1>8
  <2> HIDE DEF o
  <2>6. /\ object' \in [Sessions -> Object \cup {None}] /\ object'[s] = o /\ o # None
        /\ \A u \in Sessions \ {s} : object'[u] = object[u]
    BY <2>4, <2>5, NoneIsNoRecord DEF IInv, TypeOK
  <2>7. ObjectsStay /\ RecordStays /\ record' # None
    BY <1>8, <2>3, <2>4, <2>6, NoneIsNoRecord DEF ObjectsStay, RecordStays
  <2>8. \A u \in Sessions : object'[u] # None <=> object[u] # None
    BY <1>1, <2>6 DEF Known
  <2>9. /\ mishaps \subseteq mishaps' /\ mishaps' \subseteq mishaps \cup {"write"}
        /\ ("write" \in mishaps' \/ record' = record \/ ~Outdated(s))
    BY <1>8 DEF Mishap
  <2>10. RecordFollows
    BY <1>1, <1>8, <2>3, <2>4, <2>6, <2>7, <2>9 DEF RecordFollows
  <2>11. succeeded' \subseteq Natives \X Nat
    BY <1>3, <1>8 DEF IInv, TypeOK
  <2> QED
    BY <1>1, <1>6, <2>3, <2>6, <2>7, <2>8, <2>9, <2>10, <2>11, TurnsKeep DEF IInv, TypeOK
\* it is not
<1>9. CASE /\ object' = [object EXCEPT ![s].turn = "none", ![s].broken = TRUE]
           /\ UNCHANGED <<record, succeeded, mishaps>>
  <2> DEFINE o == [object[s] EXCEPT !.turn = "none", !.broken = TRUE]
  <2>1. o \in Object /\ o.rec = object[s].rec
    BY <1>1 DEF Object
  <2>2. object' = [object EXCEPT ![s] = o]
    BY <1>9
  <2> HIDE DEF o
  <2>3. /\ object' \in [Sessions -> Object \cup {None}] /\ object'[s] = o /\ o # None
        /\ \A u \in Sessions \ {s} : object'[u] = object[u]
    BY <2>1, <2>2, NoneIsNoRecord DEF IInv, TypeOK
  <2>4. ObjectsStay /\ RecordStays
    BY <1>9, <2>1, <2>3 DEF ObjectsStay, RecordStays
  <2>5. /\ \A u \in Sessions : object'[u] # None <=> object[u] # None
        /\ \A u \in Sessions : Known(u) => object'[u].rec = object[u].rec
    BY <1>1, <2>1, <2>3 DEF Known
  <2>6. RecordFollows
    BY <1>9, <2>5 DEF RecordFollows
  <2> QED
    BY <1>1, <1>9, <2>3, <2>4, <2>5, <2>6, TurnsKeep DEF IInv, TypeOK
<1> QED
  BY <1>7, <1>8, <1>9

-----------------------------------------------------------------------------
(* Rollback *)

\* a call opens a session of its own
LEMMA CallOpens ==
  ASSUME IInv, NEW c \in Calls, NEW p \in {"comparing", "forkReading"},
         NEW s \in Sessions, NEW n \in Natives, Open(s, n),
         n = IF inPlace /\ call[c].op = "rollback" THEN Origin ELSE s,
         history' \in [Natives -> Seq(Nat)], born' \in [Natives -> Nat],
         loaded = None => history'[Origin] = history[Origin],
         call' = [call EXCEPT ![c].pc = p, ![c].new = s],
         call[c].pc \in {"opening", "forkOpening"},
         p = "comparing" => call[c].op = "rollback",
         p = "forkReading" => call[c].op = "fork",
         UNCHANGED <<record, derived, inPlace, object, loaded, restoring, succeeded,
                     overtaken, mishaps>>
  PROVE  IInv'
<1>1. call \in [Calls -> Call] /\ call[c].pc \in Resolved \ Opened
  BY DEF IInv, TypeOK, Resolved, Rolling, Forking, Opened
<1>2. /\ call' \in [Calls -> Call] /\ Goes(c, p) /\ call'[c].new = s
  <2> DEFINE k == [call[c] EXCEPT !.pc = p, !.new = s]
  <2>1. call[c] \in Call
    BY <1>1
  <2>2. k \in Call /\ k.pc = p /\ k.new = s
    BY <2>1 DEF Call, Pcs
  <2>3. k.op = call[c].op /\ k.obj = call[c].obj
    BY <2>1 DEF Call
  <2>4. call' = [call EXCEPT ![c] = k]
    BY <1>1, <2>1 DEF Call
  <2> HIDE DEF k
  <2> QED
    BY <1>1, <2>2, <2>3, <2>4 DEF Goes, Others
<1>3. /\ session[s] = "unused"
      /\ session' = [session EXCEPT ![s] = "open"] /\ native' = [native EXCEPT ![s] = n]
      /\ session' \in [Sessions -> {"unused", "open", "closed"}]
      /\ native' \in [Sessions -> Natives \cup {None}]
      /\ \A u \in Sessions : session[u] = "closed" => session'[u] = "closed"
  BY OpenedSession DEF IInv
<1>4. Fits(call[c]) /\ Holds(c) /\ Begun(c)
  BY <1>1 DEF IInv, Callers, Objects, Begun, Resolved, Rolling, Forking
<1>5. TypeOK'
  BY <1>2, <1>3 DEF IInv, TypeOK
<1>6. p \in Opened /\ p \in Resolved /\ p # "closing" /\ s # None
  BY Names DEF Opened, Resolved, Rolling, Forking
<1>7. Callers'
  <2>1. Fits(call'[c])
    BY <1>2, <1>6 DEF Goes, Fits, Rolling, Forking
  <2> QED
    BY <1>2, <1>4, <2>1, GoesCallers DEF IInv, Goes
<1>8. Objects'
  <2>1. ObjectsStay
    BY DEF ObjectsStay
  <2>2. Holds(c)'
    BY <1>1, <1>2, <1>3, <1>4, <1>6 DEF Goes, Holds, Begun
  <2>3. ASSUME NEW d \in Calls
        PROVE  Holds(d)'
    BY <1>2, <1>3, <2>1, <2>2, OthersHold DEF Goes, Others, IInv
  <2> QED
    BY <2>3 DEF IInv, Objects
<1>9. Restores'
  BY <1>2, <1>4 DEF IInv, Restores, Goes, Others
<1>10. /\ OpenedOn(c)' = n
       /\ \A d \in Calls \ {c} : call'[d] = call[d] /\ OpenedOn(d)' = OpenedOn(d)
  <2>1. call'[c].op = call[c].op /\ call'[c].new = s
    BY <1>2 DEF Goes
  <2>2. OpenedOn(c)' = n
    BY <2>1 DEF OpenedOn
  <2>3. ASSUME NEW d \in Calls \ {c}
        PROVE  call'[d] = call[d] /\ OpenedOn(d)' = OpenedOn(d)
    BY <1>2 DEF Goes, Others, OpenedOn
  <2> QED
    BY <2>2, <2>3
<1>11. ~Known(s) /\ (\A u \in Sessions \ {s} :
         session'[u] = session[u] /\ native'[u] = native[u])
       /\ session'[s] = "open" /\ native'[s] = n /\ n \in {Origin, s}
  BY <1>3 DEF IInv, TypeOK, Fresh
<1>12. ASSUME NEW d \in Calls
       PROVE  /\ d # c => call'[d] = call[d]
              /\ call[d].pc \in {"replacing", "closing"} <=> call'[d].pc \in {"replacing", "closing"}
              /\ call[d].pc = "closing" <=> call'[d].pc = "closing"
  BY <1>2 DEF Goes, Others
<1>19. Histories'
  <2>1. ASSUME NEW u \in Sessions, Owned(u)
        PROVE  Owned(u)'
    BY <1>1, <1>2, <2>1 DEF Owned, Goes, Others
  <2>2. Owned(s)'
    BY <1>2, <1>6 DEF Owned, Goes
  <2>3. ASSUME NEW u \in Sessions, Reverting(u)
        PROVE  Reverting(u)'
    BY <1>1, <1>12, <2>3 DEF Reverting
  <2>4. n = Origin => Reverting(s)'
    BY <1>2, <1>6, Names DEF Reverting, Goes
  <2> QED
    BY <1>11, <2>1, <2>2, <2>3, <2>4 DEF IInv, Histories
<1>13. Fresh'
  <2>1. ASSUME NEW d \in Calls \ {c}, call[d].pc \in Opened
        PROVE  call[d].new \in Sessions \ {s}
    BY <1>3, <2>1 DEF IInv, TypeOK, Call, Callers, Fits, Fresh
  <2>2. restoring # None /\ restoring.new # None => restoring.new \in Sessions \ {s}
    BY <1>3 DEF IInv, TypeOK, Restoration, Fresh
  <2>3. ASSUME NEW d \in Calls, call'[d].pc \in Opened
        PROVE  /\ session'[call'[d].new] = "open" /\ native'[call'[d].new] = OpenedOn(d)'
               /\ ~Known(call'[d].new)
    <3>1. CASE d = c
      BY <1>2, <1>10, <1>11, <3>1
    <3>2. CASE d # c
      <4>1. d \in Calls \ {c} /\ call'[d] = call[d] /\ call[d].pc \in Opened
        BY <1>12, <2>3, <3>2
      <4>2. call[d].new \in Sessions \ {s}
        BY <2>1, <4>1
      <4>3. /\ session[call[d].new] = "open" /\ native[call[d].new] = OpenedOn(d)
            /\ ~Known(call[d].new)
        BY <4>1 DEF IInv, Fresh
      <4> QED
        BY <1>10, <1>11, <4>1, <4>2, <4>3
    <3> QED
      BY <3>1, <3>2
  <2>4. ASSUME NEW d \in Calls, call'[d].pc = "located"
        PROVE  call'[d].obj = None
    BY <1>2, <1>12, <2>4 DEF IInv, Fresh, Goes
  <2>5. \A u \in Sessions : session'[u] = "unused" => session[u] = "unused"
    BY <1>11
  <2> QED
    BY <1>11, <2>2, <2>3, <2>4, <2>5 DEF IInv, Fresh, Known
<1>14. \A u \in Sessions : Known(u) => u # s /\ session'[u] = session[u] /\ native'[u] = native[u]
  BY <1>11
<1>15. Matches'
  <2>1. Switching' <=> Switching
    BY <1>12 DEF Switching
  <2>2. loaded # None => loaded \in Sessions /\ Known(loaded)
    BY DEF IInv, TypeOK, Objects, Known
  <2>3. ASSUME NEW d \in Calls, call'[d].pc \in {"replacing", "closing"}
        PROVE  /\ record.native = native'[call'[d].new] /\ record.native = call'[d].rec.native
               /\ Unwritten => record = call'[d].rec
    <3>1. d # c
      BY <1>2, <2>3 DEF Goes
    <3>2. call'[d] = call[d] /\ call[d].pc \in Opened
      BY <1>12, <2>3, <3>1 DEF Opened
    <3>3. call[d].new \in Sessions \ {s}
      BY <1>3, <3>2 DEF IInv, TypeOK, Call, Callers, Fits, Fresh
    <3> QED
      BY <1>11, <2>3, <3>2, <3>3 DEF IInv, Matches
  <2>4. (\A d \in Calls : call'[d].pc # "closing") <=> (\A d \in Calls : call[d].pc # "closing")
    BY <1>12
  <2>5. Unwritten' = Unwritten
    BY DEF Unwritten
  <2> QED
    BY <1>14, <2>1, <2>2, <2>3, <2>4, <2>5 DEF IInv, Matches, Known
<1>16. Derived'
  <2>1. ASSUME NEW d \in Calls, call[d].pc \in {"forkOpening", "forkReading"}
        PROVE  call'[d].pc \in {"forkOpening", "forkReading"}
    <3>1. CASE d = c
      BY <1>2, <1>4, <2>1, <3>1 DEF Goes, Fits, Forking
    <3>2. CASE d # c
      BY <1>12, <2>1, <3>2
    <3> QED
      BY <3>1, <3>2
  <2>2. ASSUME NEW d \in Calls, call'[d].pc \in Resolved
        PROVE  call[d].pc \in Resolved /\ call'[d].obj = call[d].obj
    <3>1. CASE d = c
      BY <1>1, <1>2, <3>1 DEF Goes
    <3>2. CASE d # c
      BY <1>12, <2>2, <3>2
    <3> QED
      BY <3>1, <3>2
  <2> QED
    BY <1>14, <2>1, <2>2 DEF IInv, Derived, Known
<1>18. Restored'
  <2>1. ASSUME loaded = None, record # None, NEW d \in Calls, call'[d].pc = "located"
        PROVE  Early(call'[d].rec)
    BY <1>2, <1>12, <2>1 DEF IInv, Restored, Goes
  <2> QED
    BY <1>11, <2>1 DEF IInv, Restored, Early
<1> QED
  BY <1>5, <1>7, <1>8, <1>9, <1>13, <1>15, <1>16, <1>18, <1>19 DEF IInv

LEMMA OpenRollbackKeeps ==
  ASSUME IInv, NEW c \in Calls, OpenRollback(c)
  PROVE  IInv'
<1> DEFINE o == call[c].obj
           rec == object[o].rec
           n == rec.native
           h == history[n]
<1>1. /\ UNCHANGED <<record, derived, inPlace, object, loaded, restoring, succeeded,
                     overtaken, mishaps>>
      /\ call \in [Calls -> Call] /\ call[c].pc = "opening"
  BY DEF OpenRollback, At, storeVars, ghostVars, IInv, TypeOK
<1>2. call[c].op = "rollback" /\ call[c].pc \in Resolved \ Opened /\ call[c].pc \in Rolling
  BY <1>1 DEF IInv, Callers, Fits, Rolling, Resolved, Opened
<1>3. loaded = o /\ loaded # None /\ \A d \in Calls \ {c} : call[d].pc \notin Rolling
  BY <1>2, OneOpened
<1>4. n \in Natives /\ h \in Seq(Nat) /\ Known(o) /\ o \in Sessions
  BY <1>2 DEF IInv, Objects, Holds, TypeOK, Object, Record, Known
<1>5. inPlace => n = Origin
  <2>1. ~Switching
    BY <1>1, <1>3 DEF Switching, Rolling
  <2> QED
    BY <1>3, <1>4, <2>1 DEF IInv, Matches, Histories
<1> HIDE DEF n, rec
<1>6. CASE Ended(c) /\ UNCHANGED <<born, session, native>> /\ history' \in [Natives -> Seq(Nat)]
  <2>1. call' \in [Calls -> Call] /\ Ends(c)
    BY <1>1, <1>6, EndedCall DEF Ends
  <2>2. TypeOK'
    BY <1>1, <1>6, <2>1 DEF IInv, TypeOK
  <2>3. ObjectsStay /\ RecordStays
    BY <1>1 DEF ObjectsStay, RecordStays
  <2>4. Callers' /\ Objects' /\ Restores' /\ Histories'
    BY <1>1, <1>2, <1>6, <2>1, <2>3, EndsPlainly
  <2>5. Mild /\ RecordFollows
    BY <1>1, <1>2, <2>1 DEF Mild, RecordFollows, Ends, Others
  <2>6. Fresh' /\ Matches' /\ Derived' /\ Restored'
    BY <1>1, <1>3, <1>6, <2>5, MildKeeps
  <2> QED
    BY <2>2, <2>4, <2>6 DEF IInv
<1>7. ASSUME h # <<>>, Revert(n)
      PROVE  history' \in [Natives -> Seq(Nat)]
  <2>1. Upto(h, Len(h) - 1) \in Seq(Nat)
    BY <1>4, <1>7, History
  <2> QED
    BY <1>4, <1>7, <2>1 DEF Revert, IInv, TypeOK
<1>8. ASSUME h # <<>>, ~inPlace, OpenCopy(c, h)
      PROVE  IInv'
  <2>1. PICK s \in Sessions :
          /\ Open(s, s)
          /\ history' = [history EXCEPT ![s] = Numbered(Len(h) - 1)]
          /\ born' = [born EXCEPT ![s] = Len(h) - 1]
          /\ call' = [call EXCEPT ![c].pc = "comparing", ![c].new = s]
    BY <1>8 DEF OpenCopy
  <2>2. Len(h) - 1 \in Nat /\ Numbered(Len(h) - 1) \in Seq(Nat)
    <3> DEFINE m == Len(h) - 1
    <3>1. m \in Nat
      BY <1>4, <1>8, History
    <3> HIDE DEF m
    <3>2. Numbered(m) \in Seq(Nat)
      BY <3>1, History
    <3> QED
      BY <3>1, <3>2 DEF m
  <2>3. history' \in [Natives -> Seq(Nat)] /\ born' \in [Natives -> Nat] /\ s \in Natives
    BY <2>1, <2>2, Names DEF IInv, TypeOK
  <2> QED
    BY <1>1, <1>2, <1>3, <1>8, <2>1, <2>3, CallOpens
<1>9. ASSUME h # <<>>, inPlace, OpenReverted(c, n)
      PROVE  IInv'
  <2>1. PICK s \in Sessions :
          /\ Open(s, n) /\ Revert(n) /\ UNCHANGED born
          /\ call' = [call EXCEPT ![c].pc = "comparing", ![c].new = s]
    BY <1>9 DEF OpenReverted
  <2>2. history' \in [Natives -> Seq(Nat)] /\ born' \in [Natives -> Nat]
    BY <1>7, <1>9, <2>1 DEF IInv, TypeOK
  <2> QED
    BY <1>1, <1>2, <1>3, <1>4, <1>5, <1>9, <2>1, <2>2, CallOpens
<1>10. ASSUME h # <<>>, Revert(n), Ended(c), UNCHANGED <<born, session, native>>
       PROVE  IInv'
  BY <1>6, <1>7, <1>10
<1>11. ASSUME Ended(c), UNCHANGED <<history, born, session, native>>
       PROVE  IInv'
  BY <1>6, <1>11 DEF IInv, TypeOK
<1>12. \/ h # <<>> /\ ~inPlace /\ OpenCopy(c, h)
       \/ h # <<>> /\ inPlace /\ OpenReverted(c, n)
       \/ h # <<>> /\ Revert(n) /\ Ended(c) /\ UNCHANGED <<born, session, native>>
       \/ Ended(c) /\ UNCHANGED <<history, born, session, native>>
  BY DEF OpenRollback, n, rec
<1> QED
  BY <1>8, <1>9, <1>10, <1>11, <1>12

\* a call that fails closes the session it has opened
LEMMA CallCloses ==
  ASSUME IInv, NEW c \in Calls, Ends(c), call' \in [Calls -> Call],
         call[c].pc \in {"comparing", "committing", "forkOpening", "forkReading"},
         IF call[c].new = None THEN UNCHANGED session ELSE Close(call[c].new),
         derived' \in [state: {"none", "creating", "ready"}, obj: Sessions \cup {None}],
         derived'.obj = derived.obj,
         derived.state # "ready" => derived'.state # "ready",
         derived.state = "ready" => derived' = derived,
         derived'.state = "creating" =>
           /\ derived' = derived
           /\ "remove" \in mishaps' \/ call[c].pc \notin Forking,
         mishaps \subseteq mishaps', mishaps' \subseteq mishaps \cup {"remove"},
         UNCHANGED <<record, inPlace, history, born, native, object, loaded, restoring,
                     succeeded, overtaken>>
  PROVE  IInv'
<1>1. /\ session' \in [Sessions -> {"unused", "open", "closed"}]
      /\ \A u \in Sessions : session'[u] = "open" => u # call[c].new /\ session[u] = "open"
      /\ \A u \in Sessions : session[u] = "closed" => session'[u] = "closed"
      /\ \A u \in Sessions : u # call[c].new => session'[u] = session[u]
      /\ \A u \in Sessions : session'[u] = "unused" <=> session[u] = "unused"
  <2>1. call[c].new \in Sessions \cup {None}
    BY DEF IInv, TypeOK, Call
  <2>2. CASE call[c].new = None
    BY <2>2, Names DEF IInv, TypeOK
  <2>3. CASE call[c].new # None
    <3>1. call[c].new \in Sessions /\ session[call[c].new] = "open"
      BY <2>1, <2>3 DEF IInv, Callers, Fits, Fresh
    <3> QED
      BY <2>3, <3>1, ClosedSession DEF IInv
  <2> QED
    BY <2>2, <2>3
<1>2. TypeOK'
  BY <1>1 DEF IInv, TypeOK
<1>3. Callers'
  BY EndsCallers DEF IInv
<1>4. Objects'
  <2>1. Holds(c)'
    BY DEF Ends, Holds, Resolved, Rolling, Forking, Begun
  <2>2. ASSUME NEW d \in Calls \ {c}
        PROVE  Holds(d)'
    <3>1. Holds(d) /\ call'[d] = call[d] /\ (call[d].pc \in Resolved => Begun(d))
      BY DEF IInv, Objects, Ends, Others, Resolved, Rolling, Forking, Begun
    <3> QED
      BY <1>1, <3>1 DEF Holds, Begun, Resolved, Rolling, Forking
  <2> QED
    BY <2>1, <2>2 DEF IInv, Objects
<1>5. Restores'
  BY DEF IInv, Restores, Ends, Others
<1>6. Histories'
  <2>1. ASSUME NEW u \in Sessions, Owned(u), u # call[c].new
        PROVE  Owned(u)'
    BY <2>1 DEF Owned, Ends, Others
  <2>2. ASSUME NEW u \in Sessions, Reverting(u), u # call[c].new
        PROVE  Reverting(u)'
    BY <2>2 DEF Reverting, Ends, Others
  <2> QED
    BY <1>1, <2>1, <2>2 DEF IInv, Histories
<1>7. call[c].pc \in Rolling \cup Forking
  BY DEF Rolling, Forking
<1>8. \A d \in Calls \ {c} : call'[d] = call[d] /\ call[d].pc \notin Opened
  BY <1>7, OneOpened DEF Ends, Others
<1>10. ASSUME NEW d \in Calls
       PROVE  /\ call'[d].pc \notin Opened
              /\ call'[d].pc \in Resolved \cup {"located"} => call'[d] = call[d]
              /\ call[d].pc \notin {"replacing", "closing"}
  BY <1>8 DEF Ends, Opened, Resolved, Rolling, Forking
<1>11. call[c].new # None => call[c].new \in Sessions /\ ~Known(call[c].new)
  <2>1. call[c].new # None => call[c].pc \in Opened /\ call[c].new \in Sessions
    BY DEF IInv, Callers, Fits, TypeOK, Call
  <2> QED
    BY <2>1 DEF IInv, Fresh
<1>12. \A u \in Sessions : Known(u) => session'[u] = session[u]
  BY <1>1, <1>11, Names
<1>13. Fresh'
  <2>1. restoring # None /\ restoring.new # None =>
          restoring.new \in Sessions /\ restoring.new # call[c].new
    <3>1. ASSUME restoring # None, restoring.new # None, restoring.new = call[c].new
          PROVE  FALSE
      <4>1. call[c].pc \in Opened /\ native[call[c].new] = OpenedOn(c)
        BY <3>1 DEF IInv, Callers, Fits, Fresh
      <4>2. native[call[c].new] = Origin
        BY <3>1 DEF IInv, Fresh
      <4>3. call[c].op = "rollback"
        BY <3>1, <4>1, <4>2, Names DEF OpenedOn, IInv, TypeOK, Call
      <4> QED
        BY <1>7, <3>1, <4>3, OneOpened
    <3> QED
      BY <3>1 DEF IInv, TypeOK, Restoration
  <2> QED
    BY <1>1, <1>10, <2>1 DEF IInv, Fresh, Known
<1>14. Matches'
  <2>1. ~Switching /\ ~Switching'
    BY <1>10 DEF Switching, Opened
  <2>2. loaded # None => loaded \in Sessions /\ Known(loaded)
    BY DEF IInv, TypeOK, Objects, Known
  <2>3. \A d \in Calls : call'[d].pc \notin {"replacing", "closing"} /\ call[d].pc # "closing"
    BY <1>10 DEF Opened
  <2>4. Unwritten' = Unwritten
    BY DEF Unwritten
  <2> QED
    BY <1>12, <2>1, <2>2, <2>3, <2>4 DEF IInv, Matches, Known
<1>15. Derived'
  <2>1. ASSUME derived'.state = "creating"
        PROVE  \/ "remove" \in mishaps'
               \/ \E d \in Calls : call'[d].pc \in {"forkOpening", "forkReading"}
    <3>1. CASE "remove" \in mishaps'
      BY <3>1
    <3>2. CASE "remove" \notin mishaps'
      <4>1. PICK d \in Calls : call[d].pc \in {"forkOpening", "forkReading"}
        BY <2>1, <3>2 DEF IInv, Derived
      <4>2. d # c
        BY <2>1, <3>2, <4>1 DEF Forking
      <4> QED
        BY <1>8, <4>1, <4>2
    <3> QED
      BY <3>1, <3>2
  <2>2. derived'.state = "ready" => derived' = derived
    OBVIOUS
  <2> QED
    BY <1>10, <1>12, <2>1, <2>2 DEF IInv, Derived, Known
<1>16. Restored'
  <2>1. ASSUME loaded = None, record # None, NEW d \in Calls, call'[d].pc = "located"
        PROVE  Early(call'[d].rec)
    BY <1>10, <2>1 DEF IInv, Restored
  <2>2. \A u \in Sessions : session[u] # "unused" => session'[u] # "unused"
    BY <1>1
  <2> QED
    BY <2>1, <2>2 DEF IInv, Restored, Early
<1> QED
  BY <1>2, <1>3, <1>4, <1>5, <1>6, <1>13, <1>14, <1>15, <1>16 DEF IInv

LEMMA GiveUpRollbackKeeps ==
  ASSUME IInv, NEW c \in Calls, GiveUpRollback(c)
  PROVE  IInv'
<1>1. /\ UNCHANGED <<record, derived, inPlace, history, born, native, object, loaded,
                     restoring, succeeded, overtaken, mishaps>>
      /\ call \in [Calls -> Call] /\ call[c].pc \in {"comparing", "committing"}
      /\ Close(call[c].new) /\ Ended(c)
  BY DEF GiveUpRollback, storeVars, nativeVars, ghostVars, IInv, TypeOK
<1>2. call[c].new # None /\ call[c].pc \notin Forking
  BY <1>1 DEF IInv, Callers, Fits, Opened, Forking
<1>3. call' \in [Calls -> Call] /\ Ends(c)
  BY <1>1, EndedCall DEF Ends
<1> QED
  BY <1>1, <1>2, <1>3, CallCloses DEF IInv, TypeOK

\* the rollback has the object of the registry, which is not running
LEMMA ReplaceKeeps ==
  ASSUME IInv, NEW c \in Calls, Replace(c), "replace" \notin mishaps'
  PROVE  IInv'
<1> DEFINE o == call[c].obj
<1>1. /\ UNCHANGED <<record, derived, inPlace, history, born, native, object, loaded,
                     restoring, succeeded, overtaken, mishaps>>
      /\ call \in [Calls -> Call] /\ call[c].pc = "replacing"
      /\ Goto(c, "closing") /\ Close(call[c].obj)
  BY DEF Replace, HostEnds, Mishap, At, storeVars, nativeVars, IInv, TypeOK
<1>2. Fits(call[c]) /\ Holds(c) /\ call[c].pc \in Resolved \cap Opened /\ Begun(c)
  BY <1>1 DEF IInv, Callers, Objects, Resolved, Rolling, Opened, Begun
<1>3. call[c].op = "rollback" /\ o \in Sessions /\ loaded = o
  BY <1>1, <1>2 DEF Fits, Holds, Rolling
<1>5. "closing" \in Pcs /\ "closing" \in Opened /\ "closing" \in Resolved
  BY DEF Pcs, Opened, Resolved, Rolling
<1>6. /\ call' \in [Calls -> Call] /\ Goes(c, "closing")
      /\ call'[c].new = call[c].new /\ call'[c].rec = call[c].rec
  BY <1>1, <1>5, MovedCall DEF Goes
<1>7. /\ session' \in [Sessions -> {"unused", "open", "closed"}] /\ session'[o] = "closed"
      /\ \A u \in Sessions : session'[u] = "open" => session[u] = "open"
      /\ \A u \in Sessions : session[u] = "closed" => session'[u] = "closed"
      /\ \A u \in Sessions \ {o} : session'[u] = session[u]
  BY <1>1, <1>3, ClosedSession DEF IInv
<1>8. TypeOK'
  BY <1>1, <1>6, <1>7 DEF IInv, TypeOK
<1>9. Callers'
  <2>1. Fits(call'[c])
    BY <1>1, <1>2, <1>3, <1>5, <1>6 DEF Goes, Fits, Rolling, Forking
  <2> QED
    BY <1>2, <1>6, <2>1, GoesCallers DEF IInv, Goes
<1>10. Objects'
  <2>1. ObjectsStay
    BY <1>1 DEF ObjectsStay
  <2>2. Holds(c)'
    BY <1>1, <1>2, <1>3, <1>5, <1>6, <1>7 DEF Goes, Holds
  <2>3. ASSUME NEW d \in Calls
        PROVE  Holds(d)'
    BY <1>1, <1>6, <1>7, <2>1, <2>2, OthersHold DEF Goes, Others, IInv
  <2> QED
    BY <1>1, <2>3 DEF IInv, Objects
<1>11. Restores'
  BY <1>1, <1>2, <1>6 DEF IInv, Restores, Goes, Others
<1>12. Histories'
  <2>1. ASSUME NEW u \in Sessions, Owned(u)
        PROVE  Owned(u)'
    BY <1>1, <1>2, <1>5, <1>6, <2>1 DEF Owned, Goes, Others
  <2>2. ASSUME NEW u \in Sessions, Reverting(u)
        PROVE  Reverting(u)'
    BY <1>1, <1>2, <1>5, <1>6, <2>2 DEF Reverting, Goes, Others
  <2> QED
    BY <1>1, <1>7, <2>1, <2>2 DEF IInv, Histories
<1>13. ASSUME NEW d \in Calls \ {c}
       PROVE  call'[d] = call[d] /\ call[d].pc \notin Opened
  <2>1. call[d].pc \in Opened => Begun(d) /\ call[d].op \in {"rollback", "fork"}
    BY DEF IInv, Callers, Fits, Rolling, Forking, Opened, Begun
  <2> QED
    BY <1>2, <1>3, <1>6, <2>1, OneAtATime DEF IInv, Goes, Others
<1>14. restoring = None /\ Known(o) /\ ~Known(call[c].new) /\ call[c].new \in Sessions
  BY <1>2, <1>3, Names DEF IInv, Restores, Holds, Known, Fresh, Fits, TypeOK, Call
<1>15. Fresh'
  <2>1. ASSUME NEW d \in Calls, call'[d].pc \in Opened
        PROVE  call'[d].new = call[c].new /\ d = c
    BY <1>6, <1>13, <2>1
  <2>2. /\ session[call[c].new] = "open" /\ native[call[c].new] = OpenedOn(c)
        /\ session'[call[c].new] = session[call[c].new] /\ OpenedOn(c)' = OpenedOn(c)
    BY <1>1, <1>2, <1>6, <1>7, <1>14 DEF IInv, Fresh, OpenedOn, Goes
  <2>3. \A d \in Calls : call'[d].pc = "located" => call'[d] = call[d]
    BY <1>6, <1>13 DEF Goes
  <2> QED
    BY <1>1, <1>7, <1>14, <2>1, <2>2, <2>3 DEF IInv, Fresh, Known
<1>16. Switching /\ Switching' /\ call'[c].pc = "closing"
  BY <1>1, <1>6 DEF Switching, Goes
<1>17. Matches'
  <2>1. ASSUME NEW d \in Calls, call'[d].pc \in {"replacing", "closing"}
        PROVE  /\ record.native = native[call'[d].new] /\ record.native = call'[d].rec.native
               /\ Unwritten => record = call'[d].rec
    BY <1>1, <1>6, <1>13, <2>1 DEF IInv, Matches, Opened
  <2>2. loaded # None
    BY <1>3, Names
  <2>3. Unwritten' = Unwritten
    BY <1>1 DEF Unwritten
  <2> QED
    BY <1>1, <1>16, <2>1, <2>2, <2>3 DEF IInv, Matches, Known
<1>18. Derived'
  <2>1. \A d \in Calls : call'[d].pc \in Resolved =>
          call[d].pc \in Resolved /\ call'[d].obj = call[d].obj
    BY <1>2, <1>6, <1>13 DEF Goes
  <2>2. \A d \in Calls : call[d].pc \in {"forkOpening", "forkReading"} => call'[d] = call[d]
    BY <1>1, <1>13
  <2> QED
    BY <1>1, <1>3, <1>7, <2>1, <2>2 DEF IInv, Derived, Known
<1>19. Restored'
  BY <1>1, <1>3, Names DEF Restored
<1> QED
  BY <1>8, <1>9, <1>10, <1>11, <1>12, <1>15, <1>17, <1>18, <1>19 DEF IInv

\* the old session has closed when the new one takes its place
LEMMA ReplacedKeeps ==
  ASSUME IInv, NEW c \in Calls, Replaced(c)
  PROVE  IInv'
<1> DEFINE o == call[c].obj
           s == call[c].new
<1>1. /\ UNCHANGED <<record, derived, inPlace, history, born, session, native, restoring,
                     succeeded, overtaken, mishaps>>
      /\ call \in [Calls -> Call] /\ call[c].pc = "closing"
      /\ loaded' = s /\ object' = [object EXCEPT ![s] = Idle(call[c].rec)]
  BY DEF Replaced, At, storeVars, sessionVars, nativeVars, ghostVars, IInv, TypeOK
<1>2. call' \in [Calls -> Call] /\ Ends(c)
  BY <1>1, EndedCall DEF Replaced, Ends
<1>3. Fits(call[c]) /\ Holds(c) /\ call[c].pc \in Resolved \cap Opened /\ Begun(c)
  BY <1>1 DEF IInv, Callers, Objects, Resolved, Rolling, Opened, Begun
<1>4. /\ call[c].op = "rollback" /\ o \in Sessions /\ loaded = o /\ session[o] = "closed"
      /\ s \in Sessions /\ s # None /\ call[c].rec \in Record
  BY <1>1, <1>3 DEF Fits, Holds, Rolling, Call
<1>5. restoring = None
  BY <1>4, Names DEF IInv, Restores
<1>6. Idle(call[c].rec) \in Object /\ Idle(call[c].rec).turn = "none"
  BY <1>4 DEF Idle, Object
<1>7. /\ object' \in [Sessions -> Object \cup {None}]
      /\ object'[s] # None /\ object'[s].turn = "none"
      /\ \A u \in Sessions \ {s} : object'[u] = object[u]
  BY <1>1, <1>4, <1>6, NoneIsNoRecord DEF IInv, TypeOK
<1>8. ASSUME NEW d \in Calls \ {c}, Begun(d)
      PROVE  call[d].op \notin {"rollback", "delete"}
  BY <1>3, <1>4, <1>8, OneAtATime DEF IInv
<1>9. TypeOK'
  BY <1>1, <1>2, <1>4, <1>7 DEF IInv, TypeOK
<1>10. Callers'
  BY <1>2, EndsCallers DEF IInv
<1>11. Objects'
  <2>1. Holds(c)'
    BY <1>2 DEF Ends, Holds, Resolved, Rolling, Forking, Begun
  <2>2. ASSUME NEW d \in Calls \ {c}
        PROVE  Holds(d)'
    <3>1. Holds(d) /\ call'[d] = call[d] /\ (call[d].pc \in Resolved => Begun(d))
      BY <1>2 DEF IInv, Objects, Ends, Others, Resolved, Rolling, Forking, Begun
    <3> QED
      BY <1>1, <1>7, <1>8, <3>1 DEF Holds, Begun, Resolved, Rolling, Forking
  <2> QED
    BY <1>1, <1>7, <2>1, <2>2 DEF IInv, Objects
<1>12. Restores'
  <2>2. record # None
    BY <1>4, Names DEF IInv, Matches
  <2> QED
    BY <1>1, <1>5, <2>2 DEF Restores
<1>13. Histories'
  <2>1. ASSUME NEW u \in Sessions, Owned(u), u # o
        PROVE  Owned(u)'
    BY <1>1, <1>2, <1>4, <2>1 DEF Owned, Ends, Others
  <2>2. ASSUME NEW u \in Sessions, Reverting(u)
        PROVE  u = s
    <3>1. PICK d \in Calls : call[d].op = "rollback" /\ call[d].pc \in Opened /\ call[d].new = u
      BY <2>2 DEF Reverting
    <3>2. d = c
      BY <1>3, <1>4, <3>1, OneAtATime DEF IInv, Begun, Opened
    <3> QED
      BY <3>1, <3>2
  <2>3. record # None /\ inPlace => record.native = Origin
    BY DEF IInv, Histories
  <2> QED
    BY <1>1, <1>4, <1>5, <2>1, <2>2, <2>3 DEF IInv, Histories
<1>14. ASSUME NEW d \in Calls
       PROVE  /\ call'[d].pc \notin Opened
              /\ call'[d].pc \in Resolved \cup {"located"} => call'[d] = call[d]
              /\ d # c => call[d].pc \notin Opened /\ call'[d] = call[d]
  <2>1. call[d].pc \in Opened => Begun(d) /\ call[d].op \in {"rollback", "fork"}
    BY DEF IInv, Callers, Fits, Rolling, Forking, Opened, Begun
  <2>2. d # c => call[d].pc \notin Opened /\ call'[d] = call[d]
    BY <1>2, <1>3, <1>4, <2>1, OneAtATime DEF IInv, Ends, Others
  <2>3. call'[c].pc = "ended" /\ "ended" \notin Opened /\ "ended" \notin Resolved \cup {"located"}
    BY <1>2 DEF Ends, Opened, Resolved, Rolling, Forking
  <2> QED
    BY <2>2, <2>3
<1>15. /\ session[s] = "open" /\ ~Known(s)
       /\ native[s] \in {Origin, s} /\ (~inPlace => native[s] = s)
  BY <1>3, <1>4, Names DEF IInv, Fresh, OpenedOn
<1>16. /\ record.native = native[s] /\ record.native = call[c].rec.native /\ record # None
       /\ Unwritten => record = call[c].rec
  BY <1>1, <1>4, Names DEF IInv, Matches
<1>17. object'[s] # None /\ object'[s].rec = call[c].rec /\ \A u \in Sessions \ {s} : Known(u)' <=> Known(u)
  <2>1. Idle(call[c].rec).rec = call[c].rec
    BY DEF Idle
  <2>2. object'[s] = Idle(call[c].rec)
    BY <1>1, <1>4 DEF IInv, TypeOK
  <2> QED
    BY <1>7, <1>16, <2>1, <2>2 DEF Known
<1>18. Fresh'
  BY <1>1, <1>5, <1>14, <1>15, <1>17 DEF IInv, Fresh
<1>19. Matches'
  <2>1. \A d \in Calls : call'[d].pc \notin {"replacing", "closing"}
    BY <1>14 DEF Opened
  <2>2. ~Switching'
    BY <2>1 DEF Switching
  <2>3. Switching
    BY <1>1 DEF Switching
  <2>4. ASSUME NEW u \in Sessions \ {s}, Known(u)
        PROVE  /\ object'[u].rec.native = native[u] /\ native[u] \in {Origin, u}
               /\ ~inPlace => native[u] # record.native
    BY <1>7, <1>16, <2>3, <2>4 DEF IInv, Matches
  <2>5. loaded' = s /\ loaded' # None
    BY <1>1, <1>4
  <2>6. Unwritten' = Unwritten
    BY <1>1 DEF Unwritten
  <2> QED
    BY <1>1, <1>15, <1>16, <1>17, <2>1, <2>2, <2>4, <2>5, <2>6 DEF Matches, Known
<1>20. Derived'
  <2>1. derived.state = "ready" => derived.obj # s
    BY <1>15 DEF IInv, Derived
  <2>2. ASSUME NEW d \in Calls, call[d].pc \in {"forkOpening", "forkReading"}
        PROVE  call'[d].pc \in {"forkOpening", "forkReading"}
    BY <1>1, <1>14, <2>2
  <2>3. \A d \in Calls : call'[d].pc \in Resolved => call'[d] = call[d]
    BY <1>14
  <2> QED
    BY <1>1, <1>17, <2>1, <2>2, <2>3 DEF IInv, Derived
<1>21. Restored'
  BY <1>1, <1>4 DEF Restored
<1> QED
  BY <1>9, <1>10, <1>11, <1>12, <1>13, <1>18, <1>19, <1>20, <1>21 DEF IInv

-----------------------------------------------------------------------------
(* Fork *)

LEMMA CreateDerivedKeeps ==
  ASSUME IInv, NEW c \in Calls, CreateDerived(c)
  PROVE  IInv'
<1>1. /\ UNCHANGED <<record, inPlace, history, born, session, native, object, loaded,
                     restoring, succeeded, overtaken, mishaps>>
      /\ call \in [Calls -> Call] /\ call[c].pc = "forking"
  BY DEF CreateDerived, At, sessionVars, nativeVars, ghostVars, IInv, TypeOK
<1>2. Fits(call[c]) /\ Holds(c) /\ call[c].pc \in Resolved \ Opened /\ Begun(c)
  BY <1>1 DEF IInv, Callers, Objects, Resolved, Forking, Opened, Begun
<1>3. call[c].op = "fork" /\ derived.state # "ready" /\ derived.obj = None
  BY <1>1, <1>2 DEF Fits, Holds, Forking, IInv, Objects
<1>4. CASE UNCHANGED derived /\ Ended(c)
  <2>1. call' \in [Calls -> Call] /\ Ends(c)
    BY <1>1, <1>4, EndedCall DEF Ends
  <2>2. TypeOK'
    BY <1>1, <1>4, <2>1 DEF IInv, TypeOK
  <2>3. ObjectsStay /\ RecordStays
    BY <1>1 DEF ObjectsStay, RecordStays
  <2>4. Callers' /\ Objects' /\ Restores' /\ Histories'
    BY <1>1, <1>2, <1>4, <2>1, <2>3, EndsPlainly
  <2>5. Mild /\ RecordFollows
    BY <1>1, <1>2, <2>1 DEF Mild, RecordFollows, Ends, Others
  <2>6. Fresh' /\ Matches' /\ Derived' /\ Restored'
    BY <1>1, <1>4, <2>5, MildKeeps
  <2> QED
    BY <2>2, <2>4, <2>6 DEF IInv
<1>5. CASE derived' = [derived EXCEPT !.state = "creating"] /\ Goto(c, "forkOpening")
  <2>1. /\ derived' \in [state: {"none", "creating", "ready"}, obj: Sessions \cup {None}]
        /\ derived'.state = "creating" /\ derived'.obj = None
    BY <1>3, <1>5 DEF IInv, TypeOK
  <2>2. "forkOpening" \in Pcs /\ "forkOpening" \in Resolved \ Opened
    BY DEF Pcs, Resolved, Forking, Opened
  <2>3. /\ call' \in [Calls -> Call] /\ Goes(c, "forkOpening") /\ call'[c].new = call[c].new
    BY <1>1, <1>5, <2>2, MovedCall DEF Goes
  <2>4. TypeOK'
    BY <1>1, <2>1, <2>3 DEF IInv, TypeOK
  <2>5. Callers'
    <3>1. Fits(call'[c])
      BY <1>2, <1>3, <2>2, <2>3 DEF Goes, Fits, Rolling, Forking
    <3> QED
      BY <1>2, <2>3, <3>1, GoesCallers DEF IInv, Goes
  <2>6. Objects'
    <3>1. Holds(c)'
      BY <1>1, <1>2, <1>3, <2>1, <2>2, <2>3 DEF Goes, Holds
    <3>2. ASSUME NEW d \in Calls \ {c}
          PROVE  Holds(d)'
      <4>1. Holds(d) /\ call'[d] = call[d]
        BY <2>3 DEF IInv, Objects, Goes, Others
      <4> QED
        BY <1>1, <2>1, <4>1 DEF Holds, Begun
    <3> QED
      BY <1>1, <2>1, <3>1, <3>2 DEF IInv, Objects
  <2>7. Restores'
    BY <1>1, <1>2, <2>2, <2>3 DEF IInv, Restores, Goes, Others, Resolved, Rolling, Forking
  <2>8. Histories'
    <3>1. ASSUME NEW u \in Sessions, Owned(u)
          PROVE  Owned(u)'
      BY <1>1, <1>2, <1>3, <2>1, <2>3, <3>1, Names DEF Owned, Goes, Others
    <3>2. ASSUME NEW u \in Sessions, Reverting(u)
          PROVE  Reverting(u)'
      BY <1>1, <1>2, <2>3, <3>2 DEF Reverting, Goes, Others
    <3> QED
      BY <1>1, <3>1, <3>2 DEF IInv, Histories
  <2>9. ASSUME NEW d \in Calls
        PROVE  /\ call'[d].pc \in Opened \cup {"located"} => call'[d] = call[d]
               /\ call[d].pc \in {"replacing", "closing"} => call'[d] = call[d]
    BY <1>1, <2>2, <2>3 DEF Goes, Others
  <2>10. Fresh'
    <3>1. \A d \in Calls : call'[d].pc \in Opened => OpenedOn(d)' = OpenedOn(d)
      BY <1>1, <2>9 DEF OpenedOn
    <3> QED
      BY <1>1, <2>9, <3>1 DEF IInv, Fresh, Known
  <2>11. Matches'
    <3>1. Switching' <=> Switching
      BY <2>9 DEF Switching, Opened
    <3>2. (\A d \in Calls : call'[d].pc # "closing") <=> (\A d \in Calls : call[d].pc # "closing")
      BY <2>9 DEF Opened
    <3>3. ASSUME NEW d \in Calls, call'[d].pc \in {"replacing", "closing"}
          PROVE  call'[d] = call[d]
      BY <2>9, <3>3 DEF Opened
    <3>4. Unwritten' = Unwritten
      BY <1>1 DEF Unwritten
    <3> QED
      BY <1>1, <3>1, <3>2, <3>3, <3>4 DEF IInv, Matches, Known
  <2>12. Derived'
    BY <2>1, <2>3 DEF Derived, Goes
  <2>13. Restored'
    BY <1>1, <2>9 DEF IInv, Restored, Early
  <2> QED
    BY <2>4, <2>5, <2>6, <2>7, <2>8, <2>10, <2>11, <2>12, <2>13 DEF IInv
<1> QED
  BY <1>4, <1>5 DEF CreateDerived

LEMMA OpenForkKeeps ==
  ASSUME IInv, NEW c \in Calls, OpenFork(c)
  PROVE  IInv'
<1> DEFINE o == call[c].obj
<1>1. PICK s \in Sessions, n \in DOMAIN object[o].rec.turns :
        /\ Open(s, s)
        /\ history' = [history EXCEPT ![s] = Numbered(n)]
        /\ born' = [born EXCEPT ![s] = n]
        /\ call' = [call EXCEPT ![c].pc = "forkReading", ![c].new = s]
  BY DEF OpenFork
<1>2. /\ UNCHANGED <<record, derived, inPlace, object, loaded, restoring, succeeded,
                     overtaken, mishaps>>
      /\ call[c].pc = "forkOpening"
  BY DEF OpenFork, At, storeVars, ghostVars
<1>3. call[c].op = "fork" /\ call[c].pc \in Resolved
  BY <1>2 DEF IInv, Callers, Fits, Forking, Resolved
<1>4. object[o].rec.turns \in Seq(Turn)
  BY <1>3 DEF IInv, Objects, Holds, TypeOK, Object, Record
<1>5. n \in Nat
  BY <1>4
<1>6. Numbered(n) \in Seq(Nat)
  BY <1>5, History
<1>7. /\ history' \in [Natives -> Seq(Nat)] /\ born' \in [Natives -> Nat]
      /\ history'[Origin] = history[Origin] /\ s \in Natives
  BY <1>1, <1>5, <1>6, Names DEF IInv, TypeOK
<1> QED
  BY <1>1, <1>2, <1>3, <1>7, CallOpens

LEMMA GiveUpForkKeeps ==
  ASSUME IInv, NEW c \in Calls, GiveUpFork(c)
  PROVE  IInv'
<1>1. /\ UNCHANGED <<record, inPlace, history, born, native, object, loaded, restoring,
                     succeeded, overtaken>>
      /\ call \in [Calls -> Call] /\ call[c].pc \in {"forkOpening", "forkReading"}
      /\ IF call[c].new = None THEN UNCHANGED session ELSE Close(call[c].new)
      /\ Ended(c)
      /\ \/ derived' = NoFork /\ UNCHANGED mishaps
         \/ UNCHANGED derived /\ mishaps' = mishaps \cup {"remove"}
  BY DEF GiveUpFork, Mishap, nativeVars, IInv, TypeOK
<1>2. call[c].op = "fork" /\ Begun(c)
  BY <1>1 DEF IInv, Callers, Fits, Forking, Begun
<1>3. /\ derived \in [state: {"none", "creating", "ready"}, obj: Sessions \cup {None}]
      /\ derived.state # "ready" /\ derived.obj = None
  BY <1>2 DEF IInv, Objects, Holds, TypeOK
<1>4. call' \in [Calls -> Call] /\ Ends(c)
  BY <1>1, EndedCall DEF Ends
<1>5. /\ derived' \in [state: {"none", "creating", "ready"}, obj: Sessions \cup {None}]
      /\ derived'.obj = derived.obj /\ derived'.state # "ready"
      /\ derived'.state = "creating" => derived' = derived /\ "remove" \in mishaps'
      /\ mishaps \subseteq mishaps' /\ mishaps' \subseteq mishaps \cup {"remove"}
  BY <1>1, <1>3 DEF NoFork
<1> QED
  BY <1>1, <1>2, <1>3, <1>4, <1>5, CallCloses

\* the forked thread takes over the session of the call
LEMMA CommitDerivedKeeps ==
  ASSUME IInv, NEW c \in Calls, CommitDerived(c)
  PROVE  IInv'
<1> DEFINE s == call[c].new
           rec == [native |-> s, turns |-> [i \in DOMAIN history[s] |->
                                    [at |-> history[s][i], host |-> <<s, i>>]]]
<1>1. /\ UNCHANGED <<record, inPlace, history, born, session, native, loaded, restoring,
                     succeeded, overtaken, mishaps>>
      /\ call \in [Calls -> Call] /\ call[c].pc = "forkReading"
      /\ derived' = [state |-> "ready", obj |-> s]
      /\ object' = [object EXCEPT ![s] = Idle(rec)]
  BY DEF CommitDerived, At, sessionVars, nativeVars, ghostVars, IInv, TypeOK
<1>2. call' \in [Calls -> Call] /\ Ends(c)
  BY <1>1, EndedCall DEF CommitDerived, Ends
<1>3. call[c].op = "fork" /\ Begun(c) /\ s \in Sessions /\ s \in Natives
  BY <1>1, Names DEF IInv, Callers, Fits, Forking, Opened, Begun, Call
<1>4. derived.obj = None
  BY <1>3 DEF IInv, Objects, Holds
<1>5. rec \in Record
  BY <1>3, ForkedRecord DEF IInv, TypeOK
<1> HIDE DEF rec
<1>6. Idle(rec) \in Object /\ Idle(rec).turn = "none"
  BY <1>5 DEF Idle, Object
<1>7. /\ object' \in [Sessions -> Object \cup {None}]
      /\ object'[s] # None /\ object'[s].turn = "none"
      /\ \A u \in Sessions \ {s} : object'[u] = object[u]
  BY <1>1, <1>3, <1>6, NoneIsNoRecord DEF IInv, TypeOK
<1>8. ASSUME NEW d \in Calls \ {c}, Begun(d)
      PROVE  call[d].op # "fork"
  BY <1>3, <1>8, OneAtATime DEF IInv
<1>9. TypeOK'
  BY <1>1, <1>2, <1>3, <1>7 DEF IInv, TypeOK
<1>10. Callers'
  BY <1>2, EndsCallers DEF IInv
<1>11. Objects'
  <2>1. Holds(c)'
    BY <1>2 DEF Ends, Holds, Resolved, Rolling, Forking, Begun
  <2>2. ASSUME NEW d \in Calls \ {c}
        PROVE  Holds(d)'
    <3>1. Holds(d) /\ call'[d] = call[d]
      BY <1>2 DEF IInv, Objects, Ends, Others
    <3> QED
      BY <1>1, <1>7, <1>8, <3>1 DEF Holds, Begun
  <2>3. loaded # None => loaded \in Sessions
    BY DEF IInv, TypeOK
  <2> QED
    BY <1>1, <1>7, <2>1, <2>2, <2>3 DEF IInv, Objects
<1>12. Restores'
  BY <1>1, <1>2 DEF IInv, Restores, Ends, Others
<1>13. Histories'
  <2>1. ASSUME NEW u \in Sessions, Owned(u)
        PROVE  Owned(u)'
    BY <1>1, <1>2, <1>4, <2>1, Names DEF Owned, Ends, Others
  <2>2. ASSUME NEW u \in Sessions, Reverting(u)
        PROVE  Reverting(u)'
    BY <1>1, <1>2, <1>3, <2>2 DEF Reverting, Ends, Others
  <2> QED
    BY <1>1, <2>1, <2>2 DEF IInv, Histories
<1>14. ASSUME NEW d \in Calls
       PROVE  /\ call'[d].pc \notin Opened
              /\ call'[d].pc \in Resolved \cup {"located"} => call'[d] = call[d]
              /\ d # c => call[d].pc \notin Opened /\ call'[d] = call[d]
              /\ call[d].pc \notin {"replacing", "closing"}
  <2>1. call[d].pc \in Opened => Begun(d) /\ call[d].op \in {"rollback", "fork"}
    BY DEF IInv, Callers, Fits, Rolling, Forking, Opened, Begun
  <2>2. d # c => call[d].pc \notin Opened /\ call'[d] = call[d]
    BY <1>2, <1>3, <2>1, OneAtATime DEF IInv, Ends, Others
  <2>3. call'[c].pc = "ended" /\ "ended" \notin Opened /\ "ended" \notin Resolved \cup {"located"}
    BY <1>2 DEF Ends, Opened, Resolved, Rolling, Forking
  <2> QED
    BY <1>1, <2>2, <2>3 DEF Opened
<1>15. session[s] = "open" /\ native[s] = s /\ ~Known(s) /\ s # Origin
  <2>1. call[c].pc \in Opened
    BY <1>1 DEF Opened
  <2> QED
    BY <1>3, <2>1, Names DEF IInv, Fresh, OpenedOn
<1>16. object'[s].rec = rec /\ rec.native = s
  <2>1. Idle(rec).rec = rec
    BY DEF Idle
  <2>2. object'[s] = Idle(rec)
    BY <1>1, <1>3 DEF IInv, TypeOK
  <2> QED
    BY <2>1, <2>2 DEF rec
<1>17. object'[s] # None /\ \A u \in Sessions \ {s} : object'[u] = object[u] /\ (Known(u)' <=> Known(u))
  BY <1>7 DEF Known
<1>18. Fresh'
  BY <1>1, <1>14, <1>15, <1>17 DEF IInv, Fresh
<1>19. ~Switching /\ ~Switching'
  BY <1>14 DEF Switching, Opened
<1>20. loaded # None => loaded \in Sessions \ {s}
  BY <1>15 DEF IInv, TypeOK, Objects, Known
\* the call has the object of the thread: it has been loaded
<1>21. call[c].obj \in Sessions /\ Known(call[c].obj)
  BY <1>1 DEF IInv, Objects, Holds, Resolved, Forking, Known
<1>22. Matches'
  <2>1. record # None => loaded # None
    BY <1>21 DEF IInv, Matches
  <2>2. record # None => record.native # s
    <3>1. record # None => native[loaded] = record.native /\ Known(loaded) /\ loaded \in Sessions
      BY <1>19, <1>20, <2>1 DEF IInv, Matches, Objects, Known
    <3> QED
      BY <1>15, <1>20, <2>1, <3>1 DEF IInv, Matches
  <2>3. \A d \in Calls : call'[d].pc \notin {"replacing", "closing"}
    BY <1>14 DEF Opened
  <2>4. (\A d \in Calls : call[d].pc # "closing")
    BY <1>14
  <2>5. ASSUME NEW u \in Sessions, Known(u)'
        PROVE  /\ object'[u].rec.native = native[u] /\ native[u] \in {Origin, u}
               /\ record # None /\ ~inPlace /\ (u # loaded \/ Switching') => native[u] # record.native
    <3>1. CASE u = s
      BY <1>15, <1>16, <2>2, <3>1
    <3>2. CASE u # s
      BY <1>17, <1>19, <2>5, <3>2 DEF IInv, Matches
    <3> QED
      BY <3>1, <3>2
  <2>6. loaded # None => object'[loaded] = object[loaded]
    BY <1>17, <1>20
  <2>7. Unwritten' = Unwritten
    BY <1>1 DEF Unwritten
  <2> QED
    BY <1>1, <1>19, <2>1, <2>3, <2>4, <2>5, <2>6, <2>7 DEF IInv, Matches
<1>23. Derived'
  <2>1. ASSUME NEW d \in Calls, call'[d].pc \in Resolved
        PROVE  call'[d].obj # s
    BY <1>14, <1>15, <2>1 DEF IInv, Objects, Holds, Known
  <2> QED
    BY <1>1, <1>3, <1>15, <1>17, <1>20, <2>1, Names DEF Derived, Known
<1>24. Restored'
  BY <1>1, <1>21 DEF IInv, Matches, Restored
<1> QED
  BY <1>9, <1>10, <1>11, <1>12, <1>13, <1>18, <1>22, <1>23, <1>24 DEF IInv

-----------------------------------------------------------------------------
(* Deletion *)

\* a deletion that meets nobody opening the thread takes the object out of the
\* registry and closes its session
LEMMA DeleteKeeps ==
  ASSUME IInv, NEW c \in Calls, Delete(c), "delete" \notin mishaps'
  PROVE  IInv'
<1> DEFINE o == call[c].obj
<1>1. /\ UNCHANGED <<derived, inPlace, history, born, native, object, restoring,
                     succeeded, overtaken>>
      /\ call \in [Calls -> Call]
      /\ call[c].op = "delete" /\ call[c].pc \in {"located", "resolved"}
      /\ call' \in [Calls -> Call] /\ Ends(c)
  BY EndedCall DEF Delete, Ends, IInv, TypeOK, nativeVars
<1>2. call[c].pc \notin Opened \cup {"forkOpening"} /\ Begun(c)
  BY <1>1 DEF Opened, Begun
<1>3. CASE UNCHANGED <<record, loaded, session, mishaps>>
  <2>1. Ended(c)
    BY DEF Delete
  <2>2. Rest
    BY <1>1, <1>3 DEF Rest
  <2> QED
    BY <1>2, <2>1, <2>2, JustEnds
<1>4. CASE /\ record' = None /\ loaded' = None
           /\ IF o = None THEN UNCHANGED session ELSE Close(o)
           /\ Mishap("delete", Opening(c) \/ loaded # o)
  <2>1. o \in Sessions \cup {None} /\ o # Origin
    BY <1>1, Names DEF Call
  <2>2. /\ restoring = None /\ loaded = o /\ mishaps' = mishaps
        /\ \A d \in Calls \ {c} : call[d].pc \notin {"located", "awaiting"}
    BY <1>4 DEF Mishap, Opening
  <2>3. /\ session' \in [Sessions -> {"unused", "open", "closed"}]
        /\ \A u \in Sessions : session'[u] = "open" => u # o /\ session[u] = "open"
        /\ \A u \in Sessions : session[u] = "closed" => session'[u] = "closed"
    <3>1. CASE o = None
      BY <1>4, <3>1, Names DEF IInv, TypeOK
    <3>2. CASE o # None
      BY <1>4, <2>1, <3>2, ClosedSession DEF IInv
    <3> QED
      BY <3>1, <3>2
  <2>4. ASSUME NEW d \in Calls \ {c}, Begun(d)
        PROVE  call[d].op \notin {"rollback", "fork", "delete"}
    BY <1>1, <1>2, <2>4, OneAtATime DEF IInv
  <2>5. TypeOK'
    BY <1>1, <1>4, <2>2, <2>3 DEF IInv, TypeOK
  <2>6. Callers'
    BY <1>1, EndsCallers DEF IInv
  <2>7. Objects'
    <3>1. Holds(c)'
      BY <1>1 DEF Ends, Holds, Resolved, Rolling, Forking, Begun
    <3>2. ASSUME NEW d \in Calls \ {c}
          PROVE  Holds(d)'
      <4>1. Holds(d) /\ call'[d] = call[d] /\ (call[d].pc \in Resolved => Begun(d))
        BY <1>1 DEF IInv, Objects, Ends, Others, Resolved, Rolling, Forking, Begun
      <4> QED
        BY <1>1, <2>3, <2>4, <4>1 DEF Holds, Begun, Resolved, Rolling, Forking
    <3> QED
      BY <1>1, <1>4, <3>1, <3>2 DEF IInv, Objects
  <2>8. Restores'
    <3>1. ASSUME NEW d \in Calls
          PROVE  call'[d].pc \notin {"located", "awaiting"}
      BY <1>1, <2>2 DEF Ends, Others
    <3> QED
      BY <1>1, <1>4, <2>2, <3>1 DEF Restores
  <2>9. ASSUME NEW d \in Calls
        PROVE  /\ call[d].pc \notin Opened \cup {"forkOpening"}
               /\ call'[d].pc \notin Opened \cup {"forkOpening"}
               /\ call'[d].pc # "located"
               /\ call'[d].pc \in Resolved => call'[d] = call[d]
    <3>1. call[d].pc \in Opened \cup {"forkOpening"} => Begun(d) /\ call[d].op \in {"rollback", "fork"}
      BY DEF IInv, Callers, Fits, Rolling, Forking, Opened, Begun
    <3>2. call[d].pc \notin Opened \cup {"forkOpening"}
      BY <1>2, <2>4, <3>1
    <3> QED
      BY <1>1, <2>2, <3>2 DEF Ends, Others, Opened, Resolved, Rolling, Forking
  <2>10. Histories'
    <3>1. ASSUME NEW u \in Sessions, Owned(u), u # o
          PROVE  Owned(u)'
      BY <1>1, <2>2, <2>9, <3>1 DEF Owned
    <3>2. ASSUME NEW u \in Sessions
          PROVE  ~Reverting(u)
      BY <2>9 DEF Reverting
    <3> QED
      BY <1>1, <1>4, <2>2, <2>3, <3>1, <3>2 DEF IInv, Histories
  <2>11. \A u \in Sessions : u # o => session'[u] = session[u]
    BY <1>4, <2>1 DEF IInv, TypeOK, Close
  <2>12. o # None => o \in Sessions /\ Known(o) /\ session[o] # "unused"
    BY <2>1, <2>2 DEF IInv, Objects, Known, Fresh
  <2>13. \A u \in Sessions : session'[u] = "unused" => session[u] = "unused"
    BY <1>4, <2>11, <2>12 DEF IInv, TypeOK, Close
  <2>14. Fresh'
    BY <1>1, <2>2, <2>9, <2>13 DEF IInv, Fresh, Known
  <2>15. Matches'
    <3>1. \A d \in Calls : call'[d].pc \notin {"replacing", "closing"}
      BY <2>9 DEF Opened
    <3>2. \A u \in Sessions : Known(u)' => /\ object'[u].rec.native = native'[u]
                                           /\ native'[u] \in {Origin, u}
      BY <1>1 DEF IInv, Matches, Known
    <3> QED
      BY <1>4, <3>1, <3>2 DEF Matches
  <2>16. Derived'
    <3>1. derived.state = "creating" => "remove" \in mishaps
      BY <2>9 DEF IInv, Derived, Opened
    <3>2. derived.state = "ready" =>
            derived.obj \in Sessions /\ session'[derived.obj] = "open" /\ Known(derived.obj)
      BY <2>2, <2>11 DEF IInv, Derived
    <3>3. ASSUME NEW d \in Calls, call'[d].pc \in Resolved, derived.state = "ready"
          PROVE  call'[d].obj # derived.obj
      BY <2>9, <3>3 DEF IInv, Derived
    <3> QED
      BY <1>1, <1>4, <2>2, <3>1, <3>2, <3>3, Names DEF Derived, Known
  <2>17. Restored'
    BY <1>4 DEF Restored
  <2> QED
    BY <2>5, <2>6, <2>7, <2>8, <2>10, <2>14, <2>15, <2>16, <2>17 DEF IInv
<1> QED
  BY <1>3, <1>4 DEF Delete

-----------------------------------------------------------------------------
(* The theorems *)

LEMMA InitKeeps ==
  ASSUME Init
  PROVE  IInv
<1>1. \A c \in Calls : call[c] = Free
  BY DEF Init
<1>2. \A s \in Sessions : session[s] = "unused"
  BY DEF Init
<1>3. record \in Record /\ record # None /\ record.native = Origin /\ record.turns = <<First>>
  <2>1. record = [native |-> Origin, turns |-> <<First>>]
    BY DEF Init, First
  <2>2. First \in Turn
    BY Names DEF First, Turn
  <2>3. <<First>> \in Seq(Turn)
    BY <2>2
  <2>4. record \in Record
    BY <2>1, <2>3, Names DEF Record
  <2> QED
    BY <2>1, <2>4, NoneIsNoRecord
<1>4. PICK k \in 1..2 :
        /\ history = [n \in Natives |-> IF n = Origin THEN Numbered(k) ELSE <<>>]
        /\ born = [n \in Natives |-> IF n = Origin THEN k ELSE 0]
  BY DEF Init
<1>5. TypeOK
  <2>1. Numbered(k) \in Seq(Nat) /\ <<>> \in Seq(Nat) /\ k \in Nat
    BY History
  <2>2. history \in [Natives -> Seq(Nat)] /\ born \in [Natives -> Nat]
    BY <1>4, <2>1
  <2>3. call \in [Calls -> Call]
    BY FreeCall DEF Init
  <2>4. succeeded \subseteq Natives \X Nat
    BY Names DEF Init
  <2> QED
    BY <1>3, <2>2, <2>3, <2>4 DEF Init, TypeOK, NoFork
<1>6. Callers
  BY <1>1, FreeCall DEF Callers, Serial, Begun, Fits, Rolling, Forking, Opened, Calls
<1>7. Objects
  BY <1>1, FreeCall
     DEF Init, NoFork, Objects, Holds, Begun, Resolved, Rolling, Forking
<1>8. Restores
  BY <1>1, <1>3, FreeCall DEF Init, Restores
<1>9. Histories
  BY <1>2, <1>3 DEF Init, Histories
<1>10. Fresh
  BY <1>1, FreeCall DEF Init, Fresh, Known, Opened
<1>11. Matches
  BY <1>1, FreeCall DEF Init, Matches, Known
<1>12. Derived
  BY DEF Init, Derived, NoFork
<1>13. Restored
  <2>1. history[Origin] \in {Numbered(1), Numbered(2)}
    BY <1>4, Names
  <2> QED
    BY <1>1, <1>3, <2>1, FreeCall DEF Init, Restored
<1> QED
  BY <1>5, <1>6, <1>7, <1>8, <1>9, <1>10, <1>11, <1>12, <1>13 DEF IInv

LEMMA StepKeeps ==
  ASSUME IInv, NEW c \in Calls, Step(c), mishaps' \cap {"delete", "replace"} = {}
  PROVE  IInv'
BY ResolveKeeps, ProceedKeeps, ReadSnapshotKeeps, RefreshKeeps, StartTurnKeeps,
   OpenRollbackKeeps, GiveUpRollbackKeeps, CompareKeeps, CommitKeeps, ReplaceKeeps,
   ReplacedKeeps, CreateDerivedKeeps, OpenForkKeeps, GiveUpForkKeeps,
   CommitDerivedKeeps, DeleteKeeps DEF Step

\* the thread has not been deleted while someone opened it, and the Host runs
Clean == mishaps \cap {"delete", "replace"} = {}

\* the Host has ended
Stopped ==
  /\ \A s \in Sessions : session[s] # "open"
  /\ \A c \in Calls : call[c].pc = "ended"
  /\ restoring = None

LEMMA NextKeeps ==
  ASSUME IInv, [Next]_vars, Clean'
  PROVE  IInv'
<1>1. CASE UNCHANGED vars
  <2>1. TypeOK' /\ Callers' /\ Objects' /\ Restores' /\ Histories'
    BY <1>1 DEF vars, IInv, TypeOK, Callers, Serial, Begun, Operations, Objects,
       Holds, Restores, Histories, Owned, Reverting
  <2>2. Fresh' /\ Derived'
    BY <1>1 DEF vars, IInv, Fresh, Known, Derived, OpenedOn
  <2>3. Matches'
    BY <1>1 DEF vars, IInv, Matches, Switching, Known, Unwritten
  <2>4. Restored'
    BY <1>1 DEF vars, IInv, Restored, Early
  <2> QED
    BY <2>1, <2>2, <2>3, <2>4 DEF IInv
<1>2. ASSUME NEW c \in Calls, Begin(c) \/ Step(c)
      PROVE  IInv'
  BY <1>2, BeginKeeps, StepKeeps DEF Clean
<1>3. CASE Restore
  BY <1>3, RestoreOpensKeeps, RestoreFailsKeeps, RestoreReadsKeeps, RestoreAlignsKeeps,
     RegisterKeeps DEF Restore
<1>4. ASSUME NEW s \in Sessions, EndTurn(s)
      PROVE  IInv'
  BY <1>4, CompleteTurnKeeps, FailTurnKeeps, PersistTurnKeeps DEF EndTurn
<1> QED
  BY <1>1, <1>2, <1>3, <1>4 DEF Next

\* what went wrong stays on record
LEMMA MishapsStay ==
  ASSUME [Next]_vars
  PROVE  mishaps \subseteq mishaps'
<1>1. ASSUME NEW c \in Calls, Begin(c) \/ Step(c)
      PROVE  mishaps \subseteq mishaps'
  BY <1>1 DEF Begin, Step, Resolve, Proceed, ReadSnapshot, Refresh, StartTurn, OpenRollback,
     GiveUpRollback, Compare, Commit, Replace, HostEnds, Replaced, CreateDerived, OpenFork,
     GiveUpFork, CommitDerived, Delete, Mishap, ghostVars
<1>2. CASE Restore
  BY <1>2 DEF Restore, RestoreOpens, RestoreFails, RestoreReads, RestoreAligns, Register,
     ghostVars
<1>3. ASSUME NEW s \in Sessions, EndTurn(s)
      PROVE  mishaps \subseteq mishaps'
  BY <1>3 DEF EndTurn, CompleteTurn, FailTurn, PersistTurn, Mishap, ghostVars
<1> QED
  BY <1>1, <1>2, <1>3 DEF Next, vars

\* once the Host has ended nothing is opened or called
LEMMA StaysStopped ==
  ASSUME Stopped, [Next]_vars
  PROVE  Stopped' /\ mishaps' \cap {"replace"} = mishaps \cap {"replace"}
<1>1. ASSUME NEW c \in Calls
      PROVE  ~Begin(c) /\ ~Step(c)
  <2>1. call[c].pc = "ended" /\ call[c] # Free
    BY FreeCall DEF Stopped
  <2>2. ~Begin(c) /\ ~Resolve(c) /\ ~Proceed(c) /\ ~ReadSnapshot(c) /\ ~Refresh(c) /\ ~StartTurn(c)
    BY <2>1 DEF Begin, Resolve, Proceed, ReadSnapshot, Refresh, StartTurn, At
  <2>3. /\ ~OpenRollback(c) /\ ~GiveUpRollback(c) /\ ~Compare(c) /\ ~Commit(c)
        /\ ~Replace(c) /\ ~Replaced(c)
    BY <2>1 DEF OpenRollback, GiveUpRollback, Compare, Commit, Replace, Replaced, At
  <2>4. /\ ~CreateDerived(c) /\ ~OpenFork(c) /\ ~GiveUpFork(c) /\ ~CommitDerived(c) /\ ~Delete(c)
    BY <2>1 DEF CreateDerived, OpenFork, GiveUpFork, CommitDerived, Delete, At
  <2> QED
    BY <2>2, <2>3, <2>4 DEF Step
<1>2. ~Restore
  BY DEF Stopped, Restore, RestoreOpens, RestoreFails, RestoreReads, RestoreAligns, Register
<1>3. ASSUME NEW s \in Sessions, EndTurn(s)
      PROVE  /\ UNCHANGED <<session, call, restoring>>
             /\ mishaps' \cap {"replace"} = mishaps \cap {"replace"}
  <2>1. CASE CompleteTurn(s) \/ FailTurn(s)
    BY <2>1 DEF CompleteTurn, FailTurn, sessionVars, ghostVars
  <2>2. CASE PersistTurn(s)
    <3>1. UNCHANGED <<session, call, restoring>> /\ (mishaps' = mishaps \/ mishaps' = mishaps \cup {"write"})
      BY <2>2 DEF PersistTurn, Mishap, sessionVars
    <3> QED
      BY <3>1
  <2> QED
    BY <1>3, <2>1, <2>2 DEF EndTurn
<1>4. CASE UNCHANGED vars
  BY <1>4 DEF vars, Stopped
<1> QED
  BY <1>1, <1>2, <1>3, <1>4 DEF Next, Stopped

\* only a replace ends the Host
LEMMA ReplaceStops ==
  ASSUME Clean => IInv, [Next]_vars, "replace" \in mishaps', "replace" \notin mishaps,
         "delete" \notin mishaps
  PROVE  Stopped'
<1>0. TypeOK
  BY DEF Clean, IInv
<1>1. ASSUME NEW c \in Calls, Begin(c) \/ Step(c)
      PROVE  Replace(c)
  <2>1. ~Begin(c) /\ ~Resolve(c) /\ ~Proceed(c) /\ ~ReadSnapshot(c) /\ ~Refresh(c) /\ ~StartTurn(c)
    <3>1. ~Begin(c) /\ ~Resolve(c) /\ ~Proceed(c) /\ ~ReadSnapshot(c)
      BY DEF Begin, Resolve, Proceed, ReadSnapshot, ghostVars
    <3>2. ASSUME NEW m, NEW happens, Mishap(m, happens), m # "replace"
          PROVE  FALSE
      BY <3>2 DEF Mishap
    <3>3. Refresh(c) => \/ UNCHANGED mishaps
                        \/ Mishap("write", record' # record /\ Outdated(call[c].obj))
      BY DEF Refresh
    <3>4. StartTurn(c) => \/ UNCHANGED mishaps
                          \/ Mishap("start", inPlace /\ RollingBack(call[c].obj))
      BY DEF StartTurn
    <3> QED
      BY <3>1, <3>2, <3>3, <3>4
  <2>2. /\ ~OpenRollback(c) /\ ~GiveUpRollback(c) /\ ~Compare(c) /\ ~Commit(c) /\ ~Replaced(c)
    BY DEF OpenRollback, GiveUpRollback, Compare, Commit, Replaced, ghostVars
  <2>3. /\ ~CreateDerived(c) /\ ~OpenFork(c) /\ ~GiveUpFork(c) /\ ~CommitDerived(c) /\ ~Delete(c)
    BY DEF CreateDerived, OpenFork, GiveUpFork, CommitDerived, Delete, ghostVars, Mishap
  <2> QED
    BY <1>1, <2>1, <2>2, <2>3 DEF Step
<1>2. ~Restore
  BY DEF Restore, RestoreOpens, RestoreFails, RestoreReads, RestoreAligns, Register, ghostVars
<1>3. ASSUME NEW s \in Sessions
      PROVE  ~EndTurn(s)
  BY DEF EndTurn, CompleteTurn, FailTurn, PersistTurn, Mishap, ghostVars
<1>4. PICK c \in Calls : Replace(c)
  BY <1>1, <1>2, <1>3 DEF Next, vars
<1>5. HostEnds
  BY <1>4 DEF Replace
<1> QED
  BY <1>0, <1>5, FreeCall DEF HostEnds, Stopped, TypeOK

\* the invariant, and what is left of it once the Host has ended
Inv ==
  /\ Clean => IInv
  /\ "replace" \in mishaps /\ "delete" \notin mishaps => Stopped

LEMMA Invariant ==
  Spec => []Inv
<1>1. Init => Inv
  BY InitKeeps DEF Init, Inv
<1>2. ASSUME Inv, [Next]_vars
      PROVE  Inv'
  <2>1. mishaps \subseteq mishaps'
    BY <1>2, MishapsStay
  <2>2. Clean' => IInv'
    BY <1>2, <2>1, NextKeeps DEF Inv, Clean
  <2>3. ASSUME "replace" \in mishaps', "delete" \notin mishaps'
        PROVE  Stopped'
    <3>1. "delete" \notin mishaps
      BY <2>1, <2>3
    <3>2. CASE "replace" \in mishaps
      BY <1>2, <3>1, <3>2, StaysStopped DEF Inv
    <3>3. CASE "replace" \notin mishaps
      BY <1>2, <2>3, <3>1, <3>3, ReplaceStops DEF Inv
    <3> QED
      BY <3>2, <3>3
  <2> QED
    BY <2>2, <2>3 DEF Inv
<1> QED
  BY <1>1, <1>2, PTL DEF Spec

\* Every variable of the thread runtime keeps its type, whatever is aligned, rolled
\* back or forked, until the Host ends or the thread is deleted while it is opened
\* (ExternalThreadRuntime and its callers).
THEOREM TypeCorrect ==
  Spec => [](Clean => TypeOK)
<1>1. Inv => (Clean => TypeOK)
  BY DEF Inv, IInv
<1> QED
  BY <1>1, Invariant, PTL

\* A native session has at most one live session, except for the two of a rollback
\* in place, however restores, rollbacks, forks and a deletion of the thread
\* interleave (#restores and replace of ExternalThreadRuntime).
THEOREM OneSession ==
  Spec => []OneSessionPerHistory
<1>1. Inv => OneSessionPerHistory
  <2> SUFFICES ASSUME Inv, "delete" \notin mishaps, NEW s \in Sessions, NEW u \in Sessions,
                      session[s] = "open", session[u] = "open", native[s] = native[u], s # u
               PROVE  inPlace /\ \E c \in Calls :
                        call[c].op = "rollback" /\ {s, u} = {call[c].obj, call[c].new}
    BY DEF OneSessionPerHistory
  <2>1. IInv
    BY DEF Inv, Stopped, Clean
  <2>2. native[s] = Origin /\ native[u] = Origin
    BY <2>1 DEF IInv, Histories
  <2>3. ASSUME NEW v \in Sessions, session[v] = "open", native[v] = Origin
        PROVE  v = loaded \/ (restoring # None /\ restoring.new = v) \/ Reverting(v)
    BY <2>1, <2>3 DEF IInv, Histories
  <2>4. ASSUME NEW v \in Sessions, NEW w \in Sessions, Reverting(v), v # w,
               w = loaded \/ (restoring # None /\ restoring.new = w) \/ Reverting(w)
        PROVE  inPlace /\ \E c \in Calls :
                 call[c].op = "rollback" /\ {v, w} = {call[c].obj, call[c].new}
    <3>1. PICK c \in Calls : call[c].op = "rollback" /\ call[c].pc \in Opened /\ call[c].new = v
      BY <2>4 DEF Reverting
    <3>2. inPlace /\ call[c].pc \in Rolling \cup Forking
      BY <2>4, <3>1 DEF Reverting, Opened, Rolling, Forking
    <3>3. /\ loaded = call[c].obj /\ restoring = None
          /\ \A d \in Calls \ {c} : call[d].pc \notin Opened
      BY <2>1, <3>1, <3>2, OneOpened
    <3>4. w = loaded
      BY <2>4, <3>1, <3>3 DEF Reverting
    <3> QED
      BY <3>1, <3>2, <3>3, <3>4
  <2>5. CASE Reverting(s)
    BY <2>2, <2>3, <2>4, <2>5
  <2>6. CASE Reverting(u)
    <3>1. inPlace /\ \E c \in Calls :
            call[c].op = "rollback" /\ {u, s} = {call[c].obj, call[c].new}
      BY <2>2, <2>3, <2>4, <2>6
    <3> QED
      BY <3>1
  <2>7. CASE ~Reverting(s) /\ ~Reverting(u)
    BY <2>1, <2>2, <2>3, <2>7, Names DEF IInv, Restores
  <2> QED
    BY <2>5, <2>6, <2>7
<1> QED
  BY <1>1, Invariant, PTL

\* Every live session is the registry's, the fork's, a restore's or that of a
\* call which closes it when it fails; no step loses one (register, replace, and
\* the failure paths of restore, fork and rollback).
THEOREM NoSessionLeaks ==
  Spec => []SessionsAreOwned
<1>1. Inv => SessionsAreOwned
  <2> SUFFICES ASSUME Inv, "delete" \notin mishaps, NEW s \in Sessions, session[s] = "open",
                      s \notin {loaded, derived.obj}
               PROVE  InFlight(s)
    BY DEF SessionsAreOwned
  <2>1. Owned(s)
    BY DEF Inv, Clean, Stopped, IInv, Histories
  <2>2. ASSUME NEW c \in Calls, call[c].pc \in Opened
        PROVE  Begun(c)
    BY <2>2 DEF Opened, Begun
  <2> QED
    BY <2>1, <2>2 DEF Owned, InFlight
<1> QED
  BY <1>1, Invariant, PTL

\* When no call is under way, a loaded thread has the stored record and its live
\* native session, a deleted one is not loaded, and a half-made fork is left only by
\* a removal that failed (#threads of ExternalThreadRuntime and the store).
THEOREM RegistryAgrees ==
  Spec => []RegistryFollowsStore
<1>1. Inv => RegistryFollowsStore
  <2> SUFFICES ASSUME Inv, Settled, mishaps \cap {"delete", "replace", "write"} = {}
               PROVE  /\ loaded # None => /\ record # None /\ object[loaded].rec = record
                                          /\ session[loaded] = "open"
                                          /\ native[loaded] = record.native
                      /\ derived.state = "creating" => "remove" \in mishaps
                      /\ derived.state = "ready" => session[derived.obj] = "open"
    BY DEF RegistryFollowsStore
  <2>1. \A c \in Calls : call[c].pc \in {"idle", "ended"}
    BY DEF Settled, Begun
  <2>2. ~Switching /\ (\A c \in Calls : call[c].pc # "closing") /\ Unwritten
    BY <2>1 DEF Switching, Unwritten
  <2>3. IInv
    BY DEF Inv, Clean
  <2>4. \A c \in Calls : call[c].pc \notin {"forkOpening", "forkReading"}
    BY <2>1
  <2> QED
    BY <2>2, <2>3, <2>4 DEF IInv, Matches, Derived
<1> QED
  BY <1>1, Invariant, PTL

================================================================================
