--------------------------- MODULE SocketLockProofs ---------------------------
(***************************************************************************)
(* The Bakery over files excludes, for any set of callers, any number of   *)
(* retries and crashes, and the largest ticket there is, as long as no     *)
(* living caller is slower than the lease.                                 *)
(***************************************************************************)
EXTENDS SocketLock, TLAPS

LEMMA UnreadIsCatalog == Unread \in Catalog
BY DEF Unread, Catalog

LEMMA InitInductive == Init => IInv
<1> SUFFICES ASSUME Init PROVE IInv
  OBVIOUS
<1> USE DEF Init
<1>1. TypeOK
  BY UnreadIsCatalog DEF TypeOK, Pcs
<1>2. FilesFollow /\ ReadsAreFresh /\ ReclaimsTheDead /\ WriterHoldsMarker /\ MarkerIsInUse
  BY DEF FilesFollow, FileFollows, ReadsAreFresh, ReclaimsTheDead, WriterHoldsMarker, MarkerIsInUse,
         Published, Unread
<1>3. BakeryOrder
  BY DEF BakeryOrder, Passed, Published
<1> QED
  BY <1>1, <1>2, <1>3 DEF IInv

LEMMA CollectIsCatalog ==
  ASSUME TypeOK, NEW p \in Callers, NEW q \in Callers, entry[q] # None
  PROVE  Collect(p, q) \in Catalog
<1>1. entry[q] \in Entry /\ catalog[p] \in Catalog
  BY DEF TypeOK
<1>2. entry[q].ticket \in Nat
  BY <1>1 DEF Entry
<1>3. CASE pc[p] = "choosing"
  BY <1>1, <1>2, <1>3 DEF Collect, Catalog
<1>4. CASE pc[p] # "choosing"
  <2>1. Blocks(q, p) \in BOOLEAN
    BY <1>1 DEF Blocks, Priority, Entry
  <2> QED
    BY <1>1, <1>4, <2>1 DEF Collect, Catalog
<1> QED
  BY <1>3, <1>4

\* every step keeps the types
LEMMA TypeInductive == ASSUME IInv, NEW p \in Callers, Step(p) PROVE TypeOK'
<1> USE NoneIsNothing, UnreadIsCatalog DEF IInv, TypeOK, Pcs, Goto, Quit
<1>1. CASE Create(p)
  BY <1>1 DEF Create, Entry
<1>2. CASE ReadDirectory(p)
  <2>1. [catalog[p] EXCEPT !.listed = TRUE, !.todo = {q \in Callers : entry[q] # None}] \in Catalog
    <3>1. catalog[p] \in Catalog
      OBVIOUS
    <3>2. {q \in Callers : entry[q] # None} \in SUBSET Callers
      OBVIOUS
    <3> QED
      BY <3>1, <3>2 DEF Catalog
  <2>2. catalog' = [catalog EXCEPT ![p] = [catalog[p] EXCEPT !.listed = TRUE,
                                              !.todo = {q \in Callers : entry[q] # None}]]
    BY <1>2 DEF ReadDirectory
  <2>3. catalog' \in [Callers -> Catalog]
    BY <2>1, <2>2
  <2> QED
    BY <1>2, <2>3 DEF ReadDirectory
<1>3. ASSUME NEW q \in Callers, ReadEntry(p, q) PROVE TypeOK'
  <2>1. /\ [catalog[p] EXCEPT !.todo = @ \ {q}] \in Catalog
        /\ [catalog[p] EXCEPT !.reclaim = q] \in Catalog
    BY DEF Catalog
  <2>2. CASE catalog' = [catalog EXCEPT ![p].todo = @ \ {q}]
    BY <1>3, <2>1, <2>2 DEF ReadEntry
  <2>3. CASE catalog' = [catalog EXCEPT ![p].reclaim = q]
    BY <1>3, <2>1, <2>3 DEF ReadEntry
  <2>4. CASE entry[q] # None /\ catalog' = [catalog EXCEPT ![p] = Collect(p, q)]
    BY <1>3, <2>4, CollectIsCatalog DEF ReadEntry
  <2> QED
    BY <1>3, <2>2, <2>3, <2>4 DEF ReadEntry
<1>4. CASE Reclaim(p)
  <2> DEFINE q == catalog[p].reclaim
  <2>1. /\ [catalog[p] EXCEPT !.reclaim = None, !.todo = @ \ {q}] \in Catalog
        /\ [catalog[p] EXCEPT !.reclaim = None, !.todo = @ \ {q}, !.unsettled = TRUE] \in Catalog
        /\ q \in Callers
    BY <1>4 DEF Catalog, Reclaim
  <2>2. CASE catalog' = [catalog EXCEPT ![p].reclaim = None, ![p].todo = @ \ {q}]
    <3>1. catalog' = [catalog EXCEPT ![p] = [catalog[p] EXCEPT !.reclaim = None, !.todo = @ \ {q}]]
      BY <2>2
    <3>2. catalog' \in [Callers -> Catalog]
      BY <2>1, <3>1
    <3> QED
      BY <1>4, <2>1, <3>2 DEF Reclaim
  <2>3. CASE catalog' = [catalog EXCEPT ![p].reclaim = None, ![p].todo = @ \ {q}, ![p].unsettled = TRUE]
    <3>1. catalog' = [catalog EXCEPT ![p] = [catalog[p] EXCEPT !.reclaim = None, !.todo = @ \ {q},
                                                          !.unsettled = TRUE]]
      BY <2>3
    <3>2. catalog' \in [Callers -> Catalog]
      BY <2>1, <3>1
    <3> QED
      BY <1>4, <2>1, <3>2 DEF Reclaim
  <2> QED
    BY <1>4, <2>2, <2>3 DEF Reclaim
<1>5. CASE Choose(p)
  <2>1. catalog[p].maximum \in Nat
    <3>1. catalog[p] \in Catalog
      OBVIOUS
    <3> QED
      BY <3>1 DEF Catalog
  <2>2. [choosing |-> FALSE, ticket |-> catalog[p].maximum + 1] \in Entry
    BY <2>1 DEF Entry
  <2>3. pc' \in [Callers -> Pcs] /\ catalog' \in [Callers -> Catalog] /\ attempt' \in [Callers -> Nat]
    BY <1>5 DEF Choose
  <2>4. ticket' \in [Callers -> Nat]
    BY <1>5, <2>1 DEF Choose
  <2>5. \/ entry' = [entry EXCEPT ![p] = [choosing |-> FALSE, ticket |-> catalog[p].maximum + 1]]
        \/ entry' = entry
    BY <1>5 DEF Choose
  <2>6. entry' \in [Callers -> Entry \cup {None}]
    BY <2>2, <2>5
  <2> QED
    BY <1>5, <2>3, <2>4, <2>6 DEF Choose
<1>6. CASE Decide(p)
  <2>1. pc' \in [Callers -> Pcs] /\ catalog' \in [Callers -> Catalog]
    BY <1>6 DEF Decide, Retry
  <2>2. attempt' \in [Callers -> Nat]
    BY <1>6 DEF Decide, Retry
  <2> QED
    BY <1>6, <2>1, <2>2 DEF Decide
<1>7. CASE TakeGuard(p)
  <2>1. [owner |-> p, written |-> FALSE] \in Marker
    BY DEF Marker
  <2>2. pc' \in [Callers -> Pcs]
    BY <1>7 DEF TakeGuard
  <2>3. catalog' \in [Callers -> Catalog]
    BY <1>7 DEF TakeGuard
  <2>4. attempt' \in [Callers -> Nat]
    BY <1>7 DEF TakeGuard
  <2> QED
    BY <1>7, <2>1, <2>2, <2>3, <2>4 DEF TakeGuard
<1>8. CASE WriteGuard(p)
  <2>1. guard \in Marker
    BY <1>8 DEF WriteGuard, WriterHoldsMarker, Guards
  <2>2. [guard EXCEPT !.written = TRUE] \in Marker
    BY <2>1 DEF Marker
  <2>3. guard' = [guard EXCEPT !.written = TRUE] \/ guard' = guard
    BY <1>8 DEF WriteGuard
  <2>4. guard' \in Marker
    BY <2>1, <2>2, <2>3
  <2>5. pc' \in [Callers -> Pcs]
    BY <1>8 DEF WriteGuard
  <2>6. UNCHANGED <<entry, ticket, catalog, attempt>>
    BY <1>8 DEF WriteGuard
  <2> QED
    BY <2>4, <2>5, <2>6
<1>9. CASE Inspect(p)
  BY <1>9 DEF Inspect, Retry
<1>10. CASE Act(p)
  BY <1>10 DEF Act
<1>11. CASE Release(p)
  BY <1>11 DEF Release
<1>12. CASE Leave(p)
  BY <1>12 DEF Leave
<1>13. CASE Fail(p)
  BY <1>13 DEF Fail
<1>14. CASE Crash(p)
  BY <1>14 DEF Crash
<1> QED
  BY <1>1, <1>2, <1>3, <1>4, <1>5, <1>6, <1>7, <1>8, <1>9, <1>10, <1>11, <1>12, <1>13, <1>14
     DEF Step

-----------------------------------------------------------------------------
(* The other conjuncts *)

\* a step leaves the others alone, apart from the files of the dead
Frame(p) == \A r \in Callers \ {p} :
  /\ pc'[r] = pc[r] /\ ticket'[r] = ticket[r] /\ catalog'[r] = catalog[r]
  /\ Dead(r) \/ entry'[r] = entry[r]

LEMMA StepFrame ==
  ASSUME IInv, NEW p \in Callers, Step(p)
  PROVE  Frame(p)
<1> USE DEF Frame, IInv, TypeOK, Goto, Quit
<1>1. CASE Create(p)
  BY <1>1 DEF Create
<1>2. CASE ReadDirectory(p)
  BY <1>2 DEF ReadDirectory
<1>3. ASSUME NEW q \in Callers, ReadEntry(p, q) PROVE Frame(p)
  BY <1>3 DEF ReadEntry
<1>4. CASE Reclaim(p)
  BY <1>4 DEF Reclaim, ReclaimsTheDead
<1>5. CASE Choose(p)
  BY <1>5 DEF Choose
<1>6. CASE Decide(p)
  BY <1>6 DEF Decide, Retry
<1>7. CASE TakeGuard(p)
  BY <1>7 DEF TakeGuard
<1>8. CASE WriteGuard(p)
  BY <1>8 DEF WriteGuard
<1>9. CASE Inspect(p)
  BY <1>9 DEF Inspect, Retry
<1>10. CASE Act(p)
  BY <1>10 DEF Act
<1>11. CASE Release(p)
  BY <1>11 DEF Release
<1>12. CASE Leave(p)
  BY <1>12 DEF Leave
<1>13. CASE Fail(p)
  BY <1>13 DEF Fail
<1>14. CASE Crash(p)
  BY <1>14 DEF Crash
<1> QED
  BY <1>1, <1>2, <1>3, <1>4, <1>5, <1>6, <1>7, <1>8, <1>9, <1>10, <1>11, <1>12, <1>13, <1>14
     DEF Step

LEMMA RecordsAreSomething ==
  \A b \in BOOLEAN, t \in Nat : [choosing |-> b, ticket |-> t] # None
BY NoneIsNothing DEF Entry

\* a caller whose file stands does not lose it by a step of its own that leaves
\* its file and its ticket alone
LEMMA FileStands ==
  ASSUME IInv, NEW p \in Callers, entry'[p] = entry[p], ticket'[p] = ticket[p],
         \/ pc'[p] = pc[p] \/ pc'[p] = "dead"
         \/ Published(p) /\ (Published(p)' \/ pc'[p] = "leaving")
         \/ pc[p] = "choosing" /\ pc'[p] = "leaving"
  PROVE  FileFollows(p)'
<1>1. FileFollows(p) /\ ticket[p] \in Nat
  BY DEF IInv, TypeOK, FilesFollow
<1>2. Published(p) \/ pc[p] = "choosing" => entry[p] # None
  BY <1>1, RecordsAreSomething DEF FileFollows
<1> QED
  BY <1>1, <1>2 DEF FileFollows, Published

LEMMA FilesInductive ==
  ASSUME IInv, NEW p \in Callers, Step(p)
  PROVE  FilesFollow'
<1>1. \A r \in Callers \ {p} : FileFollows(r)'
  BY StepFrame DEF Frame, IInv, FilesFollow, FileFollows, Published, Dead
<1>2. FileFollows(p)'
  <2>0. /\ pc \in [Callers -> Pcs] /\ ticket \in [Callers -> Nat]
        /\ entry \in [Callers -> Entry \cup {None}] /\ catalog \in [Callers -> Catalog]
    BY DEF IInv, TypeOK
  <2> USE <2>0 DEF Goto, Quit
  <2>1. CASE Create(p)
    BY <2>1, RecordsAreSomething DEF Create, FileFollows, Published
  <2>2. CASE ReadDirectory(p)
    BY <2>2, FileStands DEF ReadDirectory
  <2>3. ASSUME NEW q \in Callers, ReadEntry(p, q) PROVE FileFollows(p)'
    BY <2>3, FileStands DEF ReadEntry
  <2>4. CASE Reclaim(p)
    <3>1. Dead(catalog[p].reclaim) /\ ~Dead(p)
      BY <2>4 DEF Reclaim, Reading, IInv, ReclaimsTheDead, Dead
    <3> QED
      BY <2>4, <3>1, FileStands DEF Reclaim
  <2>5. CASE Choose(p)
    <3>1. CASE pc'[p] = "waiting"
      <4>1. catalog[p].maximum \in Nat
        BY DEF Catalog
      <4> QED
        BY <2>5, <3>1, <4>1, RecordsAreSomething, ZenonT(30) DEF Choose, FileFollows, Published
    <3>2. CASE pc'[p] # "waiting"
      BY <2>5, <3>2, FileStands DEF Choose
    <3> QED
      BY <3>1, <3>2
  <2>6. CASE Decide(p)
    BY <2>6, FileStands DEF Decide, Retry, Published
  <2>7. CASE TakeGuard(p)
    BY <2>7, FileStands DEF TakeGuard, Published
  <2>8. CASE WriteGuard(p)
    BY <2>8, FileStands DEF WriteGuard, Published
  <2>9. CASE Inspect(p)
    BY <2>9, FileStands DEF Inspect, Retry, Published
  <2>10. CASE Act(p)
    BY <2>10, FileStands DEF Act, Published
  <2>11. CASE Release(p)
    BY <2>11, FileStands DEF Release, Published
  <2>12. CASE Leave(p)
    BY <2>12 DEF Leave, FileFollows, Published
  <2>13. CASE Fail(p)
    BY <2>13, FileStands DEF Fail, Published
  <2>14. CASE Crash(p)
    BY <2>14, FileStands DEF Crash
  <2> QED
    BY <2>1, <2>2, <2>3, <2>4, <2>5, <2>6, <2>7, <2>8, <2>9, <2>10, <2>11, <2>12, <2>13, <2>14
       DEF Step
<1> QED
  BY <1>1, <1>2 DEF FilesFollow

\* what was read is fresh, and only files of the dead are reclaimed
LEMMA ReadsInductive ==
  ASSUME OwnersArePrompt, IInv, NEW p \in Callers, Step(p)
  PROVE  ReadsAreFresh' /\ ReclaimsTheDead'
<1>1. \A r \in Callers \ {p} : Reading(r)' \/ catalog'[r] = Unread
  BY StepFrame DEF Frame, IInv, ReadsAreFresh, Reading
<1>2. \A r \in Callers \ {p} : catalog'[r].reclaim # None => pc'[catalog'[r].reclaim] = "dead"
  <2>1. \A r \in Callers : Dead(r) => Dead(r)'
    <3>1. Dead(p) => Dead(p)'
      BY DEF Step, Dead, Create, ReadDirectory, ReadEntry, Reclaim, Choose, Decide, TakeGuard,
             WriteGuard, Inspect, Act, Release, Leave, Fail, Crash, Reading
    <3> QED
      BY <3>1, StepFrame DEF Frame, Dead
  <2>2. \A r \in Callers : catalog[r].reclaim \in Callers \cup {None}
    BY DEF IInv, TypeOK, Catalog
  <2> QED
    BY <2>1, <2>2, StepFrame DEF Frame, IInv, ReclaimsTheDead, Dead
<1>3. (Reading(p)' \/ catalog'[p] = Unread) /\ (catalog'[p].reclaim # None => pc'[catalog'[p].reclaim] = "dead")
  <2>0. /\ pc \in [Callers -> Pcs] /\ catalog \in [Callers -> Catalog]
        /\ Reading(p) \/ catalog[p] = Unread
        /\ catalog[p].reclaim # None => Dead(catalog[p].reclaim) /\ catalog[p].reclaim \in Callers
        /\ Unread.reclaim = None
    BY DEF IInv, TypeOK, ReadsAreFresh, ReclaimsTheDead, Unread, Catalog
  <2> USE <2>0 DEF Goto, Quit, Reading, Dead
  <2>1. CASE Create(p)
    BY <2>1 DEF Create
  <2>2. CASE ReadDirectory(p)
    <3>1. catalog'[p] = [catalog[p] EXCEPT !.listed = TRUE, !.todo = {q \in Callers : entry[q] # None}]
      BY <2>2 DEF ReadDirectory
    <3>2. catalog'[p].reclaim = catalog[p].reclaim
      BY <3>1 DEF Catalog
    <3> QED
      BY <2>2, <3>2 DEF ReadDirectory
  <2>3. ASSUME NEW q \in Callers, ReadEntry(p, q)
        PROVE  /\ Reading(p)' \/ catalog'[p] = Unread
               /\ catalog'[p].reclaim # None => pc'[catalog'[p].reclaim] = "dead"
    <3>1. Collect(p, q).reclaim = None
      BY <2>3 DEF ReadEntry, Collect, Catalog
    <3>2. catalog'[p].reclaim = None \/ (Dead(q) /\ catalog'[p].reclaim = q)
      BY <2>3, <3>1 DEF ReadEntry, Catalog, Abandoned
    <3> QED
      BY <2>3, <3>2 DEF ReadEntry
  <2>4. CASE Reclaim(p)
    <3>1. catalog'[p].reclaim = None
      BY <2>4 DEF Reclaim, Catalog
    <3> QED
      BY <2>4, <3>1 DEF Reclaim
  <2>5. CASE Choose(p)
    BY <2>5 DEF Choose
  <2>6. CASE Decide(p)
    BY <2>6 DEF Decide, Retry
  <2>7. CASE TakeGuard(p)
    BY <2>7 DEF TakeGuard
  <2>8. CASE WriteGuard(p)
    BY <2>8 DEF WriteGuard
  <2>9. CASE Inspect(p)
    BY <2>9 DEF Inspect, Retry
  <2>10. CASE Act(p)
    BY <2>10 DEF Act
  <2>11. CASE Release(p)
    BY <2>11 DEF Release
  <2>12. CASE Leave(p)
    BY <2>12 DEF Leave
  <2>13. CASE Fail(p)
    BY <2>13 DEF Fail
  <2>14. CASE Crash(p)
    BY <2>14 DEF Crash
  <2> QED
    BY <2>1, <2>2, <2>3, <2>4, <2>5, <2>6, <2>7, <2>8, <2>9, <2>10, <2>11, <2>12, <2>13, <2>14
       DEF Step
<1> QED
  BY <1>1, <1>2, <1>3 DEF ReadsAreFresh, ReclaimsTheDead, Dead

\* the marker belongs to the caller at work or to a dead one
LEMMA MarkerInductive ==
  ASSUME IInv, NEW p \in Callers, Step(p)
  PROVE  WriterHoldsMarker' /\ MarkerIsInUse'
<1>0. /\ pc \in [Callers -> Pcs] /\ guard \in Marker \cup {None}
      /\ guard \in Marker => guard # None /\ guard.owner \in Callers
      /\ guard # None => pc[guard.owner] \in {"writing", "acting", "releasing", "dead"}
      /\ \A r \in Callers : pc[r] = "writing" => guard # None /\ guard.owner = r
  BY NoneIsNothing DEF IInv, TypeOK, WriterHoldsMarker, MarkerIsInUse, Guards, Marker
<1> USE <1>0 DEF WriterHoldsMarker, MarkerIsInUse, Guards, Goto, Quit
<1>1. CASE Create(p)
  BY <1>1 DEF Create
<1>2. CASE ReadDirectory(p)
  BY <1>2 DEF ReadDirectory
<1>3. ASSUME NEW q \in Callers, ReadEntry(p, q) PROVE WriterHoldsMarker' /\ MarkerIsInUse'
  BY <1>3 DEF ReadEntry
<1>4. CASE Reclaim(p)
  BY <1>4 DEF Reclaim
<1>5. CASE Choose(p)
  BY <1>5 DEF Choose
<1>6. CASE Decide(p)
  BY <1>6 DEF Decide, Retry
<1>7. CASE TakeGuard(p)
  <2>1. CASE guard = None
    <3>1. pc' = [pc EXCEPT ![p] = "writing"] /\ guard' = [owner |-> p, written |-> FALSE]
      BY <1>7, <2>1 DEF TakeGuard
    <3>2. [owner |-> p, written |-> FALSE] \in Marker
      BY DEF Marker
    <3> QED
      BY <2>1, <3>1, <3>2, NoneIsNothing
  <2>2. CASE guard # None
    BY <1>7, <2>2 DEF TakeGuard
  <2> QED
    BY <2>1, <2>2
<1>8. CASE WriteGuard(p)
  <2>1. guard \in Marker /\ guard.owner = p
    BY <1>8 DEF WriteGuard
  <2>2. guard' \in Marker /\ guard'.owner = p
    <3>1. [guard EXCEPT !.written = TRUE] \in Marker /\ [guard EXCEPT !.written = TRUE].owner = p
      BY <2>1 DEF Marker
    <3> QED
      BY <1>8, <2>1, <3>1 DEF WriteGuard
  <2>3. pc' = [pc EXCEPT ![p] = "acting"] \/ pc' = [pc EXCEPT ![p] = "releasing"]
    BY <1>8 DEF WriteGuard
  <2> QED
    BY <2>1, <2>2, <2>3, NoneIsNothing
<1>9. CASE Inspect(p)
  BY <1>9 DEF Inspect, Retry
<1>10. CASE Act(p)
  BY <1>10 DEF Act
<1>11. CASE Release(p)
  BY <1>11 DEF Release
<1>12. CASE Leave(p)
  BY <1>12 DEF Leave
<1>13. CASE Fail(p)
  BY <1>13 DEF Fail
<1>14. CASE Crash(p)
  BY <1>14 DEF Crash
<1> QED
  BY <1>1, <1>2, <1>3, <1>4, <1>5, <1>6, <1>7, <1>8, <1>9, <1>10, <1>11, <1>12, <1>13, <1>14
     DEF Step

-----------------------------------------------------------------------------
(* The order of the Bakery *)

\* the file of a published caller carries its ticket
LEMMA PublishedEntry ==
  ASSUME IInv, NEW r \in Callers, Published(r)
  PROVE  /\ entry[r] # None /\ ~entry[r].choosing /\ entry[r].ticket = ticket[r]
         /\ ticket[r] \in Nat /\ ~Dead(r)
<1>1. entry[r] = [choosing |-> FALSE, ticket |-> ticket[r]] /\ ticket[r] \in Nat
  BY DEF IInv, TypeOK, FilesFollow, FileFollows
<1>2. entry[r] # None
  BY <1>1, RecordsAreSomething
<1>3. ~entry[r].choosing /\ entry[r].ticket = ticket[r]
  BY <1>1
<1> QED
  BY <1>1, <1>2, <1>3 DEF Published, Dead

\* whoever has no file is not on its way
LEMMA NoFileNoClaim ==
  ASSUME IInv, NEW r \in Callers, entry[r] = None
  PROVE  pc[r] # "choosing" /\ ~Published(r)
<1>1. pc[r] = "choosing" => entry[r] = [choosing |-> TRUE, ticket |-> 0]
  BY DEF IInv, FilesFollow, FileFollows
<1> QED
  BY <1>1, PublishedEntry, RecordsAreSomething

\* a caller that has been passed stays behind by a step of its own
LEMMA BehindKept ==
  ASSUME OwnersArePrompt, IInv, NEW p \in Callers, Step(p),
         NEW r \in Callers \ {p}, Passed(r, p)
  PROVE  Behind(p, r)'
<1>0. /\ pc \in [Callers -> Pcs] /\ ticket \in [Callers -> Nat] /\ catalog \in [Callers -> Catalog]
      /\ Behind(p, r) /\ Published(r)
      /\ Reading(p) \/ catalog[p] = Unread
  BY DEF IInv, TypeOK, BakeryOrder, ReadsAreFresh, Passed, Published
<1>1. entry[r] # None /\ entry[r].ticket = ticket[r] /\ ticket[r] \in Nat /\ ~Dead(r)
  BY <1>0, PublishedEntry
<1>2. ticket'[r] = ticket[r]
  BY StepFrame DEF Frame
<1>3. catalog[p] \in Catalog /\ catalog[p].maximum \in Nat /\ catalog[p].todo \subseteq Callers
  BY <1>0 DEF Catalog
<1>a. /\ pc[p] = "choosing" => \/ ~catalog[p].listed \/ r \in catalog[p].todo
                               \/ catalog[p].maximum >= ticket[r]
      /\ Published(p) => Priority(r, ticket[r], p, ticket[p])
  BY <1>0 DEF Behind
<1>b. ASSUME pc'[p] = "choosing" => \/ ~catalog'[p].listed \/ r \in catalog'[p].todo
                                  \/ catalog'[p].maximum >= ticket[r],
             Published(p)' => Priority(r, ticket[r], p, ticket'[p])
      PROVE  Behind(p, r)'
  BY <1>2, <1>b DEF Behind
<1> USE <1>0 DEF Goto, Quit
<1>4. CASE Create(p)
  <2>1. pc[p] = "idle" /\ pc'[p] = "choosing" /\ catalog'[p] = Unread
    BY <1>4 DEF Create, Reading
  <2> QED
    BY <1>b, <2>1 DEF Published, Unread
<1>5. CASE ReadDirectory(p)
  <2>1. r \in catalog'[p].todo
    BY <1>1, <1>3, <1>5 DEF ReadDirectory, Catalog
  <2> QED
    BY <1>a, <1>b, <1>5, <2>1 DEF ReadDirectory, Published
<1>6. ASSUME NEW q \in Callers, ReadEntry(p, q) PROVE Behind(p, r)'
  <2>1. pc' = pc /\ ticket' = ticket
    BY <1>6 DEF ReadEntry
  <2>2. CASE pc[p] = "choosing"
    <3>1. catalog[p].listed /\ (r \in catalog[p].todo \/ catalog[p].maximum >= ticket[r])
      BY <1>a, <1>6, <2>2 DEF ReadEntry
    <3>2. CASE q = r
      <4>1. catalog'[p] = Collect(p, r)
        BY <1>1, <1>6, <3>2 DEF ReadEntry, Abandoned
      <4>2. catalog'[p].maximum >= ticket[r]
        BY <1>1, <1>3, <2>2, <4>1 DEF Collect, Catalog
      <4> QED
        BY <1>b, <2>1, <2>2, <4>2 DEF Published
    <3>3. CASE q # r
      <4>0. Collect(p, q).todo = catalog[p].todo \ {q}
        BY <1>3, <2>2 DEF Collect, Catalog
      <4>1. r \in catalog[p].todo => r \in catalog'[p].todo
        BY <1>3, <1>6, <3>3, <4>0 DEF ReadEntry, Catalog
      <4>2. \/ catalog'[p].maximum = catalog[p].maximum
            \/ entry[q] # None /\ catalog'[p] = Collect(p, q)
        BY <1>3, <1>6 DEF ReadEntry, Catalog
      <4>3. catalog[p].maximum >= ticket[r] => catalog'[p].maximum >= ticket[r]
        <5>1. CASE entry[q] # None /\ catalog'[p] = Collect(p, q)
          <6>1. entry[q].ticket \in Nat
            <7>1. entry[q] \in Entry
              BY <5>1 DEF IInv, TypeOK
            <7> QED
              BY <7>1 DEF Entry
          <6> QED
            BY <1>1, <1>3, <2>2, <5>1, <6>1 DEF Collect, Catalog
        <5> QED
          BY <4>2, <5>1
      <4> QED
        BY <1>b, <2>1, <2>2, <3>1, <4>1, <4>3 DEF Published
    <3> QED
      BY <3>2, <3>3
  <2>3. CASE pc[p] # "choosing"
    BY <1>a, <1>b, <2>1, <2>3 DEF Published
  <2> QED
    BY <2>2, <2>3
<1>7. CASE Reclaim(p)
  <2>1. pc' = pc /\ ticket' = ticket
    BY <1>7 DEF Reclaim
  <2>2. catalog[p].reclaim # r
    BY <1>1, <1>7 DEF Reclaim, IInv, ReclaimsTheDead
  <2>3. /\ catalog'[p].todo = catalog[p].todo \ {catalog[p].reclaim}
        /\ catalog'[p].listed = catalog[p].listed /\ catalog'[p].maximum = catalog[p].maximum
    BY <1>3, <1>7 DEF Reclaim, Catalog
  <2> QED
    BY <1>a, <1>b, <2>1, <2>2, <2>3 DEF Published
<1>8. CASE Choose(p)
  <2>1. CASE pc'[p] = "waiting"
    <3>1. ticket'[p] = catalog[p].maximum + 1 /\ catalog[p].maximum >= ticket[r]
      BY <1>a, <1>8, <2>1 DEF Choose, Complete
    <3>2. ticket[r] < ticket'[p]
      BY <1>1, <1>3, <3>1
    <3> QED
      BY <1>b, <2>1, <3>2 DEF Priority
  <2>2. CASE pc'[p] = "leaving"
    BY <1>b, <2>2 DEF Published
  <2> QED
    BY <1>8, <2>1, <2>2 DEF Choose
<1>9. ASSUME ticket' = ticket, pc'[p] # "choosing", Published(p)' => Published(p)
      PROVE  Behind(p, r)'
  BY <1>a, <1>b, <1>9
<1>10. CASE Decide(p)
  BY <1>9, <1>10 DEF Decide, Retry, Published
<1>11. CASE TakeGuard(p)
  BY <1>9, <1>11 DEF TakeGuard, Published
<1>12. CASE WriteGuard(p)
  BY <1>9, <1>12 DEF WriteGuard, Published
<1>13. CASE Inspect(p)
  BY <1>9, <1>13 DEF Inspect, Retry, Published
<1>14. CASE Act(p)
  BY <1>9, <1>14 DEF Act, Published
<1>15. CASE Release(p)
  BY <1>9, <1>15 DEF Release, Published
<1>16. CASE Leave(p)
  BY <1>9, <1>16 DEF Leave, Published
<1>17. CASE Fail(p)
  BY <1>9, <1>17 DEF Fail, Published
<1>18. CASE Crash(p)
  BY <1>9, <1>18 DEF Crash, Published
<1> QED
  BY <1>4, <1>5, <1>6, <1>7, <1>8, <1>10, <1>11, <1>12, <1>13, <1>14, <1>15, <1>16, <1>17, <1>18
     DEF Step

\* a caller passes only those that are behind it
LEMMA PassedIsEarned ==
  ASSUME OwnersArePrompt, IInv, NEW p \in Callers, Step(p),
         NEW s \in Callers \ {p}, Passed(p, s)'
  PROVE  Behind(s, p)'
<1>0. /\ pc \in [Callers -> Pcs] /\ ticket \in [Callers -> Nat] /\ catalog \in [Callers -> Catalog]
      /\ Passed(p, s) => Behind(s, p)
      /\ Unread.listed = FALSE
  BY DEF IInv, TypeOK, BakeryOrder, Unread
<1>1. pc'[s] = pc[s] /\ ticket'[s] = ticket[s] /\ catalog'[s] = catalog[s]
  BY StepFrame DEF Frame
<1>2. ASSUME Passed(p, s), ticket' = ticket
      PROVE  Behind(s, p)'
  BY <1>0, <1>1, <1>2 DEF Behind, Published
<1>3. ASSUME pc[s] # "choosing", Published(s) => Priority(p, ticket'[p], s, ticket[s])
      PROVE  Behind(s, p)'
  BY <1>1, <1>3 DEF Behind, Published
<1>4. entry[s] = None => Behind(s, p)'
  BY <1>3, NoFileNoClaim
<1>5. catalog[p] \in Catalog
  BY <1>0
<1> USE <1>0 DEF Goto, Quit
<1>6. CASE Create(p)
  BY <1>6 DEF Create, Passed, Published
<1>7. CASE ReadDirectory(p)
  <2>1. pc[p] = "waiting" /\ s \notin catalog'[p].todo
    BY <1>7 DEF ReadDirectory, Reading, Passed, Published
  <2>2. catalog'[p].todo = {q \in Callers : entry[q] # None}
    BY <1>5, <1>7 DEF ReadDirectory, Catalog
  <2> QED
    BY <1>4, <2>1, <2>2
<1>8. ASSUME NEW q \in Callers, ReadEntry(p, q) PROVE Behind(s, p)'
  <2>1. pc' = pc /\ ticket' = ticket /\ pc[p] = "waiting"
    BY <1>8 DEF ReadEntry, Passed, Published, Reading
  <2>2. catalog[p].listed /\ s \notin catalog'[p].todo /\ ~catalog'[p].blocked
    BY <1>8, <2>1 DEF ReadEntry, Passed, Published
  <2>3. CASE entry[q] = None
    <3>1. catalog'[p] = [catalog[p] EXCEPT !.todo = @ \ {q}]
      BY <1>8, <2>3 DEF ReadEntry
    <3>2. catalog'[p].todo = catalog[p].todo \ {q} /\ catalog'[p].blocked = catalog[p].blocked
      BY <1>5, <3>1 DEF Catalog
    <3>3. s # q => Passed(p, s)
      BY <2>1, <2>2, <3>2 DEF Passed
    <3> QED
      BY <1>2, <1>4, <2>1, <2>3, <3>3
  <2>4. CASE catalog'[p] = [catalog[p] EXCEPT !.reclaim = q]
    <3>1. catalog'[p].todo = catalog[p].todo /\ catalog'[p].blocked = catalog[p].blocked
      BY <1>5, <2>4 DEF Catalog
    <3> QED
      BY <1>2, <2>1, <2>2, <3>1 DEF Passed
  <2>5. CASE entry[q] # None /\ catalog'[p] = Collect(p, q)
    <3>1. catalog'[p] = [catalog[p] EXCEPT !.todo = @ \ {q}, !.own = @ \/ q = p,
                                           !.blocked = @ \/ Blocks(q, p)]
      BY <2>1, <2>5 DEF Collect
    <3>2. /\ catalog'[p].todo = catalog[p].todo \ {q}
          /\ catalog'[p].blocked = (catalog[p].blocked \/ Blocks(q, p))
      BY <1>5, <3>1 DEF Catalog
    <3>3. s # q => Passed(p, s)
      BY <2>1, <2>2, <3>2 DEF Passed
    <3>4. CASE s = q
      <4>1. ~entry[s].choosing /\ ~Priority(s, entry[s].ticket, p, ticket[p])
        BY <2>2, <3>2, <3>4 DEF Blocks
      <4>2. pc[s] # "choosing"
        <5>1. pc[s] = "choosing" => entry[s] = [choosing |-> TRUE, ticket |-> 0]
          BY DEF IInv, FilesFollow, FileFollows
        <5> QED
          BY <4>1, <5>1
      <4>3. Published(s) => Priority(p, ticket[p], s, ticket[s])
        BY <4>1, PublishedEntry, TokensAreOrdered DEF Priority
      <4> QED
        BY <1>3, <2>1, <4>2, <4>3
    <3> QED
      BY <1>2, <2>1, <3>3, <3>4
  <2> QED
    BY <1>8, <2>3, <2>4, <2>5 DEF ReadEntry
<1>9. CASE Reclaim(p)
  <2>1. pc' = pc /\ ticket' = ticket /\ pc[p] = "waiting"
    BY <1>9 DEF Reclaim, Passed, Published, Reading
  <2>2. /\ catalog'[p].todo = catalog[p].todo \ {catalog[p].reclaim}
        /\ catalog'[p].listed = catalog[p].listed /\ catalog'[p].blocked = catalog[p].blocked
    BY <1>5, <1>9 DEF Reclaim, Catalog
  <2>3. CASE s = catalog[p].reclaim
    <3>1. pc[s] = "dead"
      BY <1>9, <2>3 DEF Reclaim, IInv, ReclaimsTheDead, Dead
    <3> QED
      BY <1>3, <3>1 DEF Published
  <2>4. CASE s # catalog[p].reclaim
    BY <1>2, <2>1, <2>2, <2>4 DEF Passed, Published
  <2> QED
    BY <2>3, <2>4
<1>10. CASE Choose(p)
  BY <1>10 DEF Choose, Passed, Published
<1>11. CASE Decide(p)
  BY <1>2, <1>11 DEF Decide, Retry, Complete, Passed, Published
<1>12. CASE TakeGuard(p)
  BY <1>2, <1>12 DEF TakeGuard, Passed, Published
<1>13. CASE WriteGuard(p)
  BY <1>2, <1>13 DEF WriteGuard, Passed, Published
<1>14. CASE Inspect(p)
  BY <1>2, <1>14 DEF Inspect, Retry, Passed, Published
<1>15. CASE Act(p)
  BY <1>2, <1>15 DEF Act, Passed, Published
<1>16. CASE Release(p)
  BY <1>16 DEF Release, Passed, Published
<1>17. CASE Leave(p)
  BY <1>17 DEF Leave, Passed, Published
<1>18. CASE Fail(p)
  BY <1>18 DEF Fail, Passed, Published
<1>19. CASE Crash(p)
  BY <1>19 DEF Crash, Passed, Published
<1> QED
  BY <1>6, <1>7, <1>8, <1>9, <1>10, <1>11, <1>12, <1>13, <1>14, <1>15, <1>16, <1>17, <1>18, <1>19
     DEF Step

LEMMA BakeryInductive ==
  ASSUME OwnersArePrompt, IInv, NEW p \in Callers, Step(p)
  PROVE  BakeryOrder'
<1> SUFFICES ASSUME NEW r \in Callers, NEW s \in Callers, r # s, Passed(r, s)'
             PROVE  Behind(s, r)'
  BY DEF BakeryOrder
<1>1. CASE r = p
  BY <1>1, PassedIsEarned
<1>2. CASE r # p
  <2>1. pc'[r] = pc[r] /\ ticket'[r] = ticket[r] /\ catalog'[r] = catalog[r]
    BY <1>2, StepFrame DEF Frame
  <2>2. Passed(r, s)
    BY <2>1 DEF Passed, Published
  <2>3. CASE s = p
    BY <1>2, <2>2, <2>3, BehindKept
  <2>4. CASE s # p
    <3>1. pc'[s] = pc[s] /\ ticket'[s] = ticket[s] /\ catalog'[s] = catalog[s]
      BY <2>4, StepFrame DEF Frame
    <3> QED
      BY <2>1, <2>2, <3>1 DEF IInv, BakeryOrder, Behind, Published
  <2> QED
    BY <2>3, <2>4
<1> QED
  BY <1>1, <1>2

-----------------------------------------------------------------------------
(* The theorems *)

LEMMA StepInductive == ASSUME OwnersArePrompt, IInv, [Next]_vars PROVE IInv'
<1>1. ASSUME NEW p \in Callers, Step(p) PROVE IInv'
  BY <1>1, TypeInductive, FilesInductive, ReadsInductive, BakeryInductive, MarkerInductive DEF IInv
<1>2. CASE UNCHANGED vars
  BY <1>2 DEF vars, IInv, TypeOK, FilesFollow, FileFollows, Published, ReadsAreFresh, Reading,
              ReclaimsTheDead, Dead, BakeryOrder, Passed, Behind, WriterHoldsMarker, Guards,
              MarkerIsInUse
<1> QED
  BY <1>1, <1>2 DEF Next

LEMMA Invariance == ASSUME OwnersArePrompt PROVE Spec => []IInv
BY InitInductive, StepInductive, PTL DEF Spec

\* Callers, files and what was read of them keep their types.
THEOREM TypeCorrect == ASSUME OwnersArePrompt PROVE Spec => []TypeOK
<1>1. IInv => TypeOK
  BY DEF IInv
<1> QED
  BY <1>1, Invariance, PTL

\* Two callers never bind or unlink the socket at once: of two that act, each
\* has passed the other, so that each comes before the other, which the order
\* of tickets and tokens rules out.
THEOREM Exclusion == ASSUME OwnersArePrompt PROVE Spec => []MutualExclusion
<1>1. IInv => MutualExclusion
  <2> SUFFICES ASSUME IInv, NEW p \in Callers, NEW q \in Callers,
                      pc[p] = "acting", pc[q] = "acting", p # q
               PROVE  FALSE
    BY DEF MutualExclusion
  <2>1. Priority(p, ticket[p], q, ticket[q]) /\ Priority(q, ticket[q], p, ticket[p])
    BY DEF IInv, BakeryOrder, Passed, Behind, Published
  <2>2. ticket[p] \in Nat /\ ticket[q] \in Nat
    BY DEF IInv, TypeOK
  <2> QED
    BY <2>1, <2>2, TokensAreOrdered DEF Priority
<1> QED
  BY <1>1, Invariance, PTL

\* Nobody who waits is overtaken: whoever acts has passed all the others.
THEOREM NoOvertaking == ASSUME OwnersArePrompt PROVE Spec => []FirstTicketActs
<1>1. IInv => FirstTicketActs
  BY DEF IInv, BakeryOrder, Passed, Behind, Published, FirstTicketActs, Waits
<1> QED
  BY <1>1, Invariance, PTL

\* Nobody loses its file to the recovery of abandoned ones: only the files of
\* the dead are ever reclaimed.
THEOREM EntryKept == ASSUME OwnersArePrompt PROVE Spec => []EntryIsKept
<1>1. IInv => EntryIsKept
  <2> SUFFICES ASSUME IInv, NEW p \in Callers, pc[p] \notin {"idle", "done", "dead"}
               PROVE  entry[p] # None
    BY DEF EntryIsKept
  <2>1. pc[p] \in Pcs /\ FileFollows(p)
    BY DEF IInv, TypeOK, FilesFollow
  <2>2. pc[p] = "choosing" => entry[p] # None
    BY <2>1, RecordsAreSomething DEF FileFollows
  <2> QED
    BY <2>1, <2>2, PublishedEntry DEF FileFollows, Published, Pcs
<1> QED
  BY <1>1, Invariance, PTL

\* A marker that stands is that of the caller at work, or of a dead one.
THEOREM MarkerInUse == ASSUME OwnersArePrompt PROVE Spec => []MarkerIsInUse
<1>1. IInv => MarkerIsInUse
  BY DEF IInv
<1> QED
  BY <1>1, Invariance, PTL
=============================================================================
