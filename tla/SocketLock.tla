----------------------------- MODULE SocketLock -----------------------------
(***************************************************************************)
(* The lock under which the shims of a remote host bind and unlink the     *)
(* control socket (withRemoteAppServerSocketInitializationLock of          *)
(* src/packages/host-runtime/src/remote-socket-lock.ts): Lamport's Bakery  *)
(* over the files of a directory.                                          *)
(*                                                                         *)
(* A caller is one call, which names its file after a fresh token; tokens  *)
(* are numbers here, ordered like the strings.  The file is replaced as a  *)
(* whole, so a reader finds the old record or the new one.  The directory  *)
(* is listed first and its files are read one after the other, while the   *)
(* others go on; the order of the list is up to the system.                *)
(*                                                                         *)
(* A crash leaves the files of a caller behind.  The others notice by the  *)
(* pid, unless it has been given away again, and by the age of the file at *)
(* the latest.  The marker at the path that version 1 of the lock used is  *)
(* modelled with its records; version 1 itself is not in this repository.  *)
(*                                                                         *)
(* Bounds: each caller calls once, and MaxCrashes of them die.             *)
(***************************************************************************)
EXTENDS Naturals, FiniteSets

CONSTANTS
  Callers,         \* tokens
  None,
  RetryCount,      \* LOCK_RETRY_COUNT
  MaxTicket,       \* Number.MAX_SAFE_INTEGER
  MaxCrashes,
  OwnersArePrompt  \* a living caller finishes within LOCK_MAX_AGE_MS

Entry == [choosing: BOOLEAN, ticket: Nat]

Marker == [owner: Callers, written: BOOLEAN]

ASSUME TokensAreOrdered == Callers \subseteq Nat
ASSUME NoneIsNothing == None \notin Callers \cup Entry \cup Marker
ASSUME BoundsAreNumbers == RetryCount \in Nat /\ MaxTicket \in Nat /\ MaxCrashes \in Nat

VARIABLES
  pc,       \* where each caller is
  entry,    \* the file of each caller
  ticket,   \* its number, ownRecord
  catalog,  \* what it has read of the directory
  attempt,  \* how often it has tried
  guard     \* the marker at the legacy path: its owner, whether it is written

vars == <<pc, entry, ticket, catalog, attempt, guard>>

-----------------------------------------------------------------------------
Catalog == [listed: BOOLEAN, todo: SUBSET Callers, maximum: Nat, own: BOOLEAN,
            blocked: BOOLEAN, unsettled: BOOLEAN, reclaim: Callers \cup {None}]

Unread == [listed |-> FALSE, todo |-> {}, maximum |-> 0, own |-> FALSE,
           blocked |-> FALSE, unsettled |-> FALSE, reclaim |-> None]

Dead(p) == pc[p] = "dead"

Reading(p) == pc[p] \in {"choosing", "waiting"}

Goto(p, to) == pc' = [pc EXCEPT ![p] = to]

\* nothing that was read is needed any more
Quit(p, to) ==
  /\ Goto(p, to)
  /\ catalog' = [catalog EXCEPT ![p] = Unread]
  /\ attempt' = [attempt EXCEPT ![p] = 0]

\* the lexicographic order of tickets and tokens
Priority(p, t, q, u) == t < u \/ (t = u /\ p < q)

Create(p) ==
  /\ pc[p] = "idle"
  /\ entry' = [entry EXCEPT ![p] = [choosing |-> TRUE, ticket |-> 0]]
  /\ Goto(p, "choosing")
  /\ UNCHANGED <<ticket, catalog, attempt, guard>>

-----------------------------------------------------------------------------
(* readLockEntryCatalog *)

ReadDirectory(p) ==
  /\ Reading(p) /\ ~catalog[p].listed
  /\ catalog' = [catalog EXCEPT ![p].listed = TRUE,
                                ![p].todo = {q \in Callers : entry[q] # None}]
  /\ UNCHANGED <<pc, entry, ticket, attempt, guard>>

\* mutant: a caller that has no ticket yet is not waited for
BlocksByTicket(q, p) ==
  q # p /\ ~entry[q].choosing /\ Priority(q, entry[q].ticket, p, ticket[p])

\* mutant: of two callers with the same ticket neither goes first
BlocksStrictly(q, p) == q # p /\ (entry[q].choosing \/ entry[q].ticket < ticket[p])

\* the file of q says that p has to wait
Blocks(q, p) ==
  q # p /\ (entry[q].choosing \/ Priority(q, entry[q].ticket, p, ticket[p]))

\* a record that is not abandoned: its ticket for the choice, and afterwards
\* whether it is mine or goes first
Collect(p, q) ==
  IF pc[p] = "choosing"
    THEN [catalog[p] EXCEPT !.todo = @ \ {q},
            !.maximum = IF entry[q].ticket > @ THEN entry[q].ticket ELSE @]
    ELSE [catalog[p] EXCEPT !.todo = @ \ {q},
            !.own = @ \/ q = p,
            !.blocked = @ \/ Blocks(q, p)]

\* mutant: a record without a ticket is taken for a malformed one
AbandonedOrChoosing(q) == Dead(q) \/ (entry[q] # None /\ entry[q].choosing)

\* its owner is dead, or the file is older than the lease
Abandoned(q) == Dead(q) \/ ~OwnersArePrompt

Complete(p) == catalog[p].listed /\ catalog[p].todo = {} /\ catalog[p].reclaim = None

\* the next file: gone by now, abandoned, or that of a contender.  The pid of
\* a dead caller may belong to a process that runs.
ReadEntry(p, q) ==
  /\ Reading(p) /\ catalog[p].listed /\ catalog[p].reclaim = None
  /\ q \in catalog[p].todo
  /\ \/ /\ entry[q] = None
        /\ catalog' = [catalog EXCEPT ![p].todo = @ \ {q}]
     \/ /\ entry[q] # None /\ Abandoned(q)
        /\ catalog' = [catalog EXCEPT ![p].reclaim = q]
     \/ /\ entry[q] # None
        /\ catalog' = [catalog EXCEPT ![p] = Collect(p, q)]
  /\ UNCHANGED <<pc, entry, ticket, attempt, guard>>

\* removeAbandonedLockEntry reads the file again before it removes it; one that
\* is gone, or is not abandoned after all, leaves the catalog unsettled
Reclaim(p) ==
  /\ Reading(p) /\ catalog[p].reclaim # None
  /\ LET q == catalog[p].reclaim
     IN  \/ /\ entry[q] # None
            /\ entry' = [entry EXCEPT ![q] = None]
            /\ catalog' = [catalog EXCEPT ![p].reclaim = None, ![p].todo = @ \ {q}]
         \/ /\ catalog' = [catalog EXCEPT ![p].reclaim = None, ![p].todo = @ \ {q},
                                          ![p].unsettled = TRUE]
            /\ UNCHANGED entry
  /\ UNCHANGED <<pc, ticket, attempt, guard>>

-----------------------------------------------------------------------------
(* The Bakery *)

\* one more than every ticket that was found
Choose(p) ==
  /\ pc[p] = "choosing" /\ Complete(p)
  /\ \/ /\ catalog[p].maximum < MaxTicket
        /\ entry' = [entry EXCEPT ![p] = [choosing |-> FALSE,
                                          ticket |-> catalog[p].maximum + 1]]
        /\ ticket' = [ticket EXCEPT ![p] = catalog[p].maximum + 1]
        /\ Quit(p, "waiting")
     \/ /\ catalog[p].maximum >= MaxTicket
        /\ Quit(p, "leaving")
        /\ UNCHANGED <<entry, ticket>>
  /\ UNCHANGED guard

Retry(p) ==
  \/ /\ attempt[p] + 1 < RetryCount
     /\ attempt' = [attempt EXCEPT ![p] = @ + 1]
     /\ catalog' = [catalog EXCEPT ![p] = Unread]
     /\ Goto(p, "waiting")
  \/ attempt[p] + 1 >= RetryCount /\ Quit(p, "leaving")

\* lost, in front, or behind somebody
Decide(p) ==
  /\ pc[p] = "waiting" /\ Complete(p)
  /\ \/ ~catalog[p].own /\ Quit(p, "leaving")
     \/ /\ catalog[p].own /\ ~catalog[p].unsettled /\ ~catalog[p].blocked
        /\ Goto(p, "guarding")
        /\ catalog' = [catalog EXCEPT ![p] = Unread]
        /\ UNCHANGED attempt
     \/ /\ catalog[p].own /\ (catalog[p].unsettled \/ catalog[p].blocked)
        /\ Retry(p)
  /\ UNCHANGED <<entry, ticket, guard>>

-----------------------------------------------------------------------------
(* The marker of version 1, and the action *)

TakeGuard(p) ==
  /\ pc[p] = "guarding"
  /\ \/ /\ guard = None
        /\ guard' = [owner |-> p, written |-> FALSE]
        /\ Quit(p, "writing")
     \/ guard # None /\ Goto(p, "inspecting") /\ UNCHANGED <<guard, catalog, attempt>>
  /\ UNCHANGED <<entry, ticket>>

WriteGuard(p) ==
  /\ pc[p] = "writing"
  /\ \/ guard' = [guard EXCEPT !.written = TRUE] /\ Goto(p, "acting")
     \/ UNCHANGED guard /\ Goto(p, "releasing")
  /\ UNCHANGED <<entry, ticket, catalog, attempt>>

\* legacyLockState: the marker of a dead owner stays where it is and stands in
\* nobody's way, an unwritten one as soon as it is old enough
Inspect(p) ==
  /\ pc[p] = "inspecting"
  /\ \/ /\ guard # None /\ Abandoned(guard.owner)
        /\ Quit(p, "acting")
     \/ Retry(p)
  /\ UNCHANGED <<entry, ticket, guard>>

Guards(p) == guard # None /\ guard.owner = p

\* the action ends, with or without an error
Act(p) ==
  /\ pc[p] = "acting"
  /\ Goto(p, IF Guards(p) THEN "releasing" ELSE "leaving")
  /\ UNCHANGED <<entry, ticket, catalog, attempt, guard>>

\* by the identity of the file, so that no other marker is removed
Release(p) ==
  /\ pc[p] = "releasing"
  /\ guard' = IF Guards(p) THEN None ELSE guard
  /\ Goto(p, "leaving")
  /\ UNCHANGED <<entry, ticket, catalog, attempt>>

\* removeOwnedLockEntry
Leave(p) ==
  /\ pc[p] = "leaving"
  /\ entry' = [entry EXCEPT ![p] = None]
  /\ Goto(p, "done")
  /\ UNCHANGED <<ticket, catalog, attempt, guard>>

-----------------------------------------------------------------------------
(* Failures *)

\* a file operation throws before the marker is taken
Fail(p) ==
  /\ pc[p] \in {"choosing", "waiting", "guarding", "inspecting"}
  /\ Quit(p, "leaving")
  /\ UNCHANGED <<entry, ticket, guard>>

Crash(p) ==
  /\ pc[p] \notin {"idle", "done", "dead"}
  /\ Cardinality({q \in Callers : Dead(q)}) < MaxCrashes
  /\ Quit(p, "dead")
  /\ UNCHANGED <<entry, ticket, guard>>

-----------------------------------------------------------------------------
Init ==
  /\ pc = [p \in Callers |-> "idle"]
  /\ entry = [p \in Callers |-> None]
  /\ ticket = [p \in Callers |-> 0]
  /\ catalog = [p \in Callers |-> Unread]
  /\ attempt = [p \in Callers |-> 0]
  /\ guard = None

Step(p) ==
  \/ Create(p) \/ ReadDirectory(p) \/ (\E q \in Callers : ReadEntry(p, q)) \/ Reclaim(p)
  \/ Choose(p) \/ Decide(p) \/ TakeGuard(p) \/ WriteGuard(p) \/ Inspect(p)
  \/ Act(p) \/ Release(p) \/ Leave(p) \/ Fail(p) \/ Crash(p)

Next == \E p \in Callers : Step(p)

Spec == Init /\ [][Next]_vars

-----------------------------------------------------------------------------
(* Properties *)

Pcs == {"idle", "choosing", "waiting", "guarding", "writing", "inspecting",
        "acting", "releasing", "leaving", "done", "dead"}

\* Type correctness of callers, files and what was read of them.
TypeOK ==
  /\ pc \in [Callers -> Pcs]
  /\ entry \in [Callers -> Entry \cup {None}]
  /\ ticket \in [Callers -> Nat]
  /\ catalog \in [Callers -> Catalog]
  /\ attempt \in [Callers -> Nat]
  /\ guard \in Marker \cup {None}

\* Two callers never bind or unlink the socket at once: not when they choose the
\* same ticket, not when one dies at any step, and not when the marker of a dead
\* one lets everybody pass.
MutualExclusion == \A p, q \in Callers :
  pc[p] = "acting" /\ pc[q] = "acting" => p = q

Waits(p) == pc[p] \in {"waiting", "guarding", "inspecting"}

\* Nobody is overtaken: a caller that acts has the first ticket of all living
\* callers that wait for their turn.
FirstTicketActs == \A p, q \in Callers :
  pc[p] = "acting" /\ Waits(q) => Priority(p, ticket[p], q, ticket[q])

\* The recovery of abandoned files never takes the file of a living caller: no
\* call ends with "ownership was lost".
EntryIsKept == \A p \in Callers :
  pc[p] \notin {"idle", "done", "dead"} => entry[p] # None

\* A marker at the legacy path is that of the caller at work, or the one a dead
\* caller left behind: no failure leaves a marker that a living process owns,
\* which would block every other caller until the lease ends.
MarkerIsInUse == guard # None =>
  pc[guard.owner] \in {"writing", "acting", "releasing", "dead"}

-----------------------------------------------------------------------------
(* The inductive invariant *)

Published(p) == pc[p] \in {"waiting", "guarding", "inspecting", "writing", "acting", "releasing"}

\* the file of a caller follows its progress
FileFollows(p) ==
  /\ pc[p] \in {"idle", "done"} => entry[p] = None
  /\ pc[p] = "choosing" => entry[p] = [choosing |-> TRUE, ticket |-> 0]
  /\ Published(p) => entry[p] = [choosing |-> FALSE, ticket |-> ticket[p]]
  /\ pc[p] = "leaving" => entry[p] # None

FilesFollow == \A p \in Callers : FileFollows(p)

ReadsAreFresh == \A p \in Callers : Reading(p) \/ catalog[p] = Unread

ReclaimsTheDead == \A p \in Callers :
  catalog[p].reclaim # None => Dead(catalog[p].reclaim)

\* p has read the file of q, or its absence, and need not wait for it
Passed(p, q) ==
  \/ Published(p) /\ pc[p] # "waiting"
  \/ /\ pc[p] = "waiting" /\ catalog[p].listed
     /\ q \notin catalog[p].todo /\ ~catalog[p].blocked

\* q, as long as it lives, cannot come before p any more
Behind(q, p) ==
  /\ pc[q] = "choosing" => \/ ~catalog[q].listed \/ p \in catalog[q].todo
                           \/ catalog[q].maximum >= ticket[p]
  /\ Published(q) => Priority(p, ticket[p], q, ticket[q])

BakeryOrder == \A p, q \in Callers : p # q /\ Passed(p, q) => Behind(q, p)

WriterHoldsMarker == \A p \in Callers : pc[p] = "writing" => Guards(p)

IInv ==
  /\ TypeOK /\ FilesFollow /\ ReadsAreFresh /\ ReclaimsTheDead
  /\ BakeryOrder /\ WriterHoldsMarker /\ MarkerIsInUse
=============================================================================
