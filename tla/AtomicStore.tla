----------------------------- MODULE AtomicStore -----------------------------
(***************************************************************************)
(* What the Mapping Store promises its callers                             *)
(* (openspec/specs/external-thread-mapping-store/spec.md:29-38): a thread  *)
(* goes from one whole record to the next revision of it in a single       *)
(* durable step, a reader never sees a record that is not durable, and a   *)
(* stop of the process loses nothing that was durable except a create that *)
(* never got its native session.                                           *)
(***************************************************************************)
EXTENDS Naturals

CONSTANTS Threads, None

VARIABLES
  durable,  \* what a restart finds
  visible   \* what callers read

avars == <<durable, visible>>

Nothing == [t \in Threads |-> None]

Init == durable = Nothing /\ visible = Nothing

\* a new record, or the next revision of the one in place
Successor(old, new) ==
  IF old = None THEN new.state = "creating" /\ new.rev = 1
  ELSE new.rev = old.rev + 1 /\ new.req = old.req

\* a caller's write becomes durable before anyone sees it; it builds on what
\* is visible
Persist(t, new) ==
  /\ visible[t] # None /\ durable[t] # None => durable[t] = visible[t]
  /\ Successor(durable[t], new)
  /\ durable' = [durable EXCEPT ![t] = new]
  /\ UNCHANGED visible

Erase(t) ==
  /\ durable' = [durable EXCEPT ![t] = None]
  /\ visible[t] = None =>
       durable[t] # None /\ durable[t].state = "creating"
  /\ UNCHANGED visible

\* callers see what is durable, after a write or while the store starts
Reveal(t) ==
  /\ visible' = [visible EXCEPT ![t] = durable[t]]
  /\ UNCHANGED durable

Stop == visible' = Nothing /\ UNCHANGED durable

Next ==
  \/ \E t \in Threads :
       \/ durable'[t] # None /\ Persist(t, durable'[t])
       \/ Erase(t)
       \/ Reveal(t)
  \/ Stop

Spec == Init /\ [][Next]_avars
=============================================================================
