--------------------------- MODULE OfficialRuntime ---------------------------
(***************************************************************************)
(* The official app-servers of a host: the pool of one runtime per account *)
(* (src/packages/host-runtime/src/codex-runtime/), the broker of each      *)
(* runtime's internal requests (official-request-broker.ts), and the list  *)
(* of accounts behind them (account/account-repository.ts).                *)
(*                                                                         *)
(* A call is one request of the Desktop: initialize, a request that is     *)
(* passed on to the runtime of an account, the refresh of an account, or   *)
(* its deletion.  All but initialize run beside each other.  A promise is  *)
(* named after the call that made it, and so is a runtime; every call      *)
(* makes at most one of each.  A request of the broker is a pair of the    *)
(* call and what it asks: the handshake, or what a refresh asks.           *)
(*                                                                         *)
(* What follows a promise without waiting again belongs to the action that *)
(* takes up its result.  An answer arrives at any time, or never; what is  *)
(* pending at a runtime fails when it ends.                                *)
(*                                                                         *)
(* Bounds: each call of Calls is made once.                                *)
(***************************************************************************)
EXTENDS Naturals, Sequences

CONSTANTS
  Calls,
  Accounts,
  DefaultAccount,
  None,
  MaxRetired,          \* MAX_RETIRED_IDS
  InitializeIsEarly,   \* the pool is not closed before or during initialize
  NoUseWhileDeleting   \* nobody turns to an account that is being deleted

ASSUME DefaultIsAnAccount == DefaultAccount \in Accounts
ASSUME NoneIsNothing == None \notin Calls \cup Accounts
ASSUME SomeAreRetired == MaxRetired \in Nat

VARIABLES
  call,         \* what each call is about
  pc,           \* where it is
  awaits,       \* the call whose promise it awaits
  holds,        \* the runtime it got
  repo,         \* the accounts of the repository
  mutations,    \* its queue
  params,       \* the Desktop has sent initialize
  start,        \* the start of a runtime by a call
  greet,        \* the handshake with a runtime by a call
  pool,         \* #runtimes, #starting, #initialized, #initializing of an account
  removed,      \* #removedAccountIds
  closing,      \* how far close() is, and the starts it waits for
  runtime,      \* the runtime a call has started: open, and greeted
  pending,      \* #pending of the brokers
  retired,      \* #retired of the broker of a runtime
  log,          \* history: all it has retired, also what it has forgotten since
  owed,         \* what has reached a runtime and has no answer yet
  asked         \* the requests of the Desktop a runtime works on

repoVars == <<repo, mutations>>
poolVars == <<params, start, greet, pool, removed, closing>>
brokerVars == <<pending, retired, log, owed>>
vars == <<call, pc, awaits, holds, repoVars, poolVars, runtime, brokerVars, asked>>

Kinds == {"initialize", "forward", "refresh", "delete"}

Ids == Calls \X {"greet", "ask"}

Empty == [loaded |-> None, starting |-> None, initialized |-> FALSE, initializing |-> None]

Closed == closing.phase # "open"

Account(c) == call[c].account

Deleting(a) == \E c \in Calls : /\ call[c] = [kind |-> "delete", account |-> a]
                                /\ pc[c] \notin {"ended", "failed"}

At(id) == holds[id[1]]

Goto(c, to) == pc' = [pc EXCEPT ![c] = to]

Await(c, promise, at) == awaits' = [awaits EXCEPT ![c] = promise] /\ Goto(c, at)

Resume(c, to) == Await(c, None, to)

Begin(c, kind, a) ==
  /\ pc[c] = "idle"
  /\ call' = [call EXCEPT ![c] = [kind |-> kind, account |-> a]]

\* the given runtimes end: their brokers fail what is pending, nothing is read
\* from them any more.  p is pc apart from the requests that fail.
End(rs, p) ==
  /\ runtime' = [r \in Calls |-> [runtime[r] EXCEPT !.open = @ /\ r \notin rs]]
  /\ pending' = {id \in pending : At(id) \notin rs}
  /\ owed' = {id \in owed : At(id) \notin rs}
  /\ pc' = [c \in Calls |-> IF p[c] = "asking" /\ holds[c] \in rs THEN "failed" ELSE p[c]]
  /\ UNCHANGED <<retired, log>>

-----------------------------------------------------------------------------
(* get and #load *)

\* the runtime that is loaded, the start under way, or a new one
Load(c, a) ==
  \/ /\ pool[a].loaded # None
     /\ Await(c, pool[a].loaded, "loading")
     /\ UNCHANGED <<pool, start>>
  \/ /\ pool[a].loaded = None /\ pool[a].starting # None
     /\ Await(c, pool[a].starting, "loading")
     /\ UNCHANGED <<pool, start>>
  \/ /\ pool[a].loaded = None /\ pool[a].starting = None /\ a \in repo
     /\ pool' = [pool EXCEPT ![a].starting = c]
     /\ start' = [start EXCEPT ![c] = "connecting"]
     /\ Await(c, c, "loading")
  \/ /\ pool[a].loaded = None /\ pool[a].starting = None /\ a \notin repo
     /\ Goto(c, "failed")
     /\ UNCHANGED <<awaits, pool, start>>

Get(c, kind, a) ==
  /\ Begin(c, kind, a)
  /\ NoUseWhileDeleting => ~Deleting(a)
  /\ \/ ~Closed /\ Load(c, a)
     \/ Closed /\ Goto(c, "failed") /\ UNCHANGED <<awaits, pool, start>>
  /\ UNCHANGED <<holds, repoVars, params, greet, removed, closing, runtime, brokerVars, asked>>

\* initialize is the Desktop's first request; it does not ask whether the pool
\* is closed
Initialize(c) ==
  /\ ~params /\ (InitializeIsEarly => ~Closed)
  /\ Begin(c, "initialize", DefaultAccount)
  /\ params' = TRUE
  /\ Load(c, DefaultAccount)
  /\ UNCHANGED <<holds, repoVars, greet, removed, closing, runtime, brokerVars, asked>>

Connects(c) ==
  /\ start[c] = "connecting"
  /\ start' = [start EXCEPT ![c] = "done"]
  /\ pool' = [pool EXCEPT ![Account(c)].starting = None, ![Account(c)].loaded = c]
  /\ runtime' = [runtime EXCEPT ![c].open = TRUE]
  /\ UNCHANGED <<call, pc, awaits, holds, repoVars, params, greet, removed, closing, brokerVars, asked>>

ConnectFails(c) ==
  /\ start[c] = "connecting"
  /\ start' = [start EXCEPT ![c] = "failed"]
  /\ pool' = [pool EXCEPT ![Account(c)].starting = None]
  /\ UNCHANGED <<call, pc, awaits, holds, repoVars, params, greet, removed, closing, runtime,
                 brokerVars, asked>>

-----------------------------------------------------------------------------
(* #ensureInitialized, and what the call wanted the runtime for *)

\* a request of the broker, which fails without an answer where the runtime is gone
Send(id, r) ==
  /\ pending' = pending \cup {id}
  /\ owed' = IF runtime[r].open THEN owed \cup {id} ELSE owed
  /\ UNCHANGED <<retired, log>>

Use(c, r) ==
  \/ call[c].kind = "initialize" /\ Resume(c, "ended") /\ UNCHANGED <<asked, brokerVars>>
  \/ /\ call[c].kind = "forward" /\ runtime[r].open
     /\ asked' = [asked EXCEPT ![r] = @ \cup {c}]
     /\ Resume(c, "ended")
     /\ UNCHANGED brokerVars
  \/ /\ call[c].kind = "forward" /\ ~runtime[r].open
     /\ Resume(c, "failed")
     /\ UNCHANGED <<asked, brokerVars>>
  \/ /\ call[c].kind = "refresh"
     /\ Send(<<c, "ask">>, r)
     /\ Resume(c, "asking")
     /\ UNCHANGED asked

\* mutant: whoever finds a handshake under way does not wait for it
EnsureAlone(c, r) ==
  LET a == Account(c)
  IN  \/ /\ ~params \/ pool[a].initialized \/ pool[a].initializing # None
         /\ Use(c, r)
         /\ UNCHANGED <<pool, greet>>
      \/ /\ params /\ ~pool[a].initialized /\ pool[a].initializing = None
         /\ pool' = [pool EXCEPT ![a].initializing = c]
         /\ greet' = [greet EXCEPT ![c] = "asked"]
         /\ Send(<<c, "greet">>, r)
         /\ Await(c, c, "greeting")
         /\ UNCHANGED asked

\* before initialize nobody is greeted
Ensure(c, r) ==
  LET a == Account(c)
  IN  \/ (~params \/ pool[a].initialized) /\ Use(c, r) /\ UNCHANGED <<pool, greet>>
      \/ /\ params /\ ~pool[a].initialized /\ pool[a].initializing # None
         /\ Await(c, pool[a].initializing, "greeting")
         /\ UNCHANGED <<pool, greet, brokerVars, asked>>
      \/ /\ params /\ ~pool[a].initialized /\ pool[a].initializing = None
         /\ pool' = [pool EXCEPT ![a].initializing = c]
         /\ greet' = [greet EXCEPT ![c] = "asked"]
         /\ Send(<<c, "greet">>, r)
         /\ Await(c, c, "greeting")
         /\ UNCHANGED asked

Loaded(c) ==
  /\ pc[c] = "loading"
  /\ \/ /\ start[awaits[c]] = "done"
        /\ holds' = [holds EXCEPT ![c] = awaits[c]]
        /\ Ensure(c, awaits[c])
     \/ /\ start[awaits[c]] = "failed"
        /\ Resume(c, "failed")
        /\ UNCHANGED <<holds, pool, greet, brokerVars, asked>>
  /\ UNCHANGED <<call, repoVars, params, start, removed, closing, runtime>>

\* the confirmation of the handshake is sent
Confirmed(c) ==
  /\ greet[c] = "confirming"
  /\ greet' = [greet EXCEPT ![c] = "done"]
  /\ pool' = [pool EXCEPT ![Account(c)].initialized = TRUE, ![Account(c)].initializing = None]
  /\ UNCHANGED <<call, pc, awaits, holds, repoVars, params, start, removed, closing, runtime,
                 brokerVars, asked>>

\* no answer, or a confirmation that could not be sent
GreetFails(c) ==
  /\ \/ greet[c] = "asked" /\ <<c, "greet">> \notin pending
     \/ greet[c] = "confirming" /\ ~runtime[holds[c]].open
  /\ greet' = [greet EXCEPT ![c] = "failed"]
  /\ pool' = [pool EXCEPT ![Account(c)].initializing = None]
  /\ UNCHANGED <<call, pc, awaits, holds, repoVars, params, start, removed, closing, runtime,
                 brokerVars, asked>>

Greeted(c) ==
  /\ pc[c] = "greeting"
  /\ \/ greet[awaits[c]] = "done" /\ Use(c, holds[c])
     \/ greet[awaits[c]] = "failed" /\ Resume(c, "failed") /\ UNCHANGED <<brokerVars, asked>>
  /\ UNCHANGED <<call, holds, repoVars, poolVars, runtime>>

-----------------------------------------------------------------------------
(* The broker *)

\* mutant: the table is full one id too early
NewestTooFew(s) == IF Len(s) >= MaxRetired THEN Tail(s) ELSE s

\* the oldest id is forgotten when there are more than MAX_RETIRED_IDS
Newest(s) == IF Len(s) > MaxRetired THEN Tail(s) ELSE s

Retire(id) ==
  /\ retired' = [retired EXCEPT ![At(id)] = Newest(Append(@, id))]
  /\ log' = [log EXCEPT ![At(id)] = Append(@, id)]

\* the handshake was answered, perhaps with an error
TakeGreeting(c) ==
  /\ \/ /\ greet' = [greet EXCEPT ![c] = "confirming"]
        /\ runtime' = [runtime EXCEPT ![holds[c]].greeted = TRUE]
        /\ UNCHANGED pool
     \/ /\ greet' = [greet EXCEPT ![c] = "failed"]
        /\ pool' = [pool EXCEPT ![Account(c)].initializing = None]
        /\ UNCHANGED runtime
  /\ UNCHANGED <<pc, mutations>>

\* a refresh may have found that the account has changed
TakeAnswer(c) ==
  /\ \/ Goto(c, "ended") /\ UNCHANGED mutations
     \/ Goto(c, "queued") /\ mutations' = Append(mutations, c)
  /\ UNCHANGED <<greet, pool, runtime>>

\* handle: the answer to a pending request settles it, that to a retired one is
\* swallowed; one that the broker does not know goes on to the Desktop
Read(id) ==
  /\ id \in owed
  /\ owed' = owed \ {id}
  /\ \/ /\ id \notin pending
        /\ UNCHANGED <<pending, retired, log, pc, mutations, greet, pool, runtime>>
     \/ /\ id \in pending
        /\ pending' = pending \ {id}
        /\ Retire(id)
        /\ \/ id[2] = "greet" /\ TakeGreeting(id[1])
           \/ id[2] = "ask" /\ TakeAnswer(id[1])
  /\ UNCHANGED <<call, awaits, holds, repo, params, start, removed, closing, asked>>

\* the timeout, or the failure of send
Timeout(id) ==
  /\ id \in pending
  /\ pending' = pending \ {id}
  /\ Retire(id)
  /\ IF id[2] = "ask" THEN Goto(id[1], "failed") ELSE UNCHANGED pc
  /\ UNCHANGED <<call, awaits, holds, repoVars, poolVars, runtime, owed, asked>>

\* a runtime answers a request of the Desktop
AnswerDesktop(c) ==
  /\ \E r \in Calls : runtime[r].open /\ c \in asked[r] /\ asked' = [asked EXCEPT ![r] = @ \ {c}]
  /\ UNCHANGED <<call, pc, awaits, holds, repoVars, poolVars, runtime, brokerVars>>

-----------------------------------------------------------------------------
(* Removal of an account: from the pool first, then from the repository *)

Forgotten(a) == [pool EXCEPT ![a].loaded = None, ![a].initialized = FALSE, ![a].initializing = None]

\* the runtime is closed, and the removal from the repository queued
Remove(c, a) ==
  /\ End({pool[a].loaded} \ {None}, [pc EXCEPT ![c] = "queued"])
  /\ pool' = Forgotten(a)
  /\ mutations' = Append(mutations, c)

\* mutant: a runtime that starts is not waited for
DeleteAtOnce(c, a) ==
  /\ a \in repo /\ a # DefaultAccount
  /\ Begin(c, "delete", a)
  /\ removed' = removed \cup {a}
  /\ Remove(c, a)
  /\ UNCHANGED <<awaits, holds, repo, params, start, greet, closing, asked>>

Delete(c, a) ==
  /\ a \in repo /\ a # DefaultAccount
  /\ Begin(c, "delete", a)
  /\ removed' = removed \cup {a}
  /\ \/ pool[a].starting = None /\ Remove(c, a) /\ UNCHANGED awaits
     \/ /\ pool[a].starting # None
        /\ Await(c, pool[a].starting, "removing")
        /\ UNCHANGED <<pool, runtime, mutations, brokerVars>>
  /\ UNCHANGED <<holds, repo, params, start, greet, closing, asked>>

DeleteStarted(c) ==
  /\ pc[c] = "removing"
  /\ \/ start[awaits[c]] = "done" /\ Remove(c, Account(c))
     \/ /\ start[awaits[c]] = "failed"
        /\ Goto(c, "failed")
        /\ UNCHANGED <<pool, runtime, mutations, brokerVars>>
  /\ awaits' = [awaits EXCEPT ![c] = None]
  /\ UNCHANGED <<call, holds, repo, params, start, greet, removed, closing, asked>>

\* one change of the repository after the other: memory first, then the file
Mutate(c) ==
  /\ pc[c] = "queued" /\ mutations # <<>> /\ Head(mutations) = c
  /\ \/ /\ call[c].kind = "delete" /\ Account(c) \in repo
        /\ repo' = repo \ {Account(c)}
        /\ Goto(c, "writing")
        /\ UNCHANGED mutations
     \/ /\ call[c].kind = "delete" /\ Account(c) \notin repo
        /\ Goto(c, "failed")
        /\ mutations' = Tail(mutations)
        /\ UNCHANGED repo
     \/ /\ call[c].kind = "refresh"
        /\ repo' = repo \cup {Account(c)}
        /\ Goto(c, "writing")
        /\ UNCHANGED mutations
  /\ UNCHANGED <<call, awaits, holds, poolVars, runtime, brokerVars, asked>>

Written(c) ==
  /\ pc[c] = "writing" /\ mutations # <<>>
  /\ mutations' = Tail(mutations)
  /\ Goto(c, "ended") \/ Goto(c, "failed")
  /\ UNCHANGED <<call, awaits, holds, repo, poolVars, runtime, brokerVars, asked>>

-----------------------------------------------------------------------------
(* Close and failure *)

Closing == [phase |-> "closing", starts |-> {pool[a].starting : a \in Accounts} \ {None}]

\* mutant: only what runs by now is closed
CloseAtOnce ==
  /\ ~Closed
  /\ closing' = [phase |-> "closing", starts |-> {}]
  /\ UNCHANGED <<call, pc, awaits, holds, repoVars, params, start, greet, pool, removed, runtime,
                 brokerVars, asked>>

Close ==
  /\ ~Closed
  /\ closing' = Closing
  /\ UNCHANGED <<call, pc, awaits, holds, repoVars, params, start, greet, pool, removed, runtime,
                 brokerVars, asked>>

\* every runtime the pool owns is closed once the starts have settled
CloseRuntimes ==
  /\ closing.phase = "closing"
  /\ \A s \in closing.starts : start[s] # "connecting"
  /\ closing' = [phase |-> "closed", starts |-> {}]
  /\ End({r \in Calls : runtime[r].open}, pc)
  /\ pool' = [a \in Accounts |-> [pool[a] EXCEPT !.loaded = None, !.initialized = FALSE,
                                                !.initializing = None]]
  /\ UNCHANGED <<call, awaits, holds, repoVars, params, start, greet, removed, asked>>

\* mutant: only the exit of a runtime that has been greeted ends the host
ExitOfGreeted(r) ==
  /\ runtime[r].open
  /\ End({r}, pc)
  /\ pool' = IF pool[Account(r)].loaded = r THEN Forgotten(Account(r)) ELSE pool
  /\ closing' = IF ~Closed /\ runtime[r].greeted THEN Closing ELSE closing
  /\ UNCHANGED <<call, awaits, holds, repoVars, params, start, greet, removed, asked>>

\* a runtime ends of its own accord: onClosed.  The host closes the pool, unless
\* the account was removed.
Exit(r) ==
  /\ runtime[r].open
  /\ End({r}, pc)
  /\ pool' = IF pool[Account(r)].loaded = r THEN Forgotten(Account(r)) ELSE pool
  /\ closing' = IF ~Closed /\ Account(r) \notin removed THEN Closing ELSE closing
  /\ UNCHANGED <<call, awaits, holds, repoVars, params, start, greet, removed, asked>>

-----------------------------------------------------------------------------
Init ==
  /\ call = [c \in Calls |-> None]
  /\ pc = [c \in Calls |-> "idle"]
  /\ awaits = [c \in Calls |-> None]
  /\ holds = [c \in Calls |-> None]
  /\ repo = Accounts
  /\ mutations = <<>>
  /\ params = FALSE
  /\ start = [c \in Calls |-> "none"]
  /\ greet = [c \in Calls |-> "none"]
  /\ pool = [a \in Accounts |-> Empty]
  /\ removed = {}
  /\ closing = [phase |-> "open", starts |-> {}]
  /\ runtime = [c \in Calls |-> [open |-> FALSE, greeted |-> FALSE]]
  /\ pending = {} /\ owed = {}
  /\ retired = [c \in Calls |-> <<>>] /\ log = [c \in Calls |-> <<>>]
  /\ asked = [c \in Calls |-> {}]

Next ==
  \/ \E c \in Calls :
       \/ Initialize(c) \/ Connects(c) \/ ConnectFails(c) \/ Loaded(c)
       \/ Confirmed(c) \/ GreetFails(c) \/ Greeted(c) \/ AnswerDesktop(c)
       \/ DeleteStarted(c) \/ Mutate(c) \/ Written(c) \/ Exit(c)
  \/ \E c \in Calls, a \in Accounts : Delete(c, a) \/ Get(c, "forward", a) \/ Get(c, "refresh", a)
  \/ \E id \in Ids : Read(id) \/ Timeout(id)
  \/ Close \/ CloseRuntimes

Spec == Init /\ [][Next]_vars

-----------------------------------------------------------------------------
(* Properties *)

Call == [kind : Kinds, account : Accounts]

Pcs == {"idle", "loading", "greeting", "asking", "queued", "writing", "removing", "ended", "failed"}

Runtime == [open : BOOLEAN, greeted : BOOLEAN]

Entry == [loaded : Calls \cup {None}, starting : Calls \cup {None},
          initialized : BOOLEAN, initializing : Calls \cup {None}]

Phase == [phase : {"open", "closing", "closed"}, starts : SUBSET Calls]

\* Type correctness of calls, pool and brokers.
TypeOK ==
  /\ call \in [Calls -> Call \cup {None}]
  /\ pc \in [Calls -> Pcs]
  /\ awaits \in [Calls -> Calls \cup {None}] /\ holds \in [Calls -> Calls \cup {None}]
  /\ repo \subseteq Accounts /\ removed \subseteq Accounts
  /\ mutations \in Seq(Calls)
  /\ params \in BOOLEAN
  /\ start \in [Calls -> {"none", "connecting", "done", "failed"}]
  /\ greet \in [Calls -> {"none", "asked", "confirming", "done", "failed"}]
  /\ runtime \in [Calls -> Runtime]
  /\ pool \in [Accounts -> Entry]
  /\ closing \in Phase
  /\ pending \subseteq Ids /\ owed \subseteq Ids
  /\ retired \in [Calls -> Seq(Ids)] /\ log \in [Calls -> Seq(Ids)]
  /\ asked \in [Calls -> SUBSET Calls]

\* Nothing runs once the pool is closed: also a runtime whose start was under way
\* when close() began is closed, and none is started afterwards.
NothingOutlivesThePool == closing.phase = "closed" => \A r \in Calls : ~runtime[r].open

\* An account whose deletion was answered is gone: no refresh brings it back, and
\* no runtime works for it, also not one that was starting meanwhile.
DeletedIsGone == \A c \in Calls :
  call[c] # None /\ call[c].kind = "delete" /\ pc[c] = "ended" =>
    /\ Account(c) \notin repo
    /\ \A r \in Calls : runtime[r].open => Account(r) # Account(c)

\* The broker has forgotten an id: as many others as it can hold were retired
\* after it.
Forgot(id) == \E i \in DOMAIN log[At(id)] :
  log[At(id)][i] = id /\ Len(log[At(id)]) - i >= MaxRetired

\* An answer to an internal request never reaches the Desktop, however late it
\* comes: whatever a runtime may still answer is pending or among the retired ids
\* of its broker, unless MAX_RETIRED_IDS others were retired after it.
LateAnswersStayInside == \A id \in owed :
  id \in pending \/ Forgot(id) \/ \E i \in DOMAIN retired[At(id)] : retired[At(id)][i] = id

\* No request of the Desktop waits for a runtime that is gone while the host goes
\* on: the host ends with it, unless somebody has set out to delete the account.
NobodyWaitsForTheDead == \A r \in Calls :
  asked[r] # {} /\ ~runtime[r].open =>
    Closed \/ \E c \in Calls : call[c] = [kind |-> "delete", account |-> Account(r)]

\* After initialize a runtime is used only when it was greeted itself, whoever
\* started it and whoever did the greeting, unless somebody has set out to
\* delete the account.
GreetedBeforeUse == [][\A c, r \in Calls :
  params /\ (c \in asked'[r] \ asked[r] \/ (<<c, "ask">> \in owed' \ owed /\ holds'[c] = r))
    => runtime[r].greeted \/ Account(r) \in removed]_vars
=============================================================================
