------------------------ MODULE OfficialRuntimeProofs ------------------------
(***************************************************************************)
(* What holds of the pool of runtimes, their brokers and the list of       *)
(* accounts for any number of calls, accounts and requests.                *)
(***************************************************************************)
EXTENDS OfficialRuntime, FiniteSetTheorems, SequenceTheorems, TLAPS

\* a call that has begun is about something, and only such calls have requests
\* at a broker or started a runtime
Begun ==
  /\ \A c \in Calls : pc[c] # "idle" => call[c] \in Call
  /\ \A c \in Calls : start[c] # "none" => pc[c] # "idle"
  /\ \A id \in pending : pc[id[1]] # "idle"

\* Every start under way is the one its account waits for, and close() waits for it too.
Starts ==
  /\ \A c \in Calls : start[c] = "connecting" =>
       pool[Account(c)].starting = c /\ (Closed => c \in closing.starts)
  /\ \A a \in Accounts, c \in Calls : pool[a].starting = c =>
       Account(c) = a /\ start[c] = "connecting" /\ pool[a].loaded = None
  /\ closing.phase = "closed" => closing.starts = {}

\* What runs is what its account has loaded; a runtime that is gone took the host
\* with it, or the account was removed.  So an account that stays has at most one.
Runtimes ==
  /\ \A r \in Calls : runtime[r].open =>
       start[r] = "done" /\ pool[Account(r)].loaded = r /\ closing.phase # "closed"
  /\ \A a \in Accounts, r \in Calls : pool[a].loaded = r => Account(r) = a /\ start[r] = "done"
  /\ \A r \in Calls : start[r] = "done" =>
       runtime[r].open \/ Closed \/ Account(r) \in removed
  /\ \A r, s \in Calls :
       /\ start[r] \in {"connecting", "done"} /\ start[s] \in {"connecting", "done"}
       /\ Account(r) = Account(s) /\ Account(r) \notin removed
       => r = s

\* A removed account has a call that deletes it, and who waits in vain waits for
\* the runtime of such an account.
Deletions ==
  /\ \A c \in Calls : pc[c] = "removing" => call[c].kind = "delete" /\ Account(c) \in removed
  /\ \A a \in removed : \E c \in Calls :
       pc[c] # "idle" /\ call[c] = [kind |-> "delete", account |-> a]
  /\ \A r \in Calls : asked[r] # {} =>
       /\ start[r] = "done"
       /\ runtime[r].open \/ Closed \/ Account(r) \in removed

\* Whoever waits for a promise waits for one that was made for its account, and
\* whoever got a runtime got one of its account.
Waits(c) == awaits[c] \in Calls /\ Account(awaits[c]) = Account(c)

Holds(c) ==
  /\ holds[c] \in Calls /\ Account(holds[c]) = Account(c) /\ start[holds[c]] = "done"
  /\ pc[c] \notin {"idle", "loading"}

Promises ==
  /\ \A c \in Calls : pc[c] = "loading" => Waits(c) /\ start[awaits[c]] # "none"
  /\ \A c \in Calls : pc[c] = "greeting" => Holds(c) /\ Waits(c) /\ greet[awaits[c]] # "none"
  /\ \A c \in Calls : greet[c] # "none" => Holds(c)
  /\ \A c \in Calls : <<c, "greet">> \in pending => greet[c] # "none"
  /\ \A a \in Accounts, c \in Calls : pool[a].initializing = c =>
       greet[c] # "none" /\ Account(c) = a

\* A handshake that is confirmed was one with the runtime of the account.
Greetings ==
  /\ \A c \in Calls : greet[c] \in {"confirming", "done"} => runtime[holds[c]].greeted
  /\ \A a \in Accounts : pool[a].initialized /\ a \notin removed =>
       \E r \in Calls : start[r] = "done" /\ Account(r) = a /\ runtime[r].greeted

IInv == TypeOK /\ Begun /\ Starts /\ Runtimes /\ Deletions /\ Promises /\ Greetings

-----------------------------------------------------------------------------
(* Types *)

LEMMA InitTypes == Init => TypeOK /\ Begun
<1> SUFFICES ASSUME Init PROVE TypeOK /\ Begun OBVIOUS
<1>1. Empty \in Entry BY DEF Empty, Entry
<1>2. pool \in [Accounts -> Entry] BY <1>1 DEF Init
<1>3. runtime \in [Calls -> Runtime] BY DEF Init, Runtime
<1>4. closing \in Phase BY DEF Init, Phase
<1>5. pc \in [Calls -> Pcs] BY DEF Init, Pcs
<1>6. mutations \in Seq(Calls) /\ retired \in [Calls -> Seq(Ids)] /\ log \in [Calls -> Seq(Ids)]
  BY DEF Init
<1>7. TypeOK BY <1>2, <1>3, <1>4, <1>5, <1>6 DEF Init, TypeOK
<1>8. Begun BY DEF Init, Begun
<1> QED BY <1>7, <1>8

LEMMA AccountOfBegun ==
  ASSUME TypeOK, Begun, NEW c \in Calls, pc[c] # "idle"
  PROVE  Account(c) \in Accounts
BY DEF TypeOK, Begun, Call, Account

LEMMA EntryFields ==
  ASSUME TypeOK, NEW a \in Accounts
  PROVE  /\ pool[a].loaded \in Calls \cup {None}
         /\ pool[a].starting \in Calls \cup {None}
         /\ pool[a].initializing \in Calls \cup {None}
BY DEF TypeOK, Entry

LEMMA EntryChanges ==
  ASSUME TypeOK, NEW e \in Entry, NEW c \in Calls \cup {None}, NEW b \in BOOLEAN
  PROVE  /\ [e EXCEPT !.starting = c] \in Entry
         /\ [e EXCEPT !.loaded = c] \in Entry
         /\ [e EXCEPT !.initializing = c] \in Entry
         /\ [e EXCEPT !.initialized = b] \in Entry
         /\ [e EXCEPT !.starting = None, !.loaded = c] \in Entry
         /\ [e EXCEPT !.initialized = b, !.initializing = None] \in Entry
         /\ [e EXCEPT !.loaded = None, !.initialized = b, !.initializing = None] \in Entry
BY DEF Entry

\* Begun looks at what changes only
LEMMA BegunKept ==
  ASSUME TypeOK, Begun,
         \A x \in Calls : pc[x] # "idle" => pc'[x] # "idle" /\ call'[x] = call[x],
         \A x \in Calls : pc'[x] # "idle" => pc[x] # "idle" \/ call'[x] \in Call,
         \A x \in Calls : start'[x] # "none" => start[x] # "none" \/ pc'[x] # "idle",
         \A id \in pending' : id \in pending \/ pc'[id[1]] # "idle"
  PROVE  Begun'
<1>1. \A id \in pending : id[1] \in Calls BY DEF TypeOK, Ids
<1> QED BY <1>1 DEF Begun

LEMMA LoadTypes ==
  ASSUME TypeOK, NEW c \in Calls, NEW a \in Accounts, Load(c, a)
  PROVE  /\ pc' \in [Calls -> Pcs]
         /\ awaits' \in [Calls -> Calls \cup {None}]
         /\ pool' \in [Accounts -> Entry]
         /\ start' \in [Calls -> {"none", "connecting", "done", "failed"}]
         /\ \A x \in Calls : pc[x] # "idle" => pc'[x] # "idle"
         /\ pc'[c] # "idle"
         /\ \A x \in Calls : x # c => start'[x] = start[x]
<1>1. pool' \in [Accounts -> Entry]
  <2>1. CASE UNCHANGED pool BY <2>1 DEF TypeOK
  <2>2. CASE pool' = [pool EXCEPT ![a].starting = c]
    <3>1. [pool[a] EXCEPT !.starting = c] \in Entry BY EntryChanges DEF TypeOK
    <3>2. pool' = [pool EXCEPT ![a] = [pool[a] EXCEPT !.starting = c]] BY <2>2
    <3> QED BY <3>1, <3>2 DEF TypeOK
  <2> QED BY <2>1, <2>2 DEF Load
<1>2. awaits' \in [Calls -> Calls \cup {None}]
  BY EntryFields DEF TypeOK, Load, Await
<1>3. pc' \in [Calls -> Pcs] /\ pc'[c] # "idle" /\ \A x \in Calls : pc[x] # "idle" => pc'[x] # "idle"
  BY DEF TypeOK, Load, Await, Goto, Pcs
<1>4. /\ start' \in [Calls -> {"none", "connecting", "done", "failed"}]
      /\ \A x \in Calls : x # c => start'[x] = start[x]
  BY DEF TypeOK, Load
<1> QED BY <1>1, <1>2, <1>3, <1>4

LEMMA GetTypes ==
  ASSUME TypeOK, Begun, NEW c \in Calls,
         Initialize(c) \/ \E a \in Accounts : Get(c, "forward", a) \/ Get(c, "refresh", a)
  PROVE  TypeOK' /\ Begun'
<1>1. CASE Initialize(c)
  <2>1. Load(c, DefaultAccount) BY <1>1 DEF Initialize
  <2>2. call' \in [Calls -> Call \cup {None}] /\ call'[c] \in Call
    BY <1>1, DefaultIsAnAccount DEF Initialize, Begin, TypeOK, Call, Kinds
  <2>3. pc[c] = "idle" /\ \A x \in Calls : x # c => call'[x] = call[x]
    BY <1>1 DEF Initialize, Begin, TypeOK
  <2>4. TypeOK' BY <1>1, <2>1, <2>2, LoadTypes, DefaultIsAnAccount
       DEF Initialize, TypeOK, repoVars, brokerVars
  <2>5. pending' = pending BY <1>1 DEF Initialize, brokerVars
  <2>6. \A x \in Calls : x # c => pc'[x] = pc[x] BY <2>1 DEF Load, Await, Goto, TypeOK
  <2>7. Begun' BY <2>1, <2>2, <2>3, <2>5, <2>6, LoadTypes, BegunKept, DefaultIsAnAccount
  <2> QED BY <2>4, <2>7
<1>2. ASSUME NEW kind \in {"forward", "refresh"}, NEW a \in Accounts, Get(c, kind, a)
      PROVE  TypeOK' /\ Begun'
  <2>2. call' \in [Calls -> Call \cup {None}] /\ call'[c] \in Call
    BY <1>2 DEF Get, Begin, TypeOK, Call, Kinds
  <2>3. pc[c] = "idle" /\ \A x \in Calls : x # c => call'[x] = call[x]
    BY <1>2 DEF Get, Begin, TypeOK
  <2>5. pending' = pending BY <1>2 DEF Get, brokerVars
  <2>1. CASE Load(c, a)
    <3>4. TypeOK' BY <1>2, <2>1, <2>2, LoadTypes
         DEF Get, TypeOK, repoVars, brokerVars
    <3>6. \A x \in Calls : x # c => pc'[x] = pc[x] BY <2>1 DEF Load, Await, Goto, TypeOK
    <3>5. Begun' BY <2>1, <2>2, <2>3, <2>5, <3>6, LoadTypes, BegunKept
    <3> QED BY <3>4, <3>5
  <2>4. CASE Goto(c, "failed") /\ UNCHANGED <<awaits, pool, start>>
    <3>4. TypeOK' BY <1>2, <2>4, <2>2
         DEF Get, Goto, Pcs, TypeOK, repoVars, brokerVars
    <3>6. pc'[c] # "idle" /\ \A x \in Calls : x # c => pc'[x] = pc[x] BY <2>4 DEF Goto, TypeOK
    <3>5. Begun' BY <2>4, <2>2, <2>3, <2>5, <3>6, BegunKept
    <3> QED BY <3>4, <3>5
  <2> QED BY <1>2, <2>1, <2>4 DEF Get
<1> QED BY <1>1, <1>2

\* Steps that begin nothing keep Begun when their requests belong to calls under way.
LEMMA BegunStays ==
  ASSUME TypeOK, Begun, call' = call,
         \A x \in Calls : pc[x] # "idle" <=> pc'[x] # "idle",
         \A x \in Calls : start'[x] # "none" => start[x] # "none",
         \A id \in pending' : id \in pending \/ (pc[id[1]] # "idle" /\ id[1] \in Calls)
  PROVE  Begun'
<1>1. \A id \in pending : id[1] \in Calls BY DEF TypeOK, Ids
<1>2. \A x \in Calls : pc'[x] # "idle" => call'[x] \in Call BY DEF Begun
<1>3. \A x \in Calls : start'[x] # "none" => pc'[x] # "idle" BY DEF Begun
<1>4. \A id \in pending' : pc'[id[1]] # "idle" BY <1>1 DEF Begun
<1> QED BY <1>2, <1>3, <1>4 DEF Begun

LEMMA RuntimeChanges ==
  ASSUME NEW e \in Runtime, NEW b \in BOOLEAN
  PROVE  /\ [e EXCEPT !.open = b] \in Runtime
         /\ [e EXCEPT !.greeted = b] \in Runtime
BY DEF Runtime

LEMMA ResumeTypes ==
  ASSUME TypeOK, NEW c \in Calls, NEW to \in Pcs \ {"idle"}, Resume(c, to)
  PROVE  /\ pc' \in [Calls -> Pcs] /\ pc'[c] # "idle"
         /\ \A x \in Calls : x # c => pc'[x] = pc[x]
         /\ awaits' \in [Calls -> Calls \cup {None}]
BY DEF TypeOK, Resume, Await, Goto

LEMMA BegunQuiet ==
  ASSUME TypeOK, Begun, UNCHANGED <<call, pc, pending>>,
         \A x \in Calls : start'[x] # "none" => start[x] # "none"
  PROVE  Begun'
BY DEF Begun

LEMMA StartTypes ==
  ASSUME TypeOK, Begun, NEW c \in Calls, Connects(c) \/ ConnectFails(c)
  PROVE  TypeOK' /\ Begun'
<1>1. pc[c] # "idle" BY DEF Connects, ConnectFails, Begun
<1>2. Account(c) \in Accounts BY <1>1, AccountOfBegun
<1>3. pool[Account(c)] \in Entry BY <1>2 DEF TypeOK
<1>4. pool' \in [Accounts -> Entry]
  <2>1. CASE Connects(c)
    <3>1. [pool[Account(c)] EXCEPT !.starting = None, !.loaded = c] \in Entry
      BY <1>3, EntryChanges
    <3>2. pool' = [pool EXCEPT ![Account(c)] =
                     [pool[Account(c)] EXCEPT !.starting = None, !.loaded = c]]
      BY <2>1, <1>2, <1>3 DEF Connects, TypeOK, Entry
    <3> QED BY <3>1, <3>2 DEF TypeOK
  <2>2. CASE ConnectFails(c)
    <3>1. [pool[Account(c)] EXCEPT !.starting = None] \in Entry
      BY <1>3, EntryChanges
    <3>2. pool' = [pool EXCEPT ![Account(c)] = [pool[Account(c)] EXCEPT !.starting = None]]
      BY <2>2 DEF ConnectFails
    <3> QED BY <3>1, <3>2 DEF TypeOK
  <2> QED BY <2>1, <2>2
<1>5. runtime' \in [Calls -> Runtime]
  <2>1. [runtime[c] EXCEPT !.open = TRUE] \in Runtime BY RuntimeChanges DEF TypeOK
  <2>2. \/ runtime' = runtime
        \/ runtime' = [runtime EXCEPT ![c] = [runtime[c] EXCEPT !.open = TRUE]]
    BY DEF Connects, ConnectFails
  <2> QED BY <2>1, <2>2 DEF TypeOK
<1>6. start' \in [Calls -> {"none", "connecting", "done", "failed"}]
  BY DEF Connects, ConnectFails, TypeOK
<1>7. TypeOK' BY <1>4, <1>5, <1>6 DEF Connects, ConnectFails, TypeOK, repoVars, brokerVars
<1>8. \A x \in Calls : start'[x] # "none" => start[x] # "none"
  BY DEF Connects, ConnectFails, TypeOK
<1>9. UNCHANGED <<call, pc, pending>> BY DEF Connects, ConnectFails, brokerVars
<1>10. Begun' BY <1>8, <1>9, BegunQuiet
<1> QED BY <1>7, <1>10

LEMMA SendTypes ==
  ASSUME TypeOK, NEW c \in Calls, NEW r \in Calls, NEW what \in {"greet", "ask"}, Send(<<c, what>>, r)
  PROVE  /\ pending' \subseteq Ids /\ owed' \subseteq Ids /\ UNCHANGED <<retired, log>>
         /\ \A id \in pending' : id \in pending \/ id[1] = c
BY DEF TypeOK, Send, Ids

LEMMA UseTypes ==
  ASSUME TypeOK, NEW c \in Calls, NEW r \in Calls, Use(c, r)
  PROVE  /\ pc' \in [Calls -> Pcs] /\ pc'[c] # "idle"
         /\ \A x \in Calls : x # c => pc'[x] = pc[x]
         /\ awaits' \in [Calls -> Calls \cup {None}]
         /\ asked' \in [Calls -> SUBSET Calls]
         /\ pending' \subseteq Ids /\ owed' \subseteq Ids /\ UNCHANGED <<retired, log>>
         /\ \A id \in pending' : id \in pending \/ id[1] = c
<1>1. \/ UNCHANGED brokerVars
      \/ Send(<<c, "ask">>, r)
  BY DEF Use
<1>2. /\ pending' \subseteq Ids /\ owed' \subseteq Ids /\ UNCHANGED <<retired, log>>
      /\ \A id \in pending' : id \in pending \/ id[1] = c
  BY <1>1, SendTypes DEF TypeOK, brokerVars
<1>3. asked' \in [Calls -> SUBSET Calls]
  BY DEF TypeOK, Use
<1>4. Resume(c, "ended") \/ Resume(c, "failed") \/ Resume(c, "asking")
  BY DEF Use
<1>5. /\ pc' \in [Calls -> Pcs] /\ pc'[c] # "idle"
      /\ \A x \in Calls : x # c => pc'[x] = pc[x]
      /\ awaits' \in [Calls -> Calls \cup {None}]
  BY <1>4, ResumeTypes DEF Pcs
<1> QED BY <1>2, <1>3, <1>5

LEMMA EnsureTypes ==
  ASSUME TypeOK, Begun, NEW c \in Calls, NEW r \in Calls, pc[c] # "idle", Ensure(c, r)
  PROVE  /\ pc' \in [Calls -> Pcs] /\ pc'[c] # "idle"
         /\ \A x \in Calls : x # c => pc'[x] = pc[x]
         /\ awaits' \in [Calls -> Calls \cup {None}]
         /\ asked' \in [Calls -> SUBSET Calls]
         /\ pending' \subseteq Ids /\ owed' \subseteq Ids /\ UNCHANGED <<retired, log>>
         /\ \A id \in pending' : id \in pending \/ id[1] = c
         /\ pool' \in [Accounts -> Entry]
         /\ greet' \in [Calls -> {"none", "asked", "confirming", "done", "failed"}]
<1> DEFINE a == Account(c)
<1>1. a \in Accounts BY AccountOfBegun
<1>2. CASE Use(c, r) /\ UNCHANGED <<pool, greet>> BY <1>2, UseTypes DEF TypeOK
<1>3. CASE /\ pool[a].initializing # None
           /\ Await(c, pool[a].initializing, "greeting")
           /\ UNCHANGED <<pool, greet, brokerVars, asked>>
  <2>1. pool[a].initializing \in Calls BY <1>1, <1>3, EntryFields
  <2> QED BY <1>3, <2>1 DEF TypeOK, Await, Goto, Pcs, brokerVars
<1>4. CASE /\ pool' = [pool EXCEPT ![a].initializing = c]
           /\ greet' = [greet EXCEPT ![c] = "asked"]
           /\ Send(<<c, "greet">>, r)
           /\ Await(c, c, "greeting")
           /\ UNCHANGED asked
  <2>1. [pool[a] EXCEPT !.initializing = c] \in Entry BY <1>1, EntryChanges DEF TypeOK
  <2>2. pool' = [pool EXCEPT ![a] = [pool[a] EXCEPT !.initializing = c]] BY <1>4
  <2>3. pool' \in [Accounts -> Entry] BY <2>1, <2>2 DEF TypeOK
  <2> QED BY <1>4, <2>3, SendTypes DEF TypeOK, Await, Goto, Pcs
<1> QED BY <1>2, <1>3, <1>4 DEF Ensure

LEMMA LoadedTypes ==
  ASSUME TypeOK, Begun, NEW c \in Calls, awaits[c] \in Calls, Loaded(c)
  PROVE  TypeOK' /\ Begun'
<1>1. pc[c] # "idle" BY DEF Loaded
<1>2. CASE holds' = [holds EXCEPT ![c] = awaits[c]] /\ Ensure(c, awaits[c])
  <2>1. TypeOK' BY <1>1, <1>2, EnsureTypes DEF Loaded, TypeOK, repoVars
  <2>2. \A x \in Calls : pc[x] # "idle" <=> pc'[x] # "idle" BY <1>1, <1>2, EnsureTypes
  <2>3. \A id \in pending' : id \in pending \/ id[1] = c
    BY <1>1, <1>2, EnsureTypes
  <2>4. call' = call /\ start' = start BY DEF Loaded
  <2>5. Begun' BY <1>1, <2>2, <2>3, <2>4, BegunStays
  <2> QED BY <2>1, <2>5
<1>3. CASE Resume(c, "failed") /\ UNCHANGED <<holds, pool, greet, brokerVars, asked>>
  <2>1. TypeOK' BY <1>3 DEF Loaded, TypeOK, repoVars, Resume, Await, Goto, Pcs, brokerVars
  <2>2. \A x \in Calls : pc[x] # "idle" <=> pc'[x] # "idle"
    BY <1>1, <1>3 DEF Resume, Await, Goto, TypeOK
  <2>4. call' = call /\ start' = start /\ pending' = pending BY <1>3 DEF Loaded, brokerVars
  <2>5. Begun' BY <2>2, <2>4, BegunStays
  <2> QED BY <2>1, <2>5
<1> QED BY <1>2, <1>3 DEF Loaded

LEMMA GreetTypes ==
  ASSUME TypeOK, Begun, NEW c \in Calls, greet[c] # "none" => pc[c] # "idle",
         Confirmed(c) \/ GreetFails(c)
  PROVE  TypeOK' /\ Begun'
<1>1. Account(c) \in Accounts BY AccountOfBegun DEF Confirmed, GreetFails
<1>2. pool' \in [Accounts -> Entry]
  <2>1. CASE Confirmed(c)
    <3>1. [pool[Account(c)] EXCEPT !.initialized = TRUE, !.initializing = None] \in Entry
      BY <1>1, EntryChanges DEF TypeOK
    <3>2. pool' = [pool EXCEPT ![Account(c)] =
                     [pool[Account(c)] EXCEPT !.initialized = TRUE, !.initializing = None]]
      BY <1>1, <2>1 DEF Confirmed, TypeOK, Entry
    <3> QED BY <3>1, <3>2 DEF TypeOK
  <2>2. CASE GreetFails(c)
    <3>1. [pool[Account(c)] EXCEPT !.initializing = None] \in Entry
      BY <1>1, EntryChanges DEF TypeOK
    <3>2. pool' = [pool EXCEPT ![Account(c)] = [pool[Account(c)] EXCEPT !.initializing = None]]
      BY <2>2 DEF GreetFails
    <3> QED BY <3>1, <3>2 DEF TypeOK
  <2> QED BY <2>1, <2>2
<1>3. TypeOK' BY <1>2 DEF Confirmed, GreetFails, TypeOK, repoVars, brokerVars
<1>4. UNCHANGED <<call, pc, start, pending>> BY DEF Confirmed, GreetFails, brokerVars
<1> QED BY <1>3, <1>4, BegunQuiet

LEMMA GreetedTypes ==
  ASSUME TypeOK, Begun, NEW c \in Calls, holds[c] \in Calls, Greeted(c)
  PROVE  TypeOK' /\ Begun'
<1>1. pc[c] # "idle" BY DEF Greeted
<1>2. start' = start /\ call' = call BY DEF Greeted, poolVars
<1>3. CASE Use(c, holds[c])
  <2>1. TypeOK' BY <1>3, UseTypes DEF Greeted, TypeOK, poolVars, repoVars
  <2>2. \A x \in Calls : pc[x] # "idle" <=> pc'[x] # "idle" BY <1>1, <1>3, UseTypes
  <2>3. \A id \in pending' : id \in pending \/ id[1] = c BY <1>3, UseTypes
  <2>4. Begun' BY <1>1, <1>2, <2>2, <2>3, BegunStays
  <2> QED BY <2>1, <2>4
<1>4. CASE Resume(c, "failed") /\ UNCHANGED <<brokerVars, asked>>
  <2>1. /\ pc' \in [Calls -> Pcs] /\ pc'[c] # "idle"
        /\ \A x \in Calls : x # c => pc'[x] = pc[x]
        /\ awaits' \in [Calls -> Calls \cup {None}]
    BY <1>4, ResumeTypes DEF Pcs
  <2>2. TypeOK' BY <1>4, <2>1 DEF Greeted, TypeOK, poolVars, repoVars, brokerVars
  <2>3. pending' = pending BY <1>4 DEF brokerVars
  <2>4. \A x \in Calls : pc[x] # "idle" <=> pc'[x] # "idle" BY <1>1, <2>1
  <2>5. Begun' BY <1>2, <2>3, <2>4, BegunStays
  <2> QED BY <2>2, <2>5
<1> QED BY <1>3, <1>4 DEF Greeted

LEMMA SequenceSteps ==
  ASSUME NEW S, NEW s \in Seq(S), NEW e \in S
  PROVE  /\ Append(s, e) \in Seq(S)
         /\ Tail(Append(s, e)) \in Seq(S)
         /\ s # <<>> => Tail(s) \in Seq(S)
<1>1. Append(s, e) \in Seq(S) /\ Append(s, e) # <<>> BY AppendProperties
<1> QED BY <1>1, HeadTailProperties

LEMMA TakeGreetingTypes ==
  ASSUME TypeOK, NEW c \in Calls, Account(c) \in Accounts, TakeGreeting(c)
  PROVE  /\ pool' \in [Accounts -> Entry]
         /\ runtime' \in [Calls -> Runtime]
         /\ greet' \in [Calls -> {"none", "asked", "confirming", "done", "failed"}]
         /\ pc' = pc /\ mutations' = mutations
<1>1. pool' \in [Accounts -> Entry]
  <2>1. [pool[Account(c)] EXCEPT !.initializing = None] \in Entry BY EntryChanges DEF TypeOK
  <2>2. \/ pool' = pool
        \/ pool' = [pool EXCEPT ![Account(c)] = [pool[Account(c)] EXCEPT !.initializing = None]]
    BY DEF TakeGreeting
  <2> QED BY <2>1, <2>2 DEF TypeOK
<1>2. runtime' \in [Calls -> Runtime]
  <2>1. CASE runtime' = runtime BY <2>1 DEF TypeOK
  <2>2. CASE runtime' = [runtime EXCEPT ![holds[c]].greeted = TRUE]
    <3>1. ASSUME NEW r \in Calls PROVE [runtime[r] EXCEPT !.greeted = TRUE] \in Runtime
      BY RuntimeChanges DEF TypeOK
    <3>2. runtime' = [runtime EXCEPT ![holds[c]] = [runtime[holds[c]] EXCEPT !.greeted = TRUE]]
      BY <2>2
    <3> QED BY <3>1, <3>2 DEF TypeOK
  <2> QED BY <2>1, <2>2 DEF TakeGreeting
<1> QED BY <1>1, <1>2 DEF TakeGreeting, TypeOK

LEMMA TakeAnswerTypes ==
  ASSUME TypeOK, NEW c \in Calls, TakeAnswer(c)
  PROVE  /\ pc' \in [Calls -> Pcs] /\ pc'[c] # "idle"
         /\ \A x \in Calls : x # c => pc'[x] = pc[x]
         /\ mutations' \in Seq(Calls)
         /\ greet' = greet /\ pool' = pool /\ runtime' = runtime
<1>1. Goto(c, "ended") \/ Goto(c, "queued") BY DEF TakeAnswer
<1>2. mutations \in Seq(Calls) BY DEF TypeOK
<1>3. mutations' = mutations \/ mutations' = Append(mutations, c) BY DEF TakeAnswer
<1>4. mutations' \in Seq(Calls) BY <1>2, <1>3, SequenceSteps
<1> QED BY <1>1, <1>4 DEF TakeAnswer, Goto, Pcs, TypeOK

LEMMA RetireTypes ==
  ASSUME TypeOK, NEW id \in Ids, Retire(id)
  PROVE  retired' \in [Calls -> Seq(Ids)] /\ log' \in [Calls -> Seq(Ids)]
<1>1. ASSUME NEW r \in Calls
      PROVE  /\ Newest(Append(retired[r], id)) \in Seq(Ids)
             /\ Append(log[r], id) \in Seq(Ids)
  <2>1. retired[r] \in Seq(Ids) /\ log[r] \in Seq(Ids) BY DEF TypeOK
  <2> QED BY <2>1, SequenceSteps DEF Newest
<1> QED BY <1>1 DEF Retire, TypeOK

LEMMA ReadTypes ==
  ASSUME TypeOK, Begun, NEW id \in Ids, Read(id)
  PROVE  TypeOK' /\ Begun'
<1> DEFINE c == id[1]
<1>1. c \in Calls /\ (id \in pending => pc[c] # "idle" /\ Account(c) \in Accounts)
  BY AccountOfBegun DEF Ids, Begun
<1>2. pending' \subseteq pending /\ owed' \subseteq owed /\ start' = start /\ call' = call
  BY DEF Read
<1>3. CASE UNCHANGED <<pending, retired, log, pc, mutations, greet, pool, runtime>>
  <2>1. TypeOK' BY <1>2, <1>3 DEF Read, TypeOK
  <2>2. Begun' BY <1>2, <1>3, BegunStays
  <2> QED BY <2>1, <2>2
<1>4. CASE id \in pending /\ Retire(id) /\ TakeGreeting(id[1])
  <2>1. TypeOK' BY <1>1, <1>2, <1>4, TakeGreetingTypes, RetireTypes DEF Read, TypeOK
  <2>2. pc' = pc BY <1>1, <1>4, TakeGreetingTypes
  <2>3. Begun' BY <1>2, <2>2, BegunStays
  <2> QED BY <2>1, <2>3
<1>5. CASE id \in pending /\ Retire(id) /\ TakeAnswer(id[1])
  <2>1. TypeOK' BY <1>1, <1>2, <1>5, TakeAnswerTypes, RetireTypes DEF Read, TypeOK
  <2>2. pc[c] # "idle" /\ pc'[c] # "idle" /\ \A x \in Calls : x # c => pc'[x] = pc[x]
    BY <1>1, <1>5, TakeAnswerTypes
  <2>3. Begun' BY <1>1, <1>2, <2>2, BegunStays
  <2> QED BY <2>1, <2>3
<1> QED BY <1>3, <1>4, <1>5 DEF Read

LEMMA TimeoutTypes ==
  ASSUME TypeOK, Begun, NEW id \in Ids, Timeout(id)
  PROVE  TypeOK' /\ Begun'
<1> DEFINE c == id[1]
<1>1. c \in Calls /\ pc[c] # "idle" BY DEF Timeout, Ids, Begun
<1>2. pc' \in [Calls -> Pcs] /\ pc'[c] # "idle" /\ \A x \in Calls : x # c => pc'[x] = pc[x]
  BY <1>1 DEF Timeout, Goto, Pcs, TypeOK
<1>3. TypeOK' BY <1>2, RetireTypes DEF Timeout, TypeOK, repoVars, poolVars
<1>4. pending' \subseteq pending /\ start' = start /\ call' = call BY DEF Timeout, poolVars
<1>5. Begun' BY <1>1, <1>2, <1>4, BegunStays
<1> QED BY <1>3, <1>5

LEMMA EndTypes ==
  ASSUME TypeOK, Begun, NEW rs \in SUBSET Calls, NEW p \in [Calls -> Pcs], End(rs, p)
  PROVE  /\ runtime' \in [Calls -> Runtime]
         /\ pending' \subseteq pending /\ owed' \subseteq owed /\ UNCHANGED <<retired, log>>
         /\ pc' \in [Calls -> Pcs]
         /\ \A x \in Calls : p[x] # "idle" <=> pc'[x] # "idle"
<1>1. ASSUME NEW r \in Calls
      PROVE  [runtime[r] EXCEPT !.open = @ /\ r \notin rs] \in Runtime
  <2>1. runtime[r] \in Runtime BY DEF TypeOK
  <2>2. (runtime[r].open /\ r \notin rs) \in BOOLEAN OBVIOUS
  <2> QED BY <2>1, <2>2, RuntimeChanges
<1>2. runtime' \in [Calls -> Runtime] BY <1>1 DEF End
<1>3. pc' \in [Calls -> Pcs] BY DEF End, Pcs
<1> QED BY <1>2, <1>3 DEF End

\* the pool after the end of a runtime of the account
LEMMA ForgottenTypes ==
  ASSUME TypeOK, NEW a \in Accounts
  PROVE  Forgotten(a) \in [Accounts -> Entry]
<1>1. [pool[a] EXCEPT !.loaded = None, !.initialized = FALSE, !.initializing = None] \in Entry
  BY EntryChanges DEF TypeOK
<1>2. Forgotten(a) = [pool EXCEPT ![a] =
        [pool[a] EXCEPT !.loaded = None, !.initialized = FALSE, !.initializing = None]]
  BY DEF Forgotten, TypeOK, Entry
<1> QED BY <1>1, <1>2 DEF TypeOK

LEMMA RemoveTypes ==
  ASSUME TypeOK, Begun, NEW c \in Calls, NEW a \in Accounts, Remove(c, a)
  PROVE  /\ runtime' \in [Calls -> Runtime] /\ pool' \in [Accounts -> Entry]
         /\ pending' \subseteq pending /\ owed' \subseteq owed /\ UNCHANGED <<retired, log>>
         /\ pc' \in [Calls -> Pcs] /\ pc'[c] # "idle"
         /\ \A x \in Calls : x # c => (pc[x] # "idle" <=> pc'[x] # "idle")
         /\ mutations' \in Seq(Calls)
<1>1. {pool[a].loaded} \ {None} \in SUBSET Calls BY EntryFields
<1>2. [pc EXCEPT ![c] = "queued"] \in [Calls -> Pcs] BY DEF TypeOK, Pcs
<1>3. mutations' \in Seq(Calls) BY SequenceSteps DEF Remove, TypeOK
<1>4. pool' \in [Accounts -> Entry] BY ForgottenTypes DEF Remove
<1>5. End({pool[a].loaded} \ {None}, [pc EXCEPT ![c] = "queued"]) BY DEF Remove
<1>6. \A x \in Calls : [pc EXCEPT ![c] = "queued"][x] = IF x = c THEN "queued" ELSE pc[x]
  BY DEF TypeOK
<1> QED BY <1>1, <1>2, <1>3, <1>4, <1>5, <1>6, EndTypes

LEMMA DeleteTypes ==
  ASSUME TypeOK, Begun, NEW c \in Calls, NEW a \in Accounts, Delete(c, a)
  PROVE  TypeOK' /\ Begun'
<1>1. call' \in [Calls -> Call \cup {None}] /\ call'[c] \in Call
  BY DEF Delete, Begin, TypeOK, Call, Kinds
<1>2. pc[c] = "idle" /\ \A x \in Calls : x # c => call'[x] = call[x]
  BY DEF Delete, Begin, TypeOK
<1>3. start' = start BY DEF Delete
<1>4. CASE Remove(c, a) /\ UNCHANGED awaits
  <2>1. TypeOK' BY <1>1, <1>4, RemoveTypes DEF Delete, TypeOK
  <2>2. Begun' BY <1>1, <1>2, <1>3, <1>4, RemoveTypes, BegunKept
  <2> QED BY <2>1, <2>2
<1>5. CASE /\ pool[a].starting # None
           /\ Await(c, pool[a].starting, "removing")
           /\ UNCHANGED <<pool, runtime, mutations, brokerVars>>
  <2>1. pool[a].starting \in Calls BY <1>5, EntryFields
  <2>2. /\ pc' \in [Calls -> Pcs] /\ pc'[c] # "idle" /\ awaits' \in [Calls -> Calls \cup {None}]
        /\ \A x \in Calls : x # c => pc'[x] = pc[x]
    BY <1>5, <2>1 DEF Await, Goto, Pcs, TypeOK
  <2>3. TypeOK' BY <1>1, <1>5, <2>2 DEF Delete, TypeOK, brokerVars
  <2>4. pending' = pending BY <1>5 DEF brokerVars
  <2>5. Begun' BY <1>1, <1>2, <1>3, <2>2, <2>4, BegunKept
  <2> QED BY <2>3, <2>5
<1> QED BY <1>4, <1>5 DEF Delete

LEMMA DeleteStartedTypes ==
  ASSUME TypeOK, Begun, NEW c \in Calls, DeleteStarted(c)
  PROVE  TypeOK' /\ Begun'
<1>1. pc[c] # "idle" /\ Account(c) \in Accounts BY AccountOfBegun DEF DeleteStarted
<1>2. start' = start /\ call' = call /\ awaits' \in [Calls -> Calls \cup {None}]
  BY DEF DeleteStarted, TypeOK
<1>3. CASE Remove(c, Account(c))
  <2>1. TypeOK' BY <1>1, <1>2, <1>3, RemoveTypes DEF DeleteStarted, TypeOK
  <2>2. Begun' BY <1>1, <1>2, <1>3, RemoveTypes, BegunStays
  <2> QED BY <2>1, <2>2
<1>4. CASE Goto(c, "failed") /\ UNCHANGED <<pool, runtime, mutations, brokerVars>>
  <2>1. pc' \in [Calls -> Pcs] /\ pc'[c] # "idle" /\ \A x \in Calls : x # c => pc'[x] = pc[x]
    BY <1>4 DEF Goto, Pcs, TypeOK
  <2>2. TypeOK' BY <1>2, <1>4, <2>1 DEF DeleteStarted, TypeOK, brokerVars
  <2>3. pending' = pending BY <1>4 DEF brokerVars
  <2>4. Begun' BY <1>1, <1>2, <2>1, <2>3, BegunStays
  <2> QED BY <2>2, <2>4
<1> QED BY <1>3, <1>4 DEF DeleteStarted

LEMMA MutationTypes ==
  ASSUME TypeOK, Begun, NEW c \in Calls, Mutate(c) \/ Written(c)
  PROVE  TypeOK' /\ Begun'
<1>1. pc[c] # "idle" /\ Account(c) \in Accounts BY AccountOfBegun DEF Mutate, Written
<1>2. mutations # <<>> /\ (mutations' = mutations \/ mutations' = Tail(mutations))
  BY DEF Mutate, Written
<1>3. mutations' \in Seq(Calls)
  <2>1. mutations \in Seq(Calls) BY DEF TypeOK
  <2> QED BY <1>2, <2>1, HeadTailProperties
<1>4. Goto(c, "writing") \/ Goto(c, "failed") \/ Goto(c, "ended") BY DEF Mutate, Written
<1>5. pc' \in [Calls -> Pcs] /\ pc'[c] # "idle" /\ \A x \in Calls : x # c => pc'[x] = pc[x]
  BY <1>4 DEF Goto, Pcs, TypeOK
<1>6. repo' \subseteq Accounts BY <1>1 DEF Mutate, Written, TypeOK
<1>7. TypeOK' BY <1>3, <1>5, <1>6 DEF Mutate, Written, TypeOK, poolVars, brokerVars
<1>8. start' = start /\ call' = call /\ pending' = pending
  BY DEF Mutate, Written, poolVars, brokerVars
<1>9. Begun' BY <1>1, <1>5, <1>8, BegunStays
<1> QED BY <1>7, <1>9

LEMMA ClosingTypes == ASSUME TypeOK PROVE Closing \in Phase
BY EntryFields DEF Closing, Phase

LEMMA CloseTypes ==
  ASSUME TypeOK, Begun, Close \/ CloseRuntimes
  PROVE  TypeOK' /\ Begun'
<1>1. CASE Close
  <2>1. TypeOK' BY <1>1, ClosingTypes DEF Close, TypeOK, repoVars, brokerVars
  <2> QED BY <1>1, <2>1, BegunQuiet DEF Close, brokerVars
<1>2. CASE CloseRuntimes
  <2>1. {r \in Calls : runtime[r].open} \in SUBSET Calls OBVIOUS
  <2>2. End({r \in Calls : runtime[r].open}, pc) /\ pc \in [Calls -> Pcs]
    BY <1>2 DEF CloseRuntimes, TypeOK
  <2>3. pool' \in [Accounts -> Entry]
    <3>1. ASSUME NEW a \in Accounts
          PROVE  [pool[a] EXCEPT !.loaded = None, !.initialized = FALSE,
                                 !.initializing = None] \in Entry
      BY EntryChanges DEF TypeOK
    <3> QED BY <1>2, <3>1 DEF CloseRuntimes
  <2>4. closing' \in Phase BY <1>2 DEF CloseRuntimes, Phase
  <2>5. start' = start /\ call' = call BY <1>2 DEF CloseRuntimes
  <2>6. TypeOK' BY <1>2, <2>1, <2>2, <2>3, <2>4, EndTypes DEF CloseRuntimes, TypeOK, repoVars
  <2>7. Begun' BY <2>1, <2>2, <2>5, EndTypes, BegunStays
  <2> QED BY <2>6, <2>7
<1> QED BY <1>1, <1>2

LEMMA ExitTypes ==
  ASSUME TypeOK, Begun, NEW r \in Calls, start[r] # "none", Exit(r)
  PROVE  TypeOK' /\ Begun'
<1>1. Account(r) \in Accounts BY AccountOfBegun DEF Begun
<1>2. End({r}, pc) /\ pc \in [Calls -> Pcs] BY DEF Exit, TypeOK
<1>3. pool' \in [Accounts -> Entry] BY <1>1, ForgottenTypes DEF Exit, TypeOK
<1>4. closing' \in Phase BY ClosingTypes DEF Exit, TypeOK
<1>5. start' = start /\ call' = call BY DEF Exit
<1>6. TypeOK' BY <1>2, <1>3, <1>4, EndTypes DEF Exit, TypeOK, repoVars
<1>7. Begun' BY <1>2, <1>5, EndTypes, BegunStays
<1> QED BY <1>6, <1>7

-----------------------------------------------------------------------------
(* The inductive invariant *)

\* A call stays what it is.
Stays ==
  \A x \in Calls : pc[x] # "idle" => call'[x] = call[x] /\ pc'[x] # "idle"

\* What starts and ends no runtime leaves the pool's account of them alone.
Quiet ==
  /\ call' = call /\ start' = start /\ closing' = closing /\ removed' = removed
  /\ params' = params
  /\ \A a \in Accounts : pool'[a].starting = pool[a].starting /\ pool'[a].loaded = pool[a].loaded
  /\ \A r \in Calls : runtime'[r].open = runtime[r].open
  /\ \A r \in Calls : runtime[r].greeted => runtime'[r].greeted

QuietStep ==
  \/ \E c \in Calls : \/ Loaded(c) \/ Confirmed(c) \/ GreetFails(c) \/ Greeted(c)
                      \/ AnswerDesktop(c) \/ Mutate(c) \/ Written(c)
  \/ \E id \in Ids : Read(id) \/ Timeout(id)

\* what a change of the pool does to each account
LEMMA EntryEffects ==
  ASSUME NEW e \in Entry, NEW c
  PROVE  LET f == [e EXCEPT !.starting = c]
             g == [e EXCEPT !.starting = None, !.loaded = c]
             h == [e EXCEPT !.initializing = c]
             j == [e EXCEPT !.loaded = None, !.initialized = FALSE, !.initializing = None]
         IN  /\ f.starting = c /\ f.loaded = e.loaded
             /\ f.initialized = e.initialized /\ f.initializing = e.initializing
             /\ g.starting = None /\ g.loaded = c
             /\ g.initialized = e.initialized /\ g.initializing = e.initializing
             /\ h.starting = e.starting /\ h.loaded = e.loaded
             /\ h.initialized = e.initialized /\ h.initializing = c
             /\ j.starting = e.starting /\ j.loaded = None
             /\ j.initialized = FALSE /\ j.initializing = None
BY DEF Entry

LEMMA InitializingSet ==
  ASSUME TypeOK, NEW a \in Accounts, NEW c, pool' = [pool EXCEPT ![a].initializing = c],
         NEW x \in Accounts
  PROVE  /\ pool'[x].starting = pool[x].starting /\ pool'[x].loaded = pool[x].loaded
         /\ pool'[x].initialized = pool[x].initialized
         /\ pool'[x].initializing = IF x = a THEN c ELSE pool[x].initializing
<1>1. pool[a] \in Entry /\ pool \in [Accounts -> Entry] BY DEF TypeOK
<1>2. pool' = [pool EXCEPT ![a] = [pool[a] EXCEPT !.initializing = c]] OBVIOUS
<1> QED BY <1>1, <1>2, EntryEffects

LEMMA InitializedSet ==
  ASSUME TypeOK, NEW a \in Accounts,
         pool' = [pool EXCEPT ![a].initialized = TRUE, ![a].initializing = None],
         NEW x \in Accounts
  PROVE  /\ pool'[x].starting = pool[x].starting /\ pool'[x].loaded = pool[x].loaded
         /\ pool'[x].initialized = IF x = a THEN TRUE ELSE pool[x].initialized
         /\ pool'[x].initializing = IF x = a THEN None ELSE pool[x].initializing
<1>1. pool[a] \in Entry /\ pool \in [Accounts -> Entry] BY DEF TypeOK
<1> DEFINE e == [pool[a] EXCEPT !.initialized = TRUE, !.initializing = None]
<1>2. pool' = [pool EXCEPT ![a] = e] BY <1>1 DEF Entry
<1>3. /\ e.starting = pool[a].starting /\ e.loaded = pool[a].loaded
      /\ e.initialized = TRUE /\ e.initializing = None
  BY <1>1 DEF Entry
<1> HIDE DEF e
<1> QED BY <1>1, <1>2, <1>3

LEMMA LessInitializing ==
  ASSUME TypeOK, NEW a \in Accounts,
         \/ pool' = pool
         \/ pool' = [pool EXCEPT ![a].initializing = None]
         \/ pool' = [pool EXCEPT ![a].initialized = TRUE, ![a].initializing = None]
  PROVE  \A x \in Accounts, c \in Calls : pool'[x].initializing = c => pool[x].initializing = c
<1> SUFFICES ASSUME NEW x \in Accounts, NEW c \in Calls, pool'[x].initializing = c
             PROVE  pool[x].initializing = c
  OBVIOUS
<1>1. c # None BY NoneIsNothing
<1>2. \/ pool'[x].initializing = pool[x].initializing
      \/ pool'[x].initializing = None
  <2>1. CASE pool' = pool BY <2>1
  <2>2. CASE pool' = [pool EXCEPT ![a].initializing = None]
    <3>1. pool[a] \in Entry /\ pool \in [Accounts -> Entry] BY DEF TypeOK
    <3>2. [pool[a] EXCEPT !.initializing = None].initializing = None BY <3>1 DEF Entry
    <3> QED BY <2>2, <3>1, <3>2
  <2>3. CASE pool' = [pool EXCEPT ![a].initialized = TRUE, ![a].initializing = None]
    <3>1. pool'[x].initializing = IF x = a THEN None ELSE pool[x].initializing
      BY <2>3, InitializedSet
    <3> QED BY <3>1
  <2> QED BY <2>1, <2>2, <2>3
<1> QED BY <1>1, <1>2

LEMMA StartingSet ==
  ASSUME TypeOK, NEW a \in Accounts, NEW c, pool' = [pool EXCEPT ![a].starting = c],
         NEW x \in Accounts
  PROVE  /\ pool'[x].starting = IF x = a THEN c ELSE pool[x].starting
         /\ pool'[x].loaded = pool[x].loaded
         /\ pool'[x].initialized = pool[x].initialized
         /\ pool'[x].initializing = pool[x].initializing
<1>1. pool[a] \in Entry /\ pool \in [Accounts -> Entry] BY DEF TypeOK
<1>2. pool' = [pool EXCEPT ![a] = [pool[a] EXCEPT !.starting = c]] OBVIOUS
<1> QED BY <1>1, <1>2, EntryEffects

LEMMA LoadedSet ==
  ASSUME TypeOK, NEW a \in Accounts, NEW c,
         pool' = [pool EXCEPT ![a].starting = None, ![a].loaded = c],
         NEW x \in Accounts
  PROVE  /\ pool'[x].starting = IF x = a THEN None ELSE pool[x].starting
         /\ pool'[x].loaded = IF x = a THEN c ELSE pool[x].loaded
         /\ pool'[x].initialized = pool[x].initialized
         /\ pool'[x].initializing = pool[x].initializing
<1>1. pool[a] \in Entry /\ pool \in [Accounts -> Entry] BY DEF TypeOK
<1>2. pool' = [pool EXCEPT ![a] = [pool[a] EXCEPT !.starting = None, !.loaded = c]]
  BY <1>1 DEF Entry
<1> QED BY <1>1, <1>2, EntryEffects

LEMMA ForgottenSet ==
  ASSUME TypeOK, NEW a \in Accounts, NEW x \in Accounts
  PROVE  /\ Forgotten(a)[x].starting = pool[x].starting
         /\ Forgotten(a)[x].loaded = IF x = a THEN None ELSE pool[x].loaded
         /\ Forgotten(a)[x].initialized = IF x = a THEN FALSE ELSE pool[x].initialized
         /\ Forgotten(a)[x].initializing = IF x = a THEN None ELSE pool[x].initializing
<1>1. pool[a] \in Entry /\ pool \in [Accounts -> Entry] BY DEF TypeOK
<1>2. Forgotten(a) = [pool EXCEPT ![a] =
        [pool[a] EXCEPT !.loaded = None, !.initialized = FALSE, !.initializing = None]]
  BY <1>1 DEF Forgotten, Entry
<1> QED BY <1>1, <1>2, EntryEffects

\* what a change of a runtime does
LEMMA RuntimeEffects ==
  ASSUME NEW e \in Runtime, NEW b \in BOOLEAN
  PROVE  /\ [e EXCEPT !.open = b].open = b /\ [e EXCEPT !.open = b].greeted = e.greeted
         /\ [e EXCEPT !.greeted = b].greeted = b /\ [e EXCEPT !.greeted = b].open = e.open
BY DEF Runtime

LEMMA OpenSet ==
  ASSUME TypeOK, NEW c \in Calls, runtime' = [runtime EXCEPT ![c].open = TRUE], NEW r \in Calls
  PROVE  /\ runtime'[r].open <=> r = c \/ runtime[r].open
         /\ runtime'[r].greeted = runtime[r].greeted
<1>1. runtime[c] \in Runtime /\ runtime \in [Calls -> Runtime] BY DEF TypeOK
<1>2. runtime' = [runtime EXCEPT ![c] = [runtime[c] EXCEPT !.open = TRUE]] OBVIOUS
<1> QED BY <1>1, <1>2, RuntimeEffects

LEMMA GreetedSet ==
  ASSUME TypeOK, NEW c \in Calls, runtime' = [runtime EXCEPT ![c].greeted = TRUE], NEW r \in Calls
  PROVE  /\ runtime'[r].open = runtime[r].open
         /\ runtime'[r].greeted <=> r = c \/ runtime[r].greeted
<1>1. runtime[c] \in Runtime /\ runtime \in [Calls -> Runtime] BY DEF TypeOK
<1>2. runtime' = [runtime EXCEPT ![c] = [runtime[c] EXCEPT !.greeted = TRUE]] OBVIOUS
<1> QED BY <1>1, <1>2, RuntimeEffects

LEMMA Ended ==
  ASSUME TypeOK, NEW rs \in SUBSET Calls, NEW p, End(rs, p), NEW r \in Calls
  PROVE  /\ runtime'[r].open <=> runtime[r].open /\ r \notin rs
         /\ runtime'[r].greeted = runtime[r].greeted
<1> DEFINE b == runtime[r].open /\ r \notin rs
<1>1. runtime[r] \in Runtime BY DEF TypeOK
<1>2. runtime'[r] = [runtime[r] EXCEPT !.open = b] BY DEF End
<1>3. b \in BOOLEAN OBVIOUS
<1> HIDE DEF b
<1>4. runtime'[r].open = b /\ runtime'[r].greeted = runtime[r].greeted
  BY <1>1, <1>2, <1>3, RuntimeEffects
<1> QED BY <1>4 DEF b

LEMMA GreeterAccount ==
  ASSUME IInv, NEW c \in Calls, greet[c] # "none" \/ <<c, "greet">> \in pending
  PROVE  Account(c) \in Accounts /\ holds[c] \in Calls
<1>1. pc[c] # "idle" /\ holds[c] \in Calls BY DEF IInv, Promises, Holds
<1> QED BY <1>1, AccountOfBegun DEF IInv

LEMMA QuietSteps == ASSUME IInv, QuietStep PROVE Quiet
<1> DEFINE SamePool == \A a \in Accounts : /\ pool'[a].starting = pool[a].starting
                                           /\ pool'[a].loaded = pool[a].loaded
           SameRuntimes == \A r \in Calls : /\ runtime'[r].open = runtime[r].open
                                            /\ runtime[r].greeted => runtime'[r].greeted
<1>1. TypeOK /\ Begun BY DEF IInv
<1>3. ASSUME NEW c \in Calls, Loaded(c) PROVE Quiet
  <2>1. Account(c) \in Accounts BY <1>1, <1>3, AccountOfBegun DEF Loaded
  <2>2. pool' = pool \/ pool' = [pool EXCEPT ![Account(c)].initializing = c]
    BY <1>3 DEF Loaded, Ensure
  <2>3. SamePool BY <1>1, <2>1, <2>2, InitializingSet
  <2> QED BY <1>3, <2>3 DEF Loaded, Quiet
<1>4. ASSUME NEW c \in Calls, Confirmed(c) \/ GreetFails(c) PROVE Quiet
  <2>1. Account(c) \in Accounts BY <1>4, GreeterAccount DEF Confirmed, GreetFails
  <2>2. \/ pool' = [pool EXCEPT ![Account(c)].initializing = None]
        \/ pool' = [pool EXCEPT ![Account(c)].initialized = TRUE, ![Account(c)].initializing = None]
    BY <1>4 DEF Confirmed, GreetFails
  <2>3. SamePool BY <1>1, <2>1, <2>2, InitializingSet, InitializedSet
  <2> QED BY <1>4, <2>3 DEF Confirmed, GreetFails, Quiet
<1>5. ASSUME NEW c \in Calls, Greeted(c) \/ AnswerDesktop(c) \/ Mutate(c) \/ Written(c)
      PROVE  Quiet
  BY <1>5 DEF Greeted, AnswerDesktop, Mutate, Written, poolVars, Quiet
<1>6. ASSUME NEW id \in Ids, Timeout(id) PROVE Quiet
  BY <1>6 DEF Timeout, poolVars, Quiet
<1>7. ASSUME NEW id \in Ids, Read(id) PROVE Quiet
  <2>1. CASE pool' = pool /\ runtime' = runtime BY <1>7, <2>1 DEF Read, Quiet
  <2>2. CASE id \in pending /\ id[2] = "greet" /\ TakeGreeting(id[1])
    <3>1. id[1] \in Calls /\ <<id[1], "greet">> \in pending BY <2>2 DEF Ids
    <3>2. Account(id[1]) \in Accounts /\ holds[id[1]] \in Calls BY <3>1, GreeterAccount
    <3>3. pool' = pool \/ pool' = [pool EXCEPT ![Account(id[1])].initializing = None]
      BY <2>2 DEF TakeGreeting
    <3>4. runtime' = runtime \/ runtime' = [runtime EXCEPT ![holds[id[1]]].greeted = TRUE]
      BY <2>2 DEF TakeGreeting
    <3>5. SamePool BY <1>1, <3>2, <3>3, InitializingSet
    <3>6. SameRuntimes BY <1>1, <3>2, <3>4, GreetedSet
    <3> QED BY <1>7, <3>5, <3>6 DEF Read, Quiet
  <2> QED BY <1>7, <2>1, <2>2 DEF Read, TakeAnswer
<1> QED BY <1>3, <1>4, <1>5, <1>6, <1>7 DEF QuietStep

LEMMA InitInductive == Init => IInv
<1> SUFFICES ASSUME Init PROVE IInv OBVIOUS
<1>1. TypeOK /\ Begun BY InitTypes
<1>2. Starts BY NoneIsNothing DEF Init, Starts, Empty
<1>3. Runtimes BY NoneIsNothing DEF Init, Runtimes, Empty
<1>4. Deletions BY DEF Init, Deletions
<1>5. Promises BY NoneIsNothing DEF Init, Promises, Empty
<1>6. Greetings BY DEF Init, Greetings, Empty
<1> QED BY <1>1, <1>2, <1>3, <1>4, <1>5, <1>6 DEF IInv

LEMMA QuietTypes == ASSUME IInv, QuietStep PROVE TypeOK' /\ Begun'
<1>1. TypeOK /\ Begun BY DEF IInv
<1>2. ASSUME NEW c \in Calls, Loaded(c) PROVE awaits[c] \in Calls
  BY <1>2 DEF Loaded, IInv, Promises, Waits
<1>3. ASSUME NEW c \in Calls PROVE greet[c] # "none" => pc[c] # "idle"
  BY DEF IInv, Promises, Holds
<1>4. ASSUME NEW c \in Calls, Greeted(c) PROVE holds[c] \in Calls
  BY <1>4 DEF Greeted, IInv, Promises, Holds
<1>5. ASSUME NEW c \in Calls, AnswerDesktop(c) PROVE TypeOK' /\ Begun'
  <2>1. TypeOK' BY <1>1, <1>5 DEF AnswerDesktop, TypeOK, repoVars, poolVars, brokerVars
  <2>2. Begun' BY <1>1, <1>5, BegunQuiet DEF AnswerDesktop, poolVars, brokerVars
  <2> QED BY <2>1, <2>2
<1> QED BY <1>1, <1>2, <1>3, <1>4, <1>5, LoadedTypes, GreetTypes, GreetedTypes, MutationTypes,
           ReadTypes, TimeoutTypes DEF QuietStep

LEMMA QuietPool == ASSUME IInv, Quiet PROVE Starts' /\ Runtimes'
<1>1. \A c \in Calls : Account(c)' = Account(c) BY DEF Quiet, Account
<1>2. Closed' = Closed BY DEF Quiet, Closed
<1>3. \A c \in Calls : start[c] = "connecting" => Account(c) \in Accounts
  BY AccountOfBegun DEF IInv, Begun
<1>4. \A r \in Calls : runtime[r].open => Account(r) \in Accounts
  BY AccountOfBegun DEF IInv, Begun, Runtimes
<1>5. Starts' BY <1>1, <1>2, <1>3 DEF Quiet, IInv, Starts
<1>6. Runtimes' BY <1>1, <1>2, <1>4 DEF Quiet, IInv, Runtimes
<1> QED BY <1>5, <1>6

\* only calls under way go on, and none of these steps waits for a removal
LEMMA QuietCalls ==
  ASSUME IInv, QuietStep
  PROVE  \A x \in Calls : /\ pc[x] # "idle" => pc'[x] # "idle"
                          /\ pc'[x] = "removing" => pc[x] = "removing"
<1>1. pc \in [Calls -> Pcs] BY DEF IInv, TypeOK
<1>2. ASSUME NEW c \in Calls, Loaded(c) \/ Greeted(c)
      PROVE  \A x \in Calls : pc'[x] = pc[x] \/ pc'[x] \in {"ended", "failed", "asking", "greeting"}
  BY <1>1, <1>2 DEF Loaded, Greeted, Ensure, Use, Resume, Await, Goto
<1>3. ASSUME NEW c \in Calls, Mutate(c) \/ Written(c)
      PROVE  \A x \in Calls : pc'[x] = pc[x] \/ pc'[x] \in {"ended", "failed", "writing"}
  BY <1>1, <1>3 DEF Mutate, Written, Goto
<1>4. ASSUME NEW id \in Ids, Read(id) \/ Timeout(id)
      PROVE  \A x \in Calls : pc'[x] = pc[x] \/ pc'[x] \in {"ended", "failed", "queued"}
  BY <1>1, <1>4 DEF Read, Timeout, TakeGreeting, TakeAnswer, Goto
<1>5. ASSUME NEW c \in Calls, Confirmed(c) \/ GreetFails(c) \/ AnswerDesktop(c) PROVE pc' = pc
  BY <1>5 DEF Confirmed, GreetFails, AnswerDesktop
<1> QED BY <1>2, <1>3, <1>4, <1>5 DEF QuietStep

\* a request of the Desktop reaches only what runs
LEMMA QuietAsked ==
  ASSUME IInv, QuietStep, NEW r \in Calls, asked'[r] # {}
  PROVE  asked[r] # {} \/ runtime[r].open
<1>1. asked \in [Calls -> SUBSET Calls] BY DEF IInv, TypeOK
<1>2. ASSUME NEW c \in Calls, NEW s, Use(c, s) PROVE asked[r] # {} \/ runtime[r].open
  BY <1>1, <1>2 DEF Use
<1>3. ASSUME NEW c \in Calls, AnswerDesktop(c) PROVE asked[r] # {}
  BY <1>1, <1>3 DEF AnswerDesktop
<1>4. CASE asked' = asked BY <1>4
<1> QED BY <1>2, <1>3, <1>4 DEF QuietStep, Loaded, Ensure, Confirmed, GreetFails, Greeted, Mutate,
                                Written, Read, Timeout

LEMMA QuietDeletions == ASSUME IInv, QuietStep PROVE Deletions'
<1>1. Quiet BY QuietSteps
<1>2. \A c \in Calls : Account(c)' = Account(c) BY <1>1 DEF Quiet, Account
<1>3. Closed' = Closed BY <1>1 DEF Quiet, Closed
<1>4. \A c \in Calls : pc'[c] = "removing" => call'[c].kind = "delete" /\ Account(c)' \in removed'
  BY <1>1, <1>2, QuietCalls DEF Quiet, IInv, Deletions
<1>5. \A a \in removed' : \E c \in Calls :
        pc'[c] # "idle" /\ call'[c] = [kind |-> "delete", account |-> a]
  BY <1>1, QuietCalls DEF Quiet, IInv, Deletions
<1>6. ASSUME NEW r \in Calls, asked'[r] # {}
      PROVE  start'[r] = "done" /\ (runtime'[r].open \/ Closed' \/ Account(r)' \in removed')
  <2>1. asked[r] # {} \/ runtime[r].open BY <1>6, QuietAsked
  <2> QED BY <1>1, <1>2, <1>3, <2>1 DEF Quiet, IInv, Deletions, Runtimes
<1> QED BY <1>4, <1>5, <1>6 DEF Deletions

\* Promises is kept where every change is one that it allows
LEMMA PromisesKept ==
  ASSUME IInv,
         \A x \in Calls : pc[x] # "idle" => Account(x)' = Account(x) /\ pc'[x] # "idle",
         \A x \in Calls : start[x] # "none" => start'[x] # "none",
         \A x \in Calls : start[x] = "done" => start'[x] = "done",
         \A x \in Calls : greet[x] # "none" => greet'[x] # "none" /\ holds'[x] = holds[x],
         \A x \in Calls : pc[x] \notin {"idle", "loading"} => pc'[x] \notin {"idle", "loading"},
         \A x \in Calls : pc'[x] = "loading" =>
           (pc[x] = "loading" /\ awaits'[x] = awaits[x]) \/ (Waits(x)' /\ start'[awaits'[x]] # "none"),
         \A x \in Calls : pc'[x] = "greeting" =>
           \/ pc[x] = "greeting" /\ awaits'[x] = awaits[x] /\ holds'[x] = holds[x]
           \/ Holds(x)' /\ Waits(x)' /\ greet'[awaits'[x]] # "none",
         \A x \in Calls : greet'[x] # "none" => greet[x] # "none" \/ Holds(x)',
         \A x \in Calls : <<x, "greet">> \in pending' => <<x, "greet">> \in pending \/ greet'[x] # "none",
         \A a \in Accounts, x \in Calls : pool'[a].initializing = x =>
           pool[a].initializing = x \/ (greet'[x] # "none" /\ Account(x)' = a)
  PROVE  Promises'
<1>1. \A x \in Calls : start[x] # "none" => pc[x] # "idle" BY DEF IInv, Begun
<1>2. \A x \in Calls : Holds(x) => pc[x] # "idle" /\ pc[holds[x]] # "idle"
  BY <1>1 DEF Holds
<1>3. \A x \in Calls : Holds(x) /\ holds'[x] = holds[x] => Holds(x)' BY <1>2 DEF Holds
<1>4. \A x \in Calls : greet[x] # "none" => Holds(x) BY DEF IInv, Promises
<1>5. \A x \in Calls : Waits(x) /\ pc[x] # "idle" /\ pc[awaits[x]] # "idle" /\ awaits'[x] = awaits[x]
        => Waits(x)'
  BY DEF Waits
<1>6. ASSUME NEW x \in Calls, pc'[x] = "loading" PROVE Waits(x)' /\ start'[awaits'[x]] # "none"
  <2>1. CASE pc[x] = "loading" /\ awaits'[x] = awaits[x]
    <3>1. Waits(x) /\ start[awaits[x]] # "none" /\ awaits[x] \in Calls
      BY <2>1 DEF IInv, Promises, Waits
    <3> QED BY <2>1, <3>1, <1>1, <1>5
  <2> QED BY <1>6, <2>1
<1>7. ASSUME NEW x \in Calls, pc'[x] = "greeting"
      PROVE  Holds(x)' /\ Waits(x)' /\ greet'[awaits'[x]] # "none"
  <2>1. CASE pc[x] = "greeting" /\ awaits'[x] = awaits[x] /\ holds'[x] = holds[x]
    <3>1. Holds(x) /\ Waits(x) /\ greet[awaits[x]] # "none" /\ awaits[x] \in Calls
      BY <2>1 DEF IInv, Promises, Waits
    <3>2. pc[awaits[x]] # "idle" BY <3>1, <1>4, <1>2
    <3> QED BY <2>1, <3>1, <3>2, <1>3, <1>5
  <2> QED BY <1>7, <2>1
<1>8. \A x \in Calls : greet'[x] # "none" => Holds(x)' BY <1>3, <1>4
<1>9. \A x \in Calls : <<x, "greet">> \in pending' => greet'[x] # "none" BY DEF IInv, Promises
<1>10. \A a \in Accounts, x \in Calls : pool'[a].initializing = x => greet'[x] # "none" /\ Account(x)' = a
  BY <1>2, <1>4 DEF IInv, Promises
<1> QED BY <1>6, <1>7, <1>8, <1>9, <1>10 DEF Promises

LEMMA QuietPromises == ASSUME IInv, QuietStep PROVE Promises'
<1>1. Quiet BY QuietSteps
<1>2. \A c \in Calls : Account(c)' = Account(c) BY <1>1 DEF Quiet, Account
<1>3. TypeOK /\ Begun BY DEF IInv
<1>4. pc \in [Calls -> Pcs] /\ greet \in [Calls -> {"none", "asked", "confirming", "done", "failed"}]
      /\ holds \in [Calls -> Calls \cup {None}] /\ awaits \in [Calls -> Calls \cup {None}]
  BY <1>3 DEF TypeOK
<1>5. \A x \in Calls : /\ pc[x] # "idle" => pc'[x] # "idle"
                       /\ start'[x] = start[x]
  BY <1>1, QuietCalls DEF Quiet
<1>6. ASSUME NEW c \in Calls, Loaded(c) PROVE Promises'
  <2>1. pc[c] = "loading" /\ Waits(c) /\ greet[c] = "none"
    BY <1>4, <1>6 DEF Loaded, IInv, Promises, Holds
  <2>2. Account(c) \in Accounts BY <1>3, <2>1, AccountOfBegun
  <2>3. \A x \in Calls : x # c => pc'[x] = pc[x] /\ awaits'[x] = awaits[x] /\ holds'[x] = holds[x]
                                 /\ greet'[x] = greet[x]
    BY <1>4, <1>6 DEF Loaded, Ensure, Use, Resume, Await, Goto
  <2>4. CASE Resume(c, "failed") /\ UNCHANGED <<holds, pool, greet, brokerVars, asked>>
    <3>1. pc'[c] = "failed" /\ pending' = pending BY <1>4, <2>4 DEF Resume, Await, Goto, brokerVars
    <3> QED BY <1>2, <1>5, <2>3, <2>4, <3>1, PromisesKept
  <2>5. CASE /\ start[awaits[c]] = "done" /\ holds' = [holds EXCEPT ![c] = awaits[c]]
             /\ Ensure(c, awaits[c])
    <3>1. pc'[c] \notin {"idle", "loading"} => Holds(c)'
      BY <1>2, <1>4, <1>5, <2>1, <2>5 DEF Holds, Waits
    <3>2. CASE Use(c, awaits[c]) /\ UNCHANGED <<pool, greet>>
      <4>1. pc'[c] \in {"ended", "failed", "asking"}
        BY <1>4, <3>2 DEF Use, Resume, Await, Goto
      <4>2. \A x \in Calls : <<x, "greet">> \in pending' => <<x, "greet">> \in pending
        BY <3>2 DEF Use, Send, brokerVars
      <4> QED BY <1>2, <1>5, <2>1, <2>3, <3>2, <4>1, <4>2, PromisesKept
    <3>3. CASE /\ pool[Account(c)].initializing # None
               /\ Await(c, pool[Account(c)].initializing, "greeting")
               /\ UNCHANGED <<pool, greet, brokerVars, asked>>
      <4> DEFINE g == pool[Account(c)].initializing
      <4>1. g \in Calls /\ greet[g] # "none" /\ Account(g) = Account(c)
        BY <1>3, <2>2, <3>3, EntryFields DEF IInv, Promises
      <4>2. pc'[c] = "greeting" /\ awaits'[c] = g BY <1>4, <3>3 DEF Await, Goto
      <4>3. Waits(c)' /\ greet'[awaits'[c]] # "none" BY <1>2, <3>3, <4>1, <4>2 DEF Waits
      <4>4. pending' = pending BY <3>3 DEF brokerVars
      <4> QED BY <1>2, <1>5, <2>1, <2>3, <3>1, <3>3, <4>2, <4>3, <4>4, PromisesKept
    <3>4. CASE /\ pool' = [pool EXCEPT ![Account(c)].initializing = c]
               /\ greet' = [greet EXCEPT ![c] = "asked"]
               /\ Send(<<c, "greet">>, awaits[c])
               /\ Await(c, c, "greeting")
      <4>1. pc'[c] = "greeting" /\ awaits'[c] = c /\ greet'[c] = "asked"
        BY <1>4, <3>4 DEF Await, Goto
      <4>2. Waits(c)' /\ greet'[awaits'[c]] # "none" BY <4>1 DEF Waits
      <4>3. \A x \in Calls : <<x, "greet">> \in pending' => <<x, "greet">> \in pending \/ x = c
        BY <3>4 DEF Send
      <4>4. \A a \in Accounts, x \in Calls : pool'[a].initializing = x =>
              pool[a].initializing = x \/ (x = c /\ a = Account(c))
        BY <1>3, <2>2, <3>4, InitializingSet
      <4> QED BY <1>2, <1>5, <2>1, <2>3, <3>1, <4>1, <4>2, <4>3, <4>4, PromisesKept
    <3> QED BY <2>5, <3>2, <3>3, <3>4 DEF Ensure
  <2> QED BY <1>6, <2>4, <2>5 DEF Loaded
<1>7. ASSUME NEW c \in Calls, Confirmed(c) \/ GreetFails(c) PROVE Promises'
  <2>1. Account(c) \in Accounts BY <1>7, GreeterAccount DEF Confirmed, GreetFails
  <2>2. \/ pool' = [pool EXCEPT ![Account(c)].initializing = None]
        \/ pool' = [pool EXCEPT ![Account(c)].initialized = TRUE, ![Account(c)].initializing = None]
    BY <1>7 DEF Confirmed, GreetFails
  <2>3. \A a \in Accounts, x \in Calls :
          pool'[a].initializing = x => pool[a].initializing = x
    BY <1>3, <2>1, <2>2, LessInitializing
  <2>4. UNCHANGED <<pc, awaits, holds, pending>> BY <1>7 DEF Confirmed, GreetFails, brokerVars
  <2>5. \A x \in Calls : greet[x] # "none" <=> greet'[x] # "none"
    BY <1>4, <1>7 DEF Confirmed, GreetFails
  <2> QED BY <1>2, <1>5, <2>3, <2>4, <2>5, PromisesKept
<1>8. ASSUME NEW c \in Calls, Greeted(c) PROVE Promises'
  <2>1. \A x \in Calls : x # c => pc'[x] = pc[x] /\ awaits'[x] = awaits[x]
    BY <1>4, <1>8 DEF Greeted, Use, Resume, Await, Goto
  <2>2. pc'[c] \in {"ended", "failed", "asking"}
    BY <1>4, <1>8 DEF Greeted, Use, Resume, Await, Goto
  <2>3. UNCHANGED <<holds, greet, pool>> BY <1>8 DEF Greeted, poolVars
  <2>4. \A x \in Calls : <<x, "greet">> \in pending' => <<x, "greet">> \in pending
    BY <1>8 DEF Greeted, Use, Send, brokerVars
  <2> QED BY <1>2, <1>5, <2>1, <2>2, <2>3, <2>4, PromisesKept
<1>9. ASSUME NEW id \in Ids, Read(id) \/ Timeout(id) PROVE Promises'
  <2>1. UNCHANGED <<awaits, holds>> /\ pending' \subseteq pending BY <1>9 DEF Read, Timeout
  <2>2. \A x \in Calls : pc'[x] = pc[x] \/ (x = id[1] /\ pc'[x] \in {"ended", "failed", "queued"})
    BY <1>4, <1>9 DEF Read, Timeout, TakeGreeting, TakeAnswer, Goto
  <2>3. CASE greet' = greet /\ pool' = pool
    BY <1>2, <1>5, <2>1, <2>2, <2>3, PromisesKept
  <2>4. CASE id \in pending /\ id[2] = "greet" /\ TakeGreeting(id[1])
    <3>1. id[1] \in Calls /\ <<id[1], "greet">> \in pending BY <2>4 DEF Ids
    <3>2. Account(id[1]) \in Accounts /\ greet[id[1]] # "none"
      BY <3>1, GreeterAccount DEF IInv, Promises
    <3>3. pool' = pool \/ pool' = [pool EXCEPT ![Account(id[1])].initializing = None]
      BY <2>4 DEF TakeGreeting
    <3>4. \A a \in Accounts, x \in Calls :
            pool'[a].initializing = x => pool[a].initializing = x
      BY <1>3, <3>2, <3>3, LessInitializing
    <3>5. \A x \in Calls : greet[x] # "none" <=> greet'[x] # "none"
      BY <1>4, <2>4, <3>2 DEF TakeGreeting
    <3> QED BY <1>2, <1>5, <2>1, <2>2, <3>4, <3>5, PromisesKept
  <2> QED BY <1>9, <2>3, <2>4 DEF Read, Timeout, TakeAnswer, poolVars
<1>10. ASSUME NEW c \in Calls, AnswerDesktop(c) \/ Mutate(c) \/ Written(c) PROVE Promises'
  <2>1. UNCHANGED <<awaits, holds, greet, pool, pending>>
    BY <1>10 DEF AnswerDesktop, Mutate, Written, poolVars, brokerVars
  <2>2. \A x \in Calls : pc'[x] = pc[x] \/ pc'[x] \in {"ended", "failed", "writing"}
    BY <1>4, <1>10 DEF AnswerDesktop, Mutate, Written, Goto
  <2> QED BY <1>2, <1>5, <2>1, <2>2, PromisesKept
<1> QED BY <1>6, <1>7, <1>8, <1>9, <1>10 DEF QuietStep

\* what a handshake has established stays so
LEMMA GreetingsKept ==
  ASSUME IInv,
         \A r \in Calls : start[r] = "done" => start'[r] = "done" /\ Account(r)' = Account(r),
         \A r \in Calls : runtime[r].greeted => runtime'[r].greeted,
         removed \subseteq removed',
         \A c \in Calls : greet'[c] \in {"confirming", "done"} =>
           \/ greet[c] \in {"confirming", "done"} /\ holds'[c] = holds[c]
           \/ runtime'[holds'[c]].greeted,
         \A a \in Accounts : pool'[a].initialized =>
           \/ pool[a].initialized
           \/ \E r \in Calls : start[r] = "done" /\ Account(r) = a /\ runtime[r].greeted
  PROVE  Greetings'
<1>1. ASSUME NEW c \in Calls, greet'[c] \in {"confirming", "done"}
      PROVE  runtime'[holds'[c]].greeted
  <2>1. CASE greet[c] \in {"confirming", "done"} /\ holds'[c] = holds[c]
    <3>1. holds[c] \in Calls BY <2>1 DEF IInv, Promises, Holds
    <3> QED BY <2>1, <3>1 DEF IInv, Greetings
  <2> QED BY <1>1, <2>1
<1>2. ASSUME NEW a \in Accounts, pool'[a].initialized, a \notin removed'
      PROVE  \E r \in Calls : start'[r] = "done" /\ Account(r)' = a /\ runtime'[r].greeted
  <2>1. \E r \in Calls : start[r] = "done" /\ Account(r) = a /\ runtime[r].greeted
    BY <1>2 DEF IInv, Greetings
  <2> QED BY <2>1
<1> QED BY <1>1, <1>2 DEF Greetings

LEMMA QuietGreetings == ASSUME IInv, QuietStep PROVE Greetings'
<1>1. Quiet BY QuietSteps
<1>2. TypeOK /\ Begun BY DEF IInv
<1>3. greet \in [Calls -> {"none", "asked", "confirming", "done", "failed"}]
      /\ holds \in [Calls -> Calls \cup {None}]
  BY <1>2 DEF TypeOK
<1>4. /\ \A r \in Calls : start[r] = "done" => start'[r] = "done" /\ Account(r)' = Account(r)
      /\ \A r \in Calls : runtime[r].greeted => runtime'[r].greeted
      /\ removed \subseteq removed'
  BY <1>1 DEF Quiet, Account
<1>5. ASSUME NEW c \in Calls, Loaded(c) PROVE Greetings'
  <2>1. greet[c] = "none" /\ Account(c) \in Accounts
    BY <1>2, <1>3, <1>5, AccountOfBegun DEF Loaded, IInv, Promises, Holds
  <2>2. \A x \in Calls : greet'[x] \in {"confirming", "done"} =>
          greet[x] \in {"confirming", "done"} /\ holds'[x] = holds[x]
    BY <1>3, <1>5, <2>1 DEF Loaded, Ensure
  <2>3. pool' = pool \/ pool' = [pool EXCEPT ![Account(c)].initializing = c]
    BY <1>5 DEF Loaded, Ensure
  <2>4. \A a \in Accounts : pool'[a].initialized = pool[a].initialized
    BY <1>2, <2>1, <2>3, InitializingSet
  <2> QED BY <1>4, <2>2, <2>4, GreetingsKept
<1>6. ASSUME NEW c \in Calls, Confirmed(c) PROVE Greetings'
  <2>1. Account(c) \in Accounts /\ Holds(c) /\ runtime[holds[c]].greeted
    BY <1>6, GreeterAccount DEF Confirmed, IInv, Promises, Greetings
  <2>2. \A x \in Calls : greet'[x] \in {"confirming", "done"} =>
          greet[x] \in {"confirming", "done"} /\ holds'[x] = holds[x]
    BY <1>3, <1>6 DEF Confirmed
  <2>3. \A a \in Accounts : pool'[a].initialized = IF a = Account(c) THEN TRUE ELSE pool[a].initialized
    BY <1>2, <1>6, <2>1, InitializedSet DEF Confirmed
  <2>4. \A a \in Accounts : pool'[a].initialized =>
          \/ pool[a].initialized
          \/ \E r \in Calls : start[r] = "done" /\ Account(r) = a /\ runtime[r].greeted
    BY <2>1, <2>3 DEF Holds
  <2> QED BY <1>4, <2>2, <2>4, GreetingsKept
<1>7. ASSUME NEW c \in Calls, GreetFails(c) PROVE Greetings'
  <2>1. Account(c) \in Accounts BY <1>7, GreeterAccount DEF GreetFails
  <2>2. \A x \in Calls : greet'[x] \in {"confirming", "done"} =>
          greet[x] \in {"confirming", "done"} /\ holds'[x] = holds[x]
    BY <1>3, <1>7 DEF GreetFails
  <2>3. pool' = [pool EXCEPT ![Account(c)].initializing = None] BY <1>7 DEF GreetFails
  <2>4. \A a \in Accounts : pool'[a].initialized = pool[a].initialized
    BY <1>2, <2>1, <2>3, InitializingSet
  <2> QED BY <1>4, <2>2, <2>4, GreetingsKept
<1>8. ASSUME UNCHANGED <<greet, holds, pool>> PROVE Greetings'
  BY <1>4, <1>8, GreetingsKept
<1>9. ASSUME NEW id \in Ids, Read(id), id \in pending, id[2] = "greet", TakeGreeting(id[1])
      PROVE  Greetings'
  <2>1. id[1] \in Calls /\ <<id[1], "greet">> \in pending BY <1>9 DEF Ids
  <2>2. Account(id[1]) \in Accounts /\ holds[id[1]] \in Calls BY <2>1, GreeterAccount
  <2>3. holds' = holds BY <1>9 DEF Read
  <2>4. \A x \in Calls : greet'[x] \in {"confirming", "done"} =>
          greet[x] \in {"confirming", "done"} \/ runtime'[holds'[x]].greeted
    <3>1. CASE greet' = [greet EXCEPT ![id[1]] = "failed"] BY <1>3, <3>1
    <3>2. CASE /\ greet' = [greet EXCEPT ![id[1]] = "confirming"]
               /\ runtime' = [runtime EXCEPT ![holds[id[1]]].greeted = TRUE]
      <4>1. runtime'[holds[id[1]]].greeted BY <1>2, <2>2, <3>2, GreetedSet
      <4> QED BY <1>3, <2>1, <2>3, <3>2, <4>1
    <3> QED BY <1>9, <3>1, <3>2 DEF TakeGreeting
  <2>5. pool' = pool \/ pool' = [pool EXCEPT ![Account(id[1])].initializing = None]
    BY <1>9 DEF TakeGreeting
  <2>6. \A a \in Accounts : pool'[a].initialized = pool[a].initialized
    BY <1>2, <2>2, <2>5, InitializingSet
  <2> QED BY <1>4, <2>3, <2>4, <2>6, GreetingsKept
<1> QED BY <1>5, <1>6, <1>7, <1>8, <1>9
    DEF QuietStep, Greeted, AnswerDesktop, Mutate, Written, Read, Timeout, TakeAnswer, poolVars

LEMMA QuietInductive == ASSUME IInv, QuietStep PROVE IInv'
BY QuietSteps, QuietTypes, QuietPool, QuietDeletions, QuietPromises, QuietGreetings DEF IInv

\* a call that has not begun has no part in anything
LEMMA IdleIsNobody ==
  ASSUME IInv, NEW c \in Calls, pc[c] = "idle"
  PROVE  /\ start[c] = "none" /\ greet[c] = "none" /\ ~runtime[c].open /\ asked[c] = {}
         /\ \A a \in Accounts : pool[a].starting # c /\ pool[a].loaded # c /\ pool[a].initializing # c
<1>1. start[c] = "none" BY DEF IInv, Begun
<1>2. greet[c] = "none" BY DEF IInv, Promises, Holds
<1>3. ~runtime[c].open /\ asked[c] = {} BY <1>1 DEF IInv, Runtimes, Deletions
<1>4. \A a \in Accounts : pool[a].starting # c /\ pool[a].loaded # c
  BY <1>1 DEF IInv, Starts, Runtimes
<1>5. \A a \in Accounts : pool[a].initializing # c BY <1>2 DEF IInv, Promises
<1> QED BY <1>1, <1>2, <1>3, <1>4, <1>5

\* The end of some runtimes, or none, and the start of a removal or of the closing.
LEMMA EndKeeps ==
  ASSUME IInv, NEW rs \in SUBSET Calls,
         Stays, start' = start, greet' = greet, holds' = holds, asked' = asked,
         \A r \in Calls : /\ runtime'[r].open <=> runtime[r].open /\ r \notin rs
                          /\ runtime'[r].greeted = runtime[r].greeted,
         \A a \in Accounts : /\ pool'[a].starting = pool[a].starting
                             /\ pool'[a].loaded \in {pool[a].loaded, None}
                             /\ pool'[a].initialized => pool[a].initialized
                             /\ pool'[a].initializing \in {pool[a].initializing, None},
         \A r \in Calls \ rs : runtime[r].open => pool'[Account(r)].loaded = pool[Account(r)].loaded,
         \A r \in rs : start[r] = "done" => Closed' \/ Account(r) \in removed',
         Closed => Closed', removed \subseteq removed',
         Closed' => \A c \in Calls : start[c] = "connecting" => c \in closing'.starts,
         closing'.phase = "closed" =>
           closing'.starts = {} /\ \A r \in Calls : runtime[r].open => r \in rs,
         pending' \subseteq pending,
         \A x \in Calls :
           \/ pc'[x] = pc[x] /\ awaits'[x] = awaits[x]
           \/ pc'[x] \notin {"idle", "loading", "greeting", "removing"}
           \/ pc'[x] = "removing" /\ call'[x].kind = "delete" /\ Account(x)' \in removed',
         \A a \in removed' : a \in removed \/ \E c \in Calls :
           pc'[c] # "idle" /\ call'[c] = [kind |-> "delete", account |-> a]
  PROVE  Starts' /\ Runtimes' /\ Deletions' /\ Promises' /\ Greetings'
<1>1. \A x \in Calls : start[x] # "none" => pc[x] # "idle" /\ Account(x)' = Account(x)
  BY DEF IInv, Begun, Stays, Account
<1>2. \A x \in Calls : pc[x] # "idle" => Account(x) \in Accounts
  BY AccountOfBegun DEF IInv
<1>3. \A a \in Accounts, c \in Calls : pool'[a].loaded = c => pool[a].loaded = c
  BY NoneIsNothing
<1>4. Starts'
  <2>1. ASSUME NEW c \in Calls, start'[c] = "connecting"
        PROVE  pool'[Account(c)'].starting = c /\ (Closed' => c \in closing'.starts)
    BY <1>1, <1>2, <2>1 DEF IInv, Starts
  <2>2. ASSUME NEW a \in Accounts, NEW c \in Calls, pool'[a].starting = c
        PROVE  Account(c)' = a /\ start'[c] = "connecting" /\ pool'[a].loaded = None
    BY <1>1, <2>2 DEF IInv, Starts
  <2> QED BY <2>1, <2>2 DEF Starts
<1>5. Runtimes'
  <2>1. ASSUME NEW r \in Calls, runtime'[r].open
        PROVE  start'[r] = "done" /\ pool'[Account(r)'].loaded = r /\ closing'.phase # "closed"
    <3>1. runtime[r].open /\ r \notin rs BY <2>1
    <3>2. start[r] = "done" /\ pool[Account(r)].loaded = r BY <3>1 DEF IInv, Runtimes
    <3> QED BY <1>1, <3>1, <3>2
  <2>2. ASSUME NEW a \in Accounts, NEW r \in Calls, pool'[a].loaded = r
        PROVE  Account(r)' = a /\ start'[r] = "done"
    BY <1>1, <1>3, <2>2 DEF IInv, Runtimes
  <2>3. ASSUME NEW r \in Calls, start'[r] = "done"
        PROVE  runtime'[r].open \/ Closed' \/ Account(r)' \in removed'
    BY <1>1, <2>3 DEF IInv, Runtimes
  <2>4. ASSUME NEW r \in Calls, NEW s \in Calls,
               start'[r] \in {"connecting", "done"}, start'[s] \in {"connecting", "done"},
               Account(r)' = Account(s)', Account(r)' \notin removed'
        PROVE  r = s
    BY <1>1, <2>4 DEF IInv, Runtimes
  <2> QED BY <2>1, <2>2, <2>3, <2>4 DEF Runtimes
<1>6. Deletions'
  <2>1. ASSUME NEW c \in Calls, pc'[c] = "removing"
        PROVE  call'[c].kind = "delete" /\ Account(c)' \in removed'
    BY <2>1 DEF IInv, Deletions, Stays, Account
  <2>2. ASSUME NEW a \in removed'
        PROVE  \E c \in Calls : pc'[c] # "idle" /\ call'[c] = [kind |-> "delete", account |-> a]
    BY <2>2 DEF IInv, Deletions, Stays
  <2>3. ASSUME NEW r \in Calls, asked'[r] # {}
        PROVE  start'[r] = "done" /\ (runtime'[r].open \/ Closed' \/ Account(r)' \in removed')
    BY <1>1, <2>3 DEF IInv, Deletions
  <2> QED BY <2>1, <2>2, <2>3 DEF Deletions
<1>7. Promises'
  <2>1. \A a \in Accounts, x \in Calls : pool'[a].initializing = x => pool[a].initializing = x
    BY NoneIsNothing
  <2>2. \A x \in Calls : pc[x] # "idle" => Account(x)' = Account(x) /\ pc'[x] # "idle"
    BY DEF Stays, Account
  <2> QED BY <2>1, <2>2, PromisesKept
<1>8. Greetings' BY <1>1, GreetingsKept
<1> QED BY <1>4, <1>5, <1>6, <1>7, <1>8

\* what End and Forgotten do to the pool, in the terms of EndKeeps
LEMMA RemoveEffects ==
  ASSUME IInv, NEW c \in Calls, NEW a \in Accounts, Remove(c, a)
  PROVE  LET rs == {pool[a].loaded} \ {None}
         IN  /\ rs \in SUBSET Calls
             /\ \A r \in Calls : /\ runtime'[r].open <=> runtime[r].open /\ r \notin rs
                                 /\ runtime'[r].greeted = runtime[r].greeted
             /\ \A x \in Accounts : /\ pool'[x].starting = pool[x].starting
                                    /\ pool'[x].loaded \in {pool[x].loaded, None}
                                    /\ pool'[x].initialized => pool[x].initialized
                                    /\ pool'[x].initializing \in {pool[x].initializing, None}
             /\ \A r \in Calls \ rs : runtime[r].open => pool'[Account(r)].loaded = pool[Account(r)].loaded
             /\ \A r \in rs : Account(r) = a /\ start[r] # "none"
             /\ pending' \subseteq pending
             /\ \A x \in Calls : pc'[x] = pc[x] \/ pc'[x] \in {"queued", "failed"}
             /\ \A x \in Calls : pc[x] # "idle" => pc'[x] # "idle"
             /\ pc'[c] # "idle"
<1> DEFINE rs == {pool[a].loaded} \ {None}
<1>1. TypeOK /\ Begun BY DEF IInv
<1>2. rs \in SUBSET Calls BY <1>1, EntryFields
<1>3. End(rs, [pc EXCEPT ![c] = "queued"]) BY DEF Remove
<1>4. \A r \in rs : Account(r) = a /\ start[r] # "none" BY <1>2 DEF IInv, Runtimes
<1>5. \A r \in Calls : runtime[r].open => pool[Account(r)].loaded = r /\ Account(r) \in Accounts
  BY <1>1, AccountOfBegun DEF IInv, Runtimes, Begun
<1>6. \A r \in Calls : /\ runtime'[r].open <=> runtime[r].open /\ r \notin rs
                       /\ runtime'[r].greeted = runtime[r].greeted
  BY <1>1, <1>2, <1>3, Ended
<1>7. pc \in [Calls -> Pcs] BY <1>1 DEF TypeOK
<1>8. /\ \A x \in Calls : pc'[x] = pc[x] \/ pc'[x] \in {"queued", "failed"}
      /\ \A x \in Calls : pc[x] # "idle" => pc'[x] # "idle"
      /\ pc'[c] # "idle" /\ pending' \subseteq pending
  BY <1>3, <1>7 DEF End
<1>9. ASSUME NEW x \in Accounts
      PROVE  /\ pool'[x].starting = pool[x].starting
             /\ pool'[x].loaded = IF x = a THEN None ELSE pool[x].loaded
             /\ pool'[x].initialized = IF x = a THEN FALSE ELSE pool[x].initialized
             /\ pool'[x].initializing = IF x = a THEN None ELSE pool[x].initializing
  <2>1. pool' = Forgotten(a) BY DEF Remove
  <2>2. /\ Forgotten(a)[x].starting = pool[x].starting
        /\ Forgotten(a)[x].loaded = IF x = a THEN None ELSE pool[x].loaded
        /\ Forgotten(a)[x].initialized = IF x = a THEN FALSE ELSE pool[x].initialized
        /\ Forgotten(a)[x].initializing = IF x = a THEN None ELSE pool[x].initializing
    BY ONLY <1>1, ForgottenSet, x \in Accounts, a \in Accounts
  <2> QED BY ONLY <2>1, <2>2
<1>10. \A x \in Accounts : /\ pool'[x].starting = pool[x].starting
                           /\ pool'[x].loaded \in {pool[x].loaded, None}
                           /\ pool'[x].initialized => pool[x].initialized
                           /\ pool'[x].initializing \in {pool[x].initializing, None}
  BY <1>9
<1>11. ASSUME NEW r \in Calls \ rs, runtime[r].open
       PROVE  pool'[Account(r)].loaded = pool[Account(r)].loaded
  <2>1. Account(r) \in Accounts /\ pool[Account(r)].loaded = r BY <1>5, <1>11
  <2>2. r # None BY NoneIsNothing
  <2>3. Account(r) # a BY <2>1, <2>2
  <2> QED BY <1>9, <2>1, <2>3
<1> QED BY <1>2, <1>4, <1>6, <1>8, <1>10, <1>11

LEMMA DeleteInductive == ASSUME IInv, NEW c \in Calls, NEW a \in Accounts, Delete(c, a) PROVE IInv'
<1>1. TypeOK /\ Begun BY DEF IInv
<1>2. TypeOK' /\ Begun' BY <1>1, DeleteTypes
<1>3. pc \in [Calls -> Pcs] /\ call \in [Calls -> Call \cup {None}]
      /\ awaits \in [Calls -> Calls \cup {None}]
  BY <1>1 DEF TypeOK
<1>4. /\ pc[c] = "idle" /\ call'[c] = [kind |-> "delete", account |-> a]
      /\ \A x \in Calls : x # c => call'[x] = call[x]
  BY <1>3 DEF Delete, Begin
<1>5. Account(c)' = a /\ call'[c].kind = "delete" BY <1>4 DEF Account
<1>6. /\ start' = start /\ greet' = greet /\ holds' = holds /\ asked' = asked
      /\ closing' = closing /\ removed' = removed \cup {a}
  BY DEF Delete
<1>7. Closed' = Closed BY <1>6 DEF Closed
<1>8. /\ Closed' => \A x \in Calls : start[x] = "connecting" => x \in closing'.starts
      /\ closing'.phase = "closed" => closing'.starts = {} /\ \A r \in Calls : ~runtime[r].open
  BY <1>6, <1>7 DEF IInv, Starts, Runtimes
<1>9. CASE Remove(c, a) /\ UNCHANGED awaits
  <2> DEFINE rs == {pool[a].loaded} \ {None}
  <2>1. /\ rs \in SUBSET Calls
        /\ \A r \in Calls : /\ runtime'[r].open <=> runtime[r].open /\ r \notin rs
                            /\ runtime'[r].greeted = runtime[r].greeted
        /\ \A x \in Accounts : /\ pool'[x].starting = pool[x].starting
                               /\ pool'[x].loaded \in {pool[x].loaded, None}
                               /\ pool'[x].initialized => pool[x].initialized
                               /\ pool'[x].initializing \in {pool[x].initializing, None}
        /\ \A r \in Calls \ rs : runtime[r].open => pool'[Account(r)].loaded = pool[Account(r)].loaded
        /\ \A r \in rs : Account(r) = a /\ start[r] # "none"
        /\ pending' \subseteq pending
        /\ \A x \in Calls : pc'[x] = pc[x] \/ pc'[x] \in {"queued", "failed"}
        /\ \A x \in Calls : pc[x] # "idle" => pc'[x] # "idle"
        /\ pc'[c] # "idle"
    BY <1>9, RemoveEffects
  <2> HIDE DEF rs
  <2>2. Stays BY <1>4, <2>1 DEF Stays
  <2>3. \A r \in rs : Account(r) \in removed' BY <1>6, <2>1
  <2>4. \A x \in removed' : x \in removed \/ \E y \in Calls :
          pc'[y] # "idle" /\ call'[y] = [kind |-> "delete", account |-> x]
    BY <1>4, <1>6, <2>1
  <2>5. \A x \in Calls : \/ pc'[x] = pc[x] /\ awaits'[x] = awaits[x]
                         \/ pc'[x] \notin {"idle", "loading", "greeting", "removing"}
    BY <1>9, <2>1
  <2> QED BY <1>2, <1>6, <1>7, <1>8, <2>1, <2>2, <2>3, <2>4, <2>5, EndKeeps DEF IInv
<1>10. CASE /\ pool[a].starting # None
            /\ Await(c, pool[a].starting, "removing")
            /\ UNCHANGED <<pool, runtime, mutations, brokerVars>>
  <2>1. pc'[c] = "removing" /\ \A x \in Calls : x # c => pc'[x] = pc[x] /\ awaits'[x] = awaits[x]
    BY <1>3, <1>10 DEF Await, Goto
  <2>2. Stays BY <1>4, <2>1 DEF Stays
  <2>3. \A x \in removed' : x \in removed \/ \E y \in Calls :
          pc'[y] # "idle" /\ call'[y] = [kind |-> "delete", account |-> x]
    BY <1>4, <1>6, <2>1
  <2>4. \A x \in Calls : \/ pc'[x] = pc[x] /\ awaits'[x] = awaits[x]
                         \/ pc'[x] = "removing" /\ call'[x].kind = "delete" /\ Account(x)' \in removed'
    BY <1>5, <1>6, <2>1
  <2>5. pending' = pending BY <1>10 DEF brokerVars
  <2>6. {} \in SUBSET Calls OBVIOUS
  <2> QED BY <1>2, <1>6, <1>7, <1>8, <1>10, <2>2, <2>3, <2>4, <2>5, <2>6, EndKeeps DEF IInv
<1> QED BY <1>9, <1>10 DEF Delete

LEMMA DeleteStartedInductive == ASSUME IInv, NEW c \in Calls, DeleteStarted(c) PROVE IInv'
<1>1. TypeOK /\ Begun BY DEF IInv
<1>2. TypeOK' /\ Begun' BY <1>1, DeleteStartedTypes
<1>3. pc \in [Calls -> Pcs] /\ awaits \in [Calls -> Calls \cup {None}] BY <1>1 DEF TypeOK
<1>4. pc[c] = "removing" /\ Account(c) \in removed /\ Account(c) \in Accounts
  BY <1>1, AccountOfBegun DEF DeleteStarted, IInv, Deletions
<1>6. /\ start' = start /\ greet' = greet /\ holds' = holds /\ asked' = asked
      /\ closing' = closing /\ removed' = removed /\ call' = call
      /\ \A x \in Calls : x # c => awaits'[x] = awaits[x]
  BY <1>3 DEF DeleteStarted
<1>7. Closed' = Closed BY <1>6 DEF Closed
<1>8. /\ Closed' => \A x \in Calls : start[x] = "connecting" => x \in closing'.starts
      /\ closing'.phase = "closed" => closing'.starts = {} /\ \A r \in Calls : ~runtime[r].open
  BY <1>6, <1>7 DEF IInv, Starts, Runtimes
<1>9. CASE Remove(c, Account(c))
  <2> DEFINE rs == {pool[Account(c)].loaded} \ {None}
  <2>1. /\ rs \in SUBSET Calls
        /\ \A r \in Calls : /\ runtime'[r].open <=> runtime[r].open /\ r \notin rs
                            /\ runtime'[r].greeted = runtime[r].greeted
        /\ \A x \in Accounts : /\ pool'[x].starting = pool[x].starting
                               /\ pool'[x].loaded \in {pool[x].loaded, None}
                               /\ pool'[x].initialized => pool[x].initialized
                               /\ pool'[x].initializing \in {pool[x].initializing, None}
        /\ \A r \in Calls \ rs : runtime[r].open => pool'[Account(r)].loaded = pool[Account(r)].loaded
        /\ \A r \in rs : Account(r) = Account(c) /\ start[r] # "none"
        /\ pending' \subseteq pending
        /\ \A x \in Calls : pc'[x] = pc[x] \/ pc'[x] \in {"queued", "failed"}
        /\ \A x \in Calls : pc[x] # "idle" => pc'[x] # "idle"
    BY <1>4, <1>9, RemoveEffects
  <2>6. pc'[c] \in {"queued", "failed"} BY <1>3, <1>9 DEF Remove, End
  <2> HIDE DEF rs
  <2>2. Stays BY <1>6, <2>1 DEF Stays
  <2>3. \A r \in rs : Account(r) \in removed' BY <1>4, <1>6, <2>1
  <2>5. \A x \in Calls :
          \/ pc'[x] = pc[x] /\ awaits'[x] = awaits[x]
          \/ pc'[x] \notin {"idle", "loading", "greeting", "removing"}
    BY <1>6, <2>1, <2>6
  <2> QED BY <1>2, <1>6, <1>7, <1>8, <2>1, <2>2, <2>3, <2>5, EndKeeps DEF IInv
<1>10. CASE Goto(c, "failed") /\ UNCHANGED <<pool, runtime, mutations, brokerVars>>
  <2>1. pc'[c] = "failed" /\ \A x \in Calls : x # c => pc'[x] = pc[x] /\ awaits'[x] = awaits[x]
    BY <1>3, <1>6, <1>10 DEF Goto
  <2>2. Stays BY <1>6, <2>1 DEF Stays
  <2>5. pending' = pending BY <1>10 DEF brokerVars
  <2>6. {} \in SUBSET Calls OBVIOUS
  <2> QED BY <1>2, <1>6, <1>7, <1>8, <1>10, <2>1, <2>2, <2>5, <2>6, EndKeeps DEF IInv
<1> QED BY <1>9, <1>10 DEF DeleteStarted

\* who closes the pool waits for every start
LEMMA ClosingWaits ==
  ASSUME IInv, ~Closed
  PROVE  /\ Closing.phase = "closing"
         /\ \A c \in Calls : start[c] = "connecting" => c \in Closing.starts
<1>1. ASSUME NEW c \in Calls, start[c] = "connecting" PROVE c \in Closing.starts
  <2>1. pool[Account(c)].starting = c BY <1>1 DEF IInv, Starts
  <2>2. Account(c) \in Accounts BY <1>1, AccountOfBegun DEF IInv, Begun
  <2>3. c # None BY NoneIsNothing
  <2> QED BY <2>1, <2>2, <2>3 DEF Closing
<1> QED BY <1>1 DEF Closing

LEMMA CloseInductive == ASSUME IInv, Close PROVE IInv'
<1>1. TypeOK /\ Begun BY DEF IInv
<1>2. TypeOK' /\ Begun' BY <1>1, CloseTypes
<1>3. /\ start' = start /\ greet' = greet /\ holds' = holds /\ asked' = asked
      /\ runtime' = runtime /\ pool' = pool /\ removed' = removed /\ call' = call
      /\ pc' = pc /\ awaits' = awaits /\ pending' = pending
  BY DEF Close, brokerVars
<1>4. Stays BY <1>3 DEF Stays
<1>5. closing' = Closing /\ ~Closed BY DEF Close
<1>6. /\ Closed' /\ closing'.phase # "closed"
      /\ \A c \in Calls : start[c] = "connecting" => c \in closing'.starts
  BY <1>5, ClosingWaits DEF Closed
<1>7. {} \in SUBSET Calls OBVIOUS
<1> QED BY <1>2, <1>3, <1>4, <1>6, <1>7, EndKeeps DEF IInv

LEMMA CloseRuntimesInductive == ASSUME IInv, CloseRuntimes PROVE IInv'
<1> DEFINE rs == {r \in Calls : runtime[r].open}
<1>1. TypeOK /\ Begun BY DEF IInv
<1>2. TypeOK' /\ Begun' BY <1>1, CloseTypes
<1>3. /\ start' = start /\ greet' = greet /\ holds' = holds /\ asked' = asked
      /\ removed' = removed /\ call' = call /\ awaits' = awaits
  BY DEF CloseRuntimes
<1>4. End(rs, pc) /\ rs \in SUBSET Calls BY DEF CloseRuntimes
<1>5. pc \in [Calls -> Pcs] BY <1>1 DEF TypeOK
<1>6. /\ \A x \in Calls : pc'[x] = pc[x] \/ pc'[x] = "failed"
      /\ pending' \subseteq pending
  BY <1>4, <1>5 DEF End
<1>7. Stays BY <1>3, <1>6 DEF Stays
<1>8. \A r \in Calls : /\ runtime'[r].open <=> runtime[r].open /\ r \notin rs
                       /\ runtime'[r].greeted = runtime[r].greeted
  BY <1>1, <1>4, Ended
<1>9. ASSUME NEW a \in Accounts
      PROVE  /\ pool'[a].starting = pool[a].starting
             /\ pool'[a].loaded = None /\ pool'[a].initialized = FALSE
             /\ pool'[a].initializing = None
  <2>1. pool'[a] = [pool[a] EXCEPT !.loaded = None, !.initialized = FALSE, !.initializing = None]
    BY DEF CloseRuntimes
  <2>2. pool[a] \in Entry BY <1>1 DEF TypeOK
  <2> QED BY <2>1, <2>2, EntryEffects
<1>10. closing'.phase = "closed" /\ closing'.starts = {} /\ Closed' BY DEF CloseRuntimes, Closed
<1>11. \A c \in Calls : start[c] # "connecting"
  BY DEF CloseRuntimes, IInv, Starts, Closed
<1>12. /\ \A r \in Calls : runtime[r].open => r \in rs
       /\ \A a \in Accounts : /\ pool'[a].starting = pool[a].starting
                              /\ pool'[a].loaded \in {pool[a].loaded, None}
                              /\ pool'[a].initialized => pool[a].initialized
                              /\ pool'[a].initializing \in {pool[a].initializing, None}
  BY <1>9
<1> HIDE DEF rs
<1> QED BY <1>2, <1>3, <1>4, <1>6, <1>7, <1>8, <1>10, <1>11, <1>12, EndKeeps DEF IInv

LEMMA ExitInductive == ASSUME IInv, NEW r \in Calls, Exit(r) PROVE IInv'
<1>1. TypeOK /\ Begun /\ start[r] # "none" BY DEF IInv, Exit, Runtimes
<1>2. TypeOK' /\ Begun' BY <1>1, ExitTypes
<1>3. /\ start' = start /\ greet' = greet /\ holds' = holds /\ asked' = asked
      /\ removed' = removed /\ call' = call /\ awaits' = awaits
  BY DEF Exit
<1>4. End({r}, pc) /\ {r} \in SUBSET Calls BY DEF Exit
<1>5. pc \in [Calls -> Pcs] BY <1>1 DEF TypeOK
<1>6. /\ \A x \in Calls : pc'[x] = pc[x] \/ pc'[x] = "failed"
      /\ pending' \subseteq pending
  BY <1>4, <1>5 DEF End
<1>7. Stays BY <1>3, <1>6 DEF Stays
<1>8. \A x \in Calls : /\ runtime'[x].open <=> runtime[x].open /\ x \notin {r}
                       /\ runtime'[x].greeted = runtime[x].greeted
  BY <1>1, <1>4, Ended
<1>9. Account(r) \in Accounts /\ pool[Account(r)].loaded = r
  BY <1>1, AccountOfBegun DEF IInv, Begun, Runtimes, Exit
<1>10. pool' = Forgotten(Account(r)) BY <1>9 DEF Exit
<1>11. ASSUME NEW x \in Accounts
       PROVE  /\ pool'[x].starting = pool[x].starting
              /\ pool'[x].loaded = IF x = Account(r) THEN None ELSE pool[x].loaded
              /\ pool'[x].initialized = IF x = Account(r) THEN FALSE ELSE pool[x].initialized
              /\ pool'[x].initializing = IF x = Account(r) THEN None ELSE pool[x].initializing
  BY ONLY <1>1, <1>9, <1>10, ForgottenSet, x \in Accounts
<1>12. \A x \in Accounts : /\ pool'[x].starting = pool[x].starting
                           /\ pool'[x].loaded \in {pool[x].loaded, None}
                           /\ pool'[x].initialized => pool[x].initialized
                           /\ pool'[x].initializing \in {pool[x].initializing, None}
  BY <1>11
<1>13. ASSUME NEW x \in Calls \ {r}, runtime[x].open
       PROVE  pool'[Account(x)].loaded = pool[Account(x)].loaded
  <2>1. Account(x) \in Accounts /\ pool[Account(x)].loaded = x
    BY <1>1, <1>13, AccountOfBegun DEF IInv, Runtimes, Begun
  <2>2. Account(x) # Account(r) BY <1>9, <2>1
  <2> QED BY <1>11, <2>1, <2>2
<1>14. /\ Closed => Closed'
       /\ Closed' \/ Account(r) \in removed'
       /\ Closed' => \A c \in Calls : start[c] = "connecting" => c \in closing'.starts
       /\ closing'.phase # "closed"
  <2>1. closing.phase # "closed" BY DEF Exit, IInv, Runtimes
  <2>2. CASE ~Closed /\ Account(r) \notin removed
    <3>1. closing' = Closing BY <2>2 DEF Exit
    <3> QED BY <2>2, <3>1, ClosingWaits DEF Closed
  <2>3. CASE Closed \/ Account(r) \in removed
    <3>1. closing' = closing BY <2>3 DEF Exit
    <3>2. Closed' = Closed BY <3>1 DEF Closed
    <3> QED BY <1>3, <2>1, <2>3, <3>1, <3>2 DEF IInv, Starts
  <2> QED BY <2>2, <2>3
<1> QED BY <1>2, <1>3, <1>4, <1>6, <1>7, <1>8, <1>12, <1>13, <1>14, EndKeeps DEF IInv

\* A request that finds a runtime, a start, neither, or is refused.
LEMMA BeginKeeps ==
  ASSUME IInv, NEW c \in Calls, NEW a \in Accounts,
         pc[c] = "idle", Account(c)' = a, call'[c].kind # "delete",
         \A x \in Calls : x # c => call'[x] = call[x],
         (~Closed /\ Load(c, a)) \/ (Goto(c, "failed") /\ UNCHANGED <<awaits, pool, start>>),
         UNCHANGED <<holds, greet, removed, closing, runtime, pending, asked>>
  PROVE  Starts' /\ Runtimes' /\ Deletions' /\ Promises' /\ Greetings'
<1>1. TypeOK /\ Begun BY DEF IInv
<1>2. /\ pc \in [Calls -> Pcs] /\ awaits \in [Calls -> Calls \cup {None}]
      /\ start \in [Calls -> {"none", "connecting", "done", "failed"}]
  BY <1>1 DEF TypeOK
<1>3. /\ start[c] = "none" /\ greet[c] = "none" /\ ~runtime[c].open /\ asked[c] = {}
      /\ \A x \in Accounts : pool[x].starting # c /\ pool[x].loaded # c /\ pool[x].initializing # c
  BY IdleIsNobody
<1>4. \A x \in Calls : x # c => Account(x)' = Account(x) BY DEF Account
<1>5. Closed' = Closed BY DEF Closed
<1>6. \A x \in Calls : /\ start[x] # "none" => pc[x] # "idle"
                       /\ pc[x] # "idle" => Account(x) \in Accounts /\ x # c
  BY <1>1, AccountOfBegun DEF Begun
<1>7. \A x \in Calls : x # c => pc'[x] = pc[x] /\ awaits'[x] = awaits[x]
  BY <1>2 DEF Load, Await, Goto
<1>8. pc'[c] \in {"loading", "failed"} BY <1>2 DEF Load, Await, Goto
<1>9. CASE start' = start /\ pool' = pool /\ (pc'[c] = "loading" => Waits(c)' /\ start'[awaits'[c]] # "none")
  <2>1. Starts' BY <1>3, <1>4, <1>5, <1>9 DEF IInv, Starts
  <2>2. Runtimes' BY <1>3, <1>4, <1>5, <1>9 DEF IInv, Runtimes
  <2>3. Deletions'
    BY <1>3, <1>4, <1>5, <1>7, <1>8, <1>9 DEF IInv, Deletions
  <2>4. Promises' BY <1>3, <1>4, <1>7, <1>8, <1>9, PromisesKept
  <2>5. Greetings' BY <1>3, <1>4, <1>9, GreetingsKept
  <2> QED BY <2>1, <2>2, <2>3, <2>4, <2>5
<1>10. CASE /\ ~Closed /\ pool[a].loaded = None /\ pool[a].starting = None
            /\ pool' = [pool EXCEPT ![a].starting = c]
            /\ start' = [start EXCEPT ![c] = "connecting"]
            /\ Await(c, c, "loading")
  <2>1. start'[c] = "connecting" /\ \A x \in Calls : x # c => start'[x] = start[x]
    BY <1>2, <1>10
  <2>2. ASSUME NEW x \in Accounts
        PROVE  /\ pool'[x].starting = IF x = a THEN c ELSE pool[x].starting
               /\ pool'[x].loaded = pool[x].loaded
               /\ pool'[x].initialized = pool[x].initialized
               /\ pool'[x].initializing = pool[x].initializing
    BY ONLY <1>1, <1>10, StartingSet, x \in Accounts, a \in Accounts
  <2>3. None \notin Calls BY NoneIsNothing
  <2>4. Starts'
    <3>1. ASSUME NEW x \in Calls, start'[x] = "connecting"
          PROVE  pool'[Account(x)'].starting = x /\ (Closed' => x \in closing'.starts)
      <4>1. CASE x = c BY <1>5, <1>10, <2>2, <4>1
      <4>2. CASE x # c
        <5>1. start[x] = "connecting" /\ pool[Account(x)].starting = x /\ Account(x) \in Accounts
          BY <1>6, <2>1, <3>1, <4>2 DEF IInv, Starts
        <5>2. Account(x) # a BY <1>10, <2>3, <5>1
        <5> QED BY <1>4, <1>5, <1>10, <2>2, <4>2, <5>1, <5>2
      <4> QED BY <4>1, <4>2
    <3>2. ASSUME NEW x \in Accounts, NEW y \in Calls, pool'[x].starting = y
          PROVE  Account(y)' = x /\ start'[y] = "connecting" /\ pool'[x].loaded = None
      <4>1. CASE x = a BY <1>10, <2>1, <2>2, <3>2, <4>1
      <4>2. CASE x # a
        <5>1. pool[x].starting = y BY <2>2, <3>2, <4>2
        <5>2. y # c BY <1>3, <5>1
        <5> QED BY <1>4, <2>1, <2>2, <5>1, <5>2 DEF IInv, Starts
      <4> QED BY <4>1, <4>2
    <3>3. closing'.phase = "closed" => closing'.starts = {} BY DEF IInv, Starts
    <3> QED BY <3>1, <3>2, <3>3 DEF Starts
  <2>5. Runtimes'
    <3>1. ASSUME NEW r \in Calls, runtime'[r].open
          PROVE  start'[r] = "done" /\ pool'[Account(r)'].loaded = r /\ closing'.phase # "closed"
      <4>1. runtime[r].open /\ r # c BY <1>3, <3>1
      <4>2. start[r] = "done" /\ pool[Account(r)].loaded = r /\ closing.phase # "closed"
        BY <4>1 DEF IInv, Runtimes
      <4>3. Account(r) \in Accounts BY <1>6, <4>2
      <4> QED BY <1>4, <2>1, <2>2, <4>1, <4>2, <4>3
    <3>2. ASSUME NEW x \in Accounts, NEW r \in Calls, pool'[x].loaded = r
          PROVE  Account(r)' = x /\ start'[r] = "done"
      <4>1. pool[x].loaded = r /\ r # c BY <1>3, <2>2, <3>2
      <4> QED BY <1>4, <2>1, <4>1 DEF IInv, Runtimes
    <3>3. ASSUME NEW r \in Calls, start'[r] = "done"
          PROVE  runtime'[r].open \/ Closed' \/ Account(r)' \in removed'
      BY <1>4, <1>5, <2>1, <3>3 DEF IInv, Runtimes
    <3>4. ASSUME NEW r \in Calls, r # c, start'[r] \in {"connecting", "done"},
                 Account(r)' = a, a \notin removed
          PROVE  FALSE
      <4>1. start[r] \in {"connecting", "done"} /\ Account(r) = a BY <1>4, <2>1, <3>4
      <4>2. CASE start[r] = "connecting" BY <1>10, <2>3, <4>1, <4>2 DEF IInv, Starts
      <4>3. CASE start[r] = "done"
        <5>1. runtime[r].open BY <1>10, <3>4, <4>1, <4>3 DEF IInv, Runtimes
        <5>2. pool[a].loaded = r BY <4>1, <5>1 DEF IInv, Runtimes
        <5> QED BY <1>10, <2>3, <5>2
      <4> QED BY <4>1, <4>2, <4>3
    <3>5. ASSUME NEW r \in Calls, NEW s \in Calls,
                 start'[r] \in {"connecting", "done"}, start'[s] \in {"connecting", "done"},
                 Account(r)' = Account(s)', Account(r)' \notin removed'
          PROVE  r = s
      <4>1. CASE r = c \/ s = c BY <3>4, <3>5, <4>1
      <4>2. CASE r # c /\ s # c BY <1>4, <2>1, <3>5, <4>2 DEF IInv, Runtimes
      <4> QED BY <4>1, <4>2
    <3> QED BY <3>1, <3>2, <3>3, <3>5 DEF Runtimes
  <2>6. Deletions'
    <3>1. \A r \in Calls : asked'[r] # {} => r # c BY <1>3
    <3> QED BY <1>4, <1>5, <1>7, <1>8, <2>1, <3>1 DEF IInv, Deletions
  <2>7. Promises'
    <3>1. pc'[c] = "loading" /\ awaits'[c] = c BY <1>2, <1>10 DEF Await, Goto
    <3>2. Waits(c)' /\ start'[awaits'[c]] # "none" BY <2>1, <3>1 DEF Waits
    <3>3. \A x \in Accounts : pool'[x].initializing = pool[x].initializing BY <2>2
    <3>4. \A x \in Calls : /\ start[x] # "none" => start'[x] # "none"
                           /\ start[x] = "done" => start'[x] = "done"
      BY <1>3, <2>1
    <3> QED BY <1>3, <1>4, <1>7, <3>1, <3>2, <3>3, <3>4, PromisesKept
  <2>8. Greetings'
    <3>1. \A x \in Accounts : pool'[x].initialized = pool[x].initialized BY <2>2
    <3> QED BY <1>3, <1>4, <2>1, <3>1, GreetingsKept
  <2> QED BY <2>4, <2>5, <2>6, <2>7, <2>8
<1>11. CASE pool[a].loaded # None /\ Await(c, pool[a].loaded, "loading") /\ UNCHANGED <<pool, start>>
  <2> DEFINE r == pool[a].loaded
  <2>1. r \in Calls BY <1>1, <1>11, EntryFields
  <2>2. Account(r) = a /\ start[r] = "done" BY <2>1 DEF IInv, Runtimes
  <2>3. awaits'[c] = r BY <1>2, <1>11 DEF Await
  <2>4. Waits(c)' /\ start'[awaits'[c]] # "none" BY <1>3, <1>4, <1>11, <2>1, <2>2, <2>3 DEF Waits
  <2> QED BY <1>9, <1>11, <2>4
<1>12. CASE pool[a].starting # None /\ Await(c, pool[a].starting, "loading") /\ UNCHANGED <<pool, start>>
  <2> DEFINE r == pool[a].starting
  <2>1. r \in Calls BY <1>1, <1>12, EntryFields
  <2>2. Account(r) = a /\ start[r] = "connecting" BY <2>1 DEF IInv, Starts
  <2>3. awaits'[c] = r BY <1>2, <1>12 DEF Await
  <2>4. Waits(c)' /\ start'[awaits'[c]] # "none" BY <1>3, <1>4, <1>12, <2>1, <2>2, <2>3 DEF Waits
  <2> QED BY <1>9, <1>12, <2>4
<1>13. CASE Goto(c, "failed") /\ UNCHANGED <<awaits, pool, start>>
  <2>1. pc'[c] # "loading" BY <1>2, <1>13 DEF Goto
  <2> QED BY <1>9, <1>13, <2>1
<1> QED BY <1>10, <1>11, <1>12, <1>13 DEF Load

LEMMA BeginInductive ==
  ASSUME InitializeIsEarly, IInv, NEW c \in Calls,
         Initialize(c) \/ \E a \in Accounts : Get(c, "forward", a) \/ Get(c, "refresh", a)
  PROVE  IInv'
<1>1. TypeOK' /\ Begun' BY GetTypes DEF IInv
<1>2. call \in [Calls -> Call \cup {None}] BY DEF IInv, TypeOK
<1>3. CASE Initialize(c)
  <2>1. /\ pc[c] = "idle" /\ Account(c)' = DefaultAccount /\ call'[c].kind # "delete"
        /\ \A x \in Calls : x # c => call'[x] = call[x]
    BY <1>2, <1>3 DEF Initialize, Begin, Account
  <2>2. ~Closed /\ Load(c, DefaultAccount) BY <1>3 DEF Initialize
  <2>3. UNCHANGED <<holds, greet, removed, closing, runtime, pending, asked>>
    BY <1>3 DEF Initialize, brokerVars
  <2> QED BY <1>1, <2>1, <2>2, <2>3, BeginKeeps, DefaultIsAnAccount DEF IInv
<1>4. ASSUME NEW a \in Accounts, NEW kind \in {"forward", "refresh"}, Get(c, kind, a) PROVE IInv'
  <2>1. /\ pc[c] = "idle" /\ Account(c)' = a /\ call'[c].kind # "delete"
        /\ \A x \in Calls : x # c => call'[x] = call[x]
    BY <1>2, <1>4 DEF Get, Begin, Account
  <2>2. (~Closed /\ Load(c, a)) \/ (Goto(c, "failed") /\ UNCHANGED <<awaits, pool, start>>)
    BY <1>4 DEF Get
  <2>3. UNCHANGED <<holds, greet, removed, closing, runtime, pending, asked>>
    BY <1>4 DEF Get, brokerVars
  <2> QED BY <1>1, <2>1, <2>2, <2>3, BeginKeeps DEF IInv
<1> QED BY <1>3, <1>4

LEMMA ConnectsInductive == ASSUME IInv, NEW c \in Calls, Connects(c) PROVE IInv'
<1> DEFINE a == Account(c)
<1>1. TypeOK /\ Begun BY DEF IInv
<1>2. TypeOK' /\ Begun' BY <1>1, StartTypes
<1>3. start[c] = "connecting" /\ pc[c] # "idle" /\ a \in Accounts
  BY <1>1, AccountOfBegun DEF Connects, Begun
<1>4. \A x \in Calls : Account(x)' = Account(x) BY DEF Connects, Account
<1>5. Closed' = Closed BY DEF Connects, Closed
<1>6. start'[c] = "done" /\ \A x \in Calls : x # c => start'[x] = start[x]
  BY <1>1 DEF Connects, TypeOK
<1>7. ASSUME NEW x \in Accounts
      PROVE  /\ pool'[x].starting = IF x = a THEN None ELSE pool[x].starting
             /\ pool'[x].loaded = IF x = a THEN c ELSE pool[x].loaded
             /\ pool'[x].initialized = pool[x].initialized
             /\ pool'[x].initializing = pool[x].initializing
  <2>1. pool' = [pool EXCEPT ![a].starting = None, ![a].loaded = c] BY DEF Connects
  <2> QED BY ONLY <1>1, <1>3, <2>1, LoadedSet, x \in Accounts
<1>8. \A r \in Calls : /\ runtime'[r].open <=> r = c \/ runtime[r].open
                       /\ runtime'[r].greeted = runtime[r].greeted
  BY <1>1, OpenSet DEF Connects
<1>9. pool[a].starting = c /\ pool[a].loaded = None BY <1>3 DEF IInv, Starts
<1>10. None \notin Calls BY NoneIsNothing
<1>11. Starts'
  <2>1. ASSUME NEW x \in Calls, start'[x] = "connecting"
        PROVE  pool'[Account(x)'].starting = x /\ (Closed' => x \in closing'.starts)
    <3>1. x # c /\ start[x] = "connecting" BY <1>6, <2>1
    <3>2. pool[Account(x)].starting = x /\ (Closed => x \in closing.starts)
      BY <3>1 DEF IInv, Starts
    <3>3. Account(x) \in Accounts BY <1>1, <3>1, AccountOfBegun DEF Begun
    <3>4. Account(x) # a BY <1>9, <3>1, <3>2
    <3> QED BY <1>4, <1>5, <1>7, <3>2, <3>3, <3>4 DEF Connects
  <2>2. ASSUME NEW x \in Accounts, NEW y \in Calls, pool'[x].starting = y
        PROVE  Account(y)' = x /\ start'[y] = "connecting" /\ pool'[x].loaded = None
    <3>1. x # a /\ pool[x].starting = y BY <1>7, <1>10, <2>2
    <3>2. Account(y) = x /\ start[y] = "connecting" /\ pool[x].loaded = None
      BY <3>1 DEF IInv, Starts
    <3> QED BY <1>4, <1>6, <1>7, <3>1, <3>2
  <2>3. closing'.phase = "closed" => closing'.starts = {} BY DEF IInv, Starts, Connects
  <2> QED BY <2>1, <2>2, <2>3 DEF Starts
<1>12. Runtimes'
  <2>1. ASSUME NEW r \in Calls, runtime'[r].open
        PROVE  start'[r] = "done" /\ pool'[Account(r)'].loaded = r /\ closing'.phase # "closed"
    <3>1. CASE r = c
      <4>1. closing.phase # "closed" BY <1>3 DEF IInv, Starts, Closed
      <4> QED BY <1>3, <1>4, <1>6, <1>7, <3>1, <4>1 DEF Connects
    <3>2. CASE r # c
      <4>1. runtime[r].open BY <1>8, <2>1, <3>2
      <4>2. start[r] = "done" /\ pool[Account(r)].loaded = r /\ closing.phase # "closed"
        BY <4>1 DEF IInv, Runtimes
      <4>3. Account(r) \in Accounts BY <1>1, <4>2, AccountOfBegun DEF Begun
      <4>4. Account(r) # a BY <1>9, <1>10, <4>2
      <4> QED BY <1>4, <1>6, <1>7, <3>2, <4>2, <4>3, <4>4 DEF Connects
    <3> QED BY <3>1, <3>2
  <2>2. ASSUME NEW x \in Accounts, NEW r \in Calls, pool'[x].loaded = r
        PROVE  Account(r)' = x /\ start'[r] = "done"
    <3>1. CASE x = a BY <1>4, <1>6, <1>7, <2>2, <3>1
    <3>2. CASE x # a
      <4>1. pool[x].loaded = r BY <1>7, <2>2, <3>2
      <4>2. Account(r) = x /\ start[r] = "done" BY <4>1 DEF IInv, Runtimes
      <4> QED BY <1>4, <1>6, <4>2
    <3> QED BY <3>1, <3>2
  <2>3. ASSUME NEW r \in Calls, start'[r] = "done"
        PROVE  runtime'[r].open \/ Closed' \/ Account(r)' \in removed'
    BY <1>4, <1>5, <1>6, <1>8, <2>3 DEF IInv, Runtimes, Connects
  <2>4. \A r \in Calls : start'[r] \in {"connecting", "done"} => start[r] \in {"connecting", "done"}
    BY <1>3, <1>6
  <2>5. ASSUME NEW r \in Calls, NEW s \in Calls,
               start'[r] \in {"connecting", "done"}, start'[s] \in {"connecting", "done"},
               Account(r)' = Account(s)', Account(r)' \notin removed'
        PROVE  r = s
    BY <1>4, <2>4, <2>5 DEF IInv, Runtimes, Connects
  <2> QED BY <2>1, <2>2, <2>3, <2>5 DEF Runtimes
<1>13. Deletions' BY <1>4, <1>5, <1>6, <1>8 DEF IInv, Deletions, Connects
<1>14. \A x \in Calls : /\ start[x] # "none" => start'[x] # "none"
                        /\ start[x] = "done" => start'[x] = "done"
  BY <1>3, <1>6
<1>15. UNCHANGED <<pc, awaits, holds, greet, pending>> BY DEF Connects, brokerVars
<1>16. \A x \in Accounts : /\ pool'[x].initializing = pool[x].initializing
                           /\ pool'[x].initialized = pool[x].initialized
  BY <1>7
<1>17. Promises' BY <1>4, <1>14, <1>15, <1>16, PromisesKept
<1>18. Greetings' BY <1>4, <1>8, <1>14, <1>15, <1>16, GreetingsKept DEF Connects
<1> QED BY <1>2, <1>11, <1>12, <1>13, <1>17, <1>18 DEF IInv

LEMMA ConnectFailsInductive == ASSUME IInv, NEW c \in Calls, ConnectFails(c) PROVE IInv'
<1> DEFINE a == Account(c)
<1>1. TypeOK /\ Begun BY DEF IInv
<1>2. TypeOK' /\ Begun' BY <1>1, StartTypes
<1>3. start[c] = "connecting" /\ a \in Accounts
  BY <1>1, AccountOfBegun DEF ConnectFails, Begun
<1>4. \A x \in Calls : Account(x)' = Account(x) BY DEF ConnectFails, Account
<1>5. Closed' = Closed BY DEF ConnectFails, Closed
<1>6. start'[c] = "failed" /\ \A x \in Calls : x # c => start'[x] = start[x]
  BY <1>1 DEF ConnectFails, TypeOK
<1>7. ASSUME NEW x \in Accounts
      PROVE  /\ pool'[x].starting = IF x = a THEN None ELSE pool[x].starting
             /\ pool'[x].loaded = pool[x].loaded
             /\ pool'[x].initialized = pool[x].initialized
             /\ pool'[x].initializing = pool[x].initializing
  <2>1. pool' = [pool EXCEPT ![a].starting = None] BY DEF ConnectFails
  <2> QED BY ONLY <1>1, <1>3, <2>1, StartingSet, x \in Accounts
<1>9. pool[a].starting = c BY <1>3 DEF IInv, Starts
<1>10. None \notin Calls BY NoneIsNothing
<1>11. Starts'
  <2>1. ASSUME NEW x \in Calls, start'[x] = "connecting"
        PROVE  pool'[Account(x)'].starting = x /\ (Closed' => x \in closing'.starts)
    <3>1. x # c /\ start[x] = "connecting" BY <1>6, <2>1
    <3>2. pool[Account(x)].starting = x /\ (Closed => x \in closing.starts)
      BY <3>1 DEF IInv, Starts
    <3>3. Account(x) \in Accounts BY <1>1, <3>1, AccountOfBegun DEF Begun
    <3>4. Account(x) # a BY <1>9, <3>1, <3>2
    <3> QED BY <1>4, <1>5, <1>7, <3>2, <3>3, <3>4 DEF ConnectFails
  <2>2. ASSUME NEW x \in Accounts, NEW y \in Calls, pool'[x].starting = y
        PROVE  Account(y)' = x /\ start'[y] = "connecting" /\ pool'[x].loaded = None
    <3>1. x # a /\ pool[x].starting = y BY <1>7, <1>10, <2>2
    <3>2. Account(y) = x /\ start[y] = "connecting" /\ pool[x].loaded = None
      BY <3>1 DEF IInv, Starts
    <3>3. y # c BY <3>1, <3>2
    <3> QED BY <1>4, <1>6, <1>7, <3>2, <3>3
  <2>3. closing'.phase = "closed" => closing'.starts = {} BY DEF IInv, Starts, ConnectFails
  <2> QED BY <2>1, <2>2, <2>3 DEF Starts
<1>12. Runtimes'
  <2>1. \A r \in Calls : start'[r] \in {"connecting", "done"} => start'[r] = start[r] BY <1>6
  <2>2. \A r \in Calls : start[r] = "done" => start'[r] = "done" /\ Account(r) \in Accounts
    BY <1>1, <1>3, <1>6, AccountOfBegun DEF Begun
  <2> QED BY <1>4, <1>5, <1>7, <2>1, <2>2 DEF IInv, Runtimes, ConnectFails
<1>14. \A x \in Calls : /\ start[x] # "none" => start'[x] # "none"
                        /\ start[x] = "done" => start'[x] = "done"
  BY <1>3, <1>6
<1>13. Deletions' BY <1>4, <1>5, <1>14 DEF IInv, Deletions, ConnectFails
<1>15. UNCHANGED <<pc, awaits, holds, greet, pending, runtime, removed>>
  BY DEF ConnectFails, brokerVars
<1>16. \A x \in Accounts : /\ pool'[x].initializing = pool[x].initializing
                           /\ pool'[x].initialized = pool[x].initialized
  BY <1>7
<1>17. Promises' BY <1>4, <1>14, <1>15, <1>16, PromisesKept
<1>18. Greetings' BY <1>4, <1>14, <1>15, <1>16, GreetingsKept
<1> QED BY <1>2, <1>11, <1>12, <1>13, <1>17, <1>18 DEF IInv

LEMMA UnchangedInductive == ASSUME IInv, UNCHANGED vars PROVE IInv'
<1>1. UNCHANGED <<call, pc, awaits, holds, repo, mutations, params, start, greet, pool, removed,
                  closing, runtime, pending, retired, log, owed, asked>>
  BY DEF vars, repoVars, poolVars, brokerVars
<1>2. TypeOK' BY <1>1 DEF IInv, TypeOK
<1>3. Begun' BY <1>1 DEF IInv, Begun
<1>4. Starts' /\ Runtimes' /\ Deletions'
  BY <1>1 DEF IInv, Starts, Runtimes, Deletions, Closed, Account
<1>5. Promises' /\ Greetings'
  BY <1>1 DEF IInv, Promises, Greetings, Waits, Holds, Account
<1> QED BY <1>2, <1>3, <1>4, <1>5 DEF IInv

LEMMA Inductive == ASSUME InitializeIsEarly, IInv, [Next]_vars PROVE IInv'
<1>1. CASE QuietStep BY <1>1, QuietInductive
<1>2. ASSUME NEW c \in Calls, Initialize(c) \/ Connects(c) \/ ConnectFails(c)
                              \/ DeleteStarted(c) \/ Exit(c)
      PROVE  IInv'
  BY <1>2, BeginInductive, ConnectsInductive, ConnectFailsInductive, DeleteStartedInductive,
     ExitInductive
<1>3. ASSUME NEW c \in Calls, NEW a \in Accounts,
             Delete(c, a) \/ Get(c, "forward", a) \/ Get(c, "refresh", a)
      PROVE  IInv'
  BY <1>3, BeginInductive, DeleteInductive
<1>4. CASE Close \/ CloseRuntimes BY <1>4, CloseInductive, CloseRuntimesInductive
<1>5. CASE UNCHANGED vars BY <1>5, UnchangedInductive
<1> QED BY <1>1, <1>2, <1>3, <1>4, <1>5 DEF Next, QuietStep

LEMMA Invariance == ASSUME InitializeIsEarly PROVE Spec => []IInv
BY InitInductive, Inductive, PTL DEF Spec

-----------------------------------------------------------------------------
(* The theorems *)

\* Type correctness: whatever the pool is asked to do, in whatever order.
THEOREM TypeCorrect == ASSUME InitializeIsEarly PROVE Spec => []TypeOK
<1>1. IInv => TypeOK BY DEF IInv
<1> QED BY <1>1, Invariance, PTL

\* No runtime outlives the pool: close() waits for every start that it finds, and
\* finds every start there is (codex-runtime-pool.ts).
THEOREM PoolClosesAll == ASSUME InitializeIsEarly PROVE Spec => []NothingOutlivesThePool
<1>1. IInv => NothingOutlivesThePool BY DEF IInv, Runtimes, NothingOutlivesThePool
<1> QED BY <1>1, Invariance, PTL

\* Whoever waits for a runtime that is gone is told by the end of the host, or
\* waits for an account somebody deletes.
THEOREM DeathIsTold == ASSUME InitializeIsEarly PROVE Spec => []NobodyWaitsForTheDead
<1>1. ASSUME IInv PROVE NobodyWaitsForTheDead
  <2> SUFFICES ASSUME NEW r \in Calls, asked[r] # {}, ~runtime[r].open, ~Closed
               PROVE  \E c \in Calls : call[c] = [kind |-> "delete", account |-> Account(r)]
    BY DEF NobodyWaitsForTheDead
  <2>1. Account(r) \in removed BY <1>1 DEF IInv, Deletions
  <2> QED BY <1>1, <2>1 DEF IInv, Deletions
<1> QED BY <1>1, Invariance, PTL

\* Only Use passes something on to a runtime.
LEMMA UseIsOwn ==
  ASSUME TypeOK, NEW x \in Calls, NEW s \in Calls, Use(x, s), NEW c \in Calls, NEW r \in Calls
  PROVE  /\ c \in asked'[r] \ asked[r] => c = x /\ r = s
         /\ <<c, "ask">> \in owed' \ owed => c = x
<1>1. asked \in [Calls -> SUBSET Calls] BY DEF TypeOK
<1> QED BY <1>1 DEF Use, Send, brokerVars

Uses(c, r) ==
  \/ c \in asked'[r] \ asked[r]
  \/ <<c, "ask">> \in owed' \ owed /\ holds'[c] = r

LEMMA UsersKnowTheRuntime ==
  ASSUME IInv, [Next]_vars, params, NEW c \in Calls, NEW r \in Calls, Uses(c, r)
  PROVE  \/ Waits(c) /\ awaits[c] = r /\ start[r] = "done" /\ pool[Account(c)].initialized
            /\ Account(c) \in Accounts
         \/ Holds(c) /\ Waits(c) /\ holds[c] = r /\ greet[awaits[c]] = "done"
<1>1. TypeOK /\ Begun BY DEF IInv
<1>2. asked \in [Calls -> SUBSET Calls] /\ holds \in [Calls -> Calls \cup {None}] BY <1>1 DEF TypeOK
<1>3. ASSUME owed' \subseteq owed, \A x \in Calls : asked'[x] \subseteq asked[x] PROVE FALSE
  BY <1>3 DEF Uses
<1>4. ASSUME NEW x \in Calls, Loaded(x)
      PROVE  /\ Waits(c) /\ awaits[c] = r /\ start[r] = "done" /\ pool[Account(c)].initialized
             /\ Account(c) \in Accounts
  <2>1. Waits(x) /\ Account(x) \in Accounts
    BY <1>1, <1>4, AccountOfBegun DEF Loaded, IInv, Promises
  <2>2. CASE UNCHANGED <<owed, asked>> BY <1>3, <2>2
  <2>3. CASE Send(<<x, "greet">>, awaits[x]) /\ UNCHANGED asked BY <2>3 DEF Send, Uses
  <2>4. CASE /\ Use(x, awaits[x]) /\ pool[Account(x)].initialized
             /\ start[awaits[x]] = "done" /\ holds' = [holds EXCEPT ![x] = awaits[x]]
    <3>1. awaits[x] \in Calls /\ holds'[x] = awaits[x] BY <1>2, <2>1, <2>4 DEF Waits
    <3>2. c = x /\ r = awaits[x] BY <1>1, <2>4, <3>1, UseIsOwn DEF Uses
    <3> QED BY <2>1, <2>4, <3>2
  <2> QED BY <1>4, <2>2, <2>3, <2>4 DEF Loaded, Ensure, brokerVars
<1>5. ASSUME NEW x \in Calls, Greeted(x)
      PROVE  Holds(c) /\ Waits(c) /\ holds[c] = r /\ greet[awaits[c]] = "done"
  <2>1. Waits(x) /\ Holds(x) /\ holds[x] \in Calls BY <1>5 DEF Greeted, IInv, Promises, Holds
  <2>2. CASE UNCHANGED <<owed, asked>> BY <1>3, <2>2
  <2>3. CASE Use(x, holds[x]) /\ greet[awaits[x]] = "done"
    <3>1. holds' = holds BY <1>5 DEF Greeted
    <3>2. c = x /\ r = holds[x] BY <1>1, <2>1, <2>3, <3>1, UseIsOwn DEF Uses
    <3> QED BY <2>1, <2>3, <3>2
  <2> QED BY <1>5, <2>2, <2>3 DEF Greeted, brokerVars
<1>6. ASSUME NEW x \in Calls, AnswerDesktop(x) PROVE FALSE
  <2>1. owed' = owed BY <1>6 DEF AnswerDesktop, brokerVars
  <2>2. \A y \in Calls : asked'[y] \subseteq asked[y] BY <1>2, <1>6 DEF AnswerDesktop
  <2> QED BY <1>3, <2>1, <2>2
<1>7. CASE owed' \subseteq owed /\ asked' = asked BY <1>3, <1>7
<1>8. ASSUME NEW x \in Calls, Initialize(x) \/ Connects(x) \/ ConnectFails(x) \/ Confirmed(x)
                              \/ GreetFails(x) \/ Mutate(x) \/ Written(x) \/ DeleteStarted(x) \/ Exit(x)
      PROVE  owed' \subseteq owed /\ asked' = asked
  BY <1>8 DEF Initialize, Connects, ConnectFails, Confirmed, GreetFails, Mutate, Written,
              DeleteStarted, Remove, Exit, End, brokerVars
<1>9. ASSUME NEW x \in Calls, NEW a \in Accounts,
             Delete(x, a) \/ Get(x, "forward", a) \/ Get(x, "refresh", a)
      PROVE  owed' \subseteq owed /\ asked' = asked
  BY <1>9 DEF Delete, Remove, End, Get, brokerVars
<1>10. ASSUME NEW id \in Ids, Read(id) \/ Timeout(id) PROVE owed' \subseteq owed /\ asked' = asked
  BY <1>10 DEF Read, Timeout
<1>11. ASSUME Close \/ CloseRuntimes \/ UNCHANGED vars PROVE owed' \subseteq owed /\ asked' = asked
  BY <1>11 DEF Close, CloseRuntimes, End, vars, brokerVars
<1> QED BY <1>4, <1>5, <1>6, <1>7, <1>8, <1>9, <1>10, <1>11 DEF Next

\* Whoever gets a runtime gets one that was greeted: an account that stays has one
\* runtime for good, so a handshake anybody made was one with that runtime.
THEOREM OnlyGreetedRuntimes == ASSUME InitializeIsEarly PROVE Spec => GreetedBeforeUse
<1>1. ASSUME IInv, [Next]_vars, params, NEW c \in Calls, NEW r \in Calls, Uses(c, r),
             Account(r) \notin removed
      PROVE  runtime[r].greeted
  <2>1. ASSUME NEW s \in Calls, start[s] = "done", Account(s) = Account(r), runtime[s].greeted,
               start[r] = "done"
        PROVE  runtime[r].greeted
    <3>1. r = s BY <1>1, <2>1 DEF IInv, Runtimes
    <3> QED BY <2>1, <3>1
  <2>2. CASE /\ Waits(c) /\ awaits[c] = r /\ start[r] = "done" /\ pool[Account(c)].initialized
             /\ Account(c) \in Accounts
    <3>1. Account(r) = Account(c) BY <2>2 DEF Waits
    <3>2. \E s \in Calls : start[s] = "done" /\ Account(s) = Account(c) /\ runtime[s].greeted
      BY <1>1, <2>2, <3>1 DEF IInv, Greetings
    <3> QED BY <2>1, <2>2, <3>1, <3>2
  <2>3. CASE Holds(c) /\ Waits(c) /\ holds[c] = r /\ greet[awaits[c]] = "done"
    <3> DEFINE g == awaits[c]
    <3>1. g \in Calls /\ Account(g) = Account(c) BY <2>3 DEF Waits
    <3>2. Holds(g) /\ runtime[holds[g]].greeted BY <1>1, <2>3, <3>1 DEF IInv, Promises, Greetings
    <3> QED BY <2>1, <2>3, <3>1, <3>2 DEF Holds
  <2> QED BY <1>1, <2>2, <2>3, UsersKnowTheRuntime
<1>2. IInv /\ [Next]_vars => [\A c, r \in Calls :
        params /\ (c \in asked'[r] \ asked[r] \/ (<<c, "ask">> \in owed' \ owed /\ holds'[c] = r))
          => runtime[r].greeted \/ Account(r) \in removed]_vars
  BY <1>1 DEF Uses
<1> QED BY <1>2, Invariance, PTL DEF Spec, GreetedBeforeUse

-----------------------------------------------------------------------------
(* The way of a call *)

\* how a call goes on
Flow(p, q) ==
  \/ q = p
  \/ p = "idle" /\ q \in {"loading", "removing", "queued", "failed"}
  \/ p = "loading" /\ q \in {"greeting", "asking", "ended", "failed"}
  \/ p = "greeting" /\ q \in {"asking", "ended", "failed"}
  \/ p = "asking" /\ q \in {"queued", "ended", "failed"}
  \/ p = "removing" /\ q \in {"queued", "failed"}
  \/ p = "queued" /\ q \in {"writing", "failed"}
  \/ p = "writing" /\ q \in {"ended", "failed"}

\* and what it keeps meanwhile
Onward == \A x \in Calls :
  /\ Flow(pc[x], pc'[x])
  /\ pc[x] # "idle" => call'[x] = call[x]
  /\ pc[x] \notin {"idle", "loading"} => holds'[x] = holds[x]
  /\ pc[x] = "removing" /\ pc'[x] = "removing" => awaits'[x] = awaits[x]

\* who asks a runtime something waits for the answer, and is a refresh
Askers == \A c \in Calls : <<c, "ask">> \in pending => pc[c] = "asking" /\ call[c].kind = "refresh"

LEMMA OneMoves ==
  ASSUME TypeOK, NEW c \in Calls, NEW to, Goto(c, to), Flow(pc[c], to),
         pc[c] = "removing" => to # "removing",
         \A x \in Calls : x # c => call'[x] = call[x] /\ holds'[x] = holds[x] /\ awaits'[x] = awaits[x],
         pc[c] # "idle" => call' = call,
         pc[c] \notin {"idle", "loading"} => holds' = holds
  PROVE  Onward
BY DEF Onward, Flow, Goto, TypeOK

LEMMA NoneMoves ==
  ASSUME UNCHANGED <<call, pc, awaits, holds>>
  PROVE  Onward
BY DEF Onward, Flow

\* the end of runtimes takes what they owe and what is pending there together
LEMMA EndLeaves ==
  ASSUME NEW rs, NEW p, End(rs, p)
  PROVE  /\ pending' \subseteq pending /\ owed' \subseteq owed /\ retired' = retired /\ log' = log
         /\ \A id \in owed' : id \in pending => id \in pending'
         /\ \A x \in Calls : pc'[x] = p[x] \/ (p[x] = "asking" /\ pc'[x] = "failed")
BY DEF End

LEMMA BeginOnward ==
  ASSUME TypeOK, NEW c \in Calls, NEW a \in Accounts,
         Initialize(c) \/ Get(c, "forward", a) \/ Get(c, "refresh", a) \/ Delete(c, a)
  PROVE  Onward
<1>1. pc[c] = "idle" /\ holds' = holds /\ \A x \in Calls : x # c => call'[x] = call[x]
  BY DEF Initialize, Get, Delete, Begin, TypeOK
<1>2. \A x \in Calls : x # c => awaits'[x] = awaits[x]
  BY DEF Initialize, Get, Delete, Load, Await, TypeOK
<1>3. CASE \E to \in {"loading", "removing", "failed"} : Goto(c, to)
  <2>1. PICK to \in {"loading", "removing", "failed"} : Goto(c, to)
    BY <1>3
  <2> QED
    BY <1>1, <1>2, <2>1, OneMoves DEF Flow
<1>4. CASE Delete(c, a) /\ Remove(c, a)
  <2>1. \A x \in Calls : \/ pc'[x] = [pc EXCEPT ![c] = "queued"][x]
                         \/ [pc EXCEPT ![c] = "queued"][x] = "asking" /\ pc'[x] = "failed"
    BY <1>4, EndLeaves DEF Remove
  <2> QED
    BY <1>1, <1>2, <2>1 DEF Onward, Flow, TypeOK
<1> QED
  BY <1>3, <1>4 DEF Initialize, Get, Delete, Load, Await

LEMMA UseOnward ==
  ASSUME TypeOK, NEW c \in Calls, pc[c] \in {"loading", "greeting"},
         (\E r : Use(c, r)) \/ Resume(c, "failed") \/ (pc[c] = "loading" /\ \E p : Await(c, p, "greeting")),
         call' = call, \A x \in Calls : x # c => holds'[x] = holds[x],
         pc[c] = "greeting" => holds' = holds
  PROVE  Onward
<1>1. PICK to \in {"asking", "ended", "failed", "greeting"} :
        Goto(c, to) /\ (to = "greeting" => pc[c] = "loading")
  BY DEF Use, Resume, Await
<1>2. \A x \in Calls : x # c => awaits'[x] = awaits[x]
  BY DEF Use, Resume, Await, TypeOK
<1> QED
  BY <1>1, <1>2, OneMoves DEF Flow

LEMMA OnwardStep ==
  ASSUME TypeOK, Askers, [Next]_vars
  PROVE  Onward
<1>1. ASSUME NEW c \in Calls, NEW a \in Accounts,
             Initialize(c) \/ Get(c, "forward", a) \/ Get(c, "refresh", a) \/ Delete(c, a)
      PROVE  Onward
  BY <1>1, BeginOnward
<1>2. ASSUME NEW c \in Calls, Loaded(c) PROVE Onward
  <2>1. pc[c] = "loading" /\ call' = call /\ \A x \in Calls : x # c => holds'[x] = holds[x]
    BY <1>2 DEF Loaded, TypeOK
  <2>2. (\E r : Use(c, r)) \/ Resume(c, "failed") \/ (\E p : Await(c, p, "greeting"))
    BY <1>2 DEF Loaded, Ensure
  <2> QED
    BY <2>1, <2>2, UseOnward
<1>3. ASSUME NEW c \in Calls, Greeted(c) PROVE Onward
  <2>1. pc[c] = "greeting" /\ call' = call /\ holds' = holds
    BY <1>3 DEF Greeted
  <2>2. (\E r : Use(c, r)) \/ Resume(c, "failed")
    BY <1>3 DEF Greeted
  <2> QED
    BY <2>1, <2>2, UseOnward
<1>4. ASSUME NEW c \in Calls, DeleteStarted(c) PROVE Onward
  <2>1. /\ pc[c] = "removing" /\ call' = call /\ holds' = holds
        /\ \A x \in Calls : x # c => awaits'[x] = awaits[x]
    BY <1>4 DEF DeleteStarted, TypeOK
  <2>2. CASE Goto(c, "failed")
    BY <2>1, <2>2, OneMoves DEF Flow
  <2>3. CASE Remove(c, Account(c))
    <3>1. \A x \in Calls : \/ pc'[x] = [pc EXCEPT ![c] = "queued"][x]
                           \/ [pc EXCEPT ![c] = "queued"][x] = "asking" /\ pc'[x] = "failed"
      BY <2>3, EndLeaves DEF Remove
    <3> QED
      BY <2>1, <3>1 DEF Onward, Flow, TypeOK
  <2> QED
    BY <1>4, <2>2, <2>3 DEF DeleteStarted
<1>5. ASSUME NEW c \in Calls, Mutate(c) \/ Written(c) PROVE Onward
  <2>1. /\ UNCHANGED <<call, holds, awaits>>
        /\ \/ pc[c] = "queued" /\ (Goto(c, "writing") \/ Goto(c, "failed"))
           \/ pc[c] = "writing" /\ (Goto(c, "ended") \/ Goto(c, "failed"))
    BY <1>5 DEF Mutate, Written
  <2> QED
    BY <2>1, OneMoves DEF Flow
<1>6. ASSUME NEW id \in Ids, Read(id) \/ Timeout(id) PROVE Onward
  <2>1. UNCHANGED <<call, holds, awaits>> /\ id[1] \in Calls
    BY <1>6 DEF Read, Timeout, Ids
  <2>2. CASE pc' = pc
    BY <2>1, <2>2, NoneMoves
  <2>3. CASE id \in pending /\ id[2] = "ask"
    <3>1. id = <<id[1], "ask">>
      BY <2>3 DEF Ids
    <3>2. pc[id[1]] = "asking"
      BY <2>1, <2>3, <3>1 DEF Askers
    <3>3. \E to \in {"ended", "queued", "failed"} : Goto(id[1], to)
      BY <1>6, <2>3 DEF Read, Timeout, TakeAnswer
    <3> QED
      BY <2>1, <3>2, <3>3, OneMoves DEF Flow
  <2> QED
    BY <1>6, <2>2, <2>3 DEF Read, Timeout, TakeGreeting
<1>7. CASE CloseRuntimes \/ \E c \in Calls : Exit(c)
  <2>1. UNCHANGED <<call, holds, awaits>> /\ \E rs : End(rs, pc)
    BY <1>7 DEF CloseRuntimes, Exit
  <2>2. \A x \in Calls : pc'[x] = pc[x] \/ (pc[x] = "asking" /\ pc'[x] = "failed")
    BY <2>1, EndLeaves
  <2> QED
    BY <2>1, <2>2 DEF Onward, Flow
<1>8. CASE \/ \E c \in Calls : \/ Connects(c) \/ ConnectFails(c) \/ Confirmed(c) \/ GreetFails(c)
                               \/ AnswerDesktop(c)
           \/ Close \/ UNCHANGED vars
  <2>1. UNCHANGED <<call, pc, awaits, holds>>
    BY <1>8 DEF Connects, ConnectFails, Confirmed, GreetFails, AnswerDesktop, Close, vars
  <2> QED
    BY <2>1, NoneMoves
<1>9. \E a : a \in Accounts
  BY DefaultIsAnAccount
<1> QED
  BY <1>1, <1>2, <1>3, <1>4, <1>5, <1>6, <1>7, <1>8, <1>9 DEF Next

\* only Use and the handshake send something
LEMMA WhoSends ==
  ASSUME TypeOK, [Next]_vars
  PROVE  \/ pending' \subseteq pending
         \/ \E c \in Calls : \/ pending' = pending \cup {<<c, "greet">>}
                             \/ /\ pending' = pending \cup {<<c, "ask">>} /\ pc'[c] = "asking"
                                /\ call[c].kind = "refresh" /\ pc[c] # "idle"
<1>1. ASSUME NEW c \in Calls, Loaded(c) \/ Greeted(c)
      PROVE  \/ pending' = pending \/ pending' = pending \cup {<<c, "greet">>}
             \/ /\ pending' = pending \cup {<<c, "ask">>} /\ pc'[c] = "asking"
                /\ call[c].kind = "refresh" /\ pc[c] # "idle"
  BY <1>1 DEF Loaded, Greeted, Ensure, Use, Send, Resume, Await, Goto, brokerVars, TypeOK
<1>2. ASSUME NEW c \in Calls, Initialize(c) \/ Connects(c) \/ ConnectFails(c) \/ Confirmed(c)
                              \/ GreetFails(c) \/ Mutate(c) \/ Written(c) \/ DeleteStarted(c)
                              \/ Exit(c) \/ AnswerDesktop(c)
      PROVE  pending' \subseteq pending
  BY <1>2 DEF Initialize, Connects, ConnectFails, Confirmed, GreetFails, Mutate, Written,
              DeleteStarted, Remove, Exit, End, AnswerDesktop, brokerVars
<1>3. ASSUME NEW x \in Calls, NEW a \in Accounts,
             Delete(x, a) \/ Get(x, "forward", a) \/ Get(x, "refresh", a)
      PROVE  pending' \subseteq pending
  BY <1>3 DEF Delete, Remove, End, Get, brokerVars
<1>4. ASSUME NEW id \in Ids, Read(id) \/ Timeout(id) PROVE pending' \subseteq pending
  BY <1>4 DEF Read, Timeout
<1>5. ASSUME Close \/ CloseRuntimes \/ UNCHANGED vars PROVE pending' \subseteq pending
  BY <1>5 DEF Close, CloseRuntimes, End, vars, brokerVars
<1> QED
  BY <1>1, <1>2, <1>3, <1>4, <1>5 DEF Next

\* who stops asking has no question pending
LEMMA AskedNoMore ==
  ASSUME TypeOK, Askers, [Next]_vars, NEW c \in Calls, pc[c] = "asking", pc'[c] # "asking"
  PROVE  <<c, "ask">> \notin pending'
<1> DEFINE id == <<c, "ask">>
<1>1. id \in Ids /\ id[1] = c /\ id[2] = "ask" /\ At(id) = holds[c]
  BY DEF Ids, At
<1>2. ASSUME NEW rs, NEW d \in Calls, pc[d] # "asking",
             End(rs, pc) \/ End(rs, [pc EXCEPT ![d] = "queued"])
      PROVE  id \notin pending'
  <2>1. pc[c] = "asking" /\ [pc EXCEPT ![d] = "queued"][c] = "asking"
    BY <1>2 DEF TypeOK
  <2>2. holds[c] \in rs
    BY <1>2, <2>1 DEF End
  <2> QED
    BY <1>1, <1>2, <2>2 DEF End
<1>3. ASSUME NEW d \in Calls, pc[d] # "asking", \E to : Goto(d, to) PROVE FALSE
  BY <1>3 DEF Goto, TypeOK
<1>4. ASSUME NEW d \in Calls, NEW a \in Accounts,
             Initialize(d) \/ Get(d, "forward", a) \/ Get(d, "refresh", a) \/ Delete(d, a)
      PROVE  id \notin pending'
  BY <1>2, <1>3, <1>4 DEF Initialize, Get, Delete, Begin, Load, Await, Remove
<1>5. ASSUME NEW d \in Calls, Loaded(d) \/ Greeted(d) \/ Mutate(d) \/ Written(d) PROVE FALSE
  BY <1>3, <1>5 DEF Loaded, Greeted, Mutate, Written, Ensure, Use, Resume, Await
<1>6. ASSUME NEW d \in Calls, DeleteStarted(d) PROVE id \notin pending'
  BY <1>2, <1>3, <1>6 DEF DeleteStarted, Remove
<1>7. ASSUME NEW d \in Ids, Read(d) \/ Timeout(d) PROVE id \notin pending'
  <2>1. d \in pending /\ d[2] = "ask" /\ (\E to : Goto(d[1], to)) /\ pending' = pending \ {d}
    BY <1>7 DEF Read, Timeout, TakeGreeting, TakeAnswer
  <2>2. d[1] = c
    BY <2>1 DEF Goto, Ids, TypeOK
  <2> QED
    BY <2>1, <2>2 DEF Ids
<1>8. ASSUME NEW d \in Calls, CloseRuntimes \/ Exit(d) PROVE id \notin pending'
  <2>1. PICK rs : End(rs, pc)
    BY <1>8 DEF CloseRuntimes, Exit
  <2>2. holds[c] \in rs
    BY <2>1 DEF End
  <2> QED
    BY <1>1, <2>1, <2>2 DEF End
<1>9. ASSUME \/ \E d \in Calls : \/ Connects(d) \/ ConnectFails(d) \/ Confirmed(d) \/ GreetFails(d)
                                \/ AnswerDesktop(d)
             \/ Close \/ UNCHANGED vars
      PROVE  FALSE
  BY <1>9 DEF Connects, ConnectFails, Confirmed, GreetFails, AnswerDesktop, Close, vars
<1>10. \E a : a \in Accounts
  BY DefaultIsAnAccount
<1> QED
  BY <1>4, <1>5, <1>6, <1>7, <1>8, <1>9, <1>10 DEF Next

\* so whoever has a question pending asks
LEMMA AskersStep ==
  ASSUME TypeOK, Askers, [Next]_vars
  PROVE  Askers'
<1> SUFFICES ASSUME NEW c \in Calls, <<c, "ask">> \in pending'
             PROVE  pc'[c] = "asking" /\ call'[c].kind = "refresh"
  BY DEF Askers
<1>1. Onward
  BY OnwardStep
<1>2. CASE <<c, "ask">> \notin pending
  <2>1. pc'[c] = "asking" /\ call[c].kind = "refresh" /\ pc[c] # "idle"
    BY <1>2, WhoSends
  <2> QED
    BY <1>1, <2>1 DEF Onward
<1>3. CASE <<c, "ask">> \in pending
  <2>1. pc[c] = "asking" /\ call'[c].kind = "refresh" /\ pc'[c] \in {"asking", "queued", "ended", "failed"}
    BY <1>1, <1>3 DEF Askers, Onward, Flow
  <2>2. pc'[c] = "asking"
    BY <2>1, AskedNoMore
  <2> QED
    BY <2>1, <2>2
<1> QED
  BY <1>2, <1>3

-----------------------------------------------------------------------------
(* Late answers *)

\* who may be answered has its runtime and does not come back to where it sends
SentOnce == \A id \in pending \cup owed :
  /\ pc[id[1]] \notin {"idle", "loading"}
  /\ id[2] = "ask" => pc[id[1]] # "greeting"
  /\ holds[id[1]] \in Calls

\* the table holds the newest of what was retired, as many as it can
IsEnd(s, l) ==
  /\ Len(s) <= Len(l) /\ Len(s) <= MaxRetired
  /\ Len(s) = Len(l) \/ Len(s) = MaxRetired
  /\ \A i \in 1..Len(s) : s[i] = l[Len(l) - Len(s) + i]

NewestKept == \A r \in Calls : IsEnd(retired[r], log[r])

\* what may still be answered is pending or was retired once
Logged(id) == \E i \in DOMAIN log[At(id)] : log[At(id)][i] = id

PendingOrLogged == \A id \in owed : id \in pending \/ Logged(id)

Inside == SentOnce /\ NewestKept /\ PendingOrLogged

\* the arithmetic of a full table: positions from the end move by one
LEMMA Shift ==
  ASSUME NEW m \in Nat, NEW n \in Nat, m <= n, NEW i \in 1..m
  PROVE  /\ n + 1 - m + i \in 1..n + 1
         /\ n + 1 - m + i = n + 1 <=> i = m
         /\ i # m => i + 1 \in 1..m /\ n - m + (i + 1) = n + 1 - m + i
         /\ i \in 1..m + 1 /\ i + 1 \in 1..m + 1 /\ (i + 1 = m + 1 <=> i = m)
OBVIOUS

LEMMA IsEndAppend ==
  ASSUME NEW s \in Seq(Ids), NEW l \in Seq(Ids), NEW id \in Ids, IsEnd(s, l)
  PROVE  IsEnd(Newest(Append(s, id)), Append(l, id))
<1> DEFINE m == Len(s)
           n == Len(l)
           s1 == Append(s, id)
           l1 == Append(l, id)
<1>1. m \in Nat /\ n \in Nat /\ MaxRetired \in Nat
  BY SomeAreRetired
<1>2. /\ s1 \in Seq(Ids) /\ Len(s1) = m + 1
      /\ \A i \in 1..m + 1 : s1[i] = IF i = m + 1 THEN id ELSE s[i]
  OBVIOUS
<1>3. /\ l1 \in Seq(Ids) /\ Len(l1) = n + 1
      /\ \A i \in 1..n + 1 : l1[i] = IF i = n + 1 THEN id ELSE l[i]
  OBVIOUS
<1>4. /\ m <= n /\ m <= MaxRetired /\ (m = n \/ m = MaxRetired)
      /\ \A i \in 1..m : s[i] = l[n - m + i]
  BY DEF IsEnd
<1>5. CASE m + 1 > MaxRetired
  <2> DEFINE t == Tail(s1)
  <2>1. s1 # <<>>
    BY <1>1, <1>2
  <2>2. t \in Seq(Ids) /\ Len(t) = m /\ \A i \in 1..m : t[i] = s1[i + 1]
    <3>1. /\ Tail(s1) \in Seq(Ids) /\ Len(Tail(s1)) = Len(s1) - 1
          /\ \A i \in 1..Len(Tail(s1)) : Tail(s1)[i] = s1[i + 1]
      BY <1>2, <2>1, HeadTailProperties
    <3> HIDE DEF m, s1
    <3> QED
      BY <1>1, <1>2, <3>1
  <2>3. Newest(s1) = t
    BY <1>2, <1>5 DEF Newest
  <2> HIDE DEF t, m, n, s1, l1
  <2>4. m = MaxRetired
    BY <1>1, <1>4, <1>5
  <2>5. ASSUME NEW i \in 1..m
        PROVE  t[i] = l1[n + 1 - m + i]
    <3>1. t[i] = IF i = m THEN id ELSE s[i + 1]
      BY <1>1, <1>2, <1>4, <2>2, Shift
    <3>2. l1[n + 1 - m + i] = IF i = m THEN id ELSE l[n + 1 - m + i]
      BY <1>1, <1>3, <1>4, Shift
    <3>3. i # m => s[i + 1] = l[n + 1 - m + i]
      BY <1>1, <1>4, Shift
    <3> QED
      BY <3>1, <3>2, <3>3
  <2>6. IsEnd(t, l1)
    <3>1. m <= n + 1 /\ m <= MaxRetired
      BY <1>1, <1>4
    <3>2. Len(t) <= Len(l1) /\ Len(t) <= MaxRetired /\ Len(t) = MaxRetired
      BY <1>3, <2>2, <2>4, <3>1
    <3>3. ASSUME NEW i \in 1..Len(t) PROVE t[i] = l1[Len(l1) - Len(t) + i]
      <4>1. i \in 1..m /\ Len(l1) - Len(t) + i = n + 1 - m + i
        BY <1>1, <1>3, <2>2
      <4> QED
        BY <2>5, <4>1
    <3> QED
      BY <3>2, <3>3, Zenon DEF IsEnd
  <2> QED
    BY <2>3, <2>6 DEF s1, l1
<1>6. CASE ~(m + 1 > MaxRetired)
  <2>1. Newest(s1) = s1
    BY <1>2, <1>6 DEF Newest
  <2> HIDE DEF m, n, s1, l1
  <2>2. m = n /\ m + 1 <= MaxRetired /\ \A i \in 1..m : n - m + i = i
    BY <1>1, <1>4, <1>6
  <2>3. \A i \in 1..m + 1 : s1[i] = l1[n + 1 - (m + 1) + i]
    <3>1. ASSUME NEW i \in 1..m + 1 PROVE s1[i] = l1[n + 1 - (m + 1) + i]
      <4>1. n + 1 - (m + 1) + i = i /\ (i # m + 1 => i \in 1..m)
        BY <1>1, <2>2
      <4> QED
        BY <1>2, <1>3, <1>4, <2>2, <4>1
    <3> QED
      BY <3>1
  <2>4. IsEnd(s1, l1)
    <3>1. Len(s1) = Len(l1) /\ Len(s1) <= MaxRetired /\ Len(s1) <= Len(l1)
      BY <1>1, <1>2, <1>3, <2>2
    <3>2. ASSUME NEW i \in 1..Len(s1) PROVE s1[i] = l1[Len(l1) - Len(s1) + i]
      <4>1. i \in 1..m + 1 /\ Len(l1) - Len(s1) + i = n + 1 - (m + 1) + i
        BY <1>1, <1>2, <1>3
      <4> QED
        BY <2>3, <4>1
    <3> QED
      BY <3>1, <3>2, Zenon DEF IsEnd
  <2> QED
    BY <2>1, <2>4 DEF s1, l1
<1> QED
  BY <1>5, <1>6

\* an id that was retired is in the table, or MaxRetired others came after it
LEMMA LoggedIsKnown == TypeOK /\ Inside => LateAnswersStayInside
<1> SUFFICES ASSUME TypeOK, Inside, NEW id \in owed, id \notin pending
             PROVE  Forgot(id) \/ \E i \in DOMAIN retired[At(id)] : retired[At(id)][i] = id
  BY DEF LateAnswersStayInside
<1> DEFINE r == At(id)
           n == Len(log[r])
           m == Len(retired[r])
<1>1. r \in Calls
  BY DEF Inside, SentOnce, At, TypeOK, Ids
<1>2. PICK i \in DOMAIN log[r] : log[r][i] = id
  BY DEF Inside, PendingOrLogged, Logged
<1>3. /\ DOMAIN log[r] = 1..n /\ DOMAIN retired[r] = 1..m
      /\ n \in Nat /\ m \in Nat /\ MaxRetired \in Nat
  BY <1>1, SomeAreRetired DEF TypeOK
<1>4. /\ m <= n /\ (m = n \/ m = MaxRetired)
      /\ \A k \in 1..m : retired[r][k] = log[r][n - m + k]
  BY <1>1 DEF Inside, NewestKept, IsEnd
<1>5. Forgot(id) <=> \E k \in DOMAIN log[r] : log[r][k] = id /\ n - k >= MaxRetired
  BY DEF Forgot
<1> HIDE DEF n, m, r
<1>6. CASE i <= n - m
  <2>1. n - i >= MaxRetired
    BY <1>2, <1>3, <1>4, <1>6
  <2> QED
    BY <1>2, <1>5, <2>1
<1>7. CASE i > n - m
  <2>1. i - (n - m) \in 1..m /\ n - m + (i - (n - m)) = i
    BY <1>2, <1>3, <1>4, <1>7
  <2>2. retired[r][i - (n - m)] = id
    BY <1>2, <1>4, <2>1
  <2> QED
    BY <1>3, <2>1, <2>2 DEF r
<1>8. i <= n - m \/ i > n - m
  BY <1>2, <1>3
<1> QED
  BY <1>6, <1>7, <1>8

LEMMA InsideKept ==
  ASSUME TypeOK, Inside, Onward, retired' = retired, log' = log, pending' \subseteq pending,
         owed' \subseteq owed, \A id \in owed' : id \in pending => id \in pending'
  PROVE  Inside'
<1>1. \A id \in Ids : id[1] \in Calls
  BY DEF Ids
<1>2. SentOnce'
  <2>1. ASSUME NEW d \in pending \cup owed
        PROVE  /\ pc'[d[1]] \notin {"idle", "loading"} /\ (d[2] = "ask" => pc'[d[1]] # "greeting")
               /\ holds'[d[1]] \in Calls
    <3>1. d[1] \in Calls
      BY <1>1 DEF TypeOK
    <3>2. /\ pc[d[1]] \notin {"idle", "loading"} /\ (d[2] = "ask" => pc[d[1]] # "greeting")
          /\ holds[d[1]] \in Calls
      BY DEF Inside, SentOnce
    <3> QED
      BY <3>1, <3>2 DEF Onward, Flow
  <2>2. pending' \cup owed' \subseteq pending \cup owed
    OBVIOUS
  <2> QED
    BY <2>1, <2>2 DEF SentOnce
<1>3. NewestKept'
  BY DEF Inside, NewestKept
<1>4. PendingOrLogged'
  <2> SUFFICES ASSUME NEW id \in owed', id \notin pending'
               PROVE  Logged(id)'
    BY DEF PendingOrLogged
  <2>1. id \in Ids /\ id[1] \in Calls /\ id \in owed /\ id \notin pending
    BY <1>1 DEF TypeOK
  <2>2. At(id)' = At(id)
    BY <2>1 DEF Inside, SentOnce, Onward, At
  <2> QED
    BY <2>1, <2>2 DEF Inside, PendingOrLogged, Logged
<1> QED
  BY <1>2, <1>3, <1>4 DEF Inside

\* what stops being pending is the newest of the retired
LEMMA InsideRetired ==
  ASSUME TypeOK, Inside, Onward,
         NEW id \in pending, Retire(id), pending' = pending \ {id}, owed' \subseteq owed
  PROVE  Inside'
<1> DEFINE r == At(id)
<1>1. id \in Ids /\ r \in Calls /\ \A d \in Ids : d[1] \in Calls
  BY DEF TypeOK, Ids, Inside, SentOnce, At
<1>2. /\ retired'[r] = Newest(Append(retired[r], id)) /\ log'[r] = Append(log[r], id)
      /\ \A q \in Calls \ {r} : retired'[q] = retired[q] /\ log'[q] = log[q]
      /\ retired[r] \in Seq(Ids) /\ log[r] \in Seq(Ids)
  BY <1>1 DEF Retire, TypeOK
<1>3. SentOnce'
  <2>1. ASSUME NEW d \in pending \cup owed
        PROVE  /\ pc'[d[1]] \notin {"idle", "loading"} /\ (d[2] = "ask" => pc'[d[1]] # "greeting")
               /\ holds'[d[1]] \in Calls
    <3>1. d[1] \in Calls
      BY <1>1 DEF TypeOK
    <3>2. /\ pc[d[1]] \notin {"idle", "loading"} /\ (d[2] = "ask" => pc[d[1]] # "greeting")
          /\ holds[d[1]] \in Calls
      BY DEF Inside, SentOnce
    <3> QED
      BY <3>1, <3>2 DEF Onward, Flow
  <2>2. pending' \cup owed' \subseteq pending \cup owed
    OBVIOUS
  <2> QED
    BY <2>1, <2>2 DEF SentOnce
<1>4. NewestKept'
  <2>1. ASSUME NEW q \in Calls PROVE IsEnd(retired'[q], log'[q])
    <3>1. CASE q = r
      BY <1>1, <1>2, <3>1, IsEndAppend DEF Inside, NewestKept
    <3>2. CASE q # r
      BY <1>2, <3>2 DEF Inside, NewestKept
    <3> QED
      BY <3>1, <3>2
  <2> QED
    BY <2>1 DEF NewestKept
<1>5. \A q \in Calls : \A i \in DOMAIN log[q] : i \in DOMAIN log'[q] /\ log'[q][i] = log[q][i]
  BY <1>1, <1>2
<1>6. \E i \in DOMAIN log'[r] : log'[r][i] = id
  <2>1. Len(log[r]) + 1 \in DOMAIN log'[r] /\ log'[r][Len(log[r]) + 1] = id
    BY <1>1, <1>2
  <2> QED
    BY <2>1
<1> HIDE DEF r
<1>7. PendingOrLogged'
  <2> SUFFICES ASSUME NEW d \in owed', d \notin pending'
               PROVE  \E i \in DOMAIN log'[At(d)'] : log'[At(d)'][i] = d
    BY DEF PendingOrLogged, Logged
  <2>1. d \in Ids /\ d[1] \in Calls /\ d \in owed
    BY <1>1 DEF TypeOK
  <2>2. At(d)' = At(d) /\ At(d) \in Calls
    BY <2>1 DEF Inside, SentOnce, Onward, At
  <2>3. CASE d = id
    BY <1>6, <2>2, <2>3 DEF r
  <2>4. CASE d # id
    <3>1. PICK i \in DOMAIN log[At(d)] : log[At(d)][i] = d
      BY <2>1, <2>4 DEF Inside, PendingOrLogged, Logged
    <3> QED
      BY <1>5, <2>2, <3>1
  <2> QED
    BY <2>3, <2>4
<1> QED
  BY <1>3, <1>4, <1>7 DEF Inside

\* what is sent is pending
LEMMA InsideSent ==
  ASSUME TypeOK, Inside, Onward, NEW id \in Ids, NEW r \in Calls, Send(id, r),
         pc'[id[1]] \notin {"idle", "loading"}, id[2] = "ask" => pc'[id[1]] # "greeting",
         holds'[id[1]] \in Calls
  PROVE  Inside'
<1>1. \A d \in Ids : d[1] \in Calls
  BY DEF Ids
<1>2. /\ pending' = pending \cup {id} /\ owed' \subseteq owed \cup {id}
      /\ retired' = retired /\ log' = log
  BY DEF Send
<1>3. \A d \in pending \cup owed :
        /\ d \in Ids
        /\ pc[d[1]] \notin {"idle", "loading"} /\ (d[2] = "ask" => pc[d[1]] # "greeting")
        /\ holds[d[1]] \in Calls
  BY DEF TypeOK, Inside, SentOnce
<1>4. SentOnce'
  <2>1. ASSUME NEW d \in pending \cup owed
        PROVE  /\ pc'[d[1]] \notin {"idle", "loading"} /\ (d[2] = "ask" => pc'[d[1]] # "greeting")
               /\ holds'[d[1]] \in Calls
    BY <1>1, <1>3, <2>1 DEF Onward, Flow
  <2> QED
    BY <1>2, <2>1 DEF SentOnce
<1>5. NewestKept'
  BY <1>2 DEF Inside, NewestKept
<1>6. PendingOrLogged'
  <2> SUFFICES ASSUME NEW d \in owed', d \notin pending'
               PROVE  Logged(d)'
    BY DEF PendingOrLogged
  <2>1. d \in owed /\ d \in Ids /\ d \notin pending
    BY <1>2 DEF TypeOK
  <2>2. At(d)' = At(d)
    BY <1>1, <1>3, <2>1 DEF At, Onward
  <2> QED
    BY <1>2, <2>1, <2>2 DEF Inside, PendingOrLogged, Logged
<1> QED
  BY <1>4, <1>5, <1>6 DEF Inside

LEMMA InsideUse ==
  ASSUME TypeOK, Inside, Onward, NEW c \in Calls, NEW r \in Calls, Use(c, r),
         pc[c] \in {"loading", "greeting"}, holds'[c] = r
  PROVE  Inside'
<1>1. CASE UNCHANGED brokerVars
  BY <1>1, InsideKept DEF brokerVars
<1>2. CASE Send(<<c, "ask">>, r) /\ Resume(c, "asking")
  <2>1. <<c, "ask">> \in Ids /\ <<c, "ask">>[1] = c /\ <<c, "ask">>[2] = "ask"
    BY DEF Ids
  <2>2. pc'[c] = "asking"
    BY <1>2 DEF Resume, Await, Goto, TypeOK
  <2> QED
    BY <1>2, <2>1, <2>2, InsideSent
<1> QED
  BY <1>1, <1>2 DEF Use

LEMMA InsideGreet ==
  ASSUME IInv, Inside, Onward, NEW c \in Calls, Loaded(c) \/ Greeted(c)
  PROVE  Inside'
<1> USE DEF IInv
<1>1. CASE UNCHANGED brokerVars
  BY <1>1, InsideKept DEF brokerVars
<1>2. CASE Loaded(c)
  <2>1. pc[c] = "loading" /\ awaits[c] \in Calls
    BY <1>2 DEF Loaded, Promises, Waits
  <2>2. CASE holds' = [holds EXCEPT ![c] = awaits[c]] /\ Use(c, awaits[c])
    BY <2>1, <2>2, InsideUse DEF TypeOK
  <2>3. CASE /\ holds' = [holds EXCEPT ![c] = awaits[c]] /\ Send(<<c, "greet">>, awaits[c])
             /\ Await(c, c, "greeting")
    <3>1. <<c, "greet">> \in Ids /\ <<c, "greet">>[1] = c /\ <<c, "greet">>[2] # "ask"
      BY DEF Ids
    <3>2. pc'[c] = "greeting" /\ holds'[c] = awaits[c]
      BY <2>3 DEF Await, Goto, TypeOK
    <3> QED
      BY <2>1, <2>3, <3>1, <3>2, InsideSent
  <2> QED
    BY <1>1, <1>2, <2>2, <2>3 DEF Loaded, Ensure, brokerVars
<1>3. CASE Greeted(c)
  <2>1. pc[c] = "greeting" /\ holds[c] \in Calls /\ holds' = holds
    BY <1>3 DEF Greeted, Promises, Holds
  <2> QED
    BY <1>1, <1>3, <2>1, InsideUse DEF Greeted, brokerVars
<1> QED
  BY <1>2, <1>3

LEMMA InsideRest ==
  ASSUME TypeOK, Inside, Onward,
         \/ \E c \in Calls : \/ Initialize(c) \/ Connects(c) \/ ConnectFails(c) \/ Confirmed(c)
                            \/ GreetFails(c) \/ AnswerDesktop(c) \/ DeleteStarted(c) \/ Mutate(c)
                            \/ Written(c) \/ Exit(c)
         \/ \E c \in Calls, a \in Accounts :
              Delete(c, a) \/ Get(c, "forward", a) \/ Get(c, "refresh", a)
         \/ Close \/ CloseRuntimes \/ UNCHANGED vars
  PROVE  Inside'
<1>1. UNCHANGED brokerVars \/ \E rs, p : End(rs, p)
  BY ZenonT(30) DEF Initialize, Connects, ConnectFails, Confirmed, GreetFails, AnswerDesktop, DeleteStarted,
         Mutate, Written, Exit, Delete, Remove, Get, Close, CloseRuntimes, vars, brokerVars
<1>2. CASE UNCHANGED brokerVars
  BY <1>2, InsideKept DEF brokerVars
<1>3. CASE \E rs, p : End(rs, p)
  <2>1. /\ pending' \subseteq pending /\ owed' \subseteq owed /\ retired' = retired /\ log' = log
        /\ \A id \in owed' : id \in pending => id \in pending'
    BY <1>3, EndLeaves
  <2> QED
    BY <2>1, InsideKept
<1> QED
  BY <1>1, <1>2, <1>3

LEMMA InsideStep ==
  ASSUME IInv, Askers, Inside, [Next]_vars
  PROVE  Inside'
<1>1. TypeOK /\ Onward
  BY OnwardStep DEF IInv
<1>2. ASSUME NEW c \in Calls, Loaded(c) \/ Greeted(c) PROVE Inside'
  BY <1>1, <1>2, InsideGreet
<1>3. ASSUME NEW id \in Ids, Read(id) \/ Timeout(id) PROVE Inside'
  <2>1. CASE id \in pending
    <3>1. pending' = pending \ {id} /\ Retire(id) /\ owed' \subseteq owed
      BY <1>3, <2>1 DEF Read, Timeout
    <3> QED
      BY <1>1, <2>1, <3>1, InsideRetired
  <2>2. CASE id \notin pending
    BY <1>1, <1>3, <2>2, InsideKept DEF Read, Timeout
  <2> QED
    BY <2>1, <2>2
<1> QED
  BY <1>1, <1>2, <1>3, InsideRest DEF Next

LEMMA AskersInvariance == ASSUME InitializeIsEarly PROVE Spec => []Askers
<1>1. Init => Askers
  BY DEF Init, Askers
<1>2. IInv => TypeOK
  BY DEF IInv
<1> QED
  BY <1>1, <1>2, AskersStep, Invariance, PTL DEF Spec

\* No answer to an internal request reaches the Desktop, however late it comes
\* and whatever timed out or was answered before, unless its broker has retired
\* MAX_RETIRED_IDS other requests after it (official-request-broker.ts): for any
\* number of requests, and any size of the table.
THEOREM LateAnswersAreKnown ==
  ASSUME InitializeIsEarly
  PROVE  Spec => []LateAnswersStayInside
<1>1. Init => Inside
  BY SomeAreRetired DEF Init, Inside, SentOnce, NewestKept, IsEnd, PendingOrLogged
<1>2. IInv /\ Inside => LateAnswersStayInside
  BY LoggedIsKnown DEF IInv
<1> QED
  BY <1>1, <1>2, InsideStep, Invariance, AskersInvariance, PTL DEF Spec

-----------------------------------------------------------------------------
(* Deletions *)

Deletes(c, a) == call[c] = [kind |-> "delete", account |-> a]

Refreshes(c, a) == call[c] = [kind |-> "refresh", account |-> a]

\* a deletion goes its own way, and never concerns the default account
Deleters == \A c \in Calls, a \in Accounts : pc[c] \notin {"idle", "failed"} /\ Deletes(c, a) =>
  a # DefaultAccount /\ pc[c] \in {"removing", "queued", "writing", "ended"}

\* the queue holds each change once, and the one that is written first
Queue ==
  /\ \A m, n \in DOMAIN mutations : mutations[m] = mutations[n] => m = n
  /\ \A n \in DOMAIN mutations : pc[mutations[n]] \in {"queued", "writing"}
  /\ \A c \in Calls : pc[c] = "writing" => mutations # <<>> /\ mutations[1] = c

\* only a runtime that is open may still answer, and it is one of the call's account
OwedOpen == \A id \in owed :
  /\ pc[id[1]] \notin {"idle", "loading"}
  /\ holds[id[1]] \in Calls /\ Account(holds[id[1]]) = Account(id[1])
  /\ runtime[holds[id[1]]].open

\* nothing runs or starts for the account
Still(a) == pool[a].starting = None /\ \A r \in Calls : runtime[r].open => Account(r) # a

\* no change that brings the account back waits behind c in the queue
NoneBehind(c, a) == \A m, n \in DOMAIN mutations :
  Refreshes(mutations[m], a) /\ mutations[n] = c => m < n

NoneQueued(a) == \A m \in DOMAIN mutations : ~Refreshes(mutations[m], a)

\* what a deletion has achieved by now
Progress(c, a) ==
  /\ pc[c] = "removing" => pool[a].starting \in {None, awaits[c]} /\ awaits[c] \in Calls
  /\ pc[c] \in {"queued", "writing", "ended"} => Still(a)
  /\ pc[c] = "queued" => NoneBehind(c, a)
  /\ pc[c] \in {"writing", "ended"} => a \notin repo /\ NoneQueued(a)

Leaves == \A c \in Calls, a \in Accounts : pc[c] # "idle" /\ Deletes(c, a) => Progress(c, a)

GInv == Deleters /\ Queue /\ OwedOpen /\ Leaves

LEMMA CallKinds ==
  ASSUME TypeOK, Begun, NEW c \in Calls, pc[c] # "idle"
  PROVE  /\ Account(c) \in Accounts
         /\ call[c].kind = "delete" => Deletes(c, Account(c))
         /\ call[c].kind = "refresh" => Refreshes(c, Account(c))
         /\ \A a \in Accounts : /\ Deletes(c, a) => call[c].kind = "delete" /\ Account(c) = a
                                /\ Refreshes(c, a) => call[c].kind = "refresh" /\ Account(c) = a
BY DEF Begun, Call, Deletes, Refreshes, Account

LEMMA BeginKinds ==
  ASSUME TypeOK, NEW c \in Calls, NEW kind, NEW a, Begin(c, kind, a)
  PROVE  pc[c] = "idle" /\ call'[c].kind = kind /\ call'[c].account = a
           /\ call'[c] = [kind |-> kind, account |-> a]
           /\ \A x \in Calls : x # c => call'[x] = call[x]
BY DEF Begin, TypeOK

\* who moves a deletion
LEMMA DeletionMoves ==
  ASSUME IInv, Askers, Deleters, [Next]_vars, NEW c \in Calls, NEW a \in Accounts,
         Deletes(c, a)', pc'[c] # pc[c], pc'[c] \notin {"idle", "failed"}
  PROVE  Delete(c, a) \/ DeleteStarted(c) \/ Mutate(c) \/ Written(c)
<1>1. TypeOK /\ Begun /\ Onward
  BY OnwardStep DEF IInv
<1>2. ASSUME pc[c] # "idle"
      PROVE  Deletes(c, a) /\ pc[c] \in {"removing", "queued", "writing", "ended"}
  BY <1>1, <1>2 DEF Deletes, Onward, Deleters, Flow
<1>3. ASSUME NEW d \in Calls, \E to : Goto(d, to)
      PROVE  d = c
  BY <1>1, <1>3 DEF Goto, TypeOK
<1>4. ASSUME NEW rs, NEW d \in Calls, End(rs, [pc EXCEPT ![d] = "queued"])
      PROVE  d = c
  <2>1. \A x \in Calls : \/ pc'[x] = [pc EXCEPT ![d] = "queued"][x]
                         \/ [pc EXCEPT ![d] = "queued"][x] = "asking" /\ pc'[x] = "failed"
    BY <1>4, EndLeaves
  <2> QED
    BY <1>1, <2>1 DEF TypeOK
<1>5. ASSUME NEW rs, End(rs, pc)
      PROVE  FALSE
  BY <1>1, <1>5, EndLeaves
<1>6. ASSUME NEW d \in Calls, NEW b \in Accounts,
             Initialize(d) \/ Get(d, "forward", b) \/ Get(d, "refresh", b)
      PROVE  FALSE
  <2>1. d = c
    BY <1>3, <1>6 DEF Initialize, Get, Load, Await
  <2>2. call'[d].kind # "delete"
    <3>1. call'[d].kind \in {"initialize", "forward", "refresh"}
      BY <1>1, <1>6 DEF Initialize, Get, Begin, TypeOK
    <3> QED
      BY <3>1
  <2> QED
    BY <2>1, <2>2 DEF Deletes
<1>7. ASSUME NEW d \in Calls, NEW b \in Accounts, Delete(d, b)
      PROVE  Delete(c, a)
  <2>1. d = c
    BY <1>3, <1>4, <1>7 DEF Delete, Remove, Await
  <2>2. call'[d] = [kind |-> "delete", account |-> b]
    BY <1>1, <1>7, BeginKinds DEF Delete
  <2>3. a = b
    BY <2>1, <2>2 DEF Deletes
  <2> QED
    BY <1>7, <2>1, <2>3
<1>8. ASSUME NEW d \in Calls, Loaded(d) \/ Greeted(d) PROVE FALSE
  <2>1. pc[d] \in {"loading", "greeting"} /\ \E to : Goto(d, to)
    BY <1>8 DEF Loaded, Greeted, Ensure, Use, Resume, Await
  <2> QED
    BY <1>2, <1>3, <2>1
<1>9. ASSUME NEW d \in Calls, DeleteStarted(d) \/ Mutate(d) \/ Written(d)
      PROVE  DeleteStarted(c) \/ Mutate(c) \/ Written(c)
  BY <1>3, <1>4, <1>9 DEF DeleteStarted, Remove, Mutate, Written
<1>10. ASSUME NEW id \in Ids, Read(id) \/ Timeout(id) PROVE FALSE
  <2>1. id \in pending /\ id[2] = "ask" /\ (\E to : Goto(id[1], to)) /\ id[1] \in Calls
    BY <1>10 DEF Read, Timeout, TakeGreeting, TakeAnswer, Ids
  <2>2. id[1] = c
    BY <1>3, <2>1
  <2>3. pc[c] = "asking"
    BY <2>1, <2>2 DEF Ids, Askers
  <2> QED
    BY <1>2, <2>3
<1>11. ASSUME CloseRuntimes \/ \E d \in Calls : Exit(d) PROVE FALSE
  BY <1>5, <1>11 DEF CloseRuntimes, Exit
<1>12. ASSUME \/ \E d \in Calls : \/ Connects(d) \/ ConnectFails(d) \/ Confirmed(d) \/ GreetFails(d)
                                  \/ AnswerDesktop(d)
              \/ Close \/ UNCHANGED vars
       PROVE  FALSE
  BY <1>12 DEF Connects, ConnectFails, Confirmed, GreetFails, AnswerDesktop, Close, vars
<1>13. \E b : b \in Accounts
  BY DefaultIsAnAccount
<1> QED
  BY <1>6, <1>7, <1>8, <1>9, <1>10, <1>11, <1>12, <1>13 DEF Next

LEMMA DeleteQueues ==
  ASSUME TypeOK, NEW c \in Calls, NEW a \in Accounts, Remove(c, a)
  PROVE  pc'[c] = "queued"
<1>1. \A x \in Calls : \/ pc'[x] = [pc EXCEPT ![c] = "queued"][x]
                       \/ [pc EXCEPT ![c] = "queued"][x] = "asking" /\ pc'[x] = "failed"
  BY EndLeaves DEF Remove
<1> QED
  BY <1>1 DEF TypeOK

LEMMA DeletersStep ==
  ASSUME IInv, Askers, Deleters, [Next]_vars
  PROVE  Deleters'
<1> SUFFICES ASSUME NEW c \in Calls, NEW a \in Accounts, pc'[c] \notin {"idle", "failed"},
                    Deletes(c, a)'
             PROVE  a # DefaultAccount /\ pc'[c] \in {"removing", "queued", "writing", "ended"}
  BY DEF Deleters
<1>1. TypeOK /\ Begun /\ Onward
  BY OnwardStep DEF IInv
<1>2. CASE pc[c] # "idle"
  <2>1. /\ Deletes(c, a) /\ a # DefaultAccount
        /\ pc[c] \in {"removing", "queued", "writing", "ended"}
    BY <1>1, <1>2 DEF Deletes, Onward, Flow, Deleters
  <2> QED
    BY <1>1, <2>1 DEF Onward, Flow
<1>3. CASE pc[c] = "idle"
  <2>1. Delete(c, a)
    BY <1>3, DeletionMoves DEF DeleteStarted, Mutate, Written
  <2>2. pc'[c] \in {"removing", "queued"}
    BY <1>1, <2>1, DeleteQueues DEF Delete, Await, Goto, TypeOK
  <2> QED
    BY <2>1, <2>2 DEF Delete
<1> QED
  BY <1>2, <1>3

\* the call's place in the queue is not touched
Waiting(x) == pc[x] \in {"queued", "writing"} => pc'[x] = pc[x]

Joins(d) ==
  /\ mutations' = Append(mutations, d)
  /\ pc[d] \notin {"queued", "writing"} /\ pc'[d] = "queued" /\ \A x \in Calls : Waiting(x)
  /\ \/ \E a \in Accounts : Deletes(d, a)'
     \/ <<d, "ask">> \in owed /\ call'[d].kind = "refresh"

\* how the queue of changes moves on
LEMMA QueueMoves ==
  ASSUME IInv, Askers, Queue, [Next]_vars
  PROVE  \/ mutations' = mutations /\ \A x \in Calls : Waiting(x)
         \/ \E c \in Calls : Mutate(c) /\ mutations' = mutations /\ pc'[c] = "writing"
                               /\ \A x \in Calls : x # c => Waiting(x)
         \/ \E c \in Calls : /\ Mutate(c) \/ Written(c)
                             /\ mutations # <<>> /\ Head(mutations) = c
                             /\ mutations' = Tail(mutations)
                             /\ pc'[c] \in {"ended", "failed"}
                             /\ \A x \in Calls : x # c => Waiting(x)
         \/ \E d \in Calls : Joins(d)
<1> DEFINE Same == mutations' = mutations /\ \A x \in Calls : Waiting(x)
<1>1. TypeOK /\ Begun
  BY DEF IInv
<1>2. ASSUME NEW d \in Calls, \E to : Goto(d, to), pc[d] \notin {"queued", "writing"}
      PROVE  \A x \in Calls : Waiting(x)
  BY <1>1, <1>2 DEF Goto, Waiting, TypeOK
<1>3. ASSUME NEW d \in Calls, NEW a \in Accounts, Remove(d, a), pc[d] \in {"idle", "removing"},
             Deletes(d, a)'
      PROVE  Joins(d)
  <2>1. \A x \in Calls : \/ pc'[x] = [pc EXCEPT ![d] = "queued"][x]
                         \/ [pc EXCEPT ![d] = "queued"][x] = "asking" /\ pc'[x] = "failed"
    BY <1>3, EndLeaves DEF Remove
  <2>2. pc'[d] = "queued" /\ \A x \in Calls : Waiting(x)
    BY <1>1, <1>3, <2>1 DEF Waiting, TypeOK
  <2> QED
    BY <1>3, <2>2 DEF Joins, Remove
<1>4. ASSUME NEW d \in Calls, NEW a \in Accounts,
             Initialize(d) \/ Get(d, "forward", a) \/ Get(d, "refresh", a)
      PROVE  Same
  BY <1>2, <1>4 DEF Initialize, Get, Begin, Load, Await, repoVars
<1>5. ASSUME NEW d \in Calls, NEW a \in Accounts, Delete(d, a)
      PROVE  Same \/ Joins(d)
  <2>1. pc[d] = "idle" /\ Deletes(d, a)'
    BY <1>1, <1>5 DEF Delete, Begin, Deletes, TypeOK
  <2> QED
    BY <1>2, <1>3, <1>5, <2>1 DEF Delete, Await
<1>6. ASSUME NEW d \in Calls, Loaded(d) \/ Greeted(d) PROVE Same
  BY <1>2, <1>6 DEF Loaded, Greeted, Ensure, Use, Resume, Await, repoVars
<1>7. ASSUME NEW d \in Calls, DeleteStarted(d) PROVE Same \/ Joins(d)
  <2>1. pc[d] = "removing" /\ call[d].kind = "delete" /\ call' = call
    BY <1>7 DEF DeleteStarted, IInv, Deletions
  <2>2. PICK a \in Accounts : a = Account(d) /\ Deletes(d, a)
    BY <1>1, <2>1, CallKinds
  <2>3. Deletes(d, a)'
    BY <2>1, <2>2 DEF Deletes
  <2>4. CASE Remove(d, a)
    BY <1>3, <2>1, <2>3, <2>4
  <2>5. CASE Goto(d, "failed") /\ mutations' = mutations
    BY <1>2, <2>1, <2>5
  <2> QED
    BY <1>7, <2>2, <2>4, <2>5 DEF DeleteStarted
<1>8. ASSUME NEW id \in Ids, Read(id) \/ Timeout(id) PROVE Same \/ Joins(id[1])
  <2>1. id[1] \in Calls /\ call' = call
    BY <1>8 DEF Ids, Read, Timeout
  <2>2. CASE id \in pending /\ id[2] = "ask"
    <3>1. id = <<id[1], "ask">> /\ pc[id[1]] = "asking" /\ call'[id[1]].kind = "refresh"
      BY <2>1, <2>2 DEF Ids, Askers
    <3>2. CASE \E to : Goto(id[1], to) /\ mutations' = mutations
      BY <1>2, <2>1, <3>1, <3>2
    <3>3. CASE id \in owed /\ Goto(id[1], "queued") /\ mutations' = Append(mutations, id[1])
      <4>1. \A x \in Calls : Waiting(x)
        BY <1>2, <2>1, <3>1, <3>3
      <4>2. pc'[id[1]] = "queued"
        BY <1>1, <2>1, <3>3 DEF Goto, TypeOK
      <4> QED
        BY <3>1, <3>3, <4>1, <4>2 DEF Joins
    <3> QED
      BY <1>8, <2>2, <3>2, <3>3 DEF Read, Timeout, TakeAnswer, repoVars
  <2>3. CASE pc' = pc /\ mutations' = mutations
    BY <2>3 DEF Waiting
  <2> QED
    BY <1>8, <2>2, <2>3 DEF Read, Timeout, TakeGreeting, repoVars
<1>9. ASSUME NEW c \in Calls, Mutate(c)
      PROVE  \/ /\ mutations' = mutations /\ pc'[c] = "writing"
                /\ \A x \in Calls : x # c => Waiting(x)
             \/ /\ mutations # <<>> /\ Head(mutations) = c /\ mutations' = Tail(mutations)
                /\ pc'[c] \in {"ended", "failed"} /\ \A x \in Calls : x # c => Waiting(x)
  BY <1>1, <1>9 DEF Mutate, Goto, Waiting, TypeOK
<1>10. ASSUME NEW c \in Calls, Written(c)
       PROVE  /\ mutations # <<>> /\ Head(mutations) = c /\ mutations' = Tail(mutations)
              /\ pc'[c] \in {"ended", "failed"} /\ \A x \in Calls : x # c => Waiting(x)
  <2>1. mutations # <<>> /\ mutations[1] = c
    BY <1>10 DEF Written, Queue
  <2> QED
    BY <1>1, <1>10, <2>1 DEF Written, Goto, Waiting, TypeOK
<1>11. ASSUME CloseRuntimes \/ \E d \in Calls : Exit(d) PROVE Same
  <2>1. mutations' = mutations /\ \E rs : End(rs, pc)
    BY <1>11 DEF CloseRuntimes, Exit, repoVars
  <2>2. \A x \in Calls : pc'[x] = pc[x] \/ (pc[x] = "asking" /\ pc'[x] = "failed")
    BY <2>1, EndLeaves
  <2> QED
    BY <2>1, <2>2 DEF Waiting
<1>12. ASSUME \/ \E d \in Calls : \/ Connects(d) \/ ConnectFails(d) \/ Confirmed(d) \/ GreetFails(d)
                                  \/ AnswerDesktop(d)
              \/ Close \/ UNCHANGED vars
       PROVE  Same
  BY <1>12 DEF Connects, ConnectFails, Confirmed, GreetFails, AnswerDesktop, Close, vars, repoVars,
               Waiting
<1>13. \E b : b \in Accounts
  BY DefaultIsAnAccount
<1>14. \A id \in Ids : id[1] \in Calls
  BY DEF Ids
<1> QED
  BY <1>4, <1>5, <1>6, <1>7, <1>8, <1>9, <1>10, <1>11, <1>12, <1>13, <1>14 DEF Next

LEMMA QueueTail ==
  ASSUME NEW q \in Seq(Calls), q # <<>>
  PROVE  /\ Head(q) = q[1] /\ 1 \in DOMAIN q
         /\ \A n \in DOMAIN Tail(q) : n + 1 \in DOMAIN q /\ Tail(q)[n] = q[n + 1] /\ n \in Nat \ {0}
OBVIOUS

LEMMA QueueAppend ==
  ASSUME NEW q \in Seq(Calls), NEW d \in Calls
  PROVE  LET r == Append(q, d)
         IN  /\ \A n \in DOMAIN r : n \in Nat
             /\ \A n \in DOMAIN r : (n \in DOMAIN q /\ r[n] = q[n]) \/ (n = Len(q) + 1 /\ r[n] = d)
             /\ \A n \in DOMAIN q : n \in DOMAIN r /\ r[n] = q[n] /\ n < Len(q) + 1
             /\ q # <<>> => r[1] = q[1]
OBVIOUS

LEMMA QueueStep ==
  ASSUME IInv, Askers, Queue, [Next]_vars
  PROVE  Queue'
<1>1. TypeOK /\ Onward /\ mutations \in Seq(Calls)
  BY OnwardStep DEF IInv, TypeOK
<1>2. \A x \in Calls : pc'[x] = "writing" => pc[x] \in {"queued", "writing"}
  BY <1>1 DEF Onward, Flow, TypeOK, Pcs
<1>3. \A n \in DOMAIN mutations : mutations[n] \in Calls
  BY <1>1
<1>4. CASE mutations' = mutations /\ \A x \in Calls : Waiting(x)
  BY <1>2, <1>3, <1>4 DEF Queue, Waiting
<1>5. ASSUME NEW c \in Calls, Mutate(c), mutations' = mutations, pc'[c] = "writing",
             \A x \in Calls : x # c => Waiting(x)
      PROVE  Queue'
  <2>1. mutations # <<>> /\ mutations[1] = c /\ pc[c] = "queued" /\ 1 \in DOMAIN mutations
    BY <1>1, <1>5, QueueTail DEF Mutate
  <2>2. \A x \in Calls : pc'[x] = "writing" => x = c
    BY <1>2, <1>5, <2>1 DEF Queue, Waiting
  <2> QED
    BY <1>3, <1>5, <2>1, <2>2 DEF Queue, Waiting
<1>6. ASSUME NEW c \in Calls, mutations # <<>>, Head(mutations) = c, mutations' = Tail(mutations),
             pc'[c] \in {"ended", "failed"}, \A x \in Calls : x # c => Waiting(x)
      PROVE  Queue'
  <2>1. /\ mutations[1] = c /\ 1 \in DOMAIN mutations
        /\ \A n \in DOMAIN mutations' : /\ n + 1 \in DOMAIN mutations /\ n \in Nat \ {0}
                                        /\ mutations'[n] = mutations[n + 1]
    BY <1>1, <1>6, QueueTail
  <2>2. \A m, n \in DOMAIN mutations' : mutations'[m] = mutations'[n] => m = n
    <3> SUFFICES ASSUME NEW m \in DOMAIN mutations', NEW n \in DOMAIN mutations',
                        mutations'[m] = mutations'[n]
                 PROVE  m = n
      OBVIOUS
    <3>1. m + 1 = n + 1
      BY <2>1 DEF Queue
    <3> QED
      BY <2>1, <3>1
  <2>3. \A n \in DOMAIN mutations' : mutations'[n] # c /\ mutations'[n] \in Calls
    <3> SUFFICES ASSUME NEW n \in DOMAIN mutations' PROVE mutations'[n] # c /\ mutations'[n] \in Calls
      OBVIOUS
    <3>1. n + 1 # 1 /\ n + 1 \in DOMAIN mutations
      BY <2>1
    <3> QED
      BY <1>3, <2>1, <3>1 DEF Queue
  <2>4. \A n \in DOMAIN mutations' : pc'[mutations'[n]] \in {"queued", "writing"}
    BY <1>6, <2>1, <2>3 DEF Queue, Waiting
  <2>5. \A x \in Calls : pc'[x] # "writing"
    BY <1>2, <1>6, <2>1 DEF Queue, Waiting
  <2> QED
    BY <2>2, <2>4, <2>5 DEF Queue
<1>7. ASSUME NEW d \in Calls, Joins(d)
      PROVE  Queue'
  <2>1. /\ \A n \in DOMAIN mutations' : \/ n \in DOMAIN mutations /\ mutations'[n] = mutations[n]
                                        \/ n = Len(mutations) + 1 /\ mutations'[n] = d
        /\ mutations # <<>> => mutations' # <<>> /\ mutations'[1] = mutations[1]
    BY <1>1, <1>7, QueueAppend DEF Joins
  <2>2. \A n \in DOMAIN mutations : mutations[n] # d
    BY <1>7 DEF Joins, Queue
  <2>3. \A x \in Calls : pc'[x] = "writing" => pc[x] = "writing"
    BY <1>2, <1>7 DEF Joins, Waiting
  <2> QED
    BY <1>3, <1>7, <2>1, <2>2, <2>3 DEF Queue, Joins, Waiting
<1> QED
  BY <1>4, <1>5, <1>6, <1>7, QueueMoves

\* nothing is started for an account that is not the default one and is gone, or
\* about to go: what opens for it was starting before
LEMMA NothingStarts ==
  ASSUME IInv, [Next]_vars, NEW a \in Accounts, a # DefaultAccount,
         a \notin repo \/ (NoUseWhileDeleting /\ Deleting(a))
  PROVE  /\ pool'[a].starting \in {pool[a].starting, None}
         /\ \A r \in Calls : runtime'[r].open /\ Account(r)' = a =>
              (runtime[r].open /\ Account(r) = a) \/ pool[a].starting = r
<1> DEFINE Fewer == \A r \in Calls : runtime'[r].open => runtime[r].open
           Same == pool'[a].starting = pool[a].starting /\ Fewer
           Opened == \A r \in Calls : runtime'[r].open /\ Account(r)' = a =>
                       (runtime[r].open /\ Account(r) = a) \/ pool[a].starting = r
           Goal == pool'[a].starting \in {pool[a].starting, None} /\ Opened
<1> USE DEF IInv
<1>1. \A r \in Calls : runtime[r].open => pc[r] # "idle"
  BY IdleIsNobody
<1>2. ASSUME Same, \A x \in Calls : pc[x] # "idle" => call'[x] = call[x] PROVE Goal
  BY <1>1, <1>2 DEF Account
<1>3. ASSUME NEW c \in Calls, NEW b \in Accounts, Load(c, b), b # a, runtime' = runtime
      PROVE  Same
  <2>1. CASE pool' = pool
    BY <1>3, <2>1
  <2>2. CASE pool' = [pool EXCEPT ![b].starting = c]
    BY <1>3, <2>2, StartingSet
  <2> QED
    BY <1>3, <2>1, <2>2 DEF Load
<1>4. ASSUME NEW c \in Calls, Initialize(c) PROVE Goal
  BY <1>2, <1>3, <1>4, DefaultIsAnAccount DEF Initialize, Begin, TypeOK
<1>5. ASSUME NEW c \in Calls, NEW b \in Accounts, Get(c, "forward", b) \/ Get(c, "refresh", b) PROVE Goal
  <2>1. runtime' = runtime /\ \A x \in Calls : pc[x] # "idle" => call'[x] = call[x]
    BY <1>5 DEF Get, Begin, TypeOK
  <2>2. Load(c, b) \/ pool' = pool
    BY <1>5 DEF Get
  <2>3. CASE b = a /\ Load(c, b)
    <3>1. a \notin repo
      BY <1>5, <2>3 DEF Get
    <3>2. pool' = pool
      BY <2>3, <3>1 DEF Load
    <3> QED
      BY <1>2, <2>1, <3>2
  <2> QED
    BY <1>2, <1>3, <2>1, <2>2, <2>3
<1>6. ASSUME NEW c \in Calls, NEW b \in Accounts, Remove(c, b) PROVE Same
  BY <1>6, RemoveEffects
<1>7. ASSUME NEW c \in Calls, NEW b \in Accounts, Delete(c, b) PROVE Goal
  <2>1. \A x \in Calls : pc[x] # "idle" => call'[x] = call[x]
    BY <1>7 DEF Delete, Begin, TypeOK
  <2> QED
    BY <1>2, <1>6, <1>7, <2>1 DEF Delete
<1>8. ASSUME NEW c \in Calls, DeleteStarted(c) PROVE Goal
  <2>1. Account(c) \in Accounts /\ call' = call
    BY <1>8, AccountOfBegun DEF DeleteStarted
  <2> QED
    BY <1>2, <1>6, <1>8, <2>1 DEF DeleteStarted
<1>9. ASSUME NEW c \in Calls, Connects(c) \/ ConnectFails(c) PROVE Goal
  <2>1. /\ pc[c] # "idle" /\ Account(c) \in Accounts /\ pool[Account(c)].starting = c
        /\ call' = call
    BY <1>9, AccountOfBegun DEF Connects, ConnectFails, Begun, Starts
  <2>2. pool'[a].starting = IF a = Account(c) THEN None ELSE pool[a].starting
    BY <1>9, <2>1, StartingSet, LoadedSet DEF Connects, ConnectFails
  <2>3. \A r \in Calls : runtime'[r].open => runtime[r].open \/ r = c
    BY <1>9, OpenSet DEF Connects, ConnectFails
  <2>4. \A r \in Calls : Account(r)' = Account(r)
    BY <2>1 DEF Account
  <2> QED
    BY <2>1, <2>2, <2>3, <2>4
<1>10. ASSUME QuietStep PROVE Goal
  BY <1>2, <1>10, QuietSteps DEF Quiet
<1>11. ASSUME Close \/ UNCHANGED vars PROVE Goal
  BY <1>2, <1>11 DEF Close, vars, poolVars
<1>12. ASSUME CloseRuntimes PROVE Goal
  <2>1. Fewer /\ call' = call
    BY <1>12, Ended DEF CloseRuntimes
  <2>2. pool'[a].starting = pool[a].starting
    <3>1. pool'[a] = [pool[a] EXCEPT !.loaded = None, !.initialized = FALSE, !.initializing = None]
      BY <1>12 DEF CloseRuntimes
    <3>2. pool[a] \in Entry
      BY DEF TypeOK
    <3> QED
      BY <3>1, <3>2, EntryEffects
  <2> QED
    BY <1>2, <2>1, <2>2
<1>13. ASSUME NEW r \in Calls, Exit(r) PROVE Goal
  <2>1. Fewer /\ call' = call
    BY <1>13, Ended DEF Exit
  <2>2. Account(r) \in Accounts
    BY <1>13, <1>1, AccountOfBegun DEF Exit
  <2>3. pool'[a].starting = pool[a].starting
    BY <1>13, <2>2, ForgottenSet DEF Exit
  <2> QED
    BY <1>2, <2>1, <2>3
<1> HIDE DEF Goal, IInv
<1>14. Goal
  BY <1>4, <1>5, <1>7, <1>8, <1>9, <1>10, <1>11, <1>12, <1>13 DEF Next, QuietStep
<1> QED
  BY <1>14 DEF Goal

\* so nothing runs for it that did not before
LEMMA StaysStill ==
  ASSUME IInv, [Next]_vars, NEW a \in Accounts, a # DefaultAccount, Still(a),
         a \notin repo \/ (NoUseWhileDeleting /\ Deleting(a))
  PROVE  Still(a)'
BY NothingStarts, NoneIsNothing DEF Still

\* an account comes to the repository by a refresh that is at the head of the queue
LEMMA RepoStep ==
  ASSUME IInv, [Next]_vars, NEW a \in Accounts, a \in repo', a \notin repo
  PROVE  mutations # <<>> /\ Refreshes(Head(mutations), a)
<1>1. ASSUME NEW c \in Calls, Mutate(c)
      PROVE  mutations # <<>> /\ Refreshes(Head(mutations), a)
  <2>1. pc[c] = "queued" /\ mutations # <<>> /\ Head(mutations) = c
        /\ call[c].kind = "refresh" /\ Account(c) = a
    BY <1>1 DEF Mutate
  <2> QED
    BY <2>1, CallKinds DEF IInv
<1>2. ASSUME repo' = repo PROVE FALSE
  BY <1>2
<1> QED
  BY <1>1, <1>2 DEF Next, Initialize, Connects, ConnectFails, Loaded, Confirmed, GreetFails, Greeted,
     AnswerDesktop, DeleteStarted, Written, Exit, Delete, Get, Read, Timeout, Close, CloseRuntimes,
     vars, repoVars

\* the end of some runtimes leaves what the others owe
LEMMA OwedOpenEnd ==
  ASSUME IInv, OwedOpen, Onward, NEW rs \in SUBSET Calls, NEW p, End(rs, p)
  PROVE  OwedOpen'
<1> SUFFICES ASSUME NEW id \in owed'
             PROVE  /\ pc'[id[1]] \notin {"idle", "loading"}
                    /\ holds'[id[1]] \in Calls /\ Account(holds[id[1]])' = Account(id[1])'
                    /\ runtime'[holds'[id[1]]].open
  BY DEF OwedOpen
<1>1. TypeOK /\ id \in owed /\ holds[id[1]] \notin rs /\ id[1] \in Calls
  BY DEF IInv, TypeOK, End, At, Ids
<1>2. /\ pc[id[1]] \notin {"idle", "loading"} /\ holds[id[1]] \in Calls
      /\ Account(holds[id[1]]) = Account(id[1]) /\ runtime[holds[id[1]]].open
  BY <1>1 DEF OwedOpen
<1>3. holds'[id[1]] = holds[id[1]] /\ pc'[id[1]] \notin {"idle", "loading"} /\ call'[id[1]] = call[id[1]]
  BY <1>1, <1>2 DEF Onward, Flow
<1>4. pc[holds[id[1]]] # "idle"
  BY <1>2, IdleIsNobody
<1>5. call'[holds[id[1]]] = call[holds[id[1]]]
  BY <1>2, <1>4 DEF Onward
<1>6. runtime'[holds[id[1]]].open
  BY <1>1, <1>2, Ended
<1> QED
  BY <1>2, <1>3, <1>5, <1>6 DEF Account

LEMMA OwedOpenKept ==
  ASSUME IInv, OwedOpen, Onward, owed' \subseteq owed,
         \A r \in Calls : runtime[r].open => runtime'[r].open
  PROVE  OwedOpen'
<1> SUFFICES ASSUME NEW id \in owed'
             PROVE  /\ pc'[id[1]] \notin {"idle", "loading"}
                    /\ holds'[id[1]] \in Calls /\ Account(holds[id[1]])' = Account(id[1])'
                    /\ runtime'[holds'[id[1]]].open
  BY DEF OwedOpen
<1>1. id \in owed /\ id[1] \in Calls
  BY DEF IInv, TypeOK, Ids
<1>2. /\ pc[id[1]] \notin {"idle", "loading"} /\ holds[id[1]] \in Calls
      /\ Account(holds[id[1]]) = Account(id[1]) /\ runtime[holds[id[1]]].open
  BY <1>1 DEF OwedOpen
<1>3. holds'[id[1]] = holds[id[1]] /\ pc'[id[1]] \notin {"idle", "loading"} /\ call'[id[1]] = call[id[1]]
  BY <1>1, <1>2 DEF Onward, Flow
<1>4. pc[holds[id[1]]] # "idle"
  BY <1>2, IdleIsNobody
<1>5. call'[holds[id[1]]] = call[holds[id[1]]]
  BY <1>2, <1>4 DEF Onward
<1> QED
  BY <1>2, <1>3, <1>5 DEF Account

\* what a call sends goes to a runtime of its account
LEMMA OwedOpenSent ==
  ASSUME IInv, OwedOpen, Onward, NEW c \in Calls, NEW r \in Calls,
         \A id \in owed' : id \in owed \/ (id[1] = c /\ runtime[r].open),
         call' = call, runtime' = runtime, pc'[c] \notin {"idle", "loading"}, holds'[c] = r,
         Account(r) = Account(c)
  PROVE  OwedOpen'
<1> SUFFICES ASSUME NEW id \in owed'
             PROVE  /\ pc'[id[1]] \notin {"idle", "loading"}
                    /\ holds'[id[1]] \in Calls /\ Account(holds[id[1]])' = Account(id[1])'
                    /\ runtime'[holds'[id[1]]].open
  BY DEF OwedOpen
<1>1. CASE id[1] = c /\ runtime[r].open
  BY <1>1 DEF Account
<1>2. CASE id \in owed
  <2>1. id[1] \in Calls
    BY <1>2 DEF IInv, TypeOK, Ids
  <2>2. /\ pc[id[1]] \notin {"idle", "loading"} /\ holds[id[1]] \in Calls
        /\ Account(holds[id[1]]) = Account(id[1]) /\ runtime[holds[id[1]]].open
    BY <1>2 DEF OwedOpen
  <2>3. holds'[id[1]] = holds[id[1]] /\ pc'[id[1]] \notin {"idle", "loading"}
    BY <2>1, <2>2 DEF Onward, Flow
  <2> QED
    BY <2>2, <2>3 DEF Account
<1> QED
  BY <1>1, <1>2

LEMMA OwedOpenStep ==
  ASSUME IInv, Askers, OwedOpen, [Next]_vars
  PROVE  OwedOpen'
<1>1. TypeOK /\ Onward
  BY OnwardStep DEF IInv
<1>2. ASSUME owed' = owed, runtime' = runtime PROVE OwedOpen'
  BY <1>1, <1>2, OwedOpenKept
<1>3. ASSUME NEW c \in Calls, Loaded(c) PROVE OwedOpen'
  <2>1. pc[c] = "loading" /\ Waits(c) /\ call' = call /\ runtime' = runtime
    BY <1>3 DEF Loaded, IInv, Promises
  <2>2. CASE owed' = owed
    BY <1>2, <2>1, <2>2
  <2>3. CASE /\ holds' = [holds EXCEPT ![c] = awaits[c]]
             /\ \E id \in {<<c, "greet">>, <<c, "ask">>} : Send(id, awaits[c])
             /\ \E to \in {"greeting", "asking"} : Goto(c, to)
    <3>1. holds'[c] = awaits[c] /\ pc'[c] \in {"greeting", "asking"}
      BY <1>1, <2>3 DEF Goto, TypeOK
    <3>2. \A id \in owed' : id \in owed \/ (id[1] = c /\ runtime[awaits[c]].open)
      BY <2>3 DEF Send
    <3> QED
      BY <1>1, <2>1, <3>1, <3>2, OwedOpenSent DEF Waits
  <2> QED
    BY <1>3, <2>2, <2>3 DEF Loaded, Ensure, Use, Resume, Await, brokerVars
<1>4. ASSUME NEW c \in Calls, Greeted(c) PROVE OwedOpen'
  <2>1. pc[c] = "greeting" /\ Holds(c) /\ call' = call /\ runtime' = runtime /\ holds' = holds
    BY <1>4 DEF Greeted, IInv, Promises
  <2>2. CASE owed' = owed
    BY <1>2, <2>1, <2>2
  <2>3. CASE Send(<<c, "ask">>, holds[c]) /\ Goto(c, "asking")
    <3>1. pc'[c] = "asking" /\ \A id \in owed' : id \in owed \/ (id[1] = c /\ runtime[holds[c]].open)
      BY <1>1, <2>3 DEF Send, Goto, TypeOK
    <3> QED
      BY <1>1, <2>1, <3>1, OwedOpenSent DEF Holds
  <2> QED
    BY <1>4, <2>2, <2>3 DEF Greeted, Use, Resume, Await, brokerVars
<1>5. ASSUME NEW id \in Ids, Read(id) \/ Timeout(id) PROVE OwedOpen'
  <2>1. owed' \subseteq owed
    BY <1>5 DEF Read, Timeout
  <2>2. \A r \in Calls : runtime'[r].open = runtime[r].open
    BY <1>5, QuietSteps DEF QuietStep, Quiet
  <2> QED
    BY <1>1, <2>1, <2>2, OwedOpenKept
<1>6. ASSUME NEW c \in Calls, Connects(c) PROVE OwedOpen'
  <2>1. owed' = owed /\ \A r \in Calls : runtime[r].open => runtime'[r].open
    BY <1>1, <1>6, OpenSet DEF Connects, brokerVars
  <2> QED
    BY <1>1, <2>1, OwedOpenKept
<1>7. ASSUME NEW c \in Calls, NEW a \in Accounts, Remove(c, a) PROVE OwedOpen'
  <2>1. {pool[a].loaded} \ {None} \in SUBSET Calls
    BY <1>7, RemoveEffects
  <2> QED
    BY <1>1, <1>7, <2>1, OwedOpenEnd DEF Remove
<1>8. ASSUME NEW c \in Calls, NEW a \in Accounts, Delete(c, a) PROVE OwedOpen'
  BY <1>2, <1>7, <1>8 DEF Delete, brokerVars
<1>9. ASSUME NEW c \in Calls, DeleteStarted(c) PROVE OwedOpen'
  <2>1. Account(c) \in Accounts
    BY <1>9, AccountOfBegun DEF DeleteStarted, IInv
  <2> QED
    BY <1>2, <1>7, <1>9, <2>1 DEF DeleteStarted, brokerVars
<1>10. ASSUME CloseRuntimes \/ \E r \in Calls : Exit(r) PROVE OwedOpen'
  <2>1. \E rs \in SUBSET Calls : End(rs, pc)
    BY <1>10 DEF CloseRuntimes, Exit
  <2> QED
    BY <1>1, <2>1, OwedOpenEnd
<1>11. ASSUME \/ \E c \in Calls : \/ Initialize(c) \/ ConnectFails(c) \/ Confirmed(c) \/ GreetFails(c)
                                  \/ AnswerDesktop(c) \/ Mutate(c) \/ Written(c)
              \/ \E c \in Calls, a \in Accounts : Get(c, "forward", a) \/ Get(c, "refresh", a)
              \/ Close \/ UNCHANGED vars
       PROVE  OwedOpen'
  BY <1>2, <1>11 DEF Initialize, ConnectFails, Confirmed, GreetFails, AnswerDesktop, Mutate, Written,
     Get, Close, vars, brokerVars
<1> QED
  BY <1>3, <1>4, <1>5, <1>6, <1>8, <1>9, <1>10, <1>11 DEF Next

\* a refresh that takes its place in the queue has an answer of a runtime that is open
LEMMA JoinsElsewhere ==
  ASSUME IInv, OwedOpen, Onward, NEW d \in Calls, Joins(d), NEW a \in Accounts, Still(a)
  PROVE  ~Refreshes(d, a)'
<1> SUFFICES ASSUME Refreshes(d, a)' PROVE FALSE
  OBVIOUS
<1>1. call'[d] = [kind |-> "refresh", account |-> a]
  BY DEF Refreshes
<1>2. ~\E b \in Accounts : Deletes(d, b)'
  <2>1. ASSUME NEW b \in Accounts, Deletes(d, b)' PROVE FALSE
    <3>1. call'[d].kind = "delete"
      BY <2>1 DEF Deletes
    <3> QED
      BY <1>1, <3>1
  <2> QED
    BY <2>1
<1>3. <<d, "ask">> \in owed
  BY <1>2 DEF Joins
<1>4. /\ pc[d] # "idle" /\ holds[d] \in Calls /\ Account(holds[d]) = Account(d)
      /\ runtime[holds[d]].open
  BY <1>3 DEF OwedOpen
<1>5. call'[d] = call[d]
  BY <1>4 DEF Onward
<1>6. Account(d) = a
  BY <1>1, <1>5 DEF Account
<1> QED
  BY <1>4, <1>6 DEF Still

\* no refresh of an account that is still comes into the queue
LEMMA QueuedBefore ==
  ASSUME IInv, Askers, Queue, OwedOpen, Onward, [Next]_vars, NEW a \in Accounts, Still(a)
  PROVE  \E k \in {0, 1} : \A m \in DOMAIN mutations' :
           \/ m + k \in DOMAIN mutations /\ mutations'[m] = mutations[m + k]
                /\ (Refreshes(mutations[m], a)' => Refreshes(mutations[m + k], a))
           \/ pc[mutations'[m]] \notin {"queued", "writing"} /\ ~Refreshes(mutations[m], a)'
<1>1. mutations \in Seq(Calls) /\ DOMAIN mutations \subseteq Nat
  BY DEF IInv, TypeOK
<1>2. \A m \in DOMAIN mutations : mutations[m] \in Calls /\ pc[mutations[m]] # "idle"
  BY <1>1 DEF Queue
<1>3. \A m \in DOMAIN mutations : call'[mutations[m]] = call[mutations[m]]
  BY <1>2 DEF Onward
<1>4. CASE mutations' = mutations
  <2>1. \A m \in DOMAIN mutations : m + 0 = m
    BY <1>1
  <2>2. \A m \in DOMAIN mutations' : m + 0 \in DOMAIN mutations /\ mutations'[m] = mutations[m + 0]
          /\ (Refreshes(mutations[m], a)' => Refreshes(mutations[m + 0], a))
    BY <1>3, <1>4, <2>1 DEF Refreshes
  <2> QED
    BY <2>2
<1>5. CASE mutations # <<>> /\ mutations' = Tail(mutations)
  <2>1. \A m \in DOMAIN mutations' : m + 1 \in DOMAIN mutations /\ mutations'[m] = mutations[m + 1]
    BY <1>1, <1>5, QueueTail
  <2>2. \A m \in DOMAIN mutations' : Refreshes(mutations[m], a)' => Refreshes(mutations[m + 1], a)
    BY <1>3, <2>1 DEF Refreshes
  <2> QED
    BY <2>1, <2>2
<1>6. ASSUME NEW d \in Calls, Joins(d)
      PROVE  \A m \in DOMAIN mutations' :
               \/ m + 0 \in DOMAIN mutations /\ mutations'[m] = mutations[m + 0]
                    /\ (Refreshes(mutations[m], a)' => Refreshes(mutations[m + 0], a))
               \/ pc[mutations'[m]] \notin {"queued", "writing"} /\ ~Refreshes(mutations[m], a)'
  <2> TAKE m \in DOMAIN mutations'
  <2>1. \/ m \in DOMAIN mutations /\ mutations'[m] = mutations[m] /\ m + 0 = m
        \/ mutations'[m] = d
    BY <1>1, <1>6, QueueAppend DEF Joins
  <2>2. CASE m \in DOMAIN mutations /\ mutations'[m] = mutations[m] /\ m + 0 = m
    BY <1>3, <2>2 DEF Refreshes
  <2>3. CASE mutations'[m] = d
    <3>1. ~Refreshes(d, a)'
      BY <1>6, JoinsElsewhere
    <3>2. ~Refreshes(mutations[m], a)'
      BY <2>3, <3>1 DEF Refreshes
    <3> QED
      BY <1>6, <2>3, <3>2 DEF Joins
  <2> QED
    BY <2>1, <2>2, <2>3
<1> QED
  BY <1>4, <1>5, <1>6, QueueMoves

LEMMA NoneQueuedKept ==
  ASSUME IInv, Askers, Queue, OwedOpen, Onward, [Next]_vars, NEW a \in Accounts, Still(a),
         NoneQueued(a)
  PROVE  NoneQueued(a)'
BY QueuedBefore DEF NoneQueued

LEMMA NoneBehindKept ==
  ASSUME IInv, Askers, Queue, OwedOpen, Onward, [Next]_vars, NEW a \in Accounts, Still(a),
         NEW c \in Calls, pc[c] = "queued", NoneBehind(c, a)
  PROVE  NoneBehind(c, a)'
<1>1. PICK k \in {0, 1} : \A m \in DOMAIN mutations' :
        \/ m + k \in DOMAIN mutations /\ mutations'[m] = mutations[m + k]
             /\ (Refreshes(mutations[m], a)' => Refreshes(mutations[m + k], a))
        \/ pc[mutations'[m]] \notin {"queued", "writing"} /\ ~Refreshes(mutations[m], a)'
  BY QueuedBefore
<1>2. DOMAIN mutations' \subseteq Nat
  <2>1. mutations \in Seq(Calls)
    BY DEF IInv, TypeOK
  <2>2. \/ mutations' = mutations \/ (mutations # <<>> /\ mutations' = Tail(mutations))
        \/ \E d \in Calls : mutations' = Append(mutations, d)
    BY QueueMoves DEF Joins
  <2> QED
    BY <2>1, <2>2
<1> SUFFICES ASSUME NEW m \in DOMAIN mutations', NEW n \in DOMAIN mutations',
                    Refreshes(mutations[m], a)', mutations'[n] = c
             PROVE  m < n
  BY DEF NoneBehind
<1>3. m + k \in DOMAIN mutations /\ Refreshes(mutations[m + k], a)
  BY <1>1
<1>4. n + k \in DOMAIN mutations /\ mutations[n + k] = c
  BY <1>1
<1>5. m + k < n + k
  BY <1>3, <1>4 DEF NoneBehind
<1> QED
  BY <1>2, <1>5

\* the removal of a runtime leaves nothing that runs for the account
LEMMA RemoveStills ==
  ASSUME IInv, NEW c \in Calls, NEW a \in Accounts, Remove(c, a), pool[a].starting = None,
         \A r \in Calls : pc[r] # "idle" => call'[r] = call[r]
  PROVE  Still(a)'
<1>1. /\ pool'[a].starting = None
      /\ \A r \in Calls : runtime'[r].open => runtime[r].open /\ r # pool[a].loaded
  BY RemoveEffects, NoneIsNothing
<1>2. ASSUME NEW r \in Calls, runtime'[r].open PROVE Account(r)' # a
  <2>1. runtime[r].open /\ r # pool[a].loaded /\ pc[r] # "idle"
    BY <1>1, <1>2, IdleIsNobody
  <2>2. pool[Account(r)].loaded = r
    BY <2>1 DEF IInv, Runtimes
  <2> QED
    BY <2>1, <2>2 DEF Account
<1> QED
  BY <1>1, <1>2 DEF Still

\* and its change is the last of the queue
LEMMA RemoveQueues ==
  ASSUME IInv, Queue, NEW c \in Calls, NEW a \in Accounts, Remove(c, a),
         pc[c] \notin {"queued", "writing"}, Deletes(c, a)',
         \A r \in Calls : pc[r] # "idle" => call'[r] = call[r]
  PROVE  NoneBehind(c, a)'
<1>1. mutations \in Seq(Calls) /\ mutations' = Append(mutations, c)
  BY DEF IInv, TypeOK, Remove
<1>2. \A n \in DOMAIN mutations : mutations[n] # c
  BY DEF Queue
<1>3. ~Refreshes(c, a)'
  <2>1. call'[c].kind = "delete"
    BY DEF Deletes
  <2> QED
    BY <2>1 DEF Refreshes
<1> SUFFICES ASSUME NEW m \in DOMAIN mutations', NEW n \in DOMAIN mutations',
                    Refreshes(mutations[m], a)', mutations'[n] = c
             PROVE  m < n
  BY DEF NoneBehind
<1>4. mutations'[m] # c
  BY <1>3 DEF Refreshes
<1>5. m \in DOMAIN mutations /\ n = Len(mutations) + 1
  BY <1>1, <1>2, <1>4, QueueAppend
<1> QED
  BY <1>1, <1>5

\* whoever deletes keeps what it has achieved
LEMMA LeavesKept ==
  ASSUME NoUseWhileDeleting, IInv, Askers, GInv, [Next]_vars, NEW c \in Calls, NEW a \in Accounts,
         Deletes(c, a), pc[c] \in {"removing", "queued", "writing", "ended"}, pc'[c] = pc[c]
  PROVE  Progress(c, a)'
<1>1. Onward /\ a # DefaultAccount /\ Progress(c, a) /\ Queue /\ OwedOpen
  BY OnwardStep DEF IInv, GInv, Deleters, Leaves
<1>2. pc[c] \notin {"ended"} => Deleting(a)
  BY DEF Deleting, Deletes
<1>3. CASE pc[c] = "removing"
  <2>1. pool[a].starting \in {None, awaits[c]} /\ awaits'[c] = awaits[c] /\ awaits[c] \in Calls
    BY <1>1, <1>3 DEF Progress, Onward
  <2>2. pool'[a].starting \in {None, awaits'[c]}
    BY <1>1, <1>2, <1>3, <2>1, NothingStarts
  <2> QED
    BY <1>3, <2>1, <2>2 DEF Progress
<1>4. CASE pc[c] = "queued"
  <2>1. Still(a)'
    BY <1>1, <1>2, <1>4, StaysStill DEF Progress
  <2>2. NoneBehind(c, a)'
    BY <1>1, <1>4, NoneBehindKept DEF Progress
  <2> QED
    BY <1>4, <2>1, <2>2 DEF Progress
<1>5. CASE pc[c] \in {"writing", "ended"}
  <2>1. Still(a) /\ a \notin repo /\ NoneQueued(a)
    BY <1>1, <1>5 DEF Progress
  <2>2. Still(a)'
    BY <1>1, <2>1, StaysStill
  <2>3. NoneQueued(a)'
    BY <1>1, <2>1, NoneQueuedKept
  <2>4. a \notin repo'
    <3>1. mutations # <<>> => 1 \in DOMAIN mutations /\ Head(mutations) = mutations[1]
      BY QueueTail DEF IInv, TypeOK
    <3> QED
      BY <2>1, <3>1, RepoStep DEF NoneQueued
  <2> QED
    BY <1>5, <2>2, <2>3, <2>4 DEF Progress
<1> QED
  BY <1>3, <1>4, <1>5

\* once the runtime is gone, its change waits behind those of the refreshes that
\* came before
LEMMA LeavesRemoved ==
  ASSUME IInv, Queue, NEW c \in Calls, NEW a \in Accounts, Remove(c, a), pool[a].starting = None,
         pc[c] \notin {"queued", "writing"}, Deletes(c, a)',
         \A r \in Calls : pc[r] # "idle" => call'[r] = call[r]
  PROVE  Progress(c, a)'
<1>1. pc'[c] = "queued" /\ Still(a)' /\ NoneBehind(c, a)'
  BY DeleteQueues, RemoveStills, RemoveQueues DEF IInv
<1> QED
  BY <1>1 DEF Progress

LEMMA LeavesMoved ==
  ASSUME NoUseWhileDeleting, IInv, Askers, GInv, [Next]_vars, NEW c \in Calls, NEW a \in Accounts,
         Deletes(c, a)', pc'[c] # pc[c], pc'[c] \notin {"idle", "failed"}
  PROVE  Progress(c, a)'
<1>1. Onward /\ TypeOK /\ Begun /\ Deleters /\ Leaves /\ Queue /\ OwedOpen
  BY OnwardStep DEF IInv, GInv
<1>2. \A r \in Calls : pc[r] # "idle" => call'[r] = call[r]
  BY <1>1 DEF Onward
<1>3. ASSUME Delete(c, a) PROVE Progress(c, a)'
  <2>1. CASE pool[a].starting = None /\ Remove(c, a)
    BY <1>1, <1>2, <1>3, <2>1, LeavesRemoved DEF Delete, Begin
  <2>2. CASE /\ pool[a].starting # None /\ Await(c, pool[a].starting, "removing")
             /\ UNCHANGED pool
    <3>1. pc'[c] = "removing" /\ awaits'[c] = pool[a].starting /\ awaits'[c] \in Calls
      BY <1>1, <2>2, EntryFields DEF Await, Goto, TypeOK
    <3> QED
      BY <2>2, <3>1 DEF Progress
  <2> QED
    BY <1>3, <2>1, <2>2 DEF Delete
<1>4. ASSUME pc[c] # "idle"
      PROVE  Deletes(c, a) /\ Account(c) = a /\ a # DefaultAccount /\ Progress(c, a)
  BY <1>1, <1>2, <1>4 DEF Deletes, Account, Leaves, Deleters, Onward, Flow
<1>5. ASSUME DeleteStarted(c) PROVE Progress(c, a)'
  <2>1. pc[c] = "removing" /\ Account(c) = a /\ Progress(c, a)
    BY <1>4, <1>5 DEF DeleteStarted
  <2>2. start[awaits[c]] = "done" /\ Remove(c, a)
    BY <1>1, <1>5, <2>1 DEF DeleteStarted, Goto, TypeOK
  <2>3. pool[a].starting = None
    BY <2>1, <2>2 DEF Progress, IInv, Starts
  <2> QED
    BY <1>1, <1>2, <2>1, <2>2, <2>3, LeavesRemoved
<1>6. ASSUME Mutate(c) PROVE Progress(c, a)'
  <2>1. /\ pc[c] = "queued" /\ mutations # <<>> /\ Head(mutations) = c
        /\ Account(c) = a /\ a # DefaultAccount /\ Progress(c, a) /\ Deletes(c, a)
    BY <1>4, <1>6 DEF Mutate
  <2>2. call[c].kind = "delete"
    BY <2>1 DEF Deletes
  <2>3. pc'[c] = "writing" /\ repo' = repo \ {a} /\ mutations' = mutations
    BY <1>1, <1>6, <2>1, <2>2 DEF Mutate, Goto, TypeOK
  <2>4. Still(a)'
    BY <2>1, StaysStill DEF Progress, Deleting, Deletes
  <2>5. mutations \in Seq(Calls) /\ 1 \in DOMAIN mutations /\ mutations[1] = c
    BY <1>1, <2>1, QueueTail DEF TypeOK
  <2>6. NoneQueued(a)'
    <3>1. NoneBehind(c, a)'
      BY <1>1, <2>1, NoneBehindKept DEF Progress
    <3>2. \A m \in DOMAIN mutations : ~(m < 1)
      BY <2>5
    <3> QED
      BY <2>3, <2>5, <3>1, <3>2 DEF NoneBehind, NoneQueued
  <2> QED
    BY <2>3, <2>4, <2>6 DEF Progress
<1>7. ASSUME Written(c) PROVE Progress(c, a)'
  <2>1. pc[c] = "writing" /\ a # DefaultAccount /\ Progress(c, a) /\ repo' = repo
    BY <1>4, <1>7 DEF Written
  <2>2. pc'[c] = "ended" /\ Still(a) /\ a \notin repo /\ NoneQueued(a)
    BY <1>1, <1>7, <2>1 DEF Progress, Written, Goto, TypeOK
  <2>3. Still(a)' /\ NoneQueued(a)'
    BY <1>1, <2>1, <2>2, StaysStill, NoneQueuedKept
  <2> QED
    BY <2>1, <2>2, <2>3 DEF Progress
<1> QED
  BY <1>1, <1>3, <1>5, <1>6, <1>7, DeletionMoves

LEMMA LeavesStep ==
  ASSUME NoUseWhileDeleting, IInv, Askers, GInv, [Next]_vars
  PROVE  Leaves'
<1>1. Onward /\ Deleters
  BY OnwardStep DEF IInv, GInv
<1> SUFFICES ASSUME NEW c \in Calls, NEW a \in Accounts, pc'[c] # "idle", Deletes(c, a)'
             PROVE  Progress(c, a)'
  BY DEF Leaves
<1>2. CASE pc'[c] = "failed"
  BY <1>2 DEF Progress
<1>3. CASE pc'[c] # "failed" /\ pc'[c] = pc[c]
  <2>1. Deletes(c, a)
    BY <1>1, <1>3 DEF Deletes, Onward
  <2>2. pc[c] \in {"removing", "queued", "writing", "ended"}
    BY <1>1, <1>3, <2>1 DEF Deleters
  <2> QED
    BY <1>3, <2>1, <2>2, LeavesKept
<1>4. CASE pc'[c] # "failed" /\ pc'[c] # pc[c]
  BY <1>4, LeavesMoved
<1> QED
  BY <1>2, <1>3, <1>4

\* An account whose deletion was answered stays gone: no refresh brings it back,
\* whatever was asked before and is answered or written afterwards, and no runtime
\* works for it, also not one that was starting meanwhile (codex-runtime-pool.ts,
\* account-repository.ts) - as long as nobody turns to the
\* account while it is being deleted, which the code does not see to.
THEOREM DeletedStaysGone ==
  ASSUME InitializeIsEarly, NoUseWhileDeleting
  PROVE  Spec => []DeletedIsGone
<1>1. Init => GInv
  BY DEF Init, GInv, Deleters, Queue, OwedOpen, Leaves
<1>2. ASSUME IInv, Askers, GInv, [Next]_vars PROVE GInv'
  BY <1>2, DeletersStep, QueueStep, OwedOpenStep, LeavesStep DEF GInv
<1>3. ASSUME IInv, GInv PROVE DeletedIsGone
  <2> SUFFICES ASSUME NEW c \in Calls, call[c] # None, call[c].kind = "delete", pc[c] = "ended"
               PROVE  /\ Account(c) \notin repo
                      /\ \A r \in Calls : runtime[r].open => Account(r) # Account(c)
    BY DEF DeletedIsGone
  <2>1. PICK a \in Accounts : a = Account(c) /\ Deletes(c, a)
    BY <1>3, CallKinds DEF IInv
  <2>2. a \notin repo /\ Still(a)
    BY <1>3, <2>1 DEF GInv, Leaves, Progress
  <2> QED
    BY <2>1, <2>2 DEF Still
<1> QED
  BY <1>1, <1>2, <1>3, Invariance, AskersInvariance, PTL DEF Spec
=============================================================================
