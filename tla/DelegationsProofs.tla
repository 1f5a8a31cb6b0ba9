--------------------------- MODULE DelegationsProofs ---------------------------
(***************************************************************************)
(* Theorems about the delegations, for any number of calls, requests and   *)
(* tasks, any terminal statuses, writes in flight and restarts: what a     *)
(* failed start leaves behind, what a started one promises, and that the   *)
(* relations fit together.                                                 *)
(***************************************************************************)
EXTENDS Delegations, FiniteSetTheorems, SequenceTheorems, TLAPS

-----------------------------------------------------------------------------
(* Sequences that list a set *)

\* s lists the members of S, each of them once.
Lists(s, S) ==
  /\ s \in Seq(S)
  /\ \A m, n \in DOMAIN s : s[m] = s[n] => m = n
  /\ S = {s[n] : n \in DOMAIN s}

\* Map.set of a new key.
LEMMA AppendLists ==
  ASSUME NEW s, NEW S, NEW c, Lists(s, S), c \notin S
  PROVE  Lists(Append(s, c), S \cup {c})
<1> DEFINE T == S \cup {c}
           u == Append(s, c)
<1>1. s \in Seq(T)
  BY SeqMonotonic DEF Lists
<1>2. /\ Append(s, c) \in Seq(T) /\ Len(Append(s, c)) = Len(s) + 1
      /\ \A n \in 1..Len(s) : Append(s, c)[n] = s[n]
      /\ Append(s, c)[Len(s) + 1] = c
  BY <1>1, AppendProperties
<1>3. DOMAIN s = 1..Len(s) /\ DOMAIN u = 1..(Len(s) + 1) /\ Len(s) \in Nat
  BY <1>1, <1>2, LenProperties
<1>4. \A n \in 1..Len(s) : s[n] \in S
  BY <1>3 DEF Lists
<1>5. \A m, n \in DOMAIN u : u[m] = u[n] => m = n
  BY <1>2, <1>3, <1>4 DEF Lists
<1>6. T = {u[n] : n \in DOMAIN u}
  <2>1. \A d \in T : \E n \in DOMAIN u : d = u[n]
    <3> SUFFICES ASSUME NEW d \in T PROVE \E n \in DOMAIN u : d = u[n]
      OBVIOUS
    <3>1. CASE d = c
      BY <3>1, <1>2, <1>3
    <3>2. CASE d \in S
      <4>1. PICK n \in DOMAIN s : d = s[n]
        BY <3>2 DEF Lists
      <4> QED
        BY <4>1, <1>2, <1>3
    <3> QED
      BY <3>1, <3>2
  <2>2. \A n \in DOMAIN u : u[n] \in T
    BY <1>2, <1>3, <1>4
  <2> QED
    BY <2>1, <2>2
<1> QED
  BY <1>2, <1>5, <1>6 DEF Lists

\* Map.delete of a key that is there.
LEMMA RemoveLists ==
  ASSUME NEW s, NEW S, NEW c \in S, Lists(s, S)
  PROVE  Lists(RemoveAt(s, CHOOSE n \in DOMAIN s : s[n] = c), S \ {c})
<1> DEFINE k == CHOOSE n \in DOMAIN s : s[n] = c
           u == RemoveAt(s, k)
<1>1. s \in Seq(S) /\ DOMAIN s = 1..Len(s) /\ Len(s) \in Nat
  BY LenProperties DEF Lists
<1>2. k \in 1..Len(s) /\ s[k] = c
  BY <1>1 DEF Lists
<1> HIDE DEF k
<1>3. k \in Int /\ Len(s) \in Int /\ 1 <= k /\ k <= Len(s)
  BY <1>1, <1>2
<1>4. \A n \in 1..Len(s) : s[n] \in S
  BY <1>1 DEF Lists
<1>5. /\ u \in Seq(S) /\ Len(u) = Len(s) - 1
      /\ \A n \in 1..(Len(s) - 1) : u[n] = IF n < k THEN s[n] ELSE s[n + 1]
  <2> DEFINE a == SubSeq(s, 1, k - 1)
             b == SubSeq(s, k + 1, Len(s))
  <2>1. /\ a \in Seq(S) /\ Len(a) = k - 1 /\ \A n \in 1..(k - 1) : a[n] = s[n]
    BY <1>1, <1>2, <1>4, SubSeqProperties
  <2>2. b \in Seq(S) /\ Len(b) = Len(s) - k /\ \A n \in 1..(Len(s) - k) : b[n] = s[n + k]
    <3>1. k + 1 \in Int /\ Len(s) \in Int /\ \A n \in (k + 1)..Len(s) : s[n] \in S
      BY <1>1, <1>2, <1>4
    <3>2. b \in Seq(S) /\ \A n \in 1..(Len(s) - (k + 1) + 1) : b[n] = s[(k + 1) + n - 1]
      BY <3>1, SubSeqProperties
    <3>3. Len(b) = IF k + 1 <= Len(s) THEN Len(s) - (k + 1) + 1 ELSE 0
      BY <3>1, SubSeqProperties
    <3>4. \A n \in 1..(Len(s) - k) : (k + 1) + n - 1 = n + k
      BY <1>1, <1>2
    <3>5. Len(s) - (k + 1) + 1 = Len(s) - k
      BY <1>1, <1>2
    <3> HIDE DEF b
    <3>6. Len(b) = Len(s) - k
      BY <1>3, <3>3
    <3> QED
      BY <3>2, <3>4, <3>5, <3>6
  <2>3. u = a \o b
    BY DEF RemoveAt
  <2> HIDE DEF a, b, u
  <2>4. /\ u \in Seq(S) /\ Len(u) = Len(a) + Len(b)
        /\ \A n \in 1..(Len(a) + Len(b)) : u[n] = IF n <= Len(a) THEN a[n] ELSE b[n - Len(a)]
    BY <2>1, <2>2, <2>3, ConcatProperties
  <2>5. Len(a) + Len(b) = Len(s) - 1
    BY <1>1, <1>2, <2>1, <2>2
  <2>6. \A n \in 1..(Len(s) - 1) : n < k => u[n] = s[n]
    <3> SUFFICES ASSUME NEW n \in 1..(Len(s) - 1), n < k PROVE u[n] = s[n]
      OBVIOUS
    <3>1. n \in 1..(k - 1) /\ n <= Len(a)
      BY <1>1, <1>2, <2>1
    <3> QED
      BY <2>1, <2>4, <2>5, <3>1
  <2>7. \A n \in 1..(Len(s) - 1) : ~(n < k) => u[n] = s[n + 1]
    <3> SUFFICES ASSUME NEW n \in 1..(Len(s) - 1), ~(n < k) PROVE u[n] = s[n + 1]
      OBVIOUS
    <3>0. ~(n <= Len(a)) /\ n - Len(a) = n - (k - 1) /\ n - (k - 1) \in 1..(Len(s) - k)
      BY <1>1, <1>2, <2>1
    <3>1. u[n] = b[n - (k - 1)] /\ n - (k - 1) \in 1..(Len(s) - k)
      BY <2>4, <2>5, <3>0
    <3>2. n - (k - 1) + k = n + 1
      BY <1>2
    <3> QED
      BY <2>2, <3>1, <3>2
  <2> QED
    BY <2>4, <2>5, <2>6, <2>7
<1>6. DOMAIN u = 1..(Len(s) - 1)
  BY <1>1, <1>5, LenProperties
<1> HIDE DEF u
<1>7. \A n \in DOMAIN u :
        \E m \in 1..Len(s) : m # k /\ u[n] = s[m] /\ m = (IF n < k THEN n ELSE n + 1)
  BY <1>1, <1>2, <1>5, <1>6
<1>8. \A m, n \in 1..Len(s) : s[m] = s[n] => m = n
  BY <1>1 DEF Lists
<1>9. \A n \in DOMAIN u : u[n] \in S \ {c}
  BY <1>2, <1>4, <1>7, <1>8
<1>10. u \in Seq(S \ {c})
  BY <1>1, <1>5, <1>6, <1>9
<1>11. \A m, n \in DOMAIN u : u[m] = u[n] => m = n
  BY <1>1, <1>2, <1>6, <1>7, <1>8
<1>12. \A d \in S \ {c} : \E n \in DOMAIN u : d = u[n]
  <2> SUFFICES ASSUME NEW d \in S \ {c} PROVE \E n \in DOMAIN u : d = u[n]
    OBVIOUS
  <2>1. PICK n \in 1..Len(s) : d = s[n]
    BY <1>1 DEF Lists
  <2>2. CASE n < k
    BY <2>1, <2>2, <1>1, <1>2, <1>5, <1>6
  <2>3. CASE n > k
    <3>1. n - 1 \in DOMAIN u /\ u[n - 1] = s[n]
      BY <2>1, <2>3, <1>1, <1>2, <1>5, <1>6
    <3> QED
      BY <2>1, <3>1
  <2>4. n # k
    BY <2>1, <1>2
  <2> QED
    BY <2>2, <2>3, <2>4, <2>1, <1>1, <1>2
<1>13. S \ {c} = {u[n] : n \in DOMAIN u}
  BY <1>12, <1>9
<1> QED
  BY <1>10, <1>11, <1>13 DEF Lists, u, k

\* initialize() puts the files of the directory into the map.
LEMMA SetToSeqLists ==
  ASSUME NEW S, IsFiniteSet(S)
  PROVE  Lists(SetToSeq(S), S)
<1> DEFINE f == SetToSeq(S)
           D == 1..Cardinality(S)
<1>1. Cardinality(S) \in Nat /\ ExistsBijection(D, S)
  BY FS_CardinalityType
<1>2. PICK g \in [D -> S] : IsInjective(g)
  BY <1>1 DEF ExistsBijection, Bijection, Injection
<1>3. f \in [D -> S] /\ IsInjective(f)
  BY <1>2 DEF SetToSeq
<1> HIDE DEF f
<1>4. f \in Seq(S)
  BY <1>1, <1>3
<1>5. \A m, n \in DOMAIN f : f[m] = f[n] => m = n
  BY <1>3 DEF IsInjective
<1>6. f \in Surjection(D, S)
  <2>1. IsFiniteSet(D) /\ Cardinality(D) = Cardinality(S)
    BY <1>1, FS_Interval
  <2>2. f \in Injection(D, S)
    BY <1>3 DEF Injection
  <2> QED
    BY <2>1, <2>2, FS_Injection
<1>7. S = {f[n] : n \in DOMAIN f}
  BY <1>3, <1>6 DEF Surjection
<1> QED
  BY <1>4, <1>5, <1>7 DEF Lists, f

-----------------------------------------------------------------------------
(* The indexes *)

\* Two keys of one request: which comes first does not matter.
LEMMA UniqueIsClashFree ==
  ASSUME NEW ord, NEW S, Lists(ord, S), Unbound(S)
  PROVE  ClashFree(ord) /\ Reached(ord) = S
<1>1. DOMAIN ord = 1..Len(ord) /\ Len(ord) \in Nat
  BY LenProperties DEF Lists
<1>2. \A k, n \in DOMAIN ord : k # n => ~SameRequest(ord[k], ord[n])
  BY DEF Lists, Unbound
<1>3. \A n \in DOMAIN ord : ~Clashes(ord, n)
  <2> SUFFICES ASSUME NEW n \in DOMAIN ord, NEW k \in 1..(n - 1)
               PROVE  ~SameRequest(ord[k], ord[n])
    BY DEF Clashes
  <2>1. k \in DOMAIN ord /\ k # n
    BY <1>1
  <2> QED
    BY <1>2, <2>1
<1>4. \A m \in DOMAIN ord : \A k \in 1..m : k \in DOMAIN ord
  BY <1>1
<1>5. Reached(ord) = {ord[n] : n \in DOMAIN ord}
  BY <1>3, <1>4 DEF Reached
<1> QED
  BY <1>3, <1>5 DEF ClashFree, Lists

\* The order of the map, in the form the lemmas on its steps use.
LEMMA OrderLists ==
  ASSUME TInv
  PROVE  Lists(order, {c \in Calls : dels[c] # None})
<1>1. order \in Seq({c \in Calls : dels[c] # None})
  <2>1. order \in Seq(Calls) /\ DOMAIN order = 1..Len(order) /\ Len(order) \in Nat
    BY LenProperties DEF TInv, MapIsListed
  <2>2. \A n \in 1..Len(order) : order[n] \in {c \in Calls : dels[c] # None}
    BY <2>1 DEF TInv, TypeOK
  <2> QED
    BY <2>1, <2>2
<1> QED
  BY <1>1 DEF Lists, TInv, TypeOK, MapIsListed

\* Where #rebuildIndexes throws, the indexes hold a part of the maps.
LEMMA IndexesAreBounded ==
  ASSUME NEW ord, NEW recs, NEW S, Lists(ord, S), RebuildIndexes(ord, recs)
  PROVE  indexed' \subseteq S /\ bound' \subseteq Stored(recs)
BY DEF RebuildIndexes, Reached, Lists

\* A record is written.
LEMMA SetRecordTypes ==
  ASSUME TInv, NEW c \in Calls, NEW state \in {None, "creating", "ready"}, SetRecord(c, state)
  PROVE  /\ record' = [record EXCEPT ![c] = state]
         /\ indexed' \subseteq {d \in Calls : dels[d] # None} /\ bound' \subseteq Stored(record')
<1>1. record' = [record EXCEPT ![c] = state] /\ RebuildIndexes(order, record')
  BY DEF SetRecord
<1> QED
  BY <1>1, OrderLists, IndexesAreBounded

\* A delegation is written: a new key comes last, the place of an old one
\* stays.
LEMMA SetDelegationTypes ==
  ASSUME TInv, NEW c \in Calls, NEW status \in Status, SetDelegation(c, status)
  PROVE  /\ dels' = [dels EXCEPT ![c] = status] /\ files' = dels' /\ status # None
         /\ Lists(order', {d \in Calls : dels'[d] # None}) /\ RebuildIndexes(order', record)
         /\ {d \in Calls : dels'[d] # None} = {d \in Calls : dels[d] # None} \cup {c}
<1> DEFINE S == {d \in Calls : dels[d] # None}
           T == {d \in Calls : dels'[d] # None}
<1>1. dels' = [dels EXCEPT ![c] = status] /\ files' = dels' /\ RebuildIndexes(order', record)
  BY DEF SetDelegation, TInv, MapIsListed
<1>2. status # None
  BY DelegationAssumption DEF Status
<1>3. T = S \cup {c}
  BY <1>1, <1>2 DEF TInv, TypeOK
<1>4. Lists(order, S)
  BY OrderLists
<1>5. CASE dels[c] = None
  <2>1. order' = Append(order, c) /\ c \notin S
    BY <1>5 DEF SetDelegation
  <2> HIDE DEF S
  <2>2. Lists(order', T)
    BY <1>3, <1>4, <2>1, AppendLists
  <2> QED
    BY <1>1, <1>2, <1>3, <2>2 DEF S
<1>6. CASE dels[c] # None
  BY <1>1, <1>2, <1>3, <1>4, <1>6 DEF SetDelegation
<1> QED
  BY <1>5, <1>6

\* A delegation is removed.
LEMMA DeleteDelegationTypes ==
  ASSUME TInv, NEW c \in Calls, DeleteDelegation(c)
  PROVE  /\ dels' = [dels EXCEPT ![c] = None] /\ files' = dels'
         /\ Lists(order', {d \in Calls : dels'[d] # None}) /\ RebuildIndexes(order', record)
         /\ {d \in Calls : dels'[d] # None} = {d \in Calls : dels[d] # None} \ {c}
<1> DEFINE S == {d \in Calls : dels[d] # None}
           T == {d \in Calls : dels'[d] # None}
<1>1. dels' = [dels EXCEPT ![c] = None] /\ files' = dels' /\ RebuildIndexes(order', record)
  BY DEF DeleteDelegation, TInv, MapIsListed
<1>2. T = S \ {c}
  BY <1>1 DEF TInv, TypeOK
<1>3. Lists(order, S)
  BY OrderLists
<1>4. CASE dels[c] = None
  BY <1>1, <1>2, <1>3, <1>4 DEF DeleteDelegation
<1>5. CASE dels[c] # None
  <2>1. order' = RemoveAt(order, CHOOSE n \in DOMAIN order : order[n] = c) /\ c \in S
    BY <1>5 DEF DeleteDelegation
  <2> HIDE DEF S
  <2>2. Lists(order', T)
    BY <1>2, <1>3, <2>1, RemoveLists
  <2> QED
    BY <1>1, <1>2, <2>2 DEF S
<1> QED
  BY <1>4, <1>5

\* initialize() loads the files in the order of the directory.
LEMMA RestartTypes ==
  ASSUME TInv, Restart
  PROVE  Lists(order', {c \in Calls : dels[c] # None}) /\ dels' = dels
<1>1. IsFiniteSet({c \in Calls : dels[c] # None})
  BY DelegationAssumption, FS_Subset
<1> QED
  BY <1>1, SetToSeqLists DEF Restart, TInv, MapIsListed

-----------------------------------------------------------------------------
(* Type correctness, whatever the callers do *)

LEMMA TypesOfInit == Init => TInv
<1> SUFFICES ASSUME Init PROVE TInv
  OBVIOUS
<1>1. order = <<>> /\ DOMAIN order = {} /\ order \in Seq(Calls)
  BY DEF Init
<1>2. (CHOOSE t \in Tasks : TRUE) \in Tasks
  BY DelegationAssumption
<1>3. TypeOK
  BY <1>1, <1>2, DelegationAssumption DEF Init, TypeOK, Stored
<1> QED
  BY <1>1, <1>3 DEF Init, TInv, MapIsListed

\* The lookup finds nothing, and the start goes on.
New(i, r, t) ==
  /\ Duplicates(r, t) = {} /\ pc[i] = "new"
  /\ req' = [req EXCEPT ![i] = r] /\ task' = [task EXCEPT ![i] = t] /\ mine' = mine
  /\ pc' = [pc EXCEPT ![i] = "create"]
  /\ raced' = IF Racing(r, t) = {} THEN raced ELSE raced \cup Racing(r, t) \cup {i}

\* It finds a delegation, which answers or refuses.
Known(i, r, t) ==
  /\ pc[i] = "new" /\ UNCHANGED <<req, task, raced>>
  /\ \E d \in Duplicates(r, t) :
       \/ pc' = [pc EXCEPT ![i] = "answered"] /\ mine' = [mine EXCEPT ![i] = d]
       \/ pc' = [pc EXCEPT ![i] = "refused"] /\ mine' = mine

LEMMA BeginLooksUp ==
  ASSUME NEW i \in Calls, Begin(i)
  PROVE  \E r \in Requests \cup {None}, t \in Tasks : New(i, r, t) \/ Known(i, r, t)
<1>1. PICK r \in Requests \cup {None}, t \in Tasks :
         IF Duplicates(r, t) = {}
           THEN /\ req' = [req EXCEPT ![i] = r] /\ task' = [task EXCEPT ![i] = t]
                /\ Goto(i, "create") /\ UNCHANGED mine
                /\ raced' = IF Racing(r, t) = {} THEN raced ELSE raced \cup Racing(r, t) \cup {i}
           ELSE /\ UNCHANGED <<req, task, raced>>
                /\ \E d \in Duplicates(r, t) :
                     IF task[d] = t
                       THEN Goto(i, "answered") /\ mine' = [mine EXCEPT ![i] = d]
                       ELSE Goto(i, "refused") /\ UNCHANGED mine
  BY DEF Begin
<1>2. pc[i] = "new"
  BY DEF Begin
<1>3. CASE Duplicates(r, t) = {}
  BY <1>1, <1>2, <1>3 DEF New, Goto
<1>4. CASE Duplicates(r, t) # {}
  BY <1>1, <1>2, <1>4 DEF Known, Goto
<1> QED
  BY <1>3, <1>4

\* start() and its continuations.
LEMMA StartKeepsTypes ==
  ASSUME TInv, NEW i \in Calls, StepOfStart(i)
  PROVE  TInv'
<1> USE DEF TInv, MapIsListed, TypeOK, Active, Ended, Status, Goto, history
<1>1. CASE Begin(i)
  <2>1. PICK r \in Requests \cup {None}, t \in Tasks : New(i, r, t) \/ Known(i, r, t)
    BY <1>1, BeginLooksUp
  <2>2. UNCHANGED <<known, record, sessions, runtime, storeVars, writes, up, crashes, left, revived>>
    BY <1>1 DEF Begin
  <2>3. CASE New(i, r, t)
    BY <2>2, <2>3 DEF New, Racing, storeVars
  <2>4. CASE Known(i, r, t)
    <3>1. PICK d \in Duplicates(r, t) :
            \/ pc' = [pc EXCEPT ![i] = "answered"] /\ mine' = [mine EXCEPT ![i] = d]
            \/ pc' = [pc EXCEPT ![i] = "refused"] /\ mine' = mine
      BY <2>4 DEF Known
    <3>2. d \in Calls
      BY DEF Duplicates
    <3> QED
      BY <2>2, <2>4, <3>1, <3>2 DEF Known, storeVars
  <2> QED
    BY <2>1, <2>3, <2>4
<1>2. CASE CreateThread(i)
  <2>1. pc' \in [Calls -> {"new"} \cup Active \cup Ended]
    BY <1>2 DEF CreateThread
  <2>2. mine' \in [Calls -> Calls]
    BY <1>2 DEF CreateThread, Stored
  <2>3. SetRecord(i, "creating") \/ UNCHANGED <<record, indexed, bound>>
    BY <1>2 DEF CreateThread
  <2>4. /\ record' \in [Calls -> {None, "creating", "ready"}]
        /\ indexed' \subseteq {c \in Calls : dels[c] # None} /\ bound' \subseteq Stored(record')
    BY <2>3, SetRecordTypes
  <2>5. UNCHANGED <<req, task, known, sessions, runtime, dels, order, files, recent,
                    writes, up, crashes, history>>
    BY <1>2 DEF CreateThread
  <2>6. raced' \subseteq {j \in Calls : pc'[j] # "new"}
    BY <1>2, <2>5 DEF CreateThread
  <2> QED
    BY <2>1, <2>2, <2>4, <2>5, <2>6
<1>3. CASE WriteDelegation(i)
  <2>1. SetDelegation(i, "creating") /\ "creating" \in Status
    BY <1>3 DEF WriteDelegation
  <2>2. /\ dels' = [dels EXCEPT ![i] = "creating"] /\ files' = dels'
        /\ Lists(order', {c \in Calls : dels'[c] # None})
        /\ indexed' \subseteq {c \in Calls : dels'[c] # None} /\ bound' \subseteq Stored(record)
    BY <2>1, SetDelegationTypes, IndexesAreBounded
  <2>3. /\ pc' \in [Calls -> {"new"} \cup Active \cup Ended] /\ known' \subseteq Calls
        /\ recent' \subseteq Calls
    BY <1>3 DEF WriteDelegation
  <2>4. UNCHANGED <<req, task, mine, record, sessions, runtime, writes, up, crashes, revived, raced>>
    BY <1>3 DEF WriteDelegation, callVars
  <2>5. order' \in Seq(Calls)
    BY <2>2, SeqMonotonic DEF Lists
  <2>6. /\ raced' \subseteq {j \in Calls : pc'[j] # "new"}
        /\ left' \subseteq Calls \X {"session", "relation", "record"}
    BY <1>3, <2>4 DEF WriteDelegation
  <2> QED
    BY <2>2, <2>3, <2>4, <2>5, <2>6 DEF Lists, Stored
<1>4. CASE WriteDelegationFails(i)
  BY <1>4 DEF WriteDelegationFails, callVars, storeVars
<1>5. CASE Open(i)
  <2>1. runtime' \in [Calls -> Status \cup {None}] /\ sessions' \subseteq Calls
    BY <1>5 DEF Open
  <2>2. pc' \in [Calls -> {"new"} \cup Active \cup Ended]
    BY <1>5 DEF Open
  <2> QED
    BY <1>5, <2>1, <2>2 DEF Open, callVars, storeVars
<1>6. CASE Commit(i)
  <2>1. pc' \in [Calls -> {"new"} \cup Active \cup Ended]
    BY <1>6 DEF Commit
  <2>2. runtime' \in [Calls -> Status \cup {None}]
    BY <1>6 DEF Commit
  <2>3. /\ record' \in [Calls -> {None, "creating", "ready"}]
        /\ indexed' \subseteq {c \in Calls : dels[c] # None} /\ bound' \subseteq Stored(record')
    BY <1>6, SetRecordTypes DEF Commit
  <2> QED
    BY <1>6, <2>1, <2>2, <2>3 DEF Commit, callVars
<1>7. CASE StartTurn(i)
  <2>1. runtime' \in [Calls -> Status \cup {None}]
    BY <1>7 DEF StartTurn
  <2>2. pc' \in [Calls -> {"new"} \cup Active \cup Ended]
    BY <1>7 DEF StartTurn
  <2> QED
    BY <1>7, <2>1, <2>2 DEF StartTurn, callVars, storeVars
<1>8. CASE AwaitNative(i)
  <2>1. pc' \in [Calls -> {"new"} \cup Active \cup Ended]
    BY <1>8 DEF AwaitNative
  <2> QED
    BY <1>8, <2>1 DEF AwaitNative, callVars, storeVars
<1>9. CASE SetRunning(i)
  BY <1>9 DEF SetRunning, callVars, storeVars
<1>10. CASE CloseSession(i)
  BY <1>10 DEF CloseSession, callVars, storeVars
<1>11. CASE RemoveDelegation(i)
  <2>1. /\ dels' = [dels EXCEPT ![i] = None] /\ files' = dels'
        /\ Lists(order', {c \in Calls : dels'[c] # None})
        /\ indexed' \subseteq {c \in Calls : dels'[c] # None} /\ bound' \subseteq Stored(record)
    BY <1>11, DeleteDelegationTypes, IndexesAreBounded DEF RemoveDelegation
  <2>2. pc' \in [Calls -> {"new"} \cup Active \cup Ended]
    BY <1>11 DEF RemoveDelegation
  <2>3. UNCHANGED <<req, task, mine, known, record, sessions, runtime, recent, writes, up, crashes,
                    history>>
    BY <1>11 DEF RemoveDelegation, callVars
  <2>4. order' \in Seq(Calls)
    BY <2>1, SeqMonotonic DEF Lists
  <2>5. raced' \subseteq {j \in Calls : pc'[j] # "new"}
    BY <1>11, <2>3 DEF RemoveDelegation
  <2> QED
    BY <2>1, <2>2, <2>3, <2>4, <2>5 DEF Lists, Stored
<1>12. CASE RemoveThread(i)
  <2>1. pc' \in [Calls -> {"new"} \cup Active \cup Ended]
    BY <1>12 DEF RemoveThread
  <2>2. /\ record' \in [Calls -> {None, "creating", "ready"}]
        /\ indexed' \subseteq {c \in Calls : dels[c] # None} /\ bound' \subseteq Stored(record')
    BY <1>12, SetRecordTypes DEF RemoveThread
  <2> QED
    BY <1>12, <2>1, <2>2 DEF RemoveThread, callVars
<1>13. CASE CreateThreadFails(i)
  BY <1>13 DEF CreateThreadFails, callVars, storeVars
<1>14. CASE RemoveDelegationFails(i)
  BY <1>14 DEF RemoveDelegationFails, callVars, storeVars
<1>15. CASE RemoveThreadFails(i)
  BY <1>15 DEF RemoveThreadFails, callVars, storeVars
<1> QED
  BY <1>1, <1>2, <1>3, <1>4, <1>5, <1>6, <1>7, <1>8, <1>9, <1>10, <1>11, <1>12, <1>13, <1>14,
     <1>15 DEF StepOfStart

\* The child thread and its readers.
LEMMA ChildKeepsTypes ==
  ASSUME TInv, NEW c \in Calls,
         PersistNative(c) \/ TurnEnds(c) \/ Send(c) \/ Resolve(c) \/ Read(c)
           \/ DeleteThread(c) \/ Expire(c)
  PROVE  TInv'
<1> USE DEF TInv, MapIsListed, TypeOK, Active, Ended, Status, Goto, history
<1>1. CASE PersistNative(c)
  BY <1>1, SetRecordTypes DEF PersistNative, callVars
<1>2. CASE TurnEnds(c)
  BY <1>2 DEF TurnEnds, Writing, callVars, storeVars
<1>3. CASE Send(c)
  BY <1>3 DEF Send, callVars, storeVars
<1>4. CASE Resolve(c)
  BY <1>4 DEF Resolve, callVars, storeVars
<1>5. CASE Read(c)
  BY <1>5 DEF Read, Writing, callVars, storeVars
<1>6. CASE DeleteThread(c)
  BY <1>6, SetRecordTypes DEF DeleteThread, callVars
<1>7. CASE Expire(c)
  BY <1>7 DEF Expire, callVars
<1> QED
  BY <1>1, <1>2, <1>3, <1>4, <1>5, <1>6, <1>7

LEMMA FinishWriteKeepsTypes ==
  ASSUME TInv, NEW w \in writes, FinishWrite(w)
  PROVE  TInv'
<1>1. w.del \in Calls /\ w.status \in Status
  BY DEF TInv, TypeOK
<1>2. /\ dels' = [dels EXCEPT ![w.del] = w.status] /\ files' = dels'
      /\ Lists(order', {c \in Calls : dels'[c] # None})
      /\ indexed' \subseteq {c \in Calls : dels'[c] # None} /\ bound' \subseteq Stored(record)
  BY <1>1, SetDelegationTypes, IndexesAreBounded DEF FinishWrite
<1>3. pc' \in [Calls -> {"new"} \cup Active \cup Ended]
  BY <1>1 DEF FinishWrite, Goto, TInv, TypeOK, Active, Ended
<1>4. /\ UNCHANGED <<req, task, mine, known, record, sessions, runtime, recent, up, crashes, left,
                       raced>>
      /\ writes' \subseteq writes /\ revived' \subseteq Calls
  BY <1>1 DEF FinishWrite, callVars, TInv, TypeOK
<1>5. order' \in Seq(Calls)
  BY <1>2, SeqMonotonic DEF Lists
<1>6. raced' \subseteq {j \in Calls : pc'[j] # "new"}
  BY <1>4 DEF FinishWrite, Goto, TInv, TypeOK
<1> QED
  BY <1>1, <1>2, <1>3, <1>4, <1>5, <1>6 DEF Lists, TInv, MapIsListed, TypeOK, Stored

LEMMA WriteFailsKeepsTypes ==
  ASSUME TInv, NEW w \in writes, WriteFails(w)
  PROVE  TInv'
BY DEF WriteFails, Goto, TInv, MapIsListed, TypeOK, Active, Ended, callVars, storeVars, history

LEMMA RestartKeepsTypes ==
  ASSUME TInv, Restart
  PROVE  TInv'
<1>1. Lists(order', {c \in Calls : dels[c] # None}) /\ dels' = dels /\ files' = dels
  BY RestartTypes DEF Restart, TInv, MapIsListed
<1>2. indexed' \subseteq {c \in Calls : dels[c] # None} /\ bound' \subseteq Stored(record')
  BY <1>1, IndexesAreBounded DEF Restart
<1>3. up' \in BOOLEAN
  BY DEF Restart, RebuildSucceeds, ClashFree, Unbound
<1>4. pc' \in [Calls -> {"new"} \cup Active \cup Ended]
  BY DEF Restart, TInv, TypeOK, Active, Ended
<1>5. /\ sessions' \subseteq Calls /\ runtime' \in [Calls -> Status \cup {None}]
      /\ record' \in [Calls -> {None, "creating", "ready"}]
  BY DEF Restart, TInv, TypeOK
<1>6. crashes' \in 0..MaxCrashes
  BY DelegationAssumption DEF Restart, TInv, TypeOK
<1>7. order' \in Seq(Calls)
  BY <1>1, SeqMonotonic DEF Lists
<1>8. UNCHANGED <<req, task, mine, recent, left, revived, raced>> /\ known' = {} /\ writes' = {}
  BY DEF Restart, callVars, history
<1>9. raced' \subseteq {j \in Calls : pc'[j] # "new"}
  BY <1>8 DEF Restart, TInv, TypeOK
<1> QED
  BY <1>1, <1>2, <1>3, <1>4, <1>5, <1>6, <1>7, <1>8, <1>9 DEF Lists, TInv, MapIsListed, TypeOK

LEMMA StepKeepsTypes ==
  ASSUME TInv, [Next]_vars
  PROVE  TInv'
<1>1. CASE UNCHANGED vars
  BY <1>1 DEF vars, callVars, storeVars, history, TInv, TypeOK, MapIsListed, Stored
<1> QED
  BY <1>1, StartKeepsTypes, ChildKeepsTypes, FinishWriteKeepsTypes, WriteFailsKeepsTypes,
     RestartKeepsTypes DEF Next

\* The indexes never hold more than the maps, the map lists each relation of
\* the files once: for all the constants, also where #rebuildIndexes throws.
THEOREM TypesHold == Spec => []TypeOK
<1>1. TInv /\ [Next]_vars => TInv'
  BY StepKeepsTypes
<1>2. TInv => TypeOK
  BY DEF TInv
<1> QED
  BY <1>1, <1>2, TypesOfInit, PTL DEF Spec

-----------------------------------------------------------------------------
(* The indexes are complete as long as requests are unique *)

\* A thread record is written, under a request no other record has.
LEMMA SetRecordKeeps ==
  ASSUME TInv, IndexesAreComplete, RequestsAreUnique,
         NEW c \in Calls, NEW state \in {None, "creating", "ready"}, SetRecord(c, state),
         state = None \/ record[c] # None \/ \A d \in bound : ~SameRequest(c, d)
  PROVE  /\ record' = [record EXCEPT ![c] = state]
         /\ indexed' = indexed /\ bound' = Stored(record')
         /\ Unbound(Stored(record')) /\ RebuildSucceeds(order, record')
<1>1. ClashFree(order) /\ Reached(order) = indexed
  BY OrderLists, UniqueIsClashFree DEF IndexesAreComplete, RequestsAreUnique
<1>2. record' = [record EXCEPT ![c] = state]
  BY DEF SetRecord
<1>3. CASE state = None \/ record[c] # None
  <2>1. Stored(record') \subseteq Stored(record)
    BY <1>2, <1>3 DEF Stored, TInv, TypeOK
  <2>2. Unbound(Stored(record'))
    BY <2>1 DEF Unbound, RequestsAreUnique
  <2> QED
    BY <1>1, <1>2, <2>2 DEF SetRecord, RebuildIndexes, RebuildSucceeds
<1>4. CASE \A d \in bound : ~SameRequest(c, d)
  <2>1. Stored(record') \subseteq bound \cup {c}
    BY <1>2 DEF Stored, TInv, TypeOK, IndexesAreComplete
  <2>2. \A a, b \in bound : a # b => ~SameRequest(a, b)
    BY DEF Unbound, RequestsAreUnique, IndexesAreComplete
  <2>3. Unbound(Stored(record'))
    BY <1>4, <2>1, <2>2 DEF Unbound, SameRequest
  <2> QED
    BY <1>1, <1>2, <2>3 DEF SetRecord, RebuildIndexes, RebuildSucceeds
<1> QED
  BY <1>3, <1>4

\* The delegations change to some of which no two have the same request.
LEMMA RebuildKeeps ==
  ASSUME IndexesAreComplete, RequestsAreUnique, NEW S,
         Lists(order', S), Unbound(S), RebuildIndexes(order', record)
  PROVE  indexed' = S /\ bound' = bound /\ RebuildSucceeds(order', record)
<1>1. ClashFree(order') /\ Reached(order') = S
  BY UniqueIsClashFree
<1> QED
  BY <1>1 DEF RebuildIndexes, RebuildSucceeds, IndexesAreComplete, RequestsAreUnique

\* A delegation is written, under a request no other delegation has.
LEMMA SetDelegationKeeps ==
  ASSUME TInv, IndexesAreComplete, RequestsAreUnique,
         NEW c \in Calls, NEW status \in Status, SetDelegation(c, status),
         \A d \in Calls : d # c /\ dels[d] # None => ~SameRequest(c, d)
  PROVE  /\ indexed' = {d \in Calls : dels'[d] # None} /\ bound' = bound
         /\ Unbound({d \in Calls : dels'[d] # None}) /\ RebuildSucceeds(order', record)
<1> DEFINE S == {d \in Calls : dels[d] # None}
           T == {d \in Calls : dels'[d] # None}
<1>1. T = S \cup {c} /\ Lists(order', T) /\ RebuildIndexes(order', record)
  BY SetDelegationTypes
<1>2. \A d \in S : d # c => ~SameRequest(c, d) /\ ~SameRequest(d, c)
  BY DEF SameRequest
<1>3. \A a, b \in S : a # b => ~SameRequest(a, b)
  BY DEF Unbound, RequestsAreUnique
<1> HIDE DEF S, T
<1>4. Unbound(T)
  BY <1>1, <1>2, <1>3 DEF Unbound
<1>5. indexed' = T /\ bound' = bound /\ RebuildSucceeds(order', record)
  BY <1>1, <1>4, RebuildKeeps
<1> QED
  BY <1>4, <1>5 DEF T

\* A delegation is removed.
LEMMA DeleteDelegationKeeps ==
  ASSUME TInv, IndexesAreComplete, RequestsAreUnique, NEW c \in Calls, DeleteDelegation(c)
  PROVE  /\ indexed' = {d \in Calls : dels'[d] # None} /\ bound' = bound
         /\ Unbound({d \in Calls : dels'[d] # None})
<1> DEFINE S == {d \in Calls : dels[d] # None}
           T == {d \in Calls : dels'[d] # None}
<1>1. T = S \ {c} /\ Lists(order', T) /\ RebuildIndexes(order', record)
  BY DeleteDelegationTypes
<1>2. Unbound(T)
  BY <1>1 DEF Unbound, RequestsAreUnique
<1> HIDE DEF S, T
<1>3. indexed' = T /\ bound' = bound
  BY <1>1, <1>2, RebuildKeeps
<1> QED
  BY <1>2, <1>3 DEF T

\* Restart drops provisional threads and keeps the delegations.
LEMMA RestartKeeps ==
  ASSUME TInv, IndexesAreComplete, RequestsAreUnique, Restart
  PROVE  indexed' = indexed /\ bound' = Stored(record') /\ up' /\ Unbound(Stored(record'))
<1>1. ClashFree(order') /\ Reached(order') = indexed
  BY RestartTypes, UniqueIsClashFree DEF IndexesAreComplete, RequestsAreUnique
<1>2. Stored(record') \subseteq Stored(record)
  BY DEF Restart, Stored
<1>3. Unbound(Stored(record'))
  BY <1>2 DEF Unbound, RequestsAreUnique
<1>4. RebuildIndexes(order', record') /\ up' = RebuildSucceeds(order', record')
  BY DEF Restart
<1> QED
  BY <1>1, <1>3, <1>4 DEF RebuildIndexes, RebuildSucceeds

-----------------------------------------------------------------------------
(* What the steps have in common *)

\* No race and no revived relation is forgotten.
LEMMA CleanBefore ==
  ASSUME TInv, [Next]_vars, Clean'
  PROVE  Clean
<1>1. revived \subseteq revived' /\ raced \subseteq raced'
  <2>1. ASSUME NEW i \in Calls, Begin(i) PROVE revived' = revived /\ raced \subseteq raced'
    BY <2>1, BeginLooksUp DEF Begin, New, Known
  <2>2. ASSUME NEW i \in Calls, StepOfStart(i) PROVE revived' = revived /\ raced \subseteq raced'
    BY <2>1, <2>2
       DEF StepOfStart, CreateThread, CreateThreadFails, WriteDelegation, WriteDelegationFails,
           Open, Commit, StartTurn, AwaitNative, SetRunning, CloseSession, RemoveDelegation,
           RemoveDelegationFails, RemoveThread, RemoveThreadFails, history
  <2>3. ASSUME NEW w \in writes, FinishWrite(w) \/ WriteFails(w)
        PROVE  revived \subseteq revived' /\ raced' = raced
    BY <2>3 DEF FinishWrite, WriteFails, history
  <2>4. CASE UNCHANGED vars \/ Restart
    BY <2>4 DEF vars, Restart, history
  <2>5. ASSUME NEW c \in Calls,
               PersistNative(c) \/ TurnEnds(c) \/ Send(c) \/ Resolve(c) \/ Read(c)
                 \/ DeleteThread(c) \/ Expire(c)
        PROVE  revived' = revived /\ raced' = raced
    BY <2>5 DEF PersistNative, TurnEnds, Send, Resolve, Read, DeleteThread, Expire, history
  <2> QED
    BY <2>2, <2>3, <2>4, <2>5 DEF Next
<1>2. \A j \in Calls : pc[j] # "new" => req'[j] = req[j]
  <2>1. ASSUME NEW i \in Calls, Begin(i) PROVE \A j \in Calls : pc[j] # "new" => req'[j] = req[j]
    BY <2>1, BeginLooksUp DEF New, Known, TInv, TypeOK
  <2>2. ASSUME NEW i \in Calls, StepOfStart(i), ~Begin(i) PROVE req' = req
    BY <2>2
       DEF StepOfStart, CreateThread, CreateThreadFails, WriteDelegation, WriteDelegationFails,
           Open, Commit, StartTurn, AwaitNative, SetRunning, CloseSession, RemoveDelegation,
           RemoveDelegationFails, RemoveThread, RemoveThreadFails, callVars
  <2>3. CASE (\E w \in writes : FinishWrite(w) \/ WriteFails(w)) \/ UNCHANGED vars \/ Restart
    BY <2>3 DEF FinishWrite, WriteFails, vars, Restart, callVars
  <2>4. ASSUME NEW c \in Calls,
               PersistNative(c) \/ TurnEnds(c) \/ Send(c) \/ Resolve(c) \/ Read(c)
                 \/ DeleteThread(c) \/ Expire(c)
        PROVE  req' = req
    BY <2>4 DEF PersistNative, TurnEnds, Send, Resolve, Read, DeleteThread, Expire, callVars
  <2> QED
    BY <2>1, <2>2, <2>3, <2>4 DEF Next
<1> QED
  BY <1>1, <1>2 DEF Clean, TInv, TypeOK

\* Between the lookups of two starts and the file of the first.
InWindow(i) == pc[i] \in {"create", "file"}

\* A step after which nobody is new in the window, and no delegation appears.
LEMMA WindowKeeps ==
  ASSUME RacesAreSeen, NewTasks, UNCHANGED <<req, task>>,
         \A i \in Calls : InWindow(i)' => InWindow(i),
         raced' = raced, revived \subseteq revived', recent' \subseteq recent,
         \A d \in Calls : dels'[d] # None => dels[d] # None \/ d \in revived'
  PROVE  RacesAreSeen' /\ NewTasks'
<1>1. RacesAreSeen'
  BY DEF RacesAreSeen, InWindow, SameRequest
<1>2. NewTasks'
  BY DEF NewTasks, InWindow
<1> QED
  BY <1>1, <1>2

\* The registry while nothing is written.
LEMMA StoreKeeps ==
  ASSUME SInv, UNCHANGED <<req, record, dels, indexed, bound, up>>,
         \A i \in Calls : InWindow(i)' => InWindow(i)
  PROVE  SInv'
<1>1. IndexesAreComplete'
  BY DEF SInv, IndexesAreComplete, Stored
<1>2. RequestsAreUnique'
  BY DEF SInv, RequestsAreUnique, Unbound, SameRequest, Stored
<1>3. NewRequests'
  BY DEF SInv, NewRequests, InWindow, SameRequest
<1> QED
  BY <1>1, <1>2, <1>3 DEF SInv

\* The registry after a record was written or removed.
LEMMA StoreAfterRecord ==
  ASSUME SInv, UNCHANGED <<req, dels, indexed, up>>, bound' = Stored(record'),
         Unbound(Stored(record')), \A i \in Calls : InWindow(i)' => InWindow(i)
  PROVE  SInv'
<1>1. IndexesAreComplete'
  BY DEF SInv, IndexesAreComplete, Stored
<1>2. RequestsAreUnique'
  BY DEF SInv, RequestsAreUnique, Unbound, SameRequest, Stored
<1>3. NewRequests'
  BY DEF SInv, NewRequests, InWindow, SameRequest
<1> QED
  BY <1>1, <1>2, <1>3 DEF SInv

-----------------------------------------------------------------------------
(* Every step keeps the invariant *)

\* The lookup of start().
LEMMA BeginKeeps ==
  ASSUME TInv, LInv, NEW i \in Calls, Begin(i)
  PROVE  LInv' /\ (SInv => SInv')
<1> USE DEF TInv, TypeOK
<1>1. PICK r \in Requests \cup {None}, t \in Tasks : New(i, r, t) \/ Known(i, r, t)
  BY BeginLooksUp
<1>2. UNCHANGED <<known, record, sessions, runtime, dels, indexed, bound, recent, writes, up,
                  left, revived>>
  BY DEF Begin, storeVars
<1>3. pc[i] = "new" /\ mine[i] = i /\ record[i] = None /\ dels[i] = None /\ i \notin known
  BY DEF Begin, LInv, StillNew
<1>0. \A c, q : Left(c, q) => Left(c, q)'
  BY <1>2 DEF Left
<1>4. CASE New(i, r, t)
  <2> USE <1>2, <1>3, <1>4 DEF New
  <2>1. StillNew'
    BY DEF LInv, StillNew
  <2>2. LocalIsTrue'
    BY <1>0 DEF LInv, LocalIsTrue
  <2>3. ServesThread'
    BY DEF LInv, ServesThread
  <2>4. RolledBack'
    <3>1. \A c \in Calls : Handed(c) => Handed(c)'
      BY DEF Handed, LInv, StillNew
    <3> QED
      BY <3>1, <1>0, DelegationAssumption DEF LInv, RolledBack
  <2>5. WritesHaveTarget'
    BY DEF LInv, WritesHaveTarget
  <2>6. RacesAreSeen'
    <3> SUFFICES ASSUME NEW a \in Calls, NEW b \in Calls, a # b, InWindow(a)', InWindow(b)',
                        SameRequest(a, b)' \/ ((req'[a] = None \/ req'[b] = None) /\ task'[a] = task'[b])
                 PROVE  a \in raced'
      BY DEF RacesAreSeen, InWindow
    <3>1. CASE a # i /\ b # i
      BY <3>1 DEF LInv, RacesAreSeen, InWindow, SameRequest
    <3>2. CASE a = i
      <4>1. b \in Racing(r, t)
        BY <3>2 DEF Racing, InWindow, SameRequest
      <4> QED
        BY <3>2, <4>1
    <3>3. CASE b = i
      <4>1. a \in Racing(r, t)
        BY <3>3 DEF Racing, InWindow, SameRequest
      <4> QED
        BY <3>3, <4>1
    <3> QED
      BY <3>1, <3>2, <3>3
  <2>7. NewTasks'
    BY DEF LInv, NewTasks, Duplicates
  <2>8. SInv => SInv'
    <3>1. SInv => IndexesAreComplete'
      BY DEF SInv, IndexesAreComplete, Stored
    <3>2. SInv => RequestsAreUnique'
      BY DEF SInv, RequestsAreUnique, Unbound, SameRequest, Stored
    <3>3. SInv => NewRequests'
      BY DEF SInv, NewRequests, SameRequest, IndexesAreComplete, Duplicates
    <3> QED
      BY <3>1, <3>2, <3>3 DEF SInv
  <2> QED
    BY <2>1, <2>2, <2>3, <2>4, <2>5, <2>6, <2>7, <2>8 DEF LInv
<1>5. CASE Known(i, r, t)
  <2>1. /\ UNCHANGED <<req, task, raced>> /\ \A j \in Calls : j # i => mine'[j] = mine[j]
        /\ \/ pc' = [pc EXCEPT ![i] = "answered"]
           \/ pc' = [pc EXCEPT ![i] = "refused"] /\ mine' = mine
    BY <1>5 DEF Known
  <2> USE <1>2, <1>3, <2>1
  <2>2. StillNew'
    BY DEF LInv, StillNew
  <2>3. LocalIsTrue'
    BY <1>0 DEF LInv, LocalIsTrue
  <2>4. ServesThread'
    BY DEF LInv, ServesThread
  <2>5. RolledBack'
    <3>1. \A c \in Calls : Handed(c) => Handed(c)'
      BY DEF Handed, LInv, StillNew
    <3> QED
      BY <3>1, <1>0, DelegationAssumption DEF LInv, RolledBack
  <2>6. WritesHaveTarget'
    BY DEF LInv, WritesHaveTarget
  <2>7. RacesAreSeen' /\ NewTasks'
    BY WindowKeeps DEF LInv, InWindow
  <2>8. SInv => SInv'
    BY StoreKeeps DEF InWindow
  <2> QED
    BY <2>2, <2>3, <2>4, <2>5, <2>6, <2>7, <2>8 DEF LInv
<1> QED
  BY <1>1, <1>4, <1>5

\* createProvisional: a new record, or that of an earlier start.
LEMMA CreateThreadKeeps ==
  ASSUME TInv, LInv, NEW i \in Calls, CreateThread(i)
  PROVE  LInv' /\ (SInv => SInv')
<1> USE DEF TInv, TypeOK
<1>1. /\ pc[i] = "create" /\ mine[i] = i
      /\ \/ pc' = [pc EXCEPT ![i] = "file"]
         \/ pc' = [pc EXCEPT ![i] = "cleanup"]
         \/ pc' = [pc EXCEPT ![i] = "refused"]
      /\ \/ UNCHANGED <<record, indexed, bound>>
         \/ SetRecord(i, "creating") /\ \A c \in bound : ~SameRequest(i, c)
      /\ \A j \in Calls : j # i => mine'[j] = mine[j]
  BY DEF CreateThread, Goto, LInv, StillNew
<1>2. \A j \in Calls : j # i => record'[j] = record[j]
  BY <1>1 DEF SetRecord
<1>3. UNCHANGED <<req, task, known, sessions, runtime, dels, recent, writes, up, left, revived, raced>>
  BY DEF CreateThread, history
<1>4. dels[i] = None /\ i \notin known
  BY <1>1 DEF LInv, StillNew
<1> USE <1>1, <1>2, <1>3, <1>4
<1>0. \A c, q : Left(c, q) => Left(c, q)'
  BY <1>3 DEF Left
<1>5. StillNew'
  BY DEF LInv, StillNew
<1>6. LocalIsTrue'
  BY <1>0 DEF LInv, LocalIsTrue
<1>7. ServesThread'
  BY DEF LInv, ServesThread
<1>8. RolledBack'
  <2>1. \A c \in Calls : Handed(c) => Handed(c)'
    BY DEF Handed, LInv, StillNew
  <2> QED
    BY <2>1, <1>0, DelegationAssumption DEF LInv, RolledBack
<1>9. WritesHaveTarget'
  BY DEF LInv, WritesHaveTarget
<1>10. RacesAreSeen' /\ NewTasks'
  BY WindowKeeps DEF LInv, InWindow
<1>11. SInv => SInv'
  <2>1. CASE UNCHANGED <<record, indexed, bound>>
    BY <2>1, StoreKeeps DEF InWindow
  <2>2. CASE SetRecord(i, "creating") /\ \A c \in bound : ~SameRequest(i, c)
    <3>1. SInv => indexed' = indexed /\ bound' = Stored(record') /\ Unbound(Stored(record'))
      BY <2>2, SetRecordKeeps DEF SInv
    <3> QED
      BY <3>1, StoreAfterRecord DEF InWindow
  <2> QED
    BY <2>1, <2>2
<1> QED
  BY <1>5, <1>6, <1>7, <1>8, <1>9, <1>10, <1>11 DEF LInv

\* createDelegation.
LEMMA WriteDelegationKeeps ==
  ASSUME TInv, LInv, NEW i \in Calls, WriteDelegation(i)
  PROVE  LInv' /\ (SInv /\ Clean' => SInv')
<1> USE DEF TInv, TypeOK
<1>1. SetDelegation(i, "creating") /\ "creating" \in Status /\ pc[i] = "file"
  BY DEF WriteDelegation, Status
<1>2. dels' = [dels EXCEPT ![i] = "creating"] /\ dels'[i] # None
  BY <1>1, SetDelegationTypes
<1>3. /\ recent' = recent \cup {i}
      /\ \/ pc' = [pc EXCEPT ![i] = "open"] /\ known' = known \cup {i} /\ left' = left
         \/ pc' = [pc EXCEPT ![i] = "cleanup"] /\ left' = left \cup {<<i, "relation">>} /\ known' = known
  BY DEF WriteDelegation, Goto
<1>4. UNCHANGED <<req, task, mine, record, sessions, runtime, writes, up, revived, raced>>
  BY DEF WriteDelegation, callVars
<1>5. i \notin known
  BY <1>1 DEF LInv, StillNew
<1> USE <1>1, <1>2, <1>3, <1>4, <1>5
<1>0. (\A c, q : Left(c, q) => Left(c, q)') /\ (pc'[i] = "cleanup" => Left(i, "relation")')
  BY <1>3 DEF Left
<1>6. StillNew'
  BY DEF LInv, StillNew
<1>7. LocalIsTrue'
  BY <1>0 DEF LInv, LocalIsTrue
<1>8. ServesThread'
  BY DEF LInv, ServesThread
<1>9. RolledBack'
  <2>1. \A c \in Calls : Handed(c) => Handed(c)'
    BY DEF Handed, LInv, StillNew
  <2> QED
    BY <2>1, <1>0, DelegationAssumption DEF LInv, RolledBack
<1>10. WritesHaveTarget'
  BY DEF LInv, WritesHaveTarget
<1>11. RacesAreSeen'
  BY DEF LInv, RacesAreSeen, SameRequest
<1>12. NewTasks'
  <2> SUFFICES ASSUME NEW j \in Calls, NEW d \in Calls, InWindow(j)', req[j] = None,
                      d \in recent', dels'[d] # None, task[d] = task[j]
               PROVE  j \in raced \/ d \in revived
    BY DEF NewTasks, InWindow
  <2>1. j # i /\ InWindow(j)
    BY DEF InWindow
  <2>2. CASE d = i
    BY <2>1, <2>2 DEF LInv, RacesAreSeen, InWindow
  <2>3. CASE d # i
    BY <2>1, <2>3 DEF LInv, NewTasks, InWindow
  <2> QED
    BY <2>2, <2>3
<1>13. ASSUME SInv, Clean' PROVE SInv'
  <2>1. \A d \in Calls : dels[d] # None => ~SameRequest(i, d)
    BY <1>13 DEF SInv, NewRequests
  <2>2. /\ indexed' = {d \in Calls : dels'[d] # None} /\ bound' = bound
        /\ Unbound({d \in Calls : dels'[d] # None})
    BY <1>13, <2>1, SetDelegationKeeps DEF SInv
  <2>3. IndexesAreComplete'
    BY <1>13, <2>2 DEF SInv, IndexesAreComplete, Stored
  <2>4. RequestsAreUnique'
    BY <1>13, <2>2 DEF SInv, RequestsAreUnique, Unbound, SameRequest, Stored
  <2>5. NewRequests'
    <3> SUFFICES ASSUME NEW j \in Calls, NEW d \in Calls, InWindow(j)', dels'[d] # None
                 PROVE  ~SameRequest(j, d)
      BY DEF NewRequests, InWindow, SameRequest
    <3>1. j # i /\ InWindow(j)
      BY DEF InWindow
    <3>2. CASE d = i
      <4>1. SameRequest(j, i) => j \in raced /\ req[j] # None
        BY <3>1 DEF LInv, RacesAreSeen, InWindow, SameRequest
      <4> QED
        BY <1>13, <3>2, <4>1 DEF Clean
    <3>3. CASE d # i
      BY <1>13, <3>1, <3>3 DEF SInv, NewRequests, InWindow
    <3> QED
      BY <3>2, <3>3
  <2> QED
    BY <2>3, <2>4, <2>5 DEF SInv
<1> QED
  BY <1>6, <1>7, <1>8, <1>9, <1>10, <1>11, <1>12, <1>13 DEF LInv

\* The record of the child was not written.
LEMMA CreateThreadFailsKeeps ==
  ASSUME TInv, LInv, NEW i \in Calls, CreateThreadFails(i)
  PROVE  LInv' /\ (SInv => SInv')
<1> USE DEF TInv, TypeOK, CreateThreadFails, Goto, callVars, storeVars, history
<1>0. \A c, q : Left(c, q) => Left(c, q)'
  BY DEF Left
<1>1. StillNew'
  BY DEF LInv, StillNew
<1>2. LocalIsTrue'
  BY <1>0 DEF LInv, LocalIsTrue
<1>3. ServesThread'
  BY DelegationAssumption DEF LInv, ServesThread
<1>4. RolledBack'
  <2>1. \A c \in Calls : Handed(c) => Handed(c)'
    BY DEF Handed, LInv, StillNew
  <2> QED
    BY <2>1, <1>0, DelegationAssumption DEF LInv, RolledBack
<1>5. WritesHaveTarget'
  BY DEF LInv, WritesHaveTarget
<1>6. RacesAreSeen' /\ NewTasks'
  BY WindowKeeps DEF LInv, InWindow
<1>7. SInv => SInv'
  BY StoreKeeps DEF InWindow
<1> QED
  BY <1>1, <1>2, <1>3, <1>4, <1>5, <1>6, <1>7 DEF LInv

\* createDelegation throws.
LEMMA WriteDelegationFailsKeeps ==
  ASSUME TInv, LInv, NEW i \in Calls, WriteDelegationFails(i)
  PROVE  LInv' /\ (SInv => SInv')
<1> USE DEF TInv, TypeOK, WriteDelegationFails, Goto, callVars, storeVars, history
<1>0. \A c, q : Left(c, q) => Left(c, q)'
  BY DEF Left
<1>1. StillNew'
  BY DEF LInv, StillNew
<1>2. LocalIsTrue'
  BY <1>0 DEF LInv, LocalIsTrue, StillNew
<1>3. ServesThread'
  BY DelegationAssumption DEF LInv, ServesThread
<1>4. RolledBack'
  <2>1. \A c \in Calls : Handed(c) => Handed(c)'
    BY DEF Handed, LInv, StillNew
  <2> QED
    BY <2>1, <1>0, DelegationAssumption DEF LInv, RolledBack
<1>5. WritesHaveTarget'
  BY DEF LInv, WritesHaveTarget
<1>6. RacesAreSeen' /\ NewTasks'
  BY WindowKeeps DEF LInv, InWindow
<1>7. SInv => SInv'
  BY StoreKeeps DEF InWindow
<1> QED
  BY <1>1, <1>2, <1>3, <1>4, <1>5, <1>6, <1>7 DEF LInv

\* The session of the child.
LEMMA OpenKeeps ==
  ASSUME TInv, LInv, NEW i \in Calls, Open(i)
  PROVE  LInv' /\ (SInv => SInv')
<1> USE DEF TInv, TypeOK, Open, Goto, callVars, storeVars, history
<1>0. \A c, q : Left(c, q) => Left(c, q)'
  BY DEF Left
<1>1. StillNew'
  BY DEF LInv, StillNew
<1>2. LocalIsTrue'
  BY <1>0 DEF LInv, LocalIsTrue
<1>3. ServesThread'
  BY DelegationAssumption DEF LInv, ServesThread
<1>4. RolledBack'
  <2>1. \A c \in Calls : Handed(c) => Handed(c)'
    BY DEF Handed, LInv, StillNew
  <2>2. \A c \in Calls : c = mine[i] /\ c # i => Handed(c)'
    BY DEF Handed
  <2> QED
    BY <2>1, <2>2, <1>0, DelegationAssumption DEF LInv, RolledBack
<1>5. WritesHaveTarget'
  BY DEF LInv, WritesHaveTarget
<1>6. RacesAreSeen' /\ NewTasks'
  BY WindowKeeps DEF LInv, InWindow
<1>7. SInv => SInv'
  BY StoreKeeps DEF InWindow
<1> QED
  BY <1>1, <1>2, <1>3, <1>4, <1>5, <1>6, <1>7 DEF LInv

\* commitNative, and the runtime.
LEMMA CommitKeeps ==
  ASSUME TInv, LInv, NEW i \in Calls, Commit(i)
  PROVE  LInv' /\ (SInv => SInv')
<1> USE DEF TInv, TypeOK
<1>1. /\ pc[i] = "commit"
      /\ \/ pc' = [pc EXCEPT ![i] = "cleanup"] /\ UNCHANGED <<record, indexed, bound, runtime>>
         \/ /\ record[mine[i]] # None /\ SetRecord(mine[i], "ready")
            /\ record' = [record EXCEPT ![mine[i]] = "ready"]
            /\ \/ pc' = [pc EXCEPT ![i] = "turn"] /\ runtime' = [runtime EXCEPT ![mine[i]] = "running"]
               \/ pc' = [pc EXCEPT ![i] = "cleanup"] /\ runtime' = runtime
  BY DEF Commit, Goto, SetRecord
<1>2. UNCHANGED <<req, task, mine, known, sessions, dels, recent, writes, up, left, revived, raced>>
  BY DEF Commit, callVars, history
<1> USE <1>1, <1>2
<1>0. \A c, q : Left(c, q) => Left(c, q)'
  BY <1>2 DEF Left
<1>3. StillNew'
  BY DEF LInv, StillNew
<1>4. LocalIsTrue'
  BY <1>0 DEF LInv, LocalIsTrue
<1>5. ServesThread'
  BY DelegationAssumption DEF LInv, ServesThread
<1>6. RolledBack'
  <2>1. \A c \in Calls : Handed(c) => Handed(c)'
    BY DEF Handed, LInv, StillNew
  <2>2. \A c \in Calls : c = mine[i] /\ c # i => Handed(c)'
    BY DEF Handed
  <2> QED
    BY <2>1, <2>2, <1>0, DelegationAssumption DEF LInv, RolledBack
<1>7. WritesHaveTarget'
  BY DEF LInv, WritesHaveTarget
<1>8. RacesAreSeen' /\ NewTasks'
  BY WindowKeeps DEF LInv, InWindow
<1>9. ASSUME SInv PROVE SInv'
  <2>1. CASE UNCHANGED <<record, indexed, bound>>
    BY <1>9, <2>1, StoreKeeps DEF InWindow
  <2>2. CASE record[mine[i]] # None /\ SetRecord(mine[i], "ready")
    <3>1. indexed' = indexed /\ bound' = Stored(record') /\ Unbound(Stored(record'))
      BY <1>9, <2>2, SetRecordKeeps DEF SInv
    <3> QED
      BY <1>9, <3>1, StoreAfterRecord DEF InWindow
  <2> QED
    BY <2>1, <2>2
<1> QED
  BY <1>3, <1>4, <1>5, <1>6, <1>7, <1>8, <1>9 DEF LInv

\* The first turn.
LEMMA StartTurnKeeps ==
  ASSUME TInv, LInv, NEW i \in Calls, StartTurn(i)
  PROVE  LInv' /\ (SInv => SInv')
<1> USE DEF TInv, TypeOK, StartTurn, Goto, callVars, storeVars, history
<1>0. \A c, q : Left(c, q) => Left(c, q)'
  BY DEF Left
<1>1. StillNew'
  BY DEF LInv, StillNew
<1>2. LocalIsTrue'
  BY <1>0 DEF LInv, LocalIsTrue
<1>3. ServesThread'
  BY DelegationAssumption DEF LInv, ServesThread
<1>4. RolledBack'
  <2>1. \A c \in Calls : Handed(c) => Handed(c)'
    BY DEF Handed, LInv, StillNew
  <2>2. \A c \in Calls : c = mine[i] /\ c # i => Handed(c)'
    BY DEF Handed
  <2> QED
    BY <2>1, <2>2, <1>0, DelegationAssumption DEF LInv, RolledBack
<1>5. WritesHaveTarget'
  BY DEF LInv, WritesHaveTarget
<1>6. RacesAreSeen' /\ NewTasks'
  BY WindowKeeps DEF LInv, InWindow
<1>7. SInv => SInv'
  BY StoreKeeps DEF InWindow
<1> QED
  BY <1>1, <1>2, <1>3, <1>4, <1>5, <1>6, <1>7 DEF LInv

\* The native identity arrives, or does not.
LEMMA AwaitNativeKeeps ==
  ASSUME TInv, LInv, NEW i \in Calls, AwaitNative(i)
  PROVE  LInv' /\ (SInv => SInv')
<1> USE DEF TInv, TypeOK, AwaitNative, Goto, callVars, storeVars, history
<1>0. \A c, q : Left(c, q) => Left(c, q)'
  BY DEF Left
<1>1. StillNew'
  BY DEF LInv, StillNew
<1>2. LocalIsTrue'
  BY <1>0 DEF LInv, LocalIsTrue
<1>3. ServesThread'
  BY DelegationAssumption DEF LInv, ServesThread
<1>4. RolledBack'
  <2>1. \A c \in Calls : Handed(c) => Handed(c)'
    BY DEF Handed, LInv, StillNew
  <2> QED
    BY <2>1, <1>0, DelegationAssumption DEF LInv, RolledBack
<1>5. WritesHaveTarget'
  BY DEF LInv, WritesHaveTarget
<1>6. RacesAreSeen' /\ NewTasks'
  BY WindowKeeps DEF LInv, InWindow
<1>7. SInv => SInv'
  BY StoreKeeps DEF InWindow
<1> QED
  BY <1>1, <1>2, <1>3, <1>4, <1>5, <1>6, <1>7 DEF LInv

\* The answer, or the last write of a start.
LEMMA SetRunningKeeps ==
  ASSUME TInv, LInv, NEW i \in Calls, SetRunning(i)
  PROVE  LInv' /\ (SInv => SInv')
<1> USE DEF TInv, TypeOK, SetRunning, Goto, callVars, storeVars, history
<1>0. \A c, q : Left(c, q) => Left(c, q)'
  BY DEF Left
<1>1. StillNew'
  BY DEF LInv, StillNew
<1>2. LocalIsTrue'
  BY <1>0 DEF LInv, LocalIsTrue
<1>3. ServesThread'
  BY DelegationAssumption DEF LInv, ServesThread
<1>4. RolledBack'
  <2>1. \A c \in Calls : Handed(c) => Handed(c)'
    BY DEF Handed, LInv, StillNew
  <2> QED
    BY <2>1, <1>0, DelegationAssumption DEF LInv, RolledBack
<1>5. WritesHaveTarget'
  BY DEF LInv, WritesHaveTarget
<1>6. RacesAreSeen' /\ NewTasks'
  BY WindowKeeps DEF LInv, InWindow
<1>7. SInv => SInv'
  BY StoreKeeps DEF InWindow
<1> QED
  BY <1>1, <1>2, <1>3, <1>4, <1>5, <1>6, <1>7 DEF LInv

\* A status write ends.
LEMMA FinishWriteKeeps ==
  ASSUME TInv, LInv, NEW w \in writes, FinishWrite(w)
  PROVE  LInv' /\ (SInv /\ Clean' => SInv')
<1> USE DEF TInv, TypeOK
<1>1. /\ w.del \in Calls /\ w.status \in Status /\ SetDelegation(w.del, w.status)
      /\ pc[w.del] \notin {"new", "create", "file"}
      /\ w.by = "start" => pc[w.del] = "write"
  BY DEF FinishWrite, LInv, WritesHaveTarget
<1>2. dels' = [dels EXCEPT ![w.del] = w.status] /\ w.status # None
  BY <1>1, SetDelegationTypes
<1>3. /\ writes' = writes \ {w}
      /\ revived' = IF dels[w.del] = None THEN revived \cup {w.del} ELSE revived
      /\ \/ pc' = pc /\ w.by # "start"
         \/ /\ w.by = "start"
            /\ pc' = [pc EXCEPT ![w.del] = "started"] \/ pc' = [pc EXCEPT ![w.del] = "cleanup"]
  BY DEF FinishWrite, Goto
<1>4. UNCHANGED <<req, task, mine, known, record, sessions, runtime, recent, up, left, raced>>
  BY DEF FinishWrite, callVars
<1> USE <1>1, <1>2, <1>3, <1>4
<1>0. \A c, q : Left(c, q) => Left(c, q)'
  BY <1>4 DEF Left
<1>5. StillNew'
  BY DEF LInv, StillNew
<1>6. LocalIsTrue'
  BY <1>0 DEF LInv, LocalIsTrue
<1>7. ServesThread'
  BY DEF LInv, ServesThread
<1>8. RolledBack'
  <2>1. \A c \in Calls : Handed(c) => Handed(c)'
    BY DEF Handed, LInv, StillNew
  <2> QED
    BY <2>1, <1>0, DelegationAssumption DEF LInv, RolledBack
<1>9. WritesHaveTarget'
  BY DEF LInv, WritesHaveTarget, MapIsListed
<1>10. RacesAreSeen' /\ NewTasks'
  BY WindowKeeps DEF LInv, InWindow
<1>11. ASSUME SInv, Clean' PROVE SInv'
  <2>1. dels[w.del] # None
    BY <1>11 DEF Clean
  <2>2. \A d \in Calls : d # w.del /\ dels[d] # None => ~SameRequest(w.del, d)
    BY <1>11, <2>1 DEF SInv, RequestsAreUnique, Unbound
  <2>3. /\ indexed' = {d \in Calls : dels'[d] # None} /\ bound' = bound
        /\ Unbound({d \in Calls : dels'[d] # None})
    BY <1>11, <2>2, SetDelegationKeeps DEF SInv
  <2>4. IndexesAreComplete'
    BY <1>11, <2>3 DEF SInv, IndexesAreComplete, Stored
  <2>5. RequestsAreUnique'
    BY <1>11, <2>3 DEF SInv, RequestsAreUnique, Unbound, SameRequest, Stored
  <2>6. NewRequests'
    BY <1>11, <2>1 DEF SInv, NewRequests, SameRequest
  <2> QED
    BY <2>4, <2>5, <2>6 DEF SInv
<1> QED
  BY <1>5, <1>6, <1>7, <1>8, <1>9, <1>10, <1>11 DEF LInv

\* The file of the relation was not written.
LEMMA WriteFailsKeeps ==
  ASSUME TInv, LInv, NEW w \in writes, WriteFails(w)
  PROVE  LInv' /\ (SInv => SInv')
<1> USE DEF TInv, TypeOK, WriteFails, Goto, callVars, storeVars, history
<1>0. \A c, q : Left(c, q) => Left(c, q)'
  BY DEF Left
<1>1. StillNew'
  BY DEF LInv, StillNew
<1>2. LocalIsTrue'
  <2>1. w.by = "start" => pc[w.del] = "write" /\ dels[w.del] # None /\ w.del \in known
    BY DEF LInv, LocalIsTrue, WritesHaveTarget
  <2>2. pc' = pc \/ (w.by = "start" /\ pc' = [pc EXCEPT ![w.del] = "cleanup"])
    OBVIOUS
  <2>3. UNCHANGED <<dels, known, revived>>
    OBVIOUS
  <2> HIDE DEF WriteFails
  <2> QED
    BY <1>0, <2>1, <2>2, <2>3 DEF LInv, LocalIsTrue
<1>3. ServesThread'
  BY DelegationAssumption DEF LInv, ServesThread
<1>4. RolledBack'
  <2>1. \A c \in Calls : Handed(c) => Handed(c)'
    BY DEF Handed, LInv, StillNew
  <2> QED
    BY <2>1, <1>0, DelegationAssumption DEF LInv, RolledBack
<1>5. WritesHaveTarget'
  BY DEF LInv, WritesHaveTarget, MapIsListed
<1>6. RacesAreSeen' /\ NewTasks'
  BY WindowKeeps DEF LInv, InWindow
<1>7. SInv => SInv'
  BY StoreKeeps DEF InWindow
<1> QED
  BY <1>1, <1>2, <1>3, <1>4, <1>5, <1>6, <1>7 DEF LInv

\* The rollback: session and runtime.
LEMMA CloseSessionKeeps ==
  ASSUME TInv, LInv, NEW i \in Calls, CloseSession(i)
  PROVE  LInv' /\ (SInv => SInv')
<1> USE DEF TInv, TypeOK, CloseSession, Goto, callVars, storeVars, history
<1>0. (\A c, q : Left(c, q) => Left(c, q)') /\ (i \in sessions' => Left(i, "session")')
  BY DEF Left
<1>1. StillNew'
  BY DEF LInv, StillNew
<1>2. LocalIsTrue'
  BY <1>0 DEF LInv, LocalIsTrue
<1>3. ServesThread'
  BY DelegationAssumption DEF LInv, ServesThread
<1>4. RolledBack'
  <2>1. \A c \in Calls : Handed(c) => Handed(c)'
    BY DEF Handed, LInv, StillNew
  <2> QED
    BY <2>1, <1>0, DelegationAssumption DEF LInv, RolledBack, LocalIsTrue
<1>5. WritesHaveTarget'
  BY DEF LInv, WritesHaveTarget
<1>6. RacesAreSeen' /\ NewTasks'
  BY WindowKeeps DEF LInv, InWindow
<1>7. SInv => SInv'
  BY StoreKeeps DEF InWindow
<1> QED
  BY <1>1, <1>2, <1>3, <1>4, <1>5, <1>6, <1>7 DEF LInv

\* The rollback: the relation.
LEMMA RemoveDelegationKeeps ==
  ASSUME TInv, LInv, NEW i \in Calls, RemoveDelegation(i)
  PROVE  LInv' /\ (SInv => SInv')
<1> USE DEF TInv, TypeOK
<1>1. /\ pc[i] = "undelegate" /\ pc' = [pc EXCEPT ![i] = "unthread"]
      /\ dels' = [dels EXCEPT ![i] = None]
  BY DeleteDelegationTypes DEF RemoveDelegation, Goto
<1>2. UNCHANGED <<req, task, mine, known, record, sessions, runtime, recent, writes, up, left, revived,
                  raced>>
  BY DEF RemoveDelegation, callVars, history
<1> USE <1>1, <1>2
<1>0. \A c, q : Left(c, q) => Left(c, q)'
  BY <1>2 DEF Left
<1>3. StillNew'
  BY DEF LInv, StillNew
<1>4. LocalIsTrue'
  BY <1>0 DEF LInv, LocalIsTrue
<1>5. ServesThread'
  BY DEF LInv, ServesThread
<1>6. RolledBack'
  <2>1. \A c \in Calls : Handed(c) => Handed(c)'
    BY DEF Handed, LInv, StillNew
  <2> QED
    BY <2>1, <1>0, DelegationAssumption DEF LInv, RolledBack
<1>7. WritesHaveTarget'
  BY DEF LInv, WritesHaveTarget
<1>8. RacesAreSeen' /\ NewTasks'
  BY WindowKeeps DEF LInv, InWindow
<1>9. ASSUME SInv PROVE SInv'
  <2>1. /\ indexed' = {d \in Calls : dels'[d] # None} /\ bound' = bound
        /\ Unbound({d \in Calls : dels'[d] # None})
    BY <1>9, DeleteDelegationKeeps DEF RemoveDelegation, SInv
  <2>2. IndexesAreComplete'
    BY <1>9, <2>1 DEF SInv, IndexesAreComplete, Stored
  <2>3. RequestsAreUnique'
    BY <1>9, <2>1 DEF SInv, RequestsAreUnique, Unbound, SameRequest, Stored
  <2>4. NewRequests'
    BY <1>9 DEF SInv, NewRequests, SameRequest
  <2> QED
    BY <2>2, <2>3, <2>4 DEF SInv
<1> QED
  BY <1>3, <1>4, <1>5, <1>6, <1>7, <1>8, <1>9 DEF LInv

\* The rollback leaves the relation.
LEMMA RemoveDelegationFailsKeeps ==
  ASSUME TInv, LInv, NEW i \in Calls, RemoveDelegationFails(i)
  PROVE  LInv' /\ (SInv => SInv')
<1> USE DEF TInv, TypeOK, RemoveDelegationFails, Goto, callVars, storeVars, history
<1>0. (\A c, q : Left(c, q) => Left(c, q)') /\ Left(i, "relation")'
  BY DEF Left
<1>1. StillNew'
  BY DEF LInv, StillNew
<1>2. LocalIsTrue'
  BY <1>0 DEF LInv, LocalIsTrue
<1>3. ServesThread'
  BY DelegationAssumption DEF LInv, ServesThread
<1>4. RolledBack'
  <2>1. \A c \in Calls : Handed(c) => Handed(c)'
    BY DEF Handed, LInv, StillNew
  <2> QED
    BY <2>1, <1>0, DelegationAssumption DEF LInv, RolledBack
<1>5. WritesHaveTarget'
  BY DEF LInv, WritesHaveTarget
<1>6. RacesAreSeen' /\ NewTasks'
  BY WindowKeeps DEF LInv, InWindow
<1>7. SInv => SInv'
  BY StoreKeeps DEF InWindow
<1> QED
  BY <1>1, <1>2, <1>3, <1>4, <1>5, <1>6, <1>7 DEF LInv

\* The rollback: the record.
LEMMA RemoveThreadKeeps ==
  ASSUME TInv, LInv, NEW i \in Calls, RemoveThread(i)
  PROVE  LInv' /\ (SInv => SInv')
<1> USE DEF TInv, TypeOK
<1>1. /\ pc[i] = "unthread" /\ pc' = [pc EXCEPT ![i] = "failed"]
      /\ record' = [record EXCEPT ![i] = None]
      /\ UNCHANGED <<record, indexed, bound>> \/ SetRecord(i, None)
  BY DEF RemoveThread, Goto, SetRecord
<1>2. UNCHANGED <<req, task, mine, known, sessions, runtime, dels, recent, writes, up, left, revived,
                  raced>>
  BY DEF RemoveThread, callVars, history
<1> USE <1>1, <1>2
<1>0. \A c, q : Left(c, q) => Left(c, q)'
  BY <1>2 DEF Left
<1>3. StillNew'
  BY DelegationAssumption DEF LInv, StillNew
<1>4. LocalIsTrue'
  BY <1>0 DEF LInv, LocalIsTrue
<1>5. ServesThread'
  BY DEF LInv, ServesThread
<1>6. RolledBack'
  <2>1. \A c \in Calls : Handed(c) => Handed(c)'
    BY DEF Handed, LInv, StillNew
  <2> QED
    BY <2>1, <1>0, DelegationAssumption DEF LInv, RolledBack
<1>7. WritesHaveTarget'
  BY DEF LInv, WritesHaveTarget
<1>8. RacesAreSeen' /\ NewTasks'
  BY WindowKeeps DEF LInv, InWindow
<1>9. ASSUME SInv PROVE SInv'
  <2>1. CASE UNCHANGED <<record, indexed, bound>>
    BY <1>9, <2>1, StoreKeeps DEF InWindow
  <2>2. CASE SetRecord(i, None)
    <3>1. indexed' = indexed /\ bound' = Stored(record') /\ Unbound(Stored(record'))
      BY <1>9, <2>2, SetRecordKeeps DEF SInv
    <3> QED
      BY <1>9, <3>1, StoreAfterRecord DEF InWindow
  <2> QED
    BY <2>1, <2>2
<1> QED
  BY <1>3, <1>4, <1>5, <1>6, <1>7, <1>8, <1>9 DEF LInv

\* The rollback leaves the record.
LEMMA RemoveThreadFailsKeeps ==
  ASSUME TInv, LInv, NEW i \in Calls, RemoveThreadFails(i)
  PROVE  LInv' /\ (SInv => SInv')
<1> USE DEF TInv, TypeOK, RemoveThreadFails, Goto, callVars, storeVars, history
<1>0. (\A c, q : Left(c, q) => Left(c, q)') /\ Left(i, "record")'
  BY DEF Left
<1>1. StillNew'
  BY DEF LInv, StillNew
<1>2. LocalIsTrue'
  BY <1>0 DEF LInv, LocalIsTrue
<1>3. ServesThread'
  BY DelegationAssumption DEF LInv, ServesThread
<1>4. RolledBack'
  <2>1. \A c \in Calls : Handed(c) => Handed(c)'
    BY DEF Handed, LInv, StillNew
  <2> QED
    BY <2>1, <1>0, DelegationAssumption DEF LInv, RolledBack
<1>5. WritesHaveTarget'
  BY DEF LInv, WritesHaveTarget
<1>6. RacesAreSeen' /\ NewTasks'
  BY WindowKeeps DEF LInv, InWindow
<1>7. SInv => SInv'
  BY StoreKeeps DEF InWindow
<1> QED
  BY <1>1, <1>2, <1>3, <1>4, <1>5, <1>6, <1>7 DEF LInv

\* The child thread: its native identity.
LEMMA PersistNativeKeeps ==
  ASSUME TInv, LInv, NEW i \in Calls, PersistNative(i)
  PROVE  LInv' /\ (SInv => SInv')
<1> USE DEF TInv, TypeOK
<1>1. /\ record[i] = "creating" /\ SetRecord(i, "ready")
      /\ record' = [record EXCEPT ![i] = "ready"]
  BY DEF PersistNative, SetRecord
<1>2. UNCHANGED <<pc, req, task, mine, known, sessions, runtime, dels, recent, writes, up, left,
                  revived, raced>>
  BY DEF PersistNative, callVars, history
<1> USE <1>1, <1>2
<1>0. \A c, q : Left(c, q) => Left(c, q)'
  BY <1>2 DEF Left
<1>3. StillNew'
  BY DelegationAssumption DEF LInv, StillNew
<1>4. LocalIsTrue'
  BY <1>0 DEF LInv, LocalIsTrue
<1>5. ServesThread'
  BY DEF LInv, ServesThread
<1>6. RolledBack'
  <2>1. \A c \in Calls : Handed(c) => Handed(c)'
    BY DEF Handed, LInv, StillNew
  <2> QED
    BY <2>1, <1>0, DelegationAssumption DEF LInv, RolledBack
<1>7. WritesHaveTarget'
  BY DEF LInv, WritesHaveTarget
<1>8. RacesAreSeen' /\ NewTasks'
  BY WindowKeeps DEF LInv, InWindow
<1>9. ASSUME SInv PROVE SInv'
  <2>1. indexed' = indexed /\ bound' = Stored(record') /\ Unbound(Stored(record'))
    BY <1>9, SetRecordKeeps, DelegationAssumption DEF SInv
  <2> QED
    BY <1>9, <2>1, StoreAfterRecord DEF InWindow
<1> QED
  BY <1>3, <1>4, <1>5, <1>6, <1>7, <1>8, <1>9 DEF LInv

\* A turn of the child ends.
LEMMA TurnEndsKeeps ==
  ASSUME TInv, LInv, NEW i \in Calls, TurnEnds(i)
  PROVE  LInv' /\ (SInv => SInv')
<1> USE DEF TInv, TypeOK, TurnEnds, Goto, callVars, storeVars, history, Writing
<1>0. \A c, q : Left(c, q) => Left(c, q)'
  BY DEF Left
<1>1. StillNew'
  BY DEF LInv, StillNew
<1>2. LocalIsTrue'
  BY <1>0 DEF LInv, LocalIsTrue
<1>3. ServesThread'
  BY DelegationAssumption DEF LInv, ServesThread
<1>4. RolledBack'
  <2>1. \A c \in Calls : Handed(c) => Handed(c)'
    BY DEF Handed, LInv, StillNew
  <2> QED
    BY <2>1, <1>0, DelegationAssumption DEF LInv, RolledBack
<1>5. WritesHaveTarget'
  BY DEF LInv, WritesHaveTarget, StillNew
<1>6. RacesAreSeen' /\ NewTasks'
  BY WindowKeeps DEF LInv, InWindow
<1>7. SInv => SInv'
  BY StoreKeeps DEF InWindow
<1> QED
  BY <1>1, <1>2, <1>3, <1>4, <1>5, <1>6, <1>7 DEF LInv

\* A follow-up turn.
LEMMA SendKeeps ==
  ASSUME TInv, LInv, NEW i \in Calls, Send(i)
  PROVE  LInv' /\ (SInv => SInv')
<1> USE DEF TInv, TypeOK, Send, Goto, callVars, storeVars, history
<1>0. \A c, q : Left(c, q) => Left(c, q)'
  BY DEF Left
<1>1. StillNew'
  BY DEF LInv, StillNew
<1>2. LocalIsTrue'
  BY <1>0 DEF LInv, LocalIsTrue
<1>3. ServesThread'
  BY DelegationAssumption DEF LInv, ServesThread
<1>4. RolledBack'
  <2>1. \A c \in Calls : Handed(c) => Handed(c)'
    BY DEF Handed, LInv, StillNew
  <2> QED
    BY <2>1, <1>0, DelegationAssumption DEF LInv, RolledBack
<1>5. WritesHaveTarget'
  BY DEF LInv, WritesHaveTarget
<1>6. RacesAreSeen' /\ NewTasks'
  BY WindowKeeps DEF LInv, InWindow
<1>7. SInv => SInv'
  BY StoreKeeps DEF InWindow
<1> QED
  BY <1>1, <1>2, <1>3, <1>4, <1>5, <1>6, <1>7 DEF LInv

\* A restore of the child.
LEMMA ResolveKeeps ==
  ASSUME TInv, LInv, NEW i \in Calls, Resolve(i)
  PROVE  LInv' /\ (SInv => SInv')
<1> USE DEF TInv, TypeOK, Resolve, Goto, callVars, storeVars, history
<1>0. \A c, q : Left(c, q) => Left(c, q)'
  BY DEF Left
<1>1. StillNew'
  BY DEF LInv, StillNew
<1>2. LocalIsTrue'
  BY <1>0 DEF LInv, LocalIsTrue
<1>3. ServesThread'
  BY DelegationAssumption DEF LInv, ServesThread
<1>4. RolledBack'
  <2>1. \A c \in Calls : Handed(c) => Handed(c)'
    BY DEF Handed, LInv, StillNew
  <2> QED
    BY <2>1, <1>0, DelegationAssumption DEF LInv, RolledBack
<1>5. WritesHaveTarget'
  BY DEF LInv, WritesHaveTarget
<1>6. RacesAreSeen' /\ NewTasks'
  BY WindowKeeps DEF LInv, InWindow
<1>7. SInv => SInv'
  BY StoreKeeps DEF InWindow
<1> QED
  BY <1>1, <1>2, <1>3, <1>4, <1>5, <1>6, <1>7 DEF LInv

\* A reader writes a status.
LEMMA ReadKeeps ==
  ASSUME TInv, LInv, NEW i \in Calls, Read(i)
  PROVE  LInv' /\ (SInv => SInv')
<1> USE DEF TInv, TypeOK, Read, Goto, callVars, storeVars, history, Writing
<1>0. \A c, q : Left(c, q) => Left(c, q)'
  BY DEF Left
<1>1. StillNew'
  BY DEF LInv, StillNew
<1>2. LocalIsTrue'
  BY <1>0 DEF LInv, LocalIsTrue
<1>3. ServesThread'
  BY DelegationAssumption DEF LInv, ServesThread
<1>4. RolledBack'
  <2>1. \A c \in Calls : Handed(c) => Handed(c)'
    BY DEF Handed, LInv, StillNew
  <2> QED
    BY <2>1, <1>0, DelegationAssumption DEF LInv, RolledBack
<1>5. WritesHaveTarget'
  BY DEF LInv, WritesHaveTarget, StillNew
<1>6. RacesAreSeen' /\ NewTasks'
  BY WindowKeeps DEF LInv, InWindow
<1>7. SInv => SInv'
  BY StoreKeeps DEF InWindow
<1> QED
  BY <1>1, <1>2, <1>3, <1>4, <1>5, <1>6, <1>7 DEF LInv

\* The user deletes the child.
LEMMA DeleteThreadKeeps ==
  ASSUME TInv, LInv, NEW i \in Calls, DeleteThread(i)
  PROVE  LInv' /\ (SInv => SInv')
<1> USE DEF TInv, TypeOK
<1>1. /\ pc[i] \in {"started", "lost", "failed"} /\ pc' = [pc EXCEPT ![i] = "deleted"]
      /\ SetRecord(i, None) /\ record' = [record EXCEPT ![i] = None]
      /\ runtime' = [runtime EXCEPT ![i] = None] /\ sessions' \subseteq sessions
  BY DEF DeleteThread, Goto, SetRecord
<1>2. UNCHANGED <<req, task, mine, known, dels, recent, writes, up, left, revived, raced>>
  BY DEF DeleteThread, callVars, history
<1> USE <1>1, <1>2
<1>0. \A c, q : Left(c, q) => Left(c, q)'
  BY <1>2 DEF Left
<1>3. StillNew'
  BY DelegationAssumption DEF LInv, StillNew
<1>4. LocalIsTrue'
  BY <1>0 DEF LInv, LocalIsTrue
<1>5. ServesThread'
  BY DEF LInv, ServesThread
<1>6. RolledBack'
  <2>1. \A c \in Calls : Handed(c) => Handed(c)'
    BY DEF Handed, LInv, StillNew
  <2> QED
    BY <2>1, <1>0, DelegationAssumption DEF LInv, RolledBack
<1>7. WritesHaveTarget'
  BY DEF LInv, WritesHaveTarget
<1>8. RacesAreSeen' /\ NewTasks'
  BY WindowKeeps DEF LInv, InWindow
<1>9. ASSUME SInv PROVE SInv'
  <2>1. indexed' = indexed /\ bound' = Stored(record') /\ Unbound(Stored(record'))
    BY <1>9, SetRecordKeeps, DelegationAssumption DEF SInv
  <2> QED
    BY <1>9, <2>1, StoreAfterRecord DEF InWindow
<1> QED
  BY <1>3, <1>4, <1>5, <1>6, <1>7, <1>8, <1>9 DEF LInv

\* The window of duplicates passes.
LEMMA ExpireKeeps ==
  ASSUME TInv, LInv, NEW i \in Calls, Expire(i)
  PROVE  LInv' /\ (SInv => SInv')
<1> USE DEF TInv, TypeOK, Expire, Goto, callVars, storeVars, history
<1>0. \A c, q : Left(c, q) => Left(c, q)'
  BY DEF Left
<1>1. StillNew'
  BY DEF LInv, StillNew
<1>2. LocalIsTrue'
  BY <1>0 DEF LInv, LocalIsTrue
<1>3. ServesThread'
  BY DelegationAssumption DEF LInv, ServesThread
<1>4. RolledBack'
  <2>1. \A c \in Calls : Handed(c) => Handed(c)'
    BY DEF Handed, LInv, StillNew
  <2> QED
    BY <2>1, <1>0, DelegationAssumption DEF LInv, RolledBack
<1>5. WritesHaveTarget'
  BY DEF LInv, WritesHaveTarget
<1>6. RacesAreSeen' /\ NewTasks'
  BY WindowKeeps DEF LInv, InWindow
<1>7. SInv => SInv'
  BY StoreKeeps DEF InWindow
<1> QED
  BY <1>1, <1>2, <1>3, <1>4, <1>5, <1>6, <1>7 DEF LInv

\* A crash, and initialize().
LEMMA RestartStepKeeps ==
  ASSUME TInv, LInv, Restart
  PROVE  LInv' /\ (SInv => SInv')
<1> USE DEF TInv, TypeOK
<1>1. /\ pc' = [i \in Calls |-> IF pc[i] \in Active THEN "lost" ELSE pc[i]]
      /\ sessions' = {} /\ runtime' = [i \in Calls |-> None]
      /\ record' = [i \in Calls |-> IF record[i] = "creating" THEN None ELSE record[i]]
      /\ dels' = dels /\ writes' = {} /\ known' = {}
  BY RestartTypes DEF Restart
<1>2. UNCHANGED <<req, task, mine, recent, left, revived, raced>>
  BY DEF Restart, callVars, history
<1> USE <1>1, <1>2 DEF Active
<1>0. \A c, q : Left(c, q) => Left(c, q)'
  BY <1>2 DEF Left
<1>3. StillNew'
  BY DEF LInv, StillNew
<1>4. LocalIsTrue'
  BY <1>0 DEF LInv, LocalIsTrue
<1>5. ServesThread'
  BY DEF LInv, ServesThread
<1>6. RolledBack'
  <2>1. \A c \in Calls : Handed(c) => Handed(c)'
    BY DEF Handed, LInv, StillNew
  <2> QED
    BY <2>1, <1>0, DelegationAssumption DEF LInv, RolledBack
<1>7. WritesHaveTarget'
  BY DEF LInv, WritesHaveTarget
<1>8. RacesAreSeen' /\ NewTasks'
  BY WindowKeeps DEF LInv, InWindow
<1>9. ASSUME SInv PROVE SInv'
  <2>1. indexed' = indexed /\ bound' = Stored(record') /\ up' /\ Unbound(Stored(record'))
    BY <1>9, RestartKeeps DEF SInv
  <2>2. UNCHANGED <<req, dels, indexed>> /\ up' = up
    BY <1>9, <2>1 DEF SInv, IndexesAreComplete
  <2> QED
    BY <1>9, <2>1, <2>2, StoreAfterRecord DEF InWindow
<1> QED
  BY <1>3, <1>4, <1>5, <1>6, <1>7, <1>8, <1>9 DEF LInv

-----------------------------------------------------------------------------
(* The theorems *)

LEMMA InitHolds == Init => IInv
<1> SUFFICES ASSUME Init PROVE LInv /\ SInv
  BY TypesOfInit DEF IInv
<1>1. IndexesAreComplete /\ RequestsAreUnique /\ NewRequests
  BY DEF Init, IndexesAreComplete, RequestsAreUnique, NewRequests, Unbound, Stored
<1>2. StillNew /\ LocalIsTrue /\ ServesThread /\ RolledBack /\ WritesHaveTarget
  BY DEF Init, StillNew, LocalIsTrue, ServesThread, RolledBack, WritesHaveTarget
<1>3. RacesAreSeen /\ NewTasks
  BY DEF Init, RacesAreSeen, NewTasks
<1> QED
  BY <1>1, <1>2, <1>3 DEF LInv, SInv

LEMMA StepKeeps ==
  ASSUME IInv, [Next]_vars
  PROVE  IInv'
<1> DEFINE Kept == LInv' /\ (SInv /\ Clean' => SInv')
<1>1. TInv /\ LInv /\ TInv'
  BY StepKeepsTypes DEF IInv
<1>2. ASSUME NEW i \in Calls, StepOfStart(i) PROVE Kept
  BY <1>1, <1>2, BeginKeeps, CreateThreadKeeps, CreateThreadFailsKeeps, WriteDelegationKeeps,
     WriteDelegationFailsKeeps, OpenKeeps, CommitKeeps, StartTurnKeeps, AwaitNativeKeeps,
     SetRunningKeeps, CloseSessionKeeps, RemoveDelegationKeeps, RemoveDelegationFailsKeeps,
     RemoveThreadKeeps, RemoveThreadFailsKeeps DEF StepOfStart
<1>3. ASSUME NEW c \in Calls,
             PersistNative(c) \/ TurnEnds(c) \/ Send(c) \/ Resolve(c) \/ Read(c)
               \/ DeleteThread(c) \/ Expire(c)
      PROVE  Kept
  BY <1>1, <1>3, PersistNativeKeeps, TurnEndsKeeps, SendKeeps, ResolveKeeps, ReadKeeps,
     DeleteThreadKeeps, ExpireKeeps
<1>4. ASSUME NEW w \in writes, FinishWrite(w) \/ WriteFails(w) PROVE Kept
  BY <1>1, <1>4, FinishWriteKeeps, WriteFailsKeeps
<1>5. ASSUME Restart PROVE Kept
  BY <1>1, <1>5, RestartStepKeeps
<1>6. ASSUME UNCHANGED vars PROVE Kept
  <2> USE <1>1, <1>6 DEF vars, callVars, storeVars, history, LInv
  <2>1. StillNew' /\ ServesThread' /\ WritesHaveTarget'
    BY DEF StillNew, ServesThread, WritesHaveTarget
  <2>2. LocalIsTrue' /\ RolledBack'
    BY DEF LocalIsTrue, RolledBack, Left, Handed
  <2>3. RacesAreSeen' /\ NewTasks'
    BY WindowKeeps DEF InWindow
  <2>4. SInv => SInv'
    BY StoreKeeps DEF InWindow
  <2> QED
    BY <2>1, <2>2, <2>3, <2>4
<1>7. Kept
  BY <1>2, <1>3, <1>4, <1>5, <1>6 DEF Next
<1>8. Clean' => SInv
  BY <1>1, CleanBefore DEF IInv
<1> QED
  BY <1>1, <1>7, <1>8 DEF IInv

\* The inductive invariant, for all calls, requests and tasks, whoever repeats
\* a request and whatever steps fail: what each start knows of its child, and,
\* until two starts with one request have missed each other or a status write
\* has brought a relation back, that the indexes are complete and requests
\* unique.
THEOREM DelegationInvariant == Spec => []IInv
<1>1. IInv /\ [Next]_vars => IInv'
  BY StepKeeps
<1> QED
  BY <1>1, InitHolds, PTL DEF Spec

\* What a failed start leaves, at whatever step it failed, is what a step of
\* its rollback failed to remove, or what came back from outside: its relation
\* with a late status write, its runtime entry with the start that was handed
\* its record (start(), 334-347; setDelegationStatus, 401-415).
THEOREM NothingIsLeft == Spec => []FailedStartLeavesNothing
<1>1. IInv => FailedStartLeavesNothing
  BY DEF IInv, LInv, TInv, MapIsListed, RolledBack, FailedStartLeavesNothing
<1> QED
  BY <1>1, DelegationInvariant, PTL

\* #rebuildIndexes does not throw when initialize() loads what a crash left,
\* whatever a failed rollback left too, unless two starts with one request have
\* missed each other or a removed relation came back.
THEOREM RestartAlwaysLoads == Spec => []RestartLoads
<1>1. IInv => RestartLoads
  BY DEF IInv, SInv, IndexesAreComplete, RestartLoads
<1> QED
  BY <1>1, DelegationInvariant, PTL

\* A relation appears with the start that writes its file, or comes back.
LEMMA WhatAdds ==
  ASSUME IInv, Next, NEW i \in Calls, dels[i] = None, dels'[i] # None
  PROVE  WriteDelegation(i) \/ i \in revived'
<1>1. dels' # dels
  OBVIOUS
<1>2. ~Restart
  BY <1>1 DEF Restart, IInv, TInv, MapIsListed
<1>3. ASSUME NEW w \in writes, FinishWrite(w) PROVE i \in revived'
  BY <1>3 DEF FinishWrite, SetDelegation, IInv, TInv, TypeOK
<1>4. \A j \in Calls : ~RemoveDelegation(j)
  BY DEF RemoveDelegation, DeleteDelegation, IInv, TInv, TypeOK
<1>5. \A j \in Calls : WriteDelegation(j) => j = i
  BY DEF WriteDelegation, SetDelegation, IInv, TInv, TypeOK
<1>6. (\E j \in Calls : WriteDelegation(j)) \/ (\E w \in writes : FinishWrite(w))
  BY <1>1, <1>2, <1>4
     DEF Next, StepOfStart, Begin, CreateThread, CreateThreadFails, WriteDelegationFails, Open,
         Commit, StartTurn, AwaitNative, SetRunning, CloseSession, RemoveDelegationFails,
         RemoveThread, RemoveThreadFails, WriteFails, PersistNative, TurnEnds, Send,
         Resolve, Read, DeleteThread, Expire, storeVars
<1> QED
  BY <1>3, <1>5, <1>6

\* One request id has one delegation, however many calls, failures, retries and
\* restarts lie between the lookup of start() and its file, until two starts
\* have missed each other or a relation came back; and so has, within the
\* window, one task without a request id, but for those starts and relations
\* themselves (start(), 197-215; createDelegation, 378-391).
THEOREM OneChildPerRequest == Spec => NoSecondChild
<1> DEFINE Single == \A i, d \in Calls :
      dels[i] = None /\ dels'[i] # None /\ d # i =>
        /\ SameRequest(i, d) /\ dels[d] # None => ~Clean'
        /\ req[i] = None /\ d \in recent /\ task[d] = task[i] /\ dels[d] # None =>
             i \in raced \/ {i, d} \cap revived' # {}
<1>1. ASSUME IInv, Next PROVE Single
  <2> SUFFICES ASSUME NEW i \in Calls, NEW d \in Calls, dels[i] = None, dels'[i] # None,
                      dels[d] # None
               PROVE  /\ SameRequest(i, d) => ~Clean'
                      /\ req[i] = None /\ d \in recent /\ task[d] = task[i] =>
                           i \in raced \/ {i, d} \cap revived' # {}
    OBVIOUS
  <2>1. CASE i \in revived'
    BY <2>1 DEF Clean
  <2>2. CASE WriteDelegation(i)
    <3>1. revived' = revived /\ pc[i] = "file"
      BY <2>2 DEF WriteDelegation
    <3>2. Clean' => SInv
      BY <1>1, CleanBefore DEF IInv
    <3>3. SameRequest(i, d) => ~Clean'
      BY <3>1, <3>2 DEF SInv, NewRequests
    <3>4. req[i] = None /\ d \in recent /\ task[d] = task[i] => i \in raced \/ d \in revived
      BY <1>1, <3>1 DEF IInv, LInv, NewTasks
    <3> QED
      BY <3>1, <3>3, <3>4
  <2> QED
    BY <1>1, <2>1, <2>2, WhatAdds
<1>2. IInv /\ [Next]_vars => [Single]_vars
  BY <1>1
<1> QED
  BY <1>2, DelegationInvariant, PTL DEF Spec, NoSecondChild

\* start() answers "running" from two places.
LEMMA WhoStarts ==
  ASSUME IInv, Next, NEW i \in Calls, pc[i] # "started", pc'[i] = "started"
  PROVE  SetRunning(i) \/ \E w \in writes : w.del = i /\ w.by = "start" /\ FinishWrite(w)
<1> USE DEF Goto, IInv, TInv, TypeOK
<1>1. ASSUME NEW j \in Calls, StepOfStart(j) PROVE SetRunning(i)
  <2>1. ~Begin(j)
    BY BeginLooksUp DEF New, Known
  <2> QED
    BY <1>1, <2>1
       DEF StepOfStart, CreateThread, CreateThreadFails, WriteDelegation, WriteDelegationFails,
           Open, Commit, StartTurn, AwaitNative, SetRunning, CloseSession, RemoveDelegation,
           RemoveDelegationFails, RemoveThread, RemoveThreadFails
<1>2. ASSUME NEW j \in Calls,
             PersistNative(j) \/ TurnEnds(j) \/ Send(j) \/ Resolve(j) \/ Read(j)
               \/ DeleteThread(j) \/ Expire(j)
      PROVE  FALSE
  BY <1>2 DEF PersistNative, TurnEnds, Send, Resolve, Read, DeleteThread, Expire
<1>3. ASSUME NEW w \in writes, FinishWrite(w) PROVE w.del = i /\ w.by = "start"
  BY <1>3 DEF FinishWrite
<1>4. \A w \in writes : ~WriteFails(w)
  BY DEF WriteFails
<1>5. ~Restart
  BY DEF Restart
<1> QED
  BY <1>1, <1>2, <1>3, <1>4, <1>5 DEF Next

\* The answer "running" names a child that a restart finds: its native session
\* is in its record, its relation is on disk and its runtime serves it (start(),
\* 302-333).
THEOREM StartedIsDurable == Spec => StartedMeansDurable
<1> DEFINE Durable == \A i \in Calls :
      pc[i] # "started" /\ pc'[i] = "started" /\ mine[i] = i =>
        record'[i] = "ready" /\ files'[i] # None /\ runtime'[i] # None
<1>1. ASSUME IInv, Next PROVE Durable
  <2> SUFFICES ASSUME NEW i \in Calls, pc[i] # "started", pc'[i] = "started", mine[i] = i
               PROVE  record'[i] = "ready" /\ files'[i] # None /\ runtime'[i] # None
    OBVIOUS
  <2>1. CASE SetRunning(i)
    BY <1>1, <2>1
       DEF SetRunning, storeVars, IInv, TInv, LInv, MapIsListed, LocalIsTrue, ServesThread
  <2>2. ASSUME NEW w \in writes, w.del = i, w.by = "start", FinishWrite(w)
        PROVE  record'[i] = "ready" /\ files'[i] # None /\ runtime'[i] # None
    <3>1. record' = record /\ runtime' = runtime /\ files' = [files EXCEPT ![i] = w.status]
      BY <2>2 DEF FinishWrite, SetDelegation
    <3>2. pc[i] = "write" /\ w.status = "running"
      BY <1>1, <2>2 DEF IInv, LInv, WritesHaveTarget
    <3>3. files'[i] # None
      BY <1>1, <3>1, <3>2, DelegationAssumption DEF IInv, TInv, TypeOK
    <3> QED
      BY <1>1, <3>1, <3>2, <3>3 DEF IInv, LInv, ServesThread
  <2> QED
    BY <1>1, <2>1, <2>2, WhoStarts
<1>2. IInv /\ [Next]_vars => [Durable]_vars
  BY <1>1
<1> QED
  BY <1>2, DelegationInvariant, PTL DEF Spec, StartedMeansDurable
=============================================================================
