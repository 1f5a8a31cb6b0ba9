------------------------------ MODULE ThreadList ------------------------------
(***************************************************************************)
(* One listing of threads: a Desktop that follows nextCursor until it is   *)
(* null.  #listThreads (app-server-host.ts) has aggregateThreadList merge  *)
(* the external records with an official source, which for every account   *)
(* is aggregateOfficialAccountThreadListPage: a merge of the accounts'     *)
(* own lists.  Both keep what they consumed of a source in a cursor.       *)
(*                                                                         *)
(* Each request to an account reads its list when it is answered, so the   *)
(* list may change between the requests of one page; the records are read  *)
(* once a page.  What lies between two awaits is one step or several with  *)
(* nothing in between.                                                     *)
(*                                                                         *)
(* A row is external (account 0) or of an account.  A thread is in the     *)
(* list of one account.  An id that both sources have is Owned.  Bounds:   *)
(* MaxTime, the current second, and MaxChanges to the threads.             *)
(***************************************************************************)
EXTENDS Naturals, FiniteSets, SequencesExt

CONSTANTS External, Official, Accounts, Limits, MaxTime, MaxChanges, Nothing

ASSUME ThreadListAssumption ==
  /\ External \subseteq Nat /\ Official \subseteq Nat
  /\ IsFiniteSet(External) /\ IsFiniteSet(Official) /\ IsFiniteSet(Accounts)
  /\ Accounts \subseteq Nat \ {0} /\ Accounts # {}
  /\ Limits \subseteq Nat \ {0}
  /\ MaxTime \in Nat \ {0} /\ MaxChanges \in Nat
  /\ Nothing \notin [from : Nat, id : Nat, time : Nat]
  /\ Nothing \notin [rows : Seq([from : Nat, id : Nat, time : Nat]), more : BOOLEAN]
  /\ Nothing \notin [rows : Seq([from : Nat, id : Nat, time : Nat]),
                    next : [Accounts -> [at : [from : Nat, id : Nat, time : Nat] \cup {Nothing},
                                         done : BOOLEAN]]]

VARIABLES
  dir, limit,  \* query.sortDirection, query.limit
  home,        \* the account of an official thread
  time,        \* the timestamp of a row, 0 when the query does not match it
  moved,       \* rows whose timestamp has changed since the listing began
  changes,     \* how often
  drift,       \* an account's list changed while a page of it was put together
  pc,          \* "idle", "asked", "merging", "done", "refused", "failed"
  listing,     \* the rows the Desktop has received
  cursor,      \* HostThreadListCursor: what it asks for next
  ext, more,   \* externalPage from externalIndex on, externalPage.hasMore
  lastAnchor,  \* lastExternalAnchor
  out,         \* output
  start,       \* officialBatchStart: the position of each account
  batch,       \* officialBatch: its rows and the position after it, or Nothing
  index,       \* officialIndex
  exact,       \* the request is for the exact prefix
  page,        \* in the request: the batch of an account, or Nothing
  edge         \* in the request: the position after what was taken of it

query == <<dir, limit, home>>
world == <<time, moved, changes, drift>>
request == <<start, exact, page, edge>>
listVars == <<query, world, pc, listing, cursor, ext, more, lastAnchor, out, batch, index, request>>

Rows == {<<0, e>> : e \in External} \cup {<<home[o], o>> : o \in Official}

Row(r) == [from |-> r[1], id |-> r[2], time |-> time[r]]

Listed(a) == {r \in {Row(x) : x \in Rows} : r.from = a /\ r.time > 0}

\* compareThreadListEntries, with accounts in the order of their names.
\* External rows of one second are in the order of their ids in either
\* direction; within an account the order is that of the account.
Before(r, s) ==
  IF r.time # s.time
    THEN IF dir = "asc" THEN r.time < s.time ELSE r.time > s.time
    ELSE \/ r.from < s.from
         \/ r.from = s.from /\ IF r.from = 0 \/ dir = "asc" THEN r.id < s.id ELSE r.id > s.id

\* row i of S in order is the one that i - 1 others come before
Sorted(S) == [i \in 1..Cardinality(S) |->
  CHOOSE r \in S : Cardinality({s \in S : Before(s, r)}) = i - 1]

\* the rows of source a after position p, as they are now
After(a, p) == Sorted({r \in Listed(a) : p = Nothing \/ Before(p, r)})

Take(s, n) == SubSeq(s, 1, IF n < Len(s) THEN n ELSE Len(s))

-----------------------------------------------------------------------------
(* aggregateOfficialAccountThreadListPage: one official request *)

Ask(from, forExact) ==
  /\ pc' = "asked"
  /\ start' = from /\ exact' = forExact
  /\ page' = [a \in Accounts |-> Nothing] /\ edge' = [a \in Accounts |-> Nothing]

OpenAccounts == {a \in Accounts : ~start[a].done}

\* requestAccountPage: every account that is not done is asked for a batch
AccountBatch(a) ==
  /\ pc = "asked" /\ a \in OpenAccounts /\ page[a] = Nothing
  /\ LET rows == After(a, start[a].at) IN
       page' = [page EXCEPT ![a] = [rows |-> Take(rows, limit), more |-> Len(rows) > limit]]
  /\ UNCHANGED <<query, world, pc, listing, cursor, ext, more, lastAnchor, out, batch, index, start, exact, edge>>

Fetched == pc = "asked" /\ \A a \in OpenAccounts : page[a] # Nothing

\* the merged rows, query.limit of them whatever params.limit asks for
Data == Take(Sorted(UNION {ToSet(page[a].rows) : a \in OpenAccounts}), limit)

TakenOf(data, a) == Cardinality({i \in DOMAIN data : data[i].from = a})

\* an account of whose batch a part was taken is asked again for that part
Split(data) == {a \in OpenAccounts : LET n == TakenOf(data, a) IN
  edge[a] = Nothing /\ 0 < n /\ n < Len(page[a].rows)}

RefusePage ==
  /\ pc' = "refused"
  /\ UNCHANGED <<query, world, listing, cursor, ext, more, lastAnchor, out, batch, index, request>>

\* the accounts one after the other; the answer has to be that long, and not
\* the last of the account
AccountPrefix(a) ==
  /\ Fetched
  /\ LET data == Data
         split == Split(data)
         rows == After(a, start[a].at)
         n == TakenOf(data, a)
     IN /\ a \in split /\ \A b \in split : a <= b
        /\ IF Len(rows) <= n
             THEN RefusePage
             ELSE /\ edge' = [edge EXCEPT ![a] = rows[n]]
                  /\ UNCHANGED <<query, world, pc, listing, cursor, ext, more, lastAnchor, out, batch, index, start, exact, page>>

\* nextAccounts
Position(data) == [a \in Accounts |->
  LET n == TakenOf(data, a) IN
  IF a \notin OpenAccounts THEN start[a]
  ELSE IF page[a].rows = <<>> THEN [start[a] EXCEPT !.done = TRUE]
  ELSE IF n = 0 THEN start[a]
  ELSE IF edge[a] # Nothing THEN [at |-> edge[a], done |-> FALSE]
  ELSE [at |-> page[a].rows[n], done |-> ~page[a].more]]

Exhausted(position) == \A a \in Accounts : position[a].done

\* an account cannot be asked, or answers with an error: so does the host
RequestFails ==
  /\ pc = "asked"
  /\ pc' = "failed"
  /\ UNCHANGED <<query, world, listing, cursor, ext, more, lastAnchor, out, batch, index, request>>

-----------------------------------------------------------------------------
(* aggregateThreadList: one page *)

\* mutant: the anchor itself is listed again
ExternalRowsFromAnchor ==
  Sorted({r \in Listed(0) : cursor.anchor = Nothing \/ ~Before(r, cursor.anchor)})

\* listExternalThreadMetadata from the anchor on
ExternalRows == After(0, cursor.anchor)

BeginPage ==
  /\ pc = "idle"
  /\ LET rows == IF cursor.externalDone THEN <<>> ELSE ExternalRows IN
       /\ ext' = Take(rows, limit) /\ more' = (Len(rows) > limit)
  /\ lastAnchor' = cursor.anchor
  /\ out' = <<>> /\ batch' = Nothing /\ index' = 0
  /\ IF cursor.officialDone
       THEN pc' = "merging" /\ UNCHANGED request
       ELSE Ask(cursor.official, FALSE)
  /\ UNCHANGED <<query, world, listing, cursor>>

BatchArrives ==
  /\ Fetched /\ ~exact
  /\ LET data == Data IN
       /\ Split(data) = {}
       /\ batch' = [rows |-> data, next |-> Position(data)]
  /\ index' = 0 /\ pc' = "merging"
  /\ UNCHANGED <<query, world, listing, cursor, ext, more, lastAnchor, out, request>>

Filling == pc = "merging" /\ Len(out) < limit

\* ensureOfficial: what is left of the official batch
Head1(s) == IF s = <<>> THEN Nothing ELSE Head(s)
OfficialRow == IF batch = Nothing THEN Nothing ELSE Head1(SubSeq(batch.rows, index + 1, Len(batch.rows)))
ExternalRow == Head1(ext)

\* the batch is used up and was not the last one
NextBatch ==
  /\ Filling /\ batch # Nothing /\ OfficialRow = Nothing /\ ~Exhausted(batch.next)
  /\ Ask(batch.next, FALSE)
  /\ UNCHANGED <<query, world, listing, cursor, ext, more, lastAnchor, out, batch, index>>

\* mutant: officialIndex += 1 is missing
PassOwnedAgain ==
  /\ Filling /\ OfficialRow # Nothing /\ OfficialRow.id \in External
  /\ UNCHANGED listVars

\* a row whose id belongs to an external record is left out
PassOwned ==
  /\ Filling /\ OfficialRow # Nothing /\ OfficialRow.id \in External
  /\ index' = index + 1
  /\ UNCHANGED <<query, world, pc, listing, cursor, ext, more, lastAnchor, out, batch, request>>

\* no official row is left, or the next one is known
OfficialKnown ==
  IF batch = Nothing THEN TRUE
  ELSE IF OfficialRow = Nothing THEN Exhausted(batch.next)
  ELSE OfficialRow.id \notin External

EmitExternal ==
  /\ Filling /\ OfficialKnown /\ ExternalRow # Nothing
  /\ OfficialRow # Nothing => Before(ExternalRow, OfficialRow)
  /\ out' = Append(out, ExternalRow) /\ ext' = Tail(ext) /\ lastAnchor' = ExternalRow
  /\ UNCHANGED <<query, world, pc, listing, cursor, more, batch, index, request>>

EmitOfficial ==
  /\ Filling /\ OfficialKnown /\ OfficialRow # Nothing
  /\ ExternalRow # Nothing => Before(OfficialRow, ExternalRow)
  /\ out' = Append(out, OfficialRow) /\ index' = index + 1
  /\ UNCHANGED <<query, world, pc, listing, cursor, ext, more, lastAnchor, batch, request>>

\* the page and its nextCursor
Finish(official, officialDone) ==
  LET externalDone == ext = <<>> /\ ~more IN
  /\ listing' = listing \o out
  /\ cursor' = [official |-> official, officialDone |-> officialDone, anchor |-> lastAnchor,
                externalDone |-> externalDone]
  /\ pc' = IF officialDone /\ externalDone THEN "done" ELSE "idle"
  /\ UNCHANGED <<query, world, ext, more, lastAnchor, out, batch, index, request>>

\* mutant: a batch of which nothing was used counts as used
EndPageAfterBatch ==
  /\ pc = "merging"
  /\ Len(out) = limit \/ (OfficialKnown /\ OfficialRow = Nothing /\ ExternalRow = Nothing)
  /\ IF batch = Nothing THEN Finish(cursor.official, TRUE)
     ELSE Finish(batch.next, Exhausted(batch.next))

\* the official position: behind the batch when it was used up, before it
\* when nothing of it was, else what the request for the prefix says
EndPage ==
  /\ pc = "merging"
  /\ Len(out) = limit \/ (OfficialKnown /\ OfficialRow = Nothing /\ ExternalRow = Nothing)
  /\ IF batch = Nothing THEN Finish(cursor.official, TRUE)
     ELSE IF index = Len(batch.rows) THEN Finish(batch.next, Exhausted(batch.next))
     ELSE IF index = 0 THEN Finish(start, FALSE)
     ELSE /\ Ask(start, TRUE)
          /\ UNCHANGED <<query, world, listing, cursor, ext, more, lastAnchor, out, batch, index>>

\* "did not return an exact consumed prefix cursor"
PrefixArrives ==
  /\ Fetched /\ exact
  /\ LET data == Data
         next == Position(data)
     IN /\ Split(data) = {}
        /\ IF Len(data) # index \/ Exhausted(next) THEN RefusePage ELSE Finish(next, FALSE)

-----------------------------------------------------------------------------
\* A thread is created, updated, archived or deleted while the host awaits.
Change(r) ==
  /\ pc \in {"idle", "asked"} /\ changes < MaxChanges
  /\ \E t \in {0, MaxTime} \ {time[r]} : time' = [time EXCEPT ![r] = t]
  /\ moved' = moved \cup {r} /\ changes' = changes + 1
  /\ drift' = (drift \/ (pc = "asked" /\ r[1] # 0 /\ page[r[1]] # Nothing))
  /\ UNCHANGED <<query, pc, listing, cursor, ext, more, lastAnchor, out, batch, index, request>>

Origin == [a \in Accounts |-> [at |-> Nothing, done |-> FALSE]]

ListInit ==
  /\ dir \in {"asc", "desc"} /\ limit \in Limits /\ home \in [Official -> Accounts]
  /\ time \in [Rows -> 1..MaxTime]
  /\ moved = {} /\ changes = 0 /\ drift = FALSE
  /\ pc = "idle" /\ listing = <<>>
  /\ cursor = [official |-> Origin, officialDone |-> FALSE, anchor |-> Nothing, externalDone |-> FALSE]
  /\ ext = <<>> /\ more = FALSE /\ lastAnchor = Nothing /\ out = <<>> /\ batch = Nothing /\ index = 0
  /\ start = Origin /\ exact = FALSE
  /\ page = [a \in Accounts |-> Nothing] /\ edge = [a \in Accounts |-> Nothing]

Step ==
  \/ BeginPage \/ BatchArrives \/ PrefixArrives
  \/ \E a \in Accounts : AccountBatch(a) \/ AccountPrefix(a)
  \/ NextBatch \/ PassOwned \/ EmitExternal \/ EmitOfficial \/ EndPage

ListNext == Step \/ RequestFails \/ \E r \in Rows : Change(r)

ListSpec == ListInit /\ [][ListNext]_listVars

\* The Desktop goes on asking and the accounts answer.
FairListSpec == ListSpec /\ WF_listVars(Step)

-----------------------------------------------------------------------------
(* Properties, about the rows that did not change meanwhile *)

RowType == [from : Nat, id : Nat, time : Nat]
Positions == [Accounts -> [at : RowType \cup {Nothing}, done : BOOLEAN]]
Pages == [rows : Seq(RowType), more : BOOLEAN]

ListTypeOK ==
  /\ dir \in {"asc", "desc"} /\ limit \in Limits /\ home \in [Official -> Accounts]
  /\ time \in [Rows -> 0..MaxTime]
  /\ moved \subseteq Rows /\ changes \in 0..MaxChanges /\ drift \in BOOLEAN
  /\ pc \in {"idle", "asked", "merging", "done", "refused", "failed"}
  /\ listing \in Seq(RowType) /\ out \in Seq(RowType) /\ ext \in Seq(RowType) /\ more \in BOOLEAN
  /\ cursor \in [official : Positions, officialDone : BOOLEAN,
                 anchor : RowType \cup {Nothing}, externalDone : BOOLEAN]
  /\ lastAnchor \in RowType \cup {Nothing}
  /\ batch = Nothing \/ batch \in [rows : Seq(RowType), next : Positions]
  /\ index \in Nat /\ start \in Positions /\ exact \in BOOLEAN
  /\ page \in [Accounts -> Pages \cup {Nothing}]
  /\ edge \in [Accounts -> RowType \cup {Nothing}]

Kept(r) == <<r.from, r.id>> \notin moved

\* openspec/specs/external-thread-list-archive-routing/spec.md:75-76: over all
\* pages the rows come in the global order, and none comes twice.
PagesAreInOrder == ~drift => \A i, j \in DOMAIN listing :
  i < j /\ Kept(listing[i]) /\ Kept(listing[j]) => Before(listing[i], listing[j])

Due(r) == r.from = 0 \/ r.id \notin External

\* Same place, "every matching row" and line 77, "neither source SHALL be
\* truncated": the listing has no gap up to its last row, and none at all when
\* nextCursor is null; unless an account's list changed under a request.
NothingSkipped == ~drift =>
  \A r \in UNION {Listed(a) : a \in Accounts \cup {0}} :
    /\ Kept(r) /\ Due(r)
    /\ pc = "done" \/ \E i \in DOMAIN listing : Kept(listing[i]) /\ Before(r, listing[i])
    => r \in ToSet(listing)

\* Following nextCursor comes to an end.
ListingEnds == <>(pc \in {"done", "refused", "failed"})

\* Same place: following nextCursor until null returns every row, so no page
\* is refused.
NoPageIsRefused == pc # "refused"

-----------------------------------------------------------------------------
(* The inductive invariant *)

Ordered(s) == \A i, j \in DOMAIN s : i < j => Before(s[i], s[j])

\* the lists of a request are parts of their accounts' lists; a request for a
\* prefix asks for less than a page
RequestShape == pc = "asked" =>
  /\ \A a \in Accounts : page[a] # Nothing =>
       /\ a \in OpenAccounts /\ Ordered(page[a].rows) /\ Len(page[a].rows) <= limit
       /\ page[a].more => Len(page[a].rows) = limit
       /\ \A i \in DOMAIN page[a].rows : page[a].rows[i].from = a
  /\ \A a \in Accounts : edge[a] # Nothing =>
       Fetched /\ TakenOf(Data, a) \in 1..(Len(page[a].rows) - 1)
  /\ exact => 0 < index /\ index < limit

\* a page has at most limit rows, and so has a batch
BatchShape ==
  /\ pc \in {"asked", "merging"} => Len(out) <= limit
  /\ pc = "merging" /\ batch # Nothing =>
       /\ index <= Len(batch.rows) /\ Len(batch.rows) <= limit
       /\ \A i \in DOMAIN batch.rows : batch.rows[i].from # 0

ListTInv == ListTypeOK /\ RequestShape /\ BatchShape

\* threads that did not change since the listing began, as they are
Fixed == {r \in UNION {Listed(a) : a \in Accounts \cup {0}} : Kept(r)}

\* what the Desktop has received, or will receive with the page under way
Paging == pc \in {"asked", "merging"}
Shown == {r \in ToSet(listing) \cup (IF Paging THEN ToSet(out) ELSE {}) : Kept(r)}

AfterShown(r) == \A s \in Shown : Before(s, r)

ShownInOrder ==
  /\ \A i, j \in DOMAIN listing :
       i < j /\ Kept(listing[i]) /\ Kept(listing[j]) => Before(listing[i], listing[j])
  /\ Paging =>
       /\ \A i, j \in DOMAIN out : i < j /\ Kept(out[i]) /\ Kept(out[j]) => Before(out[i], out[j])
       /\ \A i \in DOMAIN listing, j \in DOMAIN out :
            Kept(listing[i]) /\ Kept(out[j]) => Before(listing[i], out[j])

\* what is not shown comes after what is
NoGap ==
  /\ \A r \in Fixed : Due(r) => r \in Shown \/ AfterShown(r)
  /\ pc = "done" => \A r \in Fixed : Due(r) => r \in Shown

\* position p is before r
Follows(p, r) == p = Nothing \/ Before(p, r)
Beyond(positions, r) == ~positions[r.from].done /\ Follows(positions[r.from].at, r)

\* the lists asked for are what the accounts have, and so is what is said of
\* the part used of them
RequestIsTrue == pc = "asked" =>
  /\ \A a \in Accounts : page[a] # Nothing =>
       LET rows == {r \in Listed(a) : Follows(start[a].at, r)} IN
       /\ ToSet(page[a].rows) \subseteq rows
       /\ \A r \in rows \ ToSet(page[a].rows) : \A s \in ToSet(page[a].rows) : Before(s, r)
       /\ ~page[a].more => rows = ToSet(page[a].rows)
  /\ \A a \in Accounts : edge[a] # Nothing => edge[a] = page[a].rows[TakenOf(Data, a)]

\* the official side goes on at these positions, or is over
OfficialAt(positions) == \A r \in Fixed : r.from # 0 =>
  IF Beyond(positions, r) THEN AfterShown(r) ELSE Due(r) => r \in Shown

OfficialOver == \A r \in Fixed : r.from # 0 /\ Due(r) => r \in Shown

\* a batch lies between the positions before and behind it
BatchFits == batch # Nothing =>
  /\ Ordered(batch.rows)
  /\ \A r \in Fixed : r.from # 0 =>
       /\ Beyond(start, r) <=> Beyond(batch.next, r) \/ r \in ToSet(batch.rows)
       /\ Beyond(batch.next, r) => AfterShown(r) /\ \A s \in ToSet(batch.rows) : Before(s, r)
       /\ Due(r) => \/ r \in Shown \/ Beyond(batch.next, r)
                    \/ \E i \in (index + 1)..Len(batch.rows) : r = batch.rows[i]
  /\ \A i \in (index + 1)..Len(batch.rows) : Kept(batch.rows[i]) => AfterShown(batch.rows[i])

OfficialSide ==
  /\ pc = "idle" => IF cursor.officialDone THEN OfficialOver ELSE OfficialAt(cursor.official)
  /\ pc = "asked" /\ ~exact => OfficialAt(start)
  /\ pc = "merging" => BatchFits /\ (batch = Nothing => OfficialOver)

\* the external side goes on at this anchor, or is over
ExternalAt(anchor) == \A r \in Fixed : r.from = 0 =>
  IF Follows(anchor, r) THEN AfterShown(r) ELSE r \in Shown

ExternalOver == \A r \in Fixed : r.from = 0 => r \in Shown

\* the external rows of the page: those used are in out, the others in ext
PageFits ==
  /\ Ordered(ext) /\ \A i \in DOMAIN ext :
       /\ ext[i].from = 0 /\ Follows(lastAnchor, ext[i])
       /\ Kept(ext[i]) => AfterShown(ext[i])
  /\ \A r \in Fixed : r.from = 0 =>
       IF ~Follows(lastAnchor, r) THEN r \in Shown
       ELSE \/ r \in ToSet(ext)
            \/ more /\ AfterShown(r) /\ \A i \in DOMAIN ext : Before(ext[i], r)
  /\ more => Len(out) + Len(ext) >= limit
  /\ cursor.externalDone => ext = <<>> /\ ~more

ExternalSide ==
  /\ pc = "idle" => ExternalAt(cursor.anchor) /\ (cursor.externalDone => ExternalOver)
  /\ Paging => PageFits

Intact == ShownInOrder /\ NoGap /\ RequestIsTrue /\ OfficialSide /\ ExternalSide

ListSInv == ~drift => Intact

ListIInv == ListTInv /\ ListSInv
=============================================================================
