----------------------------- MODULE WebProofs -----------------------------
(***************************************************************************)
(* Proofs about the web application: FindingsPage, for any findings,       *)
(* accounts, settings and limits, and SessionClient, for any number of     *)
(* calls, organisations and lost answers.                                  *)
(***************************************************************************)
EXTENDS FindingsPage, SessionClient, TLAPS

(***************************************************************************)
(*                          The findings page                              *)
(***************************************************************************)
Rows == [status : Statuses, resolvedAt : BOOLEAN, updatedAt : Nat]
Tables == [Findings -> Rows \cup {None}]

-----------------------------------------------------------------------------
(* The invariant.                                                          *)

\* A row tells in which table it was written.
Stamped ==
  \A t \in 1 .. now : \A f \in Findings :
    history[t][f] # None => history[t][f].updatedAt <= t
HistoryFits == history \in Seq(Tables) /\ now >= 1 /\ due \in 1 .. now /\ Stamped

\* A query is asked from one of the n tables.  Unless one that was under way
\* was joined, a request is asked, and valid data is, not before table e.
Queries(data, from) ==
  [data : data, from : from, tries : Nat, invalid : BOOLEAN, joined : BOOLEAN]
Knows(q, new, e) ==
  ~q.joined =>
    /\ Fetching(q) => q.from >= e
    /\ ~Fetching(q) /\ q.data # None /\ ~q.invalid => q.data \in new
Fits(q, data, new, n, e) == q \in Queries(data \cup {None}, 0 .. n) /\ Knows(q, new, e)
ListFits(q, n, e) == Fits(q, 1 .. n, e .. n, n, e)
CountsFit(q, n, e) == Fits(q, [Counts -> 1 .. n], [Counts -> e .. n], n, e)
QueriesFit ==
  /\ \A k \in DOMAIN list : ListFits(list[k], now, due)
  /\ \A a \in DOMAIN stats : CountsFit(stats[a], now, due)

\* From table u on the finding has a row that was not there before.
Later(f, u) ==
  \A t \in u .. now : history[t][f] = None \/ history[t][f].updatedAt >= u
UpdateFits ==
  update # None =>
    /\ update = [finding |-> update.finding, status |-> update.status,
                 at |-> update.at, table |-> update.table]
    /\ update.status \in Statuses /\ update.table \in 0 .. now
    /\ update.at = "done" =>
         /\ update.table >= 1
         /\ update.finding \in Findings => Later(update.finding, update.table)

\* The dialog says what the list says; or it is ahead, by an update that the
\* list has not heard of, but every answer to come has, with another row.
InList ==
  selected # None /\ ~strayed /\ idParam = selected.finding /\ idParam \in DOMAIN allFindings
Agrees == selected.row.status = allFindings[idParam].status
Ahead ==
  /\ ~ListQuery(key).joined
  /\ \E u \in 1 .. due : ListQuery(key).data < u /\ Later(idParam, u)
DialogFits ==
  /\ selected # None => selected = Dialog(selected.finding, selected.row)
  /\ InList => selected.row \in Rows /\ (Agrees \/ Ahead)

IInv == HistoryFits /\ QueriesFit /\ UpdateFits /\ DialogFits

-----------------------------------------------------------------------------
(* Queries.                                                                *)

LEMMA Fetched ==
  ASSUME NEW X, NEW Y, NEW q \in Queries(X, Y), now \in Y
  PROVE  /\ Fetch(q) \in Queries(X, Y)
         /\ Fetch(q).data = q.data /\ Fetch(q).from = now /\ ~Fetch(q).joined
BY DEF Queries, Fetch

LEMMA Invalidated ==
  ASSUME NEW X, NEW Y, NEW q \in Queries(X, Y), now \in Y, NEW inView
  PROVE  LET i == Invalidate(q, inView)
         IN  /\ i \in Queries(X, Y)
             /\ i.data = q.data /\ i.invalid
             /\ ~i.joined /\ i.from # 0 => i.from = now
BY DEF Queries, Fetch, Fetching, Invalidate

LEMMA InvalidatedInView ==
  ASSUME NEW X, NEW Y, NEW q \in Queries(X, Y), now \in Y
  PROVE  /\ Invalidate(q, TRUE).data = q.data
         /\ q.data # None => ~Invalidate(q, TRUE).joined
BY DEF Queries, Fetch, Fetching, Invalidate

LEMMA AfterFailure ==
  ASSUME NEW X, NEW Y, NEW q \in Queries(X, Y), now \in Y, 0 \in Y
  PROVE  /\ Failed(q) \in Queries(X, Y)
         /\ Failed(q).data = q.data /\ Failed(q).joined = q.joined
         /\ Failed(q).from = now \/ (Failed(q).from = 0 /\ Failed(q).invalid)
BY DEF Queries, Failed

LEMMA AfterAnswer ==
  ASSUME NEW X, NEW Y, NEW q \in Queries(X, Y), 0 \in Y, NEW data \in X
  PROVE  /\ Answered(q, data) \in Queries(X, Y)
         /\ Answered(q, data).data = data /\ Answered(q, data).joined = q.joined
         /\ Answered(q, data).from = 0
BY DEF Queries, Answered

LEMMA FetchFits ==
  ASSUME now \in Nat \ {0}, NEW D, NEW N, NEW e \in 1 .. now,
         NEW q \in Queries(D \cup {None}, 0 .. now)
  PROVE  Fits(Fetch(q), D, N, now, e)
<1>1. now \in 0 .. now
  OBVIOUS
<1> QED
  BY <1>1, Fetched DEF Fits, Knows, Fetching

LEMMA NoQueryFits ==
  ASSUME NEW D, NEW N, NEW n \in Nat, NEW e
  PROVE  Fits(NoQuery, D, N, n, e)
BY DEF Fits, Queries, Knows, NoQuery, Fetching

LEMMA AskedAtFirst ==
  LET q == [NoQuery EXCEPT !.from = 1]
  IN  /\ \A D : q \in Queries(D \cup {None}, 0 .. 1)
      /\ q.data = None /\ q.from = 1
<1>1. /\ [NoQuery EXCEPT !.from = 1] \in Queries({None}, {1})
      /\ [NoQuery EXCEPT !.from = 1].data = None
      /\ [NoQuery EXCEPT !.from = 1].from = 1
  BY DEF NoQuery, Queries
<1> QED
  BY <1>1 DEF Queries

LEMMA ObserveFits ==
  ASSUME now \in Nat \ {0}, NEW D, NEW N, NEW e \in 1 .. now, NEW q, NEW old,
         Fits(q, D, N, now, e)
  PROVE  Fits(Observe(q, old), D, N, now, e)
<1>1. Fits(Fetch(q), D, N, now, e)
  BY FetchFits DEF Fits
<1> QED
  BY <1>1 DEF Observe

LEMMA InvalidateFits ==
  ASSUME now \in Nat \ {0}, NEW D, NEW N, NEW e \in 1 .. now,
         NEW q \in Queries(D \cup {None}, 0 .. now), NEW inView
  PROVE  Fits(Invalidate(q, inView), D, N, now, e)
<1>1. now \in 0 .. now
  OBVIOUS
<1> QED
  BY <1>1, Invalidated DEF Fits, Knows, Fetching

LEMMA FailedFits ==
  ASSUME now \in Nat \ {0}, NEW D, NEW N, NEW e \in 1 .. now, NEW q, Fits(q, D, N, now, e)
  PROVE  Fits(Failed(q), D, N, now, e)
<1>1. now \in 0 .. now /\ 0 \in 0 .. now
  OBVIOUS
<1> QED
  BY <1>1, AfterFailure DEF Fits, Knows, Fetching

LEMMA AnsweredFits ==
  ASSUME NEW D, NEW N, NEW n \in Nat, NEW e \in 1 .. n, NEW q, Fits(q, D, N, n, e),
         Fetching(q), NEW data \in D, q.from >= e => data \in N
  PROVE  Fits(Answered(q, data), D, N, n, e)
<1>1. 0 \in 0 .. n
  OBVIOUS
<1> QED
  BY <1>1, AfterAnswer DEF Fits, Knows, Fetching

LEMMA FitsLater ==
  ASSUME NEW n \in Nat, NEW e \in 1 .. n, NEW q
  PROVE  /\ ListFits(q, n, e) => ListFits(q, n + 1, e)
         /\ CountsFit(q, n, e) => CountsFit(q, n + 1, e)
<1>1. /\ 1 .. n \subseteq 1 .. n + 1 /\ e .. n \subseteq e .. n + 1
      /\ 0 .. n \subseteq 0 .. n + 1
  OBVIOUS
<1>2. /\ [Counts -> 1 .. n] \subseteq [Counts -> 1 .. n + 1]
      /\ [Counts -> e .. n] \subseteq [Counts -> e .. n + 1]
  BY <1>1
<1>3. ASSUME NEW D, NEW E, NEW N, NEW M, D \subseteq E, N \subseteq M, Fits(q, D, N, n, e)
      PROVE  Fits(q, E, M, n + 1, e)
  BY <1>1, <1>3 DEF Fits, Queries, Knows
<1> QED
  BY <1>1, <1>2, <1>3 DEF ListFits, CountsFit

LEMMA Numbers ==
  ASSUME HistoryFits
  PROVE  now \in Nat \ {0} /\ due \in 1 .. now
BY DEF HistoryFits, now

LEMMA ListQueryFits ==
  ASSUME HistoryFits, QueriesFit, NEW k
  PROVE  ListFits(ListQuery(k), now, due)
BY Numbers, NoQueryFits DEF QueriesFit, ListQuery, ListFits

LEMMA WithQueryFits ==
  ASSUME QueriesFit, NEW k, NEW q, ListFits(q, now, due), list' = WithQuery(k, q)
  PROVE  \A j \in DOMAIN list' : ListFits(list'[j], now, due)
BY DEF QueriesFit, WithQuery

LEMMA InvalidateAllFits ==
  ASSUME HistoryFits, QueriesFit, InvalidateAll, UNCHANGED history, due' \in 1 .. now
  PROVE  QueriesFit'
<1>1. now \in Nat \ {0} /\ now' = now
  BY Numbers DEF now
<1>2. ASSUME NEW k \in DOMAIN list
      PROVE  ListFits(list'[k], now, due')
  BY <1>1, InvalidateFits DEF InvalidateAll, QueriesFit, ListFits, Fits
<1>3. ASSUME NEW a \in DOMAIN stats
      PROVE  CountsFit(stats'[a], now, due')
  BY <1>1, InvalidateFits, NoQueryFits DEF InvalidateAll, QueriesFit, CountsFit, Fits
<1>4. DOMAIN list' = DOMAIN list /\ DOMAIN stats' = DOMAIN stats
  BY DEF InvalidateAll
<1> QED
  BY <1>1, <1>2, <1>3, <1>4 DEF QueriesFit

-----------------------------------------------------------------------------
(* Tables.                                                                 *)

\* What any of the writers makes of the table.
Writes(next) ==
  /\ next \in Tables
  /\ \A f \in Findings :
       next[f] = None \/ next[f] = rows[f] \/ next[f].updatedAt = now + 1

LEMMA RowsNow ==
  ASSUME HistoryFits
  PROVE  /\ rows \in Tables
         /\ \A f \in Present(rows) : f \in Findings /\ rows[f] \in Rows
BY Numbers DEF HistoryFits, rows, now, Tables, Present

LEMMA RowsMade ==
  ASSUME NEW n \in Nat, NEW s \in Statuses
  PROVE  /\ Row(s, n) \in Rows /\ Row(s, n).updatedAt = n
         /\ \A r \in Rows :
              /\ [r EXCEPT !.updatedAt = n] \in Rows
              /\ [r EXCEPT !.updatedAt = n].updatedAt = n
              /\ [r EXCEPT !.status = s, !.updatedAt = n] \in Rows
              /\ [r EXCEPT !.status = s, !.updatedAt = n].updatedAt = n
<1>1. Row(s, n) \in Rows /\ Row(s, n).updatedAt = n
  BY DEF Row, Rows
<1>2. ASSUME NEW r \in Rows
      PROVE  /\ [r EXCEPT !.updatedAt = n] \in Rows
             /\ [r EXCEPT !.updatedAt = n].updatedAt = n
  BY DEF Rows
<1>3. ASSUME NEW r \in Rows
      PROVE  /\ [r EXCEPT !.status = s, !.updatedAt = n] \in Rows
             /\ [r EXCEPT !.status = s, !.updatedAt = n].updatedAt = n
  BY DEF Rows
<1> QED
  BY <1>1, <1>2, <1>3

LEMMA OneRowWritten ==
  ASSUME HistoryFits, NEW f, NEW r, f \in Findings => r \in Rows /\ r.updatedAt = now + 1
  PROVE  /\ Writes([rows EXCEPT ![f] = r])
         /\ f \in Findings => [rows EXCEPT ![f] = r][f] = r
BY RowsNow DEF Writes, Tables

LEMMA UpdateWrites ==
  ASSUME HistoryFits, NEW f, NEW s \in Statuses, rows[f] # None
  PROVE  /\ Writes(UpdateFinding(rows, f, s, now + 1))
         /\ f \in Findings =>
              UpdateFinding(rows, f, s, now + 1)[f].updatedAt = now + 1
<1> DEFINE r == IF s = "ignored" THEN [rows[f] EXCEPT !.status = s, !.updatedAt = now + 1]
                ELSE Row(s, now + 1)
<1>1. f \in Findings => rows[f] \in Rows
  BY RowsNow DEF Present
<1>2. f \in Findings => r \in Rows /\ r.updatedAt = now + 1
  <2>1. now + 1 \in Nat
    BY Numbers
  <2> QED
    BY <1>1, <2>1, RowsMade
<1>3. UpdateFinding(rows, f, s, now + 1) = [rows EXCEPT ![f] = r]
  BY DEF UpdateFinding
<1> HIDE DEF r
<1>4. /\ Writes([rows EXCEPT ![f] = r])
      /\ f \in Findings => [rows EXCEPT ![f] = r][f] = r
  BY <1>2, OneRowWritten
<1> QED
  BY <1>2, <1>3, <1>4

LEMMA OthersWriteTables ==
  ASSUME HistoryFits
  PROVE  /\ \A f \in Present(rows), s \in Statuses :
              /\ Writes(UpdateFinding(rows, f, s, now + 1))
              /\ Writes(BulkUpdateStatus(rows, {f}, s, now + 1))
         /\ Writes(DeleteOldResolvedFindings(rows))
         /\ \A t \in AfterAnalysis(rows, now + 1) : Writes(t)
<1>0. now + 1 \in Nat /\ "open" \in Statuses /\ "resolved" \in Statuses
  BY Numbers DEF Statuses
<1>1. ASSUME NEW f \in Present(rows), NEW s \in Statuses
      PROVE  Writes(UpdateFinding(rows, f, s, now + 1))
  BY UpdateWrites DEF Present
<1>2. ASSUME NEW f \in Present(rows), NEW s \in Statuses
      PROVE  Writes(BulkUpdateStatus(rows, {f}, s, now + 1))
  <2> DEFINE after(g) == [rows[g] EXCEPT !.status = s, !.updatedAt = now + 1,
                                         !.resolvedAt = @ \/ s = "resolved"]
  <2>1. ASSUME NEW r \in Rows
        PROVE  LET p == [r EXCEPT !.status = s, !.updatedAt = now + 1,
                                  !.resolvedAt = @ \/ s = "resolved"]
               IN  p \in Rows /\ p.updatedAt = now + 1
    BY <1>0 DEF Rows
  <2>2. \A g \in Present(rows) : after(g) \in Rows /\ after(g).updatedAt = now + 1
    BY <2>1, RowsNow
  <2> HIDE DEF after
  <2>3. BulkUpdateStatus(rows, {f}, s, now + 1) =
          [g \in Findings |-> IF g \in {f} \cap Present(rows) THEN after(g) ELSE rows[g]]
    BY DEF BulkUpdateStatus, after
  <2> QED
    BY <2>2, <2>3, RowsNow DEF Writes, Tables
<1>3. Writes(DeleteOldResolvedFindings(rows))
  BY RowsNow DEF Writes, DeleteOldResolvedFindings, Tables
<1>4. ASSUME NEW f \in Findings
      PROVE  Writes(Detect(rows, f, now + 1))
  <2> DEFINE r == IF rows[f] # None /\ rows[f].status # "resolved"
                  THEN [rows[f] EXCEPT !.updatedAt = now + 1] ELSE Row("open", now + 1)
  <2>1. rows[f] # None => rows[f] \in Rows
    BY RowsNow DEF Present
  <2>2. r \in Rows /\ r.updatedAt = now + 1
    BY <1>0, <2>1, RowsMade
  <2>3. Detect(rows, f, now + 1) = [rows EXCEPT ![f] = r]
    BY DEF Detect
  <2> QED
    BY <2>2, <2>3, OneRowWritten
<1>5. ASSUME NEW f \in Open(rows)
      PROVE  Writes(AutoResolve(rows, f, now + 1))
  BY <1>0, RowsMade, OneRowWritten DEF AutoResolve
<1> QED
  BY <1>1, <1>2, <1>3, <1>4, <1>5 DEF AfterAnalysis

\* What the tables of before a step are worth after it.
TablesKept ==
  /\ now' \in {now, now + 1}
  /\ \A t \in 1 .. now : history'[t] = history[t]
  /\ \A f \in Findings : \A u \in 1 .. now : Later(f, u) => Later(f, u)'

LEMMA SameTables ==
  ASSUME HistoryFits, UNCHANGED history
  PROVE  TablesKept
BY Numbers DEF TablesKept, now, Later

Extends(next) ==
  /\ history' \in Seq(Tables) /\ now' = now + 1
  /\ \A t \in 1 .. now : history'[t] = history[t]
  /\ history'[now + 1] = next

LEMMA AppendExtends ==
  ASSUME HistoryFits, NEW next, Writes(next), history' = Append(history, next)
  PROVE  Extends(next)
BY DEF HistoryFits, now, Writes, Extends

LEMMA OneTableMore ==
  ASSUME HistoryFits, NEW next, Writes(next), Extends(next), UNCHANGED due
  PROVE  HistoryFits' /\ TablesKept
<1>1. now' = now + 1 /\ now \in Nat \ {0}
  BY Numbers DEF Extends
<1>2. Stamped'
  <2> SUFFICES ASSUME NEW t \in 1 .. now + 1, NEW f \in Findings, history'[t][f] # None
               PROVE  history'[t][f].updatedAt <= t
    BY <1>1 DEF Stamped
  <2>1. CASE t \in 1 .. now
    BY <2>1 DEF HistoryFits, Stamped, Extends
  <2>2. CASE t = now + 1
    <3>1. next[f] \in Rows
      BY <2>2 DEF Writes, Tables, Extends
    <3>2. rows[f] # None => rows[f].updatedAt <= now
      BY <1>1 DEF HistoryFits, Stamped, rows
    <3>3. next[f] = rows[f] => next[f].updatedAt <= now + 1
      BY <1>1, <2>2, <3>1, <3>2 DEF Extends, Rows
    <3> QED
      BY <1>1, <2>2, <3>3 DEF Writes, Extends
  <2> QED
    BY <1>1, <2>1, <2>2
<1>3. ASSUME NEW f \in Findings, NEW u \in 1 .. now, Later(f, u)
      PROVE  Later(f, u)'
  <2> SUFFICES ASSUME NEW t \in u .. now + 1
               PROVE  history'[t][f] = None \/ history'[t][f].updatedAt >= u
    BY <1>1 DEF Later
  <2>1. CASE t \in u .. now
    BY <1>1, <1>3, <2>1 DEF Later, Extends
  <2>2. CASE t = now + 1
    <3>1. rows[f] = None \/ rows[f].updatedAt >= u
      BY <1>1, <1>3 DEF Later, rows
    <3> QED
      BY <1>1, <2>2, <3>1 DEF Writes, Extends
  <2> QED
    BY <1>1, <2>1, <2>2
<1> QED
  BY <1>1, <1>2, <1>3, Numbers DEF HistoryFits, TablesKept, Extends

-----------------------------------------------------------------------------
(* The list on the page.                                                   *)

LEMMA AnswerIsRows ==
  ASSUME NEW t, NEW acc, NEW fs, NEW n, NEW f \in DOMAIN GetFindings(t, acc, fs, n)
  PROVE  f \in Present(t) /\ GetFindings(t, acc, fs, n)[f] = t[f]
BY DEF GetFindings, Conditions

LEMMA FilteredIsAnswer ==
  ASSUME NEW answer, NEW types, NEW set, NEW f \in DOMAIN Filtered(answer, types, set)
  PROVE  f \in DOMAIN answer /\ Filtered(answer, types, set)[f] = answer[f]
BY DEF Filtered

\* A finding on the page is a row of the table that the list was read from.
Listed(f) ==
  LET t == ListQuery(key).data
  IN  /\ t \in 1 .. now /\ f \in Findings
      /\ allFindings[f] = history[t][f] /\ allFindings[f] \in Rows
      /\ allFindings[f] # None

LEMMA ListedRows ==
  HistoryFits /\ QueriesFit => \A f \in DOMAIN allFindings : Listed(f)
<1> SUFFICES ASSUME HistoryFits, QueriesFit, NEW f \in DOMAIN allFindings
             PROVE  Listed(f)
  OBVIOUS
<1> DEFINE q == ListQuery(key)
           answer == GetFindings(history[q.data], account, filters, ListLimit)
<1>1. q.data # None
  BY DEF allFindings
<1>2. q.data \in 1 .. now
  BY <1>1, ListQueryFits DEF ListFits, Fits, Queries
<1>3. allFindings = Filtered(answer, filters.types, settings)
  BY <1>1 DEF allFindings
<1>4. f \in Present(history[q.data]) /\ allFindings[f] = history[q.data][f]
  BY <1>3, AnswerIsRows, FilteredIsAnswer
<1>5. history[q.data] \in Tables
  BY <1>2 DEF HistoryFits, now
<1> QED
  BY <1>2, <1>4, <1>5 DEF Listed, Present, Tables

\* The page shows the same answer as before.
SameList ==
  /\ UNCHANGED <<account, filters, settings>>
  /\ ListQuery(key)'.data = ListQuery(key).data

LEMMA SameFindings ==
  ASSUME HistoryFits, QueriesFit, TablesKept, SameList
  PROVE  allFindings' = allFindings
<1>1. CASE ListQuery(key).data = None
  BY <1>1 DEF SameList, allFindings
<1>2. CASE ListQuery(key).data # None
  <2>1. ListQuery(key).data \in 1 .. now
    BY <1>2, ListQueryFits DEF ListFits, Fits, Queries
  <2>2. history'[ListQuery(key).data] = history[ListQuery(key).data]
    BY <2>1 DEF TablesKept
  <2> QED
    BY <1>2, <2>2 DEF SameList, allFindings, Filtered, GetFindings, Conditions, Present
<1> QED
  BY <1>1, <1>2

-----------------------------------------------------------------------------
(* The dialog.                                                             *)

LEMMA ClosedFits ==
  ASSUME selected' = None
  PROVE  DialogFits'
BY DEF DialogFits, InList

LEMMA OpenedFits ==
  ASSUME HistoryFits', QueriesFit', selected' = Dialog(idParam', allFindings'[idParam'])
  PROVE  DialogFits'
<1>1. (\A f \in DOMAIN allFindings : Listed(f))'
  BY ListedRows, PTL
<1> QED
  BY <1>1 DEF DialogFits, InList, Dialog, Agrees, Listed

LEMMA DialogStays ==
  ASSUME HistoryFits, QueriesFit, DialogFits, TablesKept, SameList, UNCHANGED dialog,
         due' \in Nat, due' >= due,
         ListQuery(key).data # None /\ ~ListQuery(key).joined => ~ListQuery(key)'.joined
  PROVE  DialogFits'
<1>1. allFindings' = allFindings
  BY SameFindings
<1>2. InList' => InList
  BY <1>1 DEF InList, dialog
<1>3. Agrees' <=> Agrees
  BY <1>1 DEF Agrees, dialog
<1>4. ASSUME InList, Ahead
      PROVE  Ahead'
  <2>1. Listed(idParam)
    BY <1>4, ListedRows DEF InList
  <2>2. PICK u \in 1 .. due : ListQuery(key).data < u /\ Later(idParam, u)
    BY <1>4 DEF Ahead
  <2>3. u \in 1 .. now /\ u \in 1 .. due'
    BY Numbers
  <2>4. Later(idParam, u)'
    BY <2>1, <2>2, <2>3 DEF TablesKept, Listed, Later, dialog
  <2>5. idParam' = idParam
    BY DEF dialog
  <2>6. ~ListQuery(key)'.joined
    BY <1>4, <2>1 DEF Ahead, allFindings, InList
  <2> QED
    BY <2>2, <2>3, <2>4, <2>5, <2>6 DEF Ahead, SameList
<1> QED
  BY <1>2, <1>3, <1>4 DEF DialogFits, dialog

LEMMA FollowFits ==
  ASSUME HistoryFits', QueriesFit', selected = None, FollowIdParam
  PROVE  DialogFits'
<1>1. CASE selected' = None
  BY <1>1, ClosedFits
<1>2. CASE selected' # None
  <2>1. selected' = Dialog(idParam', allFindings'[idParam'])
    BY <1>2 DEF FollowIdParam, dialog
  <2> QED
    BY <2>1, OpenedFits
<1> QED
  BY <1>1, <1>2

-----------------------------------------------------------------------------
(* Steps that ask nothing and are not answered.                            *)

LEMMA HistoryStays ==
  ASSUME HistoryFits, UNCHANGED history, due' \in 1 .. now
  PROVE  HistoryFits'
BY DEF HistoryFits, now, Stamped

LEMMA UpdateStays ==
  ASSUME HistoryFits, UpdateFits, TablesKept, UNCHANGED update
  PROVE  UpdateFits'
<1> SUFFICES ASSUME update # None
             PROVE  UpdateFits'
  BY DEF UpdateFits
<1>1. now \in Nat /\ now' \in Nat /\ now' >= now
  BY Numbers DEF TablesKept
<1>2. update.table \in 0 .. now
  BY DEF UpdateFits
<1>3. ASSUME update.at = "done", update.finding \in Findings
      PROVE  Later(update.finding, update.table)'
  <2>1. update.table \in 1 .. now /\ Later(update.finding, update.table)
    BY <1>2, <1>3 DEF UpdateFits
  <2> QED
    BY <1>3, <2>1 DEF TablesKept, Later
<1> QED
  BY <1>1, <1>2, <1>3 DEF UpdateFits

LEMMA QueriesStay ==
  ASSUME HistoryFits, QueriesFit, TablesKept, UNCHANGED queries
  PROVE  QueriesFit'
<1>1. CASE now' = now
  BY <1>1 DEF QueriesFit, queries
<1>2. CASE now' = now + 1
  BY <1>2, Numbers, FitsLater DEF QueriesFit, queries
<1> QED
  BY <1>1, <1>2 DEF TablesKept

LEMMA QuietKeeps ==
  ASSUME IInv, HistoryFits', TablesKept, UpdateFits',
         UNCHANGED <<queries, account, filters, settings, dialog>>
  PROVE  IInv'
<1>1. QueriesFit'
  BY QueriesStay DEF IInv
<1>2. ListQuery(key)' = ListQuery(key)
  BY DEF ListQuery, key, queries
<1>3. SameList
  BY <1>2 DEF SameList
<1>4. due' \in Nat /\ due' >= due
  BY Numbers DEF queries, IInv
<1>5. DialogFits'
  BY <1>2, <1>3, <1>4, DialogStays DEF IInv
<1> QED
  BY <1>1, <1>5 DEF IInv

LEMMA IdleKeeps ==
  ASSUME IInv, UNCHANGED <<history, queries, update, account, filters, settings, dialog>>
  PROVE  IInv'
<1>1. TablesKept
  BY SameTables DEF IInv
<1>2. HistoryFits'
  BY HistoryStays, Numbers DEF IInv, queries
<1>3. UpdateFits'
  BY <1>1, UpdateStays DEF IInv
<1> QED
  BY <1>1, <1>2, <1>3, QuietKeeps

LEMMA WriteKeeps ==
  ASSUME IInv, NEW next, Writes(next), Write(next)
  PROVE  IInv'
<1>1. HistoryFits' /\ TablesKept
  BY AppendExtends, OneTableMore DEF IInv, Write, queries
<1>2. UpdateFits'
  BY <1>1, UpdateStays DEF IInv, Write
<1> QED
  BY <1>1, <1>2, QuietKeeps DEF Write, page

LEMMA OpenKeeps ==
  ASSUME IInv, HandleSelectFinding
  PROVE  IInv'
<1>1. UNCHANGED <<history, queries, update, account, filters, settings>>
  BY DEF HandleSelectFinding, page
<1>2. TablesKept /\ HistoryFits'
  BY <1>1, SameTables, HistoryStays, Numbers DEF IInv, queries
<1>3. UpdateFits' /\ QueriesFit'
  BY <1>1, <1>2, UpdateStays, QueriesStay DEF IInv
<1>4. allFindings' = allFindings
  <2>1. ListQuery(key)' = ListQuery(key)
    BY <1>1 DEF ListQuery, key, queries
  <2> QED
    BY <1>1, <1>2, <2>1, SameFindings DEF IInv, SameList
<1>5. selected' = Dialog(idParam', allFindings'[idParam'])
  BY <1>4 DEF HandleSelectFinding
<1> QED
  BY <1>2, <1>3, <1>5, OpenedFits DEF IInv

LEMMA CloseKeeps ==
  ASSUME IInv, HandleCloseModal
  PROVE  IInv'
<1>1. UNCHANGED <<history, queries, update>>
  BY DEF HandleCloseModal
<1>2. TablesKept /\ HistoryFits'
  BY <1>1, SameTables, HistoryStays, Numbers DEF IInv, queries
<1>3. UpdateFits' /\ QueriesFit'
  BY <1>1, <1>2, UpdateStays, QueriesStay DEF IInv
<1> QED
  BY <1>2, <1>3, ClosedFits DEF IInv, HandleCloseModal, NoDialog

-----------------------------------------------------------------------------
(* Updates on their way.                                                   *)

LEMMA HandleUpdateStatusKeeps ==
  ASSUME IInv, HandleUpdateStatus
  PROVE  IInv'
<1>1. UNCHANGED <<history, queries, account, filters, settings, dialog>>
  BY DEF HandleUpdateStatus, page
<1>2. TablesKept /\ HistoryFits'
  BY <1>1, SameTables, HistoryStays, Numbers DEF IInv, queries
<1>3. now' \in Nat
  BY <1>2, Numbers DEF TablesKept, IInv
<1>4. UpdateFits'
  BY <1>3 DEF HandleUpdateStatus, UpdateFits
<1> QED
  BY <1>1, <1>2, <1>4, QuietKeeps

LEMMA UpdateEndsKeep ==
  ASSUME IInv, UpdateIsLost \/ UpdateFails
  PROVE  IInv'
<1>1. UNCHANGED <<history, queries, account, filters, settings, dialog>>
  BY DEF UpdateIsLost, UpdateFails, page
<1>2. TablesKept /\ HistoryFits'
  BY <1>1, SameTables, HistoryStays, Numbers DEF IInv, queries
<1>3. now' = now
  BY <1>1 DEF now
<1>4. UpdateFits'
  BY <1>3 DEF UpdateIsLost, UpdateFails, UpdateFits, IInv
<1> QED
  BY <1>1, <1>2, <1>4, QuietKeeps

LEMMA UpdateIsWrittenKeeps ==
  ASSUME IInv, UpdateIsWritten
  PROVE  IInv'
<1> PICK f : f = update.finding
  OBVIOUS
<1> PICK u : u = now + 1
  OBVIOUS
<1> DEFINE next == UpdateFinding(rows, f, update.status, u)
<1>1. UNCHANGED <<queries, account, filters, settings, dialog>>
  BY DEF UpdateIsWritten, page
<1>2. update # None /\ update.status \in Statuses /\ now \in Nat \ {0}
  BY Numbers DEF UpdateIsWritten, UpdateFits, IInv
<1>3. CASE rows[f] = None
  <2>1. UNCHANGED history
    BY <1>3 DEF UpdateIsWritten
  <2>2. TablesKept /\ HistoryFits'
    BY <1>1, <2>1, SameTables, HistoryStays, Numbers DEF IInv, queries
  <2>3. now' = now
    BY <2>1 DEF now
  <2>4. UpdateFits'
    BY <1>3, <2>3 DEF UpdateIsWritten, UpdateFits, IInv
  <2> QED
    BY <1>1, <2>2, <2>4, QuietKeeps
<1>4. CASE rows[f] # None
  <2>1. /\ Writes(next)
        /\ f \in Findings => next[f].updatedAt = u
    BY <1>2, <1>4, UpdateWrites DEF IInv
  <2>2. Extends(next)
    BY <1>4, <2>1, AppendExtends DEF UpdateIsWritten, IInv
  <2>3. TablesKept /\ HistoryFits'
    BY <1>1, <2>1, <2>2, OneTableMore DEF IInv, queries
  <2>4. update' = [finding |-> f, status |-> update.status, at |-> "done", table |-> u]
    <3>1. update' = [update EXCEPT !.at = "done", !.table = u]
      BY <1>4 DEF UpdateIsWritten
    <3>2. update = [finding |-> f, status |-> update.status, at |-> update.at,
                    table |-> update.table]
      BY <1>2 DEF UpdateFits, IInv
    <3> QED
      BY <3>1, <3>2
  <2>5. now' = u /\ u \in Nat \ {0}
    BY <1>2, <2>2 DEF Extends
  <2>6. f \in Findings => Later(f, u)'
    BY <2>1, <2>2, <2>5 DEF Later, Extends
  <2>7. update'.finding \in Findings => (Later(update.finding, update.table))'
    BY <2>4, <2>6 DEF Later
  <2>8. UpdateFits'
    BY <1>2, <2>4, <2>5, <2>7 DEF UpdateFits
  <2> QED
    BY <1>1, <2>3, <2>8, QuietKeeps
<1> QED
  BY <1>3, <1>4

-----------------------------------------------------------------------------
(* Clicks.                                                                 *)

\* What clicks, requests and answers leave alone.
Outside ==
  /\ HistoryFits' /\ TablesKept /\ UpdateFits'
  /\ now' = now

LEMMA OutsideStays ==
  ASSUME IInv, UNCHANGED <<history, update>>, due' \in 1 .. now
  PROVE  Outside
BY SameTables, HistoryStays, UpdateStays DEF Outside, IInv, now

LEMMA SetFiltersKeeps ==
  ASSUME IInv, selected = None, NEW next, NEW text, SetFilters(next, text)
  PROVE  IInv'
<1> DEFINE k == <<account, next>>
           q == Observe(ListQuery(k), FALSE)
<1>1. UNCHANGED <<history, update, due, stats>>
  BY DEF SetFilters, Click
<1>2. Outside
  BY <1>1, OutsideStays, Numbers DEF IInv
<1>3. ListFits(q, now, due)
  BY ListQueryFits, ObserveFits, Numbers DEF ListFits, IInv
<1>4. \A j \in DOMAIN list' : ListFits(list'[j], now, due)
  BY <1>3, WithQueryFits DEF SetFilters, IInv
<1>5. QueriesFit'
  BY <1>1, <1>2, <1>4 DEF QueriesFit, Outside, IInv
<1>6. DialogFits'
  BY <1>2, <1>5, FollowFits DEF SetFilters, Outside
<1> QED
  BY <1>2, <1>5, <1>6 DEF Outside, IInv

LEMMA SetSettingsKeeps ==
  ASSUME IInv, selected = None, NEW next, SetSettings(next)
  PROVE  IInv'
<1>1. UNCHANGED <<history, update, queries>>
  BY DEF SetSettings, Click, queries
<1>2. Outside
  BY <1>1, OutsideStays, Numbers DEF IInv, queries
<1>3. QueriesFit'
  BY <1>1, <1>2, QueriesStay DEF Outside, IInv
<1>4. DialogFits'
  BY <1>2, <1>3, FollowFits DEF SetSettings, Outside
<1> QED
  BY <1>2, <1>3, <1>4 DEF Outside, IInv

LEMMA MountKeeps ==
  ASSUME IInv, NEW a, NEW next, NEW id, NEW turned, NEW hide, Mount(a, next, id, turned, hide)
  PROVE  IInv'
<1> DEFINE k == <<a, next>>
<1>1. UNCHANGED <<history, update, due>>
  BY DEF Mount, Click
<1>2. Outside
  BY <1>1, OutsideStays, Numbers DEF IInv
<1>3. PICK old \in BOOLEAN :
        /\ list' = WithQuery(k, Observe(ListQuery(k), old))
        /\ stats' = [stats EXCEPT ![a] = Observe(@, old)]
  BY DEF Mount
<1>4. ListFits(Observe(ListQuery(k), old), now, due)
  BY ListQueryFits, ObserveFits, Numbers DEF ListFits, IInv
<1>5. \A j \in DOMAIN list' : ListFits(list'[j], now, due)
  BY <1>3, <1>4, WithQueryFits DEF IInv
<1>6. \A p \in DOMAIN stats : CountsFit(Observe(stats[p], old), now, due)
  BY ObserveFits, Numbers DEF CountsFit, QueriesFit, IInv
<1>7. QueriesFit'
  BY <1>1, <1>2, <1>3, <1>5, <1>6 DEF QueriesFit, Outside, IInv
<1>8. selected' = None \/ selected' = Dialog(idParam', allFindings'[idParam'])
  BY DEF Mount
<1> QED
  BY <1>2, <1>7, <1>8, ClosedFits, OpenedFits DEF Outside, IInv

-----------------------------------------------------------------------------
(* Asking again.                                                           *)

LEMMA InvalidateView ==
  ASSUME HistoryFits, QueriesFit, InvalidateAll, UNCHANGED <<account, filters, settings>>
  PROVE  /\ SameList
         /\ ListQuery(key).data # None => ~ListQuery(key)'.joined
<1>1. key' = key /\ DOMAIN list' = DOMAIN list
  BY DEF key, InvalidateAll
<1>2. CASE key \in DOMAIN list
  <2>1. ListQuery(key) = list[key] /\ ListQuery(key)' = Invalidate(list[key], TRUE)
    BY <1>1, <1>2 DEF ListQuery, InvalidateAll
  <2>2. list[key] \in Queries((1 .. now) \cup {None}, 0 .. now) /\ now \in 0 .. now
    BY <1>2, Numbers DEF QueriesFit, ListFits, Fits
  <2>3. /\ Invalidate(list[key], TRUE).data = list[key].data
        /\ list[key].data # None => ~Invalidate(list[key], TRUE).joined
    BY <2>2, InvalidatedInView
  <2> QED
    BY <2>1, <2>3 DEF SameList
<1>3. CASE key \notin DOMAIN list
  BY <1>1, <1>3 DEF ListQuery, NoQuery, SameList
<1> QED
  BY <1>2, <1>3

LEMMA HandleRefreshKeeps ==
  ASSUME IInv, HandleRefresh
  PROVE  IInv'
<1>1. Outside
  BY OutsideStays, Numbers DEF HandleRefresh, IInv
<1>2. QueriesFit'
  BY InvalidateAllFits, Numbers DEF HandleRefresh, IInv
<1>3. DialogFits'
  BY ClosedFits DEF HandleRefresh, dialog
<1> QED
  BY <1>1, <1>2, <1>3 DEF Outside, IInv

LEMMA NoticeScanKeeps ==
  ASSUME IInv, NoticeScan
  PROVE  IInv'
<1>1. UNCHANGED <<history, update, account, filters, settings, dialog>>
  BY DEF NoticeScan, page
<1>2. CASE scan = "ended"
  <2>1. due' = now /\ InvalidateAll
    BY <1>2 DEF NoticeScan
  <2>2. now \in Nat \ {0} /\ due \in 1 .. now
    BY Numbers DEF IInv
  <2>3. Outside
    BY <1>1, <2>1, <2>2, OutsideStays
  <2>4. QueriesFit'
    BY <1>1, <2>1, <2>2, InvalidateAllFits DEF IInv
  <2>5. DialogFits'
    BY <1>1, <2>1, <2>2, <2>3, InvalidateView, DialogStays DEF Outside, IInv
  <2> QED
    BY <2>3, <2>4, <2>5 DEF Outside, IInv
<1>3. CASE scan # "ended"
  BY <1>1, <1>3, IdleKeeps DEF NoticeScan, queries
<1> QED
  BY <1>2, <1>3

LEMMA UpdateSucceedsKeeps ==
  ASSUME IInv, UpdateSucceeds
  PROVE  IInv'
<1>1. UNCHANGED <<history, account, filters, settings>>
  BY DEF UpdateSucceeds, page
<1>2. PICK u, f, s : update = [finding |-> f, status |-> s, at |-> "done", table |-> u]
  BY DEF UpdateSucceeds, UpdateFits, IInv
<1>3. /\ s \in Statuses /\ u \in 1 .. now
      /\ f \in Findings => Later(f, u)
  BY <1>2, Numbers DEF UpdateSucceeds, UpdateFits, IInv, Later
<1>4. due' \in 1 .. now /\ due' >= due /\ due' >= u
  BY <1>2, <1>3, Numbers DEF UpdateSucceeds, IInv
<1>5. HistoryFits' /\ TablesKept /\ now' = now
  BY <1>1, <1>4, HistoryStays, SameTables DEF IInv, now
<1>6. UpdateFits'
  BY DEF UpdateSucceeds, UpdateFits
<1>7. QueriesFit'
  BY <1>1, <1>4, InvalidateAllFits DEF UpdateSucceeds, IInv
<1>8. CASE s = "resolved" \/ selected = None
  BY <1>2, <1>5, <1>6, <1>7, <1>8, ClosedFits DEF UpdateSucceeds, NoDialog, IInv
<1>9. CASE s # "resolved" /\ selected # None
  <2>1. /\ selected' = [selected EXCEPT !.row.status = s]
        /\ strayed' = (strayed \/ Strays)
        /\ idParam' = idParam
    BY <1>2, <1>9 DEF UpdateSucceeds
  <2>2. selected = Dialog(selected.finding, selected.row)
    BY <1>9 DEF DialogFits, IInv
  <2>3. selected' = Dialog(selected.finding, [selected.row EXCEPT !.status = s])
    BY <2>1, <2>2 DEF Dialog
  <2>4. allFindings' = allFindings /\ SameList
    BY <1>1, <1>5, InvalidateView, SameFindings DEF UpdateSucceeds, IInv
  <2>5. ASSUME InList'
        PROVE  selected'.row \in Rows /\ Ahead'
    <3>0. ~strayed /\ ~Strays
      BY <2>1, <2>5, Zenon DEF InList
    <3>1. InList /\ ~Strays /\ idParam = f
      BY <1>2, <1>9, <2>1, <2>3, <2>4, <2>5, <3>0 DEF InList, Dialog, Strays
    <3>2. Listed(idParam)
      BY <3>1, ListedRows DEF InList, IInv
    <3>3. selected.row \in Rows
      BY <3>1 DEF DialogFits, IInv
    <3>4. selected'.row \in Rows
      BY <1>3, <2>3, <3>3 DEF Dialog, Rows
    <3>5. ListQuery(key).data # None /\ ListQuery(key).data < u
      BY <1>2, <1>3, <3>1, <3>2, Numbers DEF Strays, Listed, allFindings, InList, IInv
    <3>6. ~ListQuery(key)'.joined
      BY <1>1, <3>5, InvalidateView DEF UpdateSucceeds, IInv
    <3>7. Later(f, u)'
      BY <1>3, <1>5, <3>1, <3>2 DEF TablesKept, Listed
    <3>8. Later(idParam, u)'
      BY <2>1, <3>1, <3>7 DEF Later
    <3>9. u \in 1 .. due'
      BY <1>3, <1>4
    <3> QED
      BY <2>4, <3>4, <3>5, <3>6, <3>8, <3>9 DEF Ahead, SameList
  <2>6. DialogFits'
    BY <2>3, <2>5 DEF DialogFits, Dialog
  <2> QED
    BY <1>5, <1>6, <1>7, <2>6 DEF IInv
<1> QED
  BY <1>8, <1>9

-----------------------------------------------------------------------------
(* Requests and answers.                                                   *)

LEMMA PollKeeps ==
  ASSUME IInv, Poll
  PROVE  IInv'
<1>1. UNCHANGED <<history, update, due, stats, account, filters, settings, dialog>>
  BY DEF Poll, page
<1>2. Outside
  BY <1>1, OutsideStays, Numbers DEF IInv
<1>3. /\ ListQuery(key) \in Queries((1 .. now) \cup {None}, 0 .. now)
      /\ now \in Nat \ {0} /\ now \in 0 .. now /\ due \in 1 .. now
  <2>1. ListQuery(key) \in Queries((1 .. now) \cup {None}, 0 .. now)
    BY ListQueryFits DEF ListFits, Fits, IInv
  <2>2. now \in Nat \ {0} /\ due \in 1 .. now
    BY Numbers DEF IInv
  <2> QED
    BY <2>1, <2>2
<1>4. ListFits(Fetch(ListQuery(key)), now, due)
  BY <1>3, FetchFits DEF ListFits
<1>5. \A j \in DOMAIN list' : ListFits(list'[j], now, due)
  BY <1>4, WithQueryFits DEF Poll, IInv
<1>6. QueriesFit'
  BY <1>1, <1>2, <1>5 DEF QueriesFit, Outside, IInv
<1>7. ListQuery(key)' = Fetch(ListQuery(key))
  BY <1>1 DEF Poll, ListQuery, WithQuery, key
<1>8. SameList /\ ~ListQuery(key)'.joined
  BY <1>1, <1>3, <1>7, Fetched DEF SameList
<1>9. DialogFits'
  BY <1>1, <1>2, <1>3, <1>8, DialogStays DEF Outside, IInv
<1> QED
  BY <1>2, <1>6, <1>9 DEF Outside, IInv

\* A request that failed, or was answered with the counts.
LEMMA SameAnswerKeeps ==
  ASSUME IInv, UNCHANGED <<history, update, due, account, filters, settings, dialog>>,
         QueriesFit', ListQuery(key)'.data = ListQuery(key).data,
         ListQuery(key)'.joined = ListQuery(key).joined
  PROVE  IInv'
<1>1. Outside
  BY OutsideStays, Numbers DEF IInv
<1>2. DialogFits'
  BY <1>1, DialogStays, Numbers DEF SameList, Outside, IInv
<1> QED
  BY <1>1, <1>2 DEF Outside, IInv

LEMMA ListFails ==
  ASSUME IInv, NEW k \in DOMAIN list, list' = [list EXCEPT ![k] = Failed(@)],
         UNCHANGED <<history, stats, due, account, filters>>
  PROVE  /\ QueriesFit'
         /\ ListQuery(key)'.data = ListQuery(key).data
         /\ ListQuery(key)'.joined = ListQuery(key).joined
<1>1. now' = now /\ now \in Nat \ {0} /\ due \in 1 .. now
  BY Numbers DEF now, IInv
<1>2. ListFits(Failed(list[k]), now, due)
  BY <1>1, FailedFits DEF QueriesFit, ListFits, IInv
<1>3. QueriesFit'
  BY <1>1, <1>2 DEF QueriesFit, IInv
<1>4. list[k] \in Queries((1 .. now) \cup {None}, 0 .. now)
  BY DEF QueriesFit, ListFits, Fits, IInv
<1>5. 0 \in 0 .. now /\ now \in 0 .. now
  BY <1>1
<1>6. Failed(list[k]).data = list[k].data /\ Failed(list[k]).joined = list[k].joined
  BY <1>4, <1>5, AfterFailure
<1> QED
  BY <1>3, <1>6 DEF ListQuery, key

LEMMA StatsFail ==
  ASSUME IInv, NEW a \in DOMAIN stats, stats' = [stats EXCEPT ![a] = Failed(@)],
         UNCHANGED <<history, list, due>>
  PROVE  QueriesFit'
<1>1. now' = now /\ now \in Nat \ {0} /\ due \in 1 .. now
  BY Numbers DEF now, IInv
<1>2. CountsFit(Failed(stats[a]), now, due)
  BY <1>1, FailedFits DEF QueriesFit, CountsFit, IInv
<1> QED
  BY <1>1, <1>2 DEF QueriesFit, IInv

LEMMA RequestFailsKeeps ==
  ASSUME IInv, RequestFails
  PROVE  IInv'
<1>1. UNCHANGED <<history, update, due, account, filters, settings, dialog>>
  BY DEF RequestFails, page
<1>2. ASSUME NEW k \in DOMAIN list, list' = [list EXCEPT ![k] = Failed(@)], UNCHANGED stats
      PROVE  IInv'
  BY <1>1, <1>2, ListFails, SameAnswerKeeps
<1>3. ASSUME NEW a \in DOMAIN stats, stats' = [stats EXCEPT ![a] = Failed(@)], UNCHANGED list
      PROVE  IInv'
  <2>1. QueriesFit'
    BY <1>1, <1>3, StatsFail
  <2>2. ListQuery(key)' = ListQuery(key)
    BY <1>1, <1>3 DEF ListQuery, key
  <2> QED
    BY <1>1, <2>1, <2>2, SameAnswerKeeps
<1> QED
  BY <1>2, <1>3 DEF RequestFails

\* While the page shows the same findings, nothing is shown anew.
LEMMA NotFollowed ==
  ASSUME IInv, UNCHANGED <<history, account, filters, settings>>,
         ListQuery(key)'.data = ListQuery(key).data, FollowIdParam
  PROVE  UNCHANGED dialog
<1>1. allFindings' = allFindings
  BY SameTables, SameFindings DEF SameList, IInv
<1> QED
  BY <1>1 DEF FollowIdParam

LEMMA StatsAnswerKeeps ==
  ASSUME IInv, NEW a \in DOMAIN stats, StatsAnswer(a)
  PROVE  IInv'
<1>1. UNCHANGED <<history, update, due, list, account, filters, settings>>
  BY DEF StatsAnswer, page
<1>2. now' = now /\ now \in Nat \ {0} /\ due \in 1 .. now
  BY <1>1, Numbers DEF now, IInv
<1>3. PICK t \in [Counts -> stats[a].from .. now] : stats' = [stats EXCEPT ![a] = Answered(@, t)]
  BY DEF StatsAnswer
<1>4. /\ CountsFit(stats[a], now, due) /\ Fetching(stats[a])
      /\ stats[a].from \in 0 .. now /\ stats[a].from # 0
  BY DEF StatsAnswer, QueriesFit, CountsFit, Fits, Queries, Fetching, IInv
<1>5. /\ t \in [Counts -> 1 .. now]
      /\ stats[a].from >= due => t \in [Counts -> due .. now]
  BY <1>2, <1>4
<1>6. CountsFit(Answered(stats[a], t), now, due)
  BY <1>2, <1>4, <1>5, AnsweredFits DEF CountsFit
<1>7. QueriesFit'
  BY <1>1, <1>2, <1>3, <1>6 DEF QueriesFit, IInv
<1>8. ListQuery(key)' = ListQuery(key)
  BY <1>1 DEF ListQuery, key
<1>9. UNCHANGED dialog
  BY <1>1, <1>8, NotFollowed DEF StatsAnswer
<1> QED
  BY <1>1, <1>7, <1>8, <1>9, SameAnswerKeeps

\* An answer that has heard of the update which the dialog is ahead by brings
\* another row, which the dialog then shows.
LEMMA ListAnswersKeeps ==
  ASSUME IInv, NEW k \in DOMAIN list, ListAnswers(k)
  PROVE  IInv'
<1>1. UNCHANGED <<history, update, due, stats, account, filters, settings>> /\ FollowIdParam
  BY DEF ListAnswers, page
<1>2. now' = now /\ now \in Nat \ {0} /\ due \in 1 .. now
  BY <1>1, Numbers DEF now, IInv
<1>3. CASE ~Accepted(k[2])
  <2>1. list' = [list EXCEPT ![k] = Failed(@)]
    BY <1>3 DEF ListAnswers
  <2>2. /\ QueriesFit'
        /\ ListQuery(key)'.data = ListQuery(key).data
        /\ ListQuery(key)'.joined = ListQuery(key).joined
    BY <1>1, <2>1, ListFails
  <2> QED
    BY <1>1, <2>2, NotFollowed, SameAnswerKeeps
<1>4. CASE Accepted(k[2])
  <2>1. PICK t \in list[k].from .. now : list' = [list EXCEPT ![k] = Answered(@, t)]
    BY <1>4 DEF ListAnswers
  <2>2. /\ ListFits(list[k], now, due) /\ Fetching(list[k])
        /\ list[k] \in Queries((1 .. now) \cup {None}, 0 .. now)
        /\ list[k].from \in 0 .. now /\ list[k].from # 0
    BY DEF ListAnswers, QueriesFit, ListFits, Fits, Queries, Fetching, IInv
  <2>3. t \in 1 .. now /\ (list[k].from >= due => t \in due .. now)
    BY <1>2, <2>2
  <2>4. ListFits(Answered(list[k], t), now, due)
    BY <1>2, <2>2, <2>3, AnsweredFits DEF ListFits
  <2>5. QueriesFit'
    BY <1>1, <1>2, <2>1, <2>4 DEF QueriesFit, IInv
  <2>6. CASE k # key
    <3>1. ListQuery(key)' = ListQuery(key)
      BY <1>1, <2>1, <2>6 DEF ListQuery, key
    <3> QED
      BY <1>1, <2>5, <3>1, NotFollowed, SameAnswerKeeps
  <2>7. CASE k = key
    <3>1. Outside
      BY <1>1, <1>2, OutsideStays
    <3>2. ListQuery(key) = list[k] /\ ListQuery(key)' = Answered(list[k], t)
      BY <1>1, <2>1, <2>7 DEF ListQuery, key
    <3>3. ListQuery(key)'.data = t /\ ListQuery(key)'.joined = ListQuery(key).joined
      <4>1. 0 \in 0 .. now /\ t \in (1 .. now) \cup {None}
        BY <1>2, <2>3
      <4>2. list[k] \in Queries((1 .. now) \cup {None}, 0 .. now)
        BY <2>2
      <4>3. Answered(list[k], t).data = t /\ Answered(list[k], t).joined = list[k].joined
        BY <1>2, <4>1, <4>2, AfterAnswer
      <4> QED
        BY <3>2, <4>3
    <3>4. CASE selected' = Dialog(idParam', allFindings'[idParam'])
      <4>1. HistoryFits'
        BY <3>1 DEF Outside
      <4>2. DialogFits'
        BY <2>5, <3>4, <4>1, OpenedFits
      <4> QED
        BY <2>5, <3>1, <4>2 DEF Outside, IInv
    <3>5. CASE selected' # Dialog(idParam', allFindings'[idParam'])
      <4>1. /\ UNCHANGED dialog
            /\ idParam = None \/ allFindings' = allFindings \/ idParam \notin DOMAIN allFindings'
        BY <1>1, <3>5 DEF FollowIdParam
      <4>2. ASSUME InList'
            PROVE  selected'.row \in Rows /\ Agrees'
        <5>1. (\A f \in DOMAIN allFindings : Listed(f))'
          BY <2>5, <3>1, ListedRows, PTL DEF Outside
        <5>2. Listed(idParam)' /\ idParam' = idParam /\ idParam \in DOMAIN allFindings'
          BY <4>1, <4>2, <5>1 DEF InList, dialog
        <5>3. idParam # None
          BY <5>2, FindingsApiAssumption DEF Listed
        <5>4. allFindings' = allFindings
          BY <4>1, <5>2, <5>3
        <5>5. InList
          BY <4>1, <4>2, <5>4 DEF InList, dialog
        <5>6. Listed(idParam)
          BY <5>5, ListedRows DEF InList, IInv
        <5>7. ASSUME Ahead
              PROVE  FALSE
          <6>1. PICK u \in 1 .. due : ListQuery(key).data < u /\ Later(idParam, u)
            BY <5>7 DEF Ahead
          <6>2. t \in u .. now
            BY <1>2, <2>2, <2>3, <3>2, <5>7, <6>1 DEF Ahead, ListFits, Fits, Knows
          <6>3. history[t][idParam] # None /\ allFindings[idParam] = history[t][idParam]
            BY <1>1, <3>3, <5>2, <5>4 DEF Listed
          <6>4. allFindings[idParam].updatedAt >= u
            BY <6>1, <6>2, <6>3 DEF Later
          <6>5. allFindings[idParam].updatedAt <= ListQuery(key).data
            BY <5>6 DEF Listed, HistoryFits, Stamped, IInv
          <6>6. /\ allFindings[idParam].updatedAt \in Nat
                /\ ListQuery(key).data \in Nat /\ u \in Nat
            BY <1>2, <5>6 DEF Listed, Rows
          <6> QED
            BY <6>1, <6>4, <6>5, <6>6
        <5> QED
          BY <4>1, <5>4, <5>5, <5>7 DEF DialogFits, Agrees, dialog, IInv
      <4>3. selected' # None => selected' = Dialog(selected'.finding, selected'.row)
        BY <4>1 DEF DialogFits, dialog, IInv
      <4>4. DialogFits'
        BY <4>2, <4>3 DEF DialogFits
      <4> QED
        BY <2>5, <3>1, <4>4 DEF Outside, IInv
    <3> QED
      BY <3>4, <3>5
  <2> QED
    BY <2>6, <2>7
<1> QED
  BY <1>3, <1>4

-----------------------------------------------------------------------------
(* The whole.                                                              *)

LEMMA InitHolds == Init => IInv
<1> SUFFICES ASSUME Init
             PROVE  IInv
  OBVIOUS
<1>1. PICK t \in Starts : history = <<t>>
  BY DEF Init
<1>2. t \in Tables /\ \A f \in Findings : t[f] # None => t[f].updatedAt = 1
  BY FindingsPageAssumption DEF Tables, Rows
<1>3. now = 1 /\ history[1] = t /\ history \in Seq(Tables) /\ due = 1
  BY <1>1, <1>2 DEF now, Init
<1>4. HistoryFits
  BY <1>2, <1>3 DEF HistoryFits, Stamped
<1>5. ASSUME NEW D, NEW N
      PROVE  Fits([NoQuery EXCEPT !.from = 1], D, N, 1, 1)
  BY AskedAtFirst DEF Fits, Knows, Fetching
<1>6. \A k \in DOMAIN list : ListFits(list[k], 1, 1)
  BY <1>5 DEF Init, ListFits
<1>7. \A a \in DOMAIN stats : CountsFit(stats[a], 1, 1)
  <2>1. CountsFit(NoQuery, 1, 1) /\ CountsFit([NoQuery EXCEPT !.from = 1], 1, 1)
    BY <1>5, NoQueryFits DEF CountsFit
  <2> QED
    BY <2>1 DEF Init, Unseen
<1>8. QueriesFit
  BY <1>3, <1>6, <1>7 DEF QueriesFit
<1>9. UpdateFits /\ DialogFits
  BY DEF Init, UpdateFits, DialogFits, InList
<1> QED
  BY <1>4, <1>8, <1>9 DEF IInv

LEMMA NextKeeps == IInv /\ [Next]_vars => IInv'
<1> SUFFICES ASSUME IInv, [Next]_vars
             PROVE  IInv'
  OBVIOUS
<1>1. CASE BarClick \/ CardClick \/ ClearFilters \/ Search
  <2>1. CASE Search
    BY <2>1, SetFiltersKeeps DEF Search, SetFilters, Click, MayClick
  <2> QED
    BY <1>1, <2>1, SetFiltersKeeps DEF BarClick, CardClick, ClearFilters, MayClick
<1>2. CASE ToggleNonTrivial \/ SettingsArrive
  <2>1. PICK next : SetSettings(next)
    BY <1>2 DEF ToggleNonTrivial, SettingsArrive
  <2>2. selected = None
    BY <2>1 DEF SetSettings, Click, MayClick
  <2> QED
    BY <2>1, <2>2, SetSettingsKeeps
<1>3. CASE \/ \E field \in SortFields : HandleSort(field)
           \/ \E size \in PageSizes \ {pageSize} : SetPageSize(size)
           \/ Turn \/ ScanStarts \/ ScanEnds \/ UNCHANGED vars
  <2>1. UNCHANGED <<history, queries, update, account, filters, settings, dialog>>
    BY <1>3 DEF HandleSort, SetPageSize, Turn, TurnPage, ScanStarts, ScanEnds, vars, Click,
      page, queries
  <2> QED
    BY <2>1, IdleKeeps
<1>4. CASE FollowLink \/ FollowFindingLink \/ SwitchAccount
  <2>1. PICK a, next, id, turned, hide : Mount(a, next, id, turned, hide)
    BY <1>4 DEF FollowLink, FollowFindingLink, SwitchAccount
  <2> QED
    BY <2>1, MountKeeps
<1>5. CASE ScanWrites \/ OthersWrite
  <2>1. PICK next : Writes(next) /\ Write(next)
    BY <1>5, OthersWriteTables DEF ScanWrites, OthersWrite, IInv
  <2> QED
    BY <2>1, WriteKeeps
<1>6. CASE HandleRefresh \/ HandleSelectFinding \/ HandleCloseModal \/ HandleUpdateStatus
  BY <1>6, HandleRefreshKeeps, OpenKeeps, CloseKeeps, HandleUpdateStatusKeeps
<1>7. CASE UpdateIsWritten \/ UpdateIsLost \/ UpdateSucceeds \/ UpdateFails
  BY <1>7, UpdateIsWrittenKeeps, UpdateEndsKeep, UpdateSucceedsKeeps
<1>8. CASE Poll \/ RequestFails \/ NoticeScan
  BY <1>8, PollKeeps, RequestFailsKeeps, NoticeScanKeeps
<1>9. CASE \/ \E k \in DOMAIN list : ListAnswers(k)
           \/ \E a \in DOMAIN stats : StatsAnswer(a)
  BY <1>9, ListAnswersKeeps, StatsAnswerKeeps
<1> QED
  BY <1>1, <1>2, <1>3, <1>4, <1>5, <1>6, <1>7, <1>8, <1>9 DEF Next

LEMMA PageInvariant == Spec => []IInv
BY InitHolds, NextKeeps, PTL DEF Spec

\* Once an update was acknowledged or a scan noticed, what stays on the page
\* is no older, however requests, updates, scans and clicks overlap.
THEOREM AcknowledgedStays == Spec => []AcknowledgedIsShown
<1>1. IInv => AcknowledgedIsShown
  <2> SUFFICES ASSUME IInv
               PROVE  AcknowledgedIsShown
    OBVIOUS
  <2>1. now \in Nat \ {0} /\ due \in 1 .. now
    BY Numbers DEF IInv
  <2>2. ASSUME NEW k \in DOMAIN list, Settled(list[k])
        PROVE  list[k].data >= due
    BY <2>1, <2>2 DEF IInv, QueriesFit, ListFits, Fits, Knows, Settled
  <2>3. ASSUME NEW a \in DOMAIN stats, Settled(stats[a]), NEW c \in Counts
        PROVE  stats[a].data[c] >= due
    <3>1. stats[a].data \in [Counts -> due .. now]
      BY <2>3 DEF IInv, QueriesFit, CountsFit, Fits, Knows, Settled
    <3> QED
      BY <2>1, <3>1
  <2> QED
    BY <2>2, <2>3 DEF AcknowledgedIsShown
<1> QED
  BY <1>1, PageInvariant, PTL

\* The dialog of a finding says what the list says, once nothing is under
\* way: an update is not undone by an answer that was on its way.
THEOREM DialogStaysTrue == Spec => []DialogIsTrue
<1>1. IInv => DialogIsTrue
  <2> SUFFICES ASSUME IInv, InList, Settled(ListQuery(key))
               PROVE  Agrees
    BY DEF DialogIsTrue, InList, Agrees
  <2>1. now \in Nat \ {0} /\ due \in 1 .. now
    BY Numbers DEF IInv
  <2>2. ListQuery(key).data \in due .. now
    BY ListQueryFits DEF IInv, ListFits, Fits, Knows, Settled
  <2>3. ~Ahead
    BY <2>1, <2>2 DEF Ahead
  <2> QED
    BY <2>3 DEF IInv, DialogFits
<1> QED
  BY <1>1, PageInvariant, PTL

(***************************************************************************)
(*                             The session                                 *)
(***************************************************************************)
-----------------------------------------------------------------------------
Promises == [kind : CallKinds, org : Orgs \cup {NoOrg}, at : Waits \cup {"idle", "sent"},
             sent : Ages, retry : BOOLEAN]
Tokens == [org : Orgs \cup {NoOrg}, age : Ages]
Refreshes == [at : {"none", "asked", "granted", "refused", "absent"},
              org : Orgs \cup {NoOrg}]

TypedCalls ==
  /\ call \in [Calls -> Promises]
  /\ isRefreshing \in BOOLEAN
  /\ owner \in Calls \cup {NoCall}
  /\ subscribers \subseteq Calls
  /\ refresh \in Refreshes

TypedRest ==
  /\ accessToken \in Tokens
  /\ currentOrgId \in Orgs \cup {NoOrg}
  /\ isAuthenticated \in BOOLEAN
  /\ org \in Orgs \cup {NoOrg}
  /\ checked \in BOOLEAN
  /\ cookie \in {"valid", "revoked", "none"}
  /\ member \in SUBSET (Orgs \cup {NoOrg})
  /\ faults \in Nat

(* getMe is only sent with a token that ensureAccessToken has found fresh, *)
(* and only data requests wait for one before they are sent.               *)
PromiseFits(p) ==
  /\ p.kind \in {"check", "me"} /\ p.at = "sent" => p.sent = "fresh"
  /\ p.at = "before" => p.kind = "data"
AllFit == \A c \in Calls : PromiseFits(call[c])

Core == TypedCalls /\ RefreshKnowsWaiters /\ AllFit
SessionInv == Core /\ TypedRest

---------------------------------------------------------------------------
(* What a step does to one promise.                                        *)

(* A promise that did not wait goes on without waiting.                    *)
LEMMA PutKeeps ==
  ASSUME Core, NEW c \in Calls, ~Waiting(c), NEW p \in Promises, PromiseFits(p),
         p.at \notin Waits, Put(c, p), UNCHANGED refreshing
  PROVE  Core'
<1>1. call' \in [Calls -> Promises] /\ call' = [call EXCEPT ![c] = p]
  BY DEF Core, TypedCalls, Put
<1>2. \A d \in Calls : call'[d] = IF d = c THEN p ELSE call[d]
  BY <1>1 DEF Core, TypedCalls
<1>3. TypedCalls'
  BY <1>1 DEF Core, TypedCalls, refreshing
<1>4. \A d \in Calls : Waiting(d)' <=> Waiting(d)
  BY <1>2 DEF Waiting
<1>5. {d \in Calls : Waiting(d)'} = {d \in Calls : Waiting(d)}
  BY <1>4
<1>6. RefreshKnowsWaiters'
  BY <1>5 DEF Core, RefreshKnowsWaiters, refreshing
<1>7. AllFit'
  BY <1>2 DEF Core, AllFit
<1> QED
  BY <1>3, <1>6, <1>7 DEF Core

(* A promise that did not wait asks for a token.                           *)
LEMMA WaitKeeps ==
  ASSUME Core, NEW c \in Calls, ~Waiting(c), NEW p \in Promises, PromiseFits(p),
         p.at \in Waits, NEW o \in Orgs \cup {NoOrg}, Put(c, p),
         DoRefreshToken(c, o)
  PROVE  Core'
<1>1. call' \in [Calls -> Promises] /\ call' = [call EXCEPT ![c] = p]
  BY DEF Core, TypedCalls, Put
<1>2. \A d \in Calls : call'[d] = IF d = c THEN p ELSE call[d]
  BY <1>1 DEF Core, TypedCalls
<1>3. TypedCalls'
  <2>1. CASE isRefreshing
    BY <1>1, <2>1 DEF Core, TypedCalls, DoRefreshToken
  <2>2. CASE ~isRefreshing
    <3>1. [at |-> "asked", org |-> o] \in Refreshes
      BY DEF Refreshes
    <3>2. refresh' \in Refreshes /\ isRefreshing' \in BOOLEAN
      BY <2>2, <3>1 DEF DoRefreshToken
    <3>3. owner' \in Calls \cup {NoCall} /\ subscribers' = subscribers
      BY <2>2 DEF DoRefreshToken
    <3> QED
      BY <1>1, <3>2, <3>3 DEF Core, TypedCalls
  <2> QED
    BY <2>1, <2>2
<1>4. \A d \in Calls : Waiting(d)' <=> (Waiting(d) \/ d = c)
  BY <1>2 DEF Waiting
<1>5. {d \in Calls : Waiting(d)'} = {d \in Calls : Waiting(d)} \cup {c}
  BY <1>4
<1>6. c # NoCall
  BY SessionAssumption
<1>7. RefreshKnowsWaiters'
  <2>1. CASE isRefreshing
    <3>1. /\ subscribers' = subscribers \cup {c}
          /\ UNCHANGED <<isRefreshing, owner, refresh>>
      BY <2>1 DEF DoRefreshToken
    <3>2. c # owner
      BY <1>6 DEF Core, RefreshKnowsWaiters
    <3> QED
      BY <3>1, <3>2, <1>5 DEF Core, RefreshKnowsWaiters
  <2>2. CASE ~isRefreshing
    <3>1. /\ isRefreshing' = TRUE /\ owner' = c /\ refresh'.at = "asked"
          /\ subscribers' = subscribers
      BY <2>2 DEF DoRefreshToken
    <3>2. owner = NoCall
      BY <2>2 DEF Core, RefreshKnowsWaiters
    <3>3. c \notin subscribers
      BY DEF Core, RefreshKnowsWaiters
    <3> QED
      BY <3>1, <3>2, <3>3, <1>5, <1>6 DEF Core, RefreshKnowsWaiters
  <2> QED
    BY <2>1, <2>2
<1>8. AllFit'
  BY <1>2 DEF Core, AllFit
<1> QED
  BY <1>3, <1>7, <1>8 DEF Core

LEMMA SentIsPromise ==
  ASSUME NEW p \in Promises, NEW t \in Tokens
  PROVE  /\ Sent(p, t) \in Promises
         /\ Sent(p, t).at = "sent" /\ Sent(p, t).sent = t.age
         /\ Sent(p, t).kind = p.kind
BY DEF Sent, Promises, Tokens, Waits

LEMMA NewIsPromise ==
  ASSUME NEW k \in CallKinds, NEW o \in Orgs \cup {NoOrg}
  PROVE  New(k, o) \in Promises /\ New(k, o).kind = k /\ New(k, o).at = "idle"
BY DEF New, Idle, Promises, CallKinds, Waits, Ages

LEMMA IdleIsPromise ==
  Idle \in Promises /\ PromiseFits(Idle) /\ Idle.at = "idle"
BY DEF Idle, Promises, CallKinds, Waits, Ages, PromiseFits

LEMMA RequestKeeps ==
  ASSUME SessionInv, NEW c \in Calls, ~Waiting(c), NEW p \in Promises,
         p.kind \notin {"check", "me"}, Request(c, p)
  PROVE  Core'
<1>1. CASE p.kind = "data" /\ ShouldRefreshToken
  <2> DEFINE q == [p EXCEPT !.at = "before"]
  <2>1. q \in Promises /\ q.at = "before" /\ q.kind = "data"
    BY <1>1 DEF Promises, Waits
  <2>2. PromiseFits(q) /\ q.at \in Waits
    BY <2>1 DEF PromiseFits, Waits
  <2>3. Put(c, q) /\ DoRefreshToken(c, currentOrgId)
    BY <1>1 DEF Request
  <2> QED
    BY <2>1, <2>2, <2>3, WaitKeeps DEF SessionInv, TypedRest
<1>2. CASE ~(p.kind = "data" /\ ShouldRefreshToken)
  <2>1. Put(c, Sent(p, accessToken)) /\ UNCHANGED refreshing
    BY <1>2 DEF Request
  <2>2. /\ Sent(p, accessToken) \in Promises /\ Sent(p, accessToken).at = "sent"
        /\ Sent(p, accessToken).kind = p.kind
    BY SentIsPromise DEF SessionInv, TypedRest
  <2>3. PromiseFits(Sent(p, accessToken)) /\ Sent(p, accessToken).at \notin Waits
    BY <2>2 DEF PromiseFits, Waits
  <2> QED
    BY <2>1, <2>2, <2>3, PutKeeps DEF SessionInv
<1> QED
  BY <1>1, <1>2

LEMMA EnsureKeeps ==
  ASSUME SessionInv, NEW c \in Calls, ~Waiting(c), NEW p \in Promises,
         NEW o \in Orgs \cup {NoOrg}, Ensure(c, p, o)
  PROVE  Core'
<1>1. CASE ShouldRefreshToken
  <2> DEFINE q == [p EXCEPT !.at = "ensure"]
  <2>1. q \in Promises /\ q.at = "ensure"
    BY DEF Promises, Waits
  <2>2. PromiseFits(q) /\ q.at \in Waits
    BY <2>1 DEF PromiseFits, Waits
  <2>3. Put(c, q) /\ DoRefreshToken(c, o)
    BY <1>1 DEF Ensure
  <2> QED
    BY <2>1, <2>2, <2>3, WaitKeeps DEF SessionInv
<1>2. CASE ~ShouldRefreshToken
  <2>1. Put(c, Sent(p, accessToken)) /\ UNCHANGED refreshing
    BY <1>2 DEF Ensure
  <2>2. /\ Sent(p, accessToken) \in Promises /\ Sent(p, accessToken).at = "sent"
        /\ Sent(p, accessToken).sent = "fresh"
    BY <1>2, SentIsPromise DEF SessionInv, TypedRest, ShouldRefreshToken
  <2>3. PromiseFits(Sent(p, accessToken)) /\ Sent(p, accessToken).at \notin Waits
    BY <2>2 DEF PromiseFits, Waits
  <2> QED
    BY <2>1, <2>2, <2>3, PutKeeps DEF SessionInv
<1> QED
  BY <1>1, <1>2

(* A promise that settles.                                                 *)
LEMMA SettleKeeps ==
  ASSUME Core, NEW c \in Calls, ~Waiting(c), Settle(c), UNCHANGED refreshing
  PROVE  Core'
<1>1. Put(c, Idle) /\ Idle.at \notin Waits
  BY IdleIsPromise DEF Settle, Put, Waits
<1> QED
  BY <1>1, IdleIsPromise, PutKeeps

(* The end of a refresh: whoever waited goes on, or gives up.              *)
LEMMA EndKeeps ==
  ASSUME Core, NEW t \in Tokens, EndRefresh,
         \/ /\ t.age = "fresh"
            /\ call' = [c \in Calls |-> IF c \in Resumes THEN Sent(call[c], t)
                                         ELSE call[c]]
         \/ call' = [c \in Calls |-> IF c \in Resumes THEN WithoutToken(call[c])
                                      ELSE call[c]]
  PROVE  Core'
<1>1. ASSUME NEW c \in Calls
      PROVE  /\ call'[c] \in Promises /\ PromiseFits(call'[c])
             /\ call'[c].at \notin Waits
  <2>1. call[c] \in Promises /\ PromiseFits(call[c])
    BY DEF Core, TypedCalls, AllFit
  <2>2. CASE c \notin Resumes
    <3>1. call'[c] = call[c]
      BY <2>2
    <3>2. ~Waiting(c)
      BY <2>2 DEF Resumes, Core, RefreshKnowsWaiters
    <3> QED
      BY <2>1, <3>1, <3>2 DEF Waiting
  <2>3. CASE c \in Resumes /\ t.age = "fresh" /\ call'[c] = Sent(call[c], t)
    <3>1. /\ Sent(call[c], t) \in Promises /\ Sent(call[c], t).at = "sent"
          /\ Sent(call[c], t).sent = "fresh"
      BY <2>1, <2>3, SentIsPromise
    <3> QED
      BY <2>3, <3>1 DEF PromiseFits, Waits
  <2>4. CASE c \in Resumes /\ call'[c] = WithoutToken(call[c])
    <3>1. CASE call[c].at = "before"
      <4>1. call'[c] = Sent(call[c], NoToken) /\ call[c].kind = "data"
        BY <2>1, <2>4, <3>1 DEF WithoutToken, PromiseFits
      <4>2. NoToken \in Tokens
        BY DEF NoToken, Tokens, Ages
      <4>3. /\ call'[c] \in Promises /\ call'[c].at = "sent"
            /\ call'[c].kind = "data"
        BY <2>1, <4>1, <4>2, SentIsPromise
      <4> QED
        BY <4>3 DEF PromiseFits, Waits
    <3>2. CASE call[c].at # "before"
      BY <2>4, <3>2, IdleIsPromise DEF WithoutToken, Waits
    <3> QED
      BY <3>1, <3>2
  <2> QED
    BY <2>2, <2>3, <2>4
<1>2. call' \in [Calls -> Promises]
  <2>1. call' = [c \in Calls |-> call'[c]]
    OBVIOUS
  <2> QED
    BY <1>1, <2>1
<1>3. TypedCalls'
  BY <1>2 DEF TypedCalls, EndRefresh, NoRefresh, Refreshes
<1>4. {c \in Calls : Waiting(c)'} = {}
  BY <1>1 DEF Waiting
<1>5. RefreshKnowsWaiters'
  BY <1>4, SessionAssumption DEF RefreshKnowsWaiters, EndRefresh, NoRefresh
<1>6. AllFit'
  BY <1>1 DEF AllFit
<1> QED
  BY <1>3, <1>5, <1>6 DEF Core

---------------------------------------------------------------------------
(* Every step.                                                             *)

LEMMA NotBusy ==
  ASSUME NEW c \in Calls, ~Busy(c)
  PROVE  ~Waiting(c)
BY DEF Busy, Waiting, Waits

LEMMA SentNotWaiting ==
  ASSUME NEW c \in Calls, call[c].at = "sent"
  PROVE  ~Waiting(c)
BY DEF Waiting, Waits

LEMMA StartKeeps ==
  ASSUME SessionInv, NEW c \in Calls, Start(c)
  PROVE  SessionInv'
<1>1. ASSUME ~Busy(c), NEW k \in CallKinds \ {"check", "me"}, NEW o \in Orgs \cup {NoOrg},
             Request(c, New(k, o)), UNCHANGED <<client, store, server>>
      PROVE  SessionInv'
  <2>1. Core'
    BY <1>1, NotBusy, NewIsPromise, RequestKeeps
  <2>2. TypedRest'
    BY <1>1 DEF SessionInv, TypedRest, client, store, server
  <2> QED
    BY <2>1, <2>2 DEF SessionInv
<1>2. CASE CallApi(c)
  BY <1>1, <1>2 DEF CallApi, CallKinds
<1>3. CASE \E o \in Orgs : SwitchOrg(c, o)
  BY <1>1, <1>3 DEF SwitchOrg, CallKinds
<1>4. CASE \E o \in Orgs : AcceptInvitation(c, o)
  BY <1>1, <1>4 DEF AcceptInvitation, CallKinds
<1>5. CASE Login(c)
  BY <1>1, <1>5 DEF Login, CallKinds
<1>6. CASE Logout(c)
  BY <1>1, <1>6 DEF Logout, CallKinds
<1>7. CASE CheckAuth(c)
  <2>1. ~Busy(c) /\ Ensure(c, New("check", NoOrg), org) /\ currentOrgId' = org
    BY <1>7 DEF CheckAuth
  <2>2. New("check", NoOrg) \in Promises /\ org \in Orgs \cup {NoOrg}
    BY NewIsPromise DEF CallKinds, SessionInv, TypedRest
  <2>3. Core'
    BY <2>1, <2>2, NotBusy, EnsureKeeps
  <2>4. TypedRest'
    BY <1>7, <2>1 DEF CheckAuth, SessionInv, TypedRest, store, server
  <2> QED
    BY <2>3, <2>4 DEF SessionInv
<1>8. CASE RefreshAuth(c)
  <2>1. ~Busy(c) /\ Ensure(c, New("me", NoOrg), currentOrgId)
    BY <1>8 DEF RefreshAuth
  <2>2. New("me", NoOrg) \in Promises /\ currentOrgId \in Orgs \cup {NoOrg}
    BY NewIsPromise DEF CallKinds, SessionInv, TypedRest
  <2>3. Core'
    BY <2>1, <2>2, NotBusy, EnsureKeeps
  <2>4. TypedRest'
    BY <1>8 DEF RefreshAuth, SessionInv, TypedRest, client, store, server
  <2> QED
    BY <2>3, <2>4 DEF SessionInv
<1> QED
  BY <1>2, <1>3, <1>4, <1>5, <1>6, <1>7, <1>8 DEF Start

LEMMA FreshTokenIsToken ==
  ASSUME NEW o \in Orgs \cup {NoOrg}
  PROVE  FreshToken(o) \in Tokens /\ FreshToken(o).age = "fresh"
BY DEF FreshToken, Tokens, Ages

LEMMA NoTokenIsToken == NoToken \in Tokens
BY DEF NoToken, Tokens, Ages

LEMMA FailsKeeps ==
  ASSUME SessionInv, NEW c \in Calls, call[c].at = "sent", Fails(c)
  PROVE  /\ Core'
         /\ accessToken' \in Tokens /\ currentOrgId' \in Orgs \cup {NoOrg}
         /\ isAuthenticated' \in BOOLEAN /\ checked' \in BOOLEAN
         /\ org' \in Orgs \cup {NoOrg}
<1>1. Settle(c) /\ UNCHANGED refreshing
  BY DEF Fails
<1>2. Core'
  BY <1>1, SentNotWaiting, SettleKeeps DEF SessionInv
<1>3. accessToken' \in Tokens /\ currentOrgId' \in Orgs \cup {NoOrg}
  BY NoTokenIsToken DEF Fails, SessionInv, TypedRest, client
<1>4. /\ isAuthenticated' \in BOOLEAN /\ checked' \in BOOLEAN
      /\ org' \in Orgs \cup {NoOrg}
  BY DEF Fails, GiveUpSession, SessionInv, TypedRest, store
<1> QED
  BY <1>2, <1>3, <1>4

LEMMA AnswerKeeps ==
  ASSUME SessionInv, NEW c \in Calls, Answer(c)
  PROVE  SessionInv'
<1>0. call[c] \in Promises
  BY DEF SessionInv, Core, TypedCalls
<1>o. call[c].org \in Orgs \cup {NoOrg}
  BY <1>0 DEF Promises
<1>1. CASE DataAnswered(c)
  <2>1. Core'
    BY <1>1, SentNotWaiting, SettleKeeps DEF DataAnswered, Admitted, SessionInv
  <2>2. TypedRest'
    BY <1>1 DEF DataAnswered, SessionInv, TypedRest, client, store, server
  <2> QED
    BY <2>1, <2>2 DEF SessionInv
<1>2. CASE Switched(c)
  <2>1. Core'
    BY <1>2, SentNotWaiting, SettleKeeps DEF Switched, Admitted, SessionInv
  <2>2. accessToken' \in Tokens
    BY <1>2, <1>o, FreshTokenIsToken DEF Switched
  <2>3. TypedRest'
    BY <1>2, <1>o, <2>2 DEF Switched, SessionInv, TypedRest, server
  <2> QED
    BY <2>1, <2>3 DEF SessionInv
<1>3. CASE Joined(c)
  <2>1. accessToken' \in Tokens /\ accessToken'.age = "fresh"
    BY <1>3, <1>o, FreshTokenIsToken DEF Joined
  <2>2. New("me", NoOrg) \in Promises
    BY NewIsPromise DEF CallKinds
  <2> DEFINE p == Sent(New("me", NoOrg), accessToken')
  <2>3. p \in Promises /\ p.at = "sent" /\ p.sent = "fresh"
    BY <2>1, <2>2, SentIsPromise
  <2>4. PromiseFits(p) /\ p.at \notin Waits
    BY <2>3 DEF PromiseFits, Waits
  <2>5. ~Waiting(c) /\ Put(c, p) /\ UNCHANGED refreshing
    BY <1>3, SentNotWaiting DEF Joined, Admitted
  <2>6. Core'
    <3> HIDE DEF p
    <3> QED
      BY <2>3, <2>4, <2>5, PutKeeps DEF SessionInv
  <2>7. member' \in SUBSET (Orgs \cup {NoOrg})
    BY <1>3, <1>o DEF Joined, SessionInv, TypedRest
  <2>8. TypedRest'
    BY <1>3, <2>1, <2>7 DEF Joined, SessionInv, TypedRest, store
  <2> QED
    BY <2>6, <2>8 DEF SessionInv
<1>4. CASE KnowsMe(c)
  <2>1. Core'
    BY <1>4, SentNotWaiting, SettleKeeps DEF KnowsMe, Admitted, SessionInv
  <2>2. org' \in Orgs \cup {NoOrg}
    BY <1>4 DEF KnowsMe, SessionInv, TypedRest
  <2>3. isAuthenticated' \in BOOLEAN /\ checked' \in BOOLEAN
    BY <1>4 DEF KnowsMe
  <2>4. TypedRest'
    BY <1>4, <2>2, <2>3 DEF KnowsMe, SessionInv, TypedRest, client, server
  <2> QED
    BY <2>1, <2>4 DEF SessionInv
<1>5. CASE LoggedIn(c)
  <2>1. Core'
    BY <1>5, SentNotWaiting, SettleKeeps DEF LoggedIn, Admitted, SessionInv
  <2>2. PICK o \in member : accessToken' = FreshToken(o) /\ currentOrgId' = o /\ org' = o
    BY <1>5 DEF LoggedIn
  <2>3. o \in Orgs \cup {NoOrg}
    BY DEF SessionInv, TypedRest
  <2>4. TypedRest'
    BY <1>5, <2>2, <2>3, FreshTokenIsToken DEF LoggedIn, SessionInv, TypedRest
  <2> QED
    BY <2>1, <2>4 DEF SessionInv
<1>6. CASE LoggedOut(c)
  <2>1. Core'
    BY <1>6, SentNotWaiting, SettleKeeps DEF LoggedOut, SessionInv
  <2>2. TypedRest'
    BY <1>6, NoTokenIsToken DEF LoggedOut, GiveUpSession, SessionInv, TypedRest
  <2> QED
    BY <2>1, <2>2 DEF SessionInv
<1>7. CASE RetryAfterRefresh(c)
  <2> DEFINE p == [call[c] EXCEPT !.at = "after", !.retry = TRUE]
  <2>1. p \in Promises /\ p.at = "after"
    BY <1>0 DEF Promises, Waits
  <2>2. PromiseFits(p) /\ p.at \in Waits
    BY <2>1 DEF PromiseFits, Waits
  <2>3. ~Waiting(c) /\ Put(c, p) /\ DoRefreshToken(c, currentOrgId)
    BY <1>7, SentNotWaiting DEF RetryAfterRefresh, Unauthorized
  <2>4. currentOrgId \in Orgs \cup {NoOrg}
    BY DEF SessionInv, TypedRest
  <2>5. Core'
    <3> HIDE DEF p
    <3> QED
      BY <2>1, <2>2, <2>3, <2>4, WaitKeeps DEF SessionInv
  <2>6. TypedRest'
    BY <1>7 DEF RetryAfterRefresh, SessionInv, TypedRest, client, store, server
  <2> QED
    BY <2>5, <2>6 DEF SessionInv
<1>8. CASE Rejected(c)
  <2>1. call[c].at = "sent" /\ Fails(c) /\ UNCHANGED server
    BY <1>8 DEF Rejected, Unauthorized
  <2> QED
    BY <2>1, FailsKeeps DEF SessionInv, TypedRest, server
<1>9. CASE AnswerLost(c)
  <2>1. call[c].at = "sent" /\ Fails(c) /\ faults' = faults + 1
    BY <1>9 DEF AnswerLost
  <2>2. member' \in SUBSET (Orgs \cup {NoOrg})
    BY <1>9, <1>o DEF AnswerLost, SessionInv, TypedRest
  <2>3. cookie' \in {"valid", "revoked", "none"}
    BY <1>9 DEF AnswerLost, SessionInv, TypedRest
  <2>4. faults' \in Nat
    BY <2>1 DEF SessionInv, TypedRest
  <2> QED
    BY <2>1, <2>2, <2>3, <2>4, FailsKeeps DEF SessionInv, TypedRest
<1> QED
  BY <1>1, <1>2, <1>3, <1>4, <1>5, <1>6, <1>7, <1>8, <1>9 DEF Answer

LEMMA RefreshKeeps ==
  ASSUME SessionInv, ServerRefreshes \/ AnswerRefresh
  PROVE  SessionInv'
<1>1. CASE ServerRefreshes
  <2>1. refresh \in Refreshes /\ refresh.at = "asked"
    BY <1>1 DEF ServerRefreshes, SessionInv, Core, TypedCalls
  <2>2. /\ refresh' \in Refreshes /\ refresh'.at # "none"
        /\ UNCHANGED <<call, client, isRefreshing, owner, subscribers, store, server>>
    <3>1. CASE cookie = "valid"
      <4>1. PICK o \in IF refresh.org \in member THEN {refresh.org} ELSE member :
                   refresh' = [at |-> "granted", org |-> o]
        BY <1>1, <3>1 DEF ServerRefreshes
      <4>2. o \in Orgs \cup {NoOrg}
        BY DEF SessionInv, TypedRest
      <4> QED
        BY <1>1, <4>1, <4>2 DEF ServerRefreshes, Refreshes
    <3>2. CASE cookie # "valid"
      <4>1. refresh' = [refresh EXCEPT !.at = IF cookie = "none" THEN "absent"
                                               ELSE "refused"]
        BY <1>1, <3>2 DEF ServerRefreshes
      <4> QED
        BY <1>1, <2>1, <4>1 DEF ServerRefreshes, Refreshes
    <3> QED
      BY <3>1, <3>2
  <2>3. TypedCalls'
    BY <2>2 DEF SessionInv, Core, TypedCalls
  <2>4. {c \in Calls : Waiting(c)'} = {c \in Calls : Waiting(c)}
    BY <2>2 DEF Waiting
  <2>5. RefreshKnowsWaiters'
    BY <2>1, <2>2, <2>4 DEF SessionInv, Core, RefreshKnowsWaiters
  <2>6. AllFit'
    BY <2>2 DEF SessionInv, Core, AllFit
  <2>7. TypedRest'
    BY <2>2 DEF SessionInv, TypedRest, client, store, server
  <2> QED
    BY <2>3, <2>5, <2>6, <2>7 DEF SessionInv, Core
<1>2. CASE RefreshSucceeds
  <2>1. refresh.org \in Orgs \cup {NoOrg}
    BY DEF SessionInv, Core, TypedCalls, Refreshes
  <2>2. accessToken' \in Tokens /\ accessToken'.age = "fresh"
    BY <1>2, <2>1, FreshTokenIsToken DEF RefreshSucceeds
  <2>3. /\ EndRefresh
        /\ call' = [c \in Calls |-> IF c \in Resumes THEN Sent(call[c], accessToken')
                                    ELSE call[c]]
    BY <1>2 DEF RefreshSucceeds
  <2>4. Core'
    BY <2>2, <2>3, EndKeeps DEF SessionInv
  <2>5. TypedRest'
    BY <1>2, <2>2 DEF RefreshSucceeds, SessionInv, TypedRest, store, server
  <2> QED
    BY <2>4, <2>5 DEF SessionInv
<1>3. ASSUME NEW k \in {"valid", "revoked", "none"}, RefreshFails(k), faults' \in Nat
      PROVE  SessionInv'
  <2>1. /\ EndRefresh
        /\ call' = [c \in Calls |-> IF c \in Resumes THEN WithoutToken(call[c])
                                    ELSE call[c]]
    BY <1>3 DEF RefreshFails
  <2>2. Core'
    BY <2>1, NoTokenIsToken, EndKeeps DEF SessionInv
  <2>3. isAuthenticated' \in BOOLEAN /\ org' \in Orgs \cup {NoOrg} /\ checked' \in BOOLEAN
    BY <1>3 DEF RefreshFails, GiveUpSession, store, SessionInv, TypedRest
  <2>4. TypedRest'
    BY <1>3, <2>3, NoTokenIsToken DEF RefreshFails, SessionInv, TypedRest
  <2> QED
    BY <2>2, <2>4 DEF SessionInv
<1>4. CASE RefreshRefused
  BY <1>3, <1>4 DEF RefreshRefused, SessionInv, TypedRest
<1>5. CASE RefreshLost
  BY <1>3, <1>5 DEF RefreshLost, SessionInv, TypedRest
<1> QED
  BY <1>1, <1>2, <1>4, <1>5 DEF AnswerRefresh

LEMMA ReloadKeeps ==
  ASSUME SessionInv, NEW logout \in BOOLEAN, Reload(logout)
  PROVE  SessionInv'
<1>1. call' \in [Calls -> Promises] /\ \A c \in Calls : call'[c] = Idle
  BY IdleIsPromise DEF Reload
<1>2. TypedCalls'
  BY <1>1 DEF Reload, EndRefresh, NoRefresh, TypedCalls, Refreshes
<1>3. {c \in Calls : Waiting(c)'} = {}
  BY <1>1, IdleIsPromise DEF Waiting, Waits
<1>4. RefreshKnowsWaiters'
  BY <1>3, SessionAssumption DEF Reload, RefreshKnowsWaiters, EndRefresh, NoRefresh
<1>5. AllFit'
  BY <1>1, IdleIsPromise DEF AllFit
<1>6. TypedRest'
  BY NoTokenIsToken DEF Reload, SessionInv, TypedRest
<1> QED
  BY <1>2, <1>4, <1>5, <1>6 DEF SessionInv, Core

(* Steps that leave the promises and the refresh alone.                    *)
LEMMA CallsKept ==
  ASSUME Core, UNCHANGED <<call, refreshing>>
  PROVE  Core'
<1>1. {c \in Calls : Waiting(c)'} = {c \in Calls : Waiting(c)}
  BY DEF Waiting
<1> QED
  BY <1>1 DEF Core, TypedCalls, RefreshKnowsWaiters, AllFit, refreshing

LEMMA SessionNextKeeps ==
  ASSUME SessionInv, [SessionNext]_sessionVars
  PROVE  SessionInv'
<1>1. CASE \E c \in Calls : Start(c)
  BY <1>1, StartKeeps
<1>2. CASE \E c \in Calls : Answer(c)
  BY <1>2, AnswerKeeps
<1>3. CASE ServerRefreshes \/ AnswerRefresh
  BY <1>3, RefreshKeeps
<1>4. CASE TokenAges
  <2>1. accessToken' \in Tokens
    BY <1>4 DEF TokenAges, SessionInv, TypedRest, Tokens, Ages
  <2> QED
    BY <1>4, <2>1, CallsKept DEF TokenAges, SessionInv, TypedRest, store, server
<1>5. CASE SessionRevoked
  BY <1>5, CallsKept DEF SessionRevoked, SessionInv, TypedRest, client, store
<1>6. CASE \E logout \in BOOLEAN : Reload(logout)
  BY <1>6, ReloadKeeps
<1>7. CASE UNCHANGED sessionVars
  BY <1>7, CallsKept DEF sessionVars, SessionInv, TypedRest, client, store, server
<1> QED
  BY <1>1, <1>2, <1>3, <1>4, <1>5, <1>6, <1>7 DEF SessionNext

LEMMA SessionInitHolds ==
  ASSUME SessionInit
  PROVE  SessionInv
<1>1. TypedCalls
  BY IdleIsPromise DEF SessionInit, TypedCalls, Refreshes, NoRefresh
<1>2. {c \in Calls : Waiting(c)} = {}
  BY IdleIsPromise DEF SessionInit, Waiting, Waits
<1>3. RefreshKnowsWaiters
  BY <1>2, SessionAssumption DEF SessionInit, RefreshKnowsWaiters, NoRefresh
<1>4. AllFit
  BY IdleIsPromise DEF SessionInit, AllFit
<1>5. TypedRest
  BY NoTokenIsToken, SessionAssumption DEF SessionInit, TypedRest
<1> QED
  BY <1>1, <1>3, <1>4, <1>5 DEF SessionInv, Core

---------------------------------------------------------------------------

LEMMA Inductive == SessionSpec => []SessionInv
<1>1. SessionInit => SessionInv
  BY SessionInitHolds
<1>2. SessionInv /\ [SessionNext]_sessionVars => SessionInv'
  BY SessionNextKeeps
<1> QED
  BY <1>1, <1>2, PTL DEF SessionSpec

(* Whatever happens to the calls around it, there is one refresh at a time *)
(* in api.ts, and every promise that waits for a token is one it resumes.  *)
THEOREM WaitersKnown == SessionSpec => []RefreshKnowsWaiters
<1>1. SessionInv => RefreshKnowsWaiters
  BY DEF SessionInv, Core
<1> QED
  BY <1>1, Inductive, PTL

LEMMA StepKeepsSession ==
  ASSUME SessionInv, [SessionNext]_sessionVars, cookie = "valid", cookie' = "valid", faults' = 0,
         isAuthenticated, refresh.at # "absent"
  PROVE  isAuthenticated'
<1>0. faults' # faults + 1
  BY DEF SessionInv, TypedRest
<1>1. ASSUME NEW c \in Calls, Start(c)
      PROVE  UNCHANGED isAuthenticated
  BY <1>1 DEF Start, CallApi, SwitchOrg, AcceptInvitation, CheckAuth, RefreshAuth,
              Login, Logout, store
<1>2. ASSUME NEW c \in Calls, Answer(c)
      PROVE  isAuthenticated'
  <2>1. CASE DataAnswered(c) \/ Switched(c) \/ Joined(c) \/ RetryAfterRefresh(c)
    BY <2>1 DEF DataAnswered, Switched, Joined, RetryAfterRefresh, store
  <2>2. CASE KnowsMe(c) \/ LoggedIn(c)
    BY <2>2 DEF KnowsMe, LoggedIn
  <2>3. CASE LoggedOut(c)
    BY <2>3 DEF LoggedOut
  <2>4. CASE Rejected(c)
    <3>1. PromiseFits(call[c])
      BY DEF SessionInv, Core, AllFit
    <3>2. call[c].kind \notin {"check", "logout"}
      BY <2>4, <3>1 DEF Rejected, Unauthorized, PromiseFits
    <3> QED
      BY <2>4, <3>2 DEF Rejected, Fails, store
  <2>5. CASE AnswerLost(c)
    BY <1>0, <2>5 DEF AnswerLost
  <2> QED
    BY <1>2, <2>1, <2>2, <2>3, <2>4, <2>5 DEF Answer
<1>3. CASE ServerRefreshes \/ RefreshSucceeds
  BY <1>3 DEF ServerRefreshes, RefreshSucceeds, store
<1>4. CASE RefreshRefused
  BY <1>4 DEF RefreshRefused, RefreshFails
<1>5. CASE RefreshLost
  BY <1>0, <1>5 DEF RefreshLost
<1>6. CASE TokenAges \/ SessionRevoked
  BY <1>6 DEF TokenAges, SessionRevoked, store
<1>7. CASE \E logout \in BOOLEAN : Reload(logout)
  BY <1>7 DEF Reload
<1>8. CASE UNCHANGED sessionVars
  BY <1>8 DEF sessionVars, store
<1> QED
  BY <1>1, <1>2, <1>3, <1>4, <1>5, <1>6, <1>7, <1>8 DEF SessionNext, AnswerRefresh

(* With a valid cookie and no answer lost, nothing the client does about   *)
(* expired tokens logs the user out: checkAuth is never answered with 401, *)
(* since ensureAccessToken sends it with a fresh token only.               *)
THEOREM SessionStays == SessionSpec => SessionKept
<1>1. SessionInv /\ [SessionNext]_sessionVars
        => [ cookie = "valid" /\ cookie' = "valid" /\ faults' = 0
               /\ isAuthenticated /\ refresh.at # "absent"
               => isAuthenticated' ]_sessionVars
  BY StepKeepsSession
<1> QED
  BY <1>1, Inductive, PTL DEF SessionSpec, SessionKept
=============================================================================
