--------------------------- MODULE FindingsPage ---------------------------
(***************************************************************************)
(* The findings page of the organisation and that of an account (pages     *)
(* Findings.tsx and AccountFindings.tsx of apps/app): queries that are     *)
(* polled, cached and invalidated, the list with its pages, the dialog of  *)
(* one finding, and updates, while analyzers and others write the table.   *)
(*                                                                         *)
(* A handler and the effects of the rendering that it leads to are one     *)
(* action.  A request sees the table as it is at some moment between being *)
(* sent and being answered; `history` keeps all tables for that.           *)
(***************************************************************************)
EXTENDS Dashboard

CONSTANTS Accounts,      \* their pages; None stands for the organisation's
          Starts,        \* tables to begin with
          StartsOn,      \* pages to begin on
          OrgSettings,   \* viewing settings the server may send
          PageSizes,     \* rows of a page of the table
          TypeOrder,     \* the types, as localeCompare orders them
          Limits         \* bound: how often each of `Kinds` happens, in one of
                         \* several combinations

Kinds == {"click", "turn", "poll", "dialog", "update", "write", "scan", "fault"}

ASSUME FindingsPageAssumption ==
  /\ StartsOn \subseteq Accounts \cup {None} /\ None \notin Accounts
  /\ Starts \subseteq
       [Findings -> {None} \cup [status : Statuses, resolvedAt : BOOLEAN, updatedAt : {1}]]
  /\ PageSizes \subseteq Nat \ {0} /\ PageSizes # {}
  /\ \A l \in Limits : DOMAIN l = Kinds /\ \A k \in Kinds : l[k] \in Nat

VARIABLES
  history,    \* all tables so far, the current one last
  list,       \* the query "findings" of each key that was asked for
  stats,      \* the query "finding-stats" of each page
  update,     \* the mutation under way
  due,        \* the table that answers have to know of, once asked again
  account,    \* the page: None or an account
  filters, search, settings,
  sort, pageSize, currentPage,   \* the table
  selected,   \* selectedFinding: the finding in the dialog, its row
  idParam,    \* ?id= in the URL
  strayed,    \* the dialog took its status from an answer it should not have
  completed, scan,   \* a scan has been completed; the one that runs
  left        \* how often each kind may still happen

queries == <<list, stats, due>>
table == <<sort, pageSize>>
page == <<account, filters, search, settings, table>>
dialog == <<selected, idParam, strayed>>
vars == <<history, queries, update, page, currentPage, dialog, completed, scan, left>>

now == Len(history)
Spend(kind) == left[kind] > 0 /\ left' = [left EXCEPT ![kind] = @ - 1]
rows == history[now]

---------------------------------------------------------------------------
(* Queries.  The data of a list is the number of the table it was read     *)
(* from; that of the stats has a number for each count.                    *)

NoQuery == [data |-> None, from |-> 0, tries |-> 0, invalid |-> FALSE, joined |-> FALSE]
Fetching(q) == q.from # 0
Fetch(q) == [q EXCEPT !.from = now, !.tries = 0, !.joined = FALSE]

(* A query that comes into view is asked when nothing is known, or what is *)
(* known is invalid or old.                                                *)
Observe(q, old) ==
  IF ~Fetching(q) /\ (q.data = None \/ q.invalid \/ old) THEN Fetch(q) ELSE q

(* invalidateQueries asks again what is in view, and cancels a request     *)
(* under way; but not the first one, nor that of a query out of view.      *)
Invalidate(q, inView) ==
  IF inView /\ (~Fetching(q) \/ q.data # None)
  THEN [Fetch(q) EXCEPT !.invalid = TRUE]
  ELSE [q EXCEPT !.invalid = TRUE, !.joined = Fetching(q)]

Answered(q, data) ==
  [q EXCEPT !.data = data, !.from = 0, !.tries = 0, !.invalid = FALSE]
Failed(q) ==
  IF q.tries = 0 THEN [q EXCEPT !.tries = 1, !.from = now]
  ELSE [q EXCEPT !.from = 0, !.tries = 0, !.invalid = TRUE]

key == <<account, filters>>
ListQuery(k) == IF k \in DOMAIN list THEN list[k] ELSE NoQuery
WithQuery(k, q) == [j \in DOMAIN list \cup {k} |-> IF j = k THEN q ELSE list[j]]

---------------------------------------------------------------------------
(* What is on the page.                                                    *)

allFindings ==
  LET q == ListQuery(key)
  IN  IF q.data = None THEN [f \in {} |-> None]
      ELSE Filtered(GetFindings(history[q.data], account, filters, ListLimit),
                    filters.types, settings)
filteredFindings ==
  LET found == {f \in DOMAIN allFindings : search => f \in Matches}
  IN  [f \in found |-> allFindings[f]]
isLoading == ListQuery(key).data = None /\ Fetching(ListQuery(key))

HasStats == stats[account].data # None
Seen == [c \in Counts |-> history[stats[account].data[c]]]
hasAnyFindings == HasStats /\ HasAnyFindings(Seen)
cards == FilteredStats(GetFindingStats(Seen), settings)

(* Filters and table are there after the first scan, if the counts know of *)
(* a finding or the list is on its way; else the page says that there are  *)
(* none.                                                                   *)
TableMounted == completed /\ (hasAnyFindings \/ isLoading)

sortedFindings == SortFindings(filteredFindings, sort, TypeOrder)
PageRows ==
  LET start == (currentPage - 1) * pageSize
  IN  SubSeq(sortedFindings, start + 1,
             IF start + pageSize < Len(sortedFindings)
             THEN start + pageSize ELSE Len(sortedFindings))
LastPage == (Cardinality(DOMAIN filteredFindings) + pageSize - 1) \div pageSize

---------------------------------------------------------------------------
(* The effects of a rendering.                                             *)

(* The table goes back to its first page when the number of findings       *)
(* changes, and is made anew after it was not there.                       *)
ResetPage(turned) ==
  currentPage' =
    IF /\ turned # 1
       /\ Cardinality(DOMAIN filteredFindings)' = Cardinality(DOMAIN filteredFindings)
       /\ TableMounted'
    THEN turned ELSE 1

(* A finding in the URL is opened, or shown anew, when the list changes.   *)
Dialog(f, r) == [finding |-> f, row |-> r]
\* Mutant: what is open is not shown anew.
FollowIdParamMutant ==
  IF idParam # None /\ selected = None /\ idParam \in DOMAIN allFindings'
  THEN /\ selected' = Dialog(idParam, allFindings'[idParam])
       /\ strayed' = FALSE
       /\ UNCHANGED idParam
  ELSE UNCHANGED dialog

FollowIdParam ==
  IF idParam # None /\ allFindings' # allFindings /\ idParam \in DOMAIN allFindings'
  THEN /\ selected' = Dialog(idParam, allFindings'[idParam])
       /\ strayed' = FALSE
       /\ UNCHANGED idParam
  ELSE UNCHANGED dialog

NoDialog == selected' = None /\ idParam' = None /\ strayed' = FALSE

---------------------------------------------------------------------------
(* The page is opened; the query of its counts with it.                    *)

Unseen == [a \in Accounts \cup {None} |-> NoQuery]

Init ==
  /\ \E t \in Starts : history = <<t>>
  /\ account \in StartsOn
  /\ filters = NoFilters /\ search = FALSE
  /\ settings \in OrgSettings
  /\ sort = [field |-> "severity", direction |-> "asc"]
  /\ pageSize = Min(PageSizes) /\ currentPage = 1
  /\ list = [k \in {key} |-> [NoQuery EXCEPT !.from = 1]]
  /\ stats = [Unseen EXCEPT ![account] = [NoQuery EXCEPT !.from = 1]]
  /\ update = None /\ due = 1
  /\ selected = None /\ idParam = None /\ strayed = FALSE
  /\ completed = (Present(rows) # {}) /\ scan = "none"
  /\ left \in Limits

---------------------------------------------------------------------------
(* Clicks.  The dialog covers the page: it has to be closed first.         *)

MayClick == selected = None /\ left["click"] > 0
Click ==
  /\ MayClick /\ Spend("click")
  /\ UNCHANGED <<history, update, due, completed, scan>>

SetFilters(next, text) ==
  /\ Click
  /\ filters' = next /\ search' = text
  /\ list' = WithQuery(<<account, next>>, Observe(ListQuery(<<account, next>>), FALSE))
  /\ UNCHANGED <<stats, account, settings, table>>
  /\ ResetPage(currentPage) /\ FollowIdParam

BarClick ==
  /\ MayClick /\ TableMounted
  /\ \E next \in BarClicks(filters) \ {filters} : SetFilters(next, search)

CardClick ==
  /\ MayClick /\ completed /\ HasStats
  /\ \E next \in CardClicks(filters) \ {filters} : SetFilters(next, search)

ClearFilters ==
  /\ MayClick /\ TableMounted
  /\ filters # NoFilters \/ search
  /\ SetFilters(NoFilters, FALSE)

Search == TableMounted /\ SetFilters(filters, ~search)

(* The quick toggle changes the settings in the browser; the settings that *)
(* the server sends replace them.                                          *)
SetSettings(next) ==
  /\ Click
  /\ settings' = next
  /\ UNCHANGED <<list, stats, account, filters, search, table>>
  /\ ResetPage(currentPage) /\ FollowIdParam
ToggleNonTrivial ==
  MayClick /\ TableMounted /\ SetSettings([settings EXCEPT !.hideTrivial = ~@])
SettingsArrive == \E s \in OrgSettings \ {settings} : SetSettings(s)

HandleSort(field) ==
  /\ Click /\ TableMounted
  /\ sort' = [field |-> field,
              direction |-> IF sort.field = field /\ sort.direction = "asc"
                            THEN "desc" ELSE "asc"]
  /\ UNCHANGED <<list, stats, account, filters, search, settings, pageSize,
                 currentPage, dialog>>

SetPageSize(size) ==
  /\ Click /\ TableMounted /\ DOMAIN filteredFindings # {}
  /\ pageSize' = size
  /\ currentPage' = 1
  /\ UNCHANGED <<list, stats, account, filters, search, settings, sort, dialog>>

TurnPage(n) ==
  /\ Spend("turn")
  /\ selected = None /\ TableMounted /\ DOMAIN filteredFindings # {}
  /\ currentPage' = n
  /\ UNCHANGED <<history, queries, update, page, dialog, completed, scan>>
Turn ==
  /\ left["turn"] > 0
  /\ \/ currentPage # 1 /\ (TurnPage(1) \/ TurnPage(currentPage - 1))
     \/ currentPage # LastPage
        /\ (TurnPage(LastPage) \/ TurnPage(Min({currentPage + 1, LastPage})))

(* A link, from this or another page, mounts the page anew; the page of    *)
(* another account takes over what the page before had in its state.       *)
Mount(a, next, id, turned, hide) ==
  /\ Click
  /\ account' = a /\ filters' = next
  /\ \E old \in BOOLEAN :
       /\ list' = WithQuery(<<a, next>>, Observe(ListQuery(<<a, next>>), old))
       /\ stats' = [stats EXCEPT ![a] = Observe(@, old)]
  /\ settings' = IF hide THEN [settings EXCEPT !.hideTrivial = TRUE] ELSE settings
  /\ UNCHANGED <<search, table>>
  /\ selected' =
       IF id # None /\ id \in DOMAIN allFindings' THEN Dialog(id, allFindings'[id]) ELSE None
  /\ idParam' = id /\ strayed' = FALSE
  /\ ResetPage(turned)

(* The dashboard has counts and up to 100 open findings.                   *)
DashboardOf(t) ==
  Summary([c \in Counts |-> history[t]],
          GetFindings(history[t], account, OpenFilters, 2 * ListLimit), settings)
FollowLink ==
  /\ MayClick
  /\ \E l \in UNION {DashboardLinks(DashboardOf(t), account, filters) : t \in 1 .. now} :
       Mount(account, l.filters, None, 1, l.hideTrivial)
FollowFindingLink ==
  MayClick /\ \E f \in Findings : Mount(account, filters, f, 1, FALSE)
SwitchAccount ==
  /\ account # None
  /\ \E a \in Accounts \ {account} : Mount(a, filters, None, currentPage, FALSE)

\* Mutant: a request under way is left to answer.
InvalidateAllMutant ==
  /\ list' = [k \in DOMAIN list |->
                IF Fetching(list[k]) THEN list[k] ELSE Invalidate(list[k], k = key)]
  /\ stats' = [a \in DOMAIN stats |->
                 IF stats[a] = NoQuery THEN NoQuery ELSE Invalidate(stats[a], a = account)]

(* The button of the header.                                               *)
InvalidateAll ==
  /\ list' = [k \in DOMAIN list |-> Invalidate(list[k], k = key)]
  /\ stats' = [a \in DOMAIN stats |->
                 IF stats[a] = NoQuery THEN NoQuery ELSE Invalidate(stats[a], a = account)]
HandleRefresh ==
  /\ completed /\ selected = None /\ ~Fetching(ListQuery(key))
  /\ Spend("poll")
  /\ InvalidateAll
  /\ UNCHANGED <<history, due, update, page, dialog, completed, scan>>
  /\ ResetPage(currentPage)

---------------------------------------------------------------------------
(* The dialog.                                                             *)

HandleSelectFinding ==
  /\ Spend("dialog") /\ selected = None /\ TableMounted
  /\ \E i \in DOMAIN PageRows :
       LET f == PageRows[i]
       IN  selected' = Dialog(f, allFindings[f]) /\ idParam' = f
  /\ strayed' = FALSE
  /\ UNCHANGED <<history, queries, update, page, currentPage, completed, scan>>

HandleCloseModal ==
  /\ selected # None
  /\ NoDialog
  /\ UNCHANGED <<history, queries, update, page, currentPage, completed, scan, left>>

(* An open finding can be resolved, ignored or snoozed, after a question;  *)
(* another is reopened.  No button works during an update.                 *)
HandleUpdateStatus ==
  /\ selected # None /\ update = None /\ Spend("update")
  /\ \E s \in Statuses :
       /\ (s = "open") # (selected.row.status = "open")
       /\ update' = [finding |-> selected.finding, status |-> s, at |-> "sent", table |-> 0]
  /\ UNCHANGED <<history, queries, page, currentPage, dialog, completed, scan>>

(* The route writes the row, or answers 404.                               *)
UpdateIsWritten ==
  /\ update # None /\ update.at = "sent"
  /\ IF rows[update.finding] = None
     THEN /\ update' = [update EXCEPT !.at = "failed"]
          /\ UNCHANGED history
     ELSE /\ history' = Append(history,
               UpdateFinding(rows, update.finding, update.status, now + 1))
          /\ update' = [update EXCEPT !.at = "done", !.table = now + 1]
  /\ UNCHANGED <<queries, page, currentPage, dialog, completed, scan, left>>

(* A request that gets lost, or whose answer does.                         *)
UpdateIsLost ==
  /\ update # None /\ update.at \in {"sent", "done"} /\ Spend("fault")
  /\ update' = [update EXCEPT !.at = "failed"]
  /\ UNCHANGED <<history, queries, page, currentPage, dialog, completed, scan>>

(* The lists and counts are asked again; the dialog is closed when the     *)
(* finding was resolved, else whatever it shows takes the new status: also *)
(* another finding, or one of which the list has heard more by now.        *)
Strays ==
  \/ selected.finding # update.finding
  \/ LET known == ListQuery(key).data IN known # None /\ known >= update.table
UpdateSucceeds ==
  /\ update # None /\ update.at = "done"
  /\ update' = None
  /\ due' = IF update.table > due THEN update.table ELSE due
  /\ InvalidateAll
  /\ IF update.status = "resolved" THEN NoDialog
     ELSE /\ selected' = IF selected = None THEN None
                         ELSE [selected EXCEPT !.row.status = update.status]
          /\ strayed' = (selected # None /\ (strayed \/ Strays))
          /\ UNCHANGED idParam
  /\ UNCHANGED <<history, page, completed, scan, left>>
  /\ ResetPage(currentPage)
UpdateFails ==
  /\ update # None /\ update.at = "failed"
  /\ update' = None
  /\ UNCHANGED <<history, queries, page, currentPage, dialog, completed, scan, left>>

---------------------------------------------------------------------------
(* Requests of the queries.                                                *)

Poll ==
  /\ ~Fetching(ListQuery(key)) /\ Spend("poll")
  /\ list' = WithQuery(key, Fetch(ListQuery(key)))
  /\ UNCHANGED <<history, stats, due, update, page, dialog, completed, scan>>
  /\ ResetPage(currentPage)

ListAnswers(k) ==
  /\ Fetching(list[k])
  /\ IF Accepted(k[2])
     THEN \E t \in list[k].from .. now : list' = [list EXCEPT ![k] = Answered(@, t)]
     ELSE list' = [list EXCEPT ![k] = Failed(@)]
  /\ UNCHANGED <<history, stats, due, update, page, completed, scan, left>>
  /\ ResetPage(currentPage) /\ FollowIdParam

StatsAnswer(a) ==
  /\ Fetching(stats[a])
  /\ \E t \in [Counts -> stats[a].from .. now] :
       stats' = [stats EXCEPT ![a] = Answered(@, t)]
  /\ UNCHANGED <<history, list, due, update, page, completed, scan, left>>
  /\ ResetPage(currentPage) /\ FollowIdParam

RequestFails ==
  /\ Spend("fault")
  /\ \/ \E k \in DOMAIN list :
          Fetching(list[k]) /\ list' = [list EXCEPT ![k] = Failed(@)] /\ UNCHANGED stats
     \/ \E a \in DOMAIN stats :
          Fetching(stats[a]) /\ stats' = [stats EXCEPT ![a] = Failed(@)] /\ UNCHANGED list
  /\ UNCHANGED <<history, due, update, page, dialog, completed, scan>>
  /\ ResetPage(currentPage)

---------------------------------------------------------------------------
(* Others.                                                                 *)

Write(next) ==
  /\ Spend("write")
  /\ next # rows
  /\ history' = Append(history, next)
  /\ UNCHANGED <<queries, update, page, currentPage, dialog, completed, scan>>
ScanWrites == scan = "running" /\ \E t \in AfterAnalysis(rows, now + 1) : Write(t)
OthersWrite ==
  \/ \E f \in Present(rows), s \in Statuses : Write(UpdateFinding(rows, f, s, now + 1))
  \/ \E f \in Present(rows), s \in Statuses : Write(BulkUpdateStatus(rows, {f}, s, now + 1))
  \/ Write(DeleteOldResolvedFindings(rows))

(* A scan runs once.  When the page has seen it run, it notices its end.   *)
ScanStarts ==
  /\ scan = "none" /\ scan' = "running" /\ Spend("scan")
  /\ UNCHANGED <<history, queries, update, page, currentPage, dialog, completed>>
ScanEnds ==
  /\ scan = "running" /\ scan' \in {"ended", "unseen"}
  /\ UNCHANGED <<history, queries, update, page, currentPage, dialog, completed, left>>
NoticeScan ==
  /\ scan \in {"ended", "unseen"} /\ scan' = "over"
  /\ completed' = TRUE
  /\ IF scan = "ended" THEN InvalidateAll /\ due' = now ELSE UNCHANGED <<list, stats, due>>
  /\ UNCHANGED <<history, update, page, dialog, left>>
  /\ ResetPage(currentPage)

Next ==
  \/ BarClick \/ CardClick \/ ClearFilters \/ Search \/ ToggleNonTrivial \/ SettingsArrive
  \/ \E field \in SortFields : HandleSort(field)
  \/ \E size \in PageSizes \ {pageSize} : SetPageSize(size)
  \/ Turn \/ FollowLink \/ FollowFindingLink \/ SwitchAccount \/ HandleRefresh
  \/ HandleSelectFinding \/ HandleCloseModal \/ HandleUpdateStatus
  \/ UpdateIsWritten \/ UpdateIsLost \/ UpdateSucceeds \/ UpdateFails
  \/ Poll \/ RequestFails
  \/ \E k \in DOMAIN list : ListAnswers(k)
  \/ \E a \in DOMAIN stats : StatsAnswer(a)
  \/ ScanWrites \/ OthersWrite \/ ScanStarts \/ ScanEnds \/ NoticeScan

Spec == Init /\ [][Next]_vars

---------------------------------------------------------------------------
(* Properties.                                                             *)

(* Nothing is under way, and the last request was asked when it had to be. *)
Settled(q) == ~Fetching(q) /\ q.data # None /\ ~q.invalid /\ ~q.joined

(* Once an update was acknowledged, or a scan noticed to have ended, every *)
(* list and count that is not being asked again has been asked since: an   *)
(* answer that was on its way meanwhile is never what stays on the page.   *)
(* Excused are a first request that was under way, which react-query joins *)
(* instead of asking again, and one that is out of view.                   *)
AcknowledgedIsShown ==
  /\ \A k \in DOMAIN list : Settled(list[k]) => list[k].data >= due
  /\ \A a \in DOMAIN stats :
       Settled(stats[a]) => \A c \in Counts : stats[a].data[c] >= due

(* The cards and the list are computed apart, the one from counts of the   *)
(* server with the hidden types taken off, the other row by row: they      *)
(* agree on the open findings whenever they were read from one table, all  *)
(* of it is on the page, and the settings hide no type that has findings   *)
(* of two severities and no finding for its tags.                          *)
OneTable == \A c \in Counts : stats[account].data[c] = ListQuery(key).data
AllListed(t) ==
  /\ Cardinality(Present(t)) <= ListLimit
  /\ \A f \in Present(t) : account \in {None, AccountOf[f]}
Countable(t) ==
  /\ \A f \in Present(t) : ~TagsPresent(f, settings)
  /\ \A f, g \in Present(t) :
       TypeOf[f] = TypeOf[g] /\ TypeOf[f] \in settings.hiddenFindingTypes
         => SeverityOf[f] = SeverityOf[g]
CardsCountTheList ==
  LET q == ListQuery(key)
      open == {f \in DOMAIN allFindings : allFindings[f].status = "open"}
  IN  /\ HasStats /\ q.data # None
      /\ filters = NoFilters /\ OneTable
      /\ AllListed(history[q.data]) /\ Countable(history[q.data])
      =>
      /\ cards.totalCount = Cardinality(open)
      /\ \A s \in Severities :
           cards.bySeverity[s] = Cardinality({f \in open : SeverityOf[f] = s})
      /\ ~settings.hideTrivial =>
           \A c \in Groups(Categories \cup ResourceLabels \cup {{t} : t \in Types}) :
             CountOf(c, cards) = Cardinality({f \in open : TypeOf[f] \in c})

(* Behind a number of the dashboard that is a link there are as many       *)
(* findings, when both were read from one table, all of it on the page:    *)
(* though the number is of counts that know neither account nor tags, and  *)
(* the list asks for one severity or type and hides rows.  Excused, beside *)
(* those of the cards, is a type found in two severities, and, when the    *)
(* trivial ones are hidden, one that is trivial.  A health of 100 means    *)
(* that none of them is left but trivial ones.                             *)
OneSeverity(t) ==
  \A f, g \in Present(t) : TypeOf[f] = TypeOf[g] => SeverityOf[f] = SeverityOf[g]
LinksShowTheirCount ==
  LET q == ListQuery(key)
      shown == Cardinality(DOMAIN allFindings)
      summary == DashboardOf(q.data)
      trivial(l) ==
        \E f \in DOMAIN GetFindings(history[q.data], account, l.filters, ListLimit) :
          SeverityOf[f] = "trivial"
  IN  q.data # None =>
      LET t == history[q.data]
      IN  AllListed(t) /\ Countable(t) /\ OneSeverity(t) =>
          \A l \in DashboardLinks(summary, account, filters) :
            /\ l.count # None /\ l.filters = filters
            /\ l.hideTrivial => settings.hideTrivial
            /\ l.hideTrivial \/ ~settings.hideTrivial \/ ~trivial(l)
            =>
            /\ shown = l.count
            /\ summary.healthScores.overall = 100 /\ ~trivial(l) => shown = 0

(* What the dialog says of a finding is what the list says, when the list  *)
(* has it and nothing is under way; excused are answers that strayed.      *)
DialogIsTrue ==
  /\ selected # None /\ ~strayed /\ update = None
  /\ idParam = selected.finding
  /\ idParam \in DOMAIN allFindings /\ Settled(ListQuery(key))
  => selected.row.status = allFindings[idParam].status
=============================================================================
