------------------------------- MODULE Pages -------------------------------
(***************************************************************************)
(* The pages of the admin panel that read tables the bot writes at the     *)
(* same time, on top of Startup: the lists of jobs and of users, read one  *)
(* page at a time, and the dashboard and the statistics.  No page runs in a*)
(* transaction: every statement sees the tables of its own moment.         *)
(*                                                                         *)
(* No row is ever deleted.  Of a job, only its place and whether a filter  *)
(* on its status finds it are kept, of a user its place and whether a      *)
(* search finds the name.  Clocks are one clock, and no two rows of a list *)
(* have the same time.                                                     *)
(***************************************************************************)
EXTENDS Startup, Sequences, FiniteSets, Functions

CONSTANTS
    Sources,       \* youtube, reels, tiktok
    Month,         \* a sequence: the month each day belongs to
    Limit,         \* defaultPagination: 30
    TopLimit,      \* users in the ranking: 10
    MaxRows,       \* bound: rows of all tables
    MaxUsers,      \* bound: rows of users
    None

Days == DOMAIN Month
Lists == {"jobs", "users"}

ASSUME PagesAssumption ==
    /\ {"bot", "admin"} \subseteq Services
    /\ Month \in Seq(Nat) /\ Len(Month) > 0
    /\ \A d \in Days : \A e \in 1..d : Month[e] <= Month[d]
    /\ {Limit, TopLimit} \subseteq Nat \ {0}
    /\ MaxRows \in Nat \ {0} /\ MaxUsers \in Nat

VARIABLES
    today,      \* the date
    rows,       \* the ids of each list, newest first
    matching,   \* those that the filter finds
    downloads,  \* rows of downloads
    visit       \* the page being made, or on the administrator's screen

tables == <<rows, matching, downloads>>
vars == <<startupVars, today, tables, visit>>

Ids == 1..MaxRows
Download == [id : 1..MaxRows, user : Ids, source : Sources, day : Days]

(* The statements of the two pages of numbers.                             *)
Statements ==
    [dashboard |-> <<"today", "month", "users">>,
     stats |-> <<"today", "month", "top", "users", "source">>]

(* Mutant: the month is counted first.                                     *)
MonthFirst(name) ==
    IF name = "dashboard" THEN <<"month", "today", "users">>
                          ELSE <<"month", "today", "top", "users", "source">>

StatementsOf(name) == Statements[name]

(* ceil(total / Limit), as integers divide.                                *)
PagesFloor(total) == total \div Limit

PageCount(total) == (total + Limit - 1) \div Limit

TypeOK ==
    /\ StartupTypeOK
    /\ today \in Days
    /\ \A l \in Lists : /\ rows[l] \in Seq(Ids) /\ Len(rows[l]) <= MaxRows
                        /\ matching[l] \subseteq Ids
    /\ downloads \subseteq Download
    /\ \/ visit = None
       \/ /\ visit.page \in DOMAIN Statements
          /\ {visit.today, visit.month, visit.source} \subseteq 0..MaxRows
          /\ visit.users \in 0..MaxRows
          /\ visit.top \subseteq Ids
          /\ visit.next \in 1..(Len(StatementsOf(visit.page)) + 1)
       \/ /\ visit.page \in Lists
          /\ visit.step \in {"count", "select", "shown"}
          /\ visit.number \in 1..PageCount(MaxRows)
          /\ visit.total \in 0..MaxRows
          /\ visit.seen \cup visit.start \subseteq Ids

Init ==
    /\ StartupInit
    /\ today = 1
    /\ rows = [l \in Lists |-> <<>>]
    /\ matching = [l \in Lists |-> {}]
    /\ downloads = {}
    /\ visit = None

(* The code modelled here is the last version's.                           *)
Runs(s) == service[s] = [pc |-> "running", version |-> MaxVersion]

-----------------------------------------------------------------------------
(* The bot and its workers.                                                *)
NumberOfRows == Len(rows["jobs"]) + Len(rows["users"]) + Cardinality(downloads)

InsertAt(s, k, x) == SubSeq(s, 1, k - 1) \o <<x>> \o SubSeq(s, k, Len(s))

(* A list page whose COUNT has been made and whose SELECT has not.         *)
Between(l) == visit # None /\ visit.page = l /\ visit.step = "select"

(* A job's time is taken before its INSERT, so that the handler of the     *)
(* other platform may be faster: a row comes in first or second.           *)
Insert(l) ==
    LET id == Len(rows[l]) + 1
    IN  /\ Runs("bot")
        /\ NumberOfRows < MaxRows
        /\ l = "users" => id <= MaxUsers
        /\ \E k \in 1..2 : k <= id /\ rows' = [rows EXCEPT ![l] = InsertAt(@, k, id)]
        /\ matching' = [matching EXCEPT ![l] = @ \cup {id}]
        /\ visit' = IF Between(l) THEN [visit EXCEPT !.clean = FALSE] ELSE visit
        /\ UNCHANGED <<startupVars, today, downloads>>

(* A job's status changes, or a user's name: the filter finds a row no     *)
(* longer, or finds one it had not.                                        *)
Change(l) ==
    /\ Runs("bot")
    /\ \E id \in Range(rows[l]) :
          LET leaves == id \in matching[l]
          IN  /\ matching' = [matching EXCEPT ![l] = IF leaves THEN @ \ {id} ELSE @ \cup {id}]
              /\ visit' = IF visit # None /\ visit.page = l /\ visit.filter
                                        /\ (leaves \/ Between(l))
                            THEN [visit EXCEPT !.clean = FALSE] ELSE visit
    /\ UNCHANGED <<startupVars, today, rows, downloads>>

LogDownload ==
    LET id == Cardinality(downloads) + 1
    IN  /\ Runs("bot")
        /\ NumberOfRows < MaxRows
        /\ \E u \in 1..Len(rows["users"]), s \in Sources :
              downloads' = downloads \cup {[id |-> id, user |-> u, source |-> s, day |-> today]}
        /\ UNCHANGED <<startupVars, today, rows, matching, visit>>

(* Bound: a day without a download does not end.                           *)
DayTurns ==
    /\ today + 1 \in Days
    /\ \E d \in downloads : d.day = today
    /\ today' = today + 1
    /\ visit' = IF visit # None /\ Month[today'] # Month[today]
                  THEN [visit EXCEPT !.clean = FALSE] ELSE visit
    /\ UNCHANGED <<startupVars, tables>>

-----------------------------------------------------------------------------
(* The statements.                                                         *)
DownloadsToday == {d \in downloads : d.day = today}
DownloadsThisMonth == {d \in downloads : Month[d.day] = Month[today]}

TotalUsers == Len(rows["users"])

(* All sources together.                                                   *)
DownloadsBySource == Cardinality(downloads)

CountOf(u) == Cardinality({d \in DownloadsThisMonth : d.user = u})

Active == {d.user : d \in DownloadsThisMonth}

(* GetTopUsers: those with the most downloads, ties as the database likes. *)
Rankings ==
    {S \in SUBSET Active :
        /\ Cardinality(S) = IF Cardinality(Active) < TopLimit THEN Cardinality(Active)
                                                              ELSE TopLimit
        /\ \A u \in S, v \in Active \ S : CountOf(u) >= CountOf(v)}

Found(l, filter) ==
    IF filter THEN Range(rows[l]) \cap matching[l] ELSE Range(rows[l])

(* How many of those that are found come no later than the row at k.       *)
Place(l, filter, k) == Cardinality({rows[l][j] : j \in 1..k} \cap Found(l, filter))

(* LIMIT and OFFSET.                                                       *)
Slice(l, filter, number) ==
    {rows[l][k] : k \in {j \in DOMAIN rows[l] :
        /\ rows[l][j] \in Found(l, filter)
        /\ (number - 1) * Limit < Place(l, filter, j)
        /\ Place(l, filter, j) <= number * Limit}}

-----------------------------------------------------------------------------
(* handleDashboard and handleStats.                                        *)
OpenNumbers(name) ==
    /\ Runs("admin")
    /\ visit = None
    /\ visit' = [page |-> name, next |-> 1, today |-> 0, month |-> 0, users |-> 0,
                 top |-> {}, source |-> 0, clean |-> TRUE]
    /\ UNCHANGED <<startupVars, today, tables>>

AtNumbers ==
    /\ Runs("admin")
    /\ visit # None
    /\ visit.page \in DOMAIN Statements
    /\ visit.next <= Len(StatementsOf(visit.page))

Statement == StatementsOf(visit.page)[visit.next]

Execute ==
    /\ AtNumbers
    /\ \/ /\ Statement = "today"
          /\ visit' = [visit EXCEPT !.next = @ + 1, !.today = Cardinality(DownloadsToday)]
       \/ /\ Statement = "month"
          /\ visit' = [visit EXCEPT !.next = @ + 1, !.month = Cardinality(DownloadsThisMonth)]
       \/ /\ Statement = "top"
          /\ \E S \in Rankings : visit' = [visit EXCEPT !.next = @ + 1, !.top = S]
       \/ /\ Statement = "users"
          /\ visit' = [visit EXCEPT !.next = @ + 1, !.users = TotalUsers]
       \/ /\ Statement = "source"
          /\ visit' = [visit EXCEPT !.next = @ + 1, !.source = DownloadsBySource]
    /\ UNCHANGED <<startupVars, today, tables>>

(* Every error is ignored: the page shows a zero.                          *)
StatementFails ==
    /\ "db" \in Faults
    /\ AtNumbers
    /\ visit' = [visit EXCEPT !.next = @ + 1, !.clean = FALSE]
    /\ UNCHANGED <<startupVars, today, tables>>

-----------------------------------------------------------------------------
(* handleJobs and handleUsers: COUNT, then SELECT.                         *)
OpenList(l, filter) ==
    /\ Runs("admin")
    /\ visit = None
    /\ visit' = [page |-> l, filter |-> filter, step |-> "count", number |-> 1, total |-> 0,
                 seen |-> {}, start |-> Found(l, filter), clean |-> TRUE]
    /\ UNCHANGED <<startupVars, today, tables>>

AtList(step) ==
    Runs("admin") /\ visit # None /\ visit.page \in Lists /\ visit.step = step

CountRows ==
    /\ AtList("count")
    /\ visit' = [visit EXCEPT !.step = "select",
                              !.total = Cardinality(Found(visit.page, visit.filter))]
    /\ UNCHANGED <<startupVars, today, tables>>

SelectRows ==
    /\ AtList("select")
    /\ visit' = [visit EXCEPT !.step = "shown",
                     !.seen = @ \cup Slice(visit.page, visit.filter, visit.number)]
    /\ UNCHANGED <<startupVars, today, tables>>

(* The page is empty and has no next one.                                  *)
ListFails ==
    /\ "db" \in Faults
    /\ AtList("count") \/ AtList("select")
    /\ visit' = [visit EXCEPT !.step = "shown", !.total = 0, !.clean = FALSE]
    /\ UNCHANGED <<startupVars, today, tables>>

(* Mutant: there is a page after the last.                                 *)
HasNextLoose == visit.number <= PageCount(visit.total)

HasNext == visit.number < PageCount(visit.total)

NextPage ==
    /\ AtList("shown")
    /\ HasNext
    /\ visit' = [visit EXCEPT !.step = "count", !.number = @ + 1]
    /\ UNCHANGED <<startupVars, today, tables>>

Leave ==
    /\ visit # None
    /\ visit' = None
    /\ UNCHANGED <<startupVars, today, tables>>

-----------------------------------------------------------------------------
Deployment ==
    /\ \/ \E v \in 1..MaxVersion : Up(v)
       \/ Migrating
       \/ \E s \in Services : Create(s) \/ Start(s)
    /\ UNCHANGED <<today, tables, visit>>

(* A page that is being made when the panel dies is not shown.             *)
ServiceDies(s) ==
    /\ Dies(s)
    /\ visit' = IF s = "admin" THEN None ELSE visit
    /\ UNCHANGED <<today, tables>>

Next ==
    \/ Deployment
    \/ \E s \in Services : ServiceDies(s)
    \/ \E l \in Lists : Insert(l) \/ Change(l)
    \/ LogDownload
    \/ DayTurns
    \/ \E name \in DOMAIN Statements : OpenNumbers(name)
    \/ Execute
    \/ StatementFails
    \/ \E l \in Lists, filter \in BOOLEAN : OpenList(l, filter)
    \/ CountRows
    \/ SelectRows
    \/ ListFails
    \/ NextPage
    \/ Leave

Spec == Init /\ [][Next]_vars

-----------------------------------------------------------------------------
(* What must hold.                                                         *)

Finished == visit.next > Len(StatementsOf(visit.page))

LastShown == visit.step = "shown" /\ ~HasNext

(* The numbers of one page fit together though rows are added while they   *)
(* are counted, unless the month turned or a statement failed: a day has   *)
(* no more downloads than its month, a month no more than all sources, and *)
(* no user is ranked who is not counted.  The order of the statements, the *)
(* narrower first, is what this rests on.                                  *)
NumbersFit ==
    visit # None /\ visit.page \in DOMAIN Statements /\ visit.clean /\ Finished =>
        /\ visit.today <= visit.month
        /\ visit.page = "stats" => /\ visit.month <= visit.source
                                   /\ Cardinality(visit.top) <= visit.users

(* Whoever follows the "next" links of a list to the last page has seen    *)
(* every row that its filter found at the start, however many were added on*)
(* the way, unless one came between a page's COUNT and its SELECT, or the  *)
(* filter stopped to find one.                                             *)
PagingMissesNothing ==
    visit # None /\ visit.page \in Lists /\ visit.clean /\ LastShown =>
        visit.start \subseteq visit.seen
=============================================================================
