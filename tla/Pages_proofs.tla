---------------------------- MODULE Pages_proofs ----------------------------
(***************************************************************************)
(* Of Pages, for every number of versions, rows, users and days: that no   *)
(* service runs on tables older than its code, that the numbers of a page  *)
(* fit together, that every number of a visit is one the tables can have,  *)
(* and that paging through a list misses nothing.                          *)
(***************************************************************************)
EXTENDS Pages, FiniteSetTheorems, TLAPS

(* The migrations before the next one are done, and completed means all.   *)
MigrateInv ==
    /\ migrate.next <= version + 1
    /\ migrate.pc = "connect" => migrate.next = 1 /\ migrate.tries < MaxTries
    /\ migrate.pc \in {"exec", "completed"} => 1..(migrate.next - 1) \subseteq applied
    /\ migrate.pc = "completed" => migrate.next = version + 1

StartupInv ==
    /\ StartupTypeOK
    /\ MigrateInv
    /\ ServesMigrated

LEMMA StartupInitInv == StartupInit => StartupInv
BY StartupAssumption
   DEF StartupInit, StartupInv, StartupTypeOK, MigrateInv, ServesMigrated, Files

(* migrate.                                                                *)
LEMMA MigratingInv ==
    ASSUME StartupInv, Migrating \/ \E v \in 1..MaxVersion : Up(v)
    PROVE  StartupInv'
<1> USE StartupAssumption DEF Files
<1>t. /\ StartupTypeOK /\ MigrateInv /\ ServesMigrated
      /\ version \in Nat /\ MaxVersion \in Nat /\ migrate.next \in Nat
  BY DEF StartupInv, StartupTypeOK
<1>1. CASE \E v \in 1..MaxVersion : Up(v)
  <2>1. PICK v \in 1..MaxVersion : Up(v)
    BY <1>1
  <2>2. /\ version' = v /\ v >= version
        /\ migrate' = [pc |-> "connect", tries |-> 0, next |-> 1]
        /\ UNCHANGED <<applied, service>>
    BY <1>t, <2>1 DEF Up
  <2>3. StartupTypeOK'
    BY <1>t, <2>2 DEF StartupTypeOK
  <2>4. MigrateInv' /\ ServesMigrated'
    BY <1>t, <2>2 DEF MigrateInv, ServesMigrated
  <2> QED BY <2>3, <2>4 DEF StartupInv
<1>2. CASE Exec \/ ExecFails
  <2>1. /\ migrate.pc = "exec" /\ migrate.next <= version
        /\ UNCHANGED <<version, service>>
        /\ migrate' \in {[migrate EXCEPT !.next = @ + 1], [migrate EXCEPT !.pc = "failed"]}
        /\ applied' \in {applied, applied \cup {migrate.next}}
        /\ migrate'.pc # "failed" => /\ migrate' = [migrate EXCEPT !.next = @ + 1]
                                     /\ applied' = applied \cup {migrate.next}
    BY <1>2, <1>t DEF Exec, ExecFails, StartupTypeOK
  <2>2. StartupTypeOK'
    BY <1>t, <2>1 DEF StartupTypeOK
  <2>3. 1..(migrate.next - 1) \subseteq applied
    BY <1>t, <2>1 DEF MigrateInv
  <2>4. MigrateInv'
    <3>1. CASE migrate' = [migrate EXCEPT !.pc = "failed"]
      BY <1>t, <2>1, <3>1 DEF MigrateInv, StartupTypeOK
    <3>2. CASE migrate' = [migrate EXCEPT !.next = @ + 1]
      <4>1. migrate'.pc = "exec" /\ migrate'.next = migrate.next + 1
        BY <1>t, <2>1, <3>2 DEF StartupTypeOK
      <4>2. 1..migrate.next \subseteq applied'
        BY <1>t, <2>1, <2>3, <4>1
      <4> QED BY <1>t, <2>1, <4>1, <4>2 DEF MigrateInv
    <3> QED BY <2>1, <3>1, <3>2
  <2>5. ServesMigrated'
    <3>1. \A f \in applied' : 1..f \subseteq applied'
      BY <1>t, <2>1, <2>3 DEF ServesMigrated
    <3> QED BY <1>t, <2>1, <3>1 DEF ServesMigrated
  <2> QED BY <2>2, <2>4, <2>5 DEF StartupInv
<1>3. CASE Connect \/ PingFails \/ Complete \/ MigrateDies
  <2>1. UNCHANGED <<version, applied, service>> /\ migrate'.next = migrate.next
    BY <1>3, <1>t DEF Connect, PingFails, Complete, MigrateDies, StartupTypeOK
  <2>2. PICK p \in {"connect", "exec", "completed", "failed"}, k \in 0..MaxTries :
            /\ migrate' = [migrate EXCEPT !.pc = p, !.tries = k]
            /\ p = "connect" => migrate.pc = "connect" /\ k < MaxTries
            /\ p = "exec" => migrate.pc = "connect"
            /\ p = "completed" => migrate.pc = "exec" /\ migrate.next > version
    <3>1. migrate.pc \in {"connect", "exec", "completed", "failed"} /\ migrate.tries \in 0..MaxTries
      BY <1>t DEF StartupTypeOK
    <3>2. \A p : [migrate EXCEPT !.pc = p] = [migrate EXCEPT !.pc = p, !.tries = migrate.tries]
      BY <1>t DEF StartupTypeOK
    <3>3. CASE Connect
      BY <3>1, <3>2, <3>3 DEF Connect
    <3>4. CASE Complete
      BY <3>1, <3>2, <3>4 DEF Complete
    <3>5. CASE MigrateDies
      BY <3>1, <3>2, <3>5 DEF MigrateDies
    <3>6. CASE PingFails
      <4> DEFINE q == IF migrate.tries + 1 < MaxTries THEN "connect" ELSE "exec"
                 n == migrate.tries + 1
      <4>1. migrate' = [migrate EXCEPT !.tries = n, !.pc = q] /\ migrate.pc = "connect"
        BY <3>6 DEF PingFails
      <4>2. [migrate EXCEPT !.tries = n, !.pc = q] = [migrate EXCEPT !.pc = q, !.tries = n]
        BY <1>t DEF StartupTypeOK
      <4>3. q \in {"connect", "exec"} /\ (q = "connect" => n < MaxTries)
        OBVIOUS
      <4>4. n \in 0..MaxTries
        BY <1>t, <4>1 DEF MigrateInv, StartupTypeOK
      <4> HIDE DEF q, n
      <4> QED BY <4>1, <4>2, <4>3, <4>4
    <3> QED BY <1>3, <3>3, <3>4, <3>5, <3>6
  <2>3. StartupTypeOK' /\ MigrateInv'
    <3>1. migrate'.pc = p /\ migrate'.tries = k
      BY <1>t, <2>2 DEF StartupTypeOK
    <3>2. StartupTypeOK'
      BY <1>t, <2>1, <2>2 DEF StartupTypeOK
    <3>3. MigrateInv'
      BY <1>t, <2>1, <2>2, <3>1 DEF MigrateInv
    <3> QED BY <3>2, <3>3
  <2>4. ServesMigrated'
    BY <1>t, <2>1 DEF ServesMigrated
  <2> QED BY <2>3, <2>4 DEF StartupInv
<1> QED BY <1>1, <1>2, <1>3 DEF Migrating

(* The services.                                                           *)
LEMMA ServicesInv ==
    ASSUME StartupInv, NEW s \in Services, Create(s) \/ Start(s) \/ Dies(s)
    PROVE  StartupInv'
<1> USE StartupAssumption DEF Files
<1>t. /\ StartupTypeOK /\ MigrateInv /\ ServesMigrated
      /\ version \in Nat /\ MaxVersion \in Nat
      /\ UNCHANGED <<version, applied, migrate>>
  BY DEF StartupInv, StartupTypeOK, Create, Start, Dies
<1>1. StartupTypeOK' /\ MigrateInv'
  BY <1>t DEF StartupTypeOK, MigrateInv, Create, Start, Dies
<1>2. CASE Create(s)
  <2>1. 1..version \subseteq applied
    BY <1>2, <1>t DEF Create, MigrateInv
  <2>2. service' = [service EXCEPT ![s] = [pc |-> "starting", version |-> version]]
    BY <1>2 DEF Create
  <2>3. ServesMigrated'
    BY <1>t, <2>1, <2>2 DEF ServesMigrated, StartupTypeOK
  <2> QED BY <1>1, <2>3 DEF StartupInv
<1>3. CASE Start(s) \/ Dies(s)
  <2>1. \A q \in Services : /\ service'[q].pc # "none" => service[q].pc # "none"
                            /\ service'[q].version = service[q].version
    BY <1>3, <1>t DEF Start, Dies, StartupTypeOK
  <2>2. ServesMigrated'
    BY <1>t, <2>1 DEF ServesMigrated
  <2> QED BY <1>1, <2>2 DEF StartupInv
<1> QED BY <1>2, <1>3

-----------------------------------------------------------------------------
(* The pages of numbers.                                                   *)

Numbers == {"dashboard", "stats"}

NumberVisit ==
    [page : Numbers, next : 1..6, today : Nat, month : Nat, users : Nat,
     top : SUBSET Nat, source : Nat, clean : BOOLEAN]

LEMMA NumberFields ==
    ASSUME NEW v \in NumberVisit
    PROVE  /\ v.today \in Nat /\ v.month \in Nat /\ v.next \in 1..6 /\ v.next \in Nat
           /\ v.clean \in BOOLEAN
BY DEF NumberVisit

OnNumbers == visit # None /\ visit.page \in Numbers

VisitInv ==
    /\ visit # None => visit.page \in Numbers \cup Lists
    /\ OnNumbers => visit \in NumberVisit /\ IsFiniteSet(visit.top)
    /\ visit # None /\ visit.page \in Lists => "page" \in DOMAIN visit

(* Who has downloaded is a user.                                           *)
TablesInv ==
    /\ today \in Days
    /\ rows \in [Lists -> Seq(Nat)]
    /\ IsFiniteSet(downloads)
    /\ \A d \in downloads : d.user \in 1..TotalUsers

(* A number already read is no more than what the wider statement that is  *)
(* still to come would count now.                                          *)
FitInv ==
    OnNumbers /\ visit.clean =>
        /\ visit.next = 2 => visit.today <= Cardinality(DownloadsThisMonth)
        /\ visit.next > 2 => visit.today <= visit.month
        /\ visit.page = "stats" =>
              /\ visit.next > 2 => visit.month <= DownloadsBySource
              /\ visit.next = 4 => Cardinality(visit.top) <= TotalUsers
              /\ visit.next > 4 => Cardinality(visit.top) <= visit.users
              /\ visit.next > 5 => visit.month <= visit.source

NumbersInv == TablesInv /\ VisitInv /\ FitInv

LEMMA Lengths ==
    /\ DOMAIN Statements = Numbers
    /\ Len(StatementsOf("dashboard")) = 3 /\ Len(StatementsOf("stats")) = 5
    /\ Numbers \cap Lists = {}
BY DEF Statements, StatementsOf, Numbers, Lists

LEMMA Counts ==
    ASSUME TablesInv
    PROVE  /\ IsFiniteSet(DownloadsToday) /\ Cardinality(DownloadsToday) \in Nat
           /\ IsFiniteSet(DownloadsThisMonth) /\ Cardinality(DownloadsThisMonth) \in Nat
           /\ DownloadsBySource \in Nat
           /\ Cardinality(DownloadsToday) <= Cardinality(DownloadsThisMonth)
           /\ Cardinality(DownloadsThisMonth) <= DownloadsBySource
           /\ TotalUsers \in Nat
<1>1. DownloadsToday \subseteq DownloadsThisMonth /\ DownloadsThisMonth \subseteq downloads
  BY DEF DownloadsToday, DownloadsThisMonth
<1>2. IsFiniteSet(DownloadsThisMonth)
  BY <1>1, FS_Subset DEF TablesInv
<1>3. rows["users"] \in Seq(Nat)
  BY DEF TablesInv, Lists
<1> QED BY <1>1, <1>2, <1>3, FS_Subset, FS_CardinalityType
        DEF TablesInv, DownloadsBySource, TotalUsers

(* Those in a ranking are users.                                           *)
LEMMA Ranked ==
    ASSUME TablesInv, NEW S \in Rankings
    PROVE  S \subseteq Nat /\ Cardinality(S) <= TotalUsers /\ IsFiniteSet(S)
<1>1. S \subseteq 1..TotalUsers
  BY DEF Rankings, Active, DownloadsThisMonth, TablesInv
<1>2. TotalUsers \in Nat
  BY Counts
<1>3. IsFiniteSet(1..TotalUsers) /\ Cardinality(1..TotalUsers) = TotalUsers
  BY <1>2, FS_Interval
<1>4. Cardinality(S) <= TotalUsers /\ IsFiniteSet(S)
  BY <1>1, <1>3, FS_Subset
<1> QED BY <1>1, <1>4

LEMMA Inserted ==
    ASSUME NEW S, NEW s \in Seq(S), NEW x \in S, NEW k \in 1..(Len(s) + 1)
    PROVE  InsertAt(s, k, x) \in Seq(S) /\ Len(InsertAt(s, k, x)) = Len(s) + 1
<1> DEFINE a == SubSeq(s, 1, k - 1)
           b == SubSeq(s, k, Len(s))
<1>1. a \in Seq(S) /\ Len(a) = k - 1
  OBVIOUS
<1>2. b \in Seq(S) /\ Len(b) = Len(s) + 1 - k
  OBVIOUS
<1> HIDE DEF a, b
<1>3. (a \o <<x>>) \o b \in Seq(S) /\ Len((a \o <<x>>) \o b) = Len(a) + 1 + Len(b)
  BY <1>1, <1>2
<1>4. InsertAt(s, k, x) = (a \o <<x>>) \o b
  BY DEF InsertAt, a, b
<1>5. Len(s) \in Nat /\ k \in Nat
  OBVIOUS
<1> QED BY <1>1, <1>2, <1>3, <1>4, <1>5

(* The tables only grow...                                                 *)
Writes ==
    \/ \E l \in Lists : Insert(l) \/ Change(l)
    \/ LogDownload
    \/ DayTurns

LEMMA TablesGrow ==
    ASSUME TablesInv, Writes
    PROVE  /\ TablesInv'
           /\ downloads \subseteq downloads' /\ TotalUsers <= TotalUsers'
<1> USE PagesAssumption
<1>t. TotalUsers \in Nat /\ \A l \in Lists : rows[l] \in Seq(Nat)
  BY Counts DEF TablesInv
<1>1. CASE \E l \in Lists : Insert(l)
  <2>1. PICK l \in Lists : Insert(l)
    BY <1>1
  <2> DEFINE id == Len(rows[l]) + 1
  <2>2. PICK k \in 1..2 : k <= id /\ rows' = [rows EXCEPT ![l] = InsertAt(rows[l], k, id)]
    BY <2>1 DEF Insert
  <2>3. UNCHANGED <<today, downloads>>
    BY <2>1 DEF Insert
  <2>4. id \in Nat /\ k \in 1..(Len(rows[l]) + 1)
    BY <1>t, <2>2
  <2>5. InsertAt(rows[l], k, id) \in Seq(Nat) /\ Len(InsertAt(rows[l], k, id)) = Len(rows[l]) + 1
    BY <1>t, <2>4, Inserted
  <2>6. rows' \in [Lists -> Seq(Nat)]
    BY <2>2, <2>5 DEF TablesInv
  <2>7. TotalUsers <= TotalUsers' /\ TotalUsers' \in Nat
    <3>1. "users" \in Lists
      BY DEF Lists
    <3>2. rows'["users"] = rows["users"] \/ Len(rows'["users"]) = Len(rows["users"]) + 1
      BY <2>2, <2>5, <3>1 DEF TablesInv
    <3>3. Len(rows["users"]) \in Nat
      BY <1>t, <3>1
    <3> HIDE DEF id
    <3> QED BY <3>2, <3>3 DEF TotalUsers
  <2>8. TablesInv'
    BY <1>t, <2>3, <2>6, <2>7 DEF TablesInv
  <2> QED BY <2>3, <2>7, <2>8
<1>2. CASE LogDownload
  <2>1. PICK u \in 1..Len(rows["users"]), s \in Sources :
            downloads' = downloads \cup
               {[id |-> Cardinality(downloads) + 1, user |-> u, source |-> s, day |-> today]}
    BY <1>2 DEF LogDownload
  <2>2. UNCHANGED <<today, rows>>
    BY <1>2 DEF LogDownload
  <2>3. IsFiniteSet(downloads')
    BY <2>1, FS_AddElement DEF TablesInv
  <2> QED BY <1>t, <2>1, <2>2, <2>3 DEF TablesInv, TotalUsers
<1>3. CASE (\E l \in Lists : Change(l)) \/ DayTurns
  <2>1. UNCHANGED <<rows, downloads>> /\ today' \in Days
    BY <1>3 DEF Change, DayTurns, tables, TablesInv
  <2> QED BY <1>t, <2>1 DEF TablesInv, TotalUsers
<1> QED BY <1>1, <1>2, <1>3 DEF Writes

(* ... and a page of numbers sees nothing of it but the turn of the month. *)
LEMMA WritesInv ==
    ASSUME NumbersInv, Writes
    PROVE  NumbersInv'
<1> USE PagesAssumption
<1>t. TablesInv /\ VisitInv /\ FitInv
  BY DEF NumbersInv
<1>1. /\ TablesInv'
      /\ downloads \subseteq downloads' /\ TotalUsers <= TotalUsers'
  BY <1>t, TablesGrow
<1>2. \/ visit' = visit /\ (visit = None \/ Month[today'] = Month[today])
      \/ visit # None /\ visit' = [visit EXCEPT !.clean = FALSE]
  <2>1. ASSUME NEW l \in Lists, Insert(l)
        PROVE  /\ today' = today
               /\ visit' = visit \/ (visit # None /\ visit' = [visit EXCEPT !.clean = FALSE])
    BY <2>1 DEF Insert, Between
  <2>2. ASSUME NEW l \in Lists, Change(l)
        PROVE  /\ today' = today
               /\ visit' = visit \/ (visit # None /\ visit' = [visit EXCEPT !.clean = FALSE])
    BY <2>2 DEF Change
  <2>3. CASE LogDownload
    BY <2>3 DEF LogDownload
  <2>4. CASE DayTurns
    BY <2>4 DEF DayTurns
  <2> QED BY <2>1, <2>2, <2>3, <2>4 DEF Writes
<1>3. visit' # None => visit # None /\ visit'.page = visit.page
  BY <1>t, <1>2 DEF VisitInv, OnNumbers, NumberVisit
<1>4. VisitInv'
  <2>1. CASE visit' = visit
    BY <1>t, <2>1 DEF VisitInv, OnNumbers
  <2>2. CASE visit # None /\ visit' = [visit EXCEPT !.clean = FALSE]
    BY <1>t, <1>3, <2>2 DEF VisitInv, OnNumbers, NumberVisit
  <2> QED BY <1>2, <2>1, <2>2
<1>5. ASSUME OnNumbers', visit'.clean
      PROVE  visit' = visit /\ Month[today'] = Month[today] /\ OnNumbers
  <2>1. visit \in NumberVisit /\ OnNumbers /\ visit # None
    BY <1>t, <1>3, <1>5 DEF VisitInv, OnNumbers
  <2> QED BY <1>2, <1>5, <2>1 DEF NumberVisit
<1>6. FitInv'
  <2> SUFFICES ASSUME OnNumbers', visit'.clean
               PROVE  FitInv'
    BY DEF FitInv
  <2>1. visit' = visit /\ Month[today'] = Month[today] /\ OnNumbers /\ visit \in NumberVisit
    BY <1>t, <1>5 DEF VisitInv
  <2>2. DownloadsThisMonth \subseteq DownloadsThisMonth'
    BY <1>1, <2>1 DEF DownloadsThisMonth
  <2>3. /\ Cardinality(DownloadsThisMonth) \in Nat /\ Cardinality(DownloadsThisMonth') \in Nat
        /\ Cardinality(DownloadsThisMonth) <= Cardinality(DownloadsThisMonth')
        /\ DownloadsBySource \in Nat /\ DownloadsBySource' \in Nat
        /\ DownloadsBySource <= DownloadsBySource'
        /\ TotalUsers \in Nat /\ TotalUsers' \in Nat
    <3>1. IsFiniteSet(downloads) /\ IsFiniteSet(downloads')
      BY <1>t, <1>1 DEF TablesInv
    <3>2. DownloadsThisMonth' \subseteq downloads'
      BY DEF DownloadsThisMonth
    <3>3. IsFiniteSet(DownloadsThisMonth')
      BY <3>1, <3>2, FS_Subset
    <3>4. rows' \in [Lists -> Seq(Nat)] /\ rows \in [Lists -> Seq(Nat)] /\ "users" \in Lists
      BY <1>t, <1>1 DEF TablesInv, Lists
    <3> QED BY <1>1, <2>2, <3>1, <3>3, <3>4, FS_Subset, FS_CardinalityType
            DEF DownloadsBySource, TotalUsers
  <2>4. visit.clean /\ visit.today \in Nat /\ visit.month \in Nat /\ visit.next \in Nat
    <3>1. visit.today \in Nat /\ visit.month \in Nat /\ visit.next \in Nat
      BY <2>1, NumberFields
    <3>2. visit.clean
      BY <2>1
    <3> QED BY <3>1, <3>2
  <2>5. /\ visit.next = 2 => visit.today <= Cardinality(DownloadsThisMonth)
        /\ visit.next > 2 => visit.today <= visit.month
        /\ visit.page = "stats" =>
              /\ visit.next > 2 => visit.month <= DownloadsBySource
              /\ visit.next = 4 => Cardinality(visit.top) <= TotalUsers
              /\ visit.next > 4 => Cardinality(visit.top) <= visit.users
              /\ visit.next > 5 => visit.month <= visit.source
    BY <1>t, <2>1, <2>4 DEF FitInv
  <2>6. Cardinality(visit.top) \in Nat
    BY <1>t, <2>1, FS_CardinalityType DEF VisitInv
  <2>7. visit.page = "stats" /\ visit.next = 4 => Cardinality(visit.top) <= TotalUsers'
    BY <1>1, <2>3, <2>5, <2>6
  <2>8. visit.next = 2 => visit.today <= Cardinality(DownloadsThisMonth')
    BY <2>3, <2>4, <2>5
  <2>9. visit.page = "stats" /\ visit.next > 2 => visit.month <= DownloadsBySource'
    BY <2>3, <2>4, <2>5
  <2> QED BY <2>1, <2>5, <2>7, <2>8, <2>9 DEF FitInv
<1> QED BY <1>1, <1>4, <1>6 DEF NumbersInv

LEMMA StatementAt ==
    ASSUME VisitInv, AtNumbers
    PROVE  /\ OnNumbers /\ visit \in NumberVisit /\ visit.next \in 1..5
           /\ Statement = "today" => visit.next = 1
           /\ Statement = "month" => visit.next = 2
           /\ Statement = "top" => visit.next = 3
           /\ Statement = "users" => \/ visit.page = "dashboard" /\ visit.next = 3
                                     \/ visit.page = "stats" /\ visit.next = 4
           /\ Statement = "source" => visit.next = 5
<1>1. OnNumbers /\ visit \in NumberVisit
  BY Lengths DEF AtNumbers, OnNumbers, VisitInv
<1>2. visit.next \in 1..6 /\ visit.next <= Len(StatementsOf(visit.page))
  BY <1>1 DEF AtNumbers, NumberVisit
<1>3. CASE visit.page = "dashboard"
  <2>1. StatementsOf("dashboard") = <<"today", "month", "users">>
    BY DEF StatementsOf, Statements
  <2>2. visit.next \in {1, 2, 3}
    <3>1. Len(StatementsOf(visit.page)) = 3
      BY <1>3, Lengths
    <3>2. visit.next \in 1..3
      BY <1>2, <3>1
    <3> QED BY <3>2
  <2> QED BY <1>1, <1>3, <2>1, <2>2 DEF Statement
<1>4. CASE visit.page = "stats"
  <2>1. StatementsOf("stats") = <<"today", "month", "top", "users", "source">>
    BY DEF StatementsOf, Statements
  <2>2. visit.next \in {1, 2, 3, 4, 5}
    <3>1. Len(StatementsOf(visit.page)) = 5
      BY <1>4, Lengths
    <3>2. visit.next \in 1..5
      BY <1>2, <3>1
    <3> QED BY <3>2
  <2> QED BY <1>1, <1>4, <2>1, <2>2 DEF Statement
<1> QED BY <1>1, <1>3, <1>4 DEF OnNumbers, Numbers

(* Each statement keeps what the ones before it counted below what it      *)
(* counts.                                                                 *)
LEMMA ExecuteInv ==
    ASSUME NumbersInv, Execute
    PROVE  NumbersInv'
<1>t. /\ TablesInv /\ VisitInv /\ FitInv
      /\ UNCHANGED <<today, rows, downloads>>
  BY DEF NumbersInv, Execute, tables
<1>1. AtNumbers /\ visit # None
  BY DEF Execute, AtNumbers
<1>2. /\ OnNumbers /\ visit \in NumberVisit /\ visit.next \in 1..5
      /\ IsFiniteSet(visit.top) /\ Cardinality(visit.top) \in Nat
  BY <1>t, <1>1, StatementAt, FS_CardinalityType DEF VisitInv
<1>3. /\ Cardinality(DownloadsToday) \in Nat
      /\ Cardinality(DownloadsThisMonth) \in Nat
      /\ DownloadsBySource \in Nat /\ TotalUsers \in Nat
      /\ Cardinality(DownloadsToday) <= Cardinality(DownloadsThisMonth)
      /\ Cardinality(DownloadsThisMonth) <= DownloadsBySource
  BY <1>t, Counts
<1>4. TablesInv'
  BY <1>t DEF TablesInv, TotalUsers
<1>m. PICK m \in 1..6 : m = visit.next + 1
  BY <1>2
<1>5. \/ /\ visit.next = 1
         /\ visit' = [visit EXCEPT !.next = m, !.today = Cardinality(DownloadsToday)]
      \/ /\ visit.next = 2
         /\ visit' = [visit EXCEPT !.next = m, !.month = Cardinality(DownloadsThisMonth)]
      \/ /\ visit.next = 3
         /\ \E S \in Rankings : visit' = [visit EXCEPT !.next = m, !.top = S]
      \/ /\ \/ visit.page = "dashboard" /\ visit.next = 3
            \/ visit.page = "stats" /\ visit.next = 4
         /\ visit' = [visit EXCEPT !.next = m, !.users = TotalUsers]
      \/ /\ visit.next = 5
         /\ visit' = [visit EXCEPT !.next = m, !.source = DownloadsBySource]
  BY <1>t, <1>1, <1>m, StatementAt DEF Execute
<1>6. VisitInv' /\ FitInv'
  <2>f. visit.clean =>
          /\ visit.next = 2 => visit.today <= Cardinality(DownloadsThisMonth)
          /\ visit.next > 2 => visit.today <= visit.month
          /\ visit.page = "stats" =>
                /\ visit.next > 2 => visit.month <= DownloadsBySource
                /\ visit.next = 4 => Cardinality(visit.top) <= TotalUsers
                /\ visit.next > 4 => Cardinality(visit.top) <= visit.users
                /\ visit.next > 5 => visit.month <= visit.source
    BY <1>t, <1>2 DEF FitInv
  <2>u. /\ Cardinality(DownloadsThisMonth)' = Cardinality(DownloadsThisMonth)
        /\ DownloadsBySource' = DownloadsBySource /\ TotalUsers' = TotalUsers
    BY <1>t DEF DownloadsThisMonth, DownloadsBySource, TotalUsers
  <2> SUFFICES ASSUME visit' # None
               PROVE  /\ visit' \in NumberVisit /\ IsFiniteSet(visit'.top)
                      /\ visit'.clean =>
                          /\ visit'.next = 2 => visit'.today <= Cardinality(DownloadsThisMonth)
                          /\ visit'.next > 2 => visit'.today <= visit'.month
                          /\ visit'.page = "stats" =>
                              /\ visit'.next > 2 => visit'.month <= DownloadsBySource
                              /\ visit'.next = 4 => Cardinality(visit'.top) <= TotalUsers
                              /\ visit'.next > 4 => Cardinality(visit'.top) <= visit'.users
                              /\ visit'.next > 5 => visit'.month <= visit'.source
    <3>1. Numbers \cap Lists = {}
      BY Lengths
    <3> QED BY <2>u, <3>1 DEF VisitInv, FitInv, OnNumbers, NumberVisit
  <2>1. CASE /\ visit.next = 1
             /\ visit' = [visit EXCEPT !.next = m, !.today = Cardinality(DownloadsToday)]
    <3>1. visit' \in NumberVisit
      BY <1>2, <1>3, <2>1 DEF NumberVisit
    <3>2. /\ visit'.next = visit.next + 1 /\ visit'.today = Cardinality(DownloadsToday)
          /\ visit'.month = visit.month /\ visit'.users = visit.users /\ visit'.top = visit.top
          /\ visit'.source = visit.source /\ visit'.page = visit.page /\ visit'.clean = visit.clean
      BY <1>2, <1>m, <2>1 DEF NumberVisit
    <3>3. visit.today \in Nat /\ visit.month \in Nat /\ visit.page \in Numbers
      BY <1>2 DEF NumberVisit
    <3> QED BY <1>2, <1>3, <2>f, <2>1, <3>1, <3>2, <3>3
  <2>2. CASE /\ visit.next = 2
             /\ visit' = [visit EXCEPT !.next = m, !.month = Cardinality(DownloadsThisMonth)]
    <3>1. visit' \in NumberVisit
      BY <1>2, <1>3, <2>2 DEF NumberVisit
    <3>2. /\ visit'.next = visit.next + 1 /\ visit'.month = Cardinality(DownloadsThisMonth)
          /\ visit'.today = visit.today /\ visit'.users = visit.users /\ visit'.top = visit.top
          /\ visit'.source = visit.source /\ visit'.page = visit.page /\ visit'.clean = visit.clean
      BY <1>2, <1>m, <2>2 DEF NumberVisit
    <3>3. visit.today \in Nat /\ visit.month \in Nat /\ visit.page \in Numbers
      BY <1>2 DEF NumberVisit
    <3> QED BY <1>2, <1>3, <2>f, <2>2, <3>1, <3>2, <3>3
  <2>3. CASE /\ visit.next = 3
             /\ \E S \in Rankings : visit' = [visit EXCEPT !.next = m, !.top = S]
    <3>1. PICK S \in Rankings : visit' = [visit EXCEPT !.next = m, !.top = S]
      BY <2>3
    <3>2. S \subseteq Nat /\ Cardinality(S) <= TotalUsers /\ IsFiniteSet(S)
      BY <1>t, Ranked
    <3>3. visit' \in NumberVisit
      BY <1>2, <1>3, <3>1, <3>2, <2>3 DEF NumberVisit
    <3>4. /\ visit'.next = visit.next + 1 /\ visit'.top = S
          /\ visit'.today = visit.today /\ visit'.month = visit.month /\ visit'.users = visit.users
          /\ visit'.source = visit.source /\ visit'.page = visit.page /\ visit'.clean = visit.clean
      BY <1>2, <1>m, <3>1, <3>2, <2>3 DEF NumberVisit
    <3>5. visit.today \in Nat /\ visit.month \in Nat /\ visit.page \in Numbers
      BY <1>2 DEF NumberVisit
    <3> QED BY <1>2, <1>3, <2>f, <3>1, <3>2, <2>3, <3>3, <3>4, <3>5
  <2>4. CASE /\ \/ visit.page = "dashboard" /\ visit.next = 3
                \/ visit.page = "stats" /\ visit.next = 4
             /\ visit' = [visit EXCEPT !.next = m, !.users = TotalUsers]
    <3>1. visit' \in NumberVisit
      BY <1>2, <1>3, <2>4 DEF NumberVisit
    <3>2. /\ visit'.next = visit.next + 1 /\ visit'.users = TotalUsers
          /\ visit'.today = visit.today /\ visit'.month = visit.month /\ visit'.top = visit.top
          /\ visit'.source = visit.source /\ visit'.page = visit.page /\ visit'.clean = visit.clean
      BY <1>2, <1>m, <2>4 DEF NumberVisit
    <3>3. visit.today \in Nat /\ visit.month \in Nat /\ visit.page \in Numbers
      BY <1>2 DEF NumberVisit
    <3> QED BY <1>2, <1>3, <2>f, <2>4, <3>1, <3>2, <3>3
  <2>5. CASE /\ visit.next = 5
             /\ visit' = [visit EXCEPT !.next = m, !.source = DownloadsBySource]
    <3>1. visit' \in NumberVisit
      BY <1>2, <1>3, <2>5 DEF NumberVisit
    <3>2. /\ visit'.next = visit.next + 1 /\ visit'.source = DownloadsBySource
          /\ visit'.today = visit.today /\ visit'.month = visit.month /\ visit'.users = visit.users
          /\ visit'.top = visit.top /\ visit'.page = visit.page /\ visit'.clean = visit.clean
      BY <1>2, <1>m, <2>5 DEF NumberVisit
    <3>3. visit.today \in Nat /\ visit.month \in Nat /\ visit.page \in Numbers
      BY <1>2 DEF NumberVisit
    <3> QED BY <1>2, <1>3, <2>f, <2>5, <3>1, <3>2, <3>3
  <2> QED BY <1>5, <2>1, <2>2, <2>3, <2>4, <2>5
<1> QED BY <1>4, <1>6 DEF NumbersInv

(* The other steps of a visit.                                             *)
LEMMA VisitStepInv ==
    ASSUME NumbersInv,
           \/ \E name \in DOMAIN Statements : OpenNumbers(name)
           \/ StatementFails
           \/ \E l \in Lists, filter \in BOOLEAN : OpenList(l, filter)
           \/ CountRows \/ SelectRows \/ ListFails \/ NextPage \/ Leave
    PROVE  NumbersInv'
<1>t. /\ TablesInv /\ VisitInv /\ FitInv
      /\ UNCHANGED <<today, rows, downloads>>
  BY DEF NumbersInv, OpenNumbers, StatementFails, OpenList, CountRows, SelectRows, ListFails,
         NextPage, Leave, tables
<1>1. TablesInv'
  BY <1>t DEF TablesInv, TotalUsers
<1>2. CASE \E name \in DOMAIN Statements : OpenNumbers(name)
  <2>1. PICK name \in Numbers :
            visit' = [page |-> name, next |-> 1, today |-> 0, month |-> 0, users |-> 0,
                      top |-> {}, source |-> 0, clean |-> TRUE]
    BY <1>2, Lengths DEF OpenNumbers
  <2>2. visit' \in NumberVisit /\ IsFiniteSet(visit'.top) /\ visit'.next = 1
    BY <2>1, FS_EmptySet DEF NumberVisit
  <2>3. VisitInv' /\ FitInv'
    BY <2>1, <2>2, Lengths DEF VisitInv, FitInv, OnNumbers, NumberVisit
  <2> QED BY <1>1, <2>3 DEF NumbersInv
<1>3. CASE StatementFails
  <2>1. AtNumbers /\ visit' = [visit EXCEPT !.next = @ + 1, !.clean = FALSE]
    BY <1>3 DEF StatementFails
  <2>2. /\ visit \in NumberVisit /\ IsFiniteSet(visit.top) /\ visit.next \in 1..5
    BY <1>t, <2>1, StatementAt DEF VisitInv
  <2>m. PICK m \in 1..6 : m = visit.next + 1
    BY <2>2
  <2>n. visit' = [visit EXCEPT !.next = m, !.clean = FALSE]
    BY <2>1, <2>m
  <2>3. visit' \in NumberVisit /\ IsFiniteSet(visit'.top) /\ ~visit'.clean
    <3>1. visit' \in NumberVisit
      BY <2>2, <2>n DEF NumberVisit
    <3>2. visit'.top = visit.top /\ visit'.clean = FALSE
      BY <2>2, <2>n DEF NumberVisit
    <3> QED BY <2>2, <3>1, <3>2
  <2>4. VisitInv' /\ FitInv'
    BY <2>3, Lengths DEF VisitInv, FitInv, OnNumbers, NumberVisit
  <2> QED BY <1>1, <2>4 DEF NumbersInv
<1>4. CASE \/ \E l \in Lists, filter \in BOOLEAN : OpenList(l, filter)
           \/ CountRows \/ SelectRows \/ ListFails \/ NextPage \/ Leave
  <2>1. visit' # None => visit'.page \in Lists /\ "page" \in DOMAIN visit'
    <3>1. CASE \E l \in Lists, filter \in BOOLEAN : OpenList(l, filter)
      BY <3>1 DEF OpenList
    <3>2. CASE Leave
      BY <3>2 DEF Leave
    <3>3. CASE CountRows \/ SelectRows \/ ListFails \/ NextPage
      <4>1. visit.page \in Lists /\ "page" \in DOMAIN visit
        BY <1>t, <3>3 DEF CountRows, SelectRows, ListFails, NextPage, AtList, VisitInv
      <4> QED BY <3>3, <4>1 DEF CountRows, SelectRows, ListFails, NextPage
    <3> QED BY <1>4, <3>1, <3>2, <3>3
  <2>2. VisitInv' /\ FitInv'
    BY <2>1, Lengths DEF VisitInv, FitInv, OnNumbers
  <2> QED BY <1>1, <2>2 DEF NumbersInv
<1> QED BY <1>2, <1>3, <1>4

-----------------------------------------------------------------------------
IInv == StartupInv /\ NumbersInv

LEMMA InitInv == Init => IInv
<1> SUFFICES ASSUME Init PROVE IInv
  OBVIOUS
<1>1. StartupInv
  BY StartupInitInv DEF Init
<1>2. NumbersInv
  <2>1. /\ today = 1 /\ downloads = {} /\ visit = None
        /\ rows = [l \in Lists |-> <<>>]
    BY DEF Init
  <2>2. 1 \in Days
    BY PagesAssumption DEF Days
  <2>3. TablesInv
    BY <2>1, <2>2, FS_EmptySet DEF TablesInv
  <2>4. VisitInv /\ FitInv
    BY <2>1 DEF VisitInv, FitInv, OnNumbers
  <2> QED BY <2>3, <2>4 DEF NumbersInv
<1> QED BY <1>1, <1>2 DEF IInv

LEMMA Elsewhere ==
    ASSUME NumbersInv, UNCHANGED <<today, tables>>, visit' \in {None, visit}
    PROVE  NumbersInv'
BY DEF NumbersInv, TablesInv, VisitInv, FitInv, OnNumbers, TotalUsers, DownloadsThisMonth,
       DownloadsBySource, tables

LEMMA StartupStutters ==
    ASSUME StartupInv, UNCHANGED startupVars
    PROVE  StartupInv'
BY DEF StartupInv, StartupTypeOK, MigrateInv, ServesMigrated, startupVars

LEMMA NextInv == IInv /\ [Next]_vars => IInv'
<1> SUFFICES ASSUME IInv, [Next]_vars PROVE IInv'
  OBVIOUS
<1>t. StartupInv /\ NumbersInv
  BY DEF IInv
<1>1. CASE Deployment \/ \E s \in Services : ServiceDies(s)
  <2>1. StartupInv'
    BY <1>t, <1>1, MigratingInv, ServicesInv DEF Deployment, ServiceDies
  <2>2. NumbersInv'
    BY <1>t, <1>1, Elsewhere DEF Deployment, ServiceDies
  <2> QED BY <2>1, <2>2 DEF IInv
<1>2. CASE Writes
  <2>1. UNCHANGED startupVars
    BY <1>2 DEF Writes, Insert, Change, LogDownload, DayTurns
  <2> QED BY <1>t, <1>2, <2>1, WritesInv, StartupStutters DEF IInv
<1>3. CASE Execute
  <2>1. UNCHANGED startupVars
    BY <1>3 DEF Execute
  <2> QED BY <1>t, <1>3, <2>1, ExecuteInv, StartupStutters DEF IInv
<1>4. CASE \/ \E name \in DOMAIN Statements : OpenNumbers(name)
           \/ StatementFails
           \/ \E l \in Lists, filter \in BOOLEAN : OpenList(l, filter)
           \/ CountRows \/ SelectRows \/ ListFails \/ NextPage \/ Leave
  <2>1. UNCHANGED startupVars
    BY <1>4 DEF OpenNumbers, StatementFails, OpenList, CountRows, SelectRows, ListFails,
                NextPage, Leave
  <2> QED BY <1>t, <1>4, <2>1, VisitStepInv, StartupStutters DEF IInv
<1>5. CASE UNCHANGED vars
  BY <1>t, <1>5, Elsewhere, StartupStutters DEF vars, IInv
<1> QED BY <1>1, <1>2, <1>3, <1>4, <1>5 DEF Next, Writes

THEOREM Invariance == Spec => []IInv
<1> QED BY InitInv, NextInv, PTL DEF Spec

(* Whatever fails and is tried again, a service runs only on tables that   *)
(* all migrations of its version have been applied to.                     *)
THEOREM TablesBeforeCode == Spec => []ServesMigrated
<1>1. IInv => ServesMigrated
  BY DEF IInv, StartupInv
<1> QED BY <1>1, Invariance, PTL

(* The numbers of a page fit together without a transaction.               *)
THEOREM NumbersConsistent == Spec => []NumbersFit
<1>1. ASSUME IInv, visit # None, visit.page \in DOMAIN Statements, visit.clean, Finished
      PROVE  /\ visit.today <= visit.month
             /\ visit.page = "stats" => /\ visit.month <= visit.source
                                        /\ Cardinality(visit.top) <= visit.users
  <2>1. FitInv /\ OnNumbers /\ visit \in NumberVisit
    BY <1>1, Lengths DEF IInv, NumbersInv, VisitInv, OnNumbers
  <2>2. /\ visit.page = "dashboard" => visit.next > 3
        /\ visit.page = "stats" => visit.next > 5
        /\ visit.page \in Numbers /\ visit.next \in Nat
    <3>1. visit.page \in Numbers /\ visit.next \in Nat
      BY <2>1 DEF NumberVisit
    <3>2. /\ visit.page = "dashboard" => Len(StatementsOf(visit.page)) = 3
          /\ visit.page = "stats" => Len(StatementsOf(visit.page)) = 5
      BY Lengths
    <3> QED BY <1>1, <3>1, <3>2 DEF Finished
  <2>3. visit.next > 2
    BY <2>2 DEF Numbers
  <2> QED BY <1>1, <2>1, <2>2, <2>3 DEF FitInv
<1>2. IInv => NumbersFit
  BY <1>1 DEF NumbersFit
<1> QED BY <1>2, Invariance, PTL

-----------------------------------------------------------------------------
(* Pages as numbers: how many a list takes, and what the last one reaches. *)

LEMMA Division ==
    ASSUME NEW n \in Nat, NEW d \in Nat \ {0}
    PROVE  /\ n \div d \in Nat /\ n % d \in 0..(d - 1)
           /\ n = d * (n \div d) + (n % d)
<1>1. n \div d \in Int /\ n % d \in 0..(d - 1) /\ n = d * (n \div d) + (n % d)
  OBVIOUS
<1>2. n \div d >= 0
  BY <1>1
<1> QED BY <1>1, <1>2

LEMMA TimesMore ==
    ASSUME NEW a \in Nat, NEW b \in Nat, NEW d \in Nat \ {0}
    PROVE  /\ a <= b => a * d <= b * d
           /\ b > a => b * d >= a * d + d
OBVIOUS

LEMMA PageCountIs ==
    ASSUME NEW n \in Nat
    PROVE  /\ PageCount(n) \in Nat
           /\ n <= PageCount(n) * Limit
           /\ PageCount(n) * Limit < n + Limit
<1> DEFINE q == (n + Limit - 1) \div Limit
           r == (n + Limit - 1) % Limit
<1>1. Limit \in Nat \ {0} /\ (n + Limit - 1) \in Nat
  BY PagesAssumption
<1>2. q \in Nat /\ r \in 0..(Limit - 1) /\ n + Limit - 1 = Limit * q + r
  BY <1>1, Division
<1>3. q = PageCount(n)
  BY DEF PageCount
<1> HIDE DEF q, r
<1>4. Limit * q = q * Limit /\ q * Limit \in Nat
  BY <1>1, <1>2
<1> QED BY <1>1, <1>2, <1>3, <1>4

LEMMA PageCountGrows ==
    ASSUME NEW m \in Nat, NEW n \in Nat, m <= n
    PROVE  PageCount(m) <= PageCount(n) /\ (m > 0 => PageCount(m) > 0)
<1> DEFINE a == PageCount(m)
           b == PageCount(n)
<1>1. /\ a \in Nat /\ b \in Nat /\ Limit \in Nat \ {0}
      /\ m <= a * Limit /\ a * Limit < m + Limit
      /\ n <= b * Limit
  BY PageCountIs, PagesAssumption
<1> HIDE DEF a, b
<1>2. b < a => b * Limit + Limit <= a * Limit
  BY <1>1, TimesMore
<1>3. a * Limit \in Nat /\ b * Limit \in Nat
  BY <1>1
<1>4. a = 0 => a * Limit = 0
  BY <1>1
<1>5. a <= b
  BY <1>1, <1>2, <1>3
<1>6. m > 0 => a > 0
  BY <1>1, <1>3, <1>4
<1> QED BY <1>5, <1>6 DEF a, b

(* What is not behind the last page is on one of its pages.                *)
LEMMA LastPageHolds ==
    ASSUME NEW total \in Nat, NEW number \in Nat, ~(number < PageCount(total)),
           NEW place \in Nat, place <= total
    PROVE  place <= number * Limit
<1> DEFINE c == PageCount(total)
<1>1. c \in Nat /\ total <= c * Limit /\ Limit \in Nat \ {0}
  BY PageCountIs, PagesAssumption
<1>2. c <= number
  BY <1>1
<1> HIDE DEF c
<1>3. c * Limit <= number * Limit
  BY <1>1, <1>2, TimesMore
<1>4. c * Limit \in Nat /\ number * Limit \in Nat
  BY <1>1
<1> QED BY <1>1, <1>3, <1>4

LEMMA InsertedAt ==
    ASSUME NEW S, NEW s \in Seq(S), NEW x \in S, NEW k \in 1..(Len(s) + 1)
    PROVE  \A j \in 1..(Len(s) + 1) :
              InsertAt(s, k, x)[j] = IF j < k THEN s[j] ELSE IF j = k THEN x ELSE s[j - 1]
<1> DEFINE a == SubSeq(s, 1, k - 1)
           b == SubSeq(s, k, Len(s))
<1>1. a \in Seq(S) /\ Len(a) = k - 1 /\ \A j \in 1..(k - 1) : a[j] = s[j]
  OBVIOUS
<1>2. b \in Seq(S) /\ Len(b) = Len(s) + 1 - k /\ \A j \in 1..(Len(s) + 1 - k) : b[j] = s[k + j - 1]
  OBVIOUS
<1>3. InsertAt(s, k, x) = (a \o <<x>>) \o b
  BY DEF InsertAt
<1>4. Len(s) \in Nat /\ k \in Nat
  OBVIOUS
<1> HIDE DEF a, b
<1>5. /\ a \o <<x>> \in Seq(S) /\ Len(a \o <<x>>) = k
      /\ \A j \in 1..(k - 1) : (a \o <<x>>)[j] = s[j]
      /\ (a \o <<x>>)[k] = x
  BY <1>1, <1>4
<1>6. \A j \in 1..(Len(s) + 1) :
         ((a \o <<x>>) \o b)[j] = IF j <= k THEN (a \o <<x>>)[j] ELSE b[j - k]
  <2> DEFINE c == a \o <<x>>
             n == Len(s) + 1
  <2>1. c \in Seq(S) /\ Len(c) = k /\ b \in Seq(S) /\ Len(b) = n - k /\ n \in Nat
    BY <1>2, <1>4, <1>5
  <2> HIDE DEF c, n
  <2>2. \A j \in 1..n : (c \o b)[j] = IF j <= k THEN c[j] ELSE b[j - k]
    BY <1>4, <2>1
  <2> QED BY <2>2 DEF c, n
<1>7. \A j \in 1..(Len(s) + 1) : j > k => b[j - k] = s[j - 1]
  <2> TAKE j \in 1..(Len(s) + 1)
  <2>1. j > k => (j - k) \in 1..(Len(s) + 1 - k) /\ k + (j - k) - 1 = j - 1
    BY <1>4
  <2> QED BY <1>2, <2>1
<1> TAKE j \in 1..(Len(s) + 1)
<1>8. j \in Nat /\ (j < k => j \in 1..(k - 1))
  BY <1>4
<1>9. CASE j < k
  BY <1>3, <1>4, <1>5, <1>6, <1>8, <1>9
<1>10. CASE j = k
  BY <1>3, <1>5, <1>6, <1>10
<1>11. CASE j > k
  <2>1. ~(j < k) /\ j # k /\ ~(j <= k)
    BY <1>4, <1>8, <1>11
  <2>2. ((a \o <<x>>) \o b)[j] = b[j - k]
    BY <1>6, <2>1
  <2>3. b[j - k] = s[j - 1]
    BY <1>7, <1>11
  <2> QED BY <1>3, <2>1, <2>2, <2>3
<1> QED BY <1>4, <1>8, <1>9, <1>10, <1>11

-----------------------------------------------------------------------------
(* The rows, and the types of a visit.                                     *)

ListVisit ==
    [page : Lists, filter : BOOLEAN, step : {"count", "select", "shown"},
     number : 1..PageCount(MaxRows), total : 0..MaxRows,
     seen : SUBSET Ids, start : SUBSET Ids, clean : BOOLEAN]

OnList == visit # None /\ visit.page \in Lists

RowsInv ==
    /\ rows \in [Lists -> Seq(Ids)] /\ matching \in [Lists -> SUBSET Ids]
    /\ NumberOfRows <= MaxRows
    /\ \A l \in Lists : \A k \in 1..Len(rows[l]) : rows[l][k] <= Len(rows[l])
    /\ downloads \subseteq Download

BoundedNumbers(v) ==
    /\ {v.today, v.month, v.source} \subseteq 0..MaxRows /\ v.users \in 0..MaxRows
    /\ v.top \subseteq Ids
    /\ v.next \in 1..(Len(StatementsOf(v.page)) + 1)

TypeInv ==
    /\ RowsInv
    /\ OnNumbers => BoundedNumbers(visit)
    /\ OnList => visit \in ListVisit

LEMMA Contents ==
    ASSUME NEW S, NEW s \in Seq(S)
    PROVE  /\ IsFiniteSet(Range(s)) /\ Cardinality(Range(s)) <= Len(s)
           /\ Cardinality(Range(s)) \in Nat
           /\ Range(s) = {s[k] : k \in 1..Len(s)} /\ Range(s) \subseteq S
<1> DEFINE C == {s[k] : k \in 1..Len(s)}
<1>1. Len(s) \in Nat /\ s \in [1..Len(s) -> C] /\ DOMAIN s = 1..Len(s)
  OBVIOUS
<1>2. C = Range(s) /\ C \subseteq S
  BY <1>1 DEF Range
<1>3. \A c \in C : \E k \in 1..Len(s) : s[k] = c
  OBVIOUS
<1> HIDE DEF C
<1>4. ExistsSurjection(1..Len(s), C)
  BY <1>1, <1>3 DEF Surjection, ExistsSurjection
<1>5. IsFiniteSet(C) /\ Cardinality(C) <= Len(s)
  BY <1>1, <1>4, FS_NatSurjection, FS_SurjCardinalityBound
<1> QED BY <1>2, <1>5, FS_CardinalityType DEF C

LEMMA Sizes ==
    ASSUME RowsInv, IsFiniteSet(downloads)
    PROVE  /\ Cardinality(downloads) \in 0..MaxRows
           /\ \A l \in Lists : Len(rows[l]) \in 0..MaxRows
           /\ NumberOfRows < MaxRows =>
                /\ Cardinality(downloads) + 1 \in 1..MaxRows
                /\ \A l \in Lists : Len(rows[l]) + 1 \in 1..MaxRows
<1>1. /\ Cardinality(downloads) \in Nat
      /\ Len(rows["jobs"]) \in Nat /\ Len(rows["users"]) \in Nat
  BY FS_CardinalityType DEF RowsInv, Lists
<1>2. MaxRows \in Nat
  BY PagesAssumption
<1> QED BY <1>1, <1>2 DEF RowsInv, NumberOfRows, Lists

(* What an INSERT does to its list.                                        *)
LEMMA InsertShifts ==
    ASSUME RowsInv, IsFiniteSet(downloads), NEW l \in Lists, Insert(l)
    PROVE  /\ rows' \in [Lists -> Seq(Ids)] /\ Len(rows'[l]) = Len(rows[l]) + 1
           /\ \A m \in Lists \ {l} : rows'[m] = rows[m]
           /\ \E k \in 1..(Len(rows[l]) + 1) : \A j \in 1..(Len(rows[l]) + 1) :
                 rows'[l][j] = IF j < k THEN rows[l][j]
                               ELSE IF j = k THEN Len(rows[l]) + 1 ELSE rows[l][j - 1]
<1> DEFINE id == Len(rows[l]) + 1
<1>1. id \in Ids /\ rows[l] \in Seq(Ids) /\ Len(rows[l]) \in Nat
  BY Sizes DEF Insert, RowsInv, Ids
<1>2. PICK k \in 1..2 : k <= id /\ rows' = [rows EXCEPT ![l] = InsertAt(rows[l], k, id)]
  BY DEF Insert
<1>3. k \in 1..(Len(rows[l]) + 1)
  BY <1>1, <1>2
<1> HIDE DEF id
<1>4. /\ InsertAt(rows[l], k, id) \in Seq(Ids) /\ Len(InsertAt(rows[l], k, id)) = Len(rows[l]) + 1
      /\ \A j \in 1..(Len(rows[l]) + 1) :
            InsertAt(rows[l], k, id)[j] =
               IF j < k THEN rows[l][j] ELSE IF j = k THEN id ELSE rows[l][j - 1]
  <2>1. k \in 1..(Len(rows[l]) + 1)
    BY <1>3
  <2> DEFINE s == rows[l]
  <2>2. s \in Seq(Ids) /\ k \in 1..(Len(s) + 1)
    BY <1>1, <2>1
  <2> HIDE DEF s
  <2>3. /\ InsertAt(s, k, id) \in Seq(Ids) /\ Len(InsertAt(s, k, id)) = Len(s) + 1
        /\ \A j \in 1..(Len(s) + 1) :
              InsertAt(s, k, id)[j] = IF j < k THEN s[j] ELSE IF j = k THEN id ELSE s[j - 1]
    BY <1>1, <2>2, Inserted, InsertedAt
  <2> QED BY <2>3 DEF s
<1>5. rows'[l] = InsertAt(rows[l], k, id) /\ \A m \in Lists \ {l} : rows'[m] = rows[m]
  BY <1>2 DEF RowsInv
<1> QED BY <1>2, <1>3, <1>4, <1>5 DEF RowsInv, id

(* One row more, of one table.                                             *)
LEMMA OneMore ==
    ASSUME NEW a \in Nat, NEW b \in Nat, NEW c \in Nat,
           NEW x \in Nat, NEW y \in Nat, NEW z \in Nat,
           a + b + c < MaxRows,
           x <= a + 1, y <= b + 1, z <= c + 1,
           \/ x = a /\ y = b
           \/ x = a /\ z = c
           \/ y = b /\ z = c
    PROVE  x + y + z <= MaxRows
BY PagesAssumption

LEMMA RowsWrites ==
    ASSUME TablesInv, RowsInv, Writes
    PROVE  RowsInv'
<1>t. IsFiniteSet(downloads) /\ MaxRows \in Nat /\ Cardinality(downloads) \in Nat
  BY PagesAssumption, FS_CardinalityType DEF TablesInv
<1>1. ASSUME NEW l \in Lists, Insert(l) PROVE RowsInv'
  <2>1. /\ rows' \in [Lists -> Seq(Ids)] /\ Len(rows'[l]) = Len(rows[l]) + 1
        /\ \A m \in Lists \ {l} : rows'[m] = rows[m]
    BY <1>1, <1>t, InsertShifts
  <2>2. PICK k \in 1..(Len(rows[l]) + 1) : \A j \in 1..(Len(rows[l]) + 1) :
           rows'[l][j] = IF j < k THEN rows[l][j]
                         ELSE IF j = k THEN Len(rows[l]) + 1 ELSE rows[l][j - 1]
    BY <1>1, <1>t, InsertShifts
  <2>3. \A m \in Lists : Len(rows[m]) \in Nat /\ rows[m] \in Seq(Ids)
    BY DEF RowsInv
  <2>4. NumberOfRows' <= MaxRows
    <3>1. NumberOfRows < MaxRows /\ downloads' = downloads
      BY <1>1 DEF Insert
    <3>2. /\ Len(rows["jobs"]) \in Nat /\ Len(rows["users"]) \in Nat
          /\ \/ Len(rows'["jobs"]) = Len(rows["jobs"]) + 1
                /\ Len(rows'["users"]) = Len(rows["users"])
             \/ Len(rows'["jobs"]) = Len(rows["jobs"])
                /\ Len(rows'["users"]) = Len(rows["users"]) + 1
      BY <2>1, <2>3 DEF Lists
    <3>3. Cardinality(downloads') = Cardinality(downloads)
      BY <3>1
    <3> DEFINE a == Len(rows["jobs"])
               b == Len(rows["users"])
               c == Cardinality(downloads)
               x == Len(rows'["jobs"])
               y == Len(rows'["users"])
               z == Cardinality(downloads')
    <3>n. NumberOfRows = a + b + c /\ NumberOfRows' = x + y + z
      BY DEF NumberOfRows
    <3>p. /\ a \in Nat /\ b \in Nat /\ c \in Nat /\ x \in Nat /\ y \in Nat /\ z \in Nat
          /\ x <= a + 1 /\ y <= b + 1 /\ z <= c + 1
          /\ \/ x = a /\ y = b
             \/ x = a /\ z = c
             \/ y = b /\ z = c
      BY <1>t, <3>2, <3>3
    <3> HIDE DEF a, b, c, x, y, z
    <3>m. a + b + c < MaxRows
      BY <3>1, <3>n
    <3>q. x + y + z <= MaxRows
      BY <3>m, <3>p, OneMore
    <3> QED BY <3>n, <3>q
  <2>5. ASSUME NEW m \in Lists, NEW j \in 1..Len(rows'[m]) PROVE rows'[m][j] <= Len(rows'[m])
    <3>1. CASE m # l
      BY <2>1, <2>5, <3>1 DEF RowsInv
    <3>2. CASE m = l
      <4>1. j \in 1..(Len(rows[l]) + 1) /\ j \in Nat /\ k \in Nat
        BY <2>1, <2>3, <2>5, <3>2
      <4>2. \A i \in 1..Len(rows[l]) : rows[l][i] <= Len(rows[l]) /\ rows[l][i] \in Nat
        <5>1. \A i \in 1..Len(rows[l]) : rows[l][i] \in Ids
          BY <2>3
        <5> QED BY <5>1 DEF RowsInv, Ids
      <4>3. CASE j < k
        BY <2>1, <2>2, <2>3, <3>2, <4>1, <4>2, <4>3
      <4>4. CASE j = k
        BY <2>1, <2>2, <2>3, <3>2, <4>1, <4>4
      <4>5. CASE j > k
        <5>1. (j - 1) \in 1..Len(rows[l]) /\ ~(j < k) /\ j # k
          BY <2>3, <4>1, <4>5
        <5>2. rows'[l][j] = rows[l][j - 1]
          BY <2>2, <4>1, <5>1
        <5> QED BY <2>1, <2>3, <3>2, <4>2, <5>1, <5>2
      <4> QED BY <4>1, <4>3, <4>4, <4>5
    <3> QED BY <3>1, <3>2
  <2>6. matching' \in [Lists -> SUBSET Ids] /\ downloads' = downloads
    <3>1. Len(rows[l]) + 1 \in Ids
      BY <1>1, <1>t, Sizes DEF Insert, Ids
    <3> QED BY <1>1, <3>1 DEF Insert, RowsInv
  <2> QED BY <2>1, <2>4, <2>5, <2>6 DEF RowsInv
<1>2. ASSUME NEW l \in Lists, Change(l) PROVE RowsInv'
  <2>1. PICK id \in Range(rows[l]) : matching' =
           [matching EXCEPT ![l] = IF id \in matching[l] THEN matching[l] \ {id}
                                                         ELSE matching[l] \cup {id}]
    BY <1>2 DEF Change
  <2>2. id \in Ids
    BY Contents DEF RowsInv
  <2>3. matching' \in [Lists -> SUBSET Ids]
    BY <2>1, <2>2 DEF RowsInv
  <2> QED BY <1>2, <2>3 DEF Change, RowsInv, NumberOfRows
<1>3. CASE LogDownload
  <2>1. PICK u \in 1..Len(rows["users"]), s \in Sources :
            downloads' = downloads \cup
               {[id |-> Cardinality(downloads) + 1, user |-> u, source |-> s, day |-> today]}
    BY <1>3 DEF LogDownload
  <2> DEFINE d == [id |-> Cardinality(downloads) + 1, user |-> u, source |-> s, day |-> today]
  <2>2. NumberOfRows < MaxRows /\ UNCHANGED <<rows, matching>>
    BY <1>3 DEF LogDownload
  <2>3. Cardinality(downloads) + 1 \in 1..MaxRows /\ u \in Ids /\ today \in Days
    <3>1. Len(rows["users"]) \in 0..MaxRows
      BY <1>t, Sizes DEF Lists
    <3> QED BY <1>t, <2>2, <3>1, Sizes DEF Ids, TablesInv
  <2>4. d \in Download
    BY <2>3 DEF Download
  <2>n. downloads' = downloads \cup {d}
    BY <2>1
  <2> HIDE DEF d
  <2>5. Cardinality(downloads') <= Cardinality(downloads) + 1 /\ Cardinality(downloads') \in Nat
    BY <1>t, <2>n, FS_AddElement, FS_CardinalityType
  <2>6. NumberOfRows' <= MaxRows
    <3>1. Len(rows["jobs"]) \in Nat /\ Len(rows["users"]) \in Nat
      BY DEF RowsInv, Lists
    <3>3. Len(rows'["jobs"]) \in Nat /\ Len(rows'["users"]) \in Nat
      BY <2>2, <3>1
    <3> DEFINE a == Len(rows["jobs"])
               b == Len(rows["users"])
               c == Cardinality(downloads)
               x == Len(rows'["jobs"])
               y == Len(rows'["users"])
               z == Cardinality(downloads')
    <3>n. NumberOfRows = a + b + c /\ NumberOfRows' = x + y + z
      BY DEF NumberOfRows
    <3>p. /\ a \in Nat /\ b \in Nat /\ c \in Nat /\ x \in Nat /\ y \in Nat /\ z \in Nat
          /\ x <= a + 1 /\ y <= b + 1 /\ z <= c + 1
          /\ \/ x = a /\ y = b
             \/ x = a /\ z = c
             \/ y = b /\ z = c
      BY <1>t, <2>2, <2>5, <3>1, <3>3
    <3> HIDE DEF a, b, c, x, y, z
    <3>m. a + b + c < MaxRows
      BY <2>2, <3>n
    <3>q. x + y + z <= MaxRows
      BY <3>m, <3>p, OneMore
    <3> QED BY <3>n, <3>q
  <2> QED BY <2>2, <2>4, <2>6, <2>n DEF RowsInv
<1>4. CASE DayTurns
  BY <1>4 DEF DayTurns, tables, RowsInv, NumberOfRows
<1> QED BY <1>1, <1>2, <1>3, <1>4 DEF Writes

(* A write changes nothing of a visit but that it is no longer clean.      *)
LEMMA WritesVisit ==
    ASSUME Writes
    PROVE  \/ visit' = visit
           \/ visit # None /\ visit' = [visit EXCEPT !.clean = FALSE]
<1>1. ASSUME NEW l \in Lists, Insert(l)
      PROVE  visit' = visit \/ (visit # None /\ visit' = [visit EXCEPT !.clean = FALSE])
  BY <1>1 DEF Insert, Between
<1>2. ASSUME NEW l \in Lists, Change(l)
      PROVE  visit' = visit \/ (visit # None /\ visit' = [visit EXCEPT !.clean = FALSE])
  BY <1>2 DEF Change
<1>3. CASE LogDownload
  BY <1>3 DEF LogDownload
<1>4. CASE DayTurns
  BY <1>4 DEF DayTurns
<1> QED BY <1>1, <1>2, <1>3, <1>4 DEF Writes

LEMMA TypeWrites ==
    ASSUME NumbersInv, TypeInv, Writes
    PROVE  TypeInv'
<1>1. RowsInv'
  BY RowsWrites DEF NumbersInv, TypeInv
<1>2. CASE visit' = visit
  BY <1>1, <1>2 DEF TypeInv, OnNumbers, OnList
<1>3. CASE visit # None /\ visit' = [visit EXCEPT !.clean = FALSE]
  <2>1. visit.page \in Numbers \cup Lists
    BY <1>3 DEF NumbersInv, VisitInv
  <2>2. CASE visit.page \in Numbers
    <3>1. visit \in NumberVisit /\ BoundedNumbers(visit)
      BY <1>3, <2>2 DEF NumbersInv, VisitInv, TypeInv, OnNumbers
    <3>2. /\ visit'.page = visit.page /\ visit'.next = visit.next /\ visit'.today = visit.today
          /\ visit'.month = visit.month /\ visit'.users = visit.users /\ visit'.top = visit.top
          /\ visit'.source = visit.source
      BY <1>3, <3>1 DEF NumberVisit
    <3>3. BoundedNumbers(visit') /\ visit'.page \in Numbers
      BY <2>2, <3>1, <3>2 DEF BoundedNumbers
    <3> QED BY <1>1, <3>3, Lengths DEF TypeInv, OnList
  <2>3. CASE visit.page \in Lists
    <3>1. visit \in ListVisit
      BY <1>3, <2>3 DEF TypeInv, OnList
    <3>2. visit' \in ListVisit
      BY <1>3, <3>1 DEF ListVisit
    <3>3. visit'.page \in Lists
      BY <3>2 DEF ListVisit
    <3> QED BY <1>1, <3>2, <3>3, Lengths DEF TypeInv, OnNumbers
  <2> QED BY <2>1, <2>2, <2>3
<1> QED BY <1>2, <1>3, WritesVisit

(* What the statements return.                                             *)
LEMMA Returned ==
    ASSUME NumbersInv, RowsInv
    PROVE  /\ Cardinality(DownloadsToday) \in 0..MaxRows
           /\ Cardinality(DownloadsThisMonth) \in 0..MaxRows
           /\ DownloadsBySource \in 0..MaxRows /\ TotalUsers \in 0..MaxRows
           /\ \A S \in Rankings : S \subseteq Ids
           /\ \A l \in Lists, f \in BOOLEAN :
                 Found(l, f) \subseteq Ids /\ Cardinality(Found(l, f)) \in 0..MaxRows
<1>1. TablesInv /\ IsFiniteSet(downloads) /\ MaxRows \in Nat
  BY PagesAssumption DEF NumbersInv, TablesInv
<1>2. /\ Cardinality(DownloadsToday) \in Nat /\ Cardinality(DownloadsThisMonth) \in Nat
      /\ Cardinality(DownloadsToday) <= Cardinality(DownloadsThisMonth)
      /\ Cardinality(DownloadsThisMonth) <= DownloadsBySource
  BY <1>1, Counts
<1>3. DownloadsBySource \in 0..MaxRows /\ TotalUsers \in 0..MaxRows
  BY <1>1, Sizes DEF DownloadsBySource, TotalUsers, Lists
<1>4. ASSUME NEW S \in Rankings PROVE S \subseteq Ids
  <2>1. S \subseteq 1..TotalUsers
    BY <1>1 DEF Rankings, Active, DownloadsThisMonth, TablesInv
  <2> QED BY <1>1, <1>3, <2>1 DEF Ids
<1>5. ASSUME NEW l \in Lists, NEW f \in BOOLEAN
      PROVE  Found(l, f) \subseteq Ids /\ Cardinality(Found(l, f)) \in 0..MaxRows
  <2>1. rows[l] \in Seq(Ids) /\ Len(rows[l]) \in 0..MaxRows
    BY <1>1, Sizes DEF RowsInv
  <2>2. /\ IsFiniteSet(Range(rows[l])) /\ Cardinality(Range(rows[l])) <= Len(rows[l])
        /\ Cardinality(Range(rows[l])) \in Nat /\ Range(rows[l]) \subseteq Ids
    BY <2>1, Contents
  <2>3. Found(l, f) \subseteq Range(rows[l])
    BY DEF Found
  <2>4. /\ Cardinality(Found(l, f)) \in Nat
        /\ Cardinality(Found(l, f)) <= Cardinality(Range(rows[l]))
    BY <2>2, <2>3, FS_Subset, FS_CardinalityType
  <2> QED BY <1>1, <2>1, <2>2, <2>3, <2>4
<1> QED BY <1>1, <1>2, <1>3, <1>4, <1>5

LEMMA TypeNumbers ==
    ASSUME NumbersInv, TypeInv, Execute \/ StatementFails
    PROVE  TypeInv'
<1>1. UNCHANGED <<rows, matching, downloads>> /\ RowsInv /\ AtNumbers
  BY DEF TypeInv, Execute, StatementFails, tables
<1>2. RowsInv'
  BY <1>1 DEF RowsInv, NumberOfRows
<1>3. VisitInv /\ visit # None
  BY <1>1 DEF NumbersInv, AtNumbers
<1>4. OnNumbers /\ visit.next \in 1..5 /\ visit.next <= Len(StatementsOf(visit.page))
  BY <1>1, <1>3, StatementAt DEF AtNumbers
<1>5. visit \in NumberVisit /\ BoundedNumbers(visit)
  BY <1>3, <1>4 DEF VisitInv, TypeInv
<1>6. Len(StatementsOf(visit.page)) \in {3, 5}
  BY <1>4, Lengths DEF OnNumbers, Numbers
<1>m. PICK m \in 1..6 : m = visit.next + 1
  BY <1>4
<1>7. m \in 1..(Len(StatementsOf(visit.page)) + 1)
  BY <1>4, <1>6, <1>m
<1>8. \/ visit' = [visit EXCEPT !.next = m, !.today = Cardinality(DownloadsToday)]
      \/ visit' = [visit EXCEPT !.next = m, !.month = Cardinality(DownloadsThisMonth)]
      \/ \E S \in Rankings : visit' = [visit EXCEPT !.next = m, !.top = S]
      \/ visit' = [visit EXCEPT !.next = m, !.users = TotalUsers]
      \/ visit' = [visit EXCEPT !.next = m, !.source = DownloadsBySource]
      \/ visit' = [visit EXCEPT !.next = m, !.clean = FALSE]
  BY <1>m DEF Execute, StatementFails
<1>9. PICK t \in {visit.today, Cardinality(DownloadsToday)},
           h \in {visit.month, Cardinality(DownloadsThisMonth)},
           S \in {visit.top} \cup Rankings, u \in {visit.users, TotalUsers},
           b \in {visit.source, DownloadsBySource} :
         /\ visit'.page = visit.page /\ visit'.next = m /\ visit'.today = t
         /\ visit'.month = h /\ visit'.users = u /\ visit'.top = S
         /\ visit'.source = b
  BY <1>5, <1>8 DEF NumberVisit
<1>10. /\ {t, h, b} \subseteq 0..MaxRows /\ u \in 0..MaxRows /\ S \subseteq Ids
  BY <1>1, <1>5, Returned DEF BoundedNumbers
<1>11. BoundedNumbers(visit')
  BY <1>7, <1>9, <1>10 DEF BoundedNumbers
<1> QED BY <1>2, <1>4, <1>9, <1>11, Lengths DEF TypeInv, OnList, OnNumbers

LEMMA TypeLists ==
    ASSUME NumbersInv, TypeInv,
           \/ \E l \in Lists, filter \in BOOLEAN : OpenList(l, filter)
           \/ CountRows \/ SelectRows \/ ListFails \/ NextPage
    PROVE  TypeInv' /\ visit' \in ListVisit
<1>1. UNCHANGED <<rows, matching, downloads>> /\ RowsInv
  BY DEF TypeInv, OpenList, CountRows, SelectRows, ListFails, NextPage, tables
<1>2. RowsInv'
  BY <1>1 DEF RowsInv, NumberOfRows
<1>3. visit' \in ListVisit
  <2>1. CASE \E l \in Lists, filter \in BOOLEAN : OpenList(l, filter)
    <3>1. PICK l \in Lists, filter \in BOOLEAN : OpenList(l, filter)
      BY <2>1
    <3>2. Found(l, filter) \subseteq Ids
      BY <1>1, Returned
    <3>3. 1 \in 1..PageCount(MaxRows) /\ 0 \in 0..MaxRows
      <4>1. MaxRows \in Nat /\ 0 \in Nat /\ MaxRows > 0
        BY PagesAssumption
      <4> QED BY <4>1, PageCountIs, PageCountGrows
    <3>4. visit' = [page |-> l, filter |-> filter, step |-> "count", number |-> 1, total |-> 0,
                    seen |-> {}, start |-> Found(l, filter), clean |-> TRUE]
      BY <3>1 DEF OpenList
    <3>5. visit' \in ListVisit
      BY <3>2, <3>3, <3>4 DEF ListVisit
    <3> QED BY <3>4, <3>5
  <2>2. CASE CountRows
    <3>1. OnList /\ visit \in ListVisit
      BY <2>2 DEF CountRows, AtList, OnList, TypeInv
    <3>2. PICK l \in Lists, f \in BOOLEAN : l = visit.page /\ f = visit.filter
      BY <3>1 DEF ListVisit
    <3>3. PICK n \in 0..MaxRows : n = Cardinality(Found(l, f))
      BY <1>1, Returned
    <3>4. visit' = [visit EXCEPT !.step = "select", !.total = n]
      BY <2>2, <3>2, <3>3 DEF CountRows
    <3> QED BY <3>1, <3>4 DEF ListVisit
  <2>3. CASE SelectRows
    <3>1. OnList /\ visit \in ListVisit
      BY <2>3 DEF SelectRows, AtList, OnList, TypeInv
    <3>2. PICK l \in Lists : l = visit.page
      BY <3>1 DEF ListVisit
    <3>3. rows[l] \in Seq(Ids)
      BY <1>1 DEF RowsInv
    <3>4. Slice(l, visit.filter, visit.number) \subseteq Ids
      BY <3>3 DEF Slice
    <3>5. PICK N \in SUBSET Ids : N = visit.seen \cup Slice(l, visit.filter, visit.number)
      BY <3>1, <3>4 DEF ListVisit
    <3>6. visit' = [visit EXCEPT !.step = "shown", !.seen = N]
      BY <2>3, <3>2, <3>5 DEF SelectRows
    <3> QED BY <3>1, <3>6 DEF ListVisit
  <2>4. CASE ListFails
    <3>1. OnList /\ visit \in ListVisit /\ 0 \in 0..MaxRows
      BY <2>4, PagesAssumption DEF ListFails, AtList, OnList, TypeInv
    <3>2. visit' = [visit EXCEPT !.step = "shown", !.total = 0, !.clean = FALSE]
      BY <2>4 DEF ListFails
    <3> QED BY <3>1, <3>2 DEF ListVisit
  <2>5. CASE NextPage
    <3>1. OnList /\ visit \in ListVisit
      BY <2>5 DEF NextPage, AtList, OnList, TypeInv
    <3>2. visit.number \in Nat /\ visit.number >= 1 /\ visit.total \in Nat /\ visit.total <= MaxRows
      <4>1. PageCount(MaxRows) \in Nat /\ MaxRows \in Nat
        BY PageCountIs, PagesAssumption
      <4> QED BY <3>1, <4>1 DEF ListVisit
    <3>3. PICK c \in Nat, b \in Nat : c = PageCount(visit.total) /\ b = PageCount(MaxRows) /\ c <= b
      BY <3>2, PageCountIs, PageCountGrows, PagesAssumption
    <3>4. visit.number < c
      BY <2>5, <3>3 DEF NextPage, HasNext
    <3>5. PICK n \in 1..PageCount(MaxRows) : n = visit.number + 1
      BY <3>2, <3>3, <3>4
    <3>6. visit' = [visit EXCEPT !.step = "count", !.number = n]
      BY <2>5, <3>5 DEF NextPage
    <3> QED BY <3>1, <3>6 DEF ListVisit
  <2> QED BY <2>1, <2>2, <2>3, <2>4, <2>5
<1>4. visit'.page \in Lists
  BY <1>3 DEF ListVisit
<1> QED BY <1>2, <1>3, <1>4, Lengths DEF TypeInv, OnList, OnNumbers

LEMMA TypeInit == Init => TypeInv
<1> SUFFICES ASSUME Init PROVE TypeInv
  OBVIOUS
<1>1. /\ downloads = {} /\ visit = None
      /\ rows = [l \in Lists |-> <<>>] /\ matching = [l \in Lists |-> {}]
  BY DEF Init
<1>2. Cardinality(downloads) = 0
  BY <1>1, FS_EmptySet
<1>3. Len(rows["jobs"]) = 0 /\ Len(rows["users"]) = 0
  BY <1>1 DEF Lists
<1>4. NumberOfRows <= MaxRows
  BY <1>2, <1>3, PagesAssumption DEF NumberOfRows
<1>5. <<>> \in Seq(Ids) /\ \A l \in Lists : rows[l] = <<>> /\ Len(rows[l]) = 0
  BY <1>1
<1>6. RowsInv
  BY <1>1, <1>4, <1>5 DEF RowsInv
<1> QED BY <1>1, <1>6 DEF TypeInv, OnNumbers, OnList

LEMMA TypeNext == IInv /\ TypeInv /\ [Next]_vars => TypeInv'
<1> SUFFICES ASSUME IInv, TypeInv, [Next]_vars PROVE TypeInv'
  OBVIOUS
<1>t. NumbersInv
  BY DEF IInv
<1>1. CASE Writes
  BY <1>t, <1>1, TypeWrites
<1>2. CASE Execute \/ StatementFails
  BY <1>t, <1>2, TypeNumbers
<1>3. CASE \/ \E l \in Lists, filter \in BOOLEAN : OpenList(l, filter)
           \/ CountRows \/ SelectRows \/ ListFails \/ NextPage
  BY <1>t, <1>3, TypeLists
<1>4. CASE \E name \in DOMAIN Statements : OpenNumbers(name)
  <2>1. PICK name \in Numbers :
            visit' = [page |-> name, next |-> 1, today |-> 0, month |-> 0, users |-> 0,
                      top |-> {}, source |-> 0, clean |-> TRUE]
    BY <1>4, Lengths DEF OpenNumbers
  <2>2. UNCHANGED <<rows, matching, downloads>>
    BY <1>4 DEF OpenNumbers, tables
  <2>3. RowsInv'
    BY <2>2 DEF TypeInv, RowsInv, NumberOfRows
  <2>4. 0 \in 0..MaxRows /\ 1 \in 1..(Len(StatementsOf(name)) + 1)
    BY PagesAssumption, Lengths DEF Numbers
  <2>5. BoundedNumbers(visit') /\ visit'.page = name
    BY <2>1, <2>4 DEF BoundedNumbers
  <2> QED BY <2>3, <2>5, Lengths DEF TypeInv, OnNumbers, OnList
<1>5. CASE Leave \/ Deployment \/ (\E s \in Services : ServiceDies(s)) \/ UNCHANGED vars
  <2>1. UNCHANGED <<rows, matching, downloads>> /\ visit' \in {None, visit}
    BY <1>5 DEF Leave, Deployment, ServiceDies, vars, tables
  <2>2. RowsInv'
    BY <2>1 DEF TypeInv, RowsInv, NumberOfRows
  <2> QED BY <2>1, <2>2 DEF TypeInv, OnNumbers, OnList
<1> QED BY <1>1, <1>2, <1>3, <1>4, <1>5 DEF Next, Writes

LEMMA TypesFollow == IInv /\ TypeInv => TypeOK
<1> SUFFICES ASSUME IInv, TypeInv PROVE TypeOK
  OBVIOUS
<1>1. StartupTypeOK /\ today \in Days /\ VisitInv /\ RowsInv /\ IsFiniteSet(downloads)
  BY DEF IInv, StartupInv, NumbersInv, TablesInv, TypeInv
<1>2. \A l \in Lists : /\ rows[l] \in Seq(Ids) /\ Len(rows[l]) <= MaxRows
                       /\ matching[l] \subseteq Ids
  BY <1>1, Sizes DEF RowsInv
<1>3. ASSUME OnNumbers
      PROVE  /\ visit.page \in DOMAIN Statements
             /\ {visit.today, visit.month, visit.source} \subseteq 0..MaxRows
             /\ visit.users \in 0..MaxRows
             /\ visit.top \subseteq Ids
             /\ visit.next \in 1..(Len(StatementsOf(visit.page)) + 1)
  BY <1>3, Lengths DEF TypeInv, BoundedNumbers, OnNumbers
<1>4. ASSUME OnList
      PROVE  /\ visit.page \in Lists
             /\ visit.step \in {"count", "select", "shown"}
             /\ visit.number \in 1..PageCount(MaxRows)
             /\ visit.total \in 0..MaxRows
             /\ visit.seen \cup visit.start \subseteq Ids
  <2>1. visit \in ListVisit
    BY <1>4 DEF TypeInv
  <2> QED BY <2>1 DEF ListVisit
<1>5. visit = None \/ OnNumbers \/ OnList
  BY <1>1 DEF VisitInv, OnNumbers, OnList
<1> QED BY <1>1, <1>2, <1>3, <1>4, <1>5 DEF TypeOK, RowsInv

THEOREM TypeInvariance == Spec => [](IInv /\ TypeInv)
<1>1. []IInv /\ TypeInv /\ [][Next]_vars => []TypeInv
  BY TypeNext, PTL
<1> QED BY <1>1, Invariance, TypeInit, PTL DEF Spec

(* Every number, page and row of a visit is one the tables can have.       *)
THEOREM PagesTyped == Spec => []TypeOK
BY TypeInvariance, TypesFollow, PTL

-----------------------------------------------------------------------------
(* Paging.                                                                 *)

ShownPages(v) == IF v.step = "shown" THEN v.number ELSE v.number - 1

(* The rows of the start are still found, and those that are now among the *)
(* first so many have been seen.                                           *)
SeenUpTo(l, filter, start, seen, bound) ==
    /\ start \subseteq Found(l, filter)
    /\ \A k \in 1..Len(rows[l]) :
          rows[l][k] \in start /\ Place(l, filter, k) <= bound => rows[l][k] \in seen

PageInv(v) ==
    /\ SeenUpTo(v.page, v.filter, v.start, v.seen, ShownPages(v) * Limit)
    /\ v.step = "select" => v.total = Cardinality(Found(v.page, v.filter))
    /\ v.step = "shown" /\ ~(v.number < PageCount(v.total)) => v.start \subseteq v.seen

PagingInv == OnList /\ visit.clean => PageInv(visit)

LEMMA ListFields ==
    ASSUME NEW v \in ListVisit
    PROVE  /\ v.page \in Lists /\ v.filter \in BOOLEAN /\ v.clean \in BOOLEAN
           /\ v.number \in Nat \ {0} /\ v.total \in Nat
           /\ v.step \in {"count", "select", "shown"}
           /\ ShownPages(v) \in Nat /\ ShownPages(v) * Limit \in Nat
<1>1. PageCount(MaxRows) \in Nat /\ MaxRows \in Nat /\ Limit \in Nat
  BY PagesAssumption, PageCountIs
<1>2. /\ v.page \in Lists /\ v.filter \in BOOLEAN /\ v.clean \in BOOLEAN
      /\ v.number \in Nat \ {0} /\ v.total \in Nat
      /\ v.step \in {"count", "select", "shown"}
  BY <1>1 DEF ListVisit
<1>3. ShownPages(v) \in Nat
  BY <1>2 DEF ShownPages
<1> QED BY <1>1, <1>2, <1>3

(* A row that is found has a place, from the first to the last of those    *)
(* that are.                                                               *)
LEMMA Places ==
    RowsInv => \A l \in Lists, f \in BOOLEAN : \A k \in 1..Len(rows[l]) :
                  /\ Place(l, f, k) \in Nat
                  /\ IsFiniteSet({rows[l][j] : j \in 1..k} \cap Found(l, f))
                  /\ rows[l][k] \in Found(l, f) =>
                        /\ Place(l, f, k) > 0
                        /\ Cardinality(Found(l, f)) \in Nat
                        /\ Place(l, f, k) <= Cardinality(Found(l, f))
<1> SUFFICES ASSUME RowsInv, NEW l \in Lists, NEW f \in BOOLEAN, NEW k \in 1..Len(rows[l])
             PROVE  /\ Place(l, f, k) \in Nat
                    /\ IsFiniteSet({rows[l][j] : j \in 1..k} \cap Found(l, f))
                    /\ rows[l][k] \in Found(l, f) =>
                          /\ Place(l, f, k) > 0
                          /\ Cardinality(Found(l, f)) \in Nat
                          /\ Place(l, f, k) <= Cardinality(Found(l, f))
  OBVIOUS
<1> DEFINE F == Found(l, f)
           B == {rows[l][j] : j \in 1..k} \cap F
<1>1. rows[l] \in Seq(Ids)
  BY DEF RowsInv
<1>2. IsFiniteSet(Range(rows[l])) /\ F \subseteq Range(rows[l])
  BY <1>1, Contents DEF Found
<1>3. k \in 1..k
  OBVIOUS
<1>4. B \subseteq F /\ (rows[l][k] \in F => rows[l][k] \in B) /\ Place(l, f, k) = Cardinality(B)
  BY <1>3 DEF Place
<1> HIDE DEF F, B
<1>5. /\ IsFiniteSet(F) /\ IsFiniteSet(B)
      /\ Cardinality(F) \in Nat /\ Cardinality(B) \in Nat /\ Cardinality(B) <= Cardinality(F)
  BY <1>2, <1>4, FS_Subset, FS_CardinalityType
<1>6. rows[l][k] \in F => Cardinality(B) # 0
  BY <1>4, <1>5, FS_EmptySet
<1> QED BY <1>4, <1>5, <1>6 DEF F, B

LEMMA PlacesNext ==
    RowsInv' => \A l \in Lists, f \in BOOLEAN : \A k \in 1..Len(rows'[l]) :
                  /\ Place(l, f, k)' \in Nat
                  /\ IsFiniteSet({rows'[l][j] : j \in 1..k} \cap Found(l, f)')
<1> DEFINE P == \A l \in Lists, f \in BOOLEAN : \A k \in 1..Len(rows[l]) :
                  /\ Place(l, f, k) \in Nat
                  /\ IsFiniteSet({rows[l][j] : j \in 1..k} \cap Found(l, f))
<1>1. RowsInv => P
  BY Places
<1> HIDE DEF P
<1>2. RowsInv' => P'
  BY <1>1, PTL
<1> QED BY <1>2 DEF P

(* Whatever was added, a row of the start has not come nearer to the first.*)
LEMMA SeenStays ==
    ASSUME RowsInv, RowsInv', NEW l \in Lists, NEW f \in BOOLEAN,
           NEW S, NEW N, NEW b \in Nat, SeenUpTo(l, f, S, N, b),
           Found(l, f) \subseteq Found(l, f)',
           \A m \in 1..Len(rows'[l]) : rows'[l][m] \in S =>
              \E j \in 1..Len(rows[l]) :
                 /\ rows[l][j] = rows'[l][m]
                 /\ {rows[l][i] : i \in 1..j} \subseteq {rows'[l][i] : i \in 1..m}
    PROVE  SeenUpTo(l, f, S, N, b)'
<1>1. S \subseteq Found(l, f)'
  BY DEF SeenUpTo
<1>2. ASSUME NEW m \in 1..Len(rows'[l]), rows'[l][m] \in S, Place(l, f, m)' <= b
      PROVE  rows'[l][m] \in N
  <2>1. PICK j \in 1..Len(rows[l]) :
           /\ rows[l][j] = rows'[l][m]
           /\ {rows[l][i] : i \in 1..j} \subseteq {rows'[l][i] : i \in 1..m}
    BY <1>2
  <2> DEFINE A == {rows[l][i] : i \in 1..j} \cap Found(l, f)
             B == {rows'[l][i] : i \in 1..m} \cap Found(l, f)'
  <2>2. A \subseteq B
    BY <2>1
  <2>3. IsFiniteSet(B) /\ Place(l, f, m)' \in Nat
    BY PlacesNext
  <2>4. Place(l, f, j) = Cardinality(A) /\ Place(l, f, m)' = Cardinality(B)
    BY DEF Place
  <2> HIDE DEF A, B
  <2>5. Cardinality(A) <= Cardinality(B) /\ Cardinality(A) \in Nat
    BY <2>2, <2>3, FS_Subset, FS_CardinalityType
  <2>6. Place(l, f, j) <= b
    BY <1>2, <2>3, <2>4, <2>5
  <2> QED BY <1>2, <2>1, <2>6 DEF SeenUpTo
<1> QED BY <1>1, <1>2 DEF SeenUpTo

(* An INSERT.                                                              *)
LEMMA InsertSeen ==
    ASSUME TablesInv, RowsInv, RowsInv', NEW l \in Lists, Insert(l), NEW f \in BOOLEAN,
           NEW S, NEW N, NEW b \in Nat, SeenUpTo(l, f, S, N, b)
    PROVE  SeenUpTo(l, f, S, N, b)'
<1>1. /\ rows' \in [Lists -> Seq(Ids)] /\ Len(rows'[l]) = Len(rows[l]) + 1
      /\ rows[l] \in Seq(Ids) /\ rows'[l] \in Seq(Ids) /\ Len(rows[l]) \in Nat
  BY InsertShifts DEF TablesInv, RowsInv
<1>2. PICK k \in 1..(Len(rows[l]) + 1) : \A j \in 1..(Len(rows[l]) + 1) :
         rows'[l][j] = IF j < k THEN rows[l][j]
                       ELSE IF j = k THEN Len(rows[l]) + 1 ELSE rows[l][j - 1]
  BY InsertShifts DEF TablesInv
<1>3. k \in Nat /\ k <= Len(rows[l]) + 1
  BY <1>1
<1>4. \A i \in 1..Len(rows[l]) :
         /\ i < k => i \in 1..Len(rows'[l]) /\ rows'[l][i] = rows[l][i]
         /\ ~(i < k) => (i + 1) \in 1..Len(rows'[l]) /\ rows'[l][i + 1] = rows[l][i]
  <2> TAKE i \in 1..Len(rows[l])
  <2>1. i \in 1..(Len(rows[l]) + 1) /\ (i + 1) \in 1..(Len(rows[l]) + 1) /\ (i + 1) - 1 = i
    BY <1>1
  <2>2. ~(i < k) => ~(i + 1 < k) /\ i + 1 # k
    BY <1>3, <2>1
  <2> QED BY <1>1, <1>2, <2>1, <2>2
<1>5. Range(rows[l]) = {rows[l][i] : i \in 1..Len(rows[l])}
  BY <1>1, Contents
<1>6. Range(rows'[l]) = {rows'[l][i] : i \in 1..Len(rows'[l])}
  BY <1>1, Contents
<1>7. Range(rows[l]) \subseteq Range(rows'[l])
  BY <1>4, <1>5, <1>6
<1>8. matching[l] \subseteq matching'[l]
  BY DEF Insert, RowsInv
<1>9. Found(l, f) \subseteq Found(l, f)'
  BY <1>7, <1>8 DEF Found
<1>10. S \subseteq Range(rows[l])
  BY DEF SeenUpTo, Found
<1>11. \A x \in S : x \in Nat /\ x <= Len(rows[l])
  <2>1. \A i \in 1..Len(rows[l]) : rows[l][i] \in Ids /\ rows[l][i] <= Len(rows[l])
    BY <1>1 DEF RowsInv
  <2> QED BY <1>5, <1>10, <2>1 DEF Ids
<1>12. ASSUME NEW m \in 1..Len(rows'[l]), rows'[l][m] \in S
       PROVE  \E j \in 1..Len(rows[l]) :
                 /\ rows[l][j] = rows'[l][m]
                 /\ {rows[l][i] : i \in 1..j} \subseteq {rows'[l][i] : i \in 1..m}
  <2>1. m \in 1..(Len(rows[l]) + 1) /\ m \in Nat
    BY <1>1
  <2>2. m # k
    BY <1>1, <1>2, <1>11, <1>12, <2>1
  <2>3. CASE m < k
    <3>1. m \in 1..Len(rows[l]) /\ \A i \in 1..m : i \in 1..Len(rows[l]) /\ i < k
      BY <1>1, <1>3, <2>1, <2>3
    <3>2. \A i \in 1..m : rows[l][i] = rows'[l][i]
      BY <1>4, <3>1
    <3>3. rows[l][m] = rows'[l][m]
      BY <1>4, <2>3, <3>1
    <3> QED BY <3>1, <3>2, <3>3
  <2>4. CASE m > k
    <3>1. /\ (m - 1) \in 1..Len(rows[l]) /\ ~(m - 1 < k) /\ (m - 1) + 1 = m
          /\ \A i \in 1..(m - 1) : i \in 1..Len(rows[l]) /\ i \in 1..m /\ (i + 1) \in 1..m
      BY <1>1, <1>3, <2>1, <2>4
    <3>2. rows[l][m - 1] = rows'[l][m]
      BY <1>4, <3>1
    <3>3. \A i \in 1..(m - 1) : \E j \in 1..m : rows[l][i] = rows'[l][j]
      <4> TAKE i \in 1..(m - 1)
      <4>1. CASE i < k
        BY <1>4, <3>1, <4>1
      <4>2. CASE ~(i < k)
        BY <1>4, <3>1, <4>2
      <4> QED BY <4>1, <4>2
    <3>4. {rows[l][i] : i \in 1..(m - 1)} \subseteq {rows'[l][i] : i \in 1..m}
      BY <3>3
    <3> QED BY <3>1, <3>2, <3>4
  <2>5. m < k \/ m > k
    BY <1>3, <2>1, <2>2
  <2> QED BY <2>3, <2>4, <2>5
<1>13. \A m \in 1..Len(rows'[l]) : rows'[l][m] \in S =>
          \E j \in 1..Len(rows[l]) :
             /\ rows[l][j] = rows'[l][m]
             /\ {rows[l][i] : i \in 1..j} \subseteq {rows'[l][i] : i \in 1..m}
  BY <1>12
<1> QED BY <1>9, <1>13, SeenStays

(* The rows stay, and the filter finds no fewer.                           *)
LEMMA KeptSeen ==
    ASSUME RowsInv, RowsInv', NEW l \in Lists, NEW f \in BOOLEAN,
           rows'[l] = rows[l], f => matching[l] \subseteq matching'[l],
           NEW S, NEW N, NEW b \in Nat, SeenUpTo(l, f, S, N, b)
    PROVE  SeenUpTo(l, f, S, N, b)'
<1>1. Found(l, f) \subseteq Found(l, f)'
  BY DEF Found
<1>2. \A m \in 1..Len(rows'[l]) : m \in 1..Len(rows[l]) /\ rows[l][m] = rows'[l][m]
         /\ {rows[l][i] : i \in 1..m} = {rows'[l][i] : i \in 1..m}
  OBVIOUS
<1> QED BY <1>1, <1>2, SeenStays

LEMMA PagingWrites ==
    ASSUME NumbersInv, TypeInv, PagingInv, Writes
    PROVE  PagingInv'
<1> SUFFICES ASSUME OnList', visit'.clean
             PROVE  PageInv(visit)'
  BY DEF PagingInv
<1>t. TablesInv /\ RowsInv /\ RowsInv' /\ VisitInv
  BY RowsWrites DEF NumbersInv, TypeInv
<1>1. visit' = visit /\ OnList
  <2>1. CASE visit' = visit
    BY <2>1 DEF OnList
  <2>2. CASE visit # None /\ visit' = [visit EXCEPT !.clean = FALSE]
    <3>1. visit \in NumberVisit \/ visit \in ListVisit
      BY <1>t, <2>2 DEF VisitInv, TypeInv, OnNumbers, OnList
    <3>2. visit'.clean = FALSE
      BY <2>2, <3>1 DEF NumberVisit, ListVisit
    <3> QED BY <3>2
  <2> QED BY <2>1, <2>2, WritesVisit
<1>2. PICK v \in ListVisit : v = visit
  BY <1>1 DEF TypeInv
<1>3. visit' = v /\ v.clean = TRUE /\ v # None
  BY <1>1, <1>2, ListFields DEF OnList
<1>4. PageInv(v)
  BY <1>1, <1>2 DEF PagingInv
<1>5. /\ v.page \in Lists /\ v.filter \in BOOLEAN /\ v.step \in {"count", "select", "shown"}
      /\ ShownPages(v) * Limit \in Nat
  BY ListFields
<1>6. PICK l \in Lists, f \in BOOLEAN, S \in {v.start}, N \in {v.seen}, b \in {ShownPages(v) * Limit} :
         l = v.page /\ f = v.filter
  BY <1>5
<1>7. SeenUpTo(l, f, S, N, b) /\ b \in Nat
  BY <1>4, <1>5, <1>6 DEF PageInv
<1>8. ASSUME SeenUpTo(l, f, S, N, b)', v.step = "select" => Found(l, f)' = Found(l, f)
      PROVE  PageInv(visit)'
  <2>1. /\ SeenUpTo(v.page, v.filter, v.start, v.seen, ShownPages(v) * Limit)'
        /\ v.step = "select" => v.total = Cardinality(Found(v.page, v.filter)')
        /\ v.step = "shown" /\ ~(v.number < PageCount(v.total)) => v.start \subseteq v.seen
    BY <1>4, <1>6, <1>8 DEF PageInv
  <2>2. PageInv(v)'
    BY <2>1 DEF PageInv
  <2> QED BY <1>3, <2>2 DEF PageInv
<1>9. ASSUME NEW m \in Lists, Insert(m) PROVE PageInv(visit)'
  <2>1. CASE m = l
    <3>1. SeenUpTo(l, f, S, N, b)'
      BY <1>t, <1>7, <1>9, <2>1, InsertSeen
    <3>2. ~Between(l)
      <4>1. Between(l) => visit' = [v EXCEPT !.clean = FALSE]
        BY <1>2, <1>9, <2>1 DEF Insert
      <4>2. [v EXCEPT !.clean = FALSE].clean = FALSE
        BY DEF ListVisit
      <4> QED BY <1>3, <4>1, <4>2
    <3>3. v.step # "select"
      BY <1>2, <1>3, <1>6, <3>2 DEF Between
    <3> QED BY <1>8, <3>1, <3>3
  <2>2. CASE m # l
    <3>1. rows'[l] = rows[l] /\ matching'[l] = matching[l]
      BY <1>9, <1>t, <2>2 DEF Insert, RowsInv
    <3>2. SeenUpTo(l, f, S, N, b)'
      BY <1>t, <1>7, <3>1, KeptSeen
    <3>3. Found(l, f)' = Found(l, f)
      BY <3>1 DEF Found
    <3> QED BY <1>8, <3>2, <3>3
  <2> QED BY <2>1, <2>2
<1>10. ASSUME NEW m \in Lists, Change(m) PROVE PageInv(visit)'
  <2>1. rows' = rows /\ \A q \in Lists \ {m} : matching'[q] = matching[q]
    BY <1>10, <1>t DEF Change, RowsInv
  <2>2. CASE m = l /\ f
    <3>1. PICK id \in Range(rows[l]) :
             /\ matching' = [matching EXCEPT ![l] = IF id \in matching[l]
                                                      THEN matching[l] \ {id}
                                                      ELSE matching[l] \cup {id}]
             /\ (id \in matching[l] \/ Between(l)) => visit' = [v EXCEPT !.clean = FALSE]
      BY <1>2, <1>3, <1>6, <1>10, <2>2 DEF Change
    <3>2. [v EXCEPT !.clean = FALSE].clean = FALSE
      BY DEF ListVisit
    <3>3. id \notin matching[l] /\ ~Between(l)
      BY <1>3, <3>1, <3>2
    <3>4. matching[l] \subseteq matching'[l]
      BY <1>t, <3>1, <3>3 DEF RowsInv
    <3>5. SeenUpTo(l, f, S, N, b)'
      BY <1>t, <1>7, <2>1, <3>4, KeptSeen
    <3>6. v.step # "select"
      BY <1>2, <1>3, <1>6, <3>3 DEF Between
    <3> QED BY <1>8, <3>5, <3>6
  <2>3. CASE m # l \/ ~f
    <3>1. f => matching'[l] = matching[l]
      BY <2>1, <2>3
    <3>2. SeenUpTo(l, f, S, N, b)'
      BY <1>t, <1>7, <2>1, <3>1, KeptSeen
    <3>3. Found(l, f)' = Found(l, f)
      BY <2>1, <3>1 DEF Found
    <3> QED BY <1>8, <3>2, <3>3
  <2> QED BY <2>2, <2>3
<1>11. CASE LogDownload \/ DayTurns
  <2>1. rows' = rows /\ matching' = matching
    BY <1>11 DEF LogDownload, DayTurns, tables
  <2>2. SeenUpTo(l, f, S, N, b)'
    BY <1>t, <1>7, <2>1, KeptSeen
  <2>3. Found(l, f)' = Found(l, f)
    BY <2>1 DEF Found
  <2> QED BY <1>8, <2>2, <2>3
<1> QED BY <1>9, <1>10, <1>11 DEF Writes

(* While the tables stay, the fact about a visit stays.                    *)
LEMMA PageStays ==
    ASSUME UNCHANGED <<rows, matching>>, NEW v, PageInv(v)
    PROVE  PageInv(v)'
BY DEF PageInv, SeenUpTo, Place, Found

LEMMA PagingOpens ==
    ASSUME RowsInv, NEW l \in Lists, NEW f \in BOOLEAN, OpenList(l, f)
    PROVE  PageInv(visit)'
<1>1. PICK w : w = [page |-> l, filter |-> f, step |-> "count", number |-> 1, total |-> 0,
                    seen |-> {}, start |-> Found(l, f), clean |-> TRUE]
  OBVIOUS
<1>2. visit' = w /\ UNCHANGED <<rows, matching>>
  BY <1>1 DEF OpenList, tables
<1>3. ShownPages(w) * Limit = 0
  BY <1>1, PagesAssumption DEF ShownPages
<1>4. SeenUpTo(l, f, Found(l, f), {}, 0)
  <2>1. \A k \in 1..Len(rows[l]) :
            Place(l, f, k) \in Nat /\ (rows[l][k] \in Found(l, f) => Place(l, f, k) > 0)
    BY Places
  <2>2. \A k \in 1..Len(rows[l]) : ~(rows[l][k] \in Found(l, f) /\ Place(l, f, k) <= 0)
    BY <2>1
  <2> QED BY <2>2 DEF SeenUpTo
<1>5. PageInv(w)
  BY <1>1, <1>3, <1>4 DEF PageInv
<1>6. PageInv(w)'
  BY <1>2, <1>5, PageStays
<1> QED BY <1>2, <1>6 DEF PageInv

(* After the SELECT, a page more has been seen, and all after the last.    *)
LEMMA PagingSelects ==
    ASSUME RowsInv, OnList, visit \in ListVisit, PageInv(visit), SelectRows
    PROVE  PageInv(visit)'
<1>1. PICK v \in ListVisit : v = visit
  OBVIOUS
<1>2. PICK l \in Lists, f \in BOOLEAN, n \in Nat \ {0}, t \in Nat :
         l = v.page /\ f = v.filter /\ n = v.number /\ t = v.total
  BY ListFields
<1>3. PICK N : N = v.seen \cup Slice(l, f, n)
  OBVIOUS
<1>4. PICK w : w = [v EXCEPT !.step = "shown", !.seen = N]
  OBVIOUS
<1>5. visit' = w /\ UNCHANGED <<rows, matching>> /\ v.step = "select"
  BY <1>1, <1>2, <1>3, <1>4 DEF SelectRows, AtList, tables
<1>6. /\ w.page = l /\ w.filter = f /\ w.step = "shown" /\ w.number = n /\ w.total = t
      /\ w.seen = N /\ w.start = v.start
  BY <1>2, <1>4 DEF ListVisit
<1>7. /\ SeenUpTo(l, f, v.start, v.seen, (n - 1) * Limit)
      /\ t = Cardinality(Found(l, f))
  BY <1>1, <1>2, <1>5 DEF PageInv, ShownPages
<1>8. rows[l] \in Seq(Ids) /\ DOMAIN rows[l] = 1..Len(rows[l])
      /\ Range(rows[l]) = {rows[l][k] : k \in 1..Len(rows[l])}
  BY Contents DEF RowsInv
<1>9. ASSUME NEW k \in 1..Len(rows[l]), rows[l][k] \in v.start, Place(l, f, k) <= n * Limit
      PROVE  rows[l][k] \in N
  <2>1. CASE Place(l, f, k) <= (n - 1) * Limit
    BY <1>3, <1>7, <1>9, <2>1 DEF SeenUpTo
  <2>2. CASE ~(Place(l, f, k) <= (n - 1) * Limit)
    <3>1. Place(l, f, k) \in Nat
      BY Places
    <3>2. (n - 1) * Limit \in Nat
      BY PagesAssumption
    <3>3. (n - 1) * Limit < Place(l, f, k)
      BY <2>2, <3>1, <3>2
    <3>4. rows[l][k] \in Found(l, f)
      BY <1>7, <1>9 DEF SeenUpTo
    <3>5. rows[l][k] \in Slice(l, f, n)
      BY <1>8, <1>9, <3>3, <3>4 DEF Slice
    <3> QED BY <1>3, <3>5
  <2> QED BY <2>1, <2>2
<1>10. v.start \subseteq Found(l, f)
  BY <1>7 DEF SeenUpTo
<1>11. ASSUME ~(n < PageCount(t)) PROVE v.start \subseteq N
  <2> SUFFICES ASSUME NEW x \in v.start PROVE x \in N
    OBVIOUS
  <2>1. x \in Found(l, f)
    BY <1>10
  <2>2. PICK k \in 1..Len(rows[l]) : rows[l][k] = x
    BY <1>8, <2>1 DEF Found
  <2>3. Place(l, f, k) \in Nat /\ Place(l, f, k) <= t
    BY <1>7, <2>1, <2>2, Places
  <2>4. Place(l, f, k) <= n * Limit
    BY <1>11, <2>3, LastPageHolds
  <2> QED BY <1>9, <2>2, <2>4
<1>12. SeenUpTo(l, f, v.start, N, n * Limit)
  BY <1>9, <1>10 DEF SeenUpTo
<1>13. PageInv(w)
  BY <1>6, <1>11, <1>12 DEF PageInv, ShownPages
<1>14. PageInv(w)'
  BY <1>5, <1>13, PageStays
<1> QED BY <1>5, <1>14 DEF PageInv

(* The COUNT, and the way to the next page.                                *)
LEMMA PagingTurns ==
    ASSUME RowsInv, OnList, visit \in ListVisit, PageInv(visit), CountRows \/ NextPage
    PROVE  PageInv(visit)'
<1>1. PICK v \in ListVisit : v = visit
  OBVIOUS
<1>2. v.number \in Nat \ {0} /\ v.page \in Lists /\ v.filter \in BOOLEAN
  BY ListFields
<1>3. PICK w : w = visit'
  OBVIOUS
<1>4. /\ w.page = v.page /\ w.filter = v.filter /\ w.start = v.start /\ w.seen = v.seen
      /\ ShownPages(w) = ShownPages(v)
      /\ \/ w.step = "select" /\ w.total = Cardinality(Found(v.page, v.filter))
         \/ w.step = "count"
      /\ UNCHANGED <<rows, matching>>
  <2>1. CASE CountRows
    <3>1. /\ v.step = "count" /\ UNCHANGED <<rows, matching>>
          /\ w = [v EXCEPT !.step = "select", !.total = Cardinality(Found(v.page, v.filter))]
      BY <1>1, <1>3, <2>1 DEF CountRows, AtList, tables
    <3>2. /\ w.page = v.page /\ w.filter = v.filter /\ w.start = v.start /\ w.seen = v.seen
          /\ w.step = "select" /\ w.total = Cardinality(Found(v.page, v.filter))
          /\ w.number = v.number
      BY <3>1 DEF ListVisit
    <3> QED BY <3>1, <3>2 DEF ShownPages
  <2>2. CASE NextPage
    <3>1. /\ v.step = "shown" /\ UNCHANGED <<rows, matching>>
          /\ w = [v EXCEPT !.step = "count", !.number = v.number + 1]
      BY <1>1, <1>3, <2>2 DEF NextPage, AtList, tables
    <3>2. /\ w.page = v.page /\ w.filter = v.filter /\ w.start = v.start /\ w.seen = v.seen
          /\ w.step = "count" /\ w.number = v.number + 1
      BY <3>1 DEF ListVisit
    <3> QED BY <1>2, <3>1, <3>2 DEF ShownPages
  <2> QED BY <2>1, <2>2
<1>5. PageInv(w)
  BY <1>1, <1>4 DEF PageInv
<1>6. PageInv(w)'
  BY <1>4, <1>5, PageStays
<1> QED BY <1>3, <1>6 DEF PageInv

LEMMA PagingNext == IInv /\ TypeInv /\ PagingInv /\ [Next]_vars => PagingInv'
<1> SUFFICES ASSUME IInv, TypeInv, PagingInv, [Next]_vars PROVE PagingInv'
  OBVIOUS
<1>t. NumbersInv /\ RowsInv
  BY DEF IInv, TypeInv
<1>1. CASE Writes
  BY <1>t, <1>1, PagingWrites
<1>2. CASE \/ Execute \/ StatementFails
           \/ \E name \in DOMAIN Statements : OpenNumbers(name)
  <2>1. visit'.page \in Numbers
    <3>1. CASE Execute \/ StatementFails
      <4>1. AtNumbers
        BY <3>1 DEF Execute, StatementFails
      <4>2. visit \in NumberVisit
        BY <1>t, <4>1, StatementAt DEF NumbersInv, VisitInv
      <4>3. visit'.page = visit.page
        BY <3>1, <4>2 DEF Execute, StatementFails, NumberVisit
      <4> QED BY <4>2, <4>3 DEF NumberVisit
    <3>2. CASE \E name \in DOMAIN Statements : OpenNumbers(name)
      BY <3>2, Lengths DEF OpenNumbers
    <3> QED BY <1>2, <3>1, <3>2
  <2> QED BY <2>1, Lengths DEF PagingInv, OnList
<1>3. CASE \E l \in Lists, filter \in BOOLEAN : OpenList(l, filter)
  BY <1>t, <1>3, PagingOpens DEF PagingInv
<1>4. CASE SelectRows \/ CountRows \/ NextPage
  <2>1. OnList /\ visit \in ListVisit
    BY <1>4 DEF SelectRows, CountRows, NextPage, AtList, OnList, TypeInv
  <2>2. visit'.clean = visit.clean
    BY <1>4, <2>1 DEF SelectRows, CountRows, NextPage, ListVisit
  <2>3. visit.clean => PageInv(visit)'
    BY <1>t, <1>4, <2>1, PagingSelects, PagingTurns DEF PagingInv
  <2> QED BY <2>2, <2>3 DEF PagingInv
<1>5. CASE ListFails
  <2>1. OnList /\ visit \in ListVisit
    BY <1>5 DEF ListFails, AtList, OnList, TypeInv
  <2>2. visit'.clean = FALSE
    BY <1>5, <2>1 DEF ListFails, ListVisit
  <2> QED BY <2>2 DEF PagingInv
<1>6. CASE Leave \/ Deployment \/ (\E s \in Services : ServiceDies(s)) \/ UNCHANGED vars
  <2>1. UNCHANGED <<rows, matching>> /\ visit' \in {None, visit}
    BY <1>6 DEF Leave, Deployment, ServiceDies, vars, tables
  <2>2. CASE visit' = None
    BY <2>2 DEF PagingInv, OnList
  <2>3. CASE visit' = visit
    <3>1. PICK v : v = visit
      OBVIOUS
    <3>2. PageInv(v) => PageInv(v)'
      BY <2>1, PageStays
    <3>3. PageInv(visit) => PageInv(visit)'
      BY <2>3, <3>1, <3>2 DEF PageInv
    <3> QED BY <2>3, <3>3 DEF PagingInv, OnList
  <2> QED BY <2>1, <2>2, <2>3
<1> QED BY <1>1, <1>2, <1>3, <1>4, <1>5, <1>6 DEF Next, Writes

(* Whoever follows the links to the last page has seen every row that was  *)
(* found at the start, whatever the bot added on the way.                  *)
THEOREM PagingComplete == Spec => []PagingMissesNothing
<1>1. Init => PagingInv
  BY DEF Init, PagingInv, OnList
<1>2. Spec => [](IInv /\ TypeInv)
  BY TypeInvariance
<1>3. [](IInv /\ TypeInv) /\ PagingInv /\ [][Next]_vars => []PagingInv
  BY PagingNext, PTL
<1>4. PagingInv => PagingMissesNothing
  BY DEF PagingInv, PageInv, PagingMissesNothing, LastShown, HasNext, OnList
<1> QED BY <1>1, <1>2, <1>3, <1>4, PTL DEF Spec
=============================================================================
