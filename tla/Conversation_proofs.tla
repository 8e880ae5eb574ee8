------------------------- MODULE Conversation_proofs -------------------------
(***************************************************************************)
(* Proofs about Conversation, for every value of its constants.            *)
(***************************************************************************)
EXTENDS Conversation, TLAPS

(* The type invariant, with what the steps rely on: a request that has     *)
(* been loaded carries a row, and one update is handled at a time.         *)
TypeInv ==
    /\ TypeOK
    /\ \A h \in handler : h.pc \in {"permission", "daily", "monthly"} => h.row \in Row
    /\ \A h, i \in handler : h = i

LEMMA NewRowType == NewRow \in Row
BY DEF NewRow, Row

LEMMA RightsType ==
    ASSUME NEW row \in Row, NEW p \in {"default", "allow", "deny"},
           NEW d \in Limits \cup {None}, NEW m \in Limits \cup {None}
    PROVE  [row EXCEPT !.permission = p, !.daily = d, !.monthly = m] \in Row
BY DEF Row

LEMMA NoRowsType == NoRows \in Count
BY DEF NoRows, Count

LEMMA InitType == Init => TypeInv
BY NewRowType, NoRowsType, ConstantsAssumption DEF Init, TypeInv, TypeOK

(* What a handler's program counter says of its record.                    *)
LEMMA HandlerKinds ==
    ASSUME TypeInv, NEW h \in handler
    PROVE  /\ handler = {h}
           /\ h.request \in Request
           /\ h.pc \in {"load", "permission", "daily", "monthly"} => h \in Checks
           /\ h.pc \in {"formats", "keyboard", "queue"} => h \in Delivery
           /\ h.pc \in {"load", "permission", "daily", "monthly", "formats", "keyboard", "queue"}
<1>1. h \in Checks \/ h \in Delivery
  BY DEF TypeInv, TypeOK
<1>2. handler = {h}
  BY DEF TypeInv
<1>3. CASE h \in Checks
  BY <1>2, <1>3 DEF Checks
<1>4. CASE h \in Delivery
  BY <1>2, <1>4 DEF Delivery
<1> QED BY <1>1, <1>3, <1>4

(* One step of the handler preserves the types.                            *)
LEMMA HandlerType ==
    ASSUME TypeInv, NEW h \in handler, HandlerStep(h)
    PROVE  TypeInv'
<1> USE DEF TypeInv, TypeOK, admin, bot
<1>0. /\ handler = {h}
      /\ h.request \in Request
      /\ h.pc \in {"load", "permission", "daily", "monthly"} => h \in Checks
      /\ h.pc \in {"formats", "keyboard", "queue"} => h \in Delivery
  BY HandlerKinds
<1>1. CASE Return
  BY <1>1 DEF Return
<1>2. CASE LoadUser(h)
  <2>1. users[h.request.user] \in Row
    BY <1>0 DEF Request
  <2>2. [h EXCEPT !.pc = "permission", !.row = users[h.request.user]] \in Checks
    BY <1>0, <1>2, <2>1 DEF Checks, LoadUser, GetByTelegramID
  <2> QED BY <1>0, <1>2, <2>1, <2>2 DEF LoadUser, Checks, GetByTelegramID
<1>3. CASE CheckPermission(h)
  <2>1. [h EXCEPT !.pc = "daily", !.allowed = allowed] \in Checks
    BY <1>0, <1>3 DEF Checks, CheckPermission
  <2> QED BY <1>0, <1>3, <2>1 DEF CheckPermission, Checks
<1>4. CASE PassMonthly(h)
  <2> DEFINE q == Deliver(h.request, "queue", Best, "message")
             f == Deliver(h.request, "formats", Best, "message")
             s == [request |-> h.request, shown |-> FALSE]
  <2>1. q \in Delivery /\ f \in Delivery /\ s \in Selection
    BY <1>0 DEF Delivery, Deliver, Selection
  <2>2. GateOf(h) \in Gate
    <3>1. h \in Checks /\ h.row \in Row /\ usage[h.request.user].month \in Nat
      BY <1>0, <1>4 DEF PassMonthly, Request, Count
    <3> QED BY <1>0, <3>1 DEF GateOf, GetMonthlyCount, Gate, Checks
  <2>3. \/ handler' = {q} /\ pending' = pending
        \/ handler' = {f} /\ pending' = [pending EXCEPT ![h.request.chat] = {s}]
    BY <1>4, Zenon DEF PassMonthly
  <2>4. q.pc = "queue" /\ f.pc = "formats"
    BY DEF Deliver
  <2>a. h.request.chat \in Chats
    BY <1>0 DEF Request
  <2> HIDE DEF q, f, s
  <2>5. pending' \in [Chats -> SUBSET Selection]
    BY <2>1, <2>3, <2>a
  <2>6. handler' \subseteq Checks \cup Delivery
    BY <2>1, <2>3
  <2>7. gates' \subseteq Gate
    BY <1>4, <2>2 DEF PassMonthly
  <2> QED BY <1>4, <2>3, <2>4, <2>5, <2>6, <2>7 DEF PassMonthly
<1>5. CASE ListFormats(h) \/ FallBack(h)
  <2> DEFINE After(pc) == [h EXCEPT !.pc = pc]
  <2>1. After("keyboard") \in Delivery /\ After("queue") \in Delivery
    BY <1>0, <1>5 DEF Delivery, ListFormats, FallBack
  <2>2. After("keyboard").pc = "keyboard" /\ After("queue").pc = "queue"
    BY <1>0, <1>5 DEF Delivery, ListFormats, FallBack
  <2>3. handler' = {After("keyboard")} \/ handler' = {After("queue")}
    BY <1>5 DEF ListFormats, FallBack
  <2> HIDE DEF After
  <2> QED BY <1>5, <2>1, <2>2, <2>3 DEF ListFormats, FallBack
<1>6. CASE ShowKeyboard(h)
  <2>1. KeyboardOf(h.request) \in Keyboard
    BY <1>0 DEF KeyboardOf, Keyboard, Request
  <2>2. ASSUME NEW c \in Chats, NEW s \in pending[c]
        PROVE  [s EXCEPT !.shown = TRUE] \in Selection
    <3>1. s \in Selection
      OBVIOUS
    <3> QED BY <3>1 DEF Selection
  <2>3. pending' \in [Chats -> SUBSET Selection]
    BY <1>6, <1>0, <2>2 DEF ShowKeyboard, Request
  <2> QED BY <1>6, <2>1, <2>3 DEF ShowKeyboard
<1>7. CASE ShowKeyboardFails(h)
  <2>1. KeyboardOf(h.request) \in Keyboard
    BY <1>0 DEF KeyboardOf, Keyboard, Request
  <2>2. [h EXCEPT !.pc = "queue"] \in Delivery /\ [h EXCEPT !.pc = "queue"].pc = "queue"
    BY <1>0, <1>7 DEF Delivery, ShowKeyboardFails
  <2>3. keyboards' \subseteq Keyboard
    BY <1>7, <2>1 DEF ShowKeyboardFails
  <2> QED BY <1>7, <2>2, <2>3 DEF ShowKeyboardFails
<1>8. CASE Queue(h)
  <2>1. JobOf(h) \in Job
    BY <1>0, <1>8 DEF JobOf, Job, Delivery, Queue
  <2>2. jobs' \in Seq(Job) /\ Len(jobs') = Len(jobs) + 1
    BY <1>8, <2>1 DEF Queue
  <2>3. logged' \subseteq 1..Len(jobs')
    BY <1>8, <2>2 DEF Queue
  <2> QED BY <1>8, <2>2, <2>3 DEF Queue
<1>9. CASE PassDaily(h)
  <2>1. h \in Checks /\ h.row \in Row /\ usage[h.request.user].day \in Nat
    BY <1>0, <1>9 DEF PassDaily, Request, Count
  <2> DEFINE n == [h EXCEPT !.pc = "monthly", !.day = usage[h.request.user].day]
  <2>2. n \in Checks /\ n.row \in Row
    BY <2>1 DEF Checks
  <2>3. handler' = {n} /\ UNCHANGED <<users, admin, usage, bot, logged>>
    BY <1>9 DEF PassDaily, GetDailyCount
  <2> HIDE DEF n
  <2> QED BY <2>2, <2>3
<1> QED
  BY <1>1, <1>2, <1>3, <1>4, <1>5, <1>6, <1>7, <1>8, <1>9
     DEF HandlerStep, RefuseUser, DenyPermission, ExceedDaily, ExceedMonthly, CheckFails, QueueFails

(* So does every other step.                                               *)
LEMMA NextType == TypeInv /\ [Next]_vars => TypeInv'
<1> SUFFICES ASSUME TypeInv, [Next]_vars PROVE TypeInv'
  OBVIOUS
<1> USE DEF TypeInv, TypeOK, admin, bot
<1>1. ASSUME NEW u \in Users, NEW c \in Chats, NEW url \in Urls, Receive(u, c, url)
      PROVE  TypeInv'
  <2>1. messages' \in 1..MaxMessages
    BY <1>1, ConstantsAssumption DEF Receive
  <2> DEFINE h == [pc |-> "load", row |-> None, allowed |-> FALSE, day |-> 0,
                   request |-> [id |-> messages', user |-> u, chat |-> c, url |-> url]]
  <2>2. h \in Checks /\ h.pc = "load"
    BY <2>1 DEF Checks, Request
  <2>3. handler' = {h}
    BY <1>1 DEF Receive
  <2> HIDE DEF h
  <2> QED BY <1>1, <2>1, <2>2, <2>3 DEF Receive
<1>2. ASSUME NEW k \in keyboards, NEW f \in Offered[k.url] \cup {Best}, PressButton(k, f)
      PROVE  TypeInv'
  <2>1. PICK s \in pending[k.chat] :
          /\ keyboards' \in KeyboardsLeft(s)
          /\ handler' = {Deliver(s.request, "queue", f, "button")}
    BY <1>2 DEF PressButton
  <2>2. k \in Keyboard /\ k.chat \in Chats /\ k.url \in Urls
    BY DEF Keyboard
  <2>3. f \in Formats \cup {Best}
    BY <2>2, ConstantsAssumption
  <2>4. s \in Selection /\ s.request \in Request /\ s.request.user \in Users
    BY <2>2 DEF Selection, Request
  <2>5. users[s.request.user].blocked \in BOOLEAN
    BY <2>4 DEF Row
  <2> DEFINE h == Deliver(s.request, "queue", f, "button")
  <2>6. h \in Delivery /\ h.pc = "queue"
    BY <2>3, <2>4, <2>5 DEF Deliver, Delivery
  <2>7. keyboards' \subseteq Keyboard
    BY <2>1 DEF KeyboardsLeft
  <2>8. pending' \in [Chats -> SUBSET Selection]
    BY <1>2 DEF PressButton
  <2>9. handler' = {h}
    BY <2>1
  <2> HIDE DEF h
  <2> QED BY <1>2, <2>6, <2>7, <2>8, <2>9 DEF PressButton
<1>3. ASSUME NEW u \in Users, NEW mode \in {"auto", "manual"}, ChooseMode(u, mode)
      PROVE  TypeInv'
  <2>1. [users[u] EXCEPT !.mode = mode] \in Row
    BY DEF Row
  <2> QED BY <1>3, <2>1 DEF ChooseMode
<1>4. ASSUME NEW u \in Users, NEW b \in BOOLEAN, Block(u, b)
      PROVE  TypeInv'
  <2>1. [users[u] EXCEPT !.blocked = b] \in Row
    BY DEF Row
  <2> QED BY <1>4, <2>1, ConstantsAssumption DEF Block
<1>5. ASSUME NEW u \in Users, NEW p \in {"default", "allow", "deny"},
             NEW d \in Limits \cup {None}, NEW m \in Limits \cup {None},
             SetRights(u, p, d, m)
      PROVE  TypeInv'
  <2>1. [users[u] EXCEPT !.permission = p, !.daily = d, !.monthly = m] \in Row
    <3>1. users[u] \in Row
      OBVIOUS
    <3> QED BY <3>1, RightsType
  <2>2. users' \in [Users -> Row]
    BY <1>5, <2>1 DEF SetRights
  <2> QED BY <1>5, <2>2, ConstantsAssumption DEF SetRights
<1>6. ASSUME NEW a \in BOOLEAN, NEW l \in [daily : Limits, monthly : Limits], SaveSettings(a, l)
      PROVE  TypeInv'
  BY <1>6, ConstantsAssumption DEF SaveSettings
<1>7. ASSUME NEW i \in DOMAIN jobs \ logged, Log(i)
      PROVE  TypeInv'
  <2>1. usage' \in [Users -> Count]
    BY <1>7 DEF Log, Count
  <2>2. DOMAIN jobs = 1..Len(jobs)
    OBVIOUS
  <2>3. logged' \subseteq 1..Len(jobs')
    BY <1>7, <2>2 DEF Log
  <2> QED BY <1>7, <2>1, <2>3 DEF Log
<1>8. CASE Restart
  BY <1>8 DEF Restart
<1>9. CASE UNCHANGED vars
  BY <1>9 DEF vars
<1>10. CASE DayTurns
  BY <1>10 DEF DayTurns, Count
<1>11. CASE MonthTurns
  BY <1>11, NoRowsType DEF MonthTurns
<1> QED
  BY HandlerType, <1>1, <1>2, <1>3, <1>4, <1>5, <1>6, <1>7, <1>8, <1>9, <1>10, <1>11
     DEF Next

(* Every reachable state is well typed: what the handlers, the admin panel *)
(* and the workers write keeps the shape the others rely on.               *)
THEOREM TypeCorrect == Spec => []TypeOK
<1>1. TypeInv => TypeOK
  BY DEF TypeInv
<1> QED BY <1>1, InitType, NextType, PTL DEF Spec
-----------------------------------------------------------------------------
(* Everything behind the checks has passed them: the requests waiting for  *)
(* formats, a keyboard or PushJob, those pending in a chat, and the jobs.  *)

Admitted(request) ==
    \E g \in gates :
       /\ g.request = request
       /\ ~Refused(g.row)
       /\ \/ g.row.permission = "allow"
          \/ g.row.permission = "default" /\ g.allowed
       /\ g.day < DailyLimit(g.row)
       /\ g.month < MonthlyLimit(g.row)

GateInv ==
    /\ \A h \in handler :
          /\ h.pc \in {"permission", "daily", "monthly"} => ~Refused(h.row)
          /\ h.pc \in {"daily", "monthly"} =>
                \/ h.row.permission = "allow"
                \/ h.row.permission = "default" /\ h.allowed
          /\ h.pc = "monthly" => h.day < DailyLimit(h.row)
          /\ h.pc \in {"formats", "keyboard", "queue"} => Admitted(h.request)
    /\ \A c \in Chats : \A s \in pending[c] : Admitted(s.request)
    /\ \A i \in DOMAIN jobs : Admitted(jobs[i].request)

(* A gate once passed stays on record.                                     *)
LEMMA GatesKept == [Next]_vars => gates \subseteq gates'
BY DEF Next, HandlerStep, Return, RefuseUser, DenyPermission, ExceedDaily, ExceedMonthly, CheckFails,
       QueueFails, LoadUser, CheckPermission, PassDaily, PassMonthly, ListFormats, FallBack,
       ShowKeyboard, ShowKeyboardFails, Queue, PressButton, Receive, ChooseMode, Block,
       SetRights, SaveSettings, Log, DayTurns, MonthTurns, Restart, vars, bot

LEMMA AdmittedKept ==
    ASSUME gates \subseteq gates', NEW r, Admitted(r)
    PROVE  Admitted(r)'
BY DEF Admitted, Refused, DailyLimit, MonthlyLimit

LEMMA HandlerGates ==
    ASSUME TypeInv, GateInv, NEW h \in handler, HandlerStep(h), gates \subseteq gates'
    PROVE  GateInv'
<1> USE DEF GateInv, bot
<1>0. /\ handler = {h}
      /\ h.request \in Request
      /\ h.pc \in {"load", "permission", "daily", "monthly"} => h \in Checks
      /\ h.pc \in {"formats", "keyboard", "queue"} => h \in Delivery
  BY HandlerKinds
<1>a. \A r : Admitted(r) => Admitted(r)'
  BY AdmittedKept
<1>b. pending \in [Chats -> SUBSET Selection] /\ jobs \in Seq(Job)
  BY DEF TypeInv, TypeOK
<1>c. ASSUME handler' = {}, UNCHANGED <<pending, jobs>>
      PROVE  GateInv'
  BY <1>a, <1>c
<1>d. ASSUME NEW n, handler' = {n}, n.pc \in {"formats", "keyboard", "queue"},
             n.request = h.request, Admitted(h.request)', UNCHANGED jobs,
             \A c \in Chats : \A s \in pending'[c] :
                \/ s.request = h.request
                \/ \E t \in pending[c] : s.request = t.request
      PROVE  GateInv'
  BY <1>a, <1>d
<1>1. CASE Return
  BY <1>1, <1>c DEF Return
<1>2. CASE LoadUser(h)
  <2> DEFINE n == [h EXCEPT !.pc = "permission", !.row = users[h.request.user]]
  <2>1. n.pc = "permission" /\ n.row = users[h.request.user]
    BY <1>0, <1>2 DEF Checks, LoadUser
  <2>2. handler' = {n} /\ ~Refused(n.row) /\ UNCHANGED <<pending, jobs>>
    BY <1>2, <2>1 DEF LoadUser, GetByTelegramID
  <2> HIDE DEF n
  <2> QED BY <1>a, <2>1, <2>2 DEF Refused
<1>3. CASE CheckPermission(h)
  <2> DEFINE n == [h EXCEPT !.pc = "daily", !.allowed = allowed]
  <2>1. /\ n.pc = "daily" /\ n.allowed = allowed /\ n.row = h.row
        /\ Permitted(n.row) /\ ~Refused(n.row)
    BY <1>0, <1>3 DEF Checks, CheckPermission
  <2>2. handler' = {n} /\ UNCHANGED <<pending, jobs>>
    BY <1>3 DEF CheckPermission
  <2> HIDE DEF n
  <2> QED BY <1>a, <2>1, <2>2 DEF Permitted, Refused
<1>4. CASE PassMonthly(h)
  <2>1. /\ GateOf(h).request = h.request /\ GateOf(h).row = h.row
        /\ GateOf(h).allowed = h.allowed /\ GateOf(h).day = h.day
        /\ GateOf(h).month = GetMonthlyCount(h.request.user)
    BY DEF GateOf
  <2>2. GateOf(h) \in gates' /\ CheckMonthlyLimit(h) /\ h.pc = "monthly" /\ UNCHANGED jobs
    BY <1>4 DEF PassMonthly
  <2> DEFINE g == GateOf(h)
  <2>3. Admitted(h.request)'
    <3> HIDE DEF g
    <3>1. /\ g \in gates' /\ g.request = h.request /\ ~Refused(g.row)
          /\ \/ g.row.permission = "allow"
             \/ g.row.permission = "default" /\ g.allowed
          /\ g.day < DailyLimit(g.row)
          /\ g.month < MonthlyLimit(g.row)
      BY <2>1, <2>2 DEF g, CheckMonthlyLimit
    <3> QED BY <3>1 DEF Admitted, Refused, DailyLimit, MonthlyLimit
  <2> DEFINE q == Deliver(h.request, "queue", Best, "message")
             f == Deliver(h.request, "formats", Best, "message")
             s == [request |-> h.request, shown |-> FALSE]
  <2>4. /\ q.pc = "queue" /\ q.request = h.request
        /\ f.pc = "formats" /\ f.request = h.request
        /\ s.request = h.request
    BY DEF Deliver
  <2>5. \/ handler' = {q} /\ pending' = pending
        \/ handler' = {f} /\ pending' = [pending EXCEPT ![h.request.chat] = {s}]
    BY <1>4, Zenon DEF PassMonthly
  <2> HIDE DEF q, f, s
  <2>6. \A c \in Chats : \A t \in pending'[c] : t = s \/ t \in pending[c]
    BY <2>5, <1>b
  <2> QED BY <2>2, <2>3, <2>4, <2>5, <2>6, <1>d
<1>5. CASE ListFormats(h) \/ FallBack(h)
  <2> DEFINE n(pc) == [h EXCEPT !.pc = pc]
  <2>1. \A pc \in {"keyboard", "queue"} : n(pc).pc = pc /\ n(pc).request = h.request
    BY <1>0, <1>5 DEF Delivery, ListFormats, FallBack
  <2>2. /\ handler' = {n("keyboard")} \/ handler' = {n("queue")}
        /\ h.pc = "formats" /\ UNCHANGED <<pending, jobs>>
    BY <1>5 DEF ListFormats, FallBack
  <2> HIDE DEF n
  <2>3. Admitted(h.request)'
    BY <2>2, <1>a
  <2> QED BY <2>1, <2>2, <2>3, <1>d
<1>6. CASE ShowKeyboard(h)
  <2>1. handler' = {} /\ UNCHANGED jobs
    BY <1>6 DEF ShowKeyboard
  <2>2. \A c \in Chats : \A s \in pending'[c] :
           \E t \in pending[c] : s.request = t.request
    BY <1>6, <1>b DEF ShowKeyboard, Selection
  <2> QED BY <2>1, <2>2, <1>a
<1>7. CASE ShowKeyboardFails(h)
  <2> DEFINE n == [h EXCEPT !.pc = "queue"]
  <2>1. n.pc = "queue" /\ n.request = h.request
    BY <1>0, <1>7 DEF Delivery, ShowKeyboardFails
  <2>2. handler' = {n} /\ h.pc = "keyboard" /\ UNCHANGED <<pending, jobs>>
    BY <1>7 DEF ShowKeyboardFails
  <2> HIDE DEF n
  <2>3. Admitted(h.request)'
    BY <2>2, <1>a
  <2> QED BY <2>1, <2>2, <2>3, <1>d
<1>8. CASE Queue(h)
  <2>1. /\ handler' = {} /\ UNCHANGED pending /\ h.pc = "queue"
        /\ jobs' = Append(jobs, JobOf(h))
    BY <1>8 DEF Queue
  <2>2. JobOf(h).request = h.request
    BY DEF JobOf
  <2>3. \A i \in DOMAIN jobs' : \/ i \in DOMAIN jobs /\ jobs'[i] = jobs[i]
                               \/ jobs'[i] = JobOf(h)
    BY <2>1, <1>b
  <2> QED BY <2>1, <2>2, <2>3, <1>a
<1>9. CASE PassDaily(h)
  <2> DEFINE n == [h EXCEPT !.pc = "monthly", !.day = usage[h.request.user].day]
  <2>1. /\ n.pc = "monthly" /\ n.row = h.row /\ n.allowed = h.allowed
        /\ n.day < DailyLimit(n.row) /\ ~Refused(n.row)
        /\ \/ n.row.permission = "allow"
           \/ n.row.permission = "default" /\ n.allowed
    BY <1>0, <1>9 DEF Checks, PassDaily, CheckDailyLimit, GetDailyCount
  <2>2. handler' = {n} /\ UNCHANGED <<pending, jobs>>
    BY <1>9 DEF PassDaily, GetDailyCount
  <2> HIDE DEF n
  <2> QED BY <1>a, <2>1, <2>2 DEF Refused, DailyLimit
<1> QED
  BY <1>1, <1>2, <1>3, <1>4, <1>5, <1>6, <1>7, <1>8, <1>9
     DEF HandlerStep, RefuseUser, DenyPermission, ExceedDaily, ExceedMonthly, CheckFails, QueueFails

LEMMA NextGates == TypeInv /\ GateInv /\ [Next]_vars => GateInv'
<1> SUFFICES ASSUME TypeInv, GateInv, [Next]_vars PROVE GateInv'
  OBVIOUS
<1> USE DEF GateInv, bot
<1>a. \A r : Admitted(r) => Admitted(r)'
  BY AdmittedKept, GatesKept
<1>b. pending \in [Chats -> SUBSET Selection]
  BY DEF TypeInv, TypeOK
<1>1. ASSUME NEW u \in Users, NEW c \in Chats, NEW url \in Urls, Receive(u, c, url)
      PROVE  GateInv'
  BY <1>a, <1>1 DEF Receive
<1>2. ASSUME NEW k \in keyboards, NEW f \in Offered[k.url] \cup {Best}, PressButton(k, f)
      PROVE  GateInv'
  <2>1. k.chat \in Chats
    BY DEF TypeInv, TypeOK, Keyboard
  <2>2. PICK s \in pending[k.chat] :
          handler' = {Deliver(s.request, "queue", f, "button")}
    BY <1>2 DEF PressButton
  <2>3. \A h \in handler' : h.pc = "queue" /\ h.request = s.request
    BY <2>2 DEF Deliver
  <2>4. \A c \in Chats : \A t \in pending'[c] : t \in pending[c]
    BY <1>2, <1>b DEF PressButton
  <2>5. UNCHANGED jobs
    BY <1>2 DEF PressButton
  <2> QED BY <2>1, <2>3, <2>4, <2>5, <1>a
<1>3. ASSUME UNCHANGED <<pending, handler, jobs>>
      PROVE  GateInv'
  BY <1>a, <1>3
<1>4. CASE Restart
  BY <1>a, <1>4 DEF Restart
<1> QED
  BY HandlerGates, GatesKept, <1>1, <1>2, <1>3, <1>4
     DEF Next, ChooseMode, Block, SetRights, SaveSettings, Log, DayTurns, MonthTurns, vars

(* However the admin's writes, the workers' rows, the turn of the day and  *)
(* other updates fall between a handler's reads, no job is pushed for a    *)
(* request that url() has not admitted under both limits: neither a        *)
(* fall-back nor a stale button goes around a check.                       *)
THEOREM Gated == Spec => []JobsGated
<1>1. Init => GateInv
  BY DEF Init, GateInv
<1>2. GateInv => JobsGated
  BY DEF GateInv, JobsGated, Admitted, Refused
<1> QED BY <1>1, <1>2, InitType, NextType, NextGates, PTL DEF Spec
-----------------------------------------------------------------------------
(* A request's own handler queues it before anyone else can; a selection   *)
(* that can still be pressed has queued nothing yet by a button.           *)

Pushed(id, vias) == \E i \in DOMAIN jobs : jobs[i].request.id = id /\ jobs[i].via \in vias

Selected(id) == \E c \in Chats : \E s \in pending[c] : s.request.id = id

Both == {"message", "button"}

SelectionInv ==
    /\ \A h \in handler :
          /\ h.request.id <= messages
          /\ h.pc \in {"load", "permission", "daily", "monthly"}
                => ~Pushed(h.request.id, Both) /\ ~Selected(h.request.id)
          /\ h.pc \in {"formats", "keyboard", "queue"} /\ h.via = "message"
                => ~Pushed(h.request.id, Both)
          /\ h.pc \in {"formats", "keyboard", "queue"} /\ h.via = "button"
                => ~Pushed(h.request.id, {"button"}) /\ ~Selected(h.request.id)
    /\ \A c \in Chats : \A s \in pending[c] :
          s.request.id <= messages /\ ~Pushed(s.request.id, {"button"})
    /\ \A c, d \in Chats : \A s \in pending[c], t \in pending[d] :
          s.request.id = t.request.id => c = d
    /\ \A i \in DOMAIN jobs : jobs[i].request.id <= messages
    /\ OneJobPerSelection

(* What a step keeps when it queues nothing and lets nothing be selected   *)
(* that could not be selected before.                                      *)
LEMMA SelectionKept ==
    ASSUME SelectionInv, UNCHANGED <<jobs, messages>>,
           \A c \in Chats : \A s \in pending'[c] :
              \E t \in pending[c] : s.request.id = t.request.id
    PROVE  /\ \A id, vias : ~Pushed(id, vias) => ~Pushed(id, vias)'
           /\ \A id : ~Selected(id) => ~Selected(id)'
           /\ \A c \in Chats : \A s \in pending'[c] :
                 s.request.id <= messages' /\ ~Pushed(s.request.id, {"button"})'
           /\ \A c, d \in Chats : \A s \in pending'[c], t \in pending'[d] :
                 s.request.id = t.request.id => c = d
           /\ \A i \in DOMAIN jobs' : jobs'[i].request.id <= messages'
           /\ OneJobPerSelection'
<1>1. \A id, vias : ~Pushed(id, vias) => ~Pushed(id, vias)'
  BY DEF Pushed
<1>2. \A id : ~Selected(id) => ~Selected(id)'
  BY DEF Selected
<1>3. OneJobPerSelection'
  BY DEF SelectionInv, OneJobPerSelection
<1> QED BY <1>1, <1>2, <1>3 DEF SelectionInv

LEMMA HandlerSelections ==
    ASSUME TypeInv, SelectionInv, NEW h \in handler, HandlerStep(h)
    PROVE  SelectionInv'
<1> USE DEF bot
<1>0. /\ handler = {h}
      /\ h.request \in Request
      /\ h.pc \in {"load", "permission", "daily", "monthly"} => h \in Checks
      /\ h.pc \in {"formats", "keyboard", "queue"} => h \in Delivery
  BY HandlerKinds
<1>b. pending \in [Chats -> SUBSET Selection] /\ jobs \in Seq(Job)
  BY DEF TypeInv, TypeOK
<1>c. ASSUME handler' = {}, UNCHANGED <<jobs, messages>>,
             \A c \in Chats : \A s \in pending'[c] :
                \E t \in pending[c] : s.request.id = t.request.id
      PROVE  SelectionInv'
  BY <1>c, SelectionKept DEF SelectionInv
<1>d. ASSUME NEW n, handler' = {n}, n.request = h.request, UNCHANGED <<pending, jobs, messages>>,
             \/ /\ h.pc \in {"load", "permission", "daily", "monthly"}
                /\ n.pc \in {"load", "permission", "daily", "monthly"}
             \/ /\ h.pc \in {"formats", "keyboard", "queue"}
                /\ n.pc \in {"formats", "keyboard", "queue"} /\ n.via = h.via
      PROVE  SelectionInv'
  <2>1. /\ n.request.id <= messages'
        /\ n.pc \in {"load", "permission", "daily", "monthly"}
              => ~Pushed(n.request.id, Both)' /\ ~Selected(n.request.id)'
        /\ n.pc \in {"formats", "keyboard", "queue"} /\ n.via = "message"
              => ~Pushed(n.request.id, Both)'
        /\ n.pc \in {"formats", "keyboard", "queue"} /\ n.via = "button"
              => ~Pushed(n.request.id, {"button"})' /\ ~Selected(n.request.id)'
    BY <1>d, SelectionKept DEF SelectionInv, Both
  <2>2. \A c \in Chats : \A s \in pending'[c] :
           \E t \in pending[c] : s.request.id = t.request.id
    BY <1>d
  <2> QED BY <1>d, <2>1, <2>2, SelectionKept DEF SelectionInv, Both
<1>1. CASE Return
  BY <1>1, <1>c DEF Return
<1>2. CASE LoadUser(h)
  <2> DEFINE n == [h EXCEPT !.pc = "permission", !.row = users[h.request.user]]
  <2>1. n.pc = "permission" /\ n.request = h.request
    BY <1>0, <1>2 DEF Checks, LoadUser
  <2>2. h.pc = "load" /\ handler' = {n} /\ UNCHANGED <<pending, jobs, messages>>
    BY <1>2 DEF LoadUser, GetByTelegramID
  <2> HIDE DEF n
  <2> QED BY <2>1, <2>2, <1>d
<1>3. CASE CheckPermission(h)
  <2> DEFINE n == [h EXCEPT !.pc = "daily", !.allowed = allowed]
  <2>1. n.pc = "daily" /\ n.request = h.request
    BY <1>0, <1>3 DEF Checks, CheckPermission
  <2>2. h.pc = "permission" /\ handler' = {n} /\ UNCHANGED <<pending, jobs, messages>>
    BY <1>3 DEF CheckPermission
  <2> HIDE DEF n
  <2> QED BY <2>1, <2>2, <1>d
<1>4. CASE PassMonthly(h)
  <2> DEFINE q == Deliver(h.request, "queue", Best, "message")
             f == Deliver(h.request, "formats", Best, "message")
             s == [request |-> h.request, shown |-> FALSE]
  <2>1. /\ q.pc = "queue" /\ q.request = h.request /\ q.via = "message"
        /\ f.pc = "formats" /\ f.request = h.request /\ f.via = "message"
        /\ s.request = h.request
    BY DEF Deliver
  <2>2. \/ handler' = {q} /\ pending' = pending
        \/ handler' = {f} /\ pending' = [pending EXCEPT ![h.request.chat] = {s}]
    BY <1>4, Zenon DEF PassMonthly
  <2> HIDE DEF q, f, s
  <2>3. h.pc = "monthly" /\ UNCHANGED <<jobs, messages>>
    BY <1>4 DEF PassMonthly
  <2>4. /\ ~Pushed(h.request.id, Both) /\ ~Pushed(h.request.id, {"button"})
        /\ ~Selected(h.request.id) /\ h.request.id <= messages
    BY <2>3 DEF SelectionInv, Pushed, Both
  <2>5. \A c \in Chats : \A t \in pending'[c] :
           \/ t \in pending[c]
           \/ t = s /\ c = h.request.chat
    <3>1. CASE pending' = pending
      BY <3>1
    <3>2. CASE pending' = [pending EXCEPT ![h.request.chat] = {s}]
      BY <3>2, <1>b
    <3> QED BY <3>1, <3>2, <2>2
  <2>6. \A id, vias : ~Pushed(id, vias) => ~Pushed(id, vias)'
    BY <2>3 DEF Pushed
  <2>7. \A c, d \in Chats : \A t \in pending'[c], v \in pending'[d] :
           t.request.id = v.request.id => c = d
    BY <2>1, <2>4, <2>5 DEF SelectionInv, Selected
  <2>8. \A c \in Chats : \A t \in pending'[c] :
           t.request.id <= messages' /\ ~Pushed(t.request.id, {"button"})'
    BY <2>1, <2>3, <2>4, <2>5, <2>6 DEF SelectionInv
  <2>9. \A n \in handler' : /\ n.request = h.request /\ n.via = "message"
                             /\ n.pc \in {"formats", "queue"}
    BY <2>1, <2>2
  <2>10. OneJobPerSelection'
    BY <2>3 DEF SelectionInv, OneJobPerSelection
  <2> QED BY <2>3, <2>4, <2>6, <2>7, <2>8, <2>9, <2>10 DEF SelectionInv
<1>5. CASE ListFormats(h) \/ FallBack(h) \/ ShowKeyboardFails(h)
  <2> DEFINE n(pc) == [h EXCEPT !.pc = pc]
  <2>1. h.pc \in {"formats", "keyboard"} /\ UNCHANGED <<pending, jobs, messages>>
    BY <1>5 DEF ListFormats, FallBack, ShowKeyboardFails
  <2>2. \A pc \in {"keyboard", "queue"} :
           n(pc).pc = pc /\ n(pc).request = h.request /\ n(pc).via = h.via
    BY <1>0, <2>1 DEF Delivery
  <2>3. handler' = {n("keyboard")} \/ handler' = {n("queue")}
    BY <1>5 DEF ListFormats, FallBack, ShowKeyboardFails
  <2> HIDE DEF n
  <2> QED BY <2>1, <2>2, <2>3, <1>d
<1>6. CASE ShowKeyboard(h)
  <2>1. handler' = {} /\ UNCHANGED <<jobs, messages>>
    BY <1>6 DEF ShowKeyboard
  <2>2. \A c \in Chats : \A s \in pending'[c] :
           \E t \in pending[c] : s.request.id = t.request.id
    BY <1>6, <1>b DEF ShowKeyboard, Selection
  <2> QED BY <2>1, <2>2, <1>c
<1>7. CASE Queue(h)
  <2>1. /\ handler' = {} /\ UNCHANGED <<pending, messages>> /\ h.pc = "queue"
        /\ jobs' = Append(jobs, JobOf(h))
    BY <1>7 DEF Queue
  <2>2. h \in Delivery /\ h.via \in Both
    BY <1>0, <2>1 DEF Delivery, Both
  <2> DEFINE j == JobOf(h)
  <2>3. j.request = h.request /\ j.via = h.via /\ jobs' = Append(jobs, j)
    BY <2>1 DEF JobOf
  <2> HIDE DEF j
  <2>a. jobs \in Seq(Job) /\ j \in Job
    BY <1>b, <2>2, <2>1 DEF j, JobOf, Job, Delivery
  <2>b. DOMAIN jobs = 1..Len(jobs) /\ DOMAIN jobs' = 1..(Len(jobs) + 1)
    BY <2>3, <2>a
  <2>4. /\ \A i \in DOMAIN jobs' : \/ i \in DOMAIN jobs /\ jobs'[i] = jobs[i]
                                   \/ i = Len(jobs) + 1 /\ jobs'[i] = j
        /\ Len(jobs) + 1 \notin DOMAIN jobs
    <3>1. Len(jobs) \in Nat
      BY <2>a
    <3>2. Len(jobs) + 1 \notin DOMAIN jobs
      BY <3>1, <2>b
    <3>3. ASSUME NEW i \in DOMAIN jobs
          PROVE  jobs'[i] = jobs[i]
      BY <2>3, <2>a, <2>b, <3>1
    <3>4. jobs'[Len(jobs) + 1] = j
      BY <2>3, <2>a, <2>b, <3>1
    <3>5. ASSUME NEW i \in DOMAIN jobs'
          PROVE  i \in DOMAIN jobs \/ i = Len(jobs) + 1
      BY <2>b, <3>1
    <3> QED BY <3>2, <3>3, <3>4, <3>5
  <2>5. ASSUME NEW i \in DOMAIN jobs
        PROVE  jobs[i].via \in Both
    <3>1. jobs[i] \in Job
      BY <1>b
    <3> QED BY <3>1 DEF Job, Both
  <2>6. \A i \in DOMAIN jobs : jobs[i].request.id = j.request.id => jobs[i].via # j.via
    BY <2>1, <2>2, <2>3, <2>5 DEF SelectionInv, Pushed, Both
  <2>7. OneJobPerSelection'
    BY <2>4, <2>6 DEF SelectionInv, OneJobPerSelection
  <2>8. \A i \in DOMAIN jobs' : jobs'[i].request.id <= messages'
    BY <2>1, <2>3, <2>4 DEF SelectionInv
  <2>9. ASSUME NEW c \in Chats, NEW s \in pending[c]
        PROVE  ~Pushed(s.request.id, {"button"})'
    <3>1. ~(j.request.id = s.request.id /\ j.via = "button")
      BY <2>1, <2>3 DEF SelectionInv, Selected
    <3>2. ~Pushed(s.request.id, {"button"})
      BY DEF SelectionInv
    <3> QED BY <2>4, <3>1, <3>2 DEF Pushed
  <2> QED BY <2>1, <2>7, <2>8, <2>9 DEF SelectionInv
<1>8. CASE PassDaily(h)
  <2> DEFINE n == [h EXCEPT !.pc = "monthly", !.day = usage[h.request.user].day]
  <2>1. n.pc = "monthly" /\ n.request = h.request
    BY <1>0, <1>8 DEF Checks, PassDaily
  <2>2. h.pc = "daily" /\ handler' = {n} /\ UNCHANGED <<pending, jobs, messages>>
    BY <1>8 DEF PassDaily, GetDailyCount
  <2> HIDE DEF n
  <2> QED BY <2>1, <2>2, <1>d
<1> QED
  BY <1>1, <1>2, <1>3, <1>4, <1>5, <1>6, <1>7, <1>8
     DEF HandlerStep, RefuseUser, DenyPermission, ExceedDaily, ExceedMonthly, CheckFails, QueueFails

LEMMA NextSelections == TypeInv /\ SelectionInv /\ [Next]_vars => SelectionInv'
<1> SUFFICES ASSUME TypeInv, SelectionInv, [Next]_vars PROVE SelectionInv'
  OBVIOUS
<1> USE DEF bot
<1>b. pending \in [Chats -> SUBSET Selection] /\ messages \in Nat
  BY DEF TypeInv, TypeOK
<1>1. ASSUME NEW u \in Users, NEW c \in Chats, NEW url \in Urls, Receive(u, c, url)
      PROVE  SelectionInv'
  <2>1. messages' = messages + 1 /\ UNCHANGED <<pending, jobs>>
    BY <1>1 DEF Receive
  <2>2. \A n \in handler' : n.pc = "load" /\ n.request.id = messages + 1
    BY <1>1, <2>1 DEF Receive
  <2>3. /\ \A d \in Chats : \A s \in pending[d] : s.request.id \in Nat /\ s.request.id <= messages
        /\ \A i \in DOMAIN jobs : jobs[i].request.id \in Nat /\ jobs[i].request.id <= messages
    <3>1. jobs \in Seq(Job)
      BY DEF TypeInv, TypeOK
    <3>2. \A i \in DOMAIN jobs : jobs[i] \in Job
      BY <3>1
    <3>3. \A d \in Chats : \A s \in pending[d] : s \in Selection
      BY <1>b
    <3>4. \A r \in Request : r.id \in Nat
      BY ConstantsAssumption DEF Request
    <3> QED BY <3>2, <3>3, <3>4 DEF SelectionInv, Selection, Job
  <2>4. ASSUME NEW id, id = messages + 1
        PROVE  ~Pushed(id, Both)' /\ ~Selected(id)'
    BY <1>b, <2>1, <2>3, <2>4 DEF Pushed, Selected
  <2>5. \A id, vias : ~Pushed(id, vias) => ~Pushed(id, vias)'
    BY <2>1 DEF Pushed
  <2>6. OneJobPerSelection'
    BY <2>1 DEF SelectionInv, OneJobPerSelection
  <2>7. \A c1 \in Chats : \A s \in pending'[c1] :
           s.request.id <= messages' /\ ~Pushed(s.request.id, {"button"})'
    BY <1>b, <2>1, <2>3, <2>5 DEF SelectionInv
  <2>8. \A i \in DOMAIN jobs' : jobs'[i].request.id <= messages'
    BY <1>b, <2>1, <2>3
  <2>9. \A n \in handler' : n.request.id <= messages'
    BY <1>b, <2>1, <2>2
  <2>10. \A c1, d \in Chats : \A s \in pending'[c1], t \in pending'[d] :
            s.request.id = t.request.id => c1 = d
    BY <2>1 DEF SelectionInv
  <2>11. \A n \in handler' : ~Pushed(n.request.id, Both)' /\ ~Selected(n.request.id)'
    BY <2>2, <2>4
  <2> QED BY <2>2, <2>6, <2>7, <2>8, <2>9, <2>10, <2>11 DEF SelectionInv
<1>2. ASSUME NEW k \in keyboards, NEW f \in Offered[k.url] \cup {Best}, PressButton(k, f)
      PROVE  SelectionInv'
  <2>1. k.chat \in Chats
    BY DEF TypeInv, TypeOK, Keyboard
  <2>2. PICK s \in pending[k.chat] :
          handler' = {Deliver(s.request, "queue", f, "button")}
    BY <1>2 DEF PressButton
  <2>3. \A h \in handler' : h.pc = "queue" /\ h.request = s.request /\ h.via = "button"
    BY <2>2 DEF Deliver
  <2>4. pending' = [pending EXCEPT ![k.chat] = {}] /\ UNCHANGED <<jobs, messages>>
    BY <1>2 DEF PressButton
  <2>5. \A c \in Chats : \A t \in pending'[c] : t \in pending[c] /\ c # k.chat
    BY <2>4, <1>b
  <2>6. ~Selected(s.request.id)'
    BY <2>1, <2>5 DEF SelectionInv, Selected
  <2>7. s.request.id <= messages' /\ ~Pushed(s.request.id, {"button"})'
    BY <2>1, <2>4 DEF SelectionInv, Pushed
  <2> QED BY <2>3, <2>4, <2>5, <2>6, <2>7, SelectionKept DEF SelectionInv
<1>3. ASSUME UNCHANGED <<pending, handler, jobs, messages>>
      PROVE  SelectionInv'
  BY <1>3, SelectionKept DEF SelectionInv
<1>4. CASE Restart
  <2>1. \A c \in Chats : pending'[c] = {}
    BY <1>4 DEF Restart
  <2> QED BY <1>4, <2>1, SelectionKept DEF SelectionInv, Restart
<1> QED
  BY HandlerSelections, <1>1, <1>2, <1>3, <1>4
     DEF Next, ChooseMode, Block, SetRights, SaveSettings, Log, DayTurns, MonthTurns, vars

(* However many keyboards are on display and however often they are        *)
(* pressed, across restarts of the bot, a URL leads to at most one job of  *)
(* its own handler's and at most one of a button's.                        *)
THEOREM QueuedOnce == Spec => []OneJobPerSelection
<1>1. Init => SelectionInv
  BY DEF Init, SelectionInv, OneJobPerSelection
<1>2. SelectionInv => OneJobPerSelection
  BY DEF SelectionInv
<1> QED BY <1>1, <1>2, InitType, NextType, NextSelections, PTL DEF Spec
=============================================================================
