---------------------------- MODULE Conversation ----------------------------
(***************************************************************************)
(* One platform's Bot: the handlers of messages and callbacks, from a URL  *)
(* or a pressed button to the call of PushJob, against the rows of users,  *)
(* settings and downloads, which the admin panel and the workers change in *)
(* between.  A transport handles one update at a time; the handler of a    *)
(* URL reads the database step by step and asks yt-dlp for formats, and    *)
(* the other processes run between those steps.                            *)
(*                                                                         *)
(* Left out: /start, /mode and /limits, which only show texts and buttons; *)
(* the wording of answers; the dates of rows, of which only the counts of  *)
(* this day's and this month's are kept, until the day or the month turns; *)
(* the permission of a user is the one for the source of the URL.  An      *)
(* update the platform delivers twice is two messages.                     *)
(***************************************************************************)
EXTENDS Naturals, Sequences

CONSTANTS
    Users,        \* external user ids
    Chats,
    Urls,         \* supported URLs
    Reels,        \* those of Instagram, which are never offered formats
    Formats,      \* format ids
    Offered,      \* [Urls -> SUBSET Formats], what yt-dlp lists for a URL
    Account,      \* [Users -> Users \cup {None}]: the user whose users.id
                  \* equals the external id; downloads.user_id holds that id
    Limits,       \* values of the daily and monthly limits, of users and
                  \* of the settings
    MaxMessages,  \* bound: messages with a URL
    MaxChanges,   \* bound: changes made in the admin panel
    Faults,       \* subset of {"db", "redis", "formats", "send", "restart"}
    None

Best == "best"     \* format "": yt-dlp chooses
FallbackDaily == 10
FallbackMonthly == 100

ASSUME ConstantsAssumption ==
    /\ Reels \subseteq Urls
    /\ Offered \in [Urls -> SUBSET Formats]
    /\ Account \in [Users -> Users \cup {None}]
    /\ Limits \subseteq Nat
    /\ MaxMessages \in Nat
    /\ MaxChanges \in Nat
    /\ Faults \subseteq {"db", "redis", "formats", "send", "restart"}
    /\ Best \notin Formats

VARIABLES
    users,      \* the rows of table users
    allowed,    \* settings.default_*_allowed
    default,    \* settings.default_*_limit, which no handler reads
    usage,      \* rows of table downloads of each user since the day began
                \* and since the month began
    pending,    \* pendingURLs of the Bot: per chat, none or one
    keyboards,  \* format keyboards on display
    handler,    \* the updates being handled: none or one
    jobs,       \* jobs pushed so far
    logged,     \* those a worker has finished and logged
    messages,   \* messages handled so far
    changes,    \* changes made in the admin panel so far
    gates       \* history: what each request that passed every check was
                \* checked against

admin == <<allowed, default, changes>>
bot == <<pending, keyboards, jobs, messages, gates>>
vars == <<users, admin, usage, bot, handler, logged>>

Row == [mode : {"unset", "auto", "manual"}, blocked : BOOLEAN,
        permission : {"default", "allow", "deny"},
        daily : Limits \cup {None}, monthly : Limits \cup {None}]
Count == [day : Nat, month : Nat]
Request == [id : 1..MaxMessages, user : Users, chat : Chats, url : Urls]
Keyboard == [id : 1..MaxMessages, chat : Chats, url : Urls]
Selection == [request : Request, shown : BOOLEAN] \* shown: FormatsMessage is set

Checks == [pc : {"load", "permission", "daily", "monthly"}, request : Request,
           row : Row \cup {None}, allowed : BOOLEAN, day : Nat]
Delivery == [pc : {"formats", "keyboard", "queue"}, request : Request,
             format : Formats \cup {Best}, via : {"message", "button"}]
Job == [request : Request, format : Formats \cup {Best}, via : {"message", "button"}]
Gate == [request : Request, row : Row, allowed : BOOLEAN, day : Nat, month : Nat]

TypeOK ==
    /\ users \in [Users -> Row]
    /\ allowed \in BOOLEAN
    /\ default \in [daily : Limits, monthly : Limits]
    /\ usage \in [Users -> Count]
    /\ pending \in [Chats -> SUBSET Selection]
    /\ keyboards \subseteq Keyboard
    /\ handler \subseteq Checks \cup Delivery
    /\ jobs \in Seq(Job)
    /\ logged \subseteq 1..Len(jobs)
    /\ messages \in 0..MaxMessages
    /\ changes \in 0..MaxChanges
    /\ gates \subseteq Gate

NewRow == [mode |-> "unset", blocked |-> FALSE, permission |-> "default",
           daily |-> None, monthly |-> None]

NoRows == [day |-> 0, month |-> 0]

(* The settings are as the panel left them.                                *)
Init ==
    /\ users = [u \in Users |-> NewRow]
    /\ allowed \in BOOLEAN
    /\ default \in [daily : Limits, monthly : Limits]
    /\ usage = [u \in Users |-> NoRows]
    /\ pending = [c \in Chats |-> {}]
    /\ keyboards = {}
    /\ handler = {}
    /\ jobs = <<>>
    /\ logged = {}
    /\ messages = 0
    /\ changes = 0
    /\ gates = {}

-----------------------------------------------------------------------------
(* Bot.url: the checks.                                                    *)

(* The handler returns: an answer is shown and nothing else happens.       *)
Return ==
    /\ handler' = {}
    /\ UNCHANGED <<users, admin, usage, bot, logged>>

Receive(u, c, url) ==
    /\ handler = {}
    /\ messages < MaxMessages
    /\ messages' = messages + 1
    /\ handler' = {[pc |-> "load", row |-> None, allowed |-> FALSE, day |-> 0,
                    request |-> [id |-> messages', user |-> u, chat |-> c, url |-> url]]}
    /\ UNCHANGED <<users, admin, usage, pending, keyboards, jobs, gates, logged>>

(* NULL in a column is "unset", "default" or None.                         *)
GetByTelegramID(u) == users[u]

(* The row GetOrCreate returns decides, whatever happens to it later.      *)
Refused(row) == row.mode = "unset" \/ row.blocked

LoadUser(h) ==
    /\ h.pc = "load"
    /\ ~Refused(GetByTelegramID(h.request.user))
    /\ handler' = {[h EXCEPT !.pc = "permission", !.row = GetByTelegramID(h.request.user)]}
    /\ UNCHANGED <<users, admin, usage, bot, logged>>

RefuseUser(h) ==
    /\ h.pc = "load"
    /\ Refused(GetByTelegramID(h.request.user))
    /\ Return

Permitted(row) ==
    \/ row.permission = "allow"
    \/ row.permission = "default" /\ allowed

CheckPermission(h) ==
    /\ h.pc = "permission"
    /\ Permitted(h.row)
    /\ handler' = {[h EXCEPT !.pc = "daily", !.allowed = allowed]}
    /\ UNCHANGED <<users, admin, usage, bot, logged>>

DenyPermission(h) ==
    /\ h.pc = "permission"
    /\ ~Permitted(h.row)
    /\ Return

(* A limit of the user's own, and otherwise a constant of the bot's.       *)
DailyLimit(row) == IF row.daily # None THEN row.daily ELSE FallbackDaily

MonthlyLimit(row) == IF row.monthly # None THEN row.monthly ELSE FallbackMonthly

(* Rows of any status count.                                               *)
GetDailyCount(u) == usage[u].day

GetMonthlyCount(u) == usage[u].month

CheckDailyLimit(h) == GetDailyCount(h.request.user) < DailyLimit(h.row)

(* Mutant: this day's rows for this month's. *)
CheckMonthlyByDay(h) == GetDailyCount(h.request.user) < MonthlyLimit(h.row)

CheckMonthlyLimit(h) == GetMonthlyCount(h.request.user) < MonthlyLimit(h.row)

PassDaily(h) ==
    /\ h.pc = "daily"
    /\ CheckDailyLimit(h)
    /\ handler' = {[h EXCEPT !.pc = "monthly", !.day = GetDailyCount(h.request.user)]}
    /\ UNCHANGED <<users, admin, usage, bot, logged>>

ExceedDaily(h) ==
    /\ h.pc = "daily"
    /\ ~CheckDailyLimit(h)
    /\ Return

Deliver(request, pc, format, via) ==
    [pc |-> pc, request |-> request, format |-> format, via |-> via]

GateOf(h) == [request |-> h.request, row |-> h.row, allowed |-> h.allowed,
              day |-> h.day, month |-> GetMonthlyCount(h.request.user)]

(* The last check; a Reel, or a user in automatic mode, needs no format,   *)
(* and otherwise the selection replaces whatever was pending in the chat.  *)
PassMonthly(h) ==
    /\ h.pc = "monthly"
    /\ CheckMonthlyLimit(h)
    /\ gates' = gates \cup {GateOf(h)}
    /\ \/ /\ h.request.url \in Reels \/ h.row.mode = "auto"
          /\ handler' = {Deliver(h.request, "queue", Best, "message")}
          /\ UNCHANGED pending
       \/ /\ h.request.url \notin Reels /\ h.row.mode # "auto"
          /\ handler' = {Deliver(h.request, "formats", Best, "message")}
          /\ pending' = [pending EXCEPT ![h.request.chat] =
                           {[request |-> h.request, shown |-> FALSE]}]
    /\ UNCHANGED <<users, admin, usage, keyboards, jobs, messages, logged>>

ExceedMonthly(h) ==
    /\ h.pc = "monthly"
    /\ ~CheckMonthlyLimit(h)
    /\ Return

(* An explicit permission is in the row already loaded.                    *)
CheckFails(h) ==
    /\ "db" \in Faults
    /\ \/ h.pc \in {"load", "daily", "monthly"}
       \/ h.pc = "permission" /\ h.row.permission = "default"
    /\ Return

-----------------------------------------------------------------------------
(* Bot.url: the formats.  Both fall-backs leave the selection pending.     *)

ListFormats(h) ==
    /\ h.pc = "formats"
    /\ Offered[h.request.url] # {}
    /\ handler' = {[h EXCEPT !.pc = "keyboard"]}
    /\ UNCHANGED <<users, admin, usage, bot, logged>>

FallBack(h) ==
    /\ h.pc = "formats"
    /\ "formats" \in Faults \/ Offered[h.request.url] = {}
    /\ handler' = {[h EXCEPT !.pc = "queue"]}
    /\ UNCHANGED <<users, admin, usage, bot, logged>>

KeyboardOf(request) == [id |-> request.id, chat |-> request.chat, url |-> request.url]

ShowKeyboard(h) ==
    /\ h.pc = "keyboard"
    /\ keyboards' = keyboards \cup {KeyboardOf(h.request)}
    /\ pending' = [pending EXCEPT ![h.request.chat] =
                     {[s EXCEPT !.shown = TRUE] : s \in @}]
    /\ handler' = {}
    /\ UNCHANGED <<users, admin, usage, jobs, messages, gates, logged>>

(* The keyboard may be on display although the call reported an error.     *)
ShowKeyboardFails(h) ==
    /\ "send" \in Faults
    /\ h.pc = "keyboard"
    /\ keyboards' \in {keyboards, keyboards \cup {KeyboardOf(h.request)}}
    /\ handler' = {[h EXCEPT !.pc = "queue"]}
    /\ UNCHANGED <<users, admin, usage, pending, jobs, messages, gates, logged>>

-----------------------------------------------------------------------------
(* Bot.queue and the callbacks.                                            *)

JobOf(h) == [request |-> h.request, format |-> h.format, via |-> h.via]

Queue(h) ==
    /\ h.pc = "queue"
    /\ jobs' = Append(jobs, JobOf(h))
    /\ handler' = {}
    /\ UNCHANGED <<users, admin, usage, pending, keyboards, messages, gates, logged>>

QueueFails(h) ==
    /\ "redis" \in Faults
    /\ h.pc = "queue"
    /\ Return

(* The message to delete is the one the selection remembers, if any, and   *)
(* the call may fail.                                                      *)
KeyboardsLeft(s) ==
    {keyboards \ IF s.shown THEN {KeyboardOf(s.request)} ELSE {}}
       \cup IF "send" \in Faults THEN {keyboards} ELSE {}

(* Mutant: the selection is read, not removed.                             *)
PressButtonKeeps(k, f) ==
    /\ handler = {}
    /\ \E s \in pending[k.chat] :
          /\ keyboards' \in KeyboardsLeft(s)
          /\ handler' = {Deliver(s.request, "queue", f, "button")}
    /\ UNCHANGED <<users, admin, usage, pending, jobs, messages, gates, logged>>

(* A button of keyboard k, pressed by anyone in its chat.  The callback    *)
(* carries the format but not the URL: what is queued is the selection     *)
(* pending in the chat.  With none, "Session expired" is all that happens. *)
PressButton(k, f) ==
    /\ handler = {}
    /\ \E s \in pending[k.chat] :
          /\ keyboards' \in KeyboardsLeft(s)
          /\ handler' = {Deliver(s.request, "queue", f, "button")}
    /\ pending' = [pending EXCEPT ![k.chat] = {}]
    /\ UNCHANGED <<users, admin, usage, jobs, messages, gates, logged>>

ChooseMode(u, mode) ==
    /\ handler = {}
    /\ users' = [users EXCEPT ![u].mode = mode]
    /\ UNCHANGED <<admin, usage, bot, handler, logged>>

-----------------------------------------------------------------------------
(* The other processes.                                                    *)

(* AdminUsers has the steps of these writes.                               *)
Block(u, blocked) ==
    /\ changes < MaxChanges
    /\ changes' = changes + 1
    /\ users' = [users EXCEPT ![u].blocked = blocked]
    /\ UNCHANGED <<allowed, default, usage, bot, handler, logged>>

SetRights(u, permission, daily, monthly) ==
    /\ changes < MaxChanges
    /\ changes' = changes + 1
    /\ users' = [users EXCEPT ![u].permission = permission,
                              ![u].daily = daily, ![u].monthly = monthly]
    /\ UNCHANGED <<allowed, default, usage, bot, handler, logged>>

(* Mutant: an empty field of the form is saved.                            *)
SaveEmptySettings(a, limits) ==
    /\ changes < MaxChanges
    /\ changes' = changes + 1
    /\ allowed' = a
    /\ default' \in {limits, [limits EXCEPT !.daily = None]}
    /\ UNCHANGED <<users, usage, bot, handler, logged>>

SaveSettings(a, limits) ==
    /\ changes < MaxChanges
    /\ changes' = changes + 1
    /\ allowed' = a
    /\ default' = limits
    /\ UNCHANGED <<users, usage, bot, handler, logged>>

(* A worker inserts the row of a finished job under the external user id:  *)
(* it counts for the user who has that users.id, and without one the       *)
(* foreign key refuses it.                                                 *)
Log(i) ==
    /\ logged' = logged \cup {i}
    /\ usage' = [u \in Users |->
                   IF Account[jobs[i].request.user] = u
                     THEN [day |-> usage[u].day + 1, month |-> usage[u].month + 1]
                     ELSE usage[u]]
    /\ UNCHANGED <<users, admin, bot, handler>>

(* Each count is of the rows since date_trunc(NOW()) of its own statement. *)
DayTurns ==
    /\ usage' = [u \in Users |-> [usage[u] EXCEPT !.day = 0]]
    /\ UNCHANGED <<users, admin, bot, handler, logged>>

MonthTurns ==
    /\ usage' = [u \in Users |-> NoRows]
    /\ UNCHANGED <<users, admin, bot, handler, logged>>

(* The process starts again: the map is empty, the keyboards still there.  *)
Restart ==
    /\ "restart" \in Faults
    /\ pending' = [c \in Chats |-> {}]
    /\ handler' = {}
    /\ UNCHANGED <<users, admin, usage, keyboards, jobs, messages, gates, logged>>

HandlerStep(h) ==
    \/ LoadUser(h) \/ RefuseUser(h)
    \/ CheckPermission(h) \/ DenyPermission(h)
    \/ PassDaily(h) \/ ExceedDaily(h)
    \/ PassMonthly(h) \/ ExceedMonthly(h)
    \/ CheckFails(h)
    \/ ListFormats(h) \/ FallBack(h)
    \/ ShowKeyboard(h) \/ ShowKeyboardFails(h)
    \/ Queue(h) \/ QueueFails(h)

Next ==
    \/ \E u \in Users, c \in Chats, url \in Urls : Receive(u, c, url)
    \/ \E h \in handler : HandlerStep(h)
    \/ \E k \in keyboards : \E f \in Offered[k.url] \cup {Best} : PressButton(k, f)
    \/ \E u \in Users, mode \in {"auto", "manual"} : ChooseMode(u, mode)
    \/ \E u \in Users, b \in BOOLEAN : Block(u, b)
    \/ \E u \in Users, p \in {"default", "allow", "deny"},
          d \in Limits \cup {None}, m \in Limits \cup {None} : SetRights(u, p, d, m)
    \/ \E a \in BOOLEAN, l \in [daily : Limits, monthly : Limits] : SaveSettings(a, l)
    \/ \E i \in DOMAIN jobs \ logged : Log(i)
    \/ DayTurns
    \/ MonthTurns
    \/ Restart

Spec == Init /\ [][Next]_vars

-----------------------------------------------------------------------------
(* What holds.                                                             *)

(* Whatever the admin, the workers, midnight and other updates do in       *)
(* between, every queued job, from a message or from a button, is for a    *)
(* request whose owner, when url() read each of them, had chosen a mode,   *)
(* was not blocked, was permitted the source, and had fewer rows this day  *)
(* and fewer this month than the row loaded, or for lack of a limit the    *)
(* constants 10 and 100, allowed: no path to PushJob goes around a check.  *)
JobsGated ==
    \A i \in DOMAIN jobs :
       \E g \in gates :
          /\ g.request = jobs[i].request
          /\ g.row.mode # "unset" /\ ~g.row.blocked
          /\ \/ g.row.permission = "allow"
             \/ g.row.permission = "default" /\ g.allowed
          /\ g.day < DailyLimit(g.row)
          /\ g.month < MonthlyLimit(g.row)

(* One URL is queued at most once by its own handler and at most once by a *)
(* button, however often buttons of old and new keyboards are pressed.     *)
OneJobPerSelection ==
    \A i, k \in DOMAIN jobs :
       i # k /\ jobs[i].request.id = jobs[k].request.id => jobs[i].via # jobs[k].via

-----------------------------------------------------------------------------
(* What the documentation says and the code does not do.                   *)

(* QWEN.md:128: the job is pushed "with chosen format", the format chosen  *)
(* among those listed for its URL.                                         *)
FormatOffered ==
    \A i \in DOMAIN jobs :
       jobs[i].format # Best => jobs[i].format \in Offered[jobs[i].request.url]
=============================================================================
