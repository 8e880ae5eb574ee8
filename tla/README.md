# MediaHarvester in TLA+

A verification development of the bot, its worker pool, the admin panel and the
way the system comes up: TLA+ modules translated from the Go source, TLC runs on
small instances, and TLAPS proofs for every value of the constants.

## 1. The system

Four programs share one PostgreSQL database; the bot and the panel also share
Redis:

| Component | State | Operations | Modelled in |
|---|---|---|---|
| chat handlers (`bot/internal/transport/bot.go`) | `pendingURLs`, one selection per chat, lost at a restart | a message with a URL, a pressed button, `/mode`, `/start`, `/limits` | `Conversation` |
| transports (`telegram.go`, `max.go`) | position in the update stream, the last reply, a channel | fetch updates, hand them on one at a time, send texts, buttons and videos, remove the uploaded file | `Updates` (receiving), `WorkerPool` (upload) |
| users (`repository/user_postgres.go`) | rows of `users` | find or create by external id, choice of a mode | `Updates`, `Conversation` |
| queue (`worker/queue.go`) | Redis list `download_queue`, rows of `download_jobs` | `PushJob`: INSERT, then LPUSH; `PopJob`: BRPOP | `WorkerPool` |
| worker pool (`worker/worker.go`) | per worker: the job in hand, attempt, file; the directory `/downloads`; rows of `downloads` | pop, mark, yt-dlp, find, measure, log, send, clean up, retry, mark | `WorkerPool` |
| permissions, limits (`usecase/permission.go`, `limit.go`) | rows of `users`, `settings`, `downloads` | checks before a job is queued | `Conversation` |
| format service (`usecase/format.go`) | a map and Redis keys, both with a TTL | list the formats of a URL: run yt-dlp, parse, filter, sort | `FormatCache` (caches), `Formats` (parsers, sort, keyboard) |
| panel: users, settings, audit (`admin/`) | rows of `users`, `settings`, `admin_audit_log` | block, permissions, limits, settings; an entry for each | `AdminUsers`, `AdminForms`; `Conversation` (their effect on the bot) |
| panel: accounts and sessions (`server.go`, `auth.go`) | rows of `admins`, the session cookie in the browser | default account, login, lock, logout, password change, form tokens | `Panel` |
| panel: lists and numbers (`stats.go`, `download_postgres.go`) | none of its own | dashboard, statistics, list of users and of jobs | `Pages` |
| migrations and start (`cmd/migrate`, `docker-compose.yml`) | which files have been applied, containers | connect, apply the files, start what waits for it | `Startup`, `Pages` |
| process (`bot/cmd/bot/main.go`) | running, stopping, down | signal, ten seconds, exit | `WorkerPool`, `Updates` |

They interact only through the database, the list, the directory, the chats and
the browser: a handler checks rows the panel changes, pushes a job and forgets
it; a worker, possibly of a later process, pops it, answers the user through the
transport of the job's platform, and writes rows the handlers' limits and the
panel's pages count; no service starts before `migrate` has completed.

What is hard here, and what the properties are for (each hazard with its line
is in `PROJECT.json`):

* *Crashes.* BRPOP removes the only copy of a job; exit kills workers after ten
  seconds; `pendingURLs` and the positions in the update streams are memory.
* *Lost replies.* LPUSH applied but not acknowledged, BRPOP's reply lost, an
  upload shown but reported as an error and repeated, a poll that has confirmed
  what it did not bring, a migration applied by a program that takes it for
  failed.
* *Dropped errors.* The marks of `download_jobs`, the rows of `downloads`, the
  final messages, the audit entries, the numbers of the dashboard.
* *Interleavings.* Two workers in one directory of one user and URL; two bots
  that create one user's row; panel forms that write back a row read before;
  tabs whose answers carry whole sessions and overtake each other; pages that
  count tables in several statements.
* *Order of user actions.* Buttons of an old keyboard, pressed after a newer
  URL, a block, or a restart; choices of a mode that are delivered again.
* *Caches.* Two caches with one TTL that could feed each other.
* *Parsing.* Two parsers with one list, an unstable sort, a cut at ten and rows of
  two: the order of these and the odd end decide what a user can choose.
* *Off by one.* The last page of a list, the lock after the last failure, the
  range of a limit, the last attempt of a retry.

## 2. The modules

| Module | What it is |
|---|---|
| `DownloadService` | what the pipeline promises: each accepted request is answered once, or lost |
| `WorkerPool` | queue, workers, files, uploads, rows, process life; implements `DownloadService` |
| `Conversation` | one platform's chat handlers against rows that others change |
| `Updates` | both platforms' streams, the loops that receive them, the row of the user |
| `AdminUsers` | the three forms that change a user, and the bot's mode button |
| `AdminForms` | extends `AdminUsers` by the settings form and the audit log; implements it |
| `Panel` | account, sessions, login, logout, password change |
| `Startup` | `migrate` and the containers of the services, over several versions |
| `Pages` | extends `Startup` by the tables the bot writes and the pages that read them |
| `FormatCache` | `ListFormats`, its two caches and the clock |
| `Formats` | from yt-dlp's output to the keyboard |
| `WorkerPool_proofs`, `Conversation_proofs`, `Updates_proofs`, `AdminForms_proofs`, `Panel_proofs`, `Pages_proofs`, `FormatCache_proofs`, `Formats_proofs` | theorems about each |
| `MCWorkerPool`, `MCConversation`, `MCUpdates`, `MCAdminForms`, `MCPanel`, `MCPages`, `MCFormats` | constants and symmetry for TLC |

`PROJECT.json` maps every definition that stands for code to its lines.

### WorkerPool

`handler[j]` follows one call of `Bot.queue` (`Greet`, then `PushJob`:
`CreateRecord`/`CreateFails`, `Push`/`PushUnacknowledged`/`PushFails`). A
transport handles one update at a time, which is `Greet`'s guard. `redis` is
`download_queue`, head first; its elements are *entries*, copies of a job,
because a repeated LPUSH puts a job into the list twice.

`pc[w]` follows worker `w`: `Loop` is the select in `worker`, `Pop`/`PopFails`
are BRPOP, `Begin` marks the row started, `Launch`/`Download`/`DownloadFails`
are yt-dlp, `FindFile`/`NoFileFound`, `StatFails`/`RejectTooLarge`/`AcceptSize`
and `SendVideo`/`SendVideoFails`/`TransportCleanup`/`Discard` the rest of
`executeDownload`. `RetryOrGiveUp` is the loop of `processWithRetry`, shared by
every error path. `MarkCompleted`, `ReportFailure` and `MarkFailed` are the end
of `processJob`. `disk[d][f]` says whose video a file is; two jobs of one user
and URL share `d`, and so may jobs of one id on both platforms, or of URLs that
are sanitised alike, because `Dir` is any function. A yt-dlp that fails or is
killed may leave its video under its final name (`DownloadFails`, and
`abandoned` remembers it). A cancelled context (`proc = "stopping"`) makes
statements of the pool's context fail, while the INSERT into `downloads` and the
messages use a context of their own. `Crash` and `Exit` drop what is in memory
(`CutOff`) and keep Redis, rows and files.

`AcceptSize` writes the row of `downloads` before the upload. An upload may be
shown although the call reports an error (`DeliverUnacknowledged`). `fate`,
`pushed`, `contents`, `abandoned` and the `dropped` of `rows` (the INSERTs that
were refused) are histories: they record what happened and no action reads them
to decide (`pushed` only bounds the copies).

### Conversation

`handler` holds the update being handled, if any, with the point reached in
`Bot.url`: `LoadUser`/`RefuseUser`, `CheckPermission`/`DenyPermission`,
`PassDaily`/`ExceedDaily`, `PassMonthly`/`ExceedMonthly`, `ListFormats`/`FallBack`,
`ShowKeyboard`/`ShowKeyboardFails`, `Queue`/`QueueFails`; `CheckFails` is an
error of any statement. The row read by `GetOrCreate` travels with the request,
while settings and counts are read at their own steps; `Block`, `SetRights`,
`SaveSettings`, `Log` (a worker's row in `downloads`), `DayTurns` and `MonthTurns`
happen in between. `usage` counts a user's rows since the day and since the month
began, as the two statements of the limits count them, each with the clock of its
own moment.
`PressButton` is `selectFormat`: any keyboard on display, whatever is pending.
`gates` is a history of what each request was checked against.

### Updates

An update is a number in the stream of its platform. `TelegramPoll` is the
library's goroutine behind `GetUpdatesChan`, `Pass` its hand-over to the
channel, which moves the offset along; `MaxPoll` is the request at the head of
MAX's loop, which moves the marker to the end of the reply. `PollFails` loses a
reply whose request has confirmed a position. `TelegramTake` and `MaxTake` begin
the handling of one update; `FindUser`, `CreateUser`, `CreateRefused` and `Work`
are `GetOrCreate` and what follows, `StatementFails` any error with or without
the statement's effect. `Shutdown`, `StopLoop`, `Exit`, `Crash` and `Restart` are
the process. `result` says how the last delivery of an update ended: a reply
that contains it again takes that back (`Reply`), because the update is on its
way again and may be lost with the next process. The user's last choice in the
stream must win over its redelivered predecessors (`ModeConverges`).

### AdminUsers

Each POST is a request with its own position: `SetBlocked` is one statement,
permissions and limits are `Read` (`GetByID`), then `Write` (`Update` with the
form's fields put into the row read). `Update` names the columns of the panel's
UPDATE. `said` and `overlapped` are histories.

### AdminForms

`UserStep` is a step of `AdminUsers`, whose "saved" handlers still owe their audit
entry (`due`). `GetSettings` reads the row and then checks the form's bounds,
`UpdateSettings` writes it, `SettingsFail` may or may not have. `Audit` writes
an entry, `AuditLost` drops its error. `told` is what the log says last,
`muddled` a history of saves that overlapped or were lost.

### Panel

The session is a signed cookie: `request[t].cookie` is the copy that came with a
request, an answer that saved it carries a new one (`set`), and `Receive` puts
it into the browser, in whatever order the answers of the tabs arrive. Tokens
are numbered, and a login is named by the token it makes. `Get` makes a token
if there is none; `RefuseLogin`, `LoginSucceeds`, `LoginFails` are
`handleLoginPOST`, `Logout` is answered as it is sent; `CheckCurrent`, `Update`
and `Audit` are the steps of `handleChangePassword`. `FindAdmin` and
`InsertAdmin` run at every start of the process (`Restart`). `Lose` is the
network, `Expire` the cookie's eight hours.

### Startup and Pages

`Up(v)` tells compose to bring up version v, whose image has migrations 1 to v.
`Connect`, `PingFails`, `Exec`, `ExecFails`, `Complete` are `migrate`; `Create`,
`Start`, `Dies` the containers that wait for it. In `Pages` the bot of the last
version inserts and changes rows (`Insert`, `Change`, `LogDownload`), and
`visit` is the page an administrator is looking at: for the two pages of
numbers each statement is a step (`Execute`), a list is COUNTed and SELECTed
(`CountRows`, `SelectRows`) page by page (`NextPage`). `Found` are the rows its
filter finds, `Place` the position ORDER BY gives a row among them, `Slice`
those between OFFSET and LIMIT. `clean` is a history:
whether something happened that the page's property does not cover.

### FormatCache

A list is reduced to the time at which yt-dlp was asked for it. `Store` and
`Share` put it into the map and into Redis, each for one TTL from its own
reading of the clock; `Tick` cannot pass the deadline of a call that is waiting
for yt-dlp, which the command's context enforces.

### Formats

The loops of `parseFormatList` and `parseFormatText` are steps: `ReadEntry` for
an element of the JSON array, `ReadLine` for a line of a table (`Heading`,
`Skip`, `EndOfSection`, `FormatRow`), with `next` for the loop's position and
`inFormats` for the flag. `Sort` is any order `sort.Slice` may produce, `Pair` a
row of buttons. A format is known by its place in the output. `Listed`,
`AudioRows` and `Bitrate` say what the output lists and states without scanning
it, and the properties compare the keyboard with them. A quantity in a row's
note carries what yt-dlp means by it (`of`), which the parser does not look at:
`Misread` are the rows whose first quantity is not the bitrate. The loops are
steps and not recursive operators so that what they compute for inputs of every
length can be proved.

## 3. The runs

All runs have `CHECK_DEADLOCK FALSE`: every instance has a bounded number of
requests, messages, forms, rows or clock ticks and really stops when they are
used up.

| Run | Bounds | States | What it shows |
|---|---|---|---|
| `PoolRepeats` | 1 job pushed up to twice, 2 workers, 1 retry; every fault, uploads shown and reported as failed and a yt-dlp that fails late among them | 2.1 million | `TypeOK`; `EntryConservation`: a copy is once in the list, with one worker, settled or lost; `RecordTruthful`: a row is never ahead of the user; `AtMostOneAnswer`: no more answers than pushes and failed calls that showed a video; `NoLeftovers`: a video on disk is in some worker's hands, or of a job that was cut off or whose yt-dlp failed; `DeliveriesCounted`: attempts bound what is shown and counted, and every video shown has had its INSERT; `FinishedStaysFinished`: only a second push reopens a finished row |
| `PoolService` | 2 jobs of two users on two platforms, one too large; 2 workers, 1 retry; Redis and crashes | 73 thousand | `RecordAgrees`: row and user were told the same; `DeliveriesCounted` where an oversize video is refused at each attempt; `ServiceSpec` (refinement of `DownloadService`) and `AnsweredEventually` |
| `ChatGates` | 1 user, 1 chat, a video and a Reel, 2 messages, any settings, 1 panel change, days and months that turn, every fault | 1.1 million | `TypeOK`; `JobsGated`: every queued job passed all checks, both limits among them; `OneJobPerSelection` |
| `AdminRows` | 1 user, 2 user forms, 2 settings forms, 1 choice of mode, values inside and out of the ranges | 2.6 million | `TypeOK`; `ColumnsOwned`, `FormsApart`: what a stale form may and may not undo; `SettingsOfOneForm`; `AuditTells`: the log's last word is what the row holds, unless saves overlapped or were lost |
| `Updates` | 1 user, 3 updates on Telegram with two choices, 1 on MAX; replies of 2, channel of 1, 2 crashes or exits | 629 thousand | `TypeOK`; `MaxLosesNothing`; `TelegramLossBounded`: the channel and one; `InOrder`; `RefusedOnce`: the unique key refuses a user once; `ModeConverges`; `ServedEventually` |
| `Panel` | 2 tabs, 3 passwords, 3 tokens, lock after 2 failures, 2 changes; failing statements, lost requests and answers, restarts | 2.2 million | `TypeOK`; `FormOfItsLogin`: no form of an earlier login is accepted; `LockNeedsFailures`; `LogoutSticks`: a logout nothing overlapped is final; `PasswordKept`: a password is replaced only by who typed it, or was overtaken, never by a restart |
| `Pages` | 2 versions, 2 attempts to connect, 4 rows, 2 users, 3 days of 2 months, pages of 2 | 2.7 million | `TypeOK`; `ServesMigrated`: no service on tables older than its code; `NumbersFit`; `PagingMissesNothing`: the last page has been reached without missing a row |
| `Formats` | up to 5 entries of 8 kinds or 5 lines of 7 kinds, keyboard of 3 | 645 thousand | `TypeOK`: no entry without a picture is listed; `OffersTheBest`: nothing cut off states a greater bitrate than what is kept, misread rows aside; `OffersAll`: each listed video and each audio row of a table at most once, up to the keyboard's size |
| `FormatCache` | 2 bots, 1 key, TTL 3, time limit 1, clock to 7 | 64 thousand | `TypeOK`, `AgeBounded`: no list older than TTL plus time limit |

Why the bounds are enough: the hazards need two workers (or two copies of a
job), one retry beyond the first attempt, one crash between any two steps, one
panel change between any two checks, an older and a newer keyboard, two
overlapping forms of each kind, a user whose first messages come through both
platforms, an update in hand with one behind it in the channel and one in the
reply, two tabs with a login each, a lock one failure away, two pages of a list
with rows coming in between, a month that turns, a version on top of another, a
clock that passes a TTL twice, and outputs that reach every branch of both
parsers and are longer than the keyboard. Every action and disjunct fires in
some passing run. Workers, tabs, requests and settings forms are symmetric where
a run says so: no property names one, and no run with a liveness property uses
symmetry.

The counters that bound an instance are named where they are declared
(`Copies`, `MaxMessages`, `MaxChanges`, `MaxModes`, `MaxDeaths`, `MaxTokens`,
`MaxFailures`, `MaxRows`, `MaxUsers`, `MaxVersion`, `MaxTime`). Two bounds are
not counters: in `Pages` a day without a download does not end, and in
`Startup` a version that came up is not brought up again.

Each property is also checked to fail under a mutant of the code it is about,
written beside the definition it replaces (for instance `PopPeeks`: the entry
is read but not removed).

What the properties assume: `RecordAgrees`, that PostgreSQL, messages and
shutdowns do not interfere (with them the code drops the mark or the message,
and `RecordTruthful` says what remains); `NoLeftovers`, one file name per
directory (of two jobs in one directory with videos of different names, one may
find and send the other's and leave its own), and that no crash and no failing
yt-dlp left the file: the code looks for neither; `OffersTheBest`, that a row
states its bitrate before any other quantity; `ServiceSpec`, that an upload
reported as failed was not shown and no request is pushed twice; `NumbersFit`
and `PagingMissesNothing`, what their `clean` says: no statement of the page
failed, the month did not turn, no row came between a page's COUNT and its
SELECT. `ModeConverges` speaks of users who choose on one platform only: across
platforms there is no order to converge to.

### Disagreements between documentation and code

| Run | Documentation | What the run shows |
|---|---|---|
| `FindForeignFormat` | QWEN.md:130 "Worker executes yt-dlp with chosen format" | after a crash a file is left; the next job of the same user and URL in another format finds and sends it |
| `FindUnlogged` | QWEN.md:133 "Log download, update counters" | the row is inserted under the external id, refused by the foreign key, and the error dropped |
| `FindForeignKeyboard` | QWEN.md:128 "Push download job to Redis queue with chosen format" | a button of an older keyboard queues the newer URL with a format of the older one |

Others met while modelling, visible in the definitions and not checked by a run:
a user without limits of their own gets 10 a day and 100 a month, whatever the
settings say (README.md:203; limit.go:55 and 66 return constants, which a
property could only restate); requests made before the first one is logged all
pass a limit (QWEN.md:274 "Limits enforced"; `PassDaily` and `PassMonthly` read
what `Log` writes later); rows of a table that are "audio only" are not skipped
as format.go:241 says, because the column compared holds one word (`FormatRow`;
only output without any JSON format is read as a table), and one may take a
video's button; the bitrate of a row is the first number before k, M or a space,
in yt-dlp's tables the frame rate where there is one, so that "best first"
(format.go:152) and "patterns like 250k" (format.go:265) do not hold for them
(`ParseBitrate`, `Misread`); two jobs of one user and URL share the directory
worker.go:143 calls unique (`HeldDir`), and its name has neither the platform of
the user's id nor the characters of the URL that are sanitised away; a yt-dlp
that fails or is killed when its video already has its name leaves it on disk
(QWEN.md:177 "Delete on error as well"; `DownloadFails`); an oversize video is
downloaded and reported on every attempt (QWEN.md:184 "abort"; `RejectTooLarge`
ends in `RetryOrGiveUp`); a file without a known extension stays after a failure
(QWEN.md:177; `NoFileFound`); a user blocked after the keyboard was shown can
still press it (`PressButton`); "Default" in the panel saves nothing, so that a
permission once set cannot be reset (users.html:38; `Chosen`); the page accepts
a monthly limit up to 100000 that the handler refuses (users.html:63;
`InRange`); after the last failed ping `migrate` does not report the error,
because it is another variable (main.go:40; `PingFails`), and fails at the first
file instead; a failed statement counts as a wrong password, and when a lock
runs out its count stays (`LoginFails`, `RefuseLogin`); both bots are built even
if one platform has no token (main.go:88), so that a job left in the queue for
it would end the process, a `Crash` in `WorkerPool`.

### Fairness

`WorkerPool`'s `FairSpec` gives weak fairness to each handler's and each
worker's steps: they are goroutines, which the Go scheduler runs. Two
assumptions go beyond the code and are needed: yt-dlp ends (the worker sets no
time limit), and Redis does not fail every single BRPOP (strong fairness of
`Pop`). Nothing makes a user write, a fault happen, or a stopped process come
back; `AnsweredEventually` is about behaviours in which the process ends up
running.

`Updates`' `FairSpec` gives weak fairness to the polls, the hand-over, the loops
and the handlers, each a goroutine that has nothing else to wait for. A poll
that is always possible succeeds again and again, though it may fail any number
of times in between; statements may fail (the handler then ends with an error
and the update counts as handled). `ServedEventually` is again about behaviours
in which the process ends up running. The other modules claim no liveness:
nothing in the panel must happen unless somebody asks, and `migrate` may fail.

## 4. The proofs

`tlapm` checks them to the last leaf. They assume only the named assumptions of
each module: shapes of the constants, no bound on jobs, workers, users, tabs,
rows or time. Two of these say more: the tabs of `Panel` are finitely many (an
audit entry is owed by each handler past its UPDATE, and these are counted), and
"no session to set" is not the empty session.

Three theorems of `WorkerPool_proofs` have a hypothesis of their own, because the
code promises the property only there (section 3 says what happens elsewhere):

* `NothingDropped`, of `RowsAgree`: PostgreSQL, messages, acknowledgements and
  shutdowns do not fail. Crashes, Redis errors, repeated pushes and failing
  downloads remain, and every mark made in time is proved to be the user's;
* `OneFilePerDir`, of `NothingLeft`: jobs that share a directory (one user, one
  URL) also share the name of the file. Two workers then still remove and find
  each other's files, in any order. Without it TLC finds the leftover;
* `OnePush`, of `PipelineServes`: the client does not repeat an LPUSH and no
  upload is shown and reported as failed. `DownloadService` answers once, and
  both break that: `AnsweredOnce` counts by how much.

| Theorem | Property | Inductive invariant |
|---|---|---|
| `WorkerPool_proofs!TypeCorrect` | `TypeOK` | `TypeInv`: a worker past `Pop` holds an entry and, where it uses one, a path |
| `WorkerPool_proofs!Conservation` | `EntryConservation` | `ConservationInv`: an entry that was never pushed is "absent" and in nobody's hands, so an append is new |
| `WorkerPool_proofs!RowsTruthful` | `RecordTruthful` | `TruthInv`: a worker about to mark a row has shown the video or the failure before |
| `WorkerPool_proofs!Isolation` | `NoForeignVideo`, for directories shared in any way | `HomeInv`: a file in a directory is of a job of that directory |
| `WorkerPool_proofs!AnsweredOnce`, `AttemptsBound` | `AtMostOneAnswer`, `DeliveriesCounted` | `CountInv`: what the user was shown and the rows written, counted against the entries of the job that are settled and the attempts of those that are not |
| `WorkerPool_proofs!RowsStayFinished` | `FinishedStaysFinished` | `FinalInv`: a job with a finished row and one push has its one entry settled, so no worker holds it and no step marks the row again |
| `WorkerPool_proofs!RowsAgree` | `RecordAgrees` | `AgreeInv`: an entry settled as delivered or failed has its row and its answer, on top of what the three invariants before it say |
| `WorkerPool_proofs!NothingLeft` | `NoLeftovers` | `OwnedInv`: every file lies in its job's directory under its job's name; a video there is in the hands of a worker of that very job, or the job was lost or its yt-dlp failed with the video in place |
| `WorkerPool_proofs!PipelineServes` | `ServiceSpec` | `ServiceInv`: `CountInv` and `TruthInv` with one push leave each job one entry and at most one answer, so the entry's fate, who holds it and the inbox fix the stage; every step is one of `DownloadService` or leaves the stages alone |
| `Conversation_proofs!TypeCorrect` | `TypeOK` | `TypeInv` |
| `Conversation_proofs!Gated` | `JobsGated` | `GateInv`: a handler past a check carries what it read, and one past all of them, a pending selection and a job have their gate |
| `Conversation_proofs!QueuedOnce` | `OneJobPerSelection` | `SelectionInv`: a request is pending, about to be queued by a button, or queued by a button, never two of these |
| `Updates_proofs!UpdatesTyped` | `TypeOK` | `Shapes` and `HeldSent`: nothing is on its way that the platform has not received |
| `Updates_proofs!MaxKeepsAll` | `MaxLosesNothing` | `MaxInv`: what lies before the marker is handled or held, and what is held is not confirmed |
| `Updates_proofs!RefusedAtMostOnce` | `RefusedOnce` | `RefusedInv`: where a row exists, at most one handler is still about to insert it, and none was refused before |
| `Updates_proofs!OrderKept` | `InOrder` | `OrderInv`: channel and reply hold consecutive updates that end at the offset, and begin after the last one taken or a confirmed one |
| `Updates_proofs!TelegramLosesLittle` | `TelegramLossBounded` | `LossInv`: between what is confirmed and the offset nothing is missing yet, and the channel holds at most `Buffer` |
| `Updates_proofs!ModeSettles` | `ModeConverges` | `ModeInv`: what is on its way has not been handled since it was delivered, and a user's last choice so far, once this process or a confirmed position is past it and it was handled, is in the row |
| `AdminForms_proofs!RowsTyped`, `SettingsTyped` | `TypeOK` of both modules | `Inv`, `FormsInv` |
| `AdminForms_proofs!BlockKept` | `ColumnsOwned` | `Inv` |
| `AdminForms_proofs!LostOnlyToOverlap` | `FormsApart` | `Inv`: the copy of a handler nobody overlapped equals the row's panel columns |
| `AdminForms_proofs!FormsImplementUsers` | `FormsSpec => Spec` | every step of the forms is one of `AdminUsers` or leaves its variables alone: the three theorems above hold in the whole panel |
| `AdminForms_proofs!SettingsUnmixed` | `SettingsOfOneForm` | `FormsInv`: a handler about to write has a form within the bounds |
| `AdminForms_proofs!LogTells` | `AuditTells` | `AuditInv`: of a subject nothing has muddled, at most one entry is due and says what the row holds |
| `Panel_proofs!PanelTyped`, `FormsMatchLogins`, `LocksEarned`, `LogoutFinal` | `TypeOK`, `FormOfItsLogin`, `LockNeedsFailures`, `LogoutSticks` | `SessionInv` and `StampInv` over all sessions and pages in existence, wherever they are: one token means one login, none is newer than the last token, none is of an ended login |
| `Panel_proofs!PasswordChangesKnown` | `PasswordKept` | `UpdateInv`: who is let through to the UPDATE knows the password, or has been overtaken |
| `Panel_proofs!AuditEarned` | `AuditNeverAhead` | `AuditInv`: entries and handlers that owe one are no more than the changes |
| `Pages_proofs!TablesBeforeCode` | `ServesMigrated` | `MigrateInv`: what lies before the next file has been applied, also by a run that failed |
| `Pages_proofs!NumbersConsistent` | `NumbersFit` | `FitInv`: a number already read is at most what the next, wider statement would find now |
| `Pages_proofs!PagesTyped` | `TypeOK` | `TypeInv`: no row has a higher id than its list is long, and all tables together stay within the bound |
| `Pages_proofs!PagingComplete` | `PagingMissesNothing` | `PagingInv`: the rows of the start are still found, and those of them now within the pages shown have been seen; a row that comes in only moves the others back |
| `FormatCache_proofs!TypeCorrect` | `TypeOK` | `AgeInv` |
| `FormatCache_proofs!AgeIsBounded` | `AgeBounded` | `AgeInv`: an entry expires at most a TTL after its call's deadline; a call past asking is within its deadline |
| `Formats_proofs!TypeCorrect` | `TypeOK` | `Inv` |
| `Formats_proofs!BestOffered` | `OffersTheBest` | `Inv`: the list is sorted from the sort on and the keyboard cut from it, and each format has the bitrate read at its place, which for a row not misread is the one stated |
| `Formats_proofs!AllOffered` | `OffersAll` | `Inv`: the list holds what is kept of the part read, which with the audio rows is what the output lists, and the flag is set exactly inside a section |

None of the properties is inductive as it stands: each speaks of what has been
queued, marked, handled or shown, and its proof needs what the handlers,
workers, copies and answers in between are about to do.

Only model-checked: `AnsweredEventually` and `ServedEventually`, because
liveness under fairness and ENABLED are out of the prover's reach. Every other
property of a passing run is stated by a theorem. `AuditNeverAhead`,
`FormsTypeOK` and `NoForeignVideo` are proved and in no run (a case of the last
needs three jobs, two of them in one directory, which exceed the time of a run).

Proving changed the models in three places. `ModeConverges` did not hold for two
deaths: two choices handled by the first process are delivered again, the second
process handles the older one and dies with the newer in its confirmed channel;
the row is left with the older choice, while `result` still called the newer one
handled. `result` now means the last delivery, and the run has two deaths.
`Pages` had its filter as a sequence computed by recursion and has it now as a
set with places (`Found`, `Place`), about which one can reason. And its types
need at least one row (`MaxRows`): with none, the first page is a page of no
list.

What a recursive definition computes for every input cannot be proved either
(induction over data), so the modules have no RECURSIVE operators.

## 5. What is left out

Not modelled, and why:

* the URL validator: a pure function from a URL to a source, without state; which
  URLs are Reels or refused is a constant of `Conversation`;
* configuration and proxies: read once at the start, and no later step reads
  them again;
* `downloadService` and the downloader (constructed by no command),
  `SelectFormat` and `GetBestFormat` (called by nothing that runs), `Update` of
  the bot's user repository, `GetAll` and `Delete` of the panel's accounts,
  `SearchByTelegramID` (called by nobody);
* what the migrations' statements do: each file is one element of `applied`; the
  branch that skips "already exists" cannot be taken, because every statement
  says IF NOT EXISTS or ON CONFLICT;
* the length of the queue on the dashboard, a single read of Redis.

Abstracted in the modules: wording, command lines, the files yt-dlp writes under
other names than the video's, the dates of the rows the bot's limits count (the
counts fall when a day or a month turns; `Pages` has rows with dates), back-off
sleeps, user names and `last_seen`, rows with equal timestamps, bcrypt
(equality), the length of a lock (it may end at any time); each module's header
says what.

What could follow: `Conversation` for both platforms at once, composed with the
rows `WorkerPool` writes, so that the limits count what the workers really log.
