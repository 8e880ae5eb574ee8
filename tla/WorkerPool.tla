----------------------------- MODULE WorkerPool -----------------------------
(***************************************************************************)
(* The download pipeline: the tail of a chat handler (Bot.queue and        *)
(* QueueService.PushJob), the Redis list download_queue, the worker pool   *)
(* that drains it, the shared directory /downloads, the video upload of    *)
(* the two transports, the rows of download_jobs and of downloads, and the *)
(* life of the bot process (signal, exit, crash, restart).                 *)
(*                                                                         *)
(* One job of Jobs is one call of Bot.queue.  LPUSH may be applied more    *)
(* than once for a job (the Redis client repeats a command whose reply is  *)
(* lost), so the list holds entries, each one copy of a job.  The list is  *)
(* written head first here: LPUSH appends, BRPOP takes the head.           *)
(*                                                                         *)
(* Left out: time and back-off sleeps, texts and status messages other     *)
(* than the final answers, the command line given to yt-dlp, the files it  *)
(* writes under other names before and beside the video.  Directories are  *)
(* created on demand and removed when empty, which no later step can tell  *)
(* from an empty directory, so a directory is only its files.  A crash or  *)
(* an exit takes the yt-dlp children with it.                              *)
(***************************************************************************)
EXTENDS Naturals, Sequences

CONSTANTS
    Jobs,        \* calls of Bot.queue
    Workers,     \* goroutines of the pool
    Files,       \* file names yt-dlp may produce: "%(id)s.%(ext)s"
    VideoFiles,  \* those with an extension findDownloadedFile accepts
    Rank,        \* [Files -> Nat], the name order of os.ReadDir
    Dirs,        \* subdirectories of /downloads
    Dir,         \* [Jobs -> Dirs], user_<id>_<sanitised URL>: neither the
                 \* platform of the id nor what is sanitised away is in it
    File,        \* [Jobs -> Files], what yt-dlp writes for the job's format
    Platform,    \* [Jobs -> {"telegram", "max"}]
    Size,        \* [Jobs -> Nat], megabytes of the job's video
    Logged,      \* jobs whose external user id is also some users.id
    MaxRetries,  \* maxRetries of worker.go
    Copies,      \* bound: times one job's LPUSH may be applied
    Faults,      \* which faults may happen
    None

FaultKinds == {"db",        \* a PostgreSQL statement fails
               "redis",     \* a Redis command or its reply is lost
               "send",      \* a messenger call fails, nothing is shown
               "ack",       \* the video is shown but the call reports an error
               "crash",     \* the process dies
               "shutdown"}  \* SIGTERM: context cancelled, ten seconds, exit

Entry == [job : Jobs, copy : 1..Copies]

ASSUME ConstantsAssumption ==
    /\ VideoFiles \subseteq Files
    /\ Rank \in [Files -> Nat]
    /\ \A f, g \in Files : Rank[f] = Rank[g] => f = g
    /\ Dir \in [Jobs -> Dirs]
    /\ File \in [Jobs -> Files]
    /\ Platform \in [Jobs -> {"telegram", "max"}]
    /\ Size \in [Jobs -> Nat]
    /\ Logged \subseteq Jobs
    /\ MaxRetries \in Nat
    /\ Copies \in Nat \ {0}
    /\ Faults \subseteq FaultKinds
    /\ None \notin Jobs \cup Files \cup Entry

VARIABLES
    proc,      \* "running", "stopping" (context cancelled) or "down"
    handler,   \* where the chat handler of each job is
    record,    \* download_jobs.status of the job's row
    redis,     \* the list download_queue
    pushed,    \* history: copies of the job LPUSH has applied
    pc,        \* where each worker is
    held,      \* the entry each worker has popped
    attempt,   \* attempt of processWithRetry
    path,      \* filePath of executeDownload
    disk,      \* whose video each file of each directory holds
    abandoned, \* history: jobs whose yt-dlp failed with its video in place,
               \* which no later one has taken up
    inbox,     \* what the user of each job has been shown; of the videos,
               \* how many in a call that reported an error
    contents,  \* whose videos the user of each job has received
    rows,      \* rows of table downloads written for each job; dropped is a
               \* history of the "completed" ones whose INSERT failed
    fate       \* history: what became of each entry

requestVars == <<handler, pushed>>
userVars == <<inbox, contents>>
workerVars == <<pc, held, attempt, path>>
vars == <<proc, handler, record, redis, pushed, pc, held, attempt, path,
          disk, abandoned, inbox, contents, rows, fate>>

Idle == {"off", "loop", "brpop"}
Busy == {"begin", "start", "ytdlp", "find", "stat", "send", "sent", "unsent",
         "discard", "complete", "report", "markFailed"}

HandlerStates == {"new", "greeted", "recorded", "done", "refused", "cut"}
RecordStates == {"absent", "pending", "downloading", "completed", "failed"}
Fates == {"absent", "open", "delivered", "failed", "lost"}

TypeOK ==
    /\ proc \in {"running", "stopping", "down"}
    /\ handler \in [Jobs -> HandlerStates]
    /\ record \in [Jobs -> RecordStates]
    /\ redis \in Seq(Entry)
    /\ pushed \in [Jobs -> 0..Copies]
    /\ pc \in [Workers -> Idle \cup Busy]
    /\ held \in [Workers -> Entry \cup {None}]
    /\ attempt \in [Workers -> 0..MaxRetries]
    /\ path \in [Workers -> Files \cup {None}]
    /\ disk \in [Dirs -> [Files -> Jobs \cup {None}]]
    /\ abandoned \subseteq Jobs
    /\ inbox \in [Jobs -> [video : Nat, unacked : Nat, tooLarge : Nat, failed : Nat]]
    /\ contents \in [Jobs -> SUBSET Jobs]
    /\ rows \in [Jobs -> [completed : Nat, failed : Nat, dropped : Nat]]
    /\ fate \in [Entry -> Fates]

Init ==
    /\ proc = "running"
    /\ handler = [j \in Jobs |-> "new"]
    /\ record = [j \in Jobs |-> "absent"]
    /\ redis = <<>>
    /\ pushed = [j \in Jobs |-> 0]
    /\ pc = [w \in Workers |-> "loop"]
    /\ held = [w \in Workers |-> None]
    /\ attempt = [w \in Workers |-> 0]
    /\ path = [w \in Workers |-> None]
    /\ disk = [d \in Dirs |-> [f \in Files |-> None]]
    /\ abandoned = {}
    /\ inbox = [j \in Jobs |-> [video |-> 0, unacked |-> 0, tooLarge |-> 0, failed |-> 0]]
    /\ contents = [j \in Jobs |-> {}]
    /\ rows = [j \in Jobs |-> [completed |-> 0, failed |-> 0, dropped |-> 0]]
    /\ fate = [e \in Entry |-> "absent"]

-----------------------------------------------------------------------------
(* The chat handler.  A transport handles its updates one at a time.       *)

(* Bot.queue has shown "Downloading your video".                           *)
Greet(j) ==
    /\ proc # "down"
    /\ handler[j] = "new"
    /\ \A k \in Jobs : Platform[k] = Platform[j]
                         => handler[k] \notin {"greeted", "recorded"}
    /\ handler' = [handler EXCEPT ![j] = "greeted"]
    /\ UNCHANGED <<proc, record, redis, pushed, workerVars, disk, abandoned,
                   userVars, rows, fate>>

(* The INSERT runs under the handler's context: once it is cancelled the   *)
(* statement never starts.                                                 *)
CreateRecord(j) ==
    /\ proc = "running"
    /\ handler[j] = "greeted"
    /\ handler' = [handler EXCEPT ![j] = "recorded"]
    /\ record' = [record EXCEPT ![j] = "pending"]
    /\ UNCHANGED <<proc, redis, pushed, workerVars, disk, abandoned, userVars,
                   rows, fate>>

CreateFails(j) ==
    /\ handler[j] = "greeted"
    /\ handler' = [handler EXCEPT ![j] = "refused"]
    /\ \/ /\ proc = "stopping" \/ "db" \in Faults
          /\ UNCHANGED record
       \/ /\ "db" \in Faults \* committed, but the reply was lost
          /\ proc = "running"
          /\ record' = [record EXCEPT ![j] = "pending"]
    /\ UNCHANGED <<proc, redis, pushed, workerVars, disk, abandoned, userVars,
                   rows, fate>>

(* The list gets one more copy of the job.                                 *)
Enqueue(j) ==
    /\ proc = "running"
    /\ handler[j] = "recorded"
    /\ pushed[j] < Copies
    /\ LET e == [job |-> j, copy |-> pushed[j] + 1]
       IN  /\ redis' = Append(redis, e)
           /\ fate' = [fate EXCEPT ![e] = "open"]
    /\ pushed' = [pushed EXCEPT ![j] = @ + 1]
    /\ UNCHANGED <<proc, record, workerVars, disk, abandoned, userVars, rows>>

Push(j) ==
    /\ Enqueue(j)
    /\ handler' = [handler EXCEPT ![j] = "done"]

(* LPUSH is applied and its reply lost: the client sends it again, or has  *)
(* used up its own retries and returns the error, which the user is shown. *)
PushUnacknowledged(j) ==
    /\ "redis" \in Faults
    /\ Enqueue(j)
    /\ handler' \in {handler, [handler EXCEPT ![j] = "refused"]}

PushFails(j) ==
    /\ handler[j] = "recorded"
    /\ proc = "stopping" \/ "redis" \in Faults
    /\ handler' = [handler EXCEPT ![j] = "refused"]
    /\ UNCHANGED <<proc, record, redis, pushed, workerVars, disk, abandoned,
                   userVars, rows, fate>>

-----------------------------------------------------------------------------
(* A worker between jobs.                                                  *)

Goto(w, label) == pc' = [pc EXCEPT ![w] = label]

(* The select of WorkerPool.worker.                                        *)
Loop(w) ==
    /\ pc[w] = "loop"
    /\ Goto(w, IF proc = "running" THEN "brpop" ELSE "off")
    /\ UNCHANGED <<proc, requestVars, record, redis, held, attempt, path, disk,
                   abandoned, userVars, rows, fate>>

(* Mutant: the entry is read, not removed.                                 *)
PopPeeks(w) ==
    /\ pc[w] = "brpop"
    /\ redis # <<>>
    /\ held' = [held EXCEPT ![w] = Head(redis)]
    /\ Goto(w, "begin")
    /\ UNCHANGED <<proc, requestVars, record, redis, attempt, path, disk,
                   abandoned, userVars, rows, fate>>

(* A BRPOP already sent is not interrupted by the cancellation, so a       *)
(* stopping process may still take a job.                                  *)
Pop(w) ==
    /\ pc[w] = "brpop"
    /\ redis # <<>>
    /\ redis' = Tail(redis)
    /\ held' = [held EXCEPT ![w] = Head(redis)]
    /\ Goto(w, "begin")
    /\ UNCHANGED <<proc, requestVars, record, attempt, path, disk, abandoned,
                   userVars, rows, fate>>

PopFails(w) ==
    /\ pc[w] = "brpop"
    /\ Goto(w, "loop")
    /\ \/ /\ proc = "stopping" \/ "redis" \in Faults
          /\ UNCHANGED <<redis, fate>>
       \/ /\ "redis" \in Faults \* the entry left the list, the reply was lost
          /\ redis # <<>>
          /\ redis' = Tail(redis)
          /\ fate' = [fate EXCEPT ![Head(redis)] = "lost"]
    /\ UNCHANGED <<proc, requestVars, record, held, attempt, path, disk,
                   abandoned, userVars, rows>>

-----------------------------------------------------------------------------
(* A worker on a job.                                                      *)

Job(w) == held[w].job

HeldDir(w) == Dir[Job(w)]

(* MarkStarted, MarkCompleted and MarkFailed run under the pool's context  *)
(* and their errors are dropped.                                           *)
Mark(j, status) ==
    \/ /\ proc = "running"
       /\ record' = [record EXCEPT ![j] = status]
    \/ /\ proc = "stopping" \/ "db" \in Faults
       /\ UNCHANGED record

(* logSuccessfulDownload and logFailedDownload insert the job's external   *)
(* user id into a column that references users.id, and drop the error.     *)
LogRow(j, status) ==
    \/ /\ j \in Logged
       /\ rows' = [rows EXCEPT ![j][status] = @ + 1]
    \/ /\ j \notin Logged \/ "db" \in Faults
       /\ rows' = IF status = "completed" THEN [rows EXCEPT ![j].dropped = @ + 1] ELSE rows

(* A text to the user; Bot.text only logs an error.                        *)
Notify(j, text) ==
    \/ inbox' = [inbox EXCEPT ![j][text] = @ + 1]
    \/ /\ "send" \in Faults
       /\ UNCHANGED inbox

Remove(d, f) == disk' = [disk EXCEPT ![d][f] = None]

(* Mutants: one attempt too many; the error of the last attempt is lost;   *)
(* the attempts are not counted.                                           *)
RetryOnceMore(w) ==
    /\ path' = [path EXCEPT ![w] = None]
    /\ IF attempt[w] <= MaxRetries
         THEN attempt' = [attempt EXCEPT ![w] = @ + 1] /\ Goto(w, "start")
         ELSE Goto(w, "report") /\ UNCHANGED attempt

RetryThenSucceed(w) ==
    /\ path' = [path EXCEPT ![w] = None]
    /\ IF attempt[w] < MaxRetries
         THEN attempt' = [attempt EXCEPT ![w] = @ + 1] /\ Goto(w, "start")
         ELSE Goto(w, "complete") /\ UNCHANGED attempt

RetryForever(w) ==
    /\ path' = [path EXCEPT ![w] = None]
    /\ Goto(w, "start")
    /\ UNCHANGED attempt

(* The loop of processWithRetry after an error of executeDownload: none of *)
(* the errors it would not retry comes out of executeDownload.             *)
RetryOrGiveUp(w) ==
    /\ path' = [path EXCEPT ![w] = None]
    /\ IF attempt[w] < MaxRetries
         THEN /\ attempt' = [attempt EXCEPT ![w] = @ + 1]
              /\ Goto(w, "start")
         ELSE /\ Goto(w, "report")
              /\ UNCHANGED attempt

Begin(w) ==
    /\ pc[w] = "begin"
    /\ Mark(Job(w), "downloading")
    /\ attempt' = [attempt EXCEPT ![w] = 0]
    /\ Goto(w, "start")
    /\ UNCHANGED <<proc, requestVars, redis, held, path, disk, abandoned,
                   userVars, rows, fate>>

(* yt-dlp starts.  It leaves a file that is already there as it is.        *)
Launch(w) ==
    /\ pc[w] = "start"
    /\ proc = "running"
    /\ \/ /\ disk[HeldDir(w)][File[Job(w)]] # None
          /\ Goto(w, "find")
          /\ abandoned' = abandoned \ {Job(w)}
       \/ /\ disk[HeldDir(w)][File[Job(w)]] = None
          /\ Goto(w, "ytdlp")
          /\ UNCHANGED abandoned
    /\ UNCHANGED <<proc, requestVars, record, redis, held, attempt, path, disk,
                   userVars, rows, fate>>

(* The video has its final name in the job's directory.                    *)
Fetched(w) == disk' = [disk EXCEPT ![HeldDir(w)][File[Job(w)]] = Job(w)]

Download(w) ==
    /\ pc[w] = "ytdlp"
    /\ Fetched(w)
    /\ Goto(w, "find")
    /\ abandoned' = abandoned \ {Job(w)}
    /\ UNCHANGED <<proc, requestVars, record, redis, held, attempt, path,
                   userVars, rows, fate>>

(* No directory, a bad proxy address, yt-dlp not started (the context is   *)
(* cancelled), killed by the cancellation, or finished with an error: the  *)
(* last two possibly when the video already has its name, as in the middle *)
(* of post-processing.  executeDownload returns without looking.           *)
DownloadFails(w) ==
    /\ pc[w] \in {"start", "ytdlp"}
    /\ RetryOrGiveUp(w)
    /\ \/ UNCHANGED <<disk, abandoned>>
       \/ /\ pc[w] = "ytdlp"
          /\ Fetched(w)
          /\ abandoned' = abandoned \cup {Job(w)}
    /\ UNCHANGED <<proc, requestVars, record, redis, held, userVars, rows, fate>>

Videos(d) == {f \in VideoFiles : disk[d][f] # None}
FirstVideo(d) == {f \in Videos(d) : \A g \in Videos(d) : Rank[f] <= Rank[g]}

NoFileFound(w) ==
    /\ pc[w] = "find"
    /\ Videos(HeldDir(w)) = {}
    /\ RetryOrGiveUp(w)
    /\ UNCHANGED <<proc, requestVars, record, redis, held, disk, abandoned,
                   userVars, rows, fate>>

FindFile(w) ==
    /\ pc[w] = "find"
    /\ \E f \in FirstVideo(HeldDir(w)) : path' = [path EXCEPT ![w] = f]
    /\ Goto(w, "stat")
    /\ UNCHANGED <<proc, requestVars, record, redis, held, attempt, disk,
                   abandoned, userVars, rows, fate>>

MaxFileSize(platform) == IF platform = "max" THEN 50 ELSE 2000

(* The job whose video is behind the worker's path, None if it is gone.    *)
FileOf(w) == disk[HeldDir(w)][path[w]]
TooLarge(w) == FileOf(w) # None /\ Size[FileOf(w)] > MaxFileSize(Platform[Job(w)])

StatFails(w) ==
    /\ pc[w] = "stat"
    /\ FileOf(w) = None
    /\ RetryOrGiveUp(w)
    /\ UNCHANGED <<proc, requestVars, record, redis, held, disk, abandoned,
                   userVars, rows, fate>>

RejectTooLarge(w) ==
    /\ pc[w] = "stat"
    /\ TooLarge(w)
    /\ Remove(HeldDir(w), path[w])
    /\ Notify(Job(w), "tooLarge")
    /\ RetryOrGiveUp(w)
    /\ UNCHANGED <<proc, requestVars, record, redis, held, contents, abandoned,
                   rows, fate>>

(* Mutant: the download is not logged.                                     *)
AcceptUnlogged(w) ==
    /\ pc[w] = "stat"
    /\ FileOf(w) # None
    /\ ~TooLarge(w)
    /\ Goto(w, "send")
    /\ UNCHANGED <<proc, requestVars, record, redis, held, attempt, path, disk,
                   abandoned, userVars, rows, fate>>

AcceptSize(w) ==
    /\ pc[w] = "stat"
    /\ FileOf(w) # None
    /\ ~TooLarge(w)
    /\ LogRow(Job(w), "completed")
    /\ Goto(w, "send")
    /\ UNCHANGED <<proc, requestVars, record, redis, held, attempt, path, disk,
                   abandoned, userVars, fate>>

-----------------------------------------------------------------------------
(* SendVideo of the platform's transport, and what follows it.             *)

Deliver(w) ==
    /\ inbox' = [inbox EXCEPT ![Job(w)].video = @ + 1]
    /\ contents' = [contents EXCEPT ![Job(w)] = @ \cup {FileOf(w)}]

DeliverUnacknowledged(w) ==
    /\ inbox' = [inbox EXCEPT ![Job(w)].video = @ + 1, ![Job(w)].unacked = @ + 1]
    /\ contents' = [contents EXCEPT ![Job(w)] = @ \cup {FileOf(w)}]

(* Mutant: the success branch returns before the file is removed.          *)
SendKeepsFile(w) ==
    /\ pc[w] = "send"
    /\ FileOf(w) # None
    /\ Deliver(w)
    /\ Goto(w, "complete")
    /\ UNCHANGED <<proc, requestVars, record, redis, held, attempt, path, disk,
                   abandoned, rows, fate>>

SendVideo(w) ==
    /\ pc[w] = "send"
    /\ FileOf(w) # None
    /\ Deliver(w)
    /\ Goto(w, "sent")
    /\ UNCHANGED <<proc, requestVars, record, redis, held, attempt, path, disk,
                   abandoned, rows, fate>>

SendVideoFails(w) ==
    /\ pc[w] = "send"
    /\ \/ FileOf(w) # None /\ "send" \in Faults /\ UNCHANGED userVars
       \/ FileOf(w) # None /\ "ack" \in Faults /\ DeliverUnacknowledged(w)
       \/ FileOf(w) = None /\ UNCHANGED userVars
    \* MAX returns from a failed os.Open without its own cleanup
    /\ Goto(w, IF FileOf(w) = None /\ Platform[Job(w)] = "max" THEN "discard" ELSE "unsent")
    /\ UNCHANGED <<proc, requestVars, record, redis, held, attempt, path, disk,
                   abandoned, rows, fate>>

(* Mutant: the result of the cleanup is taken for the result of the upload.*)
CleanupFailsUpload(w) ==
    /\ pc[w] \in {"sent", "unsent"}
    /\ Remove(HeldDir(w), path[w])
    /\ Goto(w, "discard")
    /\ UNCHANGED <<proc, requestVars, record, redis, held, attempt, path,
                   userVars, abandoned, rows, fate>>

(* The transport's own cleanup, after a success and after an error.        *)
TransportCleanup(w) ==
    /\ pc[w] \in {"sent", "unsent"}
    /\ Remove(HeldDir(w), path[w])
    /\ Goto(w, IF pc[w] = "sent" THEN "complete" ELSE "discard")
    /\ UNCHANGED <<proc, requestVars, record, redis, held, attempt, path,
                   userVars, abandoned, rows, fate>>

(* The worker's cleanup after an error of SendVideo.                       *)
Discard(w) ==
    /\ pc[w] = "discard"
    /\ Remove(HeldDir(w), path[w])
    /\ RetryOrGiveUp(w)
    /\ UNCHANGED <<proc, requestVars, record, redis, held, userVars, abandoned,
                   rows, fate>>

(* processJob is over: the entry's fate is known and the worker is free.   *)
Settle(w, verdict) ==
    /\ fate' = [fate EXCEPT ![held[w]] = verdict]
    /\ held' = [held EXCEPT ![w] = None]
    /\ attempt' = [attempt EXCEPT ![w] = 0]
    /\ path' = [path EXCEPT ![w] = None]
    /\ Goto(w, "loop")

(* Mutant: processJob returns without marking the row.                     *)
CompleteUnmarked(w) ==
    /\ pc[w] = "complete"
    /\ Settle(w, "delivered")
    /\ UNCHANGED <<proc, requestVars, record, redis, disk, abandoned, userVars,
                   rows>>

MarkCompleted(w) ==
    /\ pc[w] = "complete"
    /\ Mark(Job(w), "completed")
    /\ Settle(w, "delivered")
    /\ UNCHANGED <<proc, requestVars, redis, disk, abandoned, userVars, rows>>

ReportFailure(w) ==
    /\ pc[w] = "report"
    /\ LogRow(Job(w), "failed")
    /\ Notify(Job(w), "failed")
    /\ Goto(w, "markFailed")
    /\ UNCHANGED <<proc, requestVars, record, redis, held, attempt, path, disk,
                   abandoned, contents, fate>>

MarkFailed(w) ==
    /\ pc[w] = "markFailed"
    /\ Mark(Job(w), "failed")
    /\ Settle(w, "failed")
    /\ UNCHANGED <<proc, requestVars, redis, disk, abandoned, userVars, rows>>

-----------------------------------------------------------------------------
(* The process.                                                            *)

(* Whatever is in memory is gone: the entries the workers hold and the     *)
(* handlers in flight.  Redis, PostgreSQL and /downloads stay.             *)
CutOff ==
    /\ proc' = "down"
    /\ handler' = [j \in Jobs |-> IF handler[j] \in {"greeted", "recorded"}
                                    THEN "cut" ELSE handler[j]]
    /\ fate' = [e \in Entry |-> IF \E w \in Workers : held[w] = e
                                  THEN "lost" ELSE fate[e]]
    /\ pc' = [w \in Workers |-> "off"]
    /\ held' = [w \in Workers |-> None]
    /\ attempt' = [w \in Workers |-> 0]
    /\ path' = [w \in Workers |-> None]
    /\ UNCHANGED <<record, redis, pushed, disk, abandoned, userVars, rows>>

Crash == "crash" \in Faults /\ proc # "down" /\ CutOff

Shutdown ==
    /\ "shutdown" \in Faults
    /\ proc = "running"
    /\ proc' = "stopping"
    /\ UNCHANGED <<requestVars, record, redis, workerVars, disk, abandoned,
                   userVars, rows, fate>>

(* main returns ten seconds after the signal, whatever is still running.   *)
Exit == proc = "stopping" /\ CutOff

(* main up to its wait for a signal.  It ends at once without a database   *)
(* or Redis, which is as if it had not been started.                       *)
Restart ==
    /\ proc = "down"
    /\ proc' = "running"
    /\ pc' = [w \in Workers |-> "loop"]
    /\ UNCHANGED <<requestVars, record, redis, held, attempt, path, disk,
                   abandoned, userVars, rows, fate>>

-----------------------------------------------------------------------------
HandlerStep(j) ==
    \/ CreateRecord(j)
    \/ CreateFails(j)
    \/ Push(j)
    \/ PushUnacknowledged(j)
    \/ PushFails(j)

WorkerStep(w) ==
    \/ Loop(w)
    \/ Pop(w)
    \/ PopFails(w)
    \/ Begin(w)
    \/ Launch(w)
    \/ Download(w)
    \/ DownloadFails(w)
    \/ NoFileFound(w)
    \/ FindFile(w)
    \/ StatFails(w)
    \/ RejectTooLarge(w)
    \/ AcceptSize(w)
    \/ SendVideo(w)
    \/ SendVideoFails(w)
    \/ TransportCleanup(w)
    \/ Discard(w)
    \/ MarkCompleted(w)
    \/ ReportFailure(w)
    \/ MarkFailed(w)

Next ==
    \/ \E j \in Jobs : Greet(j) \/ HandlerStep(j)
    \/ \E w \in Workers : WorkerStep(w)
    \/ Crash
    \/ Shutdown
    \/ Exit
    \/ Restart

Spec == Init /\ [][Next]_vars

(* A handler and a worker that can move do move: the Go scheduler runs     *)
(* every goroutine, yt-dlp is assumed to end (the worker sets it no time   *)
(* limit), and Redis not to fail every BRPOP.  Nothing makes a user ask, a *)
(* fault happen or a stopped process come back.                            *)
Fairness ==
    /\ \A j \in Jobs : WF_vars(HandlerStep(j))
    /\ \A w \in Workers : WF_vars(WorkerStep(w)) /\ SF_vars(Pop(w))

FairSpec == Spec /\ Fairness

-----------------------------------------------------------------------------
(* What must hold.                                                         *)

Queued(e) == \E i \in DOMAIN redis : redis[i] = e

(* An entry that LPUSH has added and nobody has settled or lost is in one  *)
(* place: once in the list, or in the hands of one worker.  This is about  *)
(* BRPOP handing the only copy of a job to a worker that may die with it.  *)
EntryConservation ==
    /\ \A i, k \in DOMAIN redis : redis[i] = redis[k] => i = k
    /\ \A e \in Entry :
         fate[e] = "open" <=> Queued(e) \/ \E w \in Workers : held[w] = e
    /\ \A w \in Workers : held[w] # None => ~Queued(held[w])
    /\ \A w, v \in Workers : held[w] = held[v] /\ held[w] # None => w = v

(* A row that says "completed" belongs to a user who was shown a video,    *)
(* and one that says "failed" to a user who was told so (unless messages   *)
(* themselves fail), whatever fails, crashes or is delivered twice: the    *)
(* status the admin panel shows is never ahead of the answer.              *)
RecordTruthful ==
    \A j \in Jobs :
        /\ record[j] = "completed" => inbox[j].video > 0
        /\ record[j] = "failed" => inbox[j].failed > 0 \/ "send" \in Faults

(* Retries, repeated pushes and restarts answer a request at most once per *)
(* push, but for the videos that were shown by a call that failed.         *)
AtMostOneAnswer ==
    \A j \in Jobs : inbox[j].video + inbox[j].failed <= pushed[j] + inbox[j].unacked

(* Whatever two workers do to one directory (one finds, replaces, sends or *)
(* removes the other's file between the other's steps), and whatever a     *)
(* crash or a failed yt-dlp leaves there, a user only receives videos      *)
(* fetched for the directory of the user's own job.  This is as much as    *)
(* the code promises: a job of the same number on the other platform, or   *)
(* of another URL that is sanitised alike, has the same directory.         *)
NoForeignVideo ==
    \A j \in Jobs : \A k \in contents[j] : Dir[k] = Dir[j]

(* A video on disk is in the hands of a worker that will send or remove    *)
(* it, or of a job that a crash or an exit took, or was left by a yt-dlp   *)
(* that failed after it (executeDownload then returns without cleaning up) *)
(* and not taken up since: no failed upload, oversize file or retry leaves *)
(* one behind (each job in a directory of its own).                        *)
InHand(d, f) ==
    \E w \in Workers :
        /\ held[w] # None
        /\ HeldDir(w) = d
        /\ \/ pc[w] = "find"
           \/ pc[w] \in {"stat", "send", "sent", "unsent", "discard"} /\ path[w] = f

NoLeftovers ==
    \A d \in Dirs : \A f \in VideoFiles :
        \/ disk[d][f] = None
        \/ InHand(d, f)
        \/ \E e \in Entry : e.job = disk[d][f] /\ fate[e] = "lost"
        \/ disk[d][f] \in abandoned

(* The attempts of the pushes bound what a user is shown (videos and "too  *)
(* large" messages) and what the limits count (rows of downloads), however *)
(* uploads fail or are shown and repeated and LPUSH is applied twice.  The *)
(* row is written before the upload: failed uploads count too, and every   *)
(* video shown was preceded by an INSERT of its own, written or refused.   *)
DeliveriesCounted ==
    \A j \in Jobs :
        /\ inbox[j].video + inbox[j].tooLarge <= (MaxRetries + 1) * pushed[j]
        /\ rows[j].completed + rows[j].dropped <= (MaxRetries + 1) * pushed[j]
        /\ inbox[j].video <= rows[j].completed + rows[j].dropped

(* Once a worker has settled a job, its row and its user have been told    *)
(* the same thing.  A fault of PostgreSQL, a shutdown or a messenger error *)
(* breaks it: the mark or the message is dropped and never repeated.       *)
Outcome(j) ==
    IF inbox[j].video > 0 THEN "completed"
    ELSE IF inbox[j].failed > 0 THEN "failed" ELSE "none"

RecordAgrees ==
    \A j \in Jobs :
        pushed[j] = 1 /\ fate[[job |-> j, copy |-> 1]] \in {"delivered", "failed"}
            => record[j] = Outcome(j)

(* A finished row is reopened only if the job was pushed twice: neither a  *)
(* restart nor a retry takes a job up again that has been settled.         *)
FinishedStaysFinished ==
    [][\A j \in Jobs : record[j] \in {"completed", "failed"} /\ pushed[j] <= 1
                         => record'[j] = record[j]]_vars

(* If the process ends up running, every request the user sees accepted    *)
(* ("Downloading your video") is answered: by an error, a video or a       *)
(* failure message, unless a crash or a lost reply took it.                *)
Answered(j) ==
    \/ handler[j] \in {"refused", "cut"}
    \/ inbox[j].video + inbox[j].failed > 0
    \/ \E e \in Entry : e.job = j /\ fate[e] = "lost"

AnsweredEventually ==
    <>[](proc = "running") => \A j \in Jobs : handler[j] = "greeted" ~> Answered(j)

(* The stage of a request, read off the queue, the workers and what the    *)
(* user was shown.  Two answers to one request have no stage at all.       *)
Stage ==
    [j \in Jobs |->
        LET answers == inbox[j].video + inbox[j].failed
            open == {e \in Entry : e.job = j /\ fate[e] = "open"}
        IN CASE answers > 1 -> "contradictory"
             [] inbox[j].video = 1 /\ answers = 1 -> "delivered"
             [] inbox[j].failed = 1 /\ answers = 1 -> "failed"
             [] answers = 0 /\ pushed[j] = 0 -> "idle"
             [] answers = 0 /\ pushed[j] > 0 /\ open = {} -> "lost"
             [] answers = 0 /\ pushed[j] > 0 /\ open # {} ->
                    IF \E e \in open : Queued(e) THEN "queued" ELSE "running"]

Service == INSTANCE DownloadService WITH stage <- Stage

(* The pipeline implements the service: each accepted request is answered  *)
(* once, and an answer is final.                                           *)
ServiceSpec == Service!Spec

-----------------------------------------------------------------------------
(* What the repository says and the code does not do.                      *)

(* QWEN.md:130: "Worker executes yt-dlp with chosen format": what a user   *)
(* receives is the download of the job the user asked for.                 *)
OwnVideo == \A j \in Jobs : contents[j] \subseteq {j}

(* QWEN.md:133: "Log download, update counters": a request whose row is    *)
(* completed has a row in downloads, which the counters read.              *)
DeliveryLogged == \A j \in Jobs : record[j] = "completed" => rows[j].completed > 0
==============================================================================
