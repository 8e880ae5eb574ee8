-------------------------- MODULE WorkerPool_proofs --------------------------
(***************************************************************************)
(* Theorems about WorkerPool for any sets of jobs, workers, files and      *)
(* directories, any number of retries and copies, and any set of faults.   *)
(***************************************************************************)
EXTENDS WorkerPool, FiniteSetTheorems, TLAPS

(* A worker holds an entry exactly while it is in processJob, has a path   *)
(* exactly where executeDownload uses it, and a dead process has no worker.*)
PathUsed == {"stat", "send", "sent", "unsent", "discard"}

WorkerInv ==
    /\ \A w \in Workers : pc[w] \in Busy => held[w] \in Entry
    /\ \A w \in Workers : pc[w] \in Idle => held[w] = None
    /\ \A w \in Workers : pc[w] \in PathUsed => path[w] \in Files
    /\ proc = "down" => \A w \in Workers : pc[w] = "off"

TypeInv == TypeOK /\ WorkerInv

(* What the proofs use of the assumption on the constants.                 *)
LEMMA ConstantFacts ==
    /\ VideoFiles \subseteq Files
    /\ Dir \in [Jobs -> Dirs]
    /\ File \in [Jobs -> Files]
    /\ MaxRetries \in Nat
    /\ Copies \in Nat \ {0}
    /\ None \notin Entry
    /\ None \notin Jobs
<1>1. VideoFiles \subseteq Files /\ MaxRetries \in Nat /\ Copies \in Nat \ {0}
  BY ConstantsAssumption
<1>2. Dir \in [Jobs -> Dirs] /\ File \in [Jobs -> Files]
  BY ConstantsAssumption
<1>3. None \notin Entry /\ None \notin Jobs
  BY ConstantsAssumption
<1>4. QED
  BY <1>1, <1>2, <1>3

LEMMA InitType == Init => TypeInv
<1>1. Init => TypeOK
  BY ConstantFacts DEF Init, TypeOK, HandlerStates, RecordStates, Idle, Fates
<1>2. Init => WorkerInv
  BY DEF Init, WorkerInv, Idle, Busy, PathUsed
<1>3. QED
  BY <1>1, <1>2 DEF TypeInv

(* A worker in processJob works on a job, in that job's directory.         *)
LEMMA HeldJob ==
  ASSUME TypeInv, NEW w \in Workers, pc[w] \in Busy
  PROVE  /\ held[w] \in Entry
         /\ Job(w) \in Jobs
         /\ HeldDir(w) \in Dirs
         /\ File[Job(w)] \in Files
<1>1. held[w] \in Entry
  BY DEF TypeInv, WorkerInv
<1>2. held[w].job \in Jobs
  BY <1>1 DEF Entry
<1>3. QED
  BY <1>1, <1>2, ConstantFacts DEF Job, HeldDir

(* One more of something keeps a table of counters well typed.             *)
LEMMA CountMore ==
  ASSUME NEW S, NEW M \in Nat, NEW f \in [S -> 0..M], NEW x \in S, f[x] < M
  PROVE  [f EXCEPT ![x] = @ + 1] \in [S -> 0..M]
  OBVIOUS

LEMMA NotifyType ==
  ASSUME TypeOK, NEW j \in Jobs, NEW text \in {"tooLarge", "failed"}, Notify(j, text)
  PROVE  inbox' \in [Jobs -> [video : Nat, unacked : Nat, tooLarge : Nat, failed : Nat]]
<1>1. inbox \in [Jobs -> [video : Nat, unacked : Nat, tooLarge : Nat, failed : Nat]]
  BY DEF TypeOK
<1>2. [inbox EXCEPT ![j][text] = @ + 1]
        \in [Jobs -> [video : Nat, unacked : Nat, tooLarge : Nat, failed : Nat]]
  BY <1>1
<1>3. QED
  BY <1>1, <1>2 DEF Notify

LEMMA LogRowType ==
  ASSUME TypeOK, NEW j \in Jobs, NEW status \in {"completed", "failed"}, LogRow(j, status)
  PROVE  rows' \in [Jobs -> [completed : Nat, failed : Nat, dropped : Nat]]
<1>1. rows \in [Jobs -> [completed : Nat, failed : Nat, dropped : Nat]]
  BY DEF TypeOK
<1>2. \A field \in {"completed", "failed", "dropped"} :
        [rows EXCEPT ![j][field] = @ + 1]
          \in [Jobs -> [completed : Nat, failed : Nat, dropped : Nat]]
  BY <1>1
<1>3. \/ rows' = rows
      \/ \E field \in {"completed", "failed", "dropped"} :
            rows' = [rows EXCEPT ![j][field] = @ + 1]
  BY DEF LogRow
<1>4. QED
  BY <1>1, <1>2, <1>3

LEMMA DeliverType ==
  ASSUME TypeOK, NEW w \in Workers, Job(w) \in Jobs, FileOf(w) \in Jobs,
         Deliver(w) \/ DeliverUnacknowledged(w)
  PROVE  /\ inbox' \in [Jobs -> [video : Nat, unacked : Nat, tooLarge : Nat, failed : Nat]]
         /\ contents' \in [Jobs -> SUBSET Jobs]
<1> DEFINE j == Job(w)
           k == FileOf(w)
<1>1. /\ inbox \in [Jobs -> [video : Nat, unacked : Nat, tooLarge : Nat, failed : Nat]]
      /\ contents \in [Jobs -> SUBSET Jobs]
  BY DEF TypeOK
<1>2. /\ \/ inbox' = [inbox EXCEPT ![j].video = @ + 1]
         \/ inbox' = [inbox EXCEPT ![j].video = @ + 1, ![j].unacked = @ + 1]
      /\ contents' = [contents EXCEPT ![j] = @ \cup {k}]
  BY DEF Deliver, DeliverUnacknowledged
<1>3. j \in Jobs /\ k \in Jobs
  OBVIOUS
<1> HIDE DEF j, k
<1>4. contents' \in [Jobs -> SUBSET Jobs]
  BY <1>1, <1>2, <1>3
<1>5. inbox' \in [Jobs -> [video : Nat, unacked : Nat, tooLarge : Nat, failed : Nat]]
  BY <1>1, <1>2, <1>3
<1>6. QED
  BY <1>4, <1>5

(* After a failed attempt the worker still holds its entry.                *)
LEMMA RetryType ==
  ASSUME TypeInv, NEW w \in Workers, pc[w] \in Busy, RetryOrGiveUp(w),
         UNCHANGED <<proc, held>>
  PROVE  /\ pc' \in [Workers -> Idle \cup Busy]
         /\ attempt' \in [Workers -> 0..MaxRetries]
         /\ path' \in [Workers -> Files \cup {None}]
         /\ WorkerInv'
<1>1. /\ pc' \in [Workers -> Idle \cup Busy]
      /\ path' \in [Workers -> Files \cup {None}]
  BY DEF RetryOrGiveUp, Goto, TypeInv, TypeOK, Busy
<1>2. attempt' \in [Workers -> 0..MaxRetries]
  <2>1. CASE attempt[w] < MaxRetries
    <3>1. attempt \in [Workers -> 0..MaxRetries]
      BY DEF TypeInv, TypeOK
    <3>2. attempt' = [attempt EXCEPT ![w] = @ + 1]
      BY <2>1 DEF RetryOrGiveUp
    <3>3. QED
      BY <2>1, <3>1, <3>2, ConstantFacts, CountMore
  <2>2. CASE ~(attempt[w] < MaxRetries)
    BY <2>2 DEF RetryOrGiveUp, TypeInv, TypeOK
  <2>3. QED
    BY <2>1, <2>2
<1>3. /\ pc'[w] \in Busy \ PathUsed
      /\ \A v \in Workers \ {w} : pc'[v] = pc[v] /\ path'[v] = path[v]
  BY DEF RetryOrGiveUp, Goto, TypeInv, TypeOK, Busy, PathUsed
<1>4. pc[w] # "off"
  BY DEF Busy
<1>5. WorkerInv'
  BY <1>3, <1>4, HeldJob DEF TypeInv, WorkerInv, Busy, Idle
<1>6. QED
  BY <1>1, <1>2, <1>5

(* Settling a job frees its worker.                                        *)
LEMMA SettleType ==
  ASSUME TypeInv, NEW w \in Workers, pc[w] \in Busy, NEW verdict \in Fates,
         Settle(w, verdict), UNCHANGED proc
  PROVE  /\ pc' \in [Workers -> Idle \cup Busy]
         /\ held' \in [Workers -> Entry \cup {None}]
         /\ attempt' \in [Workers -> 0..MaxRetries]
         /\ path' \in [Workers -> Files \cup {None}]
         /\ fate' \in [Entry -> Fates]
         /\ WorkerInv'
<1>1. /\ pc' \in [Workers -> Idle \cup Busy]
      /\ held' \in [Workers -> Entry \cup {None}]
      /\ path' \in [Workers -> Files \cup {None}]
      /\ fate' \in [Entry -> Fates]
  BY DEF Settle, Goto, TypeInv, TypeOK, Idle
<1>2. attempt' \in [Workers -> 0..MaxRetries]
  BY ConstantFacts DEF Settle, TypeInv, TypeOK
<1>3. WorkerInv'
  BY DEF Settle, Goto, TypeInv, TypeOK, WorkerInv, Idle, Busy, PathUsed
<1>4. QED
  BY <1>1, <1>2, <1>3

(* The chat handler.                                                       *)
LEMMA HandlerType ==
  ASSUME TypeInv, NEW j \in Jobs, Greet(j) \/ HandlerStep(j)
  PROVE  TypeInv'
<1>1. CASE Greet(j)
  BY <1>1 DEF Greet, HandlerStates, TypeInv, TypeOK, WorkerInv, workerVars, userVars
<1>2. CASE CreateRecord(j)
  BY <1>2 DEF CreateRecord, HandlerStates, RecordStates, TypeInv, TypeOK, WorkerInv, workerVars, userVars
<1>3. CASE CreateFails(j)
  BY <1>3 DEF CreateFails, HandlerStates, RecordStates, TypeInv, TypeOK, WorkerInv, workerVars, userVars
<1>4. CASE Push(j) \/ PushUnacknowledged(j)
  <2>1. Enqueue(j) /\ handler' \in [Jobs -> HandlerStates]
    BY <1>4 DEF Push, PushUnacknowledged, TypeInv, TypeOK, HandlerStates
  <2>2. pushed' \in [Jobs -> 0..Copies]
    BY <2>1, ConstantFacts DEF Enqueue, TypeInv, TypeOK
  <2> DEFINE e == [job |-> j, copy |-> pushed[j] + 1]
  <2>3. e \in Entry
    BY <2>1, ConstantFacts DEF Enqueue, Entry, TypeInv, TypeOK
  <2>4. redis' = Append(redis, e) /\ fate' = [fate EXCEPT ![e] = "open"]
    BY <2>1 DEF Enqueue
  <2> HIDE DEF e
  <2>5. redis' \in Seq(Entry) /\ fate' \in [Entry -> Fates]
    BY <2>3, <2>4 DEF TypeInv, TypeOK, Fates
  <2>6. QED
    BY <2>1, <2>2, <2>5 DEF Enqueue, TypeInv, TypeOK, WorkerInv, workerVars, userVars
<1>5. CASE PushFails(j)
  BY <1>5 DEF PushFails, HandlerStates, TypeInv, TypeOK, WorkerInv, workerVars, userVars
<1>6. QED
  BY <1>1, <1>2, <1>3, <1>4, <1>5 DEF HandlerStep

(* A worker.                                                               *)
LEMMA WorkerType ==
  ASSUME TypeInv, NEW w \in Workers, WorkerStep(w)
  PROVE  TypeInv'
<1>1. CASE Loop(w)
  BY <1>1 DEF Loop, Goto, Idle, Busy, PathUsed, TypeInv, TypeOK, WorkerInv, requestVars, userVars
<1>2. CASE Pop(w)
  <2>1. Head(redis) \in Entry /\ Tail(redis) \in Seq(Entry)
    BY <1>2 DEF Pop, TypeInv, TypeOK
  <2>2. QED
    BY <1>2, <2>1 DEF Pop, Goto, TypeInv, TypeOK, WorkerInv, requestVars, userVars, Idle, Busy, PathUsed
<1>3. CASE PopFails(w)
  <2>1. redis' \in Seq(Entry) /\ fate' \in [Entry -> Fates]
    <3>1. CASE UNCHANGED <<redis, fate>>
      BY <3>1 DEF TypeInv, TypeOK
    <3>2. CASE /\ redis # <<>>
               /\ redis' = Tail(redis)
               /\ fate' = [fate EXCEPT ![Head(redis)] = "lost"]
      <4>1. redis' \in Seq(Entry)
        BY <3>2 DEF TypeInv, TypeOK
      <4>2. fate' \in [Entry -> Fates]
        BY <3>2 DEF TypeInv, TypeOK, Fates
      <4>3. QED
        BY <4>1, <4>2
    <3>3. QED
      BY <1>3, <3>1, <3>2 DEF PopFails
  <2>2. QED
    BY <1>3, <2>1 DEF PopFails, Goto, TypeInv, TypeOK, WorkerInv, requestVars, userVars, Idle, Busy, PathUsed
<1>4. CASE Begin(w)
  <2>1. Job(w) \in Jobs
    BY <1>4, HeldJob DEF Begin, Busy
  <2>2. record' \in [Jobs -> RecordStates]
    BY <1>4, <2>1 DEF Begin, Mark, TypeInv, TypeOK, RecordStates
  <2>3. attempt' \in [Workers -> 0..MaxRetries]
    BY <1>4, ConstantFacts DEF Begin, TypeInv, TypeOK
  <2>4. QED
    BY <1>4, <2>2, <2>3 DEF Begin, Goto, TypeInv, TypeOK, WorkerInv, requestVars, userVars, Idle, Busy, PathUsed
<1>5. CASE Launch(w)
  BY <1>5 DEF Launch, Goto, Idle, Busy, PathUsed, TypeInv, TypeOK, WorkerInv, requestVars, userVars
<1>6. CASE Download(w)
  <2>1. Job(w) \in Jobs /\ HeldDir(w) \in Dirs /\ File[Job(w)] \in Files
    BY <1>6, HeldJob DEF Download, Busy
  <2>2. disk' \in [Dirs -> [Files -> Jobs \cup {None}]]
    BY <1>6, <2>1 DEF Download, Fetched, TypeInv, TypeOK
  <2>3. QED
    BY <1>6, <2>2 DEF Download, Goto, TypeInv, TypeOK, WorkerInv, requestVars, userVars, Idle, Busy, PathUsed
<1>7. CASE DownloadFails(w)
  <2>1. Job(w) \in Jobs /\ HeldDir(w) \in Dirs /\ File[Job(w)] \in Files
    BY <1>7, HeldJob DEF DownloadFails, Busy
  <2>2. \/ UNCHANGED <<disk, abandoned>>
        \/ Fetched(w) /\ abandoned' = abandoned \cup {Job(w)}
    BY <1>7 DEF DownloadFails
  <2>3. disk \in [Dirs -> [Files -> Jobs \cup {None}]] /\ abandoned \subseteq Jobs
    BY DEF TypeInv, TypeOK
  <2>4. disk' \in [Dirs -> [Files -> Jobs \cup {None}]] /\ abandoned' \subseteq Jobs
    BY <2>1, <2>2, <2>3 DEF Fetched
  <2>5. QED
    BY <1>7, <2>4, RetryType DEF DownloadFails, Busy, TypeInv, TypeOK, requestVars, userVars
<1>8. CASE NoFileFound(w)
  BY <1>8, RetryType DEF NoFileFound, Busy, TypeInv, TypeOK, requestVars, userVars
<1>9. CASE FindFile(w)
  <2>1. PICK f \in Files : path' = [path EXCEPT ![w] = f]
    BY <1>9, ConstantFacts DEF FindFile, FirstVideo, Videos
  <2>2. QED
    BY <1>9, <2>1 DEF FindFile, Goto, TypeInv, TypeOK, WorkerInv, requestVars, userVars, Idle, Busy, PathUsed
<1>10. CASE StatFails(w)
  BY <1>10, RetryType DEF StatFails, Busy, TypeInv, TypeOK, requestVars, userVars
<1>11. CASE RejectTooLarge(w)
  <2>1. Job(w) \in Jobs /\ HeldDir(w) \in Dirs /\ path[w] \in Files
    BY <1>11, HeldJob DEF RejectTooLarge, Busy, PathUsed, TypeInv, WorkerInv
  <2>2. disk' \in [Dirs -> [Files -> Jobs \cup {None}]]
    BY <1>11, <2>1 DEF RejectTooLarge, Remove, TypeInv, TypeOK
  <2>3. inbox' \in [Jobs -> [video : Nat, unacked : Nat, tooLarge : Nat, failed : Nat]]
    BY <1>11, <2>1, NotifyType DEF RejectTooLarge, TypeInv
  <2>4. QED
    BY <1>11, <2>2, <2>3, RetryType DEF RejectTooLarge, Busy, TypeInv, TypeOK, requestVars, userVars
<1>12. CASE AcceptSize(w)
  <2>1. Job(w) \in Jobs
    BY <1>12, HeldJob DEF AcceptSize, Busy
  <2>2. rows' \in [Jobs -> [completed : Nat, failed : Nat, dropped : Nat]]
    BY <1>12, <2>1, LogRowType DEF AcceptSize, TypeInv
  <2>3. QED
    BY <1>12, <2>2 DEF AcceptSize, Goto, TypeInv, TypeOK, WorkerInv, requestVars, userVars, Idle, Busy, PathUsed
<1>13. CASE SendVideo(w)
  <2>1. Job(w) \in Jobs /\ HeldDir(w) \in Dirs /\ path[w] \in Files
    BY <1>13, HeldJob DEF SendVideo, Busy, PathUsed, TypeInv, WorkerInv
  <2>2. FileOf(w) # None => FileOf(w) \in Jobs
    BY <2>1 DEF FileOf, TypeInv, TypeOK
  <2>3. (Deliver(w) /\ FileOf(w) # None) \/ UNCHANGED <<inbox, contents>>
    BY <1>13 DEF SendVideo, userVars
  <2>4. /\ inbox' \in [Jobs -> [video : Nat, unacked : Nat, tooLarge : Nat, failed : Nat]]
        /\ contents' \in [Jobs -> SUBSET Jobs]
    BY <2>1, <2>2, <2>3, DeliverType DEF TypeInv, TypeOK
  <2>5. QED
    BY <1>13, <2>4 DEF SendVideo, Goto, TypeInv, TypeOK, WorkerInv, requestVars, Idle, Busy, PathUsed
<1>14. CASE SendVideoFails(w)
  <2>1. Job(w) \in Jobs /\ HeldDir(w) \in Dirs /\ path[w] \in Files
    BY <1>14, HeldJob DEF SendVideoFails, Busy, PathUsed, TypeInv, WorkerInv
  <2>2. FileOf(w) # None => FileOf(w) \in Jobs
    BY <2>1 DEF FileOf, TypeInv, TypeOK
  <2>3. (DeliverUnacknowledged(w) /\ FileOf(w) # None) \/ UNCHANGED <<inbox, contents>>
    BY <1>14 DEF SendVideoFails, userVars
  <2>4. /\ inbox' \in [Jobs -> [video : Nat, unacked : Nat, tooLarge : Nat, failed : Nat]]
        /\ contents' \in [Jobs -> SUBSET Jobs]
    BY <2>1, <2>2, <2>3, DeliverType DEF TypeInv, TypeOK
  <2>5. QED
    BY <1>14, <2>4 DEF SendVideoFails, Goto, TypeInv, TypeOK, WorkerInv, requestVars, Idle, Busy, PathUsed
<1>15. CASE TransportCleanup(w)
  <2>1. HeldDir(w) \in Dirs /\ path[w] \in Files
    BY <1>15, HeldJob DEF TransportCleanup, Busy, PathUsed, TypeInv, WorkerInv
  <2>2. disk' \in [Dirs -> [Files -> Jobs \cup {None}]]
    BY <1>15, <2>1 DEF TransportCleanup, Remove, TypeInv, TypeOK
  <2>3. QED
    BY <1>15, <2>2 DEF TransportCleanup, Goto, TypeInv, TypeOK, WorkerInv, requestVars, userVars, Idle, Busy, PathUsed
<1>16. CASE Discard(w)
  <2>1. HeldDir(w) \in Dirs /\ path[w] \in Files
    BY <1>16, HeldJob DEF Discard, Busy, PathUsed, TypeInv, WorkerInv
  <2>2. disk' \in [Dirs -> [Files -> Jobs \cup {None}]]
    BY <1>16, <2>1 DEF Discard, Remove, TypeInv, TypeOK
  <2>3. QED
    BY <1>16, <2>2, RetryType DEF Discard, Busy, TypeInv, TypeOK, requestVars, userVars
<1>17. CASE MarkCompleted(w)
  <2>1. Job(w) \in Jobs
    BY <1>17, HeldJob DEF MarkCompleted, Busy
  <2>2. record' \in [Jobs -> RecordStates]
    BY <1>17, <2>1 DEF MarkCompleted, Mark, TypeInv, TypeOK, RecordStates
  <2>3. QED
    BY <1>17, <2>2, SettleType DEF MarkCompleted, Busy, Fates, TypeInv, TypeOK, requestVars, userVars
<1>18. CASE ReportFailure(w)
  <2>1. Job(w) \in Jobs
    BY <1>18, HeldJob DEF ReportFailure, Busy
  <2>2. rows' \in [Jobs -> [completed : Nat, failed : Nat, dropped : Nat]]
    BY <1>18, <2>1, LogRowType DEF ReportFailure, TypeInv
  <2>3. inbox' \in [Jobs -> [video : Nat, unacked : Nat, tooLarge : Nat, failed : Nat]]
    BY <1>18, <2>1, NotifyType DEF ReportFailure, TypeInv
  <2>4. QED
    BY <1>18, <2>2, <2>3 DEF ReportFailure, Goto, TypeInv, TypeOK, WorkerInv, requestVars, Idle, Busy, PathUsed
<1>19. CASE MarkFailed(w)
  <2>1. Job(w) \in Jobs
    BY <1>19, HeldJob DEF MarkFailed, Busy
  <2>2. record' \in [Jobs -> RecordStates]
    BY <1>19, <2>1 DEF MarkFailed, Mark, TypeInv, TypeOK, RecordStates
  <2>3. QED
    BY <1>19, <2>2, SettleType DEF MarkFailed, Busy, Fates, TypeInv, TypeOK, requestVars, userVars
<1>20. QED
  BY <1>1, <1>2, <1>3, <1>4, <1>5, <1>6, <1>7, <1>8, <1>9, <1>10, <1>11, <1>12, <1>13, <1>14, <1>15, <1>16, <1>17, <1>18, <1>19 DEF WorkerStep

(* The process.                                                            *)
LEMMA ProcessType ==
  ASSUME TypeInv, Crash \/ Shutdown \/ Exit \/ Restart
  PROVE  TypeInv'
<1>1. CASE CutOff
  <2>1. /\ handler' \in [Jobs -> HandlerStates]
        /\ fate' \in [Entry -> Fates]
    BY <1>1 DEF CutOff, TypeInv, TypeOK, HandlerStates, Fates
  <2>2. /\ pc' \in [Workers -> Idle \cup Busy]
        /\ held' \in [Workers -> Entry \cup {None}]
        /\ attempt' \in [Workers -> 0..MaxRetries]
        /\ path' \in [Workers -> Files \cup {None}]
    BY <1>1, ConstantFacts DEF CutOff, Idle
  <2>3. WorkerInv'
    BY <1>1 DEF CutOff, WorkerInv, Idle, Busy, PathUsed
  <2>4. QED
    BY <1>1, <2>1, <2>2, <2>3 DEF CutOff, TypeInv, TypeOK, userVars
<1>2. CASE Shutdown
  BY <1>2 DEF Shutdown, TypeInv, TypeOK, WorkerInv, requestVars, workerVars, userVars
<1>3. CASE Restart
  BY <1>3 DEF Restart, TypeInv, TypeOK, WorkerInv, requestVars, userVars, Idle, Busy, PathUsed
<1>4. QED
  BY <1>1, <1>2, <1>3 DEF Crash, Exit

LEMMA StepType == TypeInv /\ [Next]_vars => TypeInv'
<1>1. TypeInv /\ UNCHANGED vars => TypeInv'
  BY DEF vars, TypeInv, TypeOK, WorkerInv
<1>2. QED
  BY <1>1, HandlerType, WorkerType, ProcessType DEF Next

(* Every variable keeps its type, and a worker holds an entry exactly      *)
(* while it is in processJob.                                              *)
THEOREM TypeCorrect == Spec => []TypeOK
<1>1. Spec => []TypeInv
  BY InitType, StepType, PTL DEF Spec
<1>2. TypeInv => TypeOK
  BY DEF TypeInv
<1>3. QED
  BY <1>1, <1>2, PTL

-----------------------------------------------------------------------------
(* Conservation of entries.  The copies numbered so far are those that     *)
(* LPUSH has applied: the next copy is in nobody's hands.                  *)
Numbered == \A e \in Entry : fate[e] = "absent" <=> e.copy > pushed[e.job]

ConservationInv == TypeInv /\ EntryConservation /\ Numbered

queueVars == <<redis, held, fate, pushed>>

LEMMA InitConservation == Init => EntryConservation /\ Numbered
<1> SUFFICES ASSUME Init PROVE EntryConservation /\ Numbered
  OBVIOUS
<1>1. EntryConservation
  BY ConstantFacts DEF Init, EntryConservation, Queued
<1>2. Numbered
  <2>1. \A e \in Entry : e.job \in Jobs /\ e.copy \in 1..Copies
    BY DEF Entry
  <2>2. QED
    BY <2>1, ConstantFacts DEF Init, Numbered
<1>3. QED
  BY <1>1, <1>2

LEMMA KeepConservation ==
  ASSUME ConservationInv, UNCHANGED queueVars
  PROVE  EntryConservation' /\ Numbered'
  BY DEF ConservationInv, EntryConservation, Queued, Numbered, queueVars

(* The new entry is the next copy: it is not queued and nobody holds it.   *)
LEMMA EnqueueConservation ==
  ASSUME ConservationInv, NEW j \in Jobs, Enqueue(j)
  PROVE  EntryConservation' /\ Numbered'
<1> DEFINE e == [job |-> j, copy |-> pushed[j] + 1]
<1>1. e \in Entry /\ e.job = j /\ e.copy = pushed[j] + 1
  BY ConstantFacts DEF Enqueue, Entry, ConservationInv, TypeInv, TypeOK
<1>2. \A x \in Entry : x # e => x.job # j \/ x.copy # pushed[j] + 1
  BY DEF Entry
<1>3. /\ redis' = Append(redis, e)
      /\ fate' = [fate EXCEPT ![e] = "open"]
      /\ pushed' = [pushed EXCEPT ![j] = @ + 1]
      /\ held' = held
  BY DEF Enqueue, workerVars
<1> HIDE DEF e
<1>4. /\ redis \in Seq(Entry)
      /\ fate \in [Entry -> Fates]
      /\ pushed \in [Jobs -> 0..Copies]
      /\ held \in [Workers -> Entry \cup {None}]
      /\ \A x \in Entry : x.job \in Jobs /\ x.copy \in 1..Copies
  BY DEF ConservationInv, TypeInv, TypeOK, Entry
<1>5. fate[e] # "open"
  BY <1>1, <1>4, ConstantFacts DEF ConservationInv, Numbered
<1>6. ~Queued(e) /\ \A w \in Workers : held[w] # e
  BY <1>1, <1>5 DEF ConservationInv, EntryConservation
<1>7. /\ DOMAIN redis' = 1..Len(redis) + 1
      /\ DOMAIN redis = 1..Len(redis)
      /\ Len(redis) \in Nat
      /\ \A i \in 1..Len(redis) : redis'[i] = redis[i]
      /\ redis'[Len(redis) + 1] = e
  BY <1>1, <1>3, <1>4
<1>8. \A x : Queued(x)' <=> Queued(x) \/ x = e
  BY <1>7 DEF Queued
<1>9. \A i, k \in DOMAIN redis' : redis'[i] = redis'[k] => i = k
  <2>1. \A i \in 1..Len(redis) : redis[i] # e
    BY <1>6, <1>7 DEF Queued
  <2>2. QED
    BY <1>7, <2>1 DEF ConservationInv, EntryConservation
<1>10. EntryConservation'
  BY <1>1, <1>3, <1>4, <1>6, <1>8, <1>9, ConstantFacts
     DEF ConservationInv, EntryConservation
<1>11. Numbered'
  <2>1. \A x \in Entry : x # e => (fate'[x] = "absent" <=> x.copy > pushed'[x.job])
    <3> SUFFICES ASSUME NEW x \in Entry, x # e
                 PROVE  fate'[x] = "absent" <=> x.copy > pushed'[x.job]
      OBVIOUS
    <3>1. fate'[x] = fate[x]
      BY <1>3, <1>4
    <3>2. CASE x.job = j
      BY <1>2, <1>3, <1>4, <3>1, <3>2, ConstantFacts DEF ConservationInv, Numbered
    <3>3. CASE x.job # j
      BY <1>3, <1>4, <3>1, <3>3 DEF ConservationInv, Numbered
    <3>4. QED
      BY <3>2, <3>3
  <2>2. fate'[e] # "absent" /\ ~(e.copy > pushed'[e.job])
    BY <1>1, <1>3, <1>4, ConstantFacts
  <2>3. QED
    BY <2>1, <2>2 DEF Numbered
<1>12. QED
  BY <1>10, <1>11

(* Taking the head of the list leaves the other entries where they were.   *)
LEMMA HeadAndTail ==
  ASSUME ConservationInv, redis # <<>>, redis' = Tail(redis)
  PROVE  /\ Head(redis) \in Entry
         /\ Queued(Head(redis))
         /\ \A x : Queued(x)' <=> Queued(x) /\ x # Head(redis)
         /\ \A i, k \in DOMAIN redis' : redis'[i] = redis'[k] => i = k
<1>1. redis \in Seq(Entry)
  BY DEF ConservationInv, TypeInv, TypeOK
<1>2. /\ Len(redis) \in Nat \ {0}
      /\ DOMAIN redis = 1..Len(redis)
      /\ DOMAIN redis' = 1..Len(redis) - 1
      /\ \A i \in 1..Len(redis) - 1 : redis'[i] = redis[i + 1]
      /\ Head(redis) = redis[1]
      /\ Head(redis) \in Entry
  BY <1>1
<1>3. \A i, k \in 1..Len(redis) : redis[i] = redis[k] => i = k
  BY <1>2 DEF ConservationInv, EntryConservation
<1>4. Queued(Head(redis))
  BY <1>2 DEF Queued
<1>5. \A x : Queued(x)' <=> Queued(x) /\ x # Head(redis)
  <2> SUFFICES ASSUME NEW x PROVE Queued(x)' <=> Queued(x) /\ x # Head(redis)
    OBVIOUS
  <2>1. ASSUME Queued(x)' PROVE Queued(x) /\ x # Head(redis)
    <3>1. PICK i \in 1..Len(redis) - 1 : redis[i + 1] = x
      BY <1>2, <2>1 DEF Queued
    <3>2. i + 1 \in 1..Len(redis) /\ i + 1 # 1 /\ 1 \in 1..Len(redis)
      BY <1>2
    <3>3. QED
      BY <1>2, <1>3, <3>1, <3>2 DEF Queued
  <2>2. ASSUME Queued(x), x # Head(redis) PROVE Queued(x)'
    <3>1. PICK i \in 1..Len(redis) : redis[i] = x
      BY <1>2, <2>2 DEF Queued
    <3>2. i # 1
      BY <1>2, <2>2, <3>1
    <3>3. i - 1 \in 1..Len(redis) - 1 /\ (i - 1) + 1 = i
      BY <1>2, <3>2
    <3>4. redis'[i - 1] = x
      BY <1>2, <3>1, <3>3
    <3>5. QED
      BY <1>2, <3>3, <3>4 DEF Queued
  <2>3. QED
    BY <2>1, <2>2
<1>6. \A i, k \in DOMAIN redis' : redis'[i] = redis'[k] => i = k
  <2> SUFFICES ASSUME NEW i \in 1..Len(redis) - 1, NEW k \in 1..Len(redis) - 1,
                      redis'[i] = redis'[k]
               PROVE  i = k
    BY <1>2
  <2>1. i + 1 \in 1..Len(redis) /\ k + 1 \in 1..Len(redis)
    BY <1>2
  <2>2. redis[i + 1] = redis[k + 1]
    BY <1>2
  <2>3. QED
    BY <1>3, <2>1, <2>2
<1>7. QED
  BY <1>2, <1>4, <1>5, <1>6

LEMMA PopConservation ==
  ASSUME ConservationInv, NEW w \in Workers, Pop(w)
  PROVE  EntryConservation' /\ Numbered'
<1> DEFINE e == Head(redis)
<1>1. /\ redis # <<>>
      /\ redis' = Tail(redis)
      /\ held' = [held EXCEPT ![w] = e]
      /\ UNCHANGED <<fate, pushed>>
  BY DEF Pop, requestVars
<1>2. /\ e \in Entry
      /\ Queued(e)
      /\ \A x : Queued(x)' <=> Queued(x) /\ x # e
      /\ \A i, k \in DOMAIN redis' : redis'[i] = redis'[k] => i = k
  BY <1>1, HeadAndTail
<1> HIDE DEF e
<1>3. held[w] = None /\ held \in [Workers -> Entry \cup {None}]
  BY DEF Pop, Idle, ConservationInv, TypeInv, TypeOK, WorkerInv
<1>4. e # None /\ fate[e] = "open" /\ \A v \in Workers : held[v] # e
  BY <1>2, ConstantFacts DEF ConservationInv, EntryConservation
<1>5. held'[w] = e /\ \A v \in Workers \ {w} : held'[v] = held[v]
  BY <1>1, <1>3
<1>6. \A x \in Entry :
        (\E v \in Workers : held'[v] = x) <=> (\E v \in Workers : held[v] = x) \/ x = e
  BY <1>3, <1>5, ConstantFacts
<1>7. \A x \in Entry :
        fate'[x] = "open" <=> Queued(x)' \/ \E v \in Workers : held'[v] = x
  BY <1>1, <1>2, <1>4, <1>6 DEF ConservationInv, EntryConservation
<1>8. \A v \in Workers : held'[v] # None => ~(Queued(held[v])')
  BY <1>2, <1>4, <1>5 DEF ConservationInv, EntryConservation, Queued
<1>9. \A u, v \in Workers : held'[u] = held'[v] /\ held'[u] # None => u = v
  BY <1>4, <1>5 DEF ConservationInv, EntryConservation
<1>10. QED
  BY <1>1, <1>2, <1>7, <1>8, <1>9
     DEF ConservationInv, EntryConservation, Numbered, Queued

(* An entry leaves the system from the head of the list ...                *)
LEMMA LossConservation ==
  ASSUME ConservationInv, redis # <<>>, redis' = Tail(redis),
         fate' = [fate EXCEPT ![Head(redis)] = "lost"], UNCHANGED <<held, pushed>>
  PROVE  EntryConservation' /\ Numbered'
<1> DEFINE e == Head(redis)
<1>1. /\ e \in Entry
      /\ Queued(e)
      /\ \A x : Queued(x)' <=> Queued(x) /\ x # e
      /\ \A i, k \in DOMAIN redis' : redis'[i] = redis'[k] => i = k
  BY HeadAndTail
<1>2. fate' = [fate EXCEPT ![e] = "lost"] /\ fate \in [Entry -> Fates]
  BY DEF ConservationInv, TypeInv, TypeOK
<1> HIDE DEF e
<1>3. fate[e] = "open" /\ \A v \in Workers : held[v] # e
  BY <1>1, ConstantFacts DEF ConservationInv, EntryConservation
<1>4. EntryConservation'
  BY <1>1, <1>2, <1>3 DEF ConservationInv, EntryConservation
<1>5. Numbered'
  BY <1>1, <1>2, <1>3 DEF ConservationInv, Numbered
<1>6. QED
  BY <1>4, <1>5

(* ... or from a worker's hands, settled ...                               *)
LEMMA SettleConservation ==
  ASSUME ConservationInv, NEW w \in Workers, pc[w] \in Busy,
         NEW verdict \in {"delivered", "failed"}, Settle(w, verdict),
         UNCHANGED <<redis, pushed>>
  PROVE  EntryConservation' /\ Numbered'
<1> DEFINE e == held[w]
<1>1. e \in Entry
  BY DEF ConservationInv, TypeInv, WorkerInv
<1>2. /\ fate' = [fate EXCEPT ![e] = verdict]
      /\ held' = [held EXCEPT ![w] = None]
      /\ fate \in [Entry -> Fates]
      /\ held \in [Workers -> Entry \cup {None}]
  BY DEF Settle, ConservationInv, TypeInv, TypeOK
<1>3. e # None /\ fate[e] = "open" /\ ~Queued(e)
  BY <1>1, ConstantFacts DEF ConservationInv, EntryConservation
<1>4. \A v \in Workers \ {w} : held'[v] = held[v] /\ held[v] # e
  BY <1>2, <1>3 DEF ConservationInv, EntryConservation
<1>5. held'[w] = None /\ held[w] = e
  BY <1>2
<1> HIDE DEF e
<1>6. \A x : Queued(x)' <=> Queued(x)
  BY DEF Queued
<1>7. \A x \in Entry :
        (\E v \in Workers : held'[v] = x)
          <=> (\E v \in Workers : held[v] = x) /\ x # e
  BY <1>1, <1>4, <1>5, ConstantFacts
<1>8. \A x \in Entry :
        fate'[x] = "open" <=> Queued(x)' \/ \E v \in Workers : held'[v] = x
  BY <1>2, <1>3, <1>6, <1>7 DEF ConservationInv, EntryConservation
<1>9. EntryConservation'
  BY <1>4, <1>5, <1>6, <1>8 DEF ConservationInv, EntryConservation, Queued
<1>10. Numbered'
  BY <1>1, <1>2, <1>3 DEF ConservationInv, Numbered
<1>11. QED
  BY <1>9, <1>10

(* ... or with the process.                                                *)
LEMMA CutOffConservation ==
  ASSUME ConservationInv, CutOff
  PROVE  EntryConservation' /\ Numbered'
<1>1. /\ \A x \in Entry : fate'[x] = IF \E w \in Workers : held[w] = x
                                        THEN "lost" ELSE fate[x]
      /\ \A w \in Workers : held'[w] = None
      /\ UNCHANGED <<redis, pushed>>
  BY DEF CutOff
<1>2. \A x : Queued(x)' <=> Queued(x)
  BY <1>1 DEF Queued
<1>3. \A w \in Workers : held[w] # None => held[w] \in Entry
  BY DEF ConservationInv, TypeInv, TypeOK
<1>4. \A x \in Entry : Queued(x) => \A w \in Workers : held[w] # x
  BY ConstantFacts DEF ConservationInv, EntryConservation
<1>5. EntryConservation'
  BY <1>1, <1>2, <1>4, ConstantFacts DEF ConservationInv, EntryConservation
<1>6. Numbered'
  BY <1>1 DEF ConservationInv, EntryConservation, Numbered
<1>7. QED
  BY <1>5, <1>6

LEMMA StepConservation ==
  ConservationInv /\ [Next]_vars => ConservationInv'
<1> SUFFICES ASSUME ConservationInv, [Next]_vars
             PROVE  EntryConservation' /\ Numbered'
  BY StepType DEF ConservationInv
<1>1. ASSUME NEW j \in Jobs, Greet(j) \/ HandlerStep(j)
      PROVE  EntryConservation' /\ Numbered'
  <2>1. CASE Greet(j) \/ CreateRecord(j) \/ CreateFails(j) \/ PushFails(j)
    BY <2>1, KeepConservation
       DEF Greet, CreateRecord, CreateFails, PushFails, queueVars, workerVars
  <2>2. CASE Push(j) \/ PushUnacknowledged(j)
    BY <2>2, EnqueueConservation DEF Push, PushUnacknowledged
  <2>3. QED
    BY <1>1, <2>1, <2>2 DEF HandlerStep
<1>2. ASSUME NEW w \in Workers, WorkerStep(w)
      PROVE  EntryConservation' /\ Numbered'
  <2>1. CASE Pop(w)
    BY <2>1, PopConservation
  <2>2. CASE PopFails(w)
    BY <2>2, KeepConservation, LossConservation DEF PopFails, queueVars, requestVars
  <2>3. CASE MarkCompleted(w) \/ MarkFailed(w)
    BY <2>3, SettleConservation DEF MarkCompleted, MarkFailed, Busy, requestVars
  <2>4. CASE \/ Loop(w) \/ Begin(w) \/ Launch(w) \/ Download(w) \/ DownloadFails(w)
             \/ NoFileFound(w) \/ FindFile(w) \/ StatFails(w) \/ RejectTooLarge(w)
             \/ AcceptSize(w)
    BY <2>4, KeepConservation
       DEF Loop, Begin, Launch, Download, DownloadFails, NoFileFound, FindFile,
           StatFails, RejectTooLarge, AcceptSize, queueVars, requestVars
  <2>5. CASE SendVideo(w) \/ SendVideoFails(w) \/ TransportCleanup(w) \/ Discard(w)
             \/ ReportFailure(w)
    BY <2>5, KeepConservation
       DEF SendVideo, SendVideoFails, TransportCleanup, Discard, ReportFailure,
           queueVars, requestVars
  <2>6. QED
    BY <1>2, <2>1, <2>2, <2>3, <2>4, <2>5 DEF WorkerStep
<1>3. CASE Crash \/ Exit
  BY <1>3, CutOffConservation DEF Crash, Exit
<1>4. CASE Shutdown \/ Restart
  BY <1>4, KeepConservation DEF Shutdown, Restart, queueVars, requestVars, workerVars
<1>5. CASE UNCHANGED vars
  BY <1>5, KeepConservation DEF vars, queueVars
<1>6. QED
  BY <1>1, <1>2, <1>3, <1>4, <1>5 DEF Next

(* Every open entry is in exactly one place, for any number of workers,    *)
(* jobs and copies and whatever faults happen.                             *)
THEOREM Conservation == Spec => []EntryConservation
<1>1. Init => ConservationInv
  BY InitType, InitConservation DEF ConservationInv
<1>2. ConservationInv => EntryConservation
  BY DEF ConservationInv
<1>3. QED
  BY <1>1, <1>2, StepConservation, PTL DEF Spec

-----------------------------------------------------------------------------
(* Truth of the rows.  A worker that will mark a row has already told the  *)
(* user, and what the user has been told is never taken back.              *)
Told ==
    \A w \in Workers :
        /\ pc[w] \in {"sent", "complete"} => inbox[Job(w)].video > 0
        /\ pc[w] = "markFailed" => inbox[Job(w)].failed > 0 \/ "send" \in Faults

TruthInv == TypeInv /\ RecordTruthful /\ Told

(* What one step does to the inbox.                                        *)
LEMMA InboxGrows ==
  ASSUME TypeInv, [Next]_vars, NEW j \in Jobs
  PROVE  inbox'[j].video >= inbox[j].video /\ inbox'[j].failed >= inbox[j].failed
<1>1. inbox \in [Jobs -> [video : Nat, unacked : Nat, tooLarge : Nat, failed : Nat]]
  BY DEF TypeInv, TypeOK
<1>2. inbox[j].video \in Nat /\ inbox[j].failed \in Nat
  BY <1>1
<1>3. ASSUME NEW k \in Jobs, NEW text \in {"video", "tooLarge", "failed"},
             inbox' = [inbox EXCEPT ![k][text] = @ + 1]
      PROVE  inbox'[j].video >= inbox[j].video /\ inbox'[j].failed >= inbox[j].failed
  BY <1>1, <1>2, <1>3
<1>4. ASSUME NEW k \in Jobs,
             \/ inbox' = [inbox EXCEPT ![k].video = @ + 1]
             \/ inbox' = [inbox EXCEPT ![k].video = @ + 1, ![k].unacked = @ + 1]
      PROVE  inbox'[j].video >= inbox[j].video /\ inbox'[j].failed >= inbox[j].failed
  BY <1>1, <1>2, <1>4
<1>5. CASE UNCHANGED inbox
  BY <1>2, <1>5
<1>6. ASSUME NEW k \in Jobs, Greet(k) \/ HandlerStep(k) PROVE UNCHANGED inbox
  BY <1>6 DEF HandlerStep, Greet, CreateRecord, CreateFails, Push,
              PushUnacknowledged, Enqueue, PushFails, userVars
<1>7. ASSUME NEW w \in Workers, WorkerStep(w)
      PROVE  inbox'[j].video >= inbox[j].video /\ inbox'[j].failed >= inbox[j].failed
  <2>1. CASE RejectTooLarge(w)
    BY <1>3, <1>5, <2>1, HeldJob DEF RejectTooLarge, Notify, Busy
  <2>2. CASE ReportFailure(w)
    BY <1>3, <1>5, <2>2, HeldJob DEF ReportFailure, Notify, Busy
  <2>3. CASE SendVideo(w) \/ SendVideoFails(w)
    BY <1>4, <1>5, <2>3, HeldJob
       DEF SendVideo, SendVideoFails, Deliver, DeliverUnacknowledged, Busy, userVars
  <2>4. CASE ~(RejectTooLarge(w) \/ ReportFailure(w) \/ SendVideo(w) \/ SendVideoFails(w))
    BY <1>5, <1>7, <2>4
       DEF WorkerStep, Loop, Pop, PopFails, Begin, Launch, Download, DownloadFails,
           NoFileFound, FindFile, StatFails, AcceptSize, TransportCleanup, Discard,
           MarkCompleted, MarkFailed, userVars
  <2>5. QED
    BY <2>1, <2>2, <2>3, <2>4
<1>8. CASE Crash \/ Exit \/ Shutdown \/ Restart \/ UNCHANGED vars
  BY <1>5, <1>8 DEF Crash, Exit, CutOff, Shutdown, Restart, userVars, vars
<1>9. QED
  BY <1>5, <1>6, <1>7, <1>8 DEF Next

LEMMA GrownInbox ==
  ASSUME TruthInv, [Next]_vars, NEW j \in Jobs
  PROVE  /\ inbox[j].video > 0 => inbox'[j].video > 0
         /\ inbox[j].failed > 0 => inbox'[j].failed > 0
<1>1. inbox' \in [Jobs -> [video : Nat, unacked : Nat, tooLarge : Nat, failed : Nat]]
  BY StepType DEF TruthInv, TypeInv, TypeOK
<1>2. /\ inbox[j].video \in Nat /\ inbox'[j].video \in Nat
      /\ inbox[j].failed \in Nat /\ inbox'[j].failed \in Nat
  BY <1>1 DEF TruthInv, TypeInv, TypeOK
<1>3. QED
  BY <1>2, InboxGrows DEF TruthInv

(* What one step does to a row: only MarkCompleted and MarkFailed finish   *)
(* it, for the job of the worker that performs them.                       *)
LEMMA RowFinished ==
  ASSUME TypeInv, [Next]_vars, NEW j \in Jobs
  PROVE  /\ record'[j] = "completed"
              => \/ record[j] = "completed"
                 \/ \E w \in Workers : pc[w] = "complete" /\ Job(w) = j
         /\ record'[j] = "failed"
              => \/ record[j] = "failed"
                 \/ \E w \in Workers : pc[w] = "markFailed" /\ Job(w) = j
<1>1. record \in [Jobs -> RecordStates]
  BY DEF TypeInv, TypeOK
<1>2. ASSUME NEW k \in Jobs, NEW s,
             record' = [record EXCEPT ![k] = s] \/ UNCHANGED record, record'[j] # record[j]
      PROVE  k = j /\ record'[j] = s
  BY <1>1, <1>2
<1>3. ASSUME NEW k \in Jobs, Greet(k) \/ HandlerStep(k), record'[j] # record[j]
      PROVE  record'[j] = "pending"
  BY <1>2, <1>3 DEF HandlerStep, Greet, CreateRecord, CreateFails, Push,
                    PushUnacknowledged, Enqueue, PushFails
<1>4. ASSUME NEW w \in Workers, WorkerStep(w), record'[j] # record[j]
      PROVE  \/ record'[j] = "downloading"
             \/ record'[j] = "completed" /\ pc[w] = "complete" /\ Job(w) = j
             \/ record'[j] = "failed" /\ pc[w] = "markFailed" /\ Job(w) = j
  <2>1. CASE Begin(w)
    BY <1>2, <1>4, <2>1, HeldJob DEF Begin, Mark, Busy
  <2>2. CASE MarkCompleted(w)
    BY <1>2, <1>4, <2>2, HeldJob DEF MarkCompleted, Mark, Busy
  <2>3. CASE MarkFailed(w)
    BY <1>2, <1>4, <2>3, HeldJob DEF MarkFailed, Mark, Busy
  <2>4. CASE ~(Begin(w) \/ MarkCompleted(w) \/ MarkFailed(w))
    BY <1>4, <2>4
       DEF WorkerStep, Loop, Pop, PopFails, Launch, Download, DownloadFails,
           NoFileFound, FindFile, StatFails, RejectTooLarge, AcceptSize, SendVideo,
           SendVideoFails, TransportCleanup, Discard, ReportFailure
  <2>5. QED
    BY <2>1, <2>2, <2>3, <2>4
<1>5. CASE Crash \/ Exit \/ Shutdown \/ Restart \/ UNCHANGED vars
  BY <1>5 DEF Crash, Exit, CutOff, Shutdown, Restart, vars
<1>6. QED
  BY <1>3, <1>4, <1>5 DEF Next

(* What one step of a worker does to the others: nothing.                  *)
LEMMA OthersStay ==
  ASSUME TypeInv, NEW w \in Workers, WorkerStep(w), NEW v \in Workers \ {w}
  PROVE  pc'[v] = pc[v] /\ held'[v] = held[v]
  BY DEF WorkerStep, Loop, Pop, PopFails, Begin, Launch, Download, DownloadFails,
         NoFileFound, FindFile, StatFails, RejectTooLarge, AcceptSize, SendVideo,
         SendVideoFails, TransportCleanup, Discard, MarkCompleted, ReportFailure,
         MarkFailed, Goto, RetryOrGiveUp, Settle, TypeInv, TypeOK

(* A worker reaches the steps that mark a row by way of SendVideo or of    *)
(* ReportFailure, which tell the user.                                     *)
LEMMA ToldBefore ==
  ASSUME TypeInv, NEW w \in Workers, WorkerStep(w)
  PROVE  /\ pc'[w] \in {"sent", "complete"}
              => /\ held'[w] = held[w]
                 /\ pc[w] = "sent" \/ inbox'[Job(w)].video > 0
         /\ pc'[w] = "markFailed"
              => /\ held'[w] = held[w]
                 /\ inbox'[Job(w)].failed > 0 \/ "send" \in Faults
<1>1. pc \in [Workers -> Idle \cup Busy]
      /\ inbox \in [Jobs -> [video : Nat, unacked : Nat, tooLarge : Nat, failed : Nat]]
  BY DEF TypeInv, TypeOK
<1>2. CASE SendVideo(w)
  <2> DEFINE j == Job(w)
  <2>1. j \in Jobs
    BY <1>2, HeldJob DEF SendVideo, Busy
  <2>2. inbox' = [inbox EXCEPT ![j].video = @ + 1]
    BY <1>2 DEF SendVideo, Deliver
  <2> HIDE DEF j
  <2>3. inbox'[j].video = inbox[j].video + 1 /\ inbox[j].video \in Nat
    BY <1>1, <2>1, <2>2
  <2>4. inbox'[j].video > 0
    BY <2>3
  <2>5. pc'[w] = "sent" /\ held'[w] = held[w]
    BY <1>1, <1>2 DEF SendVideo, Goto
  <2>6. QED
    BY <2>4, <2>5 DEF j
<1>3. CASE ReportFailure(w)
  <2> DEFINE j == Job(w)
  <2>1. j \in Jobs
    BY <1>3, HeldJob DEF ReportFailure, Busy
  <2>2. inbox' = [inbox EXCEPT ![j]["failed"] = @ + 1] \/ "send" \in Faults
    BY <1>3 DEF ReportFailure, Notify
  <2> HIDE DEF j
  <2>3. ASSUME inbox' = [inbox EXCEPT ![j]["failed"] = @ + 1]
        PROVE  inbox'[j].failed > 0
    <3>1. inbox'[j].failed = inbox[j].failed + 1 /\ inbox[j].failed \in Nat
      BY <1>1, <2>1, <2>3
    <3>2. QED
      BY <3>1
  <2>4. inbox'[j].failed > 0 \/ "send" \in Faults
    BY <2>2, <2>3
  <2>5. pc'[w] = "markFailed" /\ held'[w] = held[w]
    BY <1>1, <1>3 DEF ReportFailure, Goto
  <2>6. QED
    BY <2>4, <2>5 DEF j
<1>4. CASE TransportCleanup(w)
  BY <1>1, <1>4 DEF TransportCleanup, Goto
<1>5. CASE ~(SendVideo(w) \/ ReportFailure(w) \/ TransportCleanup(w))
  <2>1. pc'[w] \notin {"sent", "complete", "markFailed"}
    BY <1>1, <1>5
       DEF WorkerStep, Loop, Pop, PopFails, Begin, Launch, Download, DownloadFails,
           NoFileFound, FindFile, StatFails, RejectTooLarge, AcceptSize,
           SendVideoFails, Discard, MarkCompleted, MarkFailed, Goto, RetryOrGiveUp, Settle
  <2>2. QED
    BY <2>1
<1>6. QED
  BY <1>2, <1>3, <1>4, <1>5

LEMMA StepTold == TruthInv /\ [Next]_vars => Told'
<1> SUFFICES ASSUME TruthInv, [Next]_vars, NEW w \in Workers
             PROVE  /\ pc'[w] \in {"sent", "complete"} => inbox'[Job(w)'].video > 0
                    /\ pc'[w] = "markFailed"
                         => inbox'[Job(w)'].failed > 0 \/ "send" \in Faults
  BY DEF Told
<1>2. ASSUME UNCHANGED <<pc, held>>
      PROVE  /\ pc'[w] \in {"sent", "complete"} => inbox'[Job(w)'].video > 0
             /\ pc'[w] = "markFailed"
                  => inbox'[Job(w)'].failed > 0 \/ "send" \in Faults
  <2>1. UNCHANGED <<pc[w], held[w]>>
    BY <1>2
  <2>2. pc[w] \in {"sent", "complete", "markFailed"} => Job(w) \in Jobs
    BY HeldJob DEF Busy, TruthInv
  <2>3. QED
    BY <2>1, <2>2, GrownInbox DEF TruthInv, Told, Job
<1>3. CASE WorkerStep(w)
  <2>1. ASSUME pc[w] = "sent", held'[w] = held[w] PROVE inbox'[Job(w)].video > 0
    <3>1. Job(w) \in Jobs /\ inbox[Job(w)].video > 0
      BY <2>1, HeldJob DEF Busy, TruthInv, Told
    <3>2. QED
      BY <3>1, GrownInbox
  <2>2. held'[w] = held[w] => Job(w)' = Job(w)
    BY DEF Job
  <2>3. QED
    BY <1>3, <2>1, <2>2, ToldBefore DEF TruthInv
<1>4. ASSUME NEW v \in Workers \ {w}, WorkerStep(v)
      PROVE  /\ pc'[w] \in {"sent", "complete"} => inbox'[Job(w)'].video > 0
             /\ pc'[w] = "markFailed"
                  => inbox'[Job(w)'].failed > 0 \/ "send" \in Faults
  <2>1. UNCHANGED <<pc[w], held[w]>>
    BY <1>4, OthersStay DEF TruthInv
  <2>2. pc[w] \in {"sent", "complete", "markFailed"} => Job(w) \in Jobs
    BY HeldJob DEF Busy, TruthInv
  <2>3. QED
    BY <2>1, <2>2, GrownInbox DEF TruthInv, Told, Job
<1>5. CASE Crash \/ Exit \/ Restart
  BY <1>5 DEF Crash, Exit, CutOff, Restart
<1>6. CASE Shutdown \/ UNCHANGED vars
  BY <1>2, <1>6 DEF Shutdown, workerVars, vars
<1>7. ASSUME NEW j \in Jobs, Greet(j) \/ HandlerStep(j)
      PROVE  UNCHANGED <<pc, held>>
  BY <1>7 DEF HandlerStep, Greet, CreateRecord, CreateFails, Push,
              PushUnacknowledged, Enqueue, PushFails, workerVars
<1>8. QED
  BY <1>2, <1>3, <1>4, <1>5, <1>6, <1>7 DEF Next

LEMMA StepTruth == TruthInv /\ [Next]_vars => TruthInv'
<1> SUFFICES ASSUME TruthInv, [Next]_vars PROVE TruthInv'
  OBVIOUS
<1>1. TypeInv' /\ Told'
  BY StepType, StepTold DEF TruthInv
<1>2. RecordTruthful'
  <2> SUFFICES ASSUME NEW j \in Jobs
               PROVE  /\ record'[j] = "completed" => inbox'[j].video > 0
                      /\ record'[j] = "failed" => inbox'[j].failed > 0 \/ "send" \in Faults
    BY DEF RecordTruthful
  <2>1. /\ record'[j] = "completed" => inbox[j].video > 0
        /\ record'[j] = "failed" => inbox[j].failed > 0 \/ "send" \in Faults
    BY RowFinished DEF TruthInv, RecordTruthful, Told
  <2>2. QED
    BY <2>1, GrownInbox
<1>3. QED
  BY <1>1, <1>2 DEF TruthInv

(* The status of a row is never ahead of what the user has been told.      *)
THEOREM RowsTruthful == Spec => []RecordTruthful
<1>1. Init => TruthInv
  <2>1. Init => RecordTruthful /\ Told
    BY DEF Init, RecordTruthful, Told
  <2>2. QED
    BY <2>1, InitType DEF TruthInv
<1>2. TruthInv => RecordTruthful
  BY DEF TruthInv
<1>3. QED
  BY <1>1, <1>2, StepTruth, PTL DEF Spec

-----------------------------------------------------------------------------
(* Isolation of directories: each only ever holds videos fetched for it.   *)
AtHome == \A d \in Dirs : \A f \in Files : disk[d][f] # None => Dir[disk[d][f]] = d

HomeInv == TypeInv /\ NoForeignVideo /\ AtHome

LEMMA RemoveAtHome ==
  ASSUME HomeInv, NEW d \in Dirs, NEW f \in Files, Remove(d, f)
  PROVE  AtHome'
<1>1. disk \in [Dirs -> [Files -> Jobs \cup {None}]]
  BY DEF HomeInv, TypeInv, TypeOK
<1>2. \A x \in Dirs : \A g \in Files : disk'[x][g] = disk[x][g] \/ disk'[x][g] = None
  BY <1>1 DEF Remove
<1>3. QED
  BY <1>2 DEF HomeInv, AtHome

LEMMA FetchedAtHome ==
  ASSUME HomeInv, NEW w \in Workers, pc[w] \in Busy, Fetched(w)
  PROVE  AtHome'
<1> DEFINE d == HeldDir(w)
           f == File[Job(w)]
           j == Job(w)
<1>1. d \in Dirs /\ f \in Files /\ j \in Jobs
  BY HeldJob DEF HomeInv
<1>2. Dir[j] = d
  BY DEF HeldDir
<1>3. disk' = [disk EXCEPT ![d][f] = j]
  BY DEF Fetched
<1> HIDE DEF d, f, j
<1>4. disk \in [Dirs -> [Files -> Jobs \cup {None}]]
  BY DEF HomeInv, TypeInv, TypeOK
<1>5. \A x \in Dirs : \A g \in Files :
        disk'[x][g] = disk[x][g] \/ (x = d /\ disk'[x][g] = j)
  BY <1>1, <1>3, <1>4
<1>6. QED
  BY <1>2, <1>5 DEF HomeInv, AtHome

LEMMA DeliverAtHome ==
  ASSUME HomeInv, NEW w \in Workers, Deliver(w) \/ DeliverUnacknowledged(w),
         FileOf(w) # None,
         pc[w] \in PathUsed
  PROVE  NoForeignVideo'
<1> DEFINE j == Job(w)
           k == FileOf(w)
<1>1. j \in Jobs /\ HeldDir(w) \in Dirs /\ path[w] \in Files
  BY HeldJob DEF HomeInv, TypeInv, WorkerInv, Busy, PathUsed
<1>2. Dir[k] = Dir[j]
  BY <1>1 DEF HomeInv, AtHome, FileOf, HeldDir
<1>3. contents' = [contents EXCEPT ![j] = @ \cup {k}]
  BY DEF Deliver, DeliverUnacknowledged
<1> HIDE DEF j, k
<1>4. contents \in [Jobs -> SUBSET Jobs]
  BY DEF HomeInv, TypeInv, TypeOK
<1>5. \A x \in Jobs : \A y \in contents'[x] : y \in contents[x] \/ (x = j /\ y = k)
  BY <1>1, <1>3, <1>4
<1>6. QED
  BY <1>2, <1>5 DEF HomeInv, NoForeignVideo

LEMMA StepHome == HomeInv /\ [Next]_vars => HomeInv'
<1> SUFFICES ASSUME HomeInv, [Next]_vars PROVE NoForeignVideo' /\ AtHome'
  BY StepType DEF HomeInv
<1>1. UNCHANGED contents => NoForeignVideo'
  BY DEF HomeInv, NoForeignVideo
<1>2. UNCHANGED disk => AtHome'
  BY DEF HomeInv, AtHome
<1>3. ASSUME NEW w \in Workers, pc[w] \in PathUsed
      PROVE  HeldDir(w) \in Dirs /\ path[w] \in Files
  BY <1>3, HeldJob DEF HomeInv, TypeInv, WorkerInv, Busy, PathUsed
<1>4. ASSUME NEW w \in Workers, WorkerStep(w) PROVE NoForeignVideo' /\ AtHome'
  <2>1. CASE Download(w) \/ DownloadFails(w)
    BY <1>1, <1>2, <2>1, FetchedAtHome DEF Download, DownloadFails, Busy, userVars
  <2>2. CASE RejectTooLarge(w) \/ TransportCleanup(w) \/ Discard(w)
    BY <1>1, <1>3, <2>2, RemoveAtHome
       DEF RejectTooLarge, TransportCleanup, Discard, userVars, PathUsed
  <2>3. CASE SendVideo(w)
    BY <1>2, <2>3, DeliverAtHome DEF SendVideo, PathUsed
  <2>4. CASE SendVideoFails(w)
    BY <1>1, <1>2, <2>4, DeliverAtHome DEF SendVideoFails, userVars, PathUsed
  <2>5. CASE ~(\/ Download(w) \/ DownloadFails(w) \/ RejectTooLarge(w)
               \/ TransportCleanup(w) \/ Discard(w) \/ SendVideo(w) \/ SendVideoFails(w))
    BY <1>1, <1>2, <1>4, <2>5
       DEF WorkerStep, Loop, Pop, PopFails, Begin, Launch, NoFileFound, FindFile,
           StatFails, AcceptSize, MarkCompleted, ReportFailure, MarkFailed,
           userVars
  <2>6. QED
    BY <2>1, <2>2, <2>3, <2>4, <2>5
<1>5. ASSUME NEW j \in Jobs, Greet(j) \/ HandlerStep(j) PROVE UNCHANGED <<disk, contents>>
  BY <1>5 DEF HandlerStep, Greet, CreateRecord, CreateFails, Push,
              PushUnacknowledged, Enqueue, PushFails, userVars
<1>6. CASE Crash \/ Exit \/ Shutdown \/ Restart \/ UNCHANGED vars
  BY <1>1, <1>2, <1>6 DEF Crash, Exit, CutOff, Shutdown, Restart, userVars, vars
<1>7. QED
  BY <1>1, <1>2, <1>4, <1>5, <1>6 DEF Next

(* A user only receives videos fetched for the directory of the user's own *)
(* job, however many workers use it, whatever they remove under each other *)
(* and whatever crashes and failed downloads have left in it.              *)
THEOREM Isolation == Spec => []NoForeignVideo
<1>1. Init => HomeInv
  <2>1. Init => NoForeignVideo /\ AtHome
    BY DEF Init, NoForeignVideo, AtHome
  <2>2. QED
    BY <2>1, InitType DEF HomeInv
<1>2. HomeInv => NoForeignVideo
  BY DEF HomeInv
<1>3. QED
  BY <1>1, <1>2, StepHome, PTL DEF Spec

-----------------------------------------------------------------------------
(* What the pushes bound.  Each answer, upload and row is the work of one  *)
(* copy of a job, at one attempt: to each that has been given belongs a    *)
(* copy (or a copy and an attempt) that has been spent, and no two share   *)
(* one.                                                                    *)

(* An entry that is neither waiting nor worked on any more.                *)
ClosedFates == {"delivered", "failed", "lost"}
Closed(e) == fate[e] \in ClosedFates

CopyOf(j, c) == [job |-> j, copy |-> c]

(* The copies of j that may have been answered ...                         *)
Given == {"sent", "complete", "markFailed"}

SpentEntry(e) == Closed(e) \/ \E w \in Workers : held[w] = e /\ pc[w] \in Given

Spent(j) == {c \in 1..pushed[j] : SpentEntry(CopyOf(j, c))}

(* ... and their attempts that have come past a point of executeDownload.  *)
AfterUpload == {"sent", "unsent", "discard", "complete", "report", "markFailed"}
AfterRow == AfterUpload \cup {"send"}

UsedAttempt(e, a, points) ==
    \/ Closed(e)
    \/ \E w \in Workers :
          /\ held[w] = e
          /\ a < attempt[w] \/ (a = attempt[w] /\ pc[w] \in points)

Used(j, points) ==
    {x \in (1..pushed[j]) \X (0..MaxRetries) : UsedAttempt(CopyOf(j, x[1]), x[2], points)}

(* The copies of j with a row in downloads and no upload yet.              *)
SendingEntry(e) == \E w \in Workers : held[w] = e /\ pc[w] = "send"

Sending(j) == {c \in 1..pushed[j] : SendingEntry(CopyOf(j, c))}

(* A worker counts its attempts from zero.                                 *)
FreshStart == \A w \in Workers : pc[w] \in Idle \cup {"begin"} => attempt[w] = 0

AnswersFit(j) == inbox[j].video + inbox[j].failed <= Cardinality(Spent(j)) + inbox[j].unacked
UploadsFit(j) == inbox[j].video + inbox[j].tooLarge <= Cardinality(Used(j, AfterUpload))
Inserts(j) == rows[j].completed + rows[j].dropped
RowsFit(j) == Inserts(j) <= Cardinality(Used(j, AfterRow))
RowsFirst(j) == inbox[j].video + Cardinality(Sending(j)) <= Inserts(j)

CountsFit == \A j \in Jobs : AnswersFit(j) /\ UploadsFit(j) /\ RowsFit(j) /\ RowsFirst(j)

CountInv == ConservationInv /\ FreshStart /\ CountsFit

(* A set that grows has no fewer elements, and with a new one more.        *)
LEMMA Grow ==
  ASSUME NEW S, NEW T, IsFiniteSet(T), S \subseteq T
  PROVE  /\ Cardinality(S) \in Nat /\ Cardinality(T) \in Nat
         /\ Cardinality(S) <= Cardinality(T)
         /\ \A x \in T \ S : Cardinality(S) + 1 <= Cardinality(T)
<1>1. /\ IsFiniteSet(S)
      /\ Cardinality(S) \in Nat /\ Cardinality(T) \in Nat
      /\ Cardinality(S) <= Cardinality(T)
      /\ Cardinality(S) = Cardinality(T) => S = T
  BY FS_Subset, FS_CardinalityType
<1>2. \A x \in T \ S : Cardinality(S) # Cardinality(T)
  BY <1>1
<1> QED BY <1>1, <1>2

LEMMA CopyFacts ==
  /\ \A e \in Entry : e.job \in Jobs /\ e.copy \in 1..Copies /\ e = CopyOf(e.job, e.copy)
  /\ \A j \in Jobs, c \in 1..Copies :
        CopyOf(j, c) \in Entry /\ CopyOf(j, c).job = j /\ CopyOf(j, c).copy = c
BY DEF Entry, CopyOf

(* No job is pushed more often than its copies are numbered, so the counts *)
(* are finite and bounded.                                                 *)
FiniteCounts ==
    \A j \in Jobs, points \in {AfterUpload, AfterRow} :
        /\ pushed[j] \in Nat
        /\ IsFiniteSet(Spent(j)) /\ Cardinality(Spent(j)) \in Nat
        /\ Cardinality(Spent(j)) <= pushed[j]
        /\ IsFiniteSet(Sending(j)) /\ Cardinality(Sending(j)) \in Nat
        /\ IsFiniteSet(Used(j, points)) /\ Cardinality(Used(j, points)) \in Nat
        /\ Cardinality(Used(j, points)) <= (MaxRetries + 1) * pushed[j]

LEMMA Finite == TypeInv => FiniteCounts
<1> SUFFICES ASSUME TypeInv, NEW j \in Jobs, NEW points \in {AfterUpload, AfterRow}
             PROVE  /\ pushed[j] \in Nat
                    /\ IsFiniteSet(Spent(j)) /\ Cardinality(Spent(j)) \in Nat
                    /\ Cardinality(Spent(j)) <= pushed[j]
                    /\ IsFiniteSet(Sending(j)) /\ Cardinality(Sending(j)) \in Nat
                    /\ IsFiniteSet(Used(j, points)) /\ Cardinality(Used(j, points)) \in Nat
                    /\ Cardinality(Used(j, points)) <= (MaxRetries + 1) * pushed[j]
  BY DEF FiniteCounts
<1>1. pushed[j] \in Nat /\ pushed[j] <= Copies
  BY ConstantFacts DEF TypeInv, TypeOK
<1>2. IsFiniteSet(1..pushed[j]) /\ Cardinality(1..pushed[j]) = pushed[j]
  <2> DEFINE n == pushed[j]
  <2> HIDE DEF n
  <2>1. ASSUME NEW m \in Nat PROVE IsFiniteSet(1..m) /\ Cardinality(1..m) = m
    BY FS_Interval, <2>1
  <2> QED BY <1>1, <2>1
<1>3. IsFiniteSet(0..MaxRetries) /\ Cardinality(0..MaxRetries) = MaxRetries + 1
  BY FS_Interval, ConstantFacts
<1>4. /\ IsFiniteSet((1..pushed[j]) \X (0..MaxRetries))
      /\ Cardinality((1..pushed[j]) \X (0..MaxRetries)) = pushed[j] * (MaxRetries + 1)
  <2> DEFINE A == 1..pushed[j]
             B == 0..MaxRetries
  <2>1. IsFiniteSet(A) /\ IsFiniteSet(B) /\ Cardinality(A) = pushed[j]
        /\ Cardinality(B) = MaxRetries + 1
    BY <1>2, <1>3
  <2> HIDE DEF A, B
  <2>2. IsFiniteSet(A \X B) /\ Cardinality(A \X B) = Cardinality(A) * Cardinality(B)
    BY <2>1, FS_Product
  <2>3. IsFiniteSet(A \X B) /\ Cardinality(A \X B) = pushed[j] * (MaxRetries + 1)
    BY <2>1, <2>2
  <2> QED BY <2>3 DEF A, B
<1>5. /\ Spent(j) \subseteq 1..pushed[j] /\ Sending(j) \subseteq 1..pushed[j]
      /\ Used(j, points) \subseteq (1..pushed[j]) \X (0..MaxRetries)
  BY DEF Spent, Sending, Used
<1>6. /\ IsFiniteSet(Spent(j)) /\ Cardinality(Spent(j)) \in Nat
      /\ Cardinality(Spent(j)) <= pushed[j]
      /\ IsFiniteSet(Sending(j)) /\ Cardinality(Sending(j)) \in Nat
  BY <1>2, <1>5, FS_Subset, FS_CardinalityType
<1>7. /\ IsFiniteSet(Used(j, points)) /\ Cardinality(Used(j, points)) \in Nat
      /\ Cardinality(Used(j, points)) <= pushed[j] * (MaxRetries + 1)
  BY <1>4, <1>5, FS_Subset, FS_CardinalityType
<1>8. pushed[j] * (MaxRetries + 1) = (MaxRetries + 1) * pushed[j]
  BY <1>1, ConstantFacts
<1> QED BY <1>1, <1>6, <1>7, <1>8

LEMMA FiniteNext == TypeInv' => FiniteCounts'
BY Finite, PTL

(* The entry in a worker's hands: nobody else holds it, it is still open,  *)
(* and it is one of the copies that have been pushed.                      *)
LEMMA InHands ==
  ASSUME ConservationInv, NEW w \in Workers, held[w] # None
  PROVE  /\ held[w] \in Entry /\ Job(w) \in Jobs
         /\ held[w] = CopyOf(Job(w), held[w].copy)
         /\ held[w].copy \in 1..pushed[Job(w)]
         /\ fate[held[w]] = "open"
         /\ \A v \in Workers : held[v] = held[w] => v = w
<1>1. held[w] \in Entry
  BY DEF ConservationInv, TypeInv, TypeOK
<1>2. fate[held[w]] = "open" /\ \A v \in Workers : held[v] = held[w] => v = w
  BY <1>1 DEF ConservationInv, EntryConservation
<1>3. /\ held[w].job \in Jobs /\ held[w].copy \in 1..Copies
      /\ held[w] = CopyOf(held[w].job, held[w].copy)
  BY <1>1, CopyFacts
<1>4. ~(held[w].copy > pushed[held[w].job])
  BY <1>1, <1>2 DEF ConservationInv, Numbered
<1>5. pushed[held[w].job] \in 0..Copies
  BY <1>3 DEF ConservationInv, TypeInv, TypeOK
<1> QED BY <1>1, <1>2, <1>3, <1>4, <1>5, ConstantFacts DEF Job

(* The steps of a worker that keep its job in hand, and the one that ends. *)
Working(w) ==
    \/ Begin(w) \/ Launch(w) \/ Download(w) \/ DownloadFails(w) \/ NoFileFound(w)
    \/ FindFile(w) \/ StatFails(w) \/ RejectTooLarge(w) \/ AcceptSize(w)
    \/ SendVideo(w) \/ SendVideoFails(w) \/ TransportCleanup(w) \/ Discard(w)
    \/ ReportFailure(w)

Settling(w) == MarkCompleted(w) \/ MarkFailed(w)

LEMMA WorkerKinds ==
  ASSUME NEW w \in Workers, WorkerStep(w)
  PROVE  Loop(w) \/ Pop(w) \/ PopFails(w) \/ Working(w) \/ Settling(w)
BY DEF WorkerStep, Working, Settling

LEMMA WorkingStays ==
  ASSUME NEW w \in Workers, Working(w)
  PROVE  /\ pc[w] \in Busy
         /\ UNCHANGED <<proc, handler, redis, pushed, held, fate>>
BY DEF Working, Begin, Launch, Download, DownloadFails, NoFileFound, FindFile, StatFails,
       RejectTooLarge, AcceptSize, SendVideo, SendVideoFails, TransportCleanup, Discard,
       ReportFailure, Busy, requestVars

LEMMA OthersAttempts ==
  ASSUME TypeInv, NEW w \in Workers, WorkerStep(w), NEW v \in Workers \ {w}
  PROVE  attempt'[v] = attempt[v]
  BY DEF WorkerStep, Loop, Pop, PopFails, Begin, Launch, Download, DownloadFails,
         NoFileFound, FindFile, StatFails, RejectTooLarge, AcceptSize, SendVideo,
         SendVideoFails, TransportCleanup, Discard, MarkCompleted, ReportFailure,
         MarkFailed, RetryOrGiveUp, Settle, TypeInv, TypeOK

(* A worker on a job goes forward: to the next attempt, or past more       *)
(* points of the same one.                                                 *)
LEMMA Forward ==
  ASSUME TypeInv, FreshStart, NEW w \in Workers, Working(w)
  PROVE  /\ attempt[w] \in 0..MaxRetries /\ attempt'[w] \in 0..MaxRetries
         /\ pc[w] \in Given => pc'[w] \in Given
         /\ pc'[w] # "begin" /\ pc'[w] \notin Idle
         /\ \/ attempt'[w] > attempt[w]
            \/ /\ attempt'[w] = attempt[w]
               /\ pc[w] \in AfterUpload => pc'[w] \in AfterUpload
               /\ pc[w] \in AfterRow => pc'[w] \in AfterRow
<1> USE DEF Given, AfterUpload, AfterRow, Idle
<1>1. /\ pc \in [Workers -> Idle \cup Busy]
      /\ attempt \in [Workers -> 0..MaxRetries] /\ attempt[w] \in 0..MaxRetries
  BY DEF TypeInv, TypeOK
<1>2. ASSUME RetryOrGiveUp(w), pc[w] \in Busy \ {"sent", "complete", "markFailed"}
      PROVE  /\ attempt'[w] \in 0..MaxRetries
             /\ pc'[w] \in {"start", "report"}
             /\ attempt'[w] > attempt[w] \/ (attempt'[w] = attempt[w] /\ pc'[w] = "report")
  BY <1>1, <1>2, ConstantFacts DEF RetryOrGiveUp, Goto
<1>3. CASE Begin(w)
  <2>1. attempt[w] = 0 /\ attempt'[w] = 0
    BY <1>1, <1>3 DEF Begin, FreshStart
  <2> QED BY <1>1, <1>3, <2>1, ConstantFacts DEF Begin, Goto
<1>4. CASE DownloadFails(w) \/ NoFileFound(w) \/ StatFails(w) \/ RejectTooLarge(w) \/ Discard(w)
  <2>1. RetryOrGiveUp(w) /\ pc[w] \in {"start", "ytdlp", "find", "stat", "discard"}
    BY <1>4 DEF DownloadFails, NoFileFound, StatFails, RejectTooLarge, Discard
  <2> QED BY <1>1, <1>2, <2>1 DEF Busy
<1>5. CASE Launch(w) \/ Download(w) \/ FindFile(w) \/ AcceptSize(w)
  <2>1. /\ attempt'[w] = attempt[w]
        /\ pc[w] \in {"start", "ytdlp", "find", "stat"}
        /\ pc'[w] \in {"ytdlp", "find", "stat", "send"}
    BY <1>1, <1>5 DEF Launch, Download, FindFile, AcceptSize, Goto
  <2> QED BY <1>1, <2>1
<1>6. CASE SendVideo(w) \/ SendVideoFails(w) \/ TransportCleanup(w) \/ ReportFailure(w)
  <2>1. /\ attempt'[w] = attempt[w]
        /\ \/ pc[w] = "send" /\ pc'[w] \in {"sent", "unsent", "discard"}
           \/ pc[w] = "sent" /\ pc'[w] = "complete"
           \/ pc[w] = "unsent" /\ pc'[w] = "discard"
           \/ pc[w] = "report" /\ pc'[w] = "markFailed"
    BY <1>1, <1>6 DEF SendVideo, SendVideoFails, TransportCleanup, ReportFailure, Goto
  <2> QED BY <1>1, <2>1
<1> QED BY <1>3, <1>4, <1>5, <1>6 DEF Working

LEMMA StepFresh == TypeInv /\ FreshStart /\ [Next]_vars => FreshStart'
<1> SUFFICES ASSUME TypeInv, FreshStart, [Next]_vars, NEW w \in Workers,
                    pc'[w] \in Idle \cup {"begin"}
             PROVE  attempt'[w] = 0
  BY DEF FreshStart
<1>1. UNCHANGED <<pc, attempt>> => attempt'[w] = 0
  BY DEF FreshStart
<1>2. ASSUME NEW v \in Workers, WorkerStep(v) PROVE attempt'[w] = 0
  <2>1. CASE v # w
    <3>1. pc'[w] = pc[w] /\ attempt'[w] = attempt[w]
      BY <1>2, <2>1, OthersStay, OthersAttempts
    <3> QED BY <3>1 DEF FreshStart
  <2>2. CASE v = w /\ Working(w)
    BY <2>2, Forward
  <2>3. CASE v = w /\ Settling(w)
    BY <2>3 DEF Settling, MarkCompleted, MarkFailed, Settle, TypeInv, TypeOK
  <2>4. CASE v = w /\ (Loop(w) \/ Pop(w) \/ PopFails(w))
    <3>1. pc[w] \in Idle /\ attempt' = attempt
      BY <2>4 DEF Loop, Pop, PopFails, Idle
    <3> QED BY <3>1 DEF FreshStart
  <2> QED BY <1>2, <2>1, <2>2, <2>3, <2>4, WorkerKinds
<1>3. CASE Crash \/ Exit
  BY <1>3 DEF Crash, Exit, CutOff
<1>4. CASE Restart
  <2>1. pc[w] = "off" /\ attempt' = attempt
    BY <1>4 DEF Restart, TypeInv, WorkerInv
  <2> QED BY <2>1 DEF FreshStart, Idle
<1>5. CASE Shutdown \/ UNCHANGED vars
  BY <1>1, <1>5 DEF Shutdown, workerVars, vars
<1>6. ASSUME NEW j \in Jobs, Greet(j) \/ HandlerStep(j) PROVE UNCHANGED <<pc, attempt>>
  BY <1>6 DEF HandlerStep, Greet, CreateRecord, CreateFails, Push,
              PushUnacknowledged, Enqueue, PushFails, workerVars
<1> QED BY <1>1, <1>2, <1>3, <1>4, <1>5, <1>6 DEF Next

(* A closed entry stays closed, a held one stays in the same hands or is   *)
(* closed, and the copies pushed grow.                                     *)
LEMMA EntriesStay ==
  ASSUME ConservationInv, [Next]_vars
  PROVE  /\ \A e \in Entry : Closed(e) => fate'[e] = fate[e]
         /\ \A w \in Workers : held[w] # None => held'[w] = held[w] \/ fate'[held[w]] \in ClosedFates
         /\ \A j \in Jobs : /\ pushed'[j] \in Nat /\ pushed[j] \in Nat
                            /\ pushed[j] <= pushed'[j] /\ pushed'[j] <= Copies
<1>1. /\ fate \in [Entry -> Fates] /\ pushed \in [Jobs -> 0..Copies]
      /\ redis \in Seq(Entry) /\ held \in [Workers -> Entry \cup {None}]
  BY DEF ConservationInv, TypeInv, TypeOK
<1>2. pushed' \in [Jobs -> 0..Copies]
  BY StepType DEF ConservationInv, TypeInv, TypeOK
<1>3. ASSUME UNCHANGED <<fate, held>>
      PROVE  /\ \A e \in Entry : Closed(e) => fate'[e] = fate[e]
             /\ \A w \in Workers : held[w] # None => held'[w] = held[w] \/ fate'[held[w]] \in ClosedFates
  BY <1>3
<1>4. ASSUME NEW j \in Jobs, Enqueue(j)
      PROVE  /\ \A e \in Entry : Closed(e) => fate'[e] = fate[e]
             /\ held' = held
             /\ \A k \in Jobs : pushed[k] <= pushed'[k]
  <2> DEFINE x == [job |-> j, copy |-> pushed[j] + 1]
  <2>1. /\ fate' = [fate EXCEPT ![x] = "open"]
        /\ pushed' = [pushed EXCEPT ![j] = @ + 1]
        /\ held' = held
    BY <1>4 DEF Enqueue, workerVars
  <2>2. x.copy > pushed[x.job] /\ x \in Entry
    BY <1>1, <1>4, ConstantFacts DEF Enqueue, Entry
  <2> HIDE DEF x
  <2>3. fate[x] = "absent"
    BY <2>2 DEF ConservationInv, Numbered
  <2>4. \A e \in Entry : e # x => fate'[e] = fate[e]
    BY <1>1, <2>1
  <2> QED BY <1>1, <2>1, <2>3, <2>4, ConstantFacts DEF Closed, ClosedFates
<1>5. ASSUME NEW j \in Jobs, Greet(j) \/ HandlerStep(j)
      PROVE  \/ Enqueue(j)
             \/ UNCHANGED <<fate, held, pushed>>
  BY <1>5 DEF HandlerStep, Greet, CreateRecord, CreateFails, Push,
              PushUnacknowledged, PushFails, workerVars
<1>6. ASSUME NEW w \in Workers, Settling(w)
      PROVE  /\ pushed' = pushed
             /\ \A e \in Entry : Closed(e) => fate'[e] = fate[e]
             /\ \A v \in Workers : held[v] # None => held'[v] = held[v] \/ fate'[held[v]] \in ClosedFates
  <2>1. PICK verdict \in {"delivered", "failed"} : Settle(w, verdict)
    BY <1>6 DEF Settling, MarkCompleted, MarkFailed
  <2>2. pc[w] \in Busy /\ pushed' = pushed
    BY <1>6 DEF Settling, MarkCompleted, MarkFailed, Busy, requestVars
  <2>3. held[w] \in Entry /\ held[w] # None /\ fate[held[w]] = "open"
    BY <2>2, InHands, ConstantFacts DEF ConservationInv, TypeInv, WorkerInv
  <2>4. /\ fate' = [fate EXCEPT ![held[w]] = verdict] /\ fate'[held[w]] = verdict
        /\ held' = [held EXCEPT ![w] = None]
    BY <1>1, <2>1, <2>3 DEF Settle
  <2> QED BY <1>1, <2>1, <2>2, <2>3, <2>4 DEF Closed, ClosedFates
<1>7. ASSUME NEW w \in Workers, PopFails(w)
      PROVE  /\ UNCHANGED <<pushed, held>>
             /\ \A e \in Entry : Closed(e) => fate'[e] = fate[e]
  <2>1. CASE UNCHANGED fate
    BY <1>7, <2>1 DEF PopFails, requestVars
  <2>2. CASE redis # <<>> /\ fate' = [fate EXCEPT ![Head(redis)] = "lost"]
    <3>1. Head(redis) \in Entry /\ 1 \in DOMAIN redis /\ redis[1] = Head(redis)
      BY <1>1, <2>2
    <3>2. fate[Head(redis)] = "open"
      BY <3>1 DEF ConservationInv, EntryConservation, Queued
    <3>3. UNCHANGED <<pushed, held>>
      BY <1>7 DEF PopFails, requestVars
    <3> QED BY <1>1, <2>2, <3>1, <3>2, <3>3 DEF Closed, ClosedFates
  <2> QED BY <1>7, <2>1, <2>2 DEF PopFails
<1>8. ASSUME NEW w \in Workers, Loop(w) \/ Pop(w)
      PROVE  /\ UNCHANGED <<pushed, fate>>
             /\ \A v \in Workers : held[v] # None => held'[v] = held[v]
  <2>1. UNCHANGED <<pushed, fate>> /\ held[w] = None
    BY <1>8 DEF Loop, Pop, requestVars, ConservationInv, TypeInv, WorkerInv, Idle
  <2> QED BY <1>1, <1>8, <2>1 DEF Loop, Pop
<1>9. CASE CutOff
  <2>1. \A e \in Entry : Closed(e) => \A w \in Workers : held[w] # e
    BY InHands, ConstantFacts DEF Closed, ClosedFates
  <2>2. \A w \in Workers : held[w] # None => fate'[held[w]] = "lost"
    BY <1>1, <1>9 DEF CutOff
  <2>3. \A e \in Entry : Closed(e) => fate'[e] = fate[e]
    BY <1>9, <2>1 DEF CutOff
  <2>4. pushed' = pushed
    BY <1>9 DEF CutOff
  <2> QED BY <1>1, <1>2, <2>2, <2>3, <2>4 DEF ClosedFates
<1>10. CASE Shutdown \/ Restart \/ UNCHANGED vars
  <2>1. UNCHANGED <<fate, held, pushed>>
    BY <1>10 DEF Shutdown, Restart, requestVars, workerVars, vars
  <2> QED BY <1>1, <1>3, <2>1
<1>11. ASSUME NEW w \in Workers, WorkerStep(w)
       PROVE  /\ pushed' = pushed
              /\ \A e \in Entry : Closed(e) => fate'[e] = fate[e]
              /\ \A v \in Workers : held[v] # None => held'[v] = held[v] \/ fate'[held[v]] \in ClosedFates
  BY <1>3, <1>6, <1>7, <1>8, <1>11, WorkerKinds, WorkingStays
<1>12. /\ \A e \in Entry : Closed(e) => fate'[e] = fate[e]
       /\ \A w \in Workers : held[w] # None => held'[w] = held[w] \/ fate'[held[w]] \in ClosedFates
  BY <1>3, <1>4, <1>5, <1>9, <1>10, <1>11 DEF Next, Crash, Exit
<1>13. \A k \in Jobs : pushed[k] <= pushed'[k]
  <2>1. UNCHANGED pushed => \A k \in Jobs : pushed[k] <= pushed'[k]
    BY <1>1
  <2>2. CASE CutOff \/ Shutdown \/ Restart \/ UNCHANGED vars
    BY <2>1, <2>2 DEF CutOff, Shutdown, Restart, requestVars, vars
  <2> QED BY <1>4, <1>5, <1>11, <2>1, <2>2 DEF Next, Crash, Exit
<1>14. \A k \in Jobs : pushed[k] \in Nat /\ pushed'[k] \in Nat /\ pushed'[k] <= Copies
  BY <1>1, <1>2, ConstantFacts
<1> QED BY <1>12, <1>13, <1>14

(* A worker that keeps its entry through a step only goes forward.         *)
LEMMA KeptForward ==
  ASSUME ConservationInv, FreshStart, [Next]_vars, NEW w \in Workers, held[w] # None,
         held'[w] = held[w]
  PROVE  /\ attempt[w] \in 0..MaxRetries /\ attempt'[w] \in 0..MaxRetries
         /\ pc[w] \in Given => pc'[w] \in Given
         /\ \/ attempt'[w] > attempt[w]
            \/ /\ attempt'[w] = attempt[w]
               /\ pc[w] \in AfterUpload => pc'[w] \in AfterUpload
               /\ pc[w] \in AfterRow => pc'[w] \in AfterRow
<1>1. TypeInv /\ pc[w] \notin Idle /\ attempt[w] \in 0..MaxRetries
  BY DEF ConservationInv, TypeInv, TypeOK, WorkerInv
<1>2. ASSUME pc'[w] = pc[w], attempt'[w] = attempt[w]
      PROVE  /\ attempt'[w] \in 0..MaxRetries
             /\ pc[w] \in Given => pc'[w] \in Given
             /\ attempt'[w] = attempt[w]
             /\ pc[w] \in AfterUpload => pc'[w] \in AfterUpload
             /\ pc[w] \in AfterRow => pc'[w] \in AfterRow
  BY <1>1, <1>2
<1>3. ASSUME NEW v \in Workers, WorkerStep(v), v # w
      PROVE  pc'[w] = pc[w] /\ attempt'[w] = attempt[w]
  BY <1>1, <1>3, OthersStay, OthersAttempts
<1>4. WorkerStep(w) => Working(w)
  <2>1. Settling(w) => held'[w] = None
    BY <1>1 DEF Settling, MarkCompleted, MarkFailed, Settle, TypeInv, TypeOK
  <2>2. ~(Loop(w) \/ Pop(w) \/ PopFails(w))
    BY <1>1 DEF Loop, Pop, PopFails, Idle
  <2> QED BY <2>1, <2>2, WorkerKinds
<1>5. ASSUME NEW j \in Jobs, Greet(j) \/ HandlerStep(j)
      PROVE  pc'[w] = pc[w] /\ attempt'[w] = attempt[w]
  BY <1>5 DEF HandlerStep, Greet, CreateRecord, CreateFails, Push,
              PushUnacknowledged, Enqueue, PushFails, workerVars
<1>6. ~(Crash \/ Exit)
  BY DEF Crash, Exit, CutOff
<1>7. ~Restart
  BY <1>1 DEF Restart, TypeInv, WorkerInv, Idle
<1>8. Shutdown \/ UNCHANGED vars => pc'[w] = pc[w] /\ attempt'[w] = attempt[w]
  BY DEF Shutdown, workerVars, vars
<1> QED BY <1>1, <1>2, <1>3, <1>4, <1>5, <1>6, <1>7, <1>8, Forward DEF Next

(* So what has been spent stays spent.                                     *)
LEMMA SpentGrows ==
  ASSUME ConservationInv, FreshStart, [Next]_vars, NEW j \in Jobs,
         NEW points \in {AfterUpload, AfterRow}
  PROVE  /\ Spent(j) \subseteq Spent(j)'
         /\ Used(j, points) \subseteq Used(j, points)'
<1>1. 1..pushed[j] \subseteq 1..pushed'[j] /\ 1..pushed[j] \subseteq 1..Copies
  BY EntriesStay, ConstantFacts
<1>2. ASSUME NEW c \in 1..pushed[j] PROVE CopyOf(j, c) \in Entry
  BY <1>1, CopyFacts
<1>3. ASSUME NEW e \in Entry, Closed(e) PROVE Closed(e)'
  BY <1>3, EntriesStay DEF Closed
<1>4. ASSUME NEW e \in Entry, SpentEntry(e) PROVE SpentEntry(e)'
  <2>1. CASE Closed(e)
    BY <1>3, <2>1 DEF SpentEntry
  <2>2. CASE \E w \in Workers : held[w] = e /\ pc[w] \in Given
    <3>1. PICK w \in Workers : held[w] = e /\ pc[w] \in Given
      BY <2>2
    <3>2. held[w] # None
      BY <3>1, ConstantFacts
    <3>3. CASE held'[w] = held[w]
      BY <3>1, <3>2, <3>3, KeptForward DEF SpentEntry
    <3>4. CASE fate'[e] \in ClosedFates
      BY <3>4 DEF SpentEntry, Closed
    <3> QED BY <3>1, <3>2, <3>3, <3>4, EntriesStay
  <2> QED BY <1>4, <2>1, <2>2 DEF SpentEntry
<1>5. ASSUME NEW e \in Entry, NEW a \in 0..MaxRetries, UsedAttempt(e, a, points)
      PROVE  UsedAttempt(e, a, points)'
  <2>1. CASE Closed(e)
    BY <1>3, <2>1 DEF UsedAttempt
  <2>2. CASE ~Closed(e)
    <3>1. PICK w \in Workers : /\ held[w] = e
                               /\ a < attempt[w] \/ (a = attempt[w] /\ pc[w] \in points)
      BY <1>5, <2>2 DEF UsedAttempt
    <3>2. held[w] # None
      BY <3>1, ConstantFacts
    <3>3. CASE held'[w] = held[w]
      <4>1. /\ attempt[w] \in 0..MaxRetries /\ attempt'[w] \in 0..MaxRetries
            /\ \/ attempt'[w] > attempt[w]
               \/ attempt'[w] = attempt[w] /\ (pc[w] \in points => pc'[w] \in points)
        BY <3>2, <3>3, KeptForward
      <4>2. a < attempt'[w] \/ (a = attempt'[w] /\ pc'[w] \in points)
        BY <3>1, <4>1, ConstantFacts
      <4> QED BY <3>1, <3>3, <4>2 DEF UsedAttempt
    <3>4. CASE fate'[e] \in ClosedFates
      BY <3>4 DEF UsedAttempt, Closed
    <3> QED BY <3>1, <3>2, <3>3, <3>4, EntriesStay
  <2> QED BY <2>1, <2>2
<1>6. Spent(j) \subseteq Spent(j)'
  BY <1>1, <1>2, <1>4 DEF Spent, CopyOf
<1>7. Used(j, points) \subseteq Used(j, points)'
  <2> SUFFICES ASSUME NEW x \in Used(j, points) PROVE x \in Used(j, points)'
    OBVIOUS
  <2>1. /\ x \in (1..pushed[j]) \X (0..MaxRetries)
        /\ x[1] \in 1..pushed[j] /\ x[2] \in 0..MaxRetries
        /\ UsedAttempt(CopyOf(j, x[1]), x[2], points)
    BY DEF Used
  <2>2. UsedAttempt(CopyOf(j, x[1]), x[2], points)'
    BY <1>2, <1>5, <2>1 DEF CopyOf
  <2>3. x \in (1..pushed'[j]) \X (0..MaxRetries)
    BY <1>1, <2>1
  <2> QED BY <2>2, <2>3 DEF Used
<1> QED BY <1>6, <1>7

(* An upload begins when a worker has written its row.                     *)
LEMMA SendingShrinks ==
  ASSUME ConservationInv, [Next]_vars, NEW j \in Jobs, NEW c \in Sending(j)', c \notin Sending(j)
  PROVE  \E w \in Workers : AcceptSize(w) /\ held[w] = CopyOf(j, c)
<1>1. PICK w \in Workers : held'[w] = CopyOf(j, c) /\ pc'[w] = "send"
  BY DEF Sending, SendingEntry, CopyOf
<1>2. c \in 1..pushed'[j] /\ CopyOf(j, c) \in Entry /\ CopyOf(j, c) # None
  <2>1. c \in 1..pushed'[j]
    BY DEF Sending
  <2>2. 1..pushed'[j] \subseteq 1..Copies
    BY EntriesStay, ConstantFacts
  <2> QED BY <2>1, <2>2, CopyFacts, ConstantFacts
<1>3. ~(held[w] = held'[w] /\ pc[w] = pc'[w])
  <2> SUFFICES ASSUME held[w] = held'[w], pc[w] = pc'[w] PROVE FALSE
    OBVIOUS
  <2>1. held[w] = CopyOf(j, c) /\ pc[w] = "send" /\ held[w] # None
    BY <1>1, <1>2
  <2>2. held[w].copy \in 1..pushed[Job(w)] /\ Job(w) = j /\ held[w].copy = c
    BY <2>1, <1>2, InHands DEF Job, CopyOf
  <2> QED BY <2>1, <2>2 DEF Sending, SendingEntry
<1>4. ~UNCHANGED <<pc, held>>
  BY <1>3
<1>5. ASSUME NEW k \in Jobs, Greet(k) \/ HandlerStep(k) PROVE FALSE
  BY <1>4, <1>5 DEF HandlerStep, Greet, CreateRecord, CreateFails, Push,
              PushUnacknowledged, Enqueue, PushFails, workerVars
<1>6. ~(Crash \/ Exit \/ Restart)
  BY <1>1 DEF Crash, Exit, Restart, CutOff
<1>7. ~(Shutdown \/ UNCHANGED vars)
  BY <1>4 DEF Shutdown, workerVars, vars
<1>8. ASSUME NEW v \in Workers \ {w} PROVE ~WorkerStep(v)
  BY <1>3, <1>8, OthersStay DEF ConservationInv
<1>9. WorkerStep(w)
  BY <1>5, <1>6, <1>7, <1>8 DEF Next
<1>10. AcceptSize(w)
  BY <1>1, <1>9
     DEF WorkerStep, Loop, Pop, PopFails, Begin, Launch, Download, DownloadFails,
         NoFileFound, FindFile, StatFails, RejectTooLarge, SendVideo, SendVideoFails,
         TransportCleanup, Discard, MarkCompleted, ReportFailure, MarkFailed, Goto,
         RetryOrGiveUp, Settle, ConservationInv, TypeInv, TypeOK
<1>11. held[w] = CopyOf(j, c)
  BY <1>1, <1>10 DEF AcceptSize
<1> QED BY <1>10, <1>11

(* What a step adds to what the user of j has been shown and to the rows   *)
(* written for j, and which worker has done it.                            *)
Same(j) ==
    /\ inbox'[j].video = inbox[j].video /\ inbox'[j].unacked = inbox[j].unacked
    /\ inbox'[j].tooLarge = inbox[j].tooLarge /\ inbox'[j].failed = inbox[j].failed

Plus(j, video, unacked, tooLarge, failed) ==
    /\ inbox'[j].video = inbox[j].video + video
    /\ inbox'[j].unacked = inbox[j].unacked + unacked
    /\ inbox'[j].tooLarge = inbox[j].tooLarge + tooLarge
    /\ inbox'[j].failed = inbox[j].failed + failed

InboxStep(j, w) ==
    \/ SendVideo(w) /\ Plus(j, 1, 0, 0, 0)
    \/ SendVideoFails(w) /\ Plus(j, 1, 1, 0, 0)
    \/ RejectTooLarge(w) /\ Plus(j, 0, 0, 1, 0)
    \/ ReportFailure(w) /\ Plus(j, 0, 0, 0, 1)

LEMMA InboxTally ==
  ASSUME TypeInv, [Next]_vars, NEW j \in Jobs
  PROVE  \/ Same(j)
         \/ \E w \in Workers : pc[w] \in Busy /\ Job(w) = j /\ InboxStep(j, w)
<1>1. inbox \in [Jobs -> [video : Nat, unacked : Nat, tooLarge : Nat, failed : Nat]]
  BY DEF TypeInv, TypeOK
<1>2. CASE UNCHANGED inbox
  BY <1>2 DEF Same
<1>3. ASSUME NEW w \in Workers, WorkerStep(w), ~UNCHANGED inbox
      PROVE  \/ Same(j)
             \/ pc[w] \in Busy /\ Job(w) = j /\ InboxStep(j, w)
  <2>1. pc[w] \in Busy => Job(w) \in Jobs
    BY HeldJob
  <2>2. CASE SendVideo(w)
    <3>1. /\ pc[w] \in Busy
          /\ inbox' = [inbox EXCEPT ![Job(w)].video = @ + 1]
      BY <2>2 DEF SendVideo, Deliver, Busy
    <3> QED BY <1>1, <2>1, <2>2, <3>1 DEF InboxStep, Same, Plus
  <2>3. CASE SendVideoFails(w)
    <3>1. /\ pc[w] \in Busy
          /\ inbox' = [inbox EXCEPT ![Job(w)].video = @ + 1, ![Job(w)].unacked = @ + 1]
      BY <1>3, <2>3 DEF SendVideoFails, DeliverUnacknowledged, Busy, userVars
    <3> QED BY <1>1, <2>1, <2>3, <3>1 DEF InboxStep, Same, Plus
  <2>4. CASE RejectTooLarge(w)
    <3>1. /\ pc[w] \in Busy
          /\ inbox' = [inbox EXCEPT ![Job(w)]["tooLarge"] = @ + 1]
      BY <1>3, <2>4 DEF RejectTooLarge, Notify, Busy
    <3> QED BY <1>1, <2>1, <2>4, <3>1 DEF InboxStep, Same, Plus
  <2>5. CASE ReportFailure(w)
    <3>1. /\ pc[w] \in Busy
          /\ inbox' = [inbox EXCEPT ![Job(w)]["failed"] = @ + 1]
      BY <1>3, <2>5 DEF ReportFailure, Notify, Busy
    <3> QED BY <1>1, <2>1, <2>5, <3>1 DEF InboxStep, Same, Plus
  <2>6. SendVideo(w) \/ SendVideoFails(w) \/ RejectTooLarge(w) \/ ReportFailure(w)
    BY <1>3 DEF WorkerStep, Loop, Pop, PopFails, Begin, Launch, Download, DownloadFails,
           NoFileFound, FindFile, StatFails, AcceptSize, TransportCleanup, Discard,
           MarkCompleted, MarkFailed, userVars
  <2> QED BY <2>2, <2>3, <2>4, <2>5, <2>6
<1>4. ASSUME NEW k \in Jobs, Greet(k) \/ HandlerStep(k) PROVE UNCHANGED inbox
  BY <1>4 DEF HandlerStep, Greet, CreateRecord, CreateFails, Push,
              PushUnacknowledged, Enqueue, PushFails, userVars
<1>5. Crash \/ Exit \/ Shutdown \/ Restart \/ UNCHANGED vars => UNCHANGED inbox
  BY DEF Crash, Exit, CutOff, Shutdown, Restart, userVars, vars
<1> QED BY <1>2, <1>3, <1>4, <1>5 DEF Next

LEMMA RowsTally ==
  ASSUME TypeInv, [Next]_vars, NEW j \in Jobs
  PROVE  /\ Inserts(j) \in Nat /\ Inserts(j)' \in Nat
         /\ \/ Inserts(j)' = Inserts(j)
            \/ \E w \in Workers : /\ Job(w) = j /\ AcceptSize(w)
                                  /\ Inserts(j)' = Inserts(j) + 1
         /\ \A w \in Workers :
               Job(w) = j /\ AcceptSize(w) => Inserts(j)' = Inserts(j) + 1
<1>1. /\ rows \in [Jobs -> [completed : Nat, failed : Nat, dropped : Nat]]
      /\ rows' \in [Jobs -> [completed : Nat, failed : Nat, dropped : Nat]]
  BY StepType DEF TypeInv, TypeOK
<1>2. Inserts(j) \in Nat /\ Inserts(j)' \in Nat
  BY <1>1 DEF Inserts
<1>3. ASSUME NEW k \in Jobs, LogRow(k, "completed")
      PROVE  Inserts(j)' = IF k = j THEN Inserts(j) + 1 ELSE Inserts(j)
  <2>1. \/ rows' = [rows EXCEPT ![k].completed = @ + 1]
        \/ rows' = [rows EXCEPT ![k].dropped = @ + 1]
    BY <1>3 DEF LogRow
  <2>2. CASE k = j
    <3>1. \/ /\ rows'[j].completed = rows[j].completed + 1
             /\ rows'[j].dropped = rows[j].dropped
          \/ /\ rows'[j].completed = rows[j].completed
             /\ rows'[j].dropped = rows[j].dropped + 1
      BY <1>1, <2>1, <2>2
    <3>2. rows[j].completed \in Nat /\ rows[j].dropped \in Nat
      BY <1>1
    <3>3. Inserts(j)' = rows'[j].completed + rows'[j].dropped
      BY DEF Inserts
    <3>4. Inserts(j)' = Inserts(j) + 1
      BY <3>1, <3>2, <3>3 DEF Inserts
    <3> QED BY <2>2, <3>4
  <2>3. CASE k # j
    BY <1>1, <2>1, <2>3 DEF Inserts
  <2> QED BY <2>2, <2>3
<1>4. ASSUME NEW k \in Jobs, LogRow(k, "failed") PROVE Inserts(j)' = Inserts(j)
  BY <1>1, <1>4 DEF LogRow, Inserts
<1>5. ASSUME NEW w \in Workers, AcceptSize(w)
      PROVE  Inserts(j)' = IF Job(w) = j THEN Inserts(j) + 1 ELSE Inserts(j)
  <2>1. Job(w) \in Jobs /\ LogRow(Job(w), "completed")
    BY <1>5, HeldJob DEF AcceptSize, Busy
  <2> QED BY <1>3, <2>1
<1>6. UNCHANGED rows => Inserts(j)' = Inserts(j)
  BY DEF Inserts
<1>7. ASSUME NEW w \in Workers, WorkerStep(w), ~AcceptSize(w)
      PROVE  Inserts(j)' = Inserts(j)
  <2>1. CASE ReportFailure(w)
    <3>1. Job(w) \in Jobs /\ LogRow(Job(w), "failed")
      BY <2>1, HeldJob DEF ReportFailure, Busy
    <3> QED BY <1>4, <3>1
  <2>2. CASE ~ReportFailure(w)
    <3>1. UNCHANGED rows
      BY <1>7, <2>2 DEF WorkerStep, Loop, Pop, PopFails, Begin, Launch, Download,
           DownloadFails, NoFileFound, FindFile, StatFails, RejectTooLarge, SendVideo,
           SendVideoFails, TransportCleanup, Discard, MarkCompleted, MarkFailed
    <3> QED BY <1>6, <3>1
  <2> QED BY <2>1, <2>2
<1>8. ASSUME NEW k \in Jobs, Greet(k) \/ HandlerStep(k) PROVE UNCHANGED rows
  BY <1>8 DEF HandlerStep, Greet, CreateRecord, CreateFails, Push,
              PushUnacknowledged, Enqueue, PushFails
<1>9. Crash \/ Exit \/ Shutdown \/ Restart \/ UNCHANGED vars => UNCHANGED rows
  BY DEF Crash, Exit, CutOff, Shutdown, Restart, vars
<1>10. \/ Inserts(j)' = Inserts(j)
       \/ \E w \in Workers : /\ Job(w) = j /\ AcceptSize(w)
                             /\ Inserts(j)' = Inserts(j) + 1
  BY <1>5, <1>6, <1>7, <1>8, <1>9 DEF Next
<1> QED BY <1>2, <1>5, <1>10

(* An answer spends a copy that was not spent before, an upload or a row   *)
(* an attempt that was not used before.                                    *)
LEMMA SpentAnew ==
  ASSUME ConservationInv, [Next]_vars, NEW w \in Workers, pc[w] \in Busy \ Given,
         pc'[w] \in Given, held'[w] = held[w], NEW j \in Jobs, Job(w) = j
  PROVE  \E c \in Spent(j)' : c \notin Spent(j)
<1>1. held[w] # None
  BY ConstantFacts DEF ConservationInv, TypeInv, WorkerInv
<1>2. PICK c \in Nat : held[w] = CopyOf(j, c) /\ c \in 1..pushed[j]
  BY <1>1, InHands
<1>3. ~SpentEntry(CopyOf(j, c))
  <2>1. fate[CopyOf(j, c)] = "open" /\ \A v \in Workers : held[v] = CopyOf(j, c) => v = w
    BY <1>1, <1>2, InHands
  <2> QED BY <2>1 DEF SpentEntry, Closed, ClosedFates
<1>4. c \in 1..pushed'[j]
  BY <1>2, EntriesStay, ConstantFacts
<1>5. SpentEntry(CopyOf(j, c))'
  BY <1>2 DEF SpentEntry, CopyOf
<1> QED BY <1>3, <1>4, <1>5 DEF Spent

LEMMA UsedAnew ==
  ASSUME ConservationInv, [Next]_vars, NEW w \in Workers,
         NEW points \in {AfterUpload, AfterRow}, pc[w] \in Busy \ points,
         held'[w] = held[w], attempt[w] \in 0..MaxRetries, attempt'[w] \in 0..MaxRetries,
         attempt'[w] > attempt[w] \/ (attempt'[w] = attempt[w] /\ pc'[w] \in points),
         NEW j \in Jobs, Job(w) = j
  PROVE  \E x \in Used(j, points)' : x \notin Used(j, points)
<1>1. held[w] # None
  BY ConstantFacts DEF ConservationInv, TypeInv, WorkerInv
<1>2. PICK c \in Nat, a \in 0..MaxRetries :
         a = attempt[w] /\ held[w] = CopyOf(j, c) /\ c \in 1..pushed[j]
  BY <1>1, InHands
<1>3. ~UsedAttempt(CopyOf(j, c), a, points)
  <2>1. fate[CopyOf(j, c)] = "open" /\ \A v \in Workers : held[v] = CopyOf(j, c) => v = w
    BY <1>1, <1>2, InHands
  <2>2. ~(a < attempt[w]) /\ pc[w] \notin points
    BY <1>2, ConstantFacts
  <2> QED BY <2>1, <2>2 DEF UsedAttempt, Closed, ClosedFates
<1>4. c \in 1..pushed'[j]
  BY <1>2, EntriesStay, ConstantFacts
<1>5. a < attempt'[w] \/ (a = attempt'[w] /\ pc'[w] \in points)
  BY <1>2, ConstantFacts
<1>6. UsedAttempt(CopyOf(j, c), a, points)'
  BY <1>2, <1>5 DEF UsedAttempt, CopyOf
<1>7. <<c, a>> \in (1..pushed'[j]) \X (0..MaxRetries) /\ <<c, a>>[1] = c /\ <<c, a>>[2] = a
  BY <1>2, <1>4
<1> QED BY <1>3, <1>6, <1>7 DEF Used

(* What a user has been shown are numbers, before a step and after it.     *)
InboxNumbers ==
    \A j \in Jobs : /\ inbox[j].video \in Nat
                   /\ inbox[j].unacked \in Nat
                   /\ inbox[j].tooLarge \in Nat
                   /\ inbox[j].failed \in Nat

LEMMA InboxTyped == TypeInv => InboxNumbers
<1> SUFFICES ASSUME TypeInv PROVE InboxNumbers
  OBVIOUS
<1>1. inbox \in [Jobs -> [video : Nat, unacked : Nat, tooLarge : Nat, failed : Nat]]
  BY DEF TypeInv, TypeOK
<1> QED BY <1>1 DEF InboxNumbers

LEMMA InboxTypedNext == TypeInv' => InboxNumbers'
BY InboxTyped, PTL

LEMMA StatesTyped == TypeInv => pc \in [Workers -> Idle \cup Busy]
BY DEF TypeInv, TypeOK

LEMMA AnswersStep ==
  ASSUME CountInv, [Next]_vars, NEW j \in Jobs
  PROVE  AnswersFit(j)'
<1>1. /\ TypeInv /\ TypeInv' /\ ConservationInv /\ FreshStart
      /\ inbox[j].video + inbox[j].failed <= Cardinality(Spent(j)) + inbox[j].unacked
  BY StepType DEF CountInv, ConservationInv, CountsFit, AnswersFit
<1>2. {inbox[j].video, inbox[j].failed, inbox[j].unacked} \subseteq Nat
  BY <1>1, InboxTyped DEF InboxNumbers
<1>3. /\ Cardinality(Spent(j)) \in Nat /\ Cardinality(Spent(j)') \in Nat
      /\ Cardinality(Spent(j)) <= Cardinality(Spent(j)')
      /\ \A c \in Spent(j)' : c \notin Spent(j) =>
            Cardinality(Spent(j)) + 1 <= Cardinality(Spent(j)')
  <2> DEFINE S == Spent(j)
  <2>1. S \subseteq S' /\ IsFiniteSet(S')
    BY <1>1, SpentGrows, FiniteNext DEF FiniteCounts
  <2> HIDE DEF S
  <2>2. /\ Cardinality(S) \in Nat /\ Cardinality(S') \in Nat
        /\ Cardinality(S) <= Cardinality(S')
        /\ \A c \in S' : c \notin S => Cardinality(S) + 1 <= Cardinality(S')
    BY <2>1, Grow
  <2> QED BY <2>2 DEF S
<1>4. CASE Same(j)
  BY <1>1, <1>2, <1>3, <1>4 DEF Same, AnswersFit
<1>5. ASSUME NEW w \in Workers, pc[w] \in Busy, Job(w) = j, InboxStep(j, w)
      PROVE  AnswersFit(j)'
  <2>0. pc \in [Workers -> Idle \cup Busy]
    BY <1>1 DEF TypeInv, TypeOK
  <2>1. CASE SendVideo(w) /\ Plus(j, 1, 0, 0, 0)
    <3>1. held'[w] = held[w] /\ pc[w] \notin Given /\ pc'[w] \in Given
      BY <2>0, <2>1 DEF SendVideo, Goto, Given
    <3>2. \E c \in Spent(j)' : c \notin Spent(j)
      BY <1>1, <1>5, <3>1, SpentAnew
    <3> QED BY <1>1, <1>2, <1>3, <2>1, <3>2 DEF Plus, AnswersFit
  <2>2. CASE ReportFailure(w) /\ Plus(j, 0, 0, 0, 1)
    <3>1. held'[w] = held[w] /\ pc[w] \notin Given /\ pc'[w] \in Given
      BY <2>0, <2>2 DEF ReportFailure, Goto, Given
    <3>2. \E c \in Spent(j)' : c \notin Spent(j)
      BY <1>1, <1>5, <3>1, SpentAnew
    <3> QED BY <1>1, <1>2, <1>3, <2>2, <3>2 DEF Plus, AnswersFit
  <2>3. CASE Plus(j, 1, 1, 0, 0) \/ Plus(j, 0, 0, 1, 0)
    BY <1>1, <1>2, <1>3, <2>3 DEF Plus, AnswersFit
  <2> QED BY <1>5, <2>1, <2>2, <2>3 DEF InboxStep
<1> QED BY <1>1, <1>4, <1>5, InboxTally

LEMMA UploadsStep ==
  ASSUME CountInv, [Next]_vars, NEW j \in Jobs
  PROVE  UploadsFit(j)'
<1> DEFINE U == Used(j, AfterUpload)
<1>1. /\ TypeInv /\ TypeInv' /\ ConservationInv /\ FreshStart
      /\ inbox[j].video + inbox[j].tooLarge <= Cardinality(U)
  BY StepType DEF CountInv, ConservationInv, CountsFit, UploadsFit
<1>2. {inbox[j].video, inbox[j].tooLarge} \subseteq Nat
  BY <1>1, InboxTyped DEF InboxNumbers
<1>3. /\ Cardinality(U) \in Nat /\ Cardinality(U') \in Nat
      /\ Cardinality(U) <= Cardinality(U')
      /\ \A x \in U' : x \notin U => Cardinality(U) + 1 <= Cardinality(U')
  <2>1. U \subseteq U' /\ IsFiniteSet(U')
    BY <1>1, SpentGrows, FiniteNext DEF FiniteCounts
  <2> HIDE DEF U
  <2> QED BY <2>1, Grow
<1>4. ASSUME inbox'[j].video + inbox'[j].tooLarge <= Cardinality(U')
      PROVE  UploadsFit(j)'
  BY <1>4 DEF UploadsFit
<1>5. CASE Same(j)
  <2> HIDE DEF U
  <2> QED BY <1>1, <1>2, <1>3, <1>4, <1>5 DEF Same
<1>6. ASSUME NEW w \in Workers, pc[w] \in Busy, Job(w) = j, InboxStep(j, w)
      PROVE  UploadsFit(j)'
  <2>1. /\ pc[w] \in {"send", "stat", "report"} /\ pc \in [Workers -> Idle \cup Busy]
        /\ Working(w) /\ held'[w] = held[w]
        /\ attempt[w] \in 0..MaxRetries /\ attempt'[w] \in 0..MaxRetries
    <3>1. Working(w) /\ pc[w] \in {"send", "stat", "report"}
      BY <1>6 DEF InboxStep, Working, SendVideo, SendVideoFails, RejectTooLarge, ReportFailure
    <3> QED BY <1>1, <3>1, WorkingStays, Forward DEF TypeInv, TypeOK
  <2>2. CASE Plus(j, 0, 0, 0, 1)
    <3> HIDE DEF U
    <3> QED BY <1>1, <1>2, <1>3, <1>4, <2>2 DEF Plus
  <2>3. CASE SendVideo(w) \/ SendVideoFails(w) \/ RejectTooLarge(w)
    <3>0. pc[w] \in {"send", "stat"} /\ attempt \in [Workers -> 0..MaxRetries]
      BY <1>1, <2>3 DEF SendVideo, SendVideoFails, RejectTooLarge, TypeInv, TypeOK
    <3>1. attempt'[w] > attempt[w] \/ (attempt'[w] = attempt[w] /\ pc'[w] \in AfterUpload)
      <4>1. CASE SendVideo(w) \/ SendVideoFails(w)
        BY <2>1, <4>1 DEF SendVideo, SendVideoFails, Goto, AfterUpload
      <4>2. CASE RejectTooLarge(w)
        <5>1. RetryOrGiveUp(w)
          BY <4>2 DEF RejectTooLarge
        <5> QED BY <2>1, <3>0, <5>1, ConstantFacts DEF RetryOrGiveUp, Goto, AfterUpload
      <4> QED BY <2>3, <4>1, <4>2
    <3>2. pc[w] \notin AfterUpload
      BY <3>0 DEF AfterUpload
    <3>3. \E x \in U' : x \notin U
      BY <1>1, <1>6, <2>1, <3>1, <3>2, UsedAnew
    <3> HIDE DEF U
    <3>4. Cardinality(U) + 1 <= Cardinality(U')
      BY <1>3, <3>3
    <3>5. inbox'[j].video + inbox'[j].tooLarge <= inbox[j].video + inbox[j].tooLarge + 1
      BY <1>2, <1>6 DEF InboxStep, Plus
    <3>6. {inbox'[j].video, inbox'[j].tooLarge} \subseteq Nat
      BY <1>1, InboxTypedNext DEF InboxNumbers
    <3> QED BY <1>1, <1>2, <1>3, <1>4, <3>4, <3>5, <3>6
  <2> QED BY <1>6, <2>2, <2>3 DEF InboxStep
<1> QED BY <1>1, <1>5, <1>6, InboxTally

LEMMA RowsStep ==
  ASSUME CountInv, [Next]_vars, NEW j \in Jobs
  PROVE  RowsFit(j)'
<1> DEFINE U == Used(j, AfterRow)
<1>1. /\ TypeInv /\ ConservationInv /\ FreshStart
      /\ Inserts(j) <= Cardinality(U)
  BY DEF CountInv, ConservationInv, CountsFit, RowsFit
<1>2. Inserts(j) \in Nat /\ Inserts(j)' \in Nat
  BY <1>1, RowsTally
<1>3. /\ Cardinality(U) \in Nat /\ Cardinality(U') \in Nat
      /\ Cardinality(U) <= Cardinality(U')
      /\ \A x \in U' : x \notin U => Cardinality(U) + 1 <= Cardinality(U')
  <2>1. U \subseteq U' /\ IsFiniteSet(U')
    BY <1>1, StepType, SpentGrows, FiniteNext DEF FiniteCounts
  <2> HIDE DEF U
  <2> QED BY <2>1, Grow
<1>4. ASSUME Inserts(j)' <= Cardinality(U') PROVE RowsFit(j)'
  BY <1>4 DEF RowsFit
<1>5. ASSUME NEW w \in Workers, Job(w) = j, AcceptSize(w) PROVE \E x \in U' : x \notin U
  <2>1. Working(w) /\ pc[w] = "stat" /\ held'[w] = held[w] /\ pc'[w] = "send"
        /\ attempt'[w] = attempt[w]
    BY <1>1, <1>5 DEF Working, AcceptSize, Goto, TypeInv, TypeOK
  <2>2. attempt[w] \in 0..MaxRetries
    BY <1>1 DEF TypeInv, TypeOK
  <2>3. pc[w] \in Busy \ AfterRow /\ pc'[w] \in AfterRow
    BY <2>1 DEF AfterRow, AfterUpload, Busy
  <2> QED BY <1>1, <1>5, <2>1, <2>2, <2>3, UsedAnew
<1> HIDE DEF U
<1>6. CASE Inserts(j)' = Inserts(j)
  BY <1>1, <1>2, <1>3, <1>4, <1>6
<1>7. CASE /\ \E x \in U' : x \notin U
           /\ Inserts(j)' = Inserts(j) + 1
  <2>1. Cardinality(U) + 1 <= Cardinality(U')
    BY <1>3, <1>7
  <2> QED BY <1>1, <1>2, <1>3, <1>4, <1>7, <2>1
<1> QED BY <1>1, <1>5, <1>6, <1>7, RowsTally

(* Each step moves one upload from "its row is written" to "shown".        *)
LEMMA FirstStep ==
  ASSUME CountInv, [Next]_vars, NEW j \in Jobs
  PROVE  RowsFirst(j)'
<1> SUFFICES inbox'[j].video + Cardinality(Sending(j)') <= Inserts(j)'
  BY DEF RowsFirst
<1> DEFINE S == Sending(j)
<1>1. /\ TypeInv /\ TypeInv' /\ ConservationInv
      /\ inbox[j].video + Cardinality(S) <= Inserts(j)
  BY StepType DEF CountInv, ConservationInv, CountsFit, RowsFirst
<1>2. /\ {inbox[j].video, Inserts(j), inbox'[j].video, Inserts(j)'} \subseteq Nat
      /\ pc \in [Workers -> Idle \cup Busy]
  <2>1. Inserts(j) \in Nat /\ Inserts(j)' \in Nat
    BY <1>1, RowsTally
  <2>2. inbox[j].video \in Nat
    BY <1>1, InboxTyped DEF InboxNumbers
  <2>3. inbox'[j].video \in Nat
    BY <1>1, InboxTypedNext DEF InboxNumbers
  <2>4. pc \in [Workers -> Idle \cup Busy]
    BY <1>1, StatesTyped
  <2> QED BY <2>1, <2>2, <2>3, <2>4
<1>3. IsFiniteSet(S) /\ IsFiniteSet(S') /\ Cardinality(S) \in Nat /\ Cardinality(S') \in Nat
  BY <1>1, Finite, FiniteNext DEF FiniteCounts
<1>4. CASE \E w \in Workers : Job(w) = j /\ AcceptSize(w)
  <2>1. PICK w \in Workers : Job(w) = j /\ AcceptSize(w)
    BY <1>4
  <2>2. inbox' = inbox /\ held' = held
    BY <2>1 DEF AcceptSize, userVars
  <2>3. Inserts(j)' = Inserts(j) + 1
    BY <1>1, <2>1, RowsTally
  <2>4. ASSUME NEW c \in S', c \notin S PROVE c = held[w].copy
    <3>1. PICK v \in Workers : AcceptSize(v) /\ held[v] = CopyOf(j, c)
      BY <1>1, <2>4, SendingShrinks
    <3>2. v = w
      <4>1. pc[w] = "stat" /\ pc'[v] = "send" /\ pc[v] = "stat"
        BY <1>2, <2>1, <3>1 DEF AcceptSize, Goto
      <4>2. WorkerStep(w)
        BY <2>1 DEF WorkerStep
      <4> QED BY <1>1, <4>1, <4>2, OthersStay
    <3> QED BY <3>1, <3>2 DEF CopyOf
  <2> HIDE DEF S
  <2>5. /\ Cardinality(S') <= Cardinality(S) + 1
    <3> DEFINE c == held[w].copy
    <3>1. S' \subseteq S \cup {c}
      BY <2>4
    <3> HIDE DEF c
    <3>2. IsFiniteSet(S \cup {c}) /\ Cardinality(S \cup {c}) <= Cardinality(S) + 1
      <4>1. IsFiniteSet(S) /\ Cardinality(S) \in Nat
        BY <1>3
      <4>2. /\ IsFiniteSet(S \cup {c})
            /\ Cardinality(S \cup {c}) \in {Cardinality(S), Cardinality(S) + 1}
        BY <4>1, FS_AddElement
      <4> QED BY <4>1, <4>2
    <3>3. Cardinality(S \cup {c}) \in Nat /\ Cardinality(S') <= Cardinality(S \cup {c})
      BY <3>1, <3>2, Grow
    <3> QED BY <1>3, <3>2, <3>3
  <2> QED BY <1>1, <1>2, <1>3, <2>2, <2>3, <2>5 DEF S
<1>5. CASE ~\E w \in Workers : Job(w) = j /\ AcceptSize(w)
  <2>1. Inserts(j)' = Inserts(j)
    BY <1>1, <1>5, RowsTally
  <2>2. S' \subseteq S
    <3>1. ASSUME NEW c \in S', c \notin S PROVE FALSE
      <4>1. PICK w \in Workers : AcceptSize(w) /\ held[w] = CopyOf(j, c)
        BY <1>1, <3>1, SendingShrinks
      <4>2. Job(w) = j
        BY <4>1 DEF Job, CopyOf
      <4> QED BY <1>5, <4>1, <4>2
    <3> QED BY <3>1
  <2>3. Cardinality(S') <= Cardinality(S)
    <3> HIDE DEF S
    <3> QED BY <1>3, <2>2, Grow
  <2>4. CASE inbox'[j].video = inbox[j].video
    <3> HIDE DEF S
    <3> QED BY <1>1, <1>2, <1>3, <2>1, <2>3, <2>4 DEF S
  <2>5. ASSUME NEW w \in Workers, pc[w] \in Busy, Job(w) = j,
               SendVideo(w) \/ SendVideoFails(w)
        PROVE  Cardinality(S') + 1 <= Cardinality(S)
    <3>1. /\ pc[w] = "send" /\ pc'[w] # "send" /\ held' = held /\ pushed' = pushed
      BY <1>2, <2>5 DEF SendVideo, SendVideoFails, Goto, requestVars
    <3>2. /\ held[w] # None
      BY <1>1, <2>5, ConstantFacts DEF TypeInv, WorkerInv
    <3>3. PICK c \in Nat : held[w] = CopyOf(j, c) /\ c \in 1..pushed[j]
      BY <1>1, <2>5, <3>2, InHands
    <3>4. c \in S
      BY <3>1, <3>3 DEF Sending, SendingEntry
    <3>5. c \notin S'
      <4>1. \A v \in Workers : held[v] = CopyOf(j, c) => v = w
        BY <1>1, <3>2, <3>3, InHands
      <4>2. ~\E v \in Workers : held'[v] = CopyOf(j, c) /\ pc'[v] = "send"
        BY <3>1, <4>1
      <4>3. ~SendingEntry(CopyOf(j, c))'
        BY <4>2 DEF SendingEntry, CopyOf
      <4> QED BY <4>3 DEF Sending
    <3> HIDE DEF S
    <3> QED BY <1>3, <2>2, <3>4, <3>5, Grow
  <2>6. ASSUME NEW w \in Workers, pc[w] \in Busy, Job(w) = j, InboxStep(j, w),
               inbox'[j].video # inbox[j].video
        PROVE  /\ SendVideo(w) \/ SendVideoFails(w)
               /\ inbox'[j].video = inbox[j].video + 1
    BY <1>2, <2>6 DEF InboxStep, Plus
  <2>7. CASE inbox'[j].video # inbox[j].video
    <3>1. /\ Cardinality(S') + 1 <= Cardinality(S)
          /\ inbox'[j].video = inbox[j].video + 1
      BY <1>1, <2>5, <2>6, <2>7, InboxTally DEF Same
    <3> HIDE DEF S
    <3> QED BY <1>1, <1>2, <1>3, <2>1, <3>1 DEF S
  <2> QED BY <2>4, <2>7
<1> QED BY <1>4, <1>5

LEMMA InitCounts == Init => CountInv
<1> SUFFICES ASSUME Init PROVE FreshStart /\ CountsFit
  BY InitType, InitConservation DEF CountInv, ConservationInv
<1>1. FreshStart
  BY DEF Init, FreshStart
<1>2. CountsFit
  <2> SUFFICES ASSUME NEW j \in Jobs
               PROVE  AnswersFit(j) /\ UploadsFit(j) /\ RowsFit(j) /\ RowsFirst(j)
    BY DEF CountsFit
  <2>1. /\ inbox[j].video = 0 /\ inbox[j].failed = 0 /\ inbox[j].unacked = 0
        /\ inbox[j].tooLarge = 0 /\ Inserts(j) = 0 /\ pushed[j] = 0
    BY DEF Init, Inserts
  <2>2. /\ Cardinality(Spent(j)) \in Nat
        /\ Cardinality(Used(j, AfterUpload)) \in Nat
        /\ Cardinality(Used(j, AfterRow)) \in Nat
    BY InitType, Finite DEF FiniteCounts
  <2>3. Cardinality(Sending(j)) = 0
    <3>1. Sending(j) = {}
      BY <2>1 DEF Sending
    <3> QED BY <3>1, FS_EmptySet
  <2> QED BY <2>1, <2>2, <2>3 DEF AnswersFit, UploadsFit, RowsFit, RowsFirst
<1> QED BY <1>1, <1>2

LEMMA StepCounts == CountInv /\ [Next]_vars => CountInv'
<1> SUFFICES ASSUME CountInv, [Next]_vars PROVE CountInv'
  OBVIOUS
<1>1. ConservationInv' /\ FreshStart'
  BY StepConservation, StepFresh DEF CountInv, ConservationInv
<1>2. CountsFit'
  BY AnswersStep, UploadsStep, RowsStep, FirstStep DEF CountsFit
<1> QED BY <1>1, <1>2 DEF CountInv

(* However often pushes are repeated, attempts retried and the process     *)
(* restarted, a user is answered at most once per push.                    *)
THEOREM AnsweredOnce == Spec => []AtMostOneAnswer
<1>1. CountInv => AtMostOneAnswer
  <2> SUFFICES ASSUME CountInv, NEW j \in Jobs
               PROVE  inbox[j].video + inbox[j].failed <= pushed[j] + inbox[j].unacked
    BY DEF AtMostOneAnswer
  <2>1. TypeInv /\ inbox[j].video + inbox[j].failed <= Cardinality(Spent(j)) + inbox[j].unacked
    BY DEF CountInv, ConservationInv, CountsFit, AnswersFit
  <2>2. {inbox[j].video, inbox[j].failed, inbox[j].unacked} \subseteq Nat
    BY <2>1, InboxTyped DEF InboxNumbers
  <2> QED BY <2>1, <2>2, Finite DEF FiniteCounts
<1> QED BY <1>1, InitCounts, StepCounts, PTL DEF Spec

(* The attempts of the pushes bound what a user is shown and the rows that *)
(* are written or refused, and each video shown was preceded by one.       *)
THEOREM AttemptsBound == Spec => []DeliveriesCounted
<1>1. CountInv => DeliveriesCounted
  <2> SUFFICES ASSUME CountInv, NEW j \in Jobs
               PROVE  /\ inbox[j].video + inbox[j].tooLarge <= (MaxRetries + 1) * pushed[j]
                      /\ Inserts(j) <= (MaxRetries + 1) * pushed[j]
                      /\ inbox[j].video <= Inserts(j)
    BY DEF DeliveriesCounted, Inserts
  <2>1. TypeInv /\ UploadsFit(j) /\ RowsFit(j) /\ RowsFirst(j)
    BY DEF CountInv, ConservationInv, CountsFit
  <2>2. {inbox[j].video, inbox[j].tooLarge, Inserts(j), pushed[j]} \subseteq Nat
    BY <2>1, ConstantFacts DEF TypeInv, TypeOK, Inserts
  <2>3. inbox[j].video + inbox[j].tooLarge <= (MaxRetries + 1) * pushed[j]
    <3> DEFINE n == Cardinality(Used(j, AfterUpload))
               m == (MaxRetries + 1) * pushed[j]
    <3>1. n \in Nat /\ n <= m /\ m \in Nat /\ inbox[j].video + inbox[j].tooLarge <= n
      BY <2>1, <2>2, Finite, ConstantFacts DEF FiniteCounts, UploadsFit
    <3> HIDE DEF n, m
    <3>2. inbox[j].video + inbox[j].tooLarge <= m
      BY <2>2, <3>1
    <3> QED BY <3>2 DEF m
  <2>4. Inserts(j) <= (MaxRetries + 1) * pushed[j]
    <3> DEFINE n == Cardinality(Used(j, AfterRow))
               m == (MaxRetries + 1) * pushed[j]
    <3>1. n \in Nat /\ n <= m /\ m \in Nat /\ Inserts(j) <= n
      BY <2>1, <2>2, Finite, ConstantFacts DEF FiniteCounts, RowsFit
    <3> HIDE DEF n, m
    <3>2. Inserts(j) <= m
      BY <2>2, <3>1
    <3> QED BY <3>2 DEF m
  <2>5. Cardinality(Sending(j)) \in Nat
    BY <2>1, Finite DEF FiniteCounts
  <2> QED BY <2>1, <2>2, <2>3, <2>4, <2>5 DEF RowsFirst
<1> QED BY <1>1, InitCounts, StepCounts, PTL DEF Spec

-----------------------------------------------------------------------------
(* Finality and agreement of the rows.  Who changes a row, and who settles *)
(* an entry.                                                               *)
LEMMA RowChange ==
  ASSUME TypeInv, [Next]_vars, NEW j \in Jobs, record'[j] # record[j]
  PROVE  \/ handler[j] = "greeted" /\ handler'[j] # "greeted" /\ record'[j] = "pending"
         \/ \E w \in Workers :
               /\ pc[w] \in Busy /\ Job(w) = j
               /\ \/ Begin(w) /\ record'[j] = "downloading"
                  \/ MarkCompleted(w) /\ record'[j] = "completed"
                  \/ MarkFailed(w) /\ record'[j] = "failed"
<1>1. record \in [Jobs -> RecordStates] /\ handler \in [Jobs -> HandlerStates]
  BY DEF TypeInv, TypeOK
<1>2. ASSUME NEW k \in Jobs, NEW s, record' = [record EXCEPT ![k] = s] \/ UNCHANGED record
      PROVE  k = j /\ record'[j] = s
  BY <1>1, <1>2
<1>3. ASSUME NEW k \in Jobs, Greet(k) \/ HandlerStep(k)
      PROVE  handler[j] = "greeted" /\ handler'[j] # "greeted" /\ record'[j] = "pending"
  <2>1. CreateRecord(k) \/ CreateFails(k)
    BY <1>3 DEF HandlerStep, Greet, Push, PushUnacknowledged, Enqueue, PushFails
  <2>2. /\ handler[k] = "greeted"
        /\ handler' = [handler EXCEPT ![k] = "recorded"]
           \/ handler' = [handler EXCEPT ![k] = "refused"]
        /\ record' = [record EXCEPT ![k] = "pending"] \/ UNCHANGED record
    BY <2>1 DEF CreateRecord, CreateFails
  <2>3. k = j /\ record'[j] = "pending"
    BY <1>2, <2>2
  <2> QED BY <1>1, <2>2, <2>3
<1>4. ASSUME NEW w \in Workers, WorkerStep(w)
      PROVE  /\ pc[w] \in Busy /\ Job(w) = j
             /\ \/ Begin(w) /\ record'[j] = "downloading"
                \/ MarkCompleted(w) /\ record'[j] = "completed"
                \/ MarkFailed(w) /\ record'[j] = "failed"
  <2>1. Begin(w) \/ MarkCompleted(w) \/ MarkFailed(w)
    BY <1>4
       DEF WorkerStep, Loop, Pop, PopFails, Launch, Download, DownloadFails,
           NoFileFound, FindFile, StatFails, RejectTooLarge, AcceptSize, SendVideo,
           SendVideoFails, TransportCleanup, Discard, ReportFailure
  <2>2. pc[w] \in Busy /\ Job(w) \in Jobs
    BY <2>1, HeldJob DEF Begin, MarkCompleted, MarkFailed, Busy
  <2>3. CASE Begin(w)
    BY <1>2, <2>2, <2>3 DEF Begin, Mark
  <2>4. CASE MarkCompleted(w)
    BY <1>2, <2>2, <2>4 DEF MarkCompleted, Mark
  <2>5. CASE MarkFailed(w)
    BY <1>2, <2>2, <2>5 DEF MarkFailed, Mark
  <2> QED BY <2>1, <2>3, <2>4, <2>5
<1>5. Crash \/ Exit \/ Shutdown \/ Restart \/ UNCHANGED vars => UNCHANGED record
  BY DEF Crash, Exit, CutOff, Shutdown, Restart, vars
<1> QED BY <1>3, <1>4, <1>5 DEF Next

LEMMA FateSettled ==
  ASSUME ConservationInv, [Next]_vars, NEW e \in Entry, fate'[e] # fate[e],
         fate'[e] \in {"delivered", "failed"}
  PROVE  \E w \in Workers :
            /\ held[w] = e
            /\ \/ MarkCompleted(w) /\ fate'[e] = "delivered"
               \/ MarkFailed(w) /\ fate'[e] = "failed"
<1>1. fate \in [Entry -> Fates] /\ redis \in Seq(Entry)
  BY DEF ConservationInv, TypeInv, TypeOK
<1>2. ASSUME NEW j \in Jobs, Greet(j) \/ HandlerStep(j) PROVE FALSE
  <2>1. UNCHANGED fate \/ Enqueue(j)
    BY <1>2 DEF HandlerStep, Greet, CreateRecord, CreateFails, Push,
                PushUnacknowledged, PushFails
  <2>2. Enqueue(j) => fate'[e] = fate[e] \/ fate'[e] = "open"
    BY <1>1 DEF Enqueue
  <2> QED BY <2>1, <2>2
<1>3. ASSUME NEW w \in Workers, WorkerStep(w)
      PROVE  /\ held[w] = e
             /\ \/ MarkCompleted(w) /\ fate'[e] = "delivered"
                \/ MarkFailed(w) /\ fate'[e] = "failed"
  <2>1. CASE MarkCompleted(w)
    BY <1>1, <2>1 DEF MarkCompleted, Settle
  <2>2. CASE MarkFailed(w)
    BY <1>1, <2>2 DEF MarkFailed, Settle
  <2>3. CASE PopFails(w)
    BY <1>1, <2>3 DEF PopFails
  <2>4. CASE Loop(w) \/ Pop(w)
    BY <2>4 DEF Loop, Pop
  <2> QED BY <1>3, <2>1, <2>2, <2>3, <2>4, WorkerKinds, WorkingStays DEF Settling
<1>4. Crash \/ Exit => fate'[e] = fate[e] \/ fate'[e] = "lost"
  BY DEF Crash, Exit, CutOff
<1>5. Shutdown \/ Restart \/ UNCHANGED vars => UNCHANGED fate
  BY DEF Shutdown, Restart, vars
<1> QED BY <1>2, <1>3, <1>4, <1>5 DEF Next

(* Nothing is done for a job before its row has been inserted, and the row *)
(* of a job that was pushed once is finished by the one worker that takes  *)
(* the entry, which is then settled.                                       *)
SettledOnce(j) == pushed[j] = 1 /\ fate[CopyOf(j, 1)] \in {"delivered", "failed"}

RowsFinal ==
    \A j \in Jobs :
        /\ handler[j] \in {"new", "greeted"} => pushed[j] = 0 /\ record[j] = "absent"
        /\ record[j] \in {"completed", "failed"} /\ pushed[j] <= 1 => SettledOnce(j)

FinalInv == ConservationInv /\ RowsFinal

LEMMA OnlyEntry ==
  ASSUME FinalInv, NEW j \in Jobs, pushed[j] <= 1, NEW w \in Workers, pc[w] \in Busy, Job(w) = j
  PROVE  held[w] = CopyOf(j, 1) /\ pushed[j] = 1 /\ fate[CopyOf(j, 1)] = "open"
<1>1. held[w] # None
  BY ConstantFacts DEF FinalInv, ConservationInv, TypeInv, WorkerInv
<1>2. held[w] = CopyOf(j, held[w].copy) /\ held[w].copy \in 1..pushed[j]
      /\ fate[held[w]] = "open"
  BY <1>1, InHands DEF FinalInv
<1>3. pushed[j] \in Nat
  BY ConstantFacts DEF FinalInv, ConservationInv, TypeInv, TypeOK
<1>4. pushed[j] = 1 /\ held[w].copy = 1
  BY <1>2, <1>3
<1> QED BY <1>2, <1>4

LEMMA FinishedKept ==
  ASSUME FinalInv, [Next]_vars, NEW j \in Jobs, pushed[j] <= 1,
         record[j] \in {"completed", "failed"} \/ SettledOnce(j)
  PROVE  record'[j] = record[j] /\ SettledOnce(j)
<1>1. SettledOnce(j)
  BY DEF FinalInv, RowsFinal
<1>2. handler[j] # "greeted"
  BY <1>1 DEF FinalInv, RowsFinal, SettledOnce
<1>3. \A w \in Workers : pc[w] \in Busy => Job(w) # j
  BY <1>1, OnlyEntry DEF SettledOnce
<1> QED BY <1>1, <1>2, <1>3, RowChange DEF FinalInv, ConservationInv

LEMMA EarlyHandler ==
  ASSUME ConservationInv, [Next]_vars, NEW j \in Jobs, handler'[j] \in {"new", "greeted"}
  PROVE  handler[j] \in {"new", "greeted"} /\ pushed'[j] = pushed[j]
<1>1. /\ handler \in [Jobs -> HandlerStates] /\ pushed \in [Jobs -> 0..Copies]
      /\ handler' \in [Jobs -> HandlerStates]
  BY StepType DEF ConservationInv, TypeInv, TypeOK
<1>2. ASSUME NEW k \in Jobs, Greet(k) \/ HandlerStep(k)
      PROVE  handler[j] \in {"new", "greeted"} /\ pushed'[j] = pushed[j]
  <2>1. CASE Greet(k) \/ CreateRecord(k) \/ CreateFails(k) \/ PushFails(k)
    <3>1. /\ pushed' = pushed
          /\ handler[k] \in {"new", "greeted"}
             \/ (handler[k] = "recorded" /\ handler' = [handler EXCEPT ![k] = "refused"])
      BY <2>1 DEF Greet, CreateRecord, CreateFails, PushFails
    <3>2. \E s : handler' = [handler EXCEPT ![k] = s]
      BY <2>1 DEF Greet, CreateRecord, CreateFails, PushFails
    <3> QED BY <1>1, <1>2, <3>1, <3>2
  <2>2. CASE Push(k) \/ PushUnacknowledged(k)
    <3>1. /\ handler[k] = "recorded"
          /\ pushed' = [pushed EXCEPT ![k] = @ + 1]
          /\ handler' \in {handler, [handler EXCEPT ![k] = "refused"],
                           [handler EXCEPT ![k] = "done"]}
      BY <2>2 DEF Push, PushUnacknowledged, Enqueue
    <3>2. j # k
      BY <1>1, <1>2, <3>1
    <3> QED BY <1>1, <1>2, <3>1, <3>2
  <2> QED BY <1>2, <2>1, <2>2 DEF HandlerStep
<1>3. ASSUME NEW w \in Workers, WorkerStep(w) PROVE handler' = handler /\ pushed' = pushed
  BY <1>3, WorkerKinds, WorkingStays
     DEF Loop, Pop, PopFails, Settling, MarkCompleted, MarkFailed, requestVars
<1>4. Crash \/ Exit => handler'[j] = handler[j] /\ pushed' = pushed
  <2> SUFFICES ASSUME CutOff PROVE handler'[j] = handler[j] /\ pushed' = pushed
    BY DEF Crash, Exit
  <2>1. /\ pushed' = pushed
        /\ handler'[j] = IF handler[j] \in {"greeted", "recorded"} THEN "cut" ELSE handler[j]
    BY DEF CutOff
  <2> QED BY <2>1
<1>5. Shutdown \/ Restart \/ UNCHANGED vars => handler' = handler /\ pushed' = pushed
  BY DEF Shutdown, Restart, requestVars, vars
<1> QED BY <1>2, <1>3, <1>4, <1>5 DEF Next

LEMMA NeverNew ==
  ASSUME TypeInv, [Next]_vars, NEW j \in Jobs, handler'[j] = "new"
  PROVE  handler[j] = "new"
<1>1. handler \in [Jobs -> HandlerStates]
  BY DEF TypeInv, TypeOK
<1>2. ASSUME NEW k \in Jobs, Greet(k) \/ HandlerStep(k) PROVE handler[j] = "new"
  <2>1. handler' = handler \/ \E s \in HandlerStates \ {"new"} : handler' = [handler EXCEPT ![k] = s]
    BY <1>2 DEF HandlerStep, Greet, CreateRecord, CreateFails, Push,
                PushUnacknowledged, Enqueue, PushFails, HandlerStates
  <2> QED BY <1>1, <2>1
<1>3. ASSUME NEW w \in Workers, WorkerStep(w) PROVE handler' = handler
  BY <1>3, WorkerKinds, WorkingStays
     DEF Loop, Pop, PopFails, Settling, MarkCompleted, MarkFailed, requestVars
<1>4. Crash \/ Exit => handler[j] = "new"
  BY DEF Crash, Exit, CutOff
<1>5. Shutdown \/ Restart \/ UNCHANGED vars => handler' = handler
  BY DEF Shutdown, Restart, requestVars, vars
<1> QED BY <1>2, <1>3, <1>4, <1>5 DEF Next

LEMMA StepFinal == FinalInv /\ [Next]_vars => FinalInv'
<1> SUFFICES ASSUME FinalInv, [Next]_vars, NEW j \in Jobs
             PROVE  /\ handler'[j] \in {"new", "greeted"}
                         => pushed'[j] = 0 /\ record'[j] = "absent"
                    /\ record'[j] \in {"completed", "failed"} /\ pushed'[j] <= 1
                         => SettledOnce(j)'
  BY StepConservation DEF FinalInv, RowsFinal
<1>1. ConservationInv /\ TypeInv
  BY DEF FinalInv, ConservationInv
<1>2. /\ pushed[j] \in Nat /\ pushed'[j] \in Nat /\ pushed[j] <= pushed'[j]
      /\ \A e \in Entry : Closed(e) => fate'[e] = fate[e]
  BY <1>1, EntriesStay
<1>3. CopyOf(j, 1) \in Entry
  BY CopyFacts, ConstantFacts
<1>4. ASSUME SettledOnce(j), pushed'[j] <= 1 PROVE SettledOnce(j)'
  BY <1>2, <1>3, <1>4 DEF SettledOnce, Closed, ClosedFates, CopyOf
<1>5. ASSUME handler'[j] \in {"new", "greeted"}
      PROVE  pushed'[j] = 0 /\ record'[j] = "absent"
  <2>1. handler[j] \in {"new", "greeted"} /\ pushed'[j] = 0 /\ record[j] = "absent"
    BY <1>1, <1>5, EarlyHandler DEF FinalInv, RowsFinal
  <2>2. \A w \in Workers : pc[w] \in Busy => Job(w) # j
    <3>1. pushed[j] = 0
      BY <2>1 DEF FinalInv, RowsFinal
    <3> QED BY <3>1, OnlyEntry
  <2>3. record'[j] = record[j]
    <3> SUFFICES ASSUME record'[j] # record[j] PROVE FALSE
      OBVIOUS
    <3>1. handler[j] = "greeted" /\ handler'[j] # "greeted"
      BY <1>1, <2>2, RowChange
    <3>2. handler'[j] = "new"
      BY <1>5, <3>1
    <3> QED BY <1>1, <3>1, <3>2, NeverNew
  <2> QED BY <2>1, <2>3
<1>6. ASSUME record'[j] \in {"completed", "failed"}, pushed'[j] <= 1
      PROVE  SettledOnce(j)'
  <2>1. pushed[j] <= 1
    BY <1>2, <1>6
  <2>2. CASE record'[j] = record[j]
    BY <1>4, <1>6, <2>1, <2>2 DEF FinalInv, RowsFinal
  <2>3. CASE record'[j] # record[j]
    <3>1. PICK w \in Workers : /\ pc[w] \in Busy /\ Job(w) = j
                               /\ MarkCompleted(w) \/ MarkFailed(w)
      BY <1>1, <1>6, <2>3, RowChange
    <3>2. held[w] = CopyOf(j, 1) /\ pushed[j] = 1
      BY <2>1, <3>1, OnlyEntry
    <3>3. /\ \/ fate' = [fate EXCEPT ![held[w]] = "delivered"]
             \/ fate' = [fate EXCEPT ![held[w]] = "failed"]
          /\ pushed' = pushed /\ fate \in [Entry -> Fates]
      BY <1>1, <3>1 DEF MarkCompleted, MarkFailed, Settle, requestVars, TypeInv, TypeOK
    <3>4. fate'[CopyOf(j, 1)] \in {"delivered", "failed"} /\ pushed'[j] = 1
      BY <1>3, <3>2, <3>3
    <3> QED BY <3>4 DEF SettledOnce, CopyOf
  <2> QED BY <2>2, <2>3
<1> QED BY <1>5, <1>6

LEMMA InitFinal == Init => FinalInv
<1> SUFFICES ASSUME Init PROVE RowsFinal
  BY InitType, InitConservation DEF FinalInv, ConservationInv
<1> QED BY DEF Init, RowsFinal

(* A finished row is reopened only if its job was pushed twice: no retry,  *)
(* crash or restart takes a settled job up again.                          *)
THEOREM RowsStayFinished == Spec => FinishedStaysFinished
<1>1. FinalInv /\ [Next]_vars
        => [\A j \in Jobs : record[j] \in {"completed", "failed"} /\ pushed[j] <= 1
                              => record'[j] = record[j]]_vars
  BY FinishedKept
<1> QED BY <1>1, InitFinal, StepFinal, PTL DEF Spec, FinishedStaysFinished

-----------------------------------------------------------------------------
(* Agreement of the row and the answer, where no mark and no message is    *)
(* dropped: what became of the one entry of a job is what its row says and *)
(* what its user was shown.                                                *)
NothingDropped == Faults \cap {"db", "send", "ack", "shutdown"} = {}

FateShown ==
    \A j \in Jobs :
        /\ inbox[j].unacked = 0
        /\ pushed[j] = 1 /\ fate[CopyOf(j, 1)] = "delivered"
              => record[j] = "completed" /\ inbox[j].video > 0
        /\ pushed[j] = 1 /\ fate[CopyOf(j, 1)] = "failed"
              => record[j] = "failed" /\ inbox[j].failed > 0

AgreeInv == CountInv /\ FinalInv /\ TruthInv /\ proc # "stopping" /\ FateShown

(* No upload is shown by a call that fails.                                *)
LEMMA Acknowledged ==
  ASSUME TypeInv, [Next]_vars, "ack" \notin Faults, NEW j \in Jobs
  PROVE  inbox'[j].unacked = inbox[j].unacked
<1>1. inbox[j].unacked \in Nat /\ inbox[j].video \in Nat
  BY DEF TypeInv, TypeOK
<1>2. ASSUME NEW w \in Workers, InboxStep(j, w) PROVE inbox'[j].unacked = inbox[j].unacked
  <2>1. SendVideoFails(w) => inbox' = inbox
    BY DEF SendVideoFails, userVars
  <2>2. SendVideoFails(w) => ~Plus(j, 1, 1, 0, 0)
    BY <1>1, <2>1 DEF Plus
  <2> QED BY <1>1, <1>2, <2>2 DEF InboxStep, Plus
<1> QED BY <1>2, InboxTally DEF Same

LEMMA StepAgrees ==
  ASSUME NothingDropped
  PROVE  AgreeInv /\ [Next]_vars => AgreeInv'
<1> SUFFICES ASSUME AgreeInv, [Next]_vars PROVE AgreeInv'
  OBVIOUS
<1>1. CountInv' /\ FinalInv' /\ TruthInv'
  BY StepCounts, StepFinal, StepTruth DEF AgreeInv
<1>2. ConservationInv /\ TypeInv
  BY DEF AgreeInv, FinalInv, ConservationInv
<1>3. proc' # "stopping"
  <2>1. ~Shutdown
    BY DEF Shutdown, NothingDropped
  <2>2. ASSUME NEW w \in Workers, WorkerStep(w) PROVE proc' = proc
    BY <2>2, WorkerKinds, WorkingStays
       DEF Loop, Pop, PopFails, Settling, MarkCompleted, MarkFailed
  <2>3. ASSUME NEW j \in Jobs, Greet(j) \/ HandlerStep(j) PROVE proc' = proc
    BY <2>3 DEF HandlerStep, Greet, CreateRecord, CreateFails, Push,
                PushUnacknowledged, Enqueue, PushFails
  <2>4. Crash \/ Exit \/ Restart => proc' # "stopping"
    BY DEF Crash, Exit, CutOff, Restart
  <2>5. UNCHANGED vars => proc' = proc
    BY DEF vars
  <2> QED BY <2>1, <2>2, <2>3, <2>4, <2>5 DEF Next, AgreeInv
<1>4. ASSUME NEW w \in Workers, pc[w] \in Busy PROVE proc = "running"
  BY <1>2, <1>4 DEF TypeInv, TypeOK, WorkerInv, Busy, AgreeInv
<1>5. ASSUME NEW j \in Jobs, pushed'[j] = 1, fate'[CopyOf(j, 1)] \in {"delivered", "failed"}
      PROVE  /\ fate'[CopyOf(j, 1)] = "delivered" => record'[j] = "completed" /\ inbox'[j].video > 0
             /\ fate'[CopyOf(j, 1)] = "failed" => record'[j] = "failed" /\ inbox'[j].failed > 0
  <2>1. CopyOf(j, 1) \in Entry /\ CopyOf(j, 1).job = j /\ CopyOf(j, 1).copy = 1
    BY CopyFacts, ConstantFacts
  <2>2. pushed[j] \in Nat /\ pushed[j] <= 1
    BY <1>2, <1>5, EntriesStay
  <2>3. CASE fate'[CopyOf(j, 1)] = fate[CopyOf(j, 1)]
    <3>1. pushed[j] = 1
      <4>1. fate[CopyOf(j, 1)] # "absent"
        BY <1>5, <2>3
      <4>2. ~(CopyOf(j, 1).copy > pushed[CopyOf(j, 1).job])
        BY <1>2, <2>1, <4>1 DEF ConservationInv, Numbered
      <4> QED BY <2>1, <2>2, <4>2
    <3>2. SettledOnce(j)
      BY <1>5, <2>3, <3>1 DEF SettledOnce
    <3>3. record'[j] = record[j]
      BY <2>2, <3>2, FinishedKept DEF AgreeInv
    <3> QED BY <2>3, <3>1, <3>3, GrownInbox DEF AgreeInv, FateShown
  <2>4. CASE fate'[CopyOf(j, 1)] # fate[CopyOf(j, 1)]
    <3>1. PICK w \in Workers :
             /\ held[w] = CopyOf(j, 1)
             /\ \/ MarkCompleted(w) /\ fate'[CopyOf(j, 1)] = "delivered"
                \/ MarkFailed(w) /\ fate'[CopyOf(j, 1)] = "failed"
      BY <1>2, <1>5, <2>1, <2>4, FateSettled
    <3>2. /\ Job(w) = j /\ proc = "running"
          /\ record \in [Jobs -> RecordStates]
      BY <1>2, <1>4, <2>1, <3>1 DEF Job, MarkCompleted, MarkFailed, Busy, TypeInv, TypeOK
    <3>3. CASE MarkCompleted(w) /\ fate'[CopyOf(j, 1)] = "delivered"
      <4>1. record' = [record EXCEPT ![j] = "completed"]
        BY <3>2, <3>3 DEF MarkCompleted, Mark, NothingDropped
      <4>2. inbox'[j].video > 0
        BY <3>2, <3>3, GrownInbox DEF MarkCompleted, AgreeInv, TruthInv, Told
      <4> QED BY <3>2, <3>3, <4>1, <4>2
    <3>4. CASE MarkFailed(w) /\ fate'[CopyOf(j, 1)] = "failed"
      <4>1. record' = [record EXCEPT ![j] = "failed"]
        BY <3>2, <3>4 DEF MarkFailed, Mark, NothingDropped
      <4>2. inbox'[j].failed > 0
        BY <3>2, <3>4, GrownInbox DEF MarkFailed, AgreeInv, TruthInv, Told, NothingDropped
      <4> QED BY <3>2, <3>4, <4>1, <4>2
    <3> QED BY <3>1, <3>3, <3>4
  <2> QED BY <2>3, <2>4
<1>6. \A j \in Jobs : inbox'[j].unacked = 0
  BY <1>2, Acknowledged DEF AgreeInv, FateShown, NothingDropped
<1>7. FateShown'
  BY <1>5, <1>6 DEF FateShown, CopyOf
<1> QED BY <1>1, <1>3, <1>7 DEF AgreeInv

(* Once the one entry of a job is settled, its row and its user have been  *)
(* told the same thing: the mark is made by the worker that gave the       *)
(* answer, and nobody takes the job up again.                              *)
THEOREM RowsAgree ==
  ASSUME NothingDropped
  PROVE  Spec => []RecordAgrees
<1>1. Init => AgreeInv
  <2> SUFFICES ASSUME Init PROVE FateShown /\ RecordTruthful /\ Told /\ proc # "stopping"
    BY InitCounts, InitFinal, InitType DEF AgreeInv, TruthInv
  <2> QED BY DEF Init, FateShown, RecordTruthful, Told
<1>2. AgreeInv => RecordAgrees
  <2> SUFFICES ASSUME AgreeInv, NEW j \in Jobs,
                      pushed[j] = 1, fate[CopyOf(j, 1)] \in {"delivered", "failed"}
               PROVE  record[j] = Outcome(j)
    BY DEF RecordAgrees, CopyOf
  <2>1. /\ inbox[j].video \in Nat /\ inbox[j].failed \in Nat
        /\ inbox[j].unacked = 0
        /\ inbox[j].video + inbox[j].failed <= Cardinality(Spent(j)) + inbox[j].unacked
    BY DEF AgreeInv, CountInv, ConservationInv, TypeInv, TypeOK, FateShown, CountsFit, AnswersFit
  <2>2. Cardinality(Spent(j)) \in Nat /\ Cardinality(Spent(j)) <= 1
    BY Finite DEF FiniteCounts, AgreeInv, CountInv, ConservationInv
  <2>3. inbox[j].video + inbox[j].failed <= 1
    BY <2>1, <2>2
  <2>4. CASE fate[CopyOf(j, 1)] = "delivered"
    BY <2>4 DEF AgreeInv, FateShown, Outcome
  <2>5. CASE fate[CopyOf(j, 1)] = "failed"
    <3>1. record[j] = "failed" /\ inbox[j].failed > 0
      BY <2>5 DEF AgreeInv, FateShown
    <3>2. ~(inbox[j].video > 0)
      BY <2>1, <2>3, <3>1
    <3> QED BY <3>1, <3>2 DEF Outcome
  <2> QED BY <2>4, <2>5
<1> QED BY <1>1, <1>2, StepAgrees, PTL DEF Spec

-----------------------------------------------------------------------------
(* No file is left behind.  A file is in the directory and under the name  *)
(* of the job that fetched it, and if it is a video, that job is the one   *)
(* whose worker has it in hand, or has lost an entry, or was abandoned by  *)
(* a failed yt-dlp.  Two jobs that share a directory must share the file   *)
(* name: otherwise a worker sends the first video of the directory and     *)
(* leaves its own (TLC finds that in four steps of two workers).           *)
OneFilePerDir == \A j, k \in Jobs : Dir[j] = Dir[k] => File[j] = File[k]

InHandOf(w, d, f) ==
    /\ held[w] # None
    /\ HeldDir(w) = d
    /\ \/ pc[w] = "find"
       \/ pc[w] \in PathUsed /\ path[w] = f

Lost(j) == \E e \in Entry : e.job = j /\ fate[e] = "lost"

Owned ==
    \A d \in Dirs : \A f \in Files :
        disk[d][f] # None
            => /\ Dir[disk[d][f]] = d /\ File[disk[d][f]] = f
               /\ f \in VideoFiles
                    => \/ \E w \in Workers : InHandOf(w, d, f) /\ Job(w) = disk[d][f]
                       \/ Lost(disk[d][f])
                       \/ disk[d][f] \in abandoned

OwnedInv == ConservationInv /\ Owned

LEMMA OthersPaths ==
  ASSUME TypeInv, NEW w \in Workers, WorkerStep(w), NEW v \in Workers \ {w}
  PROVE  path'[v] = path[v]
  BY DEF WorkerStep, Loop, Pop, PopFails, Begin, Launch, Download, DownloadFails,
         NoFileFound, FindFile, StatFails, RejectTooLarge, AcceptSize, SendVideo,
         SendVideoFails, TransportCleanup, Discard, MarkCompleted, ReportFailure,
         MarkFailed, RetryOrGiveUp, Settle, TypeInv, TypeOK

(* A worker lets go of a file only by removing it, or when it is gone.     *)
LEMMA HandKept ==
  ASSUME OneFilePerDir, OwnedInv, NEW w \in Workers, WorkerStep(w),
         NEW d \in Dirs, NEW f \in VideoFiles, InHandOf(w, d, f),
         disk[d][f] # None, disk'[d][f] # None
  PROVE  InHandOf(w, d, f)' /\ held'[w] = held[w]
<1>1. /\ pc \in [Workers -> Idle \cup Busy] /\ path \in [Workers -> Files \cup {None}]
      /\ disk \in [Dirs -> [Files -> Jobs \cup {None}]]
      /\ f \in Files
  BY ConstantFacts DEF OwnedInv, ConservationInv, TypeInv, TypeOK
<1>2. pc[w] = "find" \/ (pc[w] \in PathUsed /\ path[w] = f)
  BY DEF InHandOf
<1>3. held[w] # None /\ HeldDir(w) = d
  BY DEF InHandOf
<1>4. ASSUME held' = held, pc'[w] \in PathUsed, path'[w] = f
      PROVE  InHandOf(w, d, f)' /\ held'[w] = held[w]
  BY <1>3, <1>4 DEF InHandOf, HeldDir, Job
<1>5. ~(RejectTooLarge(w) \/ TransportCleanup(w) \/ Discard(w))
  <2> SUFFICES ASSUME RejectTooLarge(w) \/ TransportCleanup(w) \/ Discard(w) PROVE FALSE
    OBVIOUS
  <2>1. path[w] = f /\ Remove(d, path[w])
    BY <1>2, <1>3 DEF RejectTooLarge, TransportCleanup, Discard
  <2> QED BY <1>1, <2>1 DEF Remove
<1>6. ~(NoFileFound(w) \/ StatFails(w))
  BY <1>2, <1>3 DEF NoFileFound, StatFails, Videos, FileOf
<1>7. CASE FindFile(w)
  <2>1. PICK g \in FirstVideo(d) : path' = [path EXCEPT ![w] = g]
    BY <1>3, <1>7 DEF FindFile
  <2>2. g \in VideoFiles /\ g \in Files /\ disk[d][g] # None
    BY ConstantFacts DEF FirstVideo, Videos
  <2>3. /\ File[disk[d][g]] = g /\ File[disk[d][f]] = f
        /\ Dir[disk[d][g]] = d /\ Dir[disk[d][f]] = d
        /\ disk[d][g] \in Jobs /\ disk[d][f] \in Jobs
    BY <1>1, <2>2 DEF OwnedInv, Owned
  <2>4. g = f
    BY <2>3 DEF OneFilePerDir
  <2>5. path'[w] = f /\ pc'[w] = "stat" /\ held' = held
    BY <1>1, <1>7, <2>1, <2>4 DEF FindFile, Goto
  <2> QED BY <1>4, <2>5 DEF PathUsed
<1>8. CASE AcceptSize(w) \/ SendVideo(w) \/ SendVideoFails(w)
  <2>1. /\ pc'[w] \in PathUsed /\ path' = path /\ held' = held
        /\ pc[w] # "find"
    BY <1>1, <1>8 DEF AcceptSize, SendVideo, SendVideoFails, Goto, PathUsed
  <2> QED BY <1>2, <1>4, <2>1
<1>9. pc[w] \in {"find", "stat", "send", "sent", "unsent", "discard"}
  BY <1>2 DEF PathUsed
<1>10. ~(\/ Loop(w) \/ Pop(w) \/ PopFails(w) \/ Begin(w) \/ Launch(w) \/ Download(w)
         \/ DownloadFails(w) \/ MarkCompleted(w) \/ ReportFailure(w) \/ MarkFailed(w))
  BY <1>9 DEF Loop, Pop, PopFails, Begin, Launch, Download, DownloadFails, MarkCompleted,
              ReportFailure, MarkFailed
<1> QED BY <1>5, <1>6, <1>7, <1>8, <1>10 DEF WorkerStep

(* A new file is in the hands of the worker that has fetched it, or was    *)
(* fetched by a yt-dlp that failed.                                        *)
LEMMA DiskChange ==
  ASSUME TypeInv, [Next]_vars, NEW d \in Dirs, NEW f \in Files,
         disk'[d][f] # None, disk'[d][f] # disk[d][f]
  PROVE  \E w \in Workers :
            /\ Download(w) \/ Job(w) \in abandoned'
            /\ pc[w] \in Busy
            /\ HeldDir(w) = d /\ File[Job(w)] = f /\ disk'[d][f] = Job(w)
<1>1. disk \in [Dirs -> [Files -> Jobs \cup {None}]]
  BY DEF TypeInv, TypeOK
<1>2. ~UNCHANGED disk
  OBVIOUS
<1>3. ASSUME NEW j \in Jobs, Greet(j) \/ HandlerStep(j) PROVE FALSE
  BY <1>2, <1>3 DEF HandlerStep, Greet, CreateRecord, CreateFails, Push,
              PushUnacknowledged, Enqueue, PushFails
<1>4. ASSUME NEW w \in Workers, WorkerStep(w)
      PROVE  /\ Download(w) \/ Job(w) \in abandoned'
             /\ pc[w] \in Busy
             /\ HeldDir(w) = d /\ File[Job(w)] = f /\ disk'[d][f] = Job(w)
  <2>1. \/ Download(w) \/ DownloadFails(w)
        \/ (RejectTooLarge(w) \/ TransportCleanup(w) \/ Discard(w))
    BY <1>2, <1>4
       DEF WorkerStep, Loop, Pop, PopFails, Begin, Launch, NoFileFound,
           FindFile, StatFails, AcceptSize, SendVideo, SendVideoFails, MarkCompleted,
           ReportFailure, MarkFailed
  <2>2. ~(RejectTooLarge(w) \/ TransportCleanup(w) \/ Discard(w))
    <3> SUFFICES ASSUME Remove(HeldDir(w), path[w]) PROVE FALSE
      BY DEF RejectTooLarge, TransportCleanup, Discard
    <3> QED BY <1>1 DEF Remove
  <2>3. /\ Download(w) \/ Job(w) \in abandoned'
        /\ pc[w] \in Busy /\ Fetched(w)
    BY <1>2, <2>1, <2>2 DEF Download, DownloadFails, Busy
  <2>4. HeldDir(w) \in Dirs /\ File[Job(w)] \in Files
    BY <2>3, HeldJob
  <2>5. disk' = [disk EXCEPT ![HeldDir(w)][File[Job(w)]] = Job(w)]
    BY <2>3 DEF Fetched
  <2> QED BY <1>1, <2>3, <2>4, <2>5
<1>5. ~(Crash \/ Exit \/ Shutdown \/ Restart \/ UNCHANGED vars)
  BY <1>2 DEF Crash, Exit, CutOff, Shutdown, Restart, vars
<1> QED BY <1>3, <1>4, <1>5 DEF Next

LEMMA StepOwned ==
  ASSUME OneFilePerDir
  PROVE  OwnedInv /\ [Next]_vars => OwnedInv'
<1> SUFFICES ASSUME OwnedInv, [Next]_vars PROVE Owned'
  BY StepConservation DEF OwnedInv
<1> SUFFICES ASSUME NEW d \in Dirs, NEW f \in Files, NEW k, k = disk'[d][f], k # None
             PROVE  /\ Dir[k] = d /\ File[k] = f
                    /\ f \in VideoFiles
                         => \/ \E w \in Workers : InHandOf(w, d, f)' /\ Job(w)' = k
                            \/ Lost(k)'
                            \/ k \in abandoned'
  BY DEF Owned, Lost
<1>1. ConservationInv /\ TypeInv
  BY DEF OwnedInv, ConservationInv
<1>0. ASSUME NEW w \in Workers, Job(w) = k, HeldDir(w) = d, pc[w] \in Busy,
             held' = held, pc'[w] = "find"
      PROVE  InHandOf(w, d, f)' /\ Job(w)' = k
  <2>1. held[w] \in Entry
    BY <1>1, <1>0, HeldJob
  <2> QED BY <1>0, <2>1, ConstantFacts DEF InHandOf, HeldDir, Job
<1>2. CASE disk'[d][f] # disk[d][f]
  <2>1. PICK w \in Workers : /\ Download(w) \/ Job(w) \in abandoned'
                             /\ pc[w] \in Busy
                             /\ HeldDir(w) = d /\ File[Job(w)] = f /\ disk'[d][f] = Job(w)
    BY <1>1, <1>2, DiskChange
  <2>2. Dir[k] = d /\ File[k] = f
    BY <2>1 DEF HeldDir
  <2>3. CASE Download(w)
    <3>1. held' = held /\ pc'[w] = "find"
      BY <1>1, <2>3 DEF Download, Goto, TypeInv, TypeOK
    <3> QED BY <1>0, <2>1, <2>2, <3>1
  <2>4. CASE k \in abandoned'
    BY <2>2, <2>4
  <2> QED BY <2>1, <2>3, <2>4
<1>3. CASE disk'[d][f] = disk[d][f]
  <2>1. k = disk[d][f] /\ disk[d][f] # None /\ Dir[k] = d /\ File[k] = f
    BY <1>3 DEF OwnedInv, Owned
  <2>2. ASSUME Lost(k) PROVE Lost(k)'
    <3>1. PICK e \in Entry : e.job = k /\ fate[e] = "lost"
      BY <2>2 DEF Lost
    <3>2. fate'[e] = "lost"
      BY <1>1, <3>1, EntriesStay DEF Closed, ClosedFates
    <3> QED BY <1>3, <3>1, <3>2 DEF Lost
  <2>3. ASSUME f \in VideoFiles, NEW w \in Workers, InHandOf(w, d, f), Job(w) = k
        PROVE  (InHandOf(w, d, f)' /\ Job(w)' = k) \/ Lost(k)'
    <3>1. held[w] # None /\ held[w] \in Entry
      BY <1>1, <2>3, InHands DEF InHandOf
    <3>2. ASSUME pc'[w] = pc[w], held'[w] = held[w], path'[w] = path[w]
          PROVE  InHandOf(w, d, f)' /\ Job(w)' = k
      BY <2>3, <3>2 DEF InHandOf, HeldDir, Job
    <3>3. CASE WorkerStep(w)
      BY <1>3, <2>1, <2>3, <3>3, HandKept DEF Job
    <3>4. ASSUME NEW v \in Workers, WorkerStep(v), v # w
          PROVE  InHandOf(w, d, f)' /\ Job(w)' = k
      BY <1>1, <3>2, <3>4, OthersStay, OthersPaths
    <3>5. CASE Crash \/ Exit
      <4>1. fate'[held[w]] = "lost"
        BY <3>1, <3>5 DEF Crash, Exit, CutOff
      <4> QED BY <1>3, <2>3, <3>1, <4>1 DEF Lost, Job
    <3>6. ~Restart
      BY <1>1, <2>3 DEF Restart, TypeInv, WorkerInv, InHandOf, PathUsed
    <3>7. CASE Shutdown \/ UNCHANGED vars
      BY <3>2, <3>7 DEF Shutdown, workerVars, vars
    <3>8. ASSUME NEW j \in Jobs, Greet(j) \/ HandlerStep(j)
          PROVE  InHandOf(w, d, f)' /\ Job(w)' = k
      <4>1. UNCHANGED <<pc, held, path>>
        BY <3>8 DEF HandlerStep, Greet, CreateRecord, CreateFails, Push,
                    PushUnacknowledged, Enqueue, PushFails, workerVars
      <4> QED BY <3>2, <4>1
    <3> QED BY <3>3, <3>4, <3>5, <3>6, <3>7, <3>8 DEF Next
  <2>4. ASSUME k \in abandoned, k \notin abandoned'
        PROVE  \E w \in Workers : InHandOf(w, d, f)' /\ Job(w)' = k
    <3>1. abandoned' # abandoned
      BY <2>4
    <3>2. \E w \in Workers : (Launch(w) \/ Download(w)) /\ abandoned' = abandoned \ {Job(w)}
      <4>1. ASSUME NEW j \in Jobs, Greet(j) \/ HandlerStep(j) PROVE abandoned' = abandoned
        BY <4>1 DEF HandlerStep, Greet, CreateRecord, CreateFails, Push,
                    PushUnacknowledged, Enqueue, PushFails
      <4>2. Crash \/ Exit \/ Shutdown \/ Restart \/ UNCHANGED vars
              => abandoned' = abandoned
        BY DEF Crash, Exit, CutOff, Shutdown, Restart, vars
      <4>3. PICK w \in Workers : WorkerStep(w)
        BY <3>1, <4>1, <4>2 DEF Next
      <4>4. Launch(w) \/ Download(w) \/ DownloadFails(w)
        BY <3>1, <4>3
           DEF WorkerStep, Loop, Pop, PopFails, Begin, NoFileFound, FindFile, StatFails,
               RejectTooLarge, AcceptSize, SendVideo, SendVideoFails, TransportCleanup,
               Discard, MarkCompleted, ReportFailure, MarkFailed
      <4>5. ~DownloadFails(w)
        BY <2>4 DEF DownloadFails
      <4>6. abandoned' = abandoned \ {Job(w)}
        BY <3>1, <4>4, <4>5 DEF Launch, Download
      <4> QED BY <4>4, <4>5, <4>6
    <3>3. PICK w \in Workers : (Launch(w) \/ Download(w)) /\ abandoned' = abandoned \ {Job(w)}
      BY <3>2
    <3>4. Job(w) = k /\ HeldDir(w) = d
      BY <2>1, <2>4, <3>3 DEF HeldDir
    <3>5. pc[w] \in Busy /\ held' = held /\ pc'[w] = "find"
      <4>1. pc \in [Workers -> Idle \cup Busy]
        BY <1>1 DEF TypeInv, TypeOK
      <4>2. disk[HeldDir(w)][File[Job(w)]] # None
        BY <2>1, <3>4
      <4> QED BY <3>3, <4>1, <4>2 DEF Launch, Download, Goto, Busy
    <3> QED BY <1>0, <3>4, <3>5
  <2>5. f \in VideoFiles => \/ \E w \in Workers : InHandOf(w, d, f) /\ Job(w) = k
                            \/ Lost(k)
                            \/ k \in abandoned
    BY <2>1 DEF OwnedInv, Owned
  <2>6. f \in VideoFiles => \/ \E w \in Workers : InHandOf(w, d, f)' /\ Job(w)' = k
                            \/ Lost(k)'
                            \/ k \in abandoned'
    BY <2>2, <2>3, <2>4, <2>5
  <2> QED BY <2>1, <2>6
<1> QED BY <1>2, <1>3

(* A video on disk is in the hands of a worker that will send or remove    *)
(* it, or of a job that a crash or an exit took, or was left by a yt-dlp   *)
(* that failed after it and not taken up since, whatever fails and however *)
(* workers meet in a directory.                                            *)
THEOREM NothingLeft ==
  ASSUME OneFilePerDir
  PROVE  Spec => []NoLeftovers
<1>1. Init => OwnedInv
  <2> SUFFICES ASSUME Init PROVE Owned
    BY InitType, InitConservation DEF OwnedInv, ConservationInv
  <2> QED BY DEF Init, Owned
<1>2. OwnedInv => NoLeftovers
  <2> SUFFICES ASSUME OwnedInv, NEW d \in Dirs, NEW f \in VideoFiles, disk[d][f] # None
               PROVE  \/ InHand(d, f)
                      \/ \E e \in Entry : e.job = disk[d][f] /\ fate[e] = "lost"
                      \/ disk[d][f] \in abandoned
    BY DEF NoLeftovers
  <2>1. \/ \E w \in Workers : InHandOf(w, d, f)
        \/ Lost(disk[d][f])
        \/ disk[d][f] \in abandoned
    BY ConstantFacts DEF OwnedInv, Owned
  <2> QED BY <2>1 DEF InHandOf, InHand, PathUsed, Lost
<1> QED BY <1>1, <1>2, StepOwned, PTL DEF Spec

-----------------------------------------------------------------------------
(* The pipeline implements DownloadService, where a push is applied once   *)
(* and no call that has shown a video reports an error (either of them can *)
(* answer a request twice).  The stage of a request, by the one entry it   *)
(* has.                                                                    *)
OnePush == Copies = 1 /\ "ack" \notin Faults

Taken(j) == \E w \in Workers : held[w] = CopyOf(j, 1)

StageOf(j) ==
    IF inbox[j].video = 1 THEN "delivered"
    ELSE IF inbox[j].failed = 1 THEN "failed"
    ELSE IF pushed[j] = 0 THEN "idle"
    ELSE IF fate[CopyOf(j, 1)] # "open" THEN "lost"
    ELSE IF Taken(j) THEN "running" ELSE "queued"

ServiceInv == CountInv /\ TruthInv /\ \A j \in Jobs : inbox[j].unacked = 0

LEMMA ServiceFacts ==
  ASSUME OnePush, ServiceInv, NEW j \in Jobs
  PROVE  /\ inbox[j].video \in Nat /\ inbox[j].failed \in Nat
         /\ inbox[j].video + inbox[j].failed <= pushed[j]
         /\ pushed[j] \in {0, 1}
         /\ pushed[j] = 0 <=> fate[CopyOf(j, 1)] = "absent"
         /\ CopyOf(j, 1) \in Entry /\ CopyOf(j, 1).job = j
         /\ \A e \in Entry : e.job = j => e = CopyOf(j, 1)
         /\ Taken(j) => fate[CopyOf(j, 1)] = "open"
         /\ ~SpentEntry(CopyOf(j, 1)) => inbox[j].video = 0 /\ inbox[j].failed = 0
<1>1. /\ inbox[j].video \in Nat /\ inbox[j].failed \in Nat /\ inbox[j].unacked = 0
      /\ pushed[j] \in 0..Copies
      /\ inbox[j].video + inbox[j].failed <= Cardinality(Spent(j)) + inbox[j].unacked
  BY DEF ServiceInv, CountInv, ConservationInv, TypeInv, TypeOK, CountsFit, AnswersFit
<1>2. Cardinality(Spent(j)) \in Nat /\ Cardinality(Spent(j)) <= pushed[j]
  BY Finite DEF FiniteCounts, ServiceInv, CountInv, ConservationInv
<1>3. pushed[j] \in {0, 1}
  BY <1>1 DEF OnePush
<1>4. CopyOf(j, 1) \in Entry /\ CopyOf(j, 1).job = j /\ CopyOf(j, 1).copy = 1
  BY CopyFacts, ConstantFacts
<1>5. pushed[j] = 0 <=> fate[CopyOf(j, 1)] = "absent"
  BY <1>3, <1>4 DEF ServiceInv, CountInv, ConservationInv, Numbered
<1>6. \A e \in Entry : e.job = j => e = CopyOf(j, 1)
  BY CopyFacts DEF OnePush
<1>7. Taken(j) => fate[CopyOf(j, 1)] = "open"
  BY <1>4 DEF Taken, ServiceInv, CountInv, ConservationInv, EntryConservation
<1>8. ASSUME ~SpentEntry(CopyOf(j, 1)) PROVE inbox[j].video = 0 /\ inbox[j].failed = 0
  <2>1. Spent(j) = {}
    BY <1>3, <1>8 DEF Spent
  <2>2. Cardinality(Spent(j)) = 0
    BY <2>1, FS_EmptySet
  <2> QED BY <1>1, <2>2
<1>9. inbox[j].video + inbox[j].failed <= pushed[j]
  BY <1>1, <1>2, <1>3
<1> QED BY <1>1, <1>3, <1>4, <1>5, <1>6, <1>7, <1>8, <1>9

LEMMA StageForm ==
  ASSUME OnePush
  PROVE  ServiceInv => Stage = [j \in Jobs |-> StageOf(j)]
<1> SUFFICES ASSUME ServiceInv, NEW j \in Jobs PROVE Stage[j] = StageOf(j)
  BY DEF Stage
<1> DEFINE answers == inbox[j].video + inbox[j].failed
           open == {e \in Entry : e.job = j /\ fate[e] = "open"}
<1>1. Stage[j] =
        CASE answers > 1 -> "contradictory"
          [] inbox[j].video = 1 /\ answers = 1 -> "delivered"
          [] inbox[j].failed = 1 /\ answers = 1 -> "failed"
          [] answers = 0 /\ pushed[j] = 0 -> "idle"
          [] answers = 0 /\ pushed[j] > 0 /\ open = {} -> "lost"
          [] answers = 0 /\ pushed[j] > 0 /\ open # {} ->
                 IF \E e \in open : Queued(e) THEN "queued" ELSE "running"
  BY DEF Stage
<1>2. /\ inbox[j].video \in Nat /\ inbox[j].failed \in Nat /\ answers <= pushed[j]
      /\ pushed[j] \in {0, 1}
      /\ \A e \in open : e = CopyOf(j, 1)
      /\ fate[CopyOf(j, 1)] = "open" <=> CopyOf(j, 1) \in open
  BY ServiceFacts
<1>3. fate[CopyOf(j, 1)] = "open" => (Queued(CopyOf(j, 1)) <=> ~Taken(j))
  BY ServiceFacts, ConstantFacts
     DEF Taken, ServiceInv, CountInv, ConservationInv, EntryConservation
<1>4. \/ inbox[j].video = 1 /\ inbox[j].failed = 0
      \/ inbox[j].video = 0 /\ inbox[j].failed = 1
      \/ inbox[j].video = 0 /\ inbox[j].failed = 0
  BY <1>2
<1>5. (open = {} <=> fate[CopyOf(j, 1)] # "open")
  BY <1>2
<1>6. open # {} => ((\E e \in open : Queued(e)) <=> Queued(CopyOf(j, 1)))
  BY <1>2
<1> HIDE DEF open
<1>7. CASE inbox[j].video = 1 /\ inbox[j].failed = 0
  BY <1>1, <1>7 DEF StageOf
<1>8. CASE inbox[j].video = 0 /\ inbox[j].failed = 1
  BY <1>1, <1>8 DEF StageOf
<1>9. CASE inbox[j].video = 0 /\ inbox[j].failed = 0
  BY <1>1, <1>2, <1>3, <1>5, <1>6, <1>9 DEF StageOf
<1> QED BY <1>4, <1>7, <1>8, <1>9
LEMMA StageFormNext ==
  ASSUME OnePush
  PROVE  ServiceInv' => Stage' = [j \in Jobs |-> StageOf(j)']
<1> DEFINE Form == Stage = [j \in Jobs |-> StageOf(j)]
<1>1. ServiceInv => Form
  BY StageForm
<1>2. Form' => Stage' = [j \in Jobs |-> StageOf(j)']
  OBVIOUS
<1> HIDE DEF Form
<1>3. ServiceInv' => Form'
  BY <1>1, PTL
<1> QED BY <1>2, <1>3

LEMMA StepService ==
  ASSUME OnePush
  PROVE  ServiceInv /\ [Next]_vars => ServiceInv'
<1> SUFFICES ASSUME ServiceInv, [Next]_vars PROVE ServiceInv'
  OBVIOUS
<1>1. CountInv' /\ TruthInv'
  BY StepCounts, StepTruth DEF ServiceInv
<1>2. \A j \in Jobs : inbox'[j].unacked = 0
  BY Acknowledged DEF ServiceInv, TruthInv, OnePush
<1> QED BY <1>1, <1>2 DEF ServiceInv

(* What the stage is read from.                                            *)
LEMMA StageKept ==
  ASSUME NEW j \in Jobs,
         inbox'[j].video = inbox[j].video, inbox'[j].failed = inbox[j].failed,
         pushed'[j] = pushed[j], fate'[CopyOf(j, 1)] = fate[CopyOf(j, 1)],
         (\E w \in Workers : held'[w] = CopyOf(j, 1)) <=> Taken(j)
  PROVE  StageOf(j)' = StageOf(j)
BY DEF StageOf, Taken, CopyOf

(* A step that changes the stage of one request, or of none.               *)
LEMMA OneStage ==
  ASSUME OnePush, ServiceInv, ServiceInv', NEW k \in Jobs,
         \A j \in Jobs \ {k} : StageOf(j)' = StageOf(j)
  PROVE  /\ Stage' = [Stage EXCEPT ![k] = StageOf(k)']
         /\ Stage[k] = StageOf(k)
         /\ StageOf(k)' = StageOf(k) => Stage' = Stage
<1>1. Stage = [j \in Jobs |-> StageOf(j)] /\ Stage' = [j \in Jobs |-> StageOf(j)']
  BY StageForm, StageFormNext
<1> QED BY <1>1

LEMMA AllStagesKept ==
  ASSUME OnePush, ServiceInv, ServiceInv', \A j \in Jobs : StageOf(j)' = StageOf(j)
  PROVE  Stage' = Stage
BY StageForm, StageFormNext

(* The steps of the service.                                               *)
Moves(k, from, to) == Stage[k] = from /\ Stage' = [Stage EXCEPT ![k] = to]

LEMMA ServiceMoves ==
  ASSUME NEW k \in Jobs, Stage \in [Jobs -> Service!Stages],
         \/ Moves(k, "idle", "queued") \/ Moves(k, "queued", "running")
         \/ Moves(k, "running", "delivered") \/ Moves(k, "running", "failed")
         \/ Moves(k, "running", "lost") \/ Moves(k, "queued", "lost")
  PROVE  Service!Next
<1>1. Moves(k, "idle", "queued") => Service!Accept(k)
  BY DEF Moves, Service!Accept
<1>2. Moves(k, "queued", "running") => Service!Begin(k)
  BY DEF Moves, Service!Begin
<1>3. Moves(k, "running", "delivered") \/ Moves(k, "running", "failed") => Service!Answer(k)
  BY DEF Moves, Service!Answer
<1>4. ASSUME Moves(k, "running", "lost") \/ Moves(k, "queued", "lost")
      PROVE  Service!Lose
  <2>1. Stage' = [j \in Jobs |-> IF j \in {k} THEN "lost" ELSE Stage[j]]
    BY <1>4 DEF Moves
  <2>2. \A j \in {k} : Stage[j] \in {"queued", "running"}
    BY <1>4 DEF Moves
  <2> QED BY <2>1, <2>2 DEF Service!Lose
<1> QED BY <1>1, <1>2, <1>3, <1>4 DEF Service!Next

(* LPUSH: the request is accepted.                                         *)
LEMMA EnqueueMoves ==
  ASSUME OnePush, ServiceInv, ServiceInv', NEW k \in Jobs, Enqueue(k)
  PROVE  Moves(k, "idle", "queued")
<1>1. pushed[k] = 0 /\ CopyOf(k, 1) \in Entry /\ ~Taken(k)
      /\ inbox[k].video = 0 /\ inbox[k].failed = 0
  BY ServiceFacts DEF Enqueue, OnePush
<1>2. /\ fate \in [Entry -> Fates] /\ pushed \in [Jobs -> 0..Copies]
  BY DEF ServiceInv, TruthInv, TypeInv, TypeOK
<1>3. /\ fate' = [fate EXCEPT ![CopyOf(k, 1)] = "open"]
      /\ pushed' = [pushed EXCEPT ![k] = 1]
      /\ held' = held /\ inbox' = inbox
  BY <1>1 DEF Enqueue, CopyOf, workerVars, userVars
<1>4. \A j \in Jobs : CopyOf(j, 1) = CopyOf(k, 1) => j = k
  BY DEF CopyOf
<1>5. ASSUME NEW j \in Jobs \ {k} PROVE StageOf(j)' = StageOf(j)
  <2>1. CopyOf(j, 1) \in Entry /\ CopyOf(j, 1) # CopyOf(k, 1)
    BY <1>4, ServiceFacts
  <2> QED BY <1>2, <1>3, <2>1, StageKept DEF Taken
<1>6. StageOf(k) = "idle"
  BY <1>1 DEF StageOf
<1>7. StageOf(k)' = "queued"
  <2>1. /\ inbox'[k].video = 0 /\ inbox'[k].failed = 0 /\ pushed'[k] = 1
        /\ fate'[CopyOf(k, 1)] = "open" /\ ~\E w \in Workers : held'[w] = CopyOf(k, 1)
    BY <1>1, <1>2, <1>3 DEF Taken
  <2> QED BY <2>1 DEF StageOf, Taken, CopyOf
<1> QED BY <1>5, <1>6, <1>7, OneStage DEF Moves
(* The entry a worker holds is the one entry of its job, and a worker that *)
(* has not answered yet works on a request that is running.                *)
LEMMA HeldStage ==
  ASSUME OnePush, ServiceInv, NEW w \in Workers, pc[w] \in Busy
  PROVE  /\ Job(w) \in Jobs /\ held[w] = CopyOf(Job(w), 1) /\ held[w] # None
         /\ fate[held[w]] = "open" /\ pushed[Job(w)] = 1 /\ Taken(Job(w))
         /\ pc[w] \notin Given => /\ StageOf(Job(w)) = "running"
                                  /\ inbox[Job(w)].video = 0 /\ inbox[Job(w)].failed = 0
<1>1. ConservationInv /\ TypeInv
  BY DEF ServiceInv, CountInv, TruthInv
<1>2. held[w] \in Entry /\ held[w] # None
  BY <1>1, HeldJob, ConstantFacts
<1>3. /\ Job(w) \in Jobs /\ fate[held[w]] = "open" /\ held[w].job = Job(w)
      /\ \A v \in Workers : held[v] = held[w] => v = w
  BY <1>1, <1>2, InHands DEF Job
<1>4. held[w] = CopyOf(Job(w), 1) /\ Taken(Job(w))
  BY <1>2, <1>3, ServiceFacts DEF Taken
<1>5. pushed[Job(w)] = 1
  BY <1>3, <1>4, ServiceFacts
<1>6. ASSUME pc[w] \notin Given
      PROVE  inbox[Job(w)].video = 0 /\ inbox[Job(w)].failed = 0
  <2>1. ~SpentEntry(CopyOf(Job(w), 1))
    BY <1>3, <1>4, <1>6 DEF SpentEntry, Closed, ClosedFates
  <2> QED BY <1>3, <2>1, ServiceFacts
<1> QED BY <1>2, <1>3, <1>4, <1>5, <1>6 DEF StageOf

LEMMA PopMoves ==
  ASSUME OnePush, ServiceInv, ServiceInv', NEW w \in Workers, Pop(w)
  PROVE  \E k \in Jobs : Moves(k, "queued", "running")
<1>1. /\ redis \in Seq(Entry) /\ held \in [Workers -> Entry \cup {None}]
      /\ redis # <<>> /\ held[w] = None
      /\ EntryConservation
  BY DEF Pop, ServiceInv, CountInv, ConservationInv, TypeInv, TypeOK, WorkerInv, Idle
<1>2. PICK e \in Entry : e = Head(redis) /\ Queued(e)
  <2>1. Head(redis) \in Entry /\ 1 \in DOMAIN redis /\ redis[1] = Head(redis)
    BY <1>1
  <2> QED BY <2>1 DEF Queued
<1>3. fate[e] = "open" /\ (\A v \in Workers : held[v] # e)
  BY <1>1, <1>2, ConstantFacts DEF EntryConservation
<1>4. PICK k \in Jobs : e = CopyOf(k, 1) /\ e.job = k
  BY CopyFacts, ServiceFacts
<1>5. /\ held' = [held EXCEPT ![w] = e]
      /\ UNCHANGED <<fate, inbox, pushed>>
  BY <1>2 DEF Pop, requestVars, userVars
<1>6. \A j \in Jobs : CopyOf(j, 1) = e => j = k
  BY <1>4 DEF CopyOf
<1>7. \A j \in Jobs : CopyOf(j, 1) # None
  BY ServiceFacts, ConstantFacts
<1>8. ASSUME NEW j \in Jobs \ {k} PROVE StageOf(j)' = StageOf(j)
  <2>1. (\E v \in Workers : held'[v] = CopyOf(j, 1)) <=> Taken(j)
    BY <1>1, <1>5, <1>6, <1>7 DEF Taken
  <2> QED BY <1>5, <2>1, StageKept
<1>9. /\ inbox[k].video = 0 /\ inbox[k].failed = 0 /\ pushed[k] # 0 /\ ~Taken(k)
  <2>1. ~SpentEntry(CopyOf(k, 1)) /\ ~Taken(k)
    BY <1>3, <1>4 DEF SpentEntry, Closed, ClosedFates, Taken
  <2> QED BY <1>3, <1>4, <2>1, ServiceFacts
<1>10. StageOf(k) = "queued"
  BY <1>3, <1>4, <1>9 DEF StageOf
<1>11. StageOf(k)' = "running"
  <2>1. \E v \in Workers : held'[v] = CopyOf(k, 1)
    BY <1>1, <1>4, <1>5
  <2> QED BY <1>3, <1>4, <1>5, <1>9, <2>1 DEF StageOf, Taken, CopyOf
<1> QED BY <1>8, <1>10, <1>11, OneStage DEF Moves

LEMMA PopFailsMoves ==
  ASSUME OnePush, ServiceInv, ServiceInv', NEW w \in Workers, PopFails(w), ~UNCHANGED fate
  PROVE  \E k \in Jobs : Moves(k, "queued", "lost")
<1>1. /\ redis \in Seq(Entry) /\ redis # <<>> /\ EntryConservation
      /\ fate \in [Entry -> Fates]
  BY DEF PopFails, ServiceInv, CountInv, ConservationInv, TypeInv, TypeOK
<1>2. PICK e \in Entry : e = Head(redis) /\ Queued(e)
  <2>1. Head(redis) \in Entry /\ 1 \in DOMAIN redis /\ redis[1] = Head(redis)
    BY <1>1
  <2> QED BY <2>1 DEF Queued
<1>3. fate[e] = "open" /\ (\A v \in Workers : held[v] # e)
  BY <1>1, <1>2, ConstantFacts DEF EntryConservation
<1>4. PICK k \in Jobs : e = CopyOf(k, 1) /\ e.job = k
  BY CopyFacts, ServiceFacts
<1>5. /\ fate' = [fate EXCEPT ![e] = "lost"]
      /\ UNCHANGED <<held, inbox, pushed>>
  BY <1>2 DEF PopFails, requestVars, userVars
<1>6. \A j \in Jobs : CopyOf(j, 1) = e => j = k
  BY <1>4 DEF CopyOf
<1>7. ASSUME NEW j \in Jobs \ {k} PROVE StageOf(j)' = StageOf(j)
  <2>1. fate'[CopyOf(j, 1)] = fate[CopyOf(j, 1)]
    BY <1>1, <1>5, <1>6, ServiceFacts
  <2> QED BY <1>5, <2>1, StageKept DEF Taken
<1>8. /\ inbox[k].video = 0 /\ inbox[k].failed = 0 /\ pushed[k] # 0 /\ ~Taken(k)
  <2>1. ~SpentEntry(CopyOf(k, 1)) /\ ~Taken(k)
    BY <1>3, <1>4 DEF SpentEntry, Closed, ClosedFates, Taken
  <2> QED BY <1>3, <1>4, <2>1, ServiceFacts
<1>9. StageOf(k) = "queued"
  BY <1>3, <1>4, <1>8 DEF StageOf
<1>10. StageOf(k)' = "lost"
  <2>1. fate'[CopyOf(k, 1)] = "lost" /\ inbox' = inbox /\ pushed' = pushed
    BY <1>1, <1>4, <1>5
  <2> QED BY <1>8, <2>1 DEF StageOf, CopyOf
<1> QED BY <1>7, <1>9, <1>10, OneStage DEF Moves

(* The video, or the message of failure, is shown.                         *)
LEMMA AnswerMoves ==
  ASSUME OnePush, ServiceInv, ServiceInv', [Next]_vars, NEW w \in Workers, pc[w] \in Busy,
         SendVideo(w) \/ ReportFailure(w)
  PROVE  \/ Moves(Job(w), "running", "delivered")
         \/ Moves(Job(w), "running", "failed")
         \/ Stage' = Stage
<1>job. PICK k \in Jobs : k = Job(w)
  BY HeldStage
<1>1. /\ StageOf(k) = "running" /\ pc[w] \notin Given
      /\ inbox[k].video = 0 /\ inbox[k].failed = 0
  BY <1>job, HeldStage DEF SendVideo, ReportFailure, Given
<1>2. UNCHANGED <<fate, pushed, held>>
  BY DEF SendVideo, ReportFailure, requestVars
<1>3. inbox \in [Jobs -> [video : Nat, unacked : Nat, tooLarge : Nat, failed : Nat]]
  BY DEF ServiceInv, TruthInv, TypeInv, TypeOK
<1>4. \/ UNCHANGED inbox
      \/ inbox' = [inbox EXCEPT ![k].video = @ + 1]
      \/ inbox' = [inbox EXCEPT ![k]["failed"] = @ + 1]
  BY <1>job DEF SendVideo, Deliver, ReportFailure, Notify
<1>5. ASSUME NEW j \in Jobs \ {k} PROVE StageOf(j)' = StageOf(j)
  <2>1. inbox'[j] = inbox[j]
    BY <1>3, <1>4
  <2> QED BY <1>2, <2>1, StageKept DEF Taken
<1>6. CASE UNCHANGED inbox
  <2>1. StageOf(k)' = StageOf(k)
    BY <1>1, <1>2, <1>6, StageKept DEF Taken
  <2> QED BY <1>1, <1>5, <2>1, OneStage
<1>7. CASE inbox' = [inbox EXCEPT ![k].video = @ + 1]
  <2>1. inbox'[k].video = 1
    BY <1>1, <1>3, <1>7
  <2>2. StageOf(k)' = "delivered"
    BY <2>1 DEF StageOf
  <2> QED BY <1>1, <1>5, <2>2, <1>job, OneStage DEF Moves
<1>8. CASE inbox' = [inbox EXCEPT ![k]["failed"] = @ + 1]
  <2>1. inbox'[k].video = 0 /\ inbox'[k].failed = 1
    BY <1>1, <1>3, <1>8
  <2>2. StageOf(k)' = "failed"
    BY <2>1 DEF StageOf
  <2> QED BY <1>1, <1>5, <2>2, <1>job, OneStage DEF Moves
<1> QED BY <1>4, <1>6, <1>7, <1>8

(* The worker settles the entry: the answer stands, and a request that got *)
(* none is lost.                                                           *)
LEMMA SettleMoves ==
  ASSUME OnePush, ServiceInv, ServiceInv', NEW w \in Workers, Settling(w)
  PROVE  Stage' = Stage \/ Moves(Job(w), "running", "lost")
<1>1. pc[w] \in Busy
  BY DEF Settling, MarkCompleted, MarkFailed, Busy
<1>job. PICK k \in Jobs : k = Job(w)
  BY <1>1, HeldStage
<1>2. /\ held[w] = CopyOf(k, 1) /\ fate[held[w]] = "open" /\ pushed[k] = 1
      /\ Taken(k)
  BY <1>job, <1>1, HeldStage
<1>3. /\ held \in [Workers -> Entry \cup {None}] /\ fate \in [Entry -> Fates]
  BY DEF ServiceInv, TruthInv, TypeInv, TypeOK
<1>4. /\ \E v \in {"delivered", "failed"} : fate' = [fate EXCEPT ![CopyOf(k, 1)] = v]
      /\ held' = [held EXCEPT ![w] = None]
      /\ UNCHANGED <<pushed, inbox>>
  BY <1>2 DEF Settling, MarkCompleted, MarkFailed, Settle, requestVars, userVars
<1>5. CopyOf(k, 1) \in Entry
  BY ServiceFacts
<1>6. ASSUME NEW j \in Jobs \ {k} PROVE StageOf(j)' = StageOf(j)
  <2>1. CopyOf(j, 1) # CopyOf(k, 1) /\ CopyOf(j, 1) # None /\ CopyOf(j, 1) \in Entry
    BY ServiceFacts, ConstantFacts DEF CopyOf
  <2>2. fate'[CopyOf(j, 1)] = fate[CopyOf(j, 1)]
    BY <1>3, <1>4, <2>1
  <2>3. (\E v \in Workers : held'[v] = CopyOf(j, 1)) <=> Taken(j)
    BY <1>2, <1>3, <1>4, <2>1 DEF Taken
  <2> QED BY <1>4, <2>2, <2>3, StageKept
<1>7. CASE inbox[k].video = 1 \/ inbox[k].failed = 1
  <2>1. StageOf(k)' = StageOf(k)
    BY <1>4, <1>7 DEF StageOf
  <2> QED BY <1>2, <1>6, <2>1, OneStage
<1>8. CASE ~(inbox[k].video = 1 \/ inbox[k].failed = 1)
  <2>1. StageOf(k) = "running"
    BY <1>2, <1>8 DEF StageOf
  <2>2. StageOf(k)' = "lost"
    <3>1. fate'[CopyOf(k, 1)] \in {"delivered", "failed"}
      BY <1>3, <1>4, <1>5
    <3> QED BY <1>2, <1>4, <1>8, <3>1 DEF StageOf, CopyOf
  <2> QED BY <1>2, <1>6, <2>1, <2>2, <1>job, OneStage DEF Moves
<1> QED BY <1>7, <1>8

(* The process ends: what was running is lost.                             *)
LEMMA CutOffMoves ==
  ASSUME OnePush, ServiceInv, ServiceInv', CutOff
  PROVE  Stage' = Stage \/ Service!Lose
<1> DEFINE S == {j \in Jobs : StageOf(j) = "running"}
<1>1. /\ fate' = [e \in Entry |-> IF \E w \in Workers : held[w] = e THEN "lost" ELSE fate[e]]
      /\ held' = [w \in Workers |-> None]
      /\ UNCHANGED <<pushed, inbox>>
  BY DEF CutOff, userVars
<1>2. ASSUME NEW j \in Jobs PROVE StageOf(j)' = IF j \in S THEN "lost" ELSE StageOf(j)
  <2>1. CopyOf(j, 1) \in Entry /\ CopyOf(j, 1) # None
        /\ (Taken(j) => fate[CopyOf(j, 1)] = "open")
    BY ServiceFacts, ConstantFacts
  <2>2. fate'[CopyOf(j, 1)] = IF Taken(j) THEN "lost" ELSE fate[CopyOf(j, 1)]
    BY <1>1, <2>1 DEF Taken
  <2>3. ~\E w \in Workers : held'[w] = CopyOf(j, 1)
    BY <1>1, <2>1
  <2>4. /\ inbox'[j] = inbox[j] /\ pushed'[j] = pushed[j]
    BY <1>1
  <2>5. StageOf(j)' =
          IF inbox[j].video = 1 THEN "delivered"
          ELSE IF inbox[j].failed = 1 THEN "failed"
          ELSE IF pushed[j] = 0 THEN "idle"
          ELSE IF Taken(j) \/ fate[CopyOf(j, 1)] # "open" THEN "lost"
          ELSE "queued"
    BY <2>2, <2>3, <2>4 DEF StageOf, Taken, CopyOf
  <2> QED BY <2>1, <2>5 DEF StageOf
<1>3. /\ Stage = [j \in Jobs |-> StageOf(j)] /\ Stage' = [j \in Jobs |-> StageOf(j)']
  BY StageForm, StageFormNext
<1>4. \A j \in S : Stage[j] = "running"
  BY <1>3
<1>5. S = {} => Stage' = Stage
  <2> HIDE DEF S
  <2> QED BY <1>2, <1>3
<1>6. Stage' = [j \in Jobs |-> IF j \in S THEN "lost" ELSE Stage[j]]
  <2> HIDE DEF S
  <2> QED BY <1>2, <1>3
<1>7. S \in SUBSET Jobs
  OBVIOUS
<1> QED BY <1>4, <1>5, <1>6, <1>7 DEF Service!Lose
(* Everything else leaves every stage alone.                               *)
LEMMA StepServes ==
  ASSUME OnePush, ServiceInv, ServiceInv', [Next]_vars
  PROVE  Service!Next \/ Stage' = Stage
<1>1. Stage \in [Jobs -> Service!Stages]
  <2>1. Stage = [j \in Jobs |-> StageOf(j)]
    BY StageForm
  <2>2. \A j \in Jobs : StageOf(j) \in Service!Stages
    BY DEF StageOf, Service!Stages
  <2> QED BY <2>1, <2>2
<1>2. ASSUME UNCHANGED <<fate, pushed, held>>,
             \A j \in Jobs : /\ inbox'[j].video = inbox[j].video
                             /\ inbox'[j].failed = inbox[j].failed
      PROVE  Stage' = Stage
  BY <1>2, StageKept, AllStagesKept DEF Taken
<1>3. inbox \in [Jobs -> [video : Nat, unacked : Nat, tooLarge : Nat, failed : Nat]] /\ TypeInv
  BY DEF ServiceInv, TruthInv, TypeInv, TypeOK
<1>4. ASSUME NEW j \in Jobs, Greet(j) \/ HandlerStep(j)
      PROVE  Service!Next \/ Stage' = Stage
  <2>1. Enqueue(j) => Service!Next
    BY <1>1, EnqueueMoves, ServiceMoves
  <2>2. Enqueue(j) \/ UNCHANGED <<fate, pushed, held, inbox>>
    BY <1>4 DEF HandlerStep, Greet, CreateRecord, CreateFails, Push, PushUnacknowledged,
                PushFails, workerVars, userVars
  <2> QED BY <1>2, <2>1, <2>2
<1>5. ASSUME NEW w \in Workers, WorkerStep(w)
      PROVE  Service!Next \/ Stage' = Stage
  <2>1. Pop(w) => Service!Next
    BY <1>1, PopMoves, ServiceMoves
  <2>2. CASE PopFails(w)
    <3>1. CASE UNCHANGED fate
      BY <1>2, <2>2, <3>1 DEF PopFails, requestVars, userVars
    <3>2. CASE ~UNCHANGED fate
      BY <1>1, <2>2, <3>2, PopFailsMoves, ServiceMoves
    <3> QED BY <3>1, <3>2
  <2>3. CASE SendVideo(w) \/ ReportFailure(w)
    <3>1. pc[w] \in Busy
      BY <2>3 DEF SendVideo, ReportFailure, Busy
    <3>2. Job(w) \in Jobs
      BY <1>3, <3>1, HeldJob
    <3> QED BY <1>1, <2>3, <3>1, <3>2, AnswerMoves, ServiceMoves
  <2>4. CASE Settling(w)
    <3>1. pc[w] \in Busy
      BY <2>4 DEF Settling, MarkCompleted, MarkFailed, Busy
    <3>2. Job(w) \in Jobs
      BY <1>3, <3>1, HeldJob
    <3> QED BY <1>1, <2>4, <3>2, SettleMoves, ServiceMoves
  <2>5. CASE Loop(w)
    BY <1>2, <2>5 DEF Loop, requestVars, userVars
  <2>6. CASE RejectTooLarge(w)
    <3>1. Job(w) \in Jobs /\ UNCHANGED <<fate, pushed, held>>
      BY <1>3, <2>6, HeldJob, WorkingStays DEF RejectTooLarge, Busy, Working
    <3>2. UNCHANGED inbox \/ inbox' = [inbox EXCEPT ![Job(w)]["tooLarge"] = @ + 1]
      BY <2>6 DEF RejectTooLarge, Notify
    <3> QED BY <1>2, <1>3, <3>1, <3>2
  <2>7. CASE Working(w) /\ ~(SendVideo(w) \/ ReportFailure(w) \/ RejectTooLarge(w))
    <3>1. UNCHANGED inbox
      BY <2>7 DEF Working, Begin, Launch, Download, DownloadFails, NoFileFound, FindFile,
                  StatFails, AcceptSize, SendVideoFails, TransportCleanup, Discard, userVars,
                  OnePush
    <3> QED BY <1>2, <2>7, <3>1, WorkingStays
  <2> QED BY <1>5, <2>1, <2>2, <2>3, <2>4, <2>5, <2>6, <2>7, WorkerKinds
<1>6. Crash \/ Exit => Service!Next \/ Stage' = Stage
  BY CutOffMoves DEF Crash, Exit, Service!Next
<1>7. Shutdown \/ Restart \/ UNCHANGED vars => Stage' = Stage
  BY <1>2 DEF Shutdown, Restart, requestVars, workerVars, userVars, vars
<1> QED BY <1>4, <1>5, <1>6, <1>7 DEF Next

(* The queue, the workers, their retries and a process that dies under     *)
(* them give what DownloadService promises: a request is taken up once,    *)
(* answered at most once and never after it was lost.                      *)
THEOREM PipelineServes ==
  ASSUME OnePush
  PROVE  Spec => ServiceSpec
<1>1. Init => ServiceInv
  <2> SUFFICES ASSUME Init
               PROVE  RecordTruthful /\ Told /\ \A j \in Jobs : inbox[j].unacked = 0
    BY InitCounts, InitType DEF ServiceInv, TruthInv
  <2> QED BY DEF Init, RecordTruthful, Told
<1>2. Init => Service!Init
  <2> SUFFICES ASSUME Init PROVE Stage = [j \in Jobs |-> "idle"]
    BY DEF Service!Init
  <2>1. Stage = [j \in Jobs |-> StageOf(j)]
    BY <1>1, StageForm
  <2>2. ASSUME NEW j \in Jobs PROVE StageOf(j) = "idle"
    <3>1. inbox[j].video = 0 /\ inbox[j].failed = 0 /\ pushed[j] = 0
      BY DEF Init
    <3> QED BY <3>1 DEF StageOf
  <2> QED BY <2>1, <2>2
<1>3. ServiceInv /\ [Next]_vars => ServiceInv'
  BY StepService
<1>4. ServiceInv /\ ServiceInv' /\ [Next]_vars => [Service!Next]_Stage
  BY StepServes
<1> QED BY <1>1, <1>2, <1>3, <1>4, PTL DEF Spec, ServiceSpec, Service!Spec

=============================================================================
