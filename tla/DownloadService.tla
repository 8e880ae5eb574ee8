--------------------------- MODULE DownloadService ---------------------------
(***************************************************************************)
(* What the bot promises about the requests it has accepted, without the   *)
(* queue, the workers, the retries and the disk: a request waits, then is  *)
(* worked on, then is answered once and for all, by the video or by the    *)
(* failure message.  A fault may lose a request that has not been answered *)
(* yet; nothing answers a request that was lost, and nothing answers twice.*)
(* WorkerPool implements this (its operator Stage is the mapping).         *)
(***************************************************************************)
CONSTANT Jobs

VARIABLE stage   \* where each request is

Stages == {"idle", "queued", "running", "delivered", "failed", "lost"}

Init == stage = [j \in Jobs |-> "idle"]

Accept(j) ==
    /\ stage[j] = "idle"
    /\ stage' = [stage EXCEPT ![j] = "queued"]

Begin(j) ==
    /\ stage[j] = "queued"
    /\ stage' = [stage EXCEPT ![j] = "running"]

Answer(j) ==
    /\ stage[j] = "running"
    /\ \E a \in {"delivered", "failed"} : stage' = [stage EXCEPT ![j] = a]

(* One request is lost with the reply that carried it, or every request    *)
(* being worked on is lost with the process; a request whose failure       *)
(* message cannot be shown is lost as well.                                *)
Lose ==
    \E S \in SUBSET Jobs :
        /\ S # {}
        /\ \A j \in S : stage[j] \in {"queued", "running"}
        /\ stage' = [j \in Jobs |-> IF j \in S THEN "lost" ELSE stage[j]]

Next == (\E j \in Jobs : Accept(j) \/ Begin(j) \/ Answer(j)) \/ Lose

Spec == Init /\ [][Next]_stage
==============================================================================
