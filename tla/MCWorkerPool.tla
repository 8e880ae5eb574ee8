---------------------------- MODULE MCWorkerPool ----------------------------
(***************************************************************************)
(* Instances of WorkerPool for TLC.  Three requests: "a" and "b" come from *)
(* one user for one URL in two formats (one directory), "c" from another   *)
(* user through MAX, with a video above MAX's limit.                       *)
(***************************************************************************)
EXTENDS WorkerPool, TLC

TheFiles == {"v.mp4", "v.webm"}
TheVideoFiles == TheFiles
TheRank == "v.mp4" :> 1 @@ "v.webm" :> 2

TheDirs == {"user1", "user2"}
AllDir == "a" :> "user1" @@ "b" :> "user1" @@ "c" :> "user2"
AllFile == "a" :> "v.webm" @@ "b" :> "v.mp4" @@ "c" :> "v.mp4"
AllPlatform == "a" :> "telegram" @@ "b" :> "max" @@ "c" :> "max"
AllSize == "a" :> 40 @@ "b" :> 30 @@ "c" :> 60

TheDir == [j \in Jobs |-> AllDir[j]]
TheFile == [j \in Jobs |-> AllFile[j]]
ThePlatform == [j \in Jobs |-> AllPlatform[j]]
TheSize == [j \in Jobs |-> AllSize[j]]

WorkerSymmetry == Permutations(Workers)
==============================================================================
