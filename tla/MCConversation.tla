--------------------------- MODULE MCConversation ---------------------------
(***************************************************************************)
(* Instances of Conversation for TLC: a chat, two videos with one format   *)
(* each and a Reel.  User 1 is user 1 of the table too; the other users'   *)
(* external ids are no users.id, as those of Telegram usually are not.     *)
(***************************************************************************)
EXTENDS Conversation

TheReels == Urls \cap {"reel"}

TheOffered == [url \in Urls |-> CASE url = "long"  -> {"720"}
                                  [] url = "short" -> {"360"}
                                  [] url = "reel"  -> {}]

TheAccount == [u \in Users |-> IF u = 1 THEN 1 ELSE None]
=============================================================================
