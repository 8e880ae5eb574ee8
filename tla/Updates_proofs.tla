--------------------------- MODULE Updates_proofs ---------------------------
(***************************************************************************)
(* Of Updates, for every stream, every number of users and deaths, every   *)
(* size of a reply and of the channel: type correctness, that MAX loses    *)
(* nothing and Telegram little, that the unique key refuses a user once,   *)
(* the order of the updates, and that old choices of a mode do not win.    *)
(***************************************************************************)
EXTENDS Updates, SequenceTheorems, FiniteSetTheorems, TLAPS

Shapes ==
    /\ TypeOK
    /\ DOMAIN sent = Platforms /\ DOMAIN confirmed = Platforms
    /\ DOMAIN offset = Platforms /\ DOMAIN last = Platforms
    /\ DOMAIN batch = Platforms /\ DOMAIN handler = Platforms
    /\ DOMAIN result = Platforms

(* Nothing but what a platform has received is on its way.                 *)
HeldSent ==
    /\ \A p \in Platforms :
          /\ \A k \in 1..Len(batch[p]) : batch[p][k] <= sent[p]
          /\ handler[p] # None => handler[p].id <= sent[p]
    /\ \A k \in 1..Len(channel) : channel[k] <= sent["telegram"]

(* s holds the updates up to end, one after the other.                     *)
UpTo(s, end) ==
    /\ Len(s) <= end
    /\ \A k \in 1..Len(s) : s[k] = (end - Len(s)) + k

(* What is passed on next comes after the last one taken, or after a       *)
(* confirmed one.                                                          *)
Reached(p, position) ==
    /\ last[p] \in {0, position}
    /\ last[p] = 0 => position <= confirmed[p]
    /\ offset[p] = 0 \/ confirmed[p] <= offset[p]

OrderInv ==
    /\ UpTo(channel, offset["telegram"])
    /\ Reached("telegram", offset["telegram"] - Len(channel))
    /\ UpTo(batch["max"], offset["max"])
    /\ Reached("max", offset["max"] - Len(batch["max"]))
    /\ \A k \in 1..Len(batch["telegram"]) :
          batch["telegram"][k] =
             (IF offset["telegram"] = 0 THEN confirmed["telegram"] ELSE offset["telegram"]) + k

(* MAX: what lies before the marker is handled, or held and not confirmed. *)
Handled(i) == result["max"][i] \in {"ok", "failed"}

MaxHolds(i) ==
    \/ \E k \in 1..Len(batch["max"]) : batch["max"][k] = i
    \/ handler["max"] # None /\ handler["max"].id = i

MaxInv ==
    /\ MaxLosesNothing
    /\ \A k \in 1..Len(batch["max"]) : batch["max"][k] > confirmed["max"]
    /\ handler["max"] # None => handler["max"].id > confirmed["max"]
    /\ proc = "running" => \A i \in 1..offset["max"] : Handled(i) \/ MaxHolds(i)

DownInv ==
    proc = "down" =>
        /\ channel = <<>>
        /\ \A p \in Platforms :
              offset[p] = 0 /\ last[p] = 0 /\ batch[p] = <<>> /\ handler[p] = None

(* An INSERT the key will refuse is the first one of its user that is.     *)
Creating(p, u) == AtStep(p, "create") /\ User(p) = u

RefusedInv ==
    /\ \A u \in Users :
          /\ refused[u] <= 1
          /\ users[u] = None => refused[u] = 0
          /\ \A p \in Platforms : Creating(p, u) => refused[u] = 0
    /\ \A u \in Users : users[u] # None =>
          \A p, q \in Platforms : Creating(p, u) /\ Creating(q, u) => p = q

IInv ==
    /\ Shapes
    /\ HeldSent
    /\ OrderInv
    /\ MaxInv
    /\ DownInv
    /\ RefusedInv

-----------------------------------------------------------------------------
Verdicts == {"none", "ok", "failed", "cancelled"}

LEMMA TwoPlatforms ==
    /\ "telegram" \in Platforms /\ "max" \in Platforms /\ "telegram" # "max"
    /\ \A p \in Platforms : p = "telegram" \/ p = "max"
BY DEF Platforms

LEMMA Streams ==
    \A p \in Platforms :
        /\ Stream[p] \in Seq([user : Users, kind : Kinds])
        /\ Len(Stream[p]) \in Nat
        /\ Ids(p) = 1..Len(Stream[p])
        /\ Ids(p) \subseteq AnyId
        /\ \A i \in Ids(p) : Stream[p][i].user \in Users /\ Stream[p][i].kind \in Kinds
<1> TAKE p \in Platforms
<1>1. Stream[p] \in Seq([user : Users, kind : Kinds])
  BY ConstantsAssumption
<1>2. Ids(p) \subseteq AnyId
  BY DEF AnyId
<1>3. Ids(p) = 1..Len(Stream[p])
  BY DEF Ids
<1>4. ASSUME NEW i \in 1..Len(Stream[p])
      PROVE  Stream[p][i].user \in Users /\ Stream[p][i].kind \in Kinds
  <2> DEFINE U == [user : Users, kind : Kinds]
  <2>1. Stream[p][i] \in U
    <3>1. Stream[p] \in Seq(U)
      BY <1>1
    <3> HIDE DEF U
    <3> QED BY <1>4, <3>1
  <2> QED BY <2>1
<1>5. Len(Stream[p]) \in Nat
  BY <1>1
<1> QED BY <1>1, <1>2, <1>3, <1>4, <1>5

LEMMA Shape ==
    ASSUME Shapes, NEW p \in Platforms
    PROVE  /\ sent[p] \in Nat /\ sent[p] <= Len(Stream[p])
           /\ confirmed[p] \in Nat /\ confirmed[p] <= sent[p]
           /\ offset[p] \in Nat /\ offset[p] <= sent[p]
           /\ last[p] \in Nat /\ last[p] <= sent[p]
           /\ batch[p] \in Seq(Ids(p)) /\ Len(batch[p]) \in Nat
           /\ DOMAIN batch[p] = 1..Len(batch[p])
           /\ \A k \in 1..Len(batch[p]) : batch[p][k] \in Ids(p)
           /\ handler[p] \in Handling \cup {None}
           /\ result[p] \in [Ids(p) -> Verdicts]
           /\ channel \in Seq(Ids("telegram")) /\ Len(channel) \in Nat
           /\ DOMAIN channel = 1..Len(channel)
           /\ \A k \in 1..Len(channel) : channel[k] \in Ids("telegram")
<1>1. /\ sent[p] \in 0..Len(Stream[p])
      /\ {confirmed[p], offset[p], last[p]} \subseteq 0..sent[p]
      /\ batch[p] \in Seq(Ids(p)) /\ channel \in Seq(Ids("telegram"))
      /\ handler[p] \in Handling \cup {None} /\ result[p] \in [Ids(p) -> Verdicts]
  BY DEF Shapes, TypeOK, Verdicts
<1> QED BY <1>1, Streams

(* A handler in hand has an update of the stream.                          *)
LEMMA InHand ==
    ASSUME Shapes, HeldSent, NEW p \in Platforms, handler[p] # None
    PROVE  /\ handler[p] \in Handling
           /\ handler[p].id \in Ids(p)
           /\ handler[p].pc \in {"find", "create", "work"}
           /\ User(p) \in Users
           /\ Update(p).kind \in Kinds
<1>1. handler[p] \in Handling /\ handler[p].id \in AnyId /\ handler[p].id <= sent[p]
  BY Shape DEF Handling, HeldSent
<1>2. handler[p].id \in Nat /\ handler[p].id >= 1
  BY <1>1, Streams DEF AnyId
<1>3. handler[p].id \in Ids(p)
  BY <1>1, <1>2, Shape, Streams
<1> QED BY <1>1, <1>3, Streams DEF Handling, User, Update

LEMMA InitInv == Init => IInv
<1> SUFFICES ASSUME Init PROVE IInv
  OBVIOUS
<1>1. Shapes
  <2>1. \A p \in Platforms : <<>> \in Seq(Ids(p)) /\ [i \in Ids(p) |-> "none"] \in [Ids(p) -> Verdicts]
    BY DEF Verdicts
  <2>2. <<>> \in Seq(Ids("telegram")) /\ MaxDeaths \in Nat
    BY ConstantsAssumption
  <2>3. \A p \in Platforms :
          /\ sent[p] \in 0..Len(Stream[p])
          /\ {confirmed[p], offset[p], last[p]} \subseteq 0..sent[p]
          /\ batch[p] = <<>> /\ handler[p] = None /\ result[p] = [i \in Ids(p) |-> "none"]
    BY Streams DEF Init
  <2>4. TypeOK
    BY <2>1, <2>2, <2>3 DEF Init, TypeOK, Verdicts
  <2> QED BY <2>4 DEF Init, Shapes
<1>2. HeldSent /\ OrderInv /\ MaxInv /\ DownInv
  BY TwoPlatforms
     DEF Init, HeldSent, OrderInv, UpTo, Reached, MaxInv, MaxLosesNothing, DownInv
<1>3. RefusedInv
  BY DEF Init, RefusedInv, Creating, AtStep
<1> QED BY <1>1, <1>2, <1>3 DEF IInv

-----------------------------------------------------------------------------
(* Fetching.                                                               *)

(* What RefusedInv sees.                                                   *)
LEMMA RefusedStutters ==
    ASSUME RefusedInv, UNCHANGED <<handler, users, refused>>
    PROVE  RefusedInv'
BY DEF RefusedInv, Creating, AtStep, User, Update

(* A new update on its way to the row begins at "find".                    *)
LEMMA RefusedBegins ==
    ASSUME RefusedInv, Shapes, NEW p \in Platforms, NEW id, Begin(p, id), id \in AnyId,
           UNCHANGED <<users, refused>>
    PROVE  RefusedInv'
<1>1. /\ handler' = [handler EXCEPT ![p] = [id |-> id, pc |-> "find"]]
      /\ DOMAIN handler = Platforms
  BY DEF Begin, Shapes
<1>2. \A q \in Platforms, u \in Users : Creating(q, u)' => Creating(q, u)
  BY <1>1 DEF Creating, AtStep, User, Update
<1> QED BY <1>2 DEF RefusedInv

LEMMA SendsInv ==
    ASSUME IInv, NEW p \in Platforms, UserSends(p)
    PROVE  IInv'
<1>t. Shapes /\ HeldSent /\ OrderInv /\ MaxInv /\ DownInv /\ RefusedInv
  BY DEF IInv
<1>1. /\ sent[p] < Len(Stream[p])
      /\ sent' = [sent EXCEPT ![p] = @ + 1]
      /\ UNCHANGED <<confirmed, proc, loop, offset, batch, channel, handler, users, last,
                     result, refused, deaths>>
  BY DEF UserSends, fetching, history
<1>2. \A q \in Platforms : sent'[q] \in 0..Len(Stream[q]) /\ sent'[q] >= sent[q]
  BY <1>t, <1>1, Shape, Streams DEF Shapes
<1>3. Shapes'
  <2>1. \A q \in Platforms : {confirmed[q], offset[q], last[q]} \subseteq 0..sent'[q]
    BY <1>t, <1>2, Shape, Streams
  <2> QED BY <1>t, <1>1, <1>2, <2>1 DEF Shapes, TypeOK
<1>4. HeldSent'
  <2>1. \A q \in Platforms, n \in Nat : n <= sent[q] => n <= sent'[q]
    BY <1>t, <1>2, Shape, Streams
  <2>2. \A q \in Platforms : handler[q] # None => handler[q].id \in Nat
    BY <1>t, InHand, Streams
  <2>3. \A q \in Platforms : handler'[q] # None => handler'[q].id <= sent'[q]
    BY <1>t, <1>1, <2>1, <2>2 DEF HeldSent
  <2>4. ASSUME NEW q \in Platforms, NEW k \in 1..Len(batch'[q])
        PROVE  batch'[q][k] <= sent'[q]
    <3>1. batch[q][k] \in Nat
      BY <1>t, <1>1, <2>4, Shape, Streams
    <3>2. batch[q][k] <= sent[q]
      BY <1>t, <1>1, <2>4 DEF HeldSent
    <3> QED BY <1>1, <2>1, <3>1, <3>2
  <2>5. ASSUME NEW k \in 1..Len(channel')
        PROVE  channel'[k] <= sent'["telegram"]
    <3>1. channel[k] \in Nat
      BY <1>t, <1>1, <2>5, Shape, Streams, TwoPlatforms
    <3>2. channel[k] <= sent["telegram"]
      BY <1>t, <1>1, <2>5 DEF HeldSent
    <3> QED BY <1>1, <2>1, <3>1, <3>2, TwoPlatforms
  <2> QED BY <2>3, <2>4, <2>5 DEF HeldSent
<1>5. OrderInv' /\ MaxInv' /\ DownInv'
  BY <1>t, <1>1 DEF OrderInv, UpTo, Reached, MaxInv, MaxLosesNothing, Handled, MaxHolds, DownInv
<1> QED BY <1>t, <1>1, <1>3, <1>4, <1>5, RefusedStutters DEF IInv

(* Reply and Confirm: the position, and the updates that follow it.        *)
LEMMA ConfirmInv ==
    ASSUME Shapes, NEW p \in Platforms, Confirm(p)
    PROVE  /\ DOMAIN confirmed' = Platforms
           /\ confirmed'[p] = IF confirmed[p] < offset[p] THEN offset[p] ELSE confirmed[p]
           /\ \A q \in Platforms \ {p} : confirmed'[q] = confirmed[q]
           /\ \A q \in Platforms : confirmed'[q] \in Nat /\ confirmed[q] <= confirmed'[q]
                                   /\ confirmed'[q] <= sent[q]
<1>1. /\ confirmed' = [confirmed EXCEPT ![p] =
                          IF confirmed[p] < offset[p] THEN offset[p] ELSE confirmed[p]]
      /\ DOMAIN confirmed = Platforms
  BY DEF Confirm, Shapes
<1> QED BY <1>1, Shape

LEMMA ReplyInv ==
    ASSUME Shapes, NEW p \in Platforms, Confirm(p), Reply(p), UNCHANGED sent
    PROVE  /\ DOMAIN batch' = Platforms
           /\ \A q \in Platforms \ {p} : batch'[q] = batch[q]
           /\ batch'[p] \in Seq(Ids(p))
           /\ Len(batch'[p]) \in Nat /\ confirmed'[p] + Len(batch'[p]) <= sent[p]
           /\ \A k \in 1..Len(batch'[p]) : batch'[p][k] = confirmed'[p] + k
<1>1. PICK n \in 0..Batch :
          /\ n <= sent[p] - confirmed'[p]
          /\ batch' = [batch EXCEPT ![p] = [k \in 1..n |-> confirmed'[p] + k]]
  BY DEF Reply
<1>2. n \in Nat
  BY ConstantsAssumption
<1>0. /\ confirmed'[p] \in Nat /\ sent[p] \in Nat /\ Len(Stream[p]) \in Nat
      /\ confirmed'[p] <= sent[p] /\ sent[p] <= Len(Stream[p])
      /\ Ids(p) = 1..Len(Stream[p])
  BY ConfirmInv, Shape, Streams
<1>3. \A k \in 1..n : confirmed'[p] + k \in Ids(p)
  BY <1>0, <1>1, <1>2
<1>4. /\ [k \in 1..n |-> confirmed'[p] + k] \in Seq(Ids(p))
      /\ Len([k \in 1..n |-> confirmed'[p] + k]) = n
  BY <1>2, <1>3
<1>5. batch'[p] = [k \in 1..n |-> confirmed'[p] + k] /\ DOMAIN batch' = Platforms
  BY <1>1 DEF Shapes
<1>6. confirmed'[p] + n <= sent[p]
  BY <1>1, <1>2, ConfirmInv, Shape
<1> QED BY <1>1, <1>2, <1>4, <1>5, <1>6 DEF Shapes

(* What comes again has yet to be handled; nothing else is forgotten.      *)
LEMMA ReplyResets ==
    ASSUME Shapes, NEW p \in Platforms, Confirm(p), Reply(p), UNCHANGED sent
    PROVE  /\ DOMAIN result' = Platforms
           /\ \A q \in Platforms \ {p} : result'[q] = result[q]
           /\ result'[p] \in [Ids(p) -> Verdicts]
           /\ \A i \in Ids(p) : result'[p][i] =
                 IF i > confirmed'[p] /\ i <= confirmed'[p] + Len(batch'[p])
                   THEN "none" ELSE result[p][i]
<1>1. PICK n \in 0..Batch :
          /\ batch' = [batch EXCEPT ![p] = [k \in 1..n |-> confirmed'[p] + k]]
          /\ result' = [result EXCEPT ![p] = [i \in Ids(p) |->
                IF i \in (confirmed'[p] + 1)..(confirmed'[p] + n) THEN "none" ELSE result[p][i]]]
  BY DEF Reply
<1>2. n \in Nat /\ confirmed'[p] \in Nat /\ Ids(p) = 1..Len(Stream[p]) /\ Len(Stream[p]) \in Nat
  BY ConstantsAssumption, ConfirmInv, Streams
<1>3. Len(batch'[p]) = n
  <2>1. batch'[p] = [k \in 1..n |-> confirmed'[p] + k]
    BY <1>1 DEF Shapes
  <2> QED BY <1>2, <2>1
<1>4. /\ DOMAIN result' = Platforms
      /\ \A q \in Platforms \ {p} : result'[q] = result[q]
      /\ result'[p] = [i \in Ids(p) |->
            IF i \in (confirmed'[p] + 1)..(confirmed'[p] + n) THEN "none" ELSE result[p][i]]
  BY <1>1 DEF Shapes
<1>5. \A i \in Ids(p) : result[p][i] \in Verdicts /\ i \in Nat
  BY <1>2, Shape
<1>6. \A i \in Ids(p) : result'[p][i] =
          IF i > confirmed'[p] /\ i <= confirmed'[p] + n THEN "none" ELSE result[p][i]
  BY <1>2, <1>4, <1>5
<1> QED BY <1>3, <1>4, <1>5, <1>6 DEF Verdicts

LEMMA FailsInv ==
    ASSUME IInv, NEW p \in Platforms, PollFails(p)
    PROVE  IInv'
<1>t. Shapes /\ HeldSent /\ OrderInv /\ MaxInv /\ DownInv /\ RefusedInv
  BY DEF IInv
<1>1. /\ Confirm(p)
      /\ p = "telegram" => batch["telegram"] = <<>>
      /\ p = "max" => /\ batch["max"] = <<>> /\ handler["max"] = None
                      /\ proc = "running"
      /\ UNCHANGED <<sent, proc, loop, offset, batch, channel, handler, users, last,
                     result, refused, deaths>>
  BY TwoPlatforms DEF PollFails, Ready, TelegramReady, MaxReady, fetching, history
<1>2. Shapes'
  <2>1. \A q \in Platforms : {confirmed'[q], offset[q], last[q]} \subseteq 0..sent[q]
    BY <1>t, <1>1, ConfirmInv, Shape
  <2> QED BY <1>t, <1>1, <2>1, ConfirmInv DEF Shapes, TypeOK
<1>3. HeldSent' /\ DownInv'
  BY <1>t, <1>1 DEF HeldSent, DownInv
<1>4. OrderInv'
  <2>1. ASSUME NEW q \in Platforms, NEW m \in Int, Reached(q, m), m <= offset[q]
        PROVE  /\ last'[q] \in {0, m}
               /\ last'[q] = 0 => m <= confirmed'[q]
               /\ offset'[q] = 0 \/ confirmed'[q] <= offset'[q]
    <3>1. /\ offset[q] \in Nat /\ confirmed[q] \in Nat /\ confirmed'[q] \in Nat
          /\ confirmed[q] <= confirmed'[q]
          /\ confirmed'[q] = confirmed[q]
             \/ (confirmed[q] < offset[q] /\ confirmed'[q] = offset[q])
      BY <1>t, <1>1, <2>1, ConfirmInv, Shape
    <3> QED BY <1>1, <2>1, <3>1 DEF Reached
  <2>2. offset["telegram"] - Len(channel) \in Int /\ offset["max"] - Len(batch["max"]) \in Int
        /\ offset["telegram"] - Len(channel) <= offset["telegram"]
        /\ offset["max"] - Len(batch["max"]) <= offset["max"]
    BY <1>t, Shape, TwoPlatforms
  <2>3. Reached("telegram", offset["telegram"] - Len(channel))'
        /\ Reached("max", offset["max"] - Len(batch["max"]))'
    BY <1>t, <1>1, <2>1, <2>2, TwoPlatforms DEF OrderInv, Reached
  <2>4. \A k \in 1..Len(batch'["telegram"]) :
          batch'["telegram"][k] =
             (IF offset'["telegram"] = 0 THEN confirmed'["telegram"] ELSE offset'["telegram"]) + k
    <3>1. CASE p = "telegram"
      BY <1>1, <3>1, Shape
    <3>2. CASE p = "max"
      BY <1>t, <1>1, <3>2, ConfirmInv, TwoPlatforms DEF OrderInv
    <3> QED BY <3>1, <3>2, TwoPlatforms
  <2> QED BY <1>t, <1>1, <2>3, <2>4 DEF OrderInv, UpTo
<1>5. MaxInv'
  <2>1. CASE p = "telegram"
    BY <1>t, <1>1, <2>1, ConfirmInv, TwoPlatforms DEF MaxInv, MaxLosesNothing, Handled, MaxHolds
  <2>2. CASE p = "max"
    <3>1. \A i \in 1..offset["max"] : Handled(i)
      BY <1>t, <1>1, <2>2 DEF MaxInv, MaxHolds
    <3>2. \A i \in 1..confirmed'["max"] : Handled(i)
      BY <1>t, <1>1, <2>2, <3>1, ConfirmInv, Shape, TwoPlatforms
         DEF MaxInv, MaxLosesNothing, Handled
    <3> QED BY <1>t, <1>1, <2>2, <3>1, <3>2 DEF MaxInv, MaxLosesNothing, Handled, MaxHolds
  <2> QED BY <2>1, <2>2, TwoPlatforms
<1> QED BY <1>t, <1>1, <1>2, <1>3, <1>4, <1>5, RefusedStutters DEF IInv

LEMMA TelegramPollInv ==
    ASSUME IInv, TelegramPoll
    PROVE  IInv'
<1> DEFINE t == "telegram"
<1>t. Shapes /\ HeldSent /\ OrderInv /\ MaxInv /\ DownInv /\ RefusedInv
  BY DEF IInv
<1>p. t \in Platforms /\ "max" \in Platforms /\ "max" \in Platforms \ {t}
  BY TwoPlatforms
<1>1. /\ proc # "down" /\ batch[t] = <<>>
      /\ Confirm(t) /\ Reply(t)
      /\ UNCHANGED <<sent, proc, loop, offset, channel, handler, users, last,
                     refused, deaths>>
  BY DEF TelegramPoll, TelegramReady
<1> HIDE DEF t
<1>2. Shapes'
  <2>1. \A q \in Platforms : {confirmed'[q], offset[q], last[q]} \subseteq 0..sent[q]
    BY <1>t, <1>1, <1>p, ConfirmInv, Shape
  <2>2. \A q \in Platforms : batch'[q] \in Seq(Ids(q))
    BY <1>t, <1>1, <1>p, ReplyInv, Shape
  <2>3. DOMAIN result' = Platforms /\ \A q \in Platforms : result'[q] \in [Ids(q) -> Verdicts]
    BY <1>t, <1>1, <1>p, ReplyResets, Shape
  <2> QED BY <1>t, <1>1, <1>p, <2>1, <2>2, <2>3, ConfirmInv, ReplyInv
          DEF Shapes, TypeOK, Verdicts
<1>3. HeldSent'
  <2>1. \A k \in 1..Len(batch'[t]) : batch'[t][k] <= sent[t]
    BY <1>t, <1>1, <1>p, ReplyInv, ConfirmInv, Shape
  <2> QED BY <1>t, <1>1, <1>p, <2>1, ReplyInv DEF HeldSent, t
<1>4. DownInv'
  BY <1>1 DEF DownInv
<1>5. OrderInv'
  <2>1. Reached(t, offset[t] - Len(channel))'
    <3>1. Reached(t, offset[t] - Len(channel))
      BY <1>t DEF OrderInv, t
    <3> QED BY <1>t, <1>1, <1>p, <3>1, ConfirmInv, Shape DEF Reached
  <2>2. \A k \in 1..Len(batch'[t]) :
          batch'[t][k] = (IF offset[t] = 0 THEN confirmed'[t] ELSE offset[t]) + k
    <3>1. offset[t] # 0 => confirmed'[t] = offset[t]
      BY <1>t, <1>1, <1>p, ConfirmInv, Shape DEF OrderInv, Reached, t
    <3> QED BY <1>t, <1>1, <1>p, <3>1, ReplyInv
  <2>3. batch'["max"] = batch["max"] /\ confirmed'["max"] = confirmed["max"]
    BY <1>t, <1>1, <1>p, ReplyInv, ConfirmInv
  <2> QED BY <1>t, <1>1, <2>1, <2>2, <2>3 DEF OrderInv, UpTo, Reached, t
<1>6. MaxInv'
  <2>1. /\ batch'["max"] = batch["max"] /\ confirmed'["max"] = confirmed["max"]
        /\ result'["max"] = result["max"]
    BY <1>t, <1>1, <1>p, ReplyInv, ReplyResets, ConfirmInv
  <2> QED BY <1>t, <1>1, <2>1 DEF MaxInv, MaxLosesNothing, Handled, MaxHolds
<1> QED BY <1>t, <1>1, <1>2, <1>3, <1>4, <1>5, <1>6, RefusedStutters DEF IInv

LEMMA MaxPollInv ==
    ASSUME IInv, MaxPoll
    PROVE  IInv'
<1> DEFINE m == "max"
<1>t. Shapes /\ HeldSent /\ OrderInv /\ MaxInv /\ DownInv /\ RefusedInv
  BY DEF IInv
<1>p. m \in Platforms /\ "telegram" \in Platforms /\ "telegram" \in Platforms \ {m}
  BY TwoPlatforms
<1>1. /\ proc = "running" /\ batch[m] = <<>> /\ handler[m] = None
      /\ Confirm(m) /\ Reply(m)
      /\ offset' = [offset EXCEPT ![m] = confirmed'[m] + Len(batch'[m])]
      /\ UNCHANGED <<sent, proc, loop, channel, handler, users, last, refused, deaths>>
  BY DEF MaxPoll, MaxReady
<1> HIDE DEF m
<1>n. /\ offset'[m] = confirmed'[m] + Len(batch'[m]) /\ DOMAIN offset' = Platforms
      /\ \A q \in Platforms \ {m} : offset'[q] = offset[q]
  BY <1>t, <1>1, <1>p DEF Shapes
<1>c. confirmed'[m] \in Nat /\ Len(batch'[m]) \in Nat
  BY <1>t, <1>1, <1>p, ConfirmInv, ReplyInv
<1>e. /\ batch'["telegram"] = batch["telegram"] /\ confirmed'["telegram"] = confirmed["telegram"]
      /\ offset'["telegram"] = offset["telegram"]
  BY <1>t, <1>1, <1>p, <1>n, ReplyInv, ConfirmInv
<1>2. Shapes'
  <2>1. \A q \in Platforms : {confirmed'[q], offset'[q], last[q]} \subseteq 0..sent[q]
    BY <1>t, <1>1, <1>p, <1>n, <1>c, ConfirmInv, ReplyInv, Shape
  <2>2. \A q \in Platforms : batch'[q] \in Seq(Ids(q))
    BY <1>t, <1>1, <1>p, ReplyInv, Shape
  <2>3. DOMAIN result' = Platforms /\ \A q \in Platforms : result'[q] \in [Ids(q) -> Verdicts]
    BY <1>t, <1>1, <1>p, ReplyResets, Shape
  <2> QED BY <1>t, <1>1, <1>p, <1>n, <2>1, <2>2, <2>3, ConfirmInv, ReplyInv
          DEF Shapes, TypeOK, Verdicts
<1>3. HeldSent'
  <2>1. \A k \in 1..Len(batch'[m]) : batch'[m][k] <= sent[m]
    BY <1>t, <1>1, <1>p, <1>c, ReplyInv, ConfirmInv, Shape
  <2> QED BY <1>t, <1>1, <1>p, <2>1, ReplyInv DEF HeldSent
<1>4. DownInv'
  BY <1>1 DEF DownInv
<1>5. OrderInv'
  <2>1. UpTo(batch'[m], offset'[m])
    BY <1>t, <1>1, <1>p, <1>n, <1>c, ReplyInv DEF UpTo
  <2>2. Reached(m, offset[m] - Len(batch[m]))'
    <3>1. Reached(m, offset[m] - Len(batch[m])) /\ Len(batch[m]) = 0
      BY <1>t, <1>1 DEF OrderInv, m
    <3>2. last[m] # 0 => last[m] = confirmed'[m]
      BY <1>t, <1>1, <1>p, <3>1, ConfirmInv, Shape DEF Reached
    <3>3. offset'[m] - Len(batch'[m]) = confirmed'[m] /\ confirmed'[m] <= offset'[m]
      BY <1>n, <1>c
    <3> QED BY <1>1, <1>c, <3>2, <3>3 DEF Reached
  <2> QED BY <1>t, <1>1, <1>e, <2>1, <2>2 DEF OrderInv, UpTo, Reached, m
<1>6. MaxInv'
  <2>1. \A i \in 1..offset[m] : Handled(i)
    BY <1>t, <1>1 DEF MaxInv, MaxHolds, m
  <2>2. \A i \in 1..confirmed'[m] : Handled(i)'
    <3>1. \A i \in 1..confirmed'[m] : Handled(i)
      BY <1>t, <1>1, <1>p, <2>1, ConfirmInv, Shape DEF MaxInv, MaxLosesNothing, Handled, m
    <3>2. \A i \in 1..confirmed'[m] : i \in Ids(m) /\ ~(i > confirmed'[m])
      BY <1>t, <1>1, <1>p, <1>c, ConfirmInv, Shape, Streams
    <3>3. \A i \in 1..confirmed'[m] : result'[m][i] = result[m][i]
      BY <1>t, <1>1, <1>p, <3>2, ReplyResets
    <3> QED BY <3>1, <3>3 DEF Handled, m
  <2>3. \A k \in 1..Len(batch'[m]) : batch'[m][k] > confirmed'[m]
    BY <1>t, <1>1, <1>p, <1>c, ReplyInv
  <2>4. \A i \in 1..offset'[m] : i <= confirmed'[m] \/ \E k \in 1..Len(batch'[m]) : batch'[m][k] = i
    <3>1. ASSUME NEW i \in 1..offset'[m], i > confirmed'[m]
          PROVE  (i - confirmed'[m]) \in 1..Len(batch'[m])
                 /\ batch'[m][i - confirmed'[m]] = i
      <4>1. (i - confirmed'[m]) \in 1..Len(batch'[m])
        BY <1>n, <1>c, <3>1
      <4>2. batch'[m][i - confirmed'[m]] = confirmed'[m] + (i - confirmed'[m])
        BY <1>t, <1>1, <1>p, <4>1, ReplyInv
      <4> QED BY <1>c, <4>1, <4>2
    <3> QED BY <1>c, <1>n, <3>1
  <2>5. \A i \in 1..offset'[m] : Handled(i)' \/ MaxHolds(i)'
    BY <1>c, <1>n, <2>2, <2>4 DEF MaxHolds, m
  <2> QED BY <1>1, <2>2, <2>3, <2>5 DEF MaxInv, MaxLosesNothing, Handled, m
<1> QED BY <1>t, <1>1, <1>2, <1>3, <1>4, <1>5, <1>6, RefusedStutters DEF IInv

LEMMA HeadAndTail ==
    ASSUME NEW S, NEW s \in Seq(S), s # <<>>
    PROVE  /\ Len(s) \in Nat /\ Len(s) >= 1
           /\ Head(s) = s[1] /\ s[1] \in S
           /\ Tail(s) \in Seq(S) /\ Len(Tail(s)) = Len(s) - 1
           /\ \A k \in 1..(Len(s) - 1) : Tail(s)[k] = s[k + 1]
<1>1. Len(s) \in Nat /\ Len(s) # 0
  BY EmptySeq
<1> QED BY <1>1

LEMMA OneTaken ==
    ASSUME NEW o \in Nat, NEW n \in Nat
    PROVE  /\ o - (n - 1) = (o - n) + 1
           /\ \A k \in Nat : (o - n) + (k + 1) = (o - (n - 1)) + k
           /\ n <= o => n - 1 <= o
OBVIOUS

LEMMA PassInv ==
    ASSUME IInv, Pass
    PROVE  IInv'
<1> DEFINE t == "telegram"
           h == Head(batch[t])
           b == IF offset[t] = 0 THEN confirmed[t] ELSE offset[t]
<1>t. Shapes /\ HeldSent /\ OrderInv /\ MaxInv /\ DownInv /\ RefusedInv
  BY DEF IInv
<1>p. t \in Platforms /\ "max" \in Platforms /\ "max" # t
  BY TwoPlatforms
<1>1. /\ proc # "down" /\ batch[t] # <<>>
      /\ offset' = [offset EXCEPT ![t] = h]
      /\ channel' = Append(channel, h)
      /\ batch' = [batch EXCEPT ![t] = Tail(batch[t])]
      /\ UNCHANGED <<sent, confirmed, proc, loop, handler, users, last, result, refused, deaths>>
  BY DEF Pass, server, history
<1>s. batch[t] \in Seq(Ids(t)) /\ Len(batch[t]) \in Nat /\ channel \in Seq(Ids(t)) /\ Len(channel) \in Nat
      /\ Ids(t) = 1..Len(Stream[t]) /\ Len(Stream[t]) \in Nat /\ sent[t] \in Nat
      /\ offset[t] \in Nat /\ confirmed[t] \in Nat /\ last[t] \in Nat
  BY <1>t, <1>p, Shape, Streams DEF t
<1> HIDE DEF t
<1>2. /\ h = batch[t][1] /\ h \in Ids(t) /\ h <= sent[t] /\ h = b + 1
      /\ Len(batch[t]) >= 1 /\ Len(Tail(batch[t])) = Len(batch[t]) - 1
      /\ Tail(batch[t]) \in Seq(Ids(t))
      /\ \A k \in 1..(Len(batch[t]) - 1) : Tail(batch[t])[k] = batch[t][k + 1]
  <2>1. /\ h = batch[t][1] /\ h \in Ids(t)
        /\ Len(batch[t]) >= 1 /\ Len(Tail(batch[t])) = Len(batch[t]) - 1
        /\ Tail(batch[t]) \in Seq(Ids(t))
        /\ \A k \in 1..(Len(batch[t]) - 1) : Tail(batch[t])[k] = batch[t][k + 1]
    BY <1>1, <1>s, HeadAndTail
  <2>2. h <= sent[t]
    BY <1>t, <1>p, <1>s, <2>1 DEF HeldSent
  <2>3. h = b + 1
    <3>1. 1 \in 1..Len(batch[t])
      BY <1>s, <2>1
    <3>2. \A k \in 1..Len(batch[t]) : batch[t][k] = b + k
      BY <1>t DEF OrderInv, t
    <3> QED BY <2>1, <3>1, <3>2
  <2> QED BY <2>1, <2>2, <2>3
<1>3. /\ offset'[t] = h /\ DOMAIN offset' = Platforms /\ DOMAIN batch' = Platforms
      /\ batch'[t] = Tail(batch[t])
      /\ \A q \in Platforms : q # t => offset'[q] = offset[q] /\ batch'[q] = batch[q]
  BY <1>t, <1>1, <1>p DEF Shapes
<1>4. /\ channel' \in Seq(Ids(t)) /\ Len(channel') = Len(channel) + 1
      /\ channel'[Len(channel) + 1] = h
      /\ \A k \in 1..Len(channel) : channel'[k] = channel[k]
  BY <1>1, <1>2, <1>s
<1> HIDE DEF h
<1>5. b \in Nat
  BY <1>s
<1>6. Shapes'
  <2>1. \A q \in Platforms : {confirmed[q], offset'[q], last[q]} \subseteq 0..sent[q]
    <3>1. h \in 0..sent[t]
      BY <1>2, <1>s
    <3> QED BY <1>t, <1>3, <3>1, Shape
  <2>2. \A q \in Platforms : batch'[q] \in Seq(Ids(q))
    BY <1>t, <1>2, <1>3, Shape
  <2> QED BY <1>t, <1>1, <1>3, <1>4, <2>1, <2>2 DEF Shapes, TypeOK, t
<1>7. HeldSent'
  <2>1. \A k \in 1..Len(batch'[t]) : batch'[t][k] <= sent[t]
    <3>1. \A k \in 1..Len(batch[t]) : batch[t][k] <= sent[t]
      BY <1>t, <1>p DEF HeldSent
    <3> QED BY <1>2, <1>3, <1>s, <3>1
  <2>2. \A k \in 1..Len(channel') : channel'[k] <= sent[t]
    <3>1. \A k \in 1..Len(channel) : channel[k] <= sent[t]
      BY <1>t DEF HeldSent, t
    <3>2. \A k \in 1..Len(channel') : k \in 1..Len(channel) \/ k = Len(channel) + 1
      <4>1. Len(channel) \in Nat
        BY <1>s
      <4> QED BY <1>4, <4>1
    <3> QED BY <1>2, <1>4, <3>1, <3>2
  <2>3. /\ \A q \in Platforms : q # t => \A k \in 1..Len(batch'[q]) : batch'[q][k] <= sent'[q]
        /\ \A q \in Platforms : handler'[q] # None => handler'[q].id <= sent'[q]
    BY <1>t, <1>1, <1>3 DEF HeldSent
  <2>4. \A q \in Platforms : \A k \in 1..Len(batch'[q]) : batch'[q][k] <= sent'[q]
    BY <1>1, <2>1, <2>3
  <2> QED BY <1>1, <2>2, <2>3, <2>4 DEF HeldSent, t
<1>8. OrderInv'
  <2>0. /\ UpTo(channel, offset[t]) /\ Reached(t, offset[t] - Len(channel))
        /\ \A k \in 1..Len(batch[t]) : batch[t][k] = b + k
    BY <1>t DEF OrderInv, t
  <2>1. UpTo(channel', offset'[t])
    <3>1. CASE offset[t] = 0
      <4>1. Len(channel) = 0
        BY <1>s, <2>0, <3>1 DEF UpTo
      <4> QED BY <1>2, <1>3, <1>4, <1>5, <1>s, <4>1 DEF UpTo
    <3>2. CASE offset[t] # 0
      <4>1. h = offset[t] + 1
        BY <1>2, <3>2
      <4>2. \A k \in 1..Len(channel) : channel'[k] = (h - Len(channel')) + k
        BY <1>4, <1>s, <2>0, <4>1 DEF UpTo
      <4>3. Len(channel') <= h
        BY <1>4, <1>s, <2>0, <4>1 DEF UpTo
      <4>4. (h - Len(channel')) + (Len(channel) + 1) = h
        BY <1>4, <1>s, <4>1
      <4>5. \A k \in 1..Len(channel') : k \in 1..Len(channel) \/ k = Len(channel) + 1
        BY <1>4, <1>s
      <4> QED BY <1>3, <1>4, <4>2, <4>3, <4>4, <4>5 DEF UpTo
    <3> QED BY <3>1, <3>2
  <2>2. Reached(t, offset[t] - Len(channel))'
    <3>1. CASE offset[t] = 0
      <4>1. Len(channel) = 0 /\ last[t] = 0
        BY <1>s, <2>0, <3>1 DEF UpTo, Reached
      <4> QED BY <1>1, <1>2, <1>3, <1>4, <1>s, <3>1, <4>1 DEF Reached
    <3>2. CASE offset[t] # 0
      <4>1. offset'[t] - Len(channel') = offset[t] - Len(channel) /\ confirmed[t] <= offset'[t]
        <5>1. h = offset[t] + 1 /\ confirmed[t] <= offset[t]
          BY <1>2, <2>0, <3>2 DEF Reached
        <5>2. offset[t] \in Nat /\ Len(channel) \in Nat /\ confirmed[t] \in Nat
          BY <1>s
        <5>3. offset'[t] = offset[t] + 1 /\ Len(channel') = Len(channel) + 1
          BY <1>3, <1>4, <5>1
        <5> HIDE DEF b
        <5> QED BY <5>1, <5>2, <5>3
      <4>2. offset'[t] # 0
        BY <1>2, <1>3, <1>5
      <4> HIDE DEF b
      <4> QED BY <1>1, <2>0, <4>1, <4>2 DEF Reached
    <3> QED BY <3>1, <3>2
  <2>3. \A k \in 1..Len(batch'[t]) : batch'[t][k] = (IF offset'[t] = 0 THEN confirmed'[t] ELSE offset'[t]) + k
    <3>1. offset'[t] # 0 /\ offset'[t] = b + 1
      BY <1>2, <1>3, <1>5
    <3>2. \A k \in 1..(Len(batch[t]) - 1) : (k + 1) \in 1..Len(batch[t]) /\ batch[t][k + 1] = b + (k + 1)
      BY <1>s, <2>0
    <3> HIDE DEF b
    <3> QED BY <1>2, <1>3, <1>5, <1>s, <3>1, <3>2
  <2>4. UpTo(batch["max"], offset["max"])' /\ Reached("max", offset["max"] - Len(batch["max"]))'
    BY <1>t, <1>1, <1>3, <1>p DEF OrderInv, UpTo, Reached
  <2> QED BY <2>1, <2>2, <2>3, <2>4 DEF OrderInv, t
<1>9. MaxInv' /\ DownInv'
  BY <1>t, <1>1, <1>3, <1>p DEF MaxInv, MaxLosesNothing, Handled, MaxHolds, DownInv
<1> QED BY <1>t, <1>1, <1>6, <1>7, <1>8, <1>9, RefusedStutters DEF IInv

LEMMA BeginInv ==
    ASSUME Shapes, NEW p \in Platforms, NEW id \in Ids(p), Begin(p, id)
    PROVE  /\ DOMAIN handler' = Platforms /\ DOMAIN last' = Platforms
           /\ last'[p] = id
           /\ handler'[p] \in Handling /\ handler'[p].id = id /\ handler'[p] # None
           /\ \A q \in Platforms : q # p => handler'[q] = handler[q] /\ last'[q] = last[q]
<1>1. /\ handler' = [handler EXCEPT ![p] = [id |-> id, pc |-> "find"]]
      /\ last' = [last EXCEPT ![p] = id]
  BY DEF Begin
<1>2. [id |-> id, pc |-> "find"] \in Handling
  BY Streams DEF Handling
<1>3. None \notin Handling
  BY ConstantsAssumption
<1> QED BY <1>1, <1>2, <1>3 DEF Shapes

LEMMA TelegramTakeInv ==
    ASSUME IInv, TelegramTake
    PROVE  IInv' /\ last'["telegram"] = Head(channel)
<1> DEFINE t == "telegram"
           h == Head(channel)
<1>t. Shapes /\ HeldSent /\ OrderInv /\ MaxInv /\ DownInv /\ RefusedInv
  BY DEF IInv
<1>p. t \in Platforms /\ "max" \in Platforms /\ "max" # t
  BY TwoPlatforms
<1>1. /\ handler[t] = None /\ channel # <<>>
      /\ Begin(t, h)
      /\ channel' = Tail(channel)
      /\ UNCHANGED <<sent, confirmed, proc, loop, offset, batch, users, result, refused, deaths>>
  BY DEF TelegramTake, server
<1>s. /\ channel \in Seq(Ids(t)) /\ Len(channel) \in Nat
      /\ Ids(t) = 1..Len(Stream[t]) /\ Len(Stream[t]) \in Nat /\ sent[t] \in Nat
      /\ offset[t] \in Nat /\ confirmed[t] \in Nat /\ last[t] \in Nat
  BY <1>t, <1>p, Shape, Streams DEF t
<1> HIDE DEF t
<1>2. /\ h = channel[1] /\ h \in Ids(t)
      /\ Len(channel) >= 1 /\ Len(Tail(channel)) = Len(channel) - 1
      /\ Tail(channel) \in Seq(Ids(t))
      /\ \A k \in 1..(Len(channel) - 1) : Tail(channel)[k] = channel[k + 1]
  BY <1>1, <1>s, HeadAndTail
<1> HIDE DEF h
<1>3. h <= sent[t] /\ h = (offset[t] - Len(channel)) + 1
  BY <1>t, <1>2, <1>s DEF HeldSent, OrderInv, UpTo, t
<1>4. /\ DOMAIN handler' = Platforms /\ DOMAIN last' = Platforms
      /\ last'[t] = h
      /\ handler'[t] \in Handling /\ handler'[t].id = h /\ handler'[t] # None
      /\ \A q \in Platforms : q # t => handler'[q] = handler[q] /\ last'[q] = last[q]
  BY <1>t, <1>p, <1>1, <1>2, BeginInv
<1>5. Shapes'
  <2>1. \A q \in Platforms : {confirmed[q], offset[q], last'[q]} \subseteq 0..sent[q]
    BY <1>t, <1>2, <1>3, <1>4, <1>s, Shape
  <2>2. \A q \in Platforms : handler'[q] \in Handling \cup {None}
    BY <1>t, <1>4, Shape
  <2> QED BY <1>t, <1>1, <1>2, <1>4, <2>1, <2>2 DEF Shapes, TypeOK, t
<1>6. HeldSent'
  <2>1. \A k \in 1..Len(channel') : channel'[k] <= sent[t]
    <3>1. \A k \in 1..Len(channel) : channel[k] <= sent[t]
      BY <1>t DEF HeldSent, t
    <3> QED BY <1>1, <1>2, <1>s, <3>1
  <2> QED BY <1>t, <1>1, <1>3, <1>4, <2>1 DEF HeldSent, t
<1>7. OrderInv'
  <2>0. UpTo(channel, offset[t]) /\ Reached(t, offset[t] - Len(channel))
    BY <1>t DEF OrderInv, t
  <2>1. UpTo(channel', offset[t])
    <3>1. \A k \in 1..(Len(channel) - 1) : (k + 1) \in 1..Len(channel)
                                          /\ channel[k + 1] = (offset[t] - Len(channel)) + (k + 1)
      BY <1>s, <2>0 DEF UpTo
    <3>2. Len(channel') = Len(channel) - 1 /\ Len(channel) <= offset[t]
      BY <1>1, <1>2, <2>0 DEF UpTo
    <3>3. /\ Len(channel) - 1 <= offset[t]
          /\ \A k \in 1..(Len(channel) - 1) :
                (offset[t] - Len(channel)) + (k + 1) = (offset[t] - (Len(channel) - 1)) + k
      <4>1. offset[t] \in Nat /\ Len(channel) \in Nat
        BY <1>s
      <4> QED BY <3>2, <4>1, OneTaken
    <3> QED BY <1>1, <1>2, <3>1, <3>2, <3>3 DEF UpTo
  <2>2. Reached(t, offset[t] - Len(channel))'
    <3>1. offset'[t] - Len(channel') = h /\ last'[t] = h /\ h > 0
      BY <1>1, <1>2, <1>3, <1>4, <1>s
    <3> QED BY <1>1, <2>0, <3>1 DEF Reached
  <2>3. Reached("max", offset["max"] - Len(batch["max"]))'
    BY <1>t, <1>1, <1>4, <1>p DEF OrderInv, Reached
  <2> QED BY <1>t, <1>1, <2>1, <2>2, <2>3 DEF OrderInv, UpTo, t
<1>8. MaxInv' /\ DownInv'
  BY <1>t, <1>1, <1>4, <1>p DEF MaxInv, MaxLosesNothing, Handled, MaxHolds, DownInv
<1>9. RefusedInv'
  BY <1>t, <1>p, <1>1, <1>2, Streams, RefusedBegins
<1> QED BY <1>4, <1>5, <1>6, <1>7, <1>8, <1>9 DEF IInv, t, h

LEMMA MaxTakeInv ==
    ASSUME IInv, MaxTake
    PROVE  IInv' /\ last'["max"] = Head(batch["max"])
<1> DEFINE m == "max"
           h == Head(batch[m])
<1>t. Shapes /\ HeldSent /\ OrderInv /\ MaxInv /\ DownInv /\ RefusedInv
  BY DEF IInv
<1>p. m \in Platforms /\ "telegram" \in Platforms /\ "telegram" # m
  BY TwoPlatforms
<1>1. /\ handler[m] = None /\ batch[m] # <<>>
      /\ Begin(m, h)
      /\ batch' = [batch EXCEPT ![m] = Tail(batch[m])]
      /\ UNCHANGED <<sent, confirmed, proc, loop, offset, channel, users, result, refused, deaths>>
  BY DEF MaxTake, server
<1>s. /\ batch[m] \in Seq(Ids(m)) /\ Len(batch[m]) \in Nat
      /\ Ids(m) = 1..Len(Stream[m]) /\ Len(Stream[m]) \in Nat /\ sent[m] \in Nat
      /\ offset[m] \in Nat /\ confirmed[m] \in Nat /\ last[m] \in Nat
  BY <1>t, <1>p, Shape, Streams
<1> HIDE DEF m
<1>2. /\ h = batch[m][1] /\ h \in Ids(m)
      /\ Len(batch[m]) >= 1 /\ Len(Tail(batch[m])) = Len(batch[m]) - 1
      /\ Tail(batch[m]) \in Seq(Ids(m))
      /\ \A k \in 1..(Len(batch[m]) - 1) : Tail(batch[m])[k] = batch[m][k + 1]
  BY <1>1, <1>s, HeadAndTail
<1> HIDE DEF h
<1>3. /\ h <= sent[m] /\ h = (offset[m] - Len(batch[m])) + 1 /\ h > confirmed[m]
  BY <1>t, <1>2, <1>s, <1>p DEF HeldSent, OrderInv, UpTo, MaxInv, m
<1>4. /\ DOMAIN handler' = Platforms /\ DOMAIN last' = Platforms
      /\ last'[m] = h
      /\ handler'[m] \in Handling /\ handler'[m].id = h /\ handler'[m] # None
      /\ \A q \in Platforms : q # m => handler'[q] = handler[q] /\ last'[q] = last[q]
  BY <1>t, <1>p, <1>1, <1>2, BeginInv
<1>b. /\ batch'[m] = Tail(batch[m]) /\ DOMAIN batch' = Platforms
      /\ \A q \in Platforms : q # m => batch'[q] = batch[q]
  BY <1>t, <1>1, <1>p DEF Shapes
<1>5. Shapes'
  <2>1. \A q \in Platforms : {confirmed[q], offset[q], last'[q]} \subseteq 0..sent[q]
    <3>1. h \in 0..sent[m]
      BY <1>2, <1>3, <1>s
    <3> QED BY <1>t, <1>4, <3>1, Shape
  <2>2. \A q \in Platforms : handler'[q] \in Handling \cup {None} /\ batch'[q] \in Seq(Ids(q))
    BY <1>t, <1>b, <1>2, <1>4, Shape
  <2> QED BY <1>t, <1>1, <1>b, <1>4, <2>1, <2>2 DEF Shapes, TypeOK
<1>6. HeldSent'
  <2>1. \A k \in 1..Len(batch'[m]) : batch'[m][k] <= sent[m]
    <3>1. \A k \in 1..Len(batch[m]) : batch[m][k] <= sent[m]
      BY <1>t, <1>p DEF HeldSent
    <3> QED BY <1>b, <1>2, <1>s, <3>1
  <2> QED BY <1>t, <1>1, <1>3, <1>b, <1>4, <2>1 DEF HeldSent
<1>7. OrderInv'
  <2>0. UpTo(batch[m], offset[m]) /\ Reached(m, offset[m] - Len(batch[m]))
    BY <1>t DEF OrderInv, m
  <2>1. UpTo(batch'[m], offset[m])
    <3> DEFINE n == Len(batch[m])
    <3>0. n \in Nat /\ n <= offset[m] /\ \A k \in 1..n : batch[m][k] = (offset[m] - n) + k
      BY <1>s, <2>0 DEF UpTo
    <3>1. Len(batch'[m]) = n - 1 /\ \A k \in 1..(n - 1) : batch'[m][k] = batch[m][k + 1]
      BY <1>b, <1>2
    <3> HIDE DEF n
    <3>2. \A k \in 1..(n - 1) : batch[m][k + 1] = (offset[m] - n) + (k + 1)
      BY <3>0
    <3>3. /\ n - 1 <= offset[m]
          /\ \A k \in 1..(n - 1) : (offset[m] - n) + (k + 1) = (offset[m] - (n - 1)) + k
      BY <1>s, <3>0, OneTaken
    <3> QED BY <3>1, <3>2, <3>3 DEF UpTo
  <2>2. Reached(m, offset[m] - Len(batch[m]))'
    <3>1. offset'[m] - Len(batch'[m]) = h /\ last'[m] = h /\ h > 0
      <4>1. offset'[m] = offset[m] /\ Len(batch'[m]) = Len(batch[m]) - 1 /\ h \in Nat /\ h # 0
        <5>1. h \in Nat /\ h # 0
          BY <1>2, <1>s
        <5> QED BY <1>1, <1>b, <1>2, <5>1
      <4>2. offset[m] - (Len(batch[m]) - 1) = (offset[m] - Len(batch[m])) + 1
        BY <1>s, OneTaken
      <4>3. offset'[m] - Len(batch'[m]) = h
        BY <1>3, <4>1, <4>2
      <4>4. h > 0
        BY <4>1
      <4> QED BY <1>4, <4>3, <4>4
    <3>2. offset[m] = 0 \/ confirmed[m] <= offset[m]
      BY <2>0 DEF Reached
    <3> QED BY <1>1, <3>1, <3>2 DEF Reached
  <2>3. Reached("telegram", offset["telegram"] - Len(channel))'
    BY <1>t, <1>1, <1>4, <1>p DEF OrderInv, Reached
  <2>4. batch'["telegram"] = batch["telegram"]
    BY <1>b, <1>p
  <2> QED BY <1>t, <1>1, <2>1, <2>2, <2>3, <2>4 DEF OrderInv, UpTo, m
<1>8. MaxInv'
  <2>0. \A k \in 1..Len(batch'[m]) : (k + 1) \in 1..Len(batch[m]) /\ batch'[m][k] = batch[m][k + 1]
    BY <1>b, <1>2, <1>s
  <2>1. \A k \in 1..Len(batch'[m]) : batch'[m][k] > confirmed[m]
    BY <1>t, <2>0 DEF MaxInv, m
  <2>2. ASSUME NEW i, MaxHolds(i) PROVE MaxHolds(i)'
    <3>1. PICK k \in 1..Len(batch[m]) : batch[m][k] = i
      BY <1>1, <2>2 DEF MaxHolds, m
    <3>2. CASE k = 1
      BY <1>2, <1>4, <3>1, <3>2 DEF MaxHolds, m
    <3>3. CASE k # 1
      <4>1. (k - 1) \in 1..Len(batch'[m]) /\ batch'[m][k - 1] = batch[m][(k - 1) + 1]
        BY <1>b, <1>2, <1>s, <3>3
      <4>2. (k - 1) + 1 = k
        BY <1>s
      <4> QED BY <3>1, <4>1, <4>2 DEF MaxHolds, m
    <3> QED BY <3>2, <3>3
  <2>3. MaxLosesNothing' /\ handler'[m].id > confirmed'[m]
    BY <1>t, <1>1, <1>3, <1>4 DEF MaxInv, MaxLosesNothing
  <2>4. proc' = "running" => \A i \in 1..offset'[m] : Handled(i)' \/ MaxHolds(i)'
    BY <1>t, <1>1, <2>2 DEF MaxInv, Handled, m
  <2> QED BY <1>1, <2>1, <2>3, <2>4 DEF MaxInv, m
<1>9. RefusedInv'
  BY <1>t, <1>p, <1>1, <1>2, Streams, RefusedBegins
<1>10. DownInv'
  BY <1>t, <1>1, <1>p DEF DownInv
<1> QED BY <1>4, <1>5, <1>6, <1>7, <1>8, <1>9, <1>10 DEF IInv, m, h

-----------------------------------------------------------------------------
(* The handlers: each step leaves the fetching alone.                      *)
Fetched == <<sent, confirmed, proc, loop, offset, batch, channel, last, deaths>>

Advances(p) ==
    /\ \E pc \in {"find", "create", "work"} : handler' = [handler EXCEPT ![p].pc = pc]
    /\ UNCHANGED result

Ends(p) ==
    /\ handler' = [handler EXCEPT ![p] = None]
    /\ \E v \in Verdicts \ {"none"} :
          /\ result' = [result EXCEPT ![p][handler[p].id] = v]
          /\ proc = "running" => v \in {"ok", "failed"}

LEMMA HandlerInv ==
    ASSUME IInv, NEW p \in Platforms, handler[p] # None, Advances(p) \/ Ends(p),
           UNCHANGED Fetched,
           users' \in [Users -> Choices \cup {"unset", None}], refused' \in [Users -> Nat],
           RefusedInv'
    PROVE  IInv'
<1>t. Shapes /\ HeldSent /\ OrderInv /\ MaxInv /\ DownInv
  BY DEF IInv
<1>f. UNCHANGED <<sent, confirmed, proc, loop, offset, batch, channel, last, deaths>>
  BY DEF Fetched
<1>h. handler[p] \in Handling /\ handler[p].id \in Ids(p) /\ None \notin Handling
  BY <1>t, InHand, ConstantsAssumption
<1>1. /\ DOMAIN handler' = Platforms
      /\ handler'[p] \in Handling \cup {None}
      /\ handler'[p] # None => handler'[p].id = handler[p].id
      /\ \A q \in Platforms : q # p => handler'[q] = handler[q]
  <2>1. CASE Ends(p)
    BY <1>t, <2>1 DEF Ends, Shapes
  <2>2. CASE Advances(p)
    <3>1. PICK pc \in {"find", "create", "work"} : handler' = [handler EXCEPT ![p].pc = pc]
      BY <2>2 DEF Advances
    <3>2. handler'[p] = [handler[p] EXCEPT !.pc = pc]
      BY <1>t, <3>1 DEF Shapes
    <3>3. handler'[p] \in Handling /\ handler'[p].id = handler[p].id
      BY <1>h, <3>2 DEF Handling
    <3> QED BY <1>t, <3>1, <3>3 DEF Shapes
  <2> QED BY <2>1, <2>2
<1>2. /\ DOMAIN result' = Platforms
      /\ \A q \in Platforms : result'[q] \in [Ids(q) -> Verdicts]
      /\ \A q \in Platforms : \A i \in Ids(q) :
            (q # p \/ i # handler[p].id) => result'[q][i] = result[q][i]
      /\ ~Advances(p) /\ proc = "running" => result'[p][handler[p].id] \in {"ok", "failed"}
  <2>1. \A q \in Platforms : result[q] \in [Ids(q) -> Verdicts]
    BY <1>t, Shape
  <2>2. CASE Advances(p)
    BY <1>t, <2>1, <2>2 DEF Shapes, Advances
  <2>3. CASE Ends(p)
    <3>1. PICK v \in Verdicts \ {"none"} :
              /\ result' = [result EXCEPT ![p][handler[p].id] = v]
              /\ proc = "running" => v \in {"ok", "failed"}
      BY <2>3 DEF Ends
    <3>2. result'[p] = [result[p] EXCEPT ![handler[p].id] = v] /\ DOMAIN result' = Platforms
          /\ \A q \in Platforms : q # p => result'[q] = result[q]
      BY <1>t, <3>1 DEF Shapes
    <3> QED BY <1>h, <2>1, <3>1, <3>2
  <2> QED BY <2>2, <2>3
<1>3. Shapes'
  <2>1. \A q \in Platforms : handler'[q] \in Handling \cup {None}
    BY <1>t, <1>1, Shape
  <2> QED BY <1>t, <1>f, <1>1, <1>2, <2>1 DEF Shapes, TypeOK, Verdicts
<1>4. HeldSent' /\ OrderInv' /\ DownInv'
  BY <1>t, <1>f, <1>1 DEF HeldSent, OrderInv, UpTo, Reached, DownInv
<1>5. MaxInv'
  <2> DEFINE m == "max"
  <2>p. m \in Platforms
    BY TwoPlatforms
  <2>1. \A i \in Nat : Handled(i) /\ i \in Ids(m) => Handled(i)' \/ (p = m /\ i = handler[p].id)
    BY <1>2, <2>p DEF Handled
  <2>2. \A i \in 1..sent[m] : i \in Nat /\ i \in Ids(m)
    BY <1>t, <2>p, Shape, Streams
  <2>3. \A i \in 1..confirmed[m] : Handled(i)'
    <3>1. \A i \in 1..confirmed[m] : i \in 1..sent[m] /\ Handled(i)
      BY <1>t, <2>p, Shape DEF MaxInv, MaxLosesNothing, Handled
    <3>2. p = m => \A i \in 1..confirmed[m] : i # handler[p].id
      <4>1. p = m => handler[p].id > confirmed[m]
        BY <1>t DEF MaxInv
      <4> QED BY <1>t, <1>h, <2>p, <4>1, Shape, Streams
    <3> QED BY <2>1, <2>2, <3>1, <3>2
  <2>4. ASSUME NEW i \in 1..offset[m], proc = "running"
        PROVE  Handled(i)' \/ MaxHolds(i)'
    <3>1. i \in Nat /\ i \in Ids(m)
      BY <1>t, <2>p, <2>2, <2>4, Shape
    <3>2. Handled(i) \/ MaxHolds(i)
      BY <1>t, <2>4 DEF MaxInv
    <3>3. CASE p = m /\ i = handler[p].id
      <4>1. CASE ~Advances(p)
        BY <1>2, <2>4, <3>3, <4>1 DEF Handled
      <4>2. CASE Advances(p)
        <5>1. handler'[p] # None
          <6>1. PICK pc \in {"find", "create", "work"} : handler' = [handler EXCEPT ![p].pc = pc]
            BY <4>2 DEF Advances
          <6>2. handler'[p] = [handler[p] EXCEPT !.pc = pc]
            BY <1>t, <6>1 DEF Shapes
          <6> QED BY <1>h, <6>2 DEF Handling
        <5> QED BY <1>1, <3>3, <5>1 DEF MaxHolds
      <4> QED BY <4>1, <4>2
    <3>4. CASE ~(p = m /\ i = handler[p].id)
      BY <1>f, <1>1, <2>1, <2>p, <3>1, <3>2, <3>4 DEF MaxHolds
    <3> QED BY <3>3, <3>4
  <2>5. handler'[m] # None => handler'[m].id > confirmed'[m]
    BY <1>t, <1>f, <1>1, <2>p DEF MaxInv
  <2> QED BY <1>t, <1>f, <2>3, <2>4, <2>5 DEF MaxInv, MaxLosesNothing, Handled
<1> QED BY <1>3, <1>4, <1>5 DEF IInv

(* Whose INSERTs are to come: a handler that goes on or ends.              *)
LEMMA CreatingAfter ==
    ASSUME Shapes, HeldSent, NEW p \in Platforms, handler[p] # None
    PROVE  /\ Ends(p) => \A u \in Users, q \in Platforms :
                            Creating(q, u)' => q # p /\ Creating(q, u)
           /\ \A pc : Goto(p, pc) => \A u \in Users, q \in Platforms :
                 Creating(q, u)' => \/ q # p /\ Creating(q, u)
                                    \/ q = p /\ pc = "create" /\ u = User(p)
<1>1. DOMAIN handler = Platforms /\ handler[p] \in Handling
  BY InHand DEF Shapes
<1>2. ASSUME Ends(p), NEW u \in Users, NEW q \in Platforms, Creating(q, u)'
      PROVE  q # p /\ Creating(q, u)
  BY <1>1, <1>2 DEF Ends, Creating, AtStep, User, Update
<1>3. ASSUME NEW pc, Goto(p, pc), NEW u \in Users, NEW q \in Platforms, Creating(q, u)', q # p
      PROVE  Creating(q, u)
  BY <1>1, <1>3 DEF Goto, Creating, AtStep, User, Update
<1>4. ASSUME NEW pc, Goto(p, pc), NEW u \in Users, Creating(p, u)'
      PROVE  pc = "create" /\ u = User(p)
  <2>1. handler' = [handler EXCEPT ![p] = [handler[p] EXCEPT !.pc = pc]]
    BY <1>4 DEF Goto
  <2>2. handler'[p].pc = pc /\ handler'[p].id = handler[p].id
    BY <1>1, <2>1 DEF Handling
  <2> QED BY <1>4, <2>2 DEF Creating, AtStep, User, Update
<1> QED BY <1>2, <1>3, <1>4

LEMMA FinishEnds ==
    ASSUME NEW p \in Platforms, NEW v \in Verdicts \ {"none"}, Finish(p, v),
           proc = "running" => v \in {"ok", "failed"}
    PROVE  Ends(p)
BY DEF Finish, Ends

LEMMA GotoAdvances ==
    ASSUME NEW p \in Platforms, NEW pc \in {"find", "create", "work"}, Goto(p, pc),
           UNCHANGED result
    PROVE  Advances(p)
BY DEF Goto, Advances

(* What a choice of mode writes is a row.                                  *)
LEMMA SetModeRows ==
    ASSUME Shapes, HeldSent, NEW p \in Platforms, handler[p] # None
    PROVE  /\ SetMode(p) \in [Users -> Choices \cup {"unset", None}]
           /\ \A u \in Users : SetMode(p)[u] = None => users[u] = None
           /\ \A u \in Users : u # User(p) => SetMode(p)[u] = users[u]
<1>1. /\ users \in [Users -> Choices \cup {"unset", None}]
      /\ Update(p).kind \in Kinds /\ User(p) \in Users
  BY InHand DEF Shapes, TypeOK
<1>2. None \notin Choices
  BY ConstantsAssumption
<1> QED BY <1>1, <1>2 DEF SetMode

LEMMA HandlerStepInv ==
    ASSUME IInv, NEW p \in Platforms, HandlerStep(p)
    PROVE  IInv'
<1>t. Shapes /\ HeldSent /\ RefusedInv
  BY DEF IInv
<1>0. /\ handler[p] # None
      /\ users \in [Users -> Choices \cup {"unset", None}] /\ refused \in [Users -> Nat]
  BY <1>t DEF HandlerStep, FindUser, CreateUser, CreateRefused, Work, StatementFails, AtStep,
              Shapes, TypeOK
<1>u. User(p) \in Users
  BY <1>t, <1>0, InHand
<1>n. "unset" # None
  BY ConstantsAssumption
<1>1. CASE FindUser(p)
  <2> DEFINE pc == IF HasRow(p) THEN "work" ELSE "create"
  <2>1. Goto(p, pc) /\ UNCHANGED <<Fetched, users, result, refused>>
    BY <1>1 DEF FindUser, server, fetching, history, Fetched
  <2>2. Advances(p)
    BY <2>1, GotoAdvances
  <2>3. RefusedInv'
    <3>1. \A u \in Users, q \in Platforms :
             Creating(q, u)' => Creating(q, u) \/ (q = p /\ u = User(p) /\ users[u] = None)
      BY <1>t, <1>0, <2>1, CreatingAfter DEF HasRow
    <3> QED BY <1>t, <2>1, <3>1 DEF RefusedInv
  <2> QED BY <1>0, <2>1, <2>2, <2>3, HandlerInv
<1>2. CASE CreateUser(p)
  <2>1. /\ Goto(p, "work") /\ UNCHANGED <<Fetched, result, refused>>
        /\ users' = [users EXCEPT ![User(p)] = "unset"] /\ users[User(p)] = None
    BY <1>2 DEF CreateUser, HasRow, server, fetching, history, Fetched
  <2>2. Advances(p)
    BY <2>1, GotoAdvances
  <2>3. RefusedInv'
    <3>1. \A u \in Users, q \in Platforms : Creating(q, u)' => q # p /\ Creating(q, u)
      BY <1>t, <1>0, <2>1, CreatingAfter
    <3>2. \A u \in Users : u # User(p) => users'[u] = users[u]
      BY <1>0, <2>1
    <3>3. \A q, r \in Platforms : q # p /\ r # p => q = r
      BY DEF Platforms
    <3> QED BY <1>t, <2>1, <3>1, <3>2, <3>3 DEF RefusedInv
  <2>4. users' \in [Users -> Choices \cup {"unset", None}]
    BY <1>0, <2>1
  <2> QED BY <1>0, <2>1, <2>2, <2>3, <2>4, HandlerInv
<1>3. CASE CreateRefused(p)
  <2>1. /\ Finish(p, "failed") /\ UNCHANGED <<Fetched, users>>
        /\ refused' = [refused EXCEPT ![User(p)] = refused[User(p)] + 1]
        /\ users[User(p)] # None /\ Creating(p, User(p))
    BY <1>3 DEF CreateRefused, HasRow, Creating, server, fetching, Fetched
  <2>2. Ends(p)
    BY <2>1, FinishEnds DEF Verdicts
  <2>3. RefusedInv'
    <3>1. \A u \in Users, q \in Platforms : Creating(q, u)' => q # p /\ Creating(q, u)
      BY <1>t, <1>0, <2>2, CreatingAfter
    <3>2. /\ refused[User(p)] = 0 /\ refused'[User(p)] = 1
          /\ \A u \in Users : u # User(p) => refused'[u] = refused[u]
      BY <1>t, <1>0, <1>u, <2>1 DEF RefusedInv
    <3>3. \A u \in Users, q \in Platforms : u = User(p) => ~Creating(q, u)'
      <4>1. \A u \in Users, q \in Platforms : u = User(p) /\ Creating(q, u) => q = p
        BY <1>t, <1>u, <2>1 DEF RefusedInv
      <4> QED BY <3>1, <4>1
    <3>4. \A u \in Users : /\ refused'[u] <= 1
                           /\ users'[u] = None => refused'[u] = 0
                           /\ \A q \in Platforms : Creating(q, u)' => refused'[u] = 0
      BY <1>t, <2>1, <3>1, <3>2, <3>3 DEF RefusedInv
    <3> QED BY <1>t, <2>1, <3>1, <3>4 DEF RefusedInv
  <2>4. refused' \in [Users -> Nat]
    BY <1>0, <1>u, <2>1
  <2> QED BY <1>0, <2>1, <2>2, <2>3, <2>4, HandlerInv
<1>4. CASE Work(p)
  <2>1. Finish(p, "ok") /\ UNCHANGED <<Fetched, refused>> /\ users' = SetMode(p)
    BY <1>4 DEF Work, server, fetching, Fetched
  <2>2. Ends(p)
    BY <2>1, FinishEnds DEF Verdicts
  <2>3. RefusedInv'
    <3>1. \A u \in Users, q \in Platforms : Creating(q, u)' => q # p /\ Creating(q, u)
      BY <1>t, <1>0, <2>2, CreatingAfter
    <3>2. \A u \in Users : users'[u] = None => users[u] = None
      BY <1>t, <1>0, <2>1, SetModeRows
    <3>3. \A q, r \in Platforms : q # p /\ r # p => q = r
      BY DEF Platforms
    <3> QED BY <1>t, <2>1, <3>1, <3>2, <3>3 DEF RefusedInv
  <2> QED BY <1>t, <1>0, <2>1, <2>2, <2>3, SetModeRows, HandlerInv
<1>5. CASE StatementFails(p)
  <2> DEFINE v == IF proc = "stopping" THEN "cancelled" ELSE "failed"
  <2>1. Finish(p, v) /\ UNCHANGED <<Fetched, refused>> /\ users' \in {users, Effect(p)}
    BY <1>5 DEF StatementFails, server, fetching, Fetched
  <2>2. Ends(p)
    BY <2>1, FinishEnds DEF Verdicts
  <2>3. /\ users' \in [Users -> Choices \cup {"unset", None}]
        /\ \A u \in Users : users'[u] = None => users[u] = None
    <3>1. CASE users' = users
      BY <1>0, <3>1
    <3>2. CASE users' = SetMode(p)
      BY <1>t, <1>0, <3>2, SetModeRows
    <3>3. CASE users' = [users EXCEPT ![User(p)] = "unset"]
      BY <1>0, <1>u, <1>n, <3>3
    <3> QED BY <2>1, <3>1, <3>2, <3>3 DEF Effect
  <2>4. RefusedInv'
    <3>1. \A u \in Users, q \in Platforms : Creating(q, u)' => q # p /\ Creating(q, u)
      BY <1>t, <1>0, <2>2, CreatingAfter
    <3>3. \A q, r \in Platforms : q # p /\ r # p => q = r
      BY DEF Platforms
    <3> QED BY <1>t, <2>1, <2>3, <3>1, <3>3 DEF RefusedInv
  <2> QED BY <1>0, <2>1, <2>2, <2>3, <2>4, HandlerInv
<1> QED BY <1>1, <1>2, <1>3, <1>4, <1>5 DEF HandlerStep

-----------------------------------------------------------------------------
(* The process.                                                            *)

LEMMA CutOffInv ==
    ASSUME IInv, CutOff
    PROVE  IInv'
<1>t. Shapes /\ HeldSent /\ OrderInv /\ MaxInv /\ DownInv /\ RefusedInv
  BY DEF IInv
<1>1. /\ deaths < MaxDeaths /\ deaths' = deaths + 1 /\ proc' = "down"
      /\ loop' = [p \in Platforms |-> FALSE]
      /\ offset' = [p \in Platforms |-> 0] /\ last' = [p \in Platforms |-> 0]
      /\ batch' = [p \in Platforms |-> <<>>] /\ channel' = <<>>
      /\ handler' = [p \in Platforms |-> None]
      /\ UNCHANGED <<sent, confirmed, users, result, refused>>
  BY DEF CutOff, server
<1>2. Shapes'
  <2>1. \A p \in Platforms : /\ {confirmed[p], offset'[p], last'[p]} \subseteq 0..sent[p]
                             /\ batch'[p] \in Seq(Ids(p)) /\ handler'[p] \in Handling \cup {None}
    BY <1>t, <1>1, Shape
  <2>2. channel' \in Seq(Ids("telegram"))
    BY <1>1
  <2>3. deaths' \in 0..MaxDeaths
    BY <1>t, <1>1, ConstantsAssumption DEF Shapes, TypeOK
  <2> QED BY <1>t, <1>1, <2>1, <2>2, <2>3 DEF Shapes, TypeOK
<1>3. HeldSent' /\ OrderInv' /\ DownInv'
  <2>1. \A p \in Platforms : confirmed[p] \in Nat
    BY <1>t, Shape
  <2> QED BY <1>1, <2>1, TwoPlatforms DEF HeldSent, OrderInv, UpTo, Reached, DownInv
<1>4. MaxInv'
  BY <1>t, <1>1, TwoPlatforms DEF MaxInv, MaxLosesNothing
<1>5. RefusedInv'
  BY <1>t, <1>1 DEF RefusedInv, Creating, AtStep
<1> QED BY <1>2, <1>3, <1>4, <1>5 DEF IInv

LEMMA ProcessInv ==
    ASSUME IInv, Shutdown \/ Restart \/ \E p \in Platforms : StopLoop(p)
    PROVE  IInv' /\ last' = last
<1>t. Shapes /\ HeldSent /\ OrderInv /\ MaxInv /\ DownInv /\ RefusedInv
  BY DEF IInv
<1>1. /\ UNCHANGED <<sent, confirmed, offset, batch, channel, handler, users, last, result,
                     refused, deaths>>
      /\ proc' \in {"running", "stopping", "down"}
      /\ proc' = "running" /\ proc # "running" => proc = "down"
      /\ proc' = "down" => proc = "down"
      /\ loop' \in [Platforms -> BOOLEAN]
  <2>1. CASE Shutdown
    BY <1>t, <2>1 DEF Shutdown, server, fetching, history, Shapes, TypeOK
  <2>2. CASE Restart
    BY <1>t, <2>2 DEF Restart, server, history
  <2>3. CASE \E p \in Platforms : StopLoop(p)
    BY <1>t, <2>3 DEF StopLoop, server, history, Shapes, TypeOK
  <2> QED BY <2>1, <2>2, <2>3
<1>2. Shapes'
  BY <1>t, <1>1 DEF Shapes, TypeOK
<1>3. HeldSent' /\ OrderInv' /\ DownInv'
  BY <1>t, <1>1 DEF HeldSent, OrderInv, UpTo, Reached, DownInv
<1>4. MaxInv'
  <2>1. CASE proc # "running" /\ proc' = "running"
    <3>1. offset["max"] = 0
      BY <1>t, <1>1, <2>1, TwoPlatforms DEF DownInv
    <3> QED BY <1>t, <1>1, <3>1 DEF MaxInv, MaxLosesNothing
  <2>2. CASE ~(proc # "running" /\ proc' = "running")
    BY <1>t, <1>1, <2>2 DEF MaxInv, MaxLosesNothing, Handled, MaxHolds
  <2> QED BY <2>1, <2>2
<1> QED BY <1>t, <1>1, <1>2, <1>3, <1>4, RefusedStutters DEF IInv

-----------------------------------------------------------------------------
LEMMA NextInv == IInv /\ [Next]_vars => IInv'
<1> SUFFICES ASSUME IInv, [Next]_vars PROVE IInv'
  OBVIOUS
<1>1. CASE \E p \in Platforms : UserSends(p) \/ PollFails(p) \/ HandlerStep(p)
  BY <1>1, SendsInv, FailsInv, HandlerStepInv
<1>2. CASE TelegramPoll \/ MaxPoll \/ Pass
  BY <1>2, TelegramPollInv, MaxPollInv, PassInv
<1>3. CASE TelegramTake \/ MaxTake
  BY <1>3, TelegramTakeInv, MaxTakeInv
<1>4. CASE Crash \/ Exit
  BY <1>4, CutOffInv DEF Crash, Exit
<1>5. CASE Shutdown \/ Restart \/ \E p \in Platforms : StopLoop(p)
  BY <1>5, ProcessInv
<1>6. CASE UNCHANGED vars
  <2>1. UNCHANGED <<sent, confirmed, proc, loop, offset, batch, channel, handler, users, last,
                    result, refused, deaths>>
    BY <1>6 DEF vars, server, fetching, history
  <2>2. Shapes' /\ HeldSent' /\ OrderInv' /\ DownInv'
    BY <2>1 DEF IInv, Shapes, TypeOK, HeldSent, OrderInv, UpTo, Reached, DownInv
  <2>3. MaxInv' /\ RefusedInv'
    BY <2>1, RefusedStutters DEF IInv, MaxInv, MaxLosesNothing, Handled, MaxHolds
  <2> QED BY <2>2, <2>3 DEF IInv
<1> QED BY <1>1, <1>2, <1>3, <1>4, <1>5, <1>6 DEF Next

THEOREM Invariance == Spec => []IInv
<1> QED BY InitInv, NextInv, PTL DEF Spec

(* The states of Updates are well-formed: no position is ahead of what the *)
(* platform has received.                                                  *)
THEOREM UpdatesTyped == Spec => []TypeOK
<1>1. IInv => TypeOK
  BY DEF IInv, Shapes
<1> QED BY <1>1, Invariance, PTL

(* MAX's loop misses no update, whatever crashes, exits and lost replies.  *)
THEOREM MaxKeepsAll == Spec => []MaxLosesNothing
<1>1. IInv => MaxLosesNothing
  BY DEF IInv, MaxInv
<1> QED BY <1>1, Invariance, PTL

(* GetOrCreate is refused by the unique key at most once for each user.    *)
THEOREM RefusedAtMostOnce == Spec => []RefusedOnce
<1>1. IInv => RefusedOnce
  BY DEF IInv, RefusedInv, RefusedOnce
<1> QED BY <1>1, Invariance, PTL

(* Between two restarts the updates are handled in order, each once.       *)
THEOREM OrderKept == Spec => InOrder
<1> DEFINE Step == \A p \in Platforms :
                      last'[p] \notin {last[p], 0} =>
                         \/ last[p] > 0 /\ last'[p] = last[p] + 1
                         \/ last[p] = 0 /\ 1..(last'[p] - 1) \subseteq 1..confirmed[p]
<1>1. ASSUME IInv, [Next]_vars PROVE [Step]_vars
  <2>t. Shapes /\ OrderInv
    BY <1>1 DEF IInv
  <2>s. \A p \in Platforms : last[p] \in Nat /\ confirmed[p] \in Nat /\ offset[p] \in Nat
                             /\ batch[p] \in Seq(Ids(p)) /\ Len(batch[p]) \in Nat
                             /\ channel \in Seq(Ids("telegram")) /\ Len(channel) \in Nat
    BY <2>t, Shape
  <2>1. ASSUME NEW p \in Platforms, NEW c \in Nat, Reached(p, c), last'[p] = c + 1,
               \A q \in Platforms : q # p => last'[q] = last[q]
        PROVE  Step
    <3>1. last[p] = 0 => 1..((c + 1) - 1) \subseteq 1..confirmed[p]
      BY <2>s, <2>1 DEF Reached
    <3>2. last[p] = c \/ last[p] = 0
      BY <2>1 DEF Reached
    <3>3. last[p] > 0 \/ last[p] = 0
      BY <2>s
    <3> QED BY <2>1, <3>1, <3>2, <3>3
  <2>2. CASE TelegramTake
    <3>1. /\ last'["telegram"] = Head(channel) /\ channel # <<>>
          /\ \A q \in Platforms : q # "telegram" => last'[q] = last[q]
      BY <1>1, <2>t, <2>2, TelegramTakeInv DEF TelegramTake, Begin, Shapes
    <3>2. Head(channel) = channel[1] /\ Len(channel) >= 1
      BY <2>s, <3>1, TwoPlatforms, HeadAndTail
    <3>3. UpTo(channel, offset["telegram"]) /\ Reached("telegram", offset["telegram"] - Len(channel))
      BY <2>t DEF OrderInv
    <3>4. /\ (offset["telegram"] - Len(channel)) \in Nat
          /\ channel[1] = (offset["telegram"] - Len(channel)) + 1
      <4>1. offset["telegram"] \in Nat /\ Len(channel) \in Nat
        BY <2>s, TwoPlatforms
      <4> QED BY <3>2, <3>3, <4>1 DEF UpTo
    <3> QED BY <2>1, <3>1, <3>2, <3>3, <3>4, TwoPlatforms
  <2>3. CASE MaxTake
    <3>1. /\ last'["max"] = Head(batch["max"]) /\ batch["max"] # <<>>
          /\ \A q \in Platforms : q # "max" => last'[q] = last[q]
      BY <1>1, <2>t, <2>3, MaxTakeInv DEF MaxTake, Begin, Shapes
    <3>2. Head(batch["max"]) = batch["max"][1] /\ Len(batch["max"]) >= 1
      BY <2>s, <3>1, TwoPlatforms, HeadAndTail
    <3>3. UpTo(batch["max"], offset["max"]) /\ Reached("max", offset["max"] - Len(batch["max"]))
      BY <2>t DEF OrderInv
    <3>4. /\ (offset["max"] - Len(batch["max"])) \in Nat
          /\ batch["max"][1] = (offset["max"] - Len(batch["max"])) + 1
      <4>1. offset["max"] \in Nat /\ Len(batch["max"]) \in Nat
        BY <2>s, TwoPlatforms
      <4> QED BY <3>2, <3>3, <4>1 DEF UpTo
    <3> QED BY <2>1, <3>1, <3>2, <3>3, <3>4, TwoPlatforms
  <2>4. CASE \A p \in Platforms : last'[p] \in {last[p], 0}
    BY <2>4
  <2>5. CASE ~TelegramTake /\ ~MaxTake
    <3>1. CASE Crash \/ Exit
      BY <2>4, <3>1 DEF Crash, Exit, CutOff
    <3>2. CASE ~Crash /\ ~Exit
      BY <1>1, <2>4, <2>5, <3>2
         DEF Next, UserSends, PollFails, StopLoop, HandlerStep, TelegramPoll, MaxPoll, Pass,
             Shutdown, Restart, FindUser, CreateUser, CreateRefused, Work, StatementFails,
             Finish, history, vars
    <3> QED BY <3>1, <3>2
  <2> QED BY <2>2, <2>3, <2>5
<1> HIDE DEF Step
<1>2. Spec => [][Step]_vars
  BY <1>1, Invariance, PTL DEF Spec
<1> QED BY <1>2 DEF Step, InOrder
-----------------------------------------------------------------------------
(* What a process that dies loses.                                         *)

(* An update that is neither handled nor on its way to a handler.          *)
Missing(i) == result["telegram"][i] = "none" /\ ~InMemory("telegram", i)

(* Until a position is confirmed the channel or the handler has what lies  *)
(* before it, so that confirming it alone loses nothing.                   *)
LossInv ==
    /\ Len(channel) <= Buffer
    /\ \A i \in 1..offset["telegram"] : i > confirmed["telegram"] => ~Missing(i)
    /\ TelegramLossBounded

LEMMA LostMissing ==
    /\ Lost("telegram") = {i \in 1..confirmed["telegram"] : Missing(i)}
    /\ Shapes => IsFiniteSet(Lost("telegram")) /\ Cardinality(Lost("telegram")) \in Nat
<1>1. Lost("telegram") = {i \in 1..confirmed["telegram"] : Missing(i)}
  BY DEF Lost, Missing
<1>2. Lost("telegram") \subseteq 1..confirmed["telegram"]
  BY <1>1
<1>c. Shapes => confirmed["telegram"] \in Nat
  BY Shape, TwoPlatforms
<1>3. Shapes => IsFiniteSet(1..confirmed["telegram"])
  BY <1>c, FS_Interval
<1> QED BY <1>1, <1>2, <1>3, FS_Subset, FS_CardinalityType

(* A step of a living process: what it confirms is handled or at hand.     *)
LEMMA LossKept ==
    ASSUME Shapes, Shapes', LossInv, deaths' = deaths, Len(channel') <= Buffer,
           \A i \in Ids("telegram") : Missing(i)' => Missing(i),
           \/ confirmed'["telegram"] = confirmed["telegram"]
           \/ confirmed'["telegram"] = offset["telegram"],
           \A i \in 1..offset'["telegram"] :
              i > offset["telegram"] /\ i > confirmed["telegram"] => ~Missing(i)',
           confirmed["telegram"] <= confirmed'["telegram"]
    PROVE  LossInv'
<1> DEFINE t == "telegram"
<1>s. /\ t \in Platforms
      /\ confirmed[t] \in Nat /\ offset[t] \in Nat /\ confirmed'[t] \in Nat /\ offset'[t] \in Nat
      /\ Ids(t) = 1..Len(Stream[t]) /\ Len(Stream[t]) \in Nat
      /\ confirmed'[t] \in 0..Len(Stream[t]) /\ offset'[t] \in 0..Len(Stream[t])
  <2>1. /\ confirmed[t] \in Nat /\ offset[t] \in Nat
    BY Shape, TwoPlatforms
  <2>2. /\ Ids(t) = 1..Len(Stream[t]) /\ Len(Stream[t]) \in Nat
    BY Streams, TwoPlatforms
  <2>3. /\ sent'[t] \in 0..Len(Stream[t])
        /\ {confirmed'[t], offset'[t]} \subseteq 0..sent'[t]
    BY TwoPlatforms DEF Shapes, TypeOK
  <2> QED BY <2>1, <2>2, <2>3, TwoPlatforms
<1>1. \A i \in 1..offset'[t] : i > confirmed'[t] => ~Missing(i)'
  <2> TAKE i \in 1..offset'[t]
  <2>1. i \in Ids(t) /\ i \in Nat /\ i >= 1
    BY <1>s
  <2>2. CASE i > offset[t]
    BY <1>s, <2>1, <2>2
  <2>3. CASE i <= offset[t]
    <3>1. i > confirmed'[t] => i \in 1..offset[t] /\ i > confirmed[t]
      BY <1>s, <2>1, <2>3
    <3> QED BY <2>1, <3>1 DEF LossInv
  <2> QED BY <1>s, <2>1, <2>2, <2>3
<1>2. Lost(t)' \subseteq Lost(t)
  <2> SUFFICES ASSUME NEW i \in 1..confirmed'[t], Missing(i)'
               PROVE  i \in 1..confirmed[t] /\ Missing(i)
    BY LostMissing DEF Lost, Missing
  <2>1. i \in Ids(t) /\ i \in Nat /\ i >= 1
    BY <1>s
  <2>2. Missing(i)
    BY <2>1
  <2>3. ~(i \in 1..offset[t] /\ i > confirmed[t])
    BY <2>2 DEF LossInv
  <2>4. i <= confirmed[t]
    BY <1>s, <2>1, <2>3
  <2> QED BY <1>s, <2>1, <2>2, <2>4
<1>3. Cardinality(Lost(t)') <= Cardinality(Lost(t))
  BY <1>2, LostMissing, FS_Subset
<1>4. TelegramLossBounded'
  <2>0. Cardinality(Lost(t)) \in Nat /\ Cardinality(Lost(t)') \in Nat
    BY <1>2, LostMissing, FS_Subset, FS_CardinalityType
  <2>1. Cardinality(Lost(t)) <= (Buffer + 1) * deaths
    BY DEF LossInv, TelegramLossBounded
  <2>2. (Buffer + 1) * deaths \in Nat
    BY ConstantsAssumption DEF Shapes, TypeOK
  <2>3. (Buffer + 1) * deaths' = (Buffer + 1) * deaths
    OBVIOUS
  <2>4. Cardinality(Lost(t)') <= (Buffer + 1) * deaths
    BY <1>3, <2>0, <2>1, <2>2
  <2> QED BY <2>3, <2>4 DEF TelegramLossBounded
<1> QED BY <1>1, <1>4 DEF LossInv

(* Nothing Telegram's updates live in changes.                             *)
LEMMA LossStutters ==
    ASSUME IInv, IInv', LossInv, UNCHANGED <<channel, deaths>>,
           confirmed'["telegram"] = confirmed["telegram"],
           offset'["telegram"] = offset["telegram"],
           batch'["telegram"] = batch["telegram"],
           handler'["telegram"] = handler["telegram"],
           result'["telegram"] = result["telegram"]
    PROVE  LossInv'
<1>1. \A i : Missing(i)' <=> Missing(i)
  BY DEF Missing, InMemory
<1>2. Lost("telegram")' = Lost("telegram")
  BY <1>1, LostMissing DEF Lost, Missing
<1> QED BY <1>1, <1>2 DEF LossInv, TelegramLossBounded

LEMMA LossFetch ==
    ASSUME IInv, IInv', LossInv, NEW p \in Platforms,
           UserSends(p) \/ PollFails(p) \/ TelegramPoll \/ MaxPoll
    PROVE  LossInv'
<1> DEFINE t == "telegram"
<1>t. Shapes /\ OrderInv /\ Shapes'
  BY DEF IInv
<1>p. t \in Platforms /\ "max" \in Platforms /\ t \in Platforms \ {"max"}
  BY TwoPlatforms
<1>1. CASE UserSends(p)
  BY <1>1, LossStutters DEF UserSends, fetching, history
<1>2. CASE PollFails(p)
  <2>1. Confirm(p) /\ UNCHANGED <<sent, offset, batch, channel, handler, result, deaths>>
    BY <1>2 DEF PollFails, fetching, history
  <2>2. CASE p # t
    <3>1. confirmed'[t] = confirmed[t]
      BY <1>t, <1>p, <2>1, <2>2, ConfirmInv
    <3> QED BY <2>1, <3>1, LossStutters
  <2>3. CASE p = t
    <3>1. \A i : Missing(i)' <=> Missing(i)
      BY <2>1 DEF Missing, InMemory
    <3>2. /\ confirmed'[t] = confirmed[t] \/ confirmed'[t] = offset[t]
          /\ confirmed[t] <= confirmed'[t] /\ offset'[t] = offset[t]
      BY <1>t, <1>p, <2>1, <2>3, ConfirmInv
    <3>3. \A i \in 1..offset'[t] : ~(i > offset[t])
      BY <1>t, <1>p, <3>2, Shape
    <3> QED BY <1>t, <2>1, <3>1, <3>2, <3>3, LossKept DEF LossInv
  <2> QED BY <2>2, <2>3
<1>3. CASE TelegramPoll
  <2>1. /\ batch[t] = <<>> /\ Confirm(t) /\ Reply(t)
        /\ UNCHANGED <<sent, offset, channel, handler, deaths>>
    BY <1>3 DEF TelegramPoll, TelegramReady
  <2>2. ASSUME NEW i \in Ids(t), Missing(i)' PROVE Missing(i)
    <3>1. /\ result'[t][i] = IF i > confirmed'[t] /\ i <= confirmed'[t] + Len(batch'[t])
                               THEN "none" ELSE result[t][i]
          /\ Len(batch'[t]) \in Nat /\ confirmed'[t] \in Nat /\ i \in Nat
          /\ DOMAIN batch'[t] = 1..Len(batch'[t])
          /\ \A k \in 1..Len(batch'[t]) : batch'[t][k] = confirmed'[t] + k
      BY <1>t, <1>p, <2>1, ReplyResets, ReplyInv, ConfirmInv, Streams
    <3>2. CASE i > confirmed'[t] /\ i <= confirmed'[t] + Len(batch'[t])
      <4>1. i - confirmed'[t] \in 1..Len(batch'[t])
            /\ batch'[t][i - confirmed'[t]] = confirmed'[t] + (i - confirmed'[t])
        BY <3>1, <3>2
      <4>2. confirmed'[t] + (i - confirmed'[t]) = i
        BY <3>1
      <4> QED BY <2>2, <3>1, <4>1, <4>2 DEF Missing, InMemory
    <3>3. CASE ~(i > confirmed'[t] /\ i <= confirmed'[t] + Len(batch'[t]))
      BY <2>1, <2>2, <3>1, <3>3 DEF Missing, InMemory
    <3> QED BY <3>2, <3>3
  <2>3. /\ confirmed'[t] = confirmed[t] \/ confirmed'[t] = offset[t]
        /\ confirmed[t] <= confirmed'[t] /\ offset'[t] = offset[t]
    BY <1>t, <1>p, <2>1, ConfirmInv
  <2>4. \A i \in 1..offset'[t] : ~(i > offset[t])
    BY <1>t, <1>p, <2>3, Shape
  <2> QED BY <1>t, <2>1, <2>2, <2>3, <2>4, LossKept DEF LossInv
<1>4. CASE MaxPoll
  <2>1. /\ Confirm("max") /\ Reply("max")
        /\ offset' = [offset EXCEPT !["max"] = confirmed'["max"] + Len(batch'["max"])]
        /\ UNCHANGED <<sent, channel, handler, deaths>>
    BY <1>4 DEF MaxPoll
  <2>2. /\ confirmed'[t] = confirmed[t] /\ batch'[t] = batch[t] /\ result'[t] = result[t]
        /\ offset'[t] = offset[t]
    BY <1>t, <1>p, <2>1, ConfirmInv, ReplyInv, ReplyResets DEF Shapes
  <2> QED BY <2>1, <2>2, LossStutters
<1> QED BY <1>1, <1>2, <1>3, <1>4

(* An update moves from the reply to the channel, from there to its        *)
(* handler.                                                                *)
LEMMA LossMoves ==
    ASSUME IInv, IInv', LossInv, Pass \/ TelegramTake \/ MaxTake
    PROVE  LossInv'
<1> DEFINE t == "telegram"
<1>t. Shapes /\ OrderInv /\ Shapes'
  BY DEF IInv
<1>p. t \in Platforms /\ "max" \in Platforms /\ t # "max"
  BY TwoPlatforms
<1>s. /\ batch[t] \in Seq(Ids(t)) /\ Len(batch[t]) \in Nat /\ DOMAIN batch[t] = 1..Len(batch[t])
      /\ channel \in Seq(Ids(t)) /\ Len(channel) \in Nat /\ DOMAIN channel = 1..Len(channel)
      /\ batch'[t] \in Seq(Ids(t)) /\ DOMAIN batch'[t] = 1..Len(batch'[t])
      /\ channel' \in Seq(Ids(t)) /\ DOMAIN channel' = 1..Len(channel')
      /\ offset[t] \in Nat /\ confirmed[t] \in Nat /\ Ids(t) = 1..Len(Stream[t])
  <2>1. batch'[t] \in Seq(Ids(t)) /\ channel' \in Seq(Ids(t))
    BY <1>t, <1>p DEF Shapes, TypeOK
  <2> QED BY <1>t, <1>p, <2>1, Shape, Streams
<1>1. CASE Pass
  <2> DEFINE h == Head(batch[t])
  <2>1. /\ batch[t] # <<>> /\ Len(channel) < Buffer
        /\ offset'[t] = h
        /\ channel' = Append(channel, h)
        /\ batch'[t] = Tail(batch[t])
        /\ UNCHANGED <<confirmed, handler, result, deaths>>
    BY <1>t, <1>p, <1>1 DEF Pass, server, history, Shapes
  <2>2. /\ h = batch[t][1] /\ h \in Ids(t) /\ Len(batch[t]) >= 1
        /\ Len(Tail(batch[t])) = Len(batch[t]) - 1
        /\ \A k \in 1..(Len(batch[t]) - 1) : Tail(batch[t])[k] = batch[t][k + 1]
    BY <1>s, <2>1, HeadAndTail
  <2>3. /\ Len(channel') = Len(channel) + 1 /\ channel'[Len(channel) + 1] = h
        /\ \A k \in 1..Len(channel) : channel'[k] = channel[k]
    BY <1>s, <2>1, <2>2
  <2>4. h = (IF offset[t] = 0 THEN confirmed[t] ELSE offset[t]) + 1
    BY <1>t, <1>s, <2>2 DEF OrderInv
  <2> HIDE DEF h
  <2>5. ASSUME NEW i, InMemory(t, i) PROVE InMemory(t, i)'
    <3>1. CASE \E k \in 1..Len(batch[t]) : batch[t][k] = i
      <4>1. PICK k \in 1..Len(batch[t]) : batch[t][k] = i
        BY <3>1
      <4>2. CASE k = 1
        <5>1. (Len(channel) + 1) \in DOMAIN channel' /\ channel'[Len(channel) + 1] = i
          BY <1>s, <2>2, <2>3, <4>1, <4>2
        <5> QED BY <5>1 DEF InMemory
      <4>3. CASE k # 1
        <5>1. (k - 1) \in DOMAIN batch'[t] /\ batch'[t][k - 1] = batch[t][(k - 1) + 1]
              /\ (k - 1) + 1 = k
          BY <1>s, <2>1, <2>2, <4>3
        <5> QED BY <4>1, <5>1 DEF InMemory
      <4> QED BY <4>2, <4>3
    <3>2. CASE \E k \in 1..Len(channel) : channel[k] = i
      <4>1. PICK k \in 1..Len(channel) : channel[k] = i
        BY <3>2
      <4>2. k \in DOMAIN channel' /\ channel'[k] = i
        BY <1>s, <2>3, <4>1
      <4> QED BY <4>2 DEF InMemory
    <3>3. CASE handler[t] # None /\ handler[t].id = i
      BY <2>1, <3>3 DEF InMemory
    <3> QED BY <1>s, <2>5, <3>1, <3>2, <3>3 DEF InMemory
  <2>6. \A i \in Ids(t) : Missing(i)' => Missing(i)
    BY <2>1, <2>5 DEF Missing
  <2>7. \A i \in 1..offset'[t] : i > offset[t] /\ i > confirmed[t] => ~Missing(i)'
    <3>1. \A i \in 1..offset'[t] : i > offset[t] /\ i > confirmed[t] => i = h
      BY <1>s, <2>1, <2>4
    <3>2. (Len(channel) + 1) \in DOMAIN channel' /\ channel'[Len(channel) + 1] = h
      BY <1>s, <2>3
    <3> QED BY <3>1, <3>2 DEF Missing, InMemory
  <2>8. Len(channel') <= Buffer
    BY <1>s, <2>1, <2>3, ConstantsAssumption
  <2>9. confirmed'[t] = confirmed[t] /\ confirmed[t] <= confirmed'[t]
    BY <1>s, <2>1
  <2> QED BY <1>t, <2>1, <2>6, <2>7, <2>8, <2>9, LossKept
<1>2. CASE TelegramTake
  <2> DEFINE h == Head(channel)
  <2>1. /\ handler[t] = None /\ channel # <<>> /\ Begin(t, h)
        /\ channel' = Tail(channel)
        /\ UNCHANGED <<confirmed, offset, batch, result, deaths>>
    BY <1>2 DEF TelegramTake, server
  <2>2. /\ h = channel[1] /\ h \in Ids(t) /\ Len(channel) >= 1
        /\ Len(Tail(channel)) = Len(channel) - 1
        /\ \A k \in 1..(Len(channel) - 1) : Tail(channel)[k] = channel[k + 1]
    BY <1>s, <2>1, HeadAndTail
  <2>3. handler'[t] # None /\ handler'[t].id = h
    BY <1>t, <1>p, <2>1, <2>2, BeginInv
  <2> HIDE DEF h
  <2>4. ASSUME NEW i, InMemory(t, i) PROVE InMemory(t, i)'
    <3>1. CASE \E k \in 1..Len(channel) : channel[k] = i
      <4>1. PICK k \in 1..Len(channel) : channel[k] = i
        BY <3>1
      <4>2. CASE k = 1
        BY <2>2, <2>3, <4>1, <4>2 DEF InMemory
      <4>3. CASE k # 1
        <5>1. (k - 1) \in DOMAIN channel' /\ channel'[k - 1] = channel[(k - 1) + 1]
              /\ (k - 1) + 1 = k
          BY <1>s, <2>1, <2>2, <4>3
        <5> QED BY <4>1, <5>1 DEF InMemory
      <4> QED BY <4>2, <4>3
    <3>2. CASE \E k \in DOMAIN batch[t] : batch[t][k] = i
      BY <2>1, <3>2 DEF InMemory
    <3> QED BY <1>s, <2>1, <2>4, <3>1, <3>2 DEF InMemory
  <2>5. \A i \in Ids(t) : Missing(i)' => Missing(i)
    BY <2>1, <2>4 DEF Missing
  <2>6. /\ \A i \in 1..offset'[t] : ~(i > offset[t])
        /\ confirmed'[t] = confirmed[t] /\ confirmed[t] <= confirmed'[t]
    BY <1>s, <2>1
  <2>7. Len(channel') <= Buffer
    BY <1>s, <2>1, <2>2, ConstantsAssumption DEF LossInv
  <2> QED BY <1>t, <2>1, <2>5, <2>6, <2>7, LossKept
<1>3. CASE MaxTake
  <2>1. /\ batch'[t] = batch[t] /\ handler'[t] = handler[t]
        /\ UNCHANGED <<confirmed, offset, channel, result, deaths>>
    BY <1>t, <1>p, <1>3 DEF MaxTake, Begin, server, Shapes
  <2> QED BY <2>1, LossStutters
<1> QED BY <1>1, <1>2, <1>3

(* What a step of a handler does to the histories of Updates: it moves on  *)
(* or it ends.                                                             *)
LEMMA StepEnds ==
    ASSUME IInv, NEW p \in Platforms, HandlerStep(p)
    PROVE  /\ handler[p] # None /\ UNCHANGED Fetched
           /\ Advances(p) \/ Ends(p)
<1>0. handler[p] # None
  BY DEF HandlerStep, FindUser, CreateUser, CreateRefused, Work, StatementFails, AtStep
<1>1. CASE FindUser(p)
  BY <1>0, <1>1, GotoAdvances DEF FindUser, server, fetching, history, Fetched
<1>2. CASE CreateUser(p)
  BY <1>0, <1>2, GotoAdvances DEF CreateUser, server, fetching, history, Fetched
<1>3. CASE CreateRefused(p)
  BY <1>0, <1>3, FinishEnds DEF CreateRefused, server, fetching, Fetched, Verdicts
<1>4. CASE Work(p)
  BY <1>0, <1>4, FinishEnds DEF Work, server, fetching, Fetched, Verdicts
<1>5. CASE StatementFails(p)
  <2> DEFINE v == IF proc = "stopping" THEN "cancelled" ELSE "failed"
  <2>1. Finish(p, v) /\ UNCHANGED Fetched
    BY <1>5 DEF StatementFails, server, fetching, Fetched
  <2>2. v \in Verdicts \ {"none"} /\ (proc = "running" => v \in {"ok", "failed"})
    BY DEF Verdicts
  <2> QED BY <1>0, <2>1, <2>2, FinishEnds
<1> QED BY <1>1, <1>2, <1>3, <1>4, <1>5 DEF HandlerStep

LEMMA AfterStep ==
    ASSUME IInv, NEW p \in Platforms, handler[p] # None, Advances(p) \/ Ends(p)
    PROVE  /\ \A q \in Platforms : q # p => handler'[q] = handler[q] /\ result'[q] = result[q]
           /\ \A i \in Ids(p) : i # handler[p].id => result'[p][i] = result[p][i]
           /\ \/ handler'[p] # None /\ handler'[p].id = handler[p].id /\ result' = result
              \/ handler'[p] = None /\ result'[p][handler[p].id] # "none"
<1>t. Shapes /\ HeldSent
  BY DEF IInv
<1>h. handler[p] \in Handling /\ handler[p].id \in Ids(p) /\ None \notin Handling
      /\ result[p] \in [Ids(p) -> Verdicts]
  BY <1>t, InHand, Shape, ConstantsAssumption
<1>1. CASE Advances(p)
  <2>1. PICK pc \in {"find", "create", "work"} : handler' = [handler EXCEPT ![p].pc = pc]
    BY <1>1 DEF Advances
  <2>2. /\ handler'[p] = [handler[p] EXCEPT !.pc = pc]
        /\ \A q \in Platforms : q # p => handler'[q] = handler[q]
    BY <1>t, <2>1 DEF Shapes
  <2>3. handler'[p] \in Handling /\ handler'[p].id = handler[p].id
    BY <1>h, <2>2 DEF Handling
  <2> QED BY <1>1, <1>h, <2>2, <2>3 DEF Advances
<1>2. CASE Ends(p)
  <2>1. PICK v \in Verdicts \ {"none"} : result' = [result EXCEPT ![p][handler[p].id] = v]
    BY <1>2 DEF Ends
  <2>2. /\ result'[p] = [result[p] EXCEPT ![handler[p].id] = v]
        /\ \A q \in Platforms : q # p => result'[q] = result[q]
    BY <1>t, <2>1 DEF Shapes
  <2>3. handler'[p] = None /\ \A q \in Platforms : q # p => handler'[q] = handler[q]
    BY <1>t, <1>2 DEF Ends, Shapes
  <2> QED BY <1>h, <2>1, <2>2, <2>3
<1> QED BY <1>1, <1>2

LEMMA LossHandled ==
    ASSUME IInv, IInv', LossInv, NEW p \in Platforms, HandlerStep(p)
    PROVE  LossInv'
<1> DEFINE t == "telegram"
<1>t. Shapes /\ HeldSent /\ Shapes'
  BY DEF IInv
<1>f. /\ handler[p] # None
      /\ Advances(p) \/ Ends(p)
      /\ UNCHANGED <<confirmed, offset, batch, channel, deaths>>
  BY StepEnds DEF Fetched
<1>1. CASE p # t
  BY <1>f, <1>1, AfterStep, LossStutters, TwoPlatforms
<1>2. CASE p = t
  <2>1. /\ \A i \in Ids(t) : i # handler[t].id => result'[t][i] = result[t][i]
        /\ \/ handler'[t] # None /\ handler'[t].id = handler[t].id /\ result' = result
           \/ handler'[t] = None /\ result'[t][handler[t].id] # "none"
    BY <1>f, <1>2, AfterStep
  <2>2. \A i \in Ids(t) : Missing(i)' => Missing(i)
    BY <1>f, <1>2, <2>1 DEF Missing, InMemory
  <2>3. /\ \A i \in 1..offset'[t] : ~(i > offset[t])
        /\ confirmed'[t] = confirmed[t] /\ confirmed[t] <= confirmed'[t]
    BY <1>t, <1>f, Shape, TwoPlatforms
  <2> QED BY <1>t, <1>f, <2>2, <2>3, LossKept DEF LossInv
<1> QED BY <1>1, <1>2

LEMMA UnionBound ==
    ASSUME NEW A, NEW B, IsFiniteSet(A), IsFiniteSet(B)
    PROVE  /\ IsFiniteSet(A \cup B) /\ Cardinality(A \cup B) \in Nat
           /\ Cardinality(A \cup B) <= Cardinality(A) + Cardinality(B)
<1>1. /\ IsFiniteSet(A \cup B)
      /\ Cardinality(A \cup B) = Cardinality(A) + Cardinality(B) - Cardinality(A \cap B)
  BY FS_Union
<1>2. IsFiniteSet(A \cap B)
  BY FS_Subset
<1>3. /\ Cardinality(A) \in Nat /\ Cardinality(B) \in Nat /\ Cardinality(A \cup B) \in Nat
      /\ Cardinality(A \cap B) \in Nat
  BY <1>1, <1>2, FS_CardinalityType
<1> QED BY <1>1, <1>3

LEMMA ContentsBound ==
    ASSUME NEW S, NEW s \in Seq(S)
    PROVE  /\ IsFiniteSet({s[k] : k \in 1..Len(s)})
           /\ Cardinality({s[k] : k \in 1..Len(s)}) <= Len(s)
<1> DEFINE C == {s[k] : k \in 1..Len(s)}
<1>1. Len(s) \in Nat /\ s \in [1..Len(s) -> C]
  OBVIOUS
<1>2. \A c \in C : \E k \in 1..Len(s) : s[k] = c
  OBVIOUS
<1>3. s \in Surjection(1..Len(s), C)
  <2> HIDE DEF C
  <2> QED BY <1>1, <1>2 DEF Surjection
<1>4. ExistsSurjection(1..Len(s), C)
  BY <1>3 DEF ExistsSurjection
<1> HIDE DEF C
<1>5. IsFiniteSet(C) /\ Cardinality(C) <= Len(s)
  BY <1>1, <1>4, FS_NatSurjection, FS_SurjCardinalityBound
<1> QED BY <1>5 DEF C

(* A process that dies loses the channel and the update in hand: the rest  *)
(* of the last reply is not confirmed and comes again.                     *)
LEMMA LossCut ==
    ASSUME IInv, IInv', LossInv, CutOff
    PROVE  LossInv'
<1> DEFINE t == "telegram"
           L == Lost(t)
           C == {channel[k] : k \in 1..Len(channel)}
           H == IF handler[t] = None THEN {} ELSE {handler[t].id}
<1>t. Shapes /\ OrderInv /\ Shapes'
  BY DEF IInv
<1>s. /\ t \in Platforms /\ Len(channel) \in Nat /\ DOMAIN channel = 1..Len(channel)
      /\ DOMAIN batch[t] = 1..Len(batch[t]) /\ Len(batch[t]) \in Nat
      /\ confirmed[t] \in Nat /\ offset[t] \in Nat
  BY <1>t, TwoPlatforms, Shape
<1>1. /\ deaths' = deaths + 1 /\ deaths \in Nat
      /\ offset'[t] = 0 /\ channel' = <<>>
      /\ UNCHANGED <<confirmed, result>>
  BY <1>t, <1>s DEF CutOff, server, Shapes, TypeOK
<1>2. \A k \in DOMAIN batch[t] : ~(batch[t][k] <= confirmed[t])
  <2> TAKE k \in DOMAIN batch[t]
  <2>1. batch[t][k] = (IF offset[t] = 0 THEN confirmed[t] ELSE offset[t]) + k
    BY <1>t, <1>s DEF OrderInv
  <2>2. offset[t] = 0 \/ confirmed[t] <= offset[t]
    BY <1>t DEF OrderInv, Reached
  <2>3. k \in Nat /\ k >= 1
    BY <1>s
  <2> QED BY <1>s, <2>1, <2>2, <2>3
<1>3. L' \subseteq (L \cup C) \cup H
  <2> SUFFICES ASSUME NEW i \in 1..confirmed[t], result[t][i] = "none"
               PROVE  i \in (L \cup C) \cup H
    BY <1>1 DEF Lost
  <2>1. i <= confirmed[t]
    BY <1>s
  <2>2. InMemory(t, i) => i \in C \cup H
    BY <1>2, <1>s, <2>1 DEF InMemory
  <2> QED BY <2>2 DEF Lost
<1>4. IsFiniteSet(C) /\ Cardinality(C) \in Nat /\ Cardinality(C) <= Buffer
  <2>1. IsFiniteSet(C) /\ Cardinality(C) <= Len(channel)
    BY <1>t, <1>s, Shape, ContentsBound
  <2> QED BY <1>s, <2>1, FS_CardinalityType, ConstantsAssumption DEF LossInv
<1>5. IsFiniteSet(H) /\ Cardinality(H) \in 0..1
  <2>1. IsFiniteSet({}) /\ Cardinality({}) = 0
    BY FS_EmptySet
  <2>2. IsFiniteSet({handler[t].id}) /\ Cardinality({handler[t].id}) = 1
    BY FS_Singleton
  <2> QED BY <2>1, <2>2
<1>6. IsFiniteSet(L) /\ Cardinality(L) \in Nat
  BY <1>t, LostMissing
<1> HIDE DEF L, C, H
<1>7. Cardinality(L') \in Nat /\ Cardinality(L') <= (Cardinality(L) + Buffer) + 1
  <2>1. IsFiniteSet(L \cup C) /\ Cardinality(L \cup C) <= Cardinality(L) + Cardinality(C)
        /\ Cardinality(L \cup C) \in Nat
    BY <1>4, <1>6, UnionBound
  <2>2. IsFiniteSet((L \cup C) \cup H)
        /\ Cardinality((L \cup C) \cup H) <= Cardinality(L \cup C) + Cardinality(H)
        /\ Cardinality((L \cup C) \cup H) \in Nat
    BY <1>5, <2>1, UnionBound
  <2>3. Cardinality(L') <= Cardinality((L \cup C) \cup H) /\ Cardinality(L') \in Nat
    BY <1>3, <2>2, FS_Subset, FS_CardinalityType
  <2> QED BY <1>4, <1>5, <1>6, <2>1, <2>2, <2>3, ConstantsAssumption
<1>8. TelegramLossBounded'
  <2>1. Cardinality(L) <= (Buffer + 1) * deaths
    BY DEF LossInv, TelegramLossBounded, L
  <2>2. (Buffer + 1) * deaths' = (Buffer + 1) * deaths + (Buffer + 1)
    BY <1>1, ConstantsAssumption
  <2>3. (Buffer + 1) * deaths \in Nat /\ Buffer \in Nat
    BY <1>1, ConstantsAssumption
  <2>4. Cardinality(L') <= (Buffer + 1) * deaths'
    BY <1>6, <1>7, <2>1, <2>2, <2>3
  <2> QED BY <2>4 DEF TelegramLossBounded, L
<1>9. Len(channel') <= Buffer
  <2>1. Len(channel') = 0
    BY <1>1
  <2> QED BY <2>1, ConstantsAssumption
<1> QED BY <1>1, <1>8, <1>9 DEF LossInv

LEMMA LossNext == IInv /\ IInv' /\ LossInv /\ [Next]_vars => LossInv'
<1> SUFFICES ASSUME IInv, IInv', LossInv, [Next]_vars PROVE LossInv'
  OBVIOUS
<1>1. CASE TelegramPoll \/ MaxPoll \/ \E p \in Platforms : UserSends(p) \/ PollFails(p)
  BY <1>1, LossFetch, TwoPlatforms
<1>2. CASE Pass \/ TelegramTake \/ MaxTake
  BY <1>2, LossMoves
<1>3. CASE \E p \in Platforms : HandlerStep(p)
  BY <1>3, LossHandled
<1>4. CASE Crash \/ Exit
  BY <1>4, LossCut DEF Crash, Exit
<1>5. CASE Shutdown \/ Restart \/ (\E p \in Platforms : StopLoop(p)) \/ UNCHANGED vars
  <2>1. UNCHANGED <<confirmed, offset, batch, channel, handler, result, deaths>>
    BY <1>5 DEF Shutdown, Restart, StopLoop, server, fetching, history, vars
  <2> QED BY <2>1, LossStutters
<1> QED BY <1>1, <1>2, <1>3, <1>4, <1>5 DEF Next

(* Telegram: each crash or exit loses at most what the channel holds and   *)
(* the update in hand, though the offset is confirmed ahead of the         *)
(* handlers, and replies may be lost and updates come again.               *)
THEOREM TelegramLosesLittle == Spec => []TelegramLossBounded
<1>1. Init => LossInv
  <2> SUFFICES ASSUME Init PROVE LossInv
    OBVIOUS
  <2>1. /\ offset["telegram"] = 0 /\ Lost("telegram") = {} /\ Len(channel) = 0 /\ deaths = 0
    BY TwoPlatforms DEF Init, Lost
  <2>2. Cardinality(Lost("telegram")) <= (Buffer + 1) * deaths
    <3>1. Cardinality(Lost("telegram")) = 0
      BY <2>1, FS_EmptySet
    <3>2. (Buffer + 1) * 0 = 0
      BY ConstantsAssumption
    <3> QED BY <2>1, <3>1, <3>2
  <2> QED BY <2>1, <2>2, ConstantsAssumption DEF LossInv, TelegramLossBounded
<1>2. LossInv => TelegramLossBounded
  BY DEF LossInv
<1> QED BY <1>1, <1>2, LossNext, Invariance, PTL DEF Spec
-----------------------------------------------------------------------------
(* The mode.                                                               *)

(* What is on its way has not been handled since it was delivered.         *)
FreshInv ==
    \A p \in Platforms : \A i \in Ids(p) : InMemory(p, i) => result[p][i] = "none"

HandInv == \A p \in Platforms : handler[p] # None => handler[p].id = last[p]

(* Update i is behind this process, or was behind an earlier one for good. *)
Seen(p, i) == i <= last[p] \/ i <= confirmed[p]

(* i is the last choice of u so far, who makes none elsewhere.             *)
LastChoice(u, p, i) ==
    /\ i \in ChoicesOn(p, u)
    /\ \A k \in ChoicesOn(p, u) : k <= i \/ k > sent[p]
    /\ \A q \in Platforms \ {p} : ChoicesOn(q, u) = {}

RowInv ==
    \A u \in Users, p \in Platforms : \A i \in Ids(p) :
        LastChoice(u, p, i) /\ Seen(p, i) /\ result[p][i] = "ok"
        => users[u] = Stream[p][i].kind

ModeInv == FreshInv /\ HandInv /\ RowInv

(* A step that writes no row, nor reports or passes one more update well.  *)
LEMMA RowKept ==
    ASSUME IInv, IInv', RowInv, UNCHANGED users,
           \A p \in Platforms : sent[p] <= sent'[p],
           \A p \in Platforms : \A i \in Ids(p) :
              Seen(p, i)' /\ result'[p][i] = "ok" => Seen(p, i) /\ result[p][i] = "ok"
    PROVE  RowInv'
<1> SUFFICES ASSUME NEW u \in Users, NEW p \in Platforms, NEW i \in Ids(p),
                    LastChoice(u, p, i)', Seen(p, i)', result'[p][i] = "ok"
             PROVE  users'[u] = Stream[p][i].kind
  BY DEF RowInv
<1>1. LastChoice(u, p, i)
  <2>1. sent[p] \in Nat /\ sent'[p] \in Nat /\ sent[p] <= sent'[p]
    <3>1. Shapes /\ Shapes'
      BY DEF IInv
    <3>2. sent[p] \in Nat
      BY <3>1, Shape
    <3>3. sent'[p] \in Nat
      BY <3>1, Streams DEF Shapes, TypeOK
    <3> QED BY <3>2, <3>3
  <2>2. \A k \in ChoicesOn(p, u) : k \in Nat
    BY Streams DEF ChoicesOn
  <2> QED BY <2>1, <2>2 DEF LastChoice
<1> QED BY <1>1 DEF RowInv

(* The updates after the last one taken, up to Telegram's offset, are in   *)
(* the channel.                                                            *)
LEMMA AheadInChannel ==
    ASSUME IInv, NEW i \in Ids("telegram"), i <= offset["telegram"],
           i > offset["telegram"] - Len(channel)
    PROVE  InMemory("telegram", i)
<1> DEFINE t == "telegram"
           k == i - (offset[t] - Len(channel))
<1>t. Shapes /\ UpTo(channel, offset[t])
  BY DEF IInv, OrderInv
<1>s. offset[t] \in Nat /\ Len(channel) \in Nat /\ i \in Nat /\ DOMAIN channel = 1..Len(channel)
  BY <1>t, TwoPlatforms, Shape, Streams
<1>1. k \in 1..Len(channel) /\ (offset[t] - Len(channel)) + k = i
  BY <1>s
<1>2. channel[k] = i
  BY <1>t, <1>1 DEF UpTo
<1> HIDE DEF k
<1> QED BY <1>s, <1>1, <1>2 DEF InMemory

(* The update in hand is nowhere else.                                     *)
LEMMA InHandOnly ==
    ASSUME IInv, HandInv, NEW p \in Platforms, handler[p] # None
    PROVE  /\ \A k \in DOMAIN batch[p] : batch[p][k] # handler[p].id
           /\ p = "telegram" => \A k \in DOMAIN channel : channel[k] # handler[p].id
<1>t. Shapes /\ HeldSent /\ OrderInv /\ handler[p].id = last[p]
  BY DEF IInv, HandInv
<1>s. /\ offset[p] \in Nat /\ last[p] \in Nat /\ last[p] # 0
      /\ Len(batch[p]) \in Nat /\ DOMAIN batch[p] = 1..Len(batch[p])
      /\ Len(channel) \in Nat /\ DOMAIN channel = 1..Len(channel)
  <2>1. handler[p].id \in Nat /\ handler[p].id # 0
    BY <1>t, InHand, Streams
  <2> QED BY <1>t, <2>1, Shape
<1>1. CASE p = "telegram"
  <2>1. last[p] = offset[p] - Len(channel)
    BY <1>t, <1>s, <1>1 DEF OrderInv, Reached
  <2>2. offset[p] # 0 /\ offset[p] >= last[p]
    BY <1>s, <2>1
  <2>3. \A k \in 1..Len(batch[p]) : batch[p][k] = offset[p] + k
    BY <1>t, <1>1, <2>2 DEF OrderInv
  <2>4. \A k \in 1..Len(channel) : channel[k] = last[p] + k
    BY <1>t, <1>1, <2>1 DEF OrderInv, UpTo
  <2>5. \A k \in 1..Len(channel) : last[p] + k # last[p]
    BY <1>s
  <2>6. \A k \in 1..Len(batch[p]) : offset[p] + k # last[p]
    BY <1>s, <2>2
  <2> QED BY <1>t, <1>s, <2>3, <2>4, <2>5, <2>6
<1>2. CASE p = "max"
  <2>1. last[p] = offset[p] - Len(batch[p])
    BY <1>t, <1>s, <1>2 DEF OrderInv, Reached
  <2>2. \A k \in 1..Len(batch[p]) : batch[p][k] = last[p] + k
    BY <1>t, <1>2, <2>1 DEF OrderInv, UpTo
  <2>3. \A k \in 1..Len(batch[p]) : last[p] + k # last[p]
    BY <1>s
  <2> QED BY <1>t, <1>s, <1>2, <2>2, <2>3, TwoPlatforms
<1> QED BY <1>1, <1>2, TwoPlatforms

(* Confirming a position passes nothing that has been handled well and is  *)
(* not seen already: what lies between is in the channel.                  *)
LEMMA SeenConfirmed ==
    ASSUME IInv, FreshInv, NEW p \in Platforms, NEW i \in Ids(p),
           confirmed'[p] = IF confirmed[p] < offset[p] THEN offset[p] ELSE confirmed[p],
           p = "max" => batch["max"] = <<>>,
           i <= confirmed'[p], result[p][i] = "ok"
    PROVE  Seen(p, i)
<1>t. Shapes /\ OrderInv
  BY DEF IInv
<1>s. /\ offset[p] \in Nat /\ last[p] \in Nat /\ confirmed[p] \in Nat /\ i \in Nat
      /\ Len(batch[p]) \in Nat /\ Len(channel) \in Nat
  BY <1>t, Shape, Streams
<1> SUFFICES ASSUME i <= offset[p], ~(i <= last[p]), ~(i <= confirmed[p]) PROVE FALSE
  BY <1>s DEF Seen
<1>1. CASE p = "telegram"
  <2>1. i > offset[p] - Len(channel)
    BY <1>t, <1>s, <1>1 DEF OrderInv, Reached
  <2> QED BY <1>1, <2>1, AheadInChannel DEF FreshInv
<1>2. CASE p = "max"
  <2>1. Len(batch[p]) = 0
    BY <1>2
  <2>2. last[p] \in {0, offset[p]} /\ (last[p] = 0 => offset[p] <= confirmed[p])
    BY <1>t, <1>s, <1>2, <2>1 DEF OrderInv, Reached
  <2> QED BY <1>s, <2>2
<1> QED BY <1>1, <1>2, TwoPlatforms

LEMMA ModeConfirms ==
    ASSUME IInv, IInv', ModeInv, NEW p \in Platforms, PollFails(p)
    PROVE  ModeInv'
<1>t. Shapes /\ FreshInv /\ HandInv /\ RowInv
  BY DEF IInv, ModeInv
<1>1. /\ Confirm(p)
      /\ p = "max" => batch["max"] = <<>>
      /\ UNCHANGED <<sent, offset, batch, channel, handler, users, last, result>>
  BY TwoPlatforms DEF PollFails, Ready, MaxReady, fetching, history
<1>2. FreshInv' /\ HandInv'
  BY <1>t, <1>1 DEF FreshInv, HandInv, InMemory
<1>3. ASSUME NEW q \in Platforms, NEW i \in Ids(q), Seen(q, i)', result'[q][i] = "ok"
      PROVE  Seen(q, i) /\ result[q][i] = "ok"
  <2>1. CASE i <= last[q]
    BY <1>1, <1>3, <2>1 DEF Seen
  <2>2. CASE i <= confirmed'[q] /\ q = p
    BY <1>t, <1>1, <1>3, <2>2, ConfirmInv, SeenConfirmed
  <2>3. CASE i <= confirmed'[q] /\ q # p
    BY <1>t, <1>1, <1>3, <2>3, ConfirmInv DEF Seen
  <2> QED BY <1>1, <1>3, <2>1, <2>2, <2>3 DEF Seen
<1>4. \A q \in Platforms : sent[q] <= sent'[q]
  BY <1>t, <1>1, Shape
<1> QED BY <1>t, <1>1, <1>2, <1>3, <1>4, RowKept DEF ModeInv

LEMMA ModePolls ==
    ASSUME IInv, IInv', ModeInv, TelegramPoll \/ MaxPoll
    PROVE  ModeInv'
<1>t. Shapes /\ FreshInv /\ HandInv /\ RowInv
  BY DEF IInv, ModeInv
<1>1. PICK p \in Platforms :
         /\ Confirm(p) /\ Reply(p) /\ batch[p] = <<>>
         /\ UNCHANGED <<sent, channel, handler, users, last>>
  BY TwoPlatforms DEF TelegramPoll, MaxPoll, TelegramReady, MaxReady
<1>2. /\ \A q \in Platforms \ {p} : result'[q] = result[q] /\ batch'[q] = batch[q]
                                     /\ confirmed'[q] = confirmed[q]
      /\ \A i \in Ids(p) : result'[p][i] =
            IF i > confirmed'[p] /\ i <= confirmed'[p] + Len(batch'[p])
              THEN "none" ELSE result[p][i]
      /\ Len(batch'[p]) \in Nat /\ confirmed'[p] \in Nat
      /\ DOMAIN batch'[p] = 1..Len(batch'[p])
      /\ \A k \in 1..Len(batch'[p]) : batch'[p][k] = confirmed'[p] + k
  BY <1>t, <1>1, ReplyResets, ReplyInv, ConfirmInv
<1>3. FreshInv'
  <2> SUFFICES ASSUME NEW q \in Platforms, NEW i \in Ids(q), InMemory(q, i)'
               PROVE  result'[q][i] = "none"
    BY DEF FreshInv
  <2>1. CASE InMemory(q, i)
    <3>1. result[q][i] = "none"
      BY <1>t, <2>1 DEF FreshInv
    <3> QED BY <1>2, <3>1
  <2>2. CASE q = p /\ \E k \in 1..Len(batch'[p]) : batch'[p][k] = i
    BY <1>2, <2>2
  <2> QED BY <1>1, <1>2, <2>1, <2>2 DEF InMemory
<1>4. HandInv'
  BY <1>t, <1>1 DEF HandInv
<1>5. ASSUME NEW q \in Platforms, NEW i \in Ids(q), Seen(q, i)', result'[q][i] = "ok"
      PROVE  Seen(q, i) /\ result[q][i] = "ok"
  <2>0. result[q][i] = "ok"
    BY <1>2, <1>5
  <2>1. CASE i <= last[q]
    BY <1>1, <2>0, <2>1 DEF Seen
  <2>2. CASE i <= confirmed'[q] /\ q = p
    BY <1>t, <1>1, <2>0, <2>2, ConfirmInv, SeenConfirmed
  <2>3. CASE i <= confirmed'[q] /\ q # p
    BY <1>2, <2>0, <2>3 DEF Seen
  <2> QED BY <1>1, <1>5, <2>1, <2>2, <2>3 DEF Seen
<1>6. \A q \in Platforms : sent[q] <= sent'[q]
  BY <1>t, <1>1, Shape
<1> QED BY <1>t, <1>1, <1>3, <1>4, <1>5, <1>6, RowKept DEF ModeInv

(* Nothing is confirmed, and what is at hand was so before.                *)
LEMMA ModeStutters ==
    ASSUME IInv, IInv', ModeInv, UNCHANGED <<confirmed, handler, users, last, result>>,
           \A p \in Platforms : sent[p] <= sent'[p],
           \A p \in Platforms : \A i : InMemory(p, i)' => InMemory(p, i)
    PROVE  ModeInv'
<1>1. FreshInv' /\ HandInv'
  BY DEF ModeInv, FreshInv, HandInv
<1>2. \A q \in Platforms : \A i \in Ids(q) : Seen(q, i)' => Seen(q, i)
  BY DEF Seen
<1> QED BY <1>1, <1>2, RowKept DEF ModeInv

LEMMA ModePasses ==
    ASSUME IInv, IInv', ModeInv, Pass
    PROVE  ModeInv'
<1> DEFINE t == "telegram"
           h == Head(batch[t])
<1>t. Shapes
  BY DEF IInv
<1>1. /\ batch[t] # <<>> /\ channel' = Append(channel, h)
      /\ batch' = [batch EXCEPT ![t] = Tail(batch[t])]
      /\ UNCHANGED <<sent, confirmed, handler, users, last, result>>
  BY DEF Pass, server, history
<1>s. /\ batch[t] \in Seq(Ids(t)) /\ channel \in Seq(Ids(t)) /\ Len(channel) \in Nat
      /\ DOMAIN batch[t] = 1..Len(batch[t]) /\ DOMAIN channel = 1..Len(channel)
  BY <1>t, TwoPlatforms, Shape
<1>2. /\ h = batch[t][1] /\ h \in Ids(t) /\ Len(batch[t]) \in Nat /\ Len(batch[t]) >= 1
      /\ Tail(batch[t]) \in Seq(Ids(t)) /\ Len(Tail(batch[t])) = Len(batch[t]) - 1
      /\ \A k \in 1..(Len(batch[t]) - 1) : Tail(batch[t])[k] = batch[t][k + 1]
  BY <1>1, <1>s, HeadAndTail
<1>3. /\ batch'[t] = Tail(batch[t]) /\ \A p \in Platforms : p # t => batch'[p] = batch[p]
  BY <1>t, <1>1, TwoPlatforms DEF Shapes
<1>4. ASSUME NEW i, NEW k \in DOMAIN batch'[t], batch'[t][k] = i
      PROVE  InMemory(t, i)
  <2>1. k \in 1..(Len(batch[t]) - 1)
    BY <1>2, <1>3, <1>4
  <2>2. (k + 1) \in DOMAIN batch[t] /\ batch[t][k + 1] = i
    BY <1>s, <1>2, <1>3, <1>4, <2>1
  <2> QED BY <2>2 DEF InMemory
<1>5. ASSUME NEW i, NEW k \in DOMAIN channel', channel'[k] = i
      PROVE  InMemory(t, i)
  <2>1. (k \in 1..Len(channel) /\ channel[k] = i) \/ h = i
    BY <1>1, <1>2, <1>s, <1>5
  <2>2. 1 \in DOMAIN batch[t]
    BY <1>2, <1>s
  <2> QED BY <1>2, <1>s, <2>1, <2>2 DEF InMemory
<1>6. \A p \in Platforms : \A i : InMemory(p, i)' => InMemory(p, i)
  <2> SUFFICES ASSUME NEW p \in Platforms, NEW i, InMemory(p, i)' PROVE InMemory(p, i)
    OBVIOUS
  <2>1. CASE handler[p] # None /\ handler[p].id = i
    BY <2>1 DEF InMemory
  <2>2. CASE p = t
    <3>1. \/ handler[t] # None /\ handler[t].id = i
          \/ \E k \in DOMAIN batch'[t] : batch'[t][k] = i
          \/ \E k \in DOMAIN channel' : channel'[k] = i
      BY <1>1, <2>2 DEF InMemory
    <3> HIDE DEF h
    <3> QED BY <1>4, <1>5, <2>1, <2>2, <3>1
  <2>3. CASE p # t
    BY <1>1, <1>3, <2>3 DEF InMemory
  <2> QED BY <2>2, <2>3
<1>7. \A p \in Platforms : sent[p] <= sent'[p]
  BY <1>t, <1>1, Shape
<1> QED BY <1>1, <1>6, <1>7, ModeStutters

(* An update is taken: those before it are seen already.                   *)
LEMMA ModeTakes ==
    ASSUME IInv, IInv', ModeInv, NEW p \in Platforms, NEW h \in Ids(p),
           handler[p] = None, Begin(p, h), InMemory(p, h),
           last[p] \in {0, h - 1}, last[p] = 0 => h - 1 <= confirmed[p],
           UNCHANGED <<sent, confirmed, users, result>>,
           \A q \in Platforms : \A k \in DOMAIN batch'[q] :
              \E j \in DOMAIN batch[q] : batch[q][j] = batch'[q][k],
           \A k \in DOMAIN channel' : \E j \in DOMAIN channel : channel[j] = channel'[k]
    PROVE  ModeInv'
<1>t. Shapes /\ FreshInv /\ HandInv /\ RowInv
  BY DEF IInv, ModeInv
<1>1. /\ last'[p] = h /\ handler'[p].id = h /\ handler'[p] # None
      /\ \A q \in Platforms : q # p => handler'[q] = handler[q] /\ last'[q] = last[q]
  BY <1>t, BeginInv
<1>2. HandInv'
  BY <1>t, <1>1 DEF HandInv
<1>3. FreshInv'
  <2>1. \A q \in Platforms : \A i : InMemory(q, i)' => InMemory(q, i)
    <3> SUFFICES ASSUME NEW q \in Platforms, NEW i, InMemory(q, i)' PROVE InMemory(q, i)
      OBVIOUS
    <3>1. CASE handler'[q] # None /\ handler'[q].id = i
      <4>1. CASE q = p
        BY <1>1, <3>1, <4>1
      <4>2. CASE q # p
        BY <1>1, <3>1, <4>2 DEF InMemory
      <4> QED BY <4>1, <4>2
    <3>2. CASE \E k \in DOMAIN batch'[q] : batch'[q][k] = i
      BY <3>2 DEF InMemory
    <3>3. CASE q = "telegram" /\ \E k \in DOMAIN channel' : channel'[k] = i
      BY <3>3 DEF InMemory
    <3> QED BY <3>1, <3>2, <3>3 DEF InMemory
  <2> QED BY <1>t, <2>1 DEF FreshInv
<1>4. ASSUME NEW q \in Platforms, NEW i \in Ids(q), Seen(q, i)', result'[q][i] = "ok"
      PROVE  Seen(q, i) /\ result[q][i] = "ok"
  <2>1. CASE q # p
    BY <1>1, <1>4, <2>1 DEF Seen
  <2>2. CASE q = p
    <3>1. i # h
      BY <1>t, <1>4, <2>2 DEF FreshInv
    <3>2. i \in Nat /\ h \in Nat /\ confirmed[p] \in Nat /\ last[p] \in Nat
      BY <1>t, <2>2, Streams, Shape
    <3>3. i <= h - 1 \/ i <= confirmed[p]
      BY <1>1, <1>4, <2>2, <3>1, <3>2 DEF Seen
    <3>4. h - 1 <= last[p] \/ h - 1 <= confirmed[p]
      BY <3>2
    <3> QED BY <1>4, <2>2, <3>2, <3>3, <3>4 DEF Seen
  <2> QED BY <2>1, <2>2
<1>5. \A q \in Platforms : sent[q] <= sent'[q]
  BY <1>t, Shape
<1> QED BY <1>t, <1>2, <1>3, <1>4, <1>5, RowKept DEF ModeInv

LEMMA ModeTelegramTakes ==
    ASSUME IInv, IInv', ModeInv, TelegramTake
    PROVE  ModeInv'
<1> DEFINE t == "telegram"
           h == Head(channel)
<1>t. Shapes /\ OrderInv
  BY DEF IInv
<1>1. /\ handler[t] = None /\ channel # <<>> /\ Begin(t, h) /\ channel' = Tail(channel)
      /\ UNCHANGED <<sent, confirmed, offset, batch, users, result>>
  BY DEF TelegramTake, server
<1>s. /\ t \in Platforms /\ channel \in Seq(Ids(t)) /\ Len(channel) \in Nat
      /\ DOMAIN channel = 1..Len(channel) /\ offset[t] \in Nat /\ last[t] \in Nat
  BY <1>t, TwoPlatforms, Shape
<1>2. /\ h = channel[1] /\ h \in Ids(t) /\ Len(channel) >= 1
      /\ Tail(channel) \in Seq(Ids(t)) /\ Len(Tail(channel)) = Len(channel) - 1
      /\ \A k \in 1..(Len(channel) - 1) : Tail(channel)[k] = channel[k + 1]
  BY <1>1, <1>s, HeadAndTail
<1> HIDE DEF h
<1>3. h = (offset[t] - Len(channel)) + 1
  BY <1>t, <1>2, <1>s DEF OrderInv, UpTo
<1>4. h - 1 = offset[t] - Len(channel)
  BY <1>s, <1>3
<1>5. last[t] \in {0, h - 1} /\ (last[t] = 0 => h - 1 <= confirmed[t])
  BY <1>t, <1>4 DEF OrderInv, Reached
<1>6. InMemory(t, h)
  BY <1>2, <1>s DEF InMemory
<1>7. \A k \in DOMAIN channel' : \E j \in DOMAIN channel : channel[j] = channel'[k]
  <2> SUFFICES ASSUME NEW k \in 1..(Len(channel) - 1)
               PROVE  (k + 1) \in DOMAIN channel /\ channel[k + 1] = channel'[k]
    BY <1>1, <1>2
  <2> QED BY <1>1, <1>2, <1>s
<1> QED BY <1>1, <1>2, <1>s, <1>5, <1>6, <1>7, ModeTakes

LEMMA ModeMaxTakes ==
    ASSUME IInv, IInv', ModeInv, MaxTake
    PROVE  ModeInv'
<1> DEFINE m == "max"
           h == Head(batch[m])
<1>t. Shapes /\ OrderInv
  BY DEF IInv
<1>1. /\ handler[m] = None /\ batch[m] # <<>> /\ Begin(m, h)
      /\ batch' = [batch EXCEPT ![m] = Tail(batch[m])]
      /\ UNCHANGED <<sent, confirmed, offset, channel, users, result>>
  BY DEF MaxTake, server
<1>s. /\ m \in Platforms /\ batch[m] \in Seq(Ids(m)) /\ Len(batch[m]) \in Nat
      /\ DOMAIN batch[m] = 1..Len(batch[m]) /\ offset[m] \in Nat /\ last[m] \in Nat
  BY <1>t, TwoPlatforms, Shape
<1>2. /\ h = batch[m][1] /\ h \in Ids(m) /\ Len(batch[m]) >= 1
      /\ Tail(batch[m]) \in Seq(Ids(m)) /\ Len(Tail(batch[m])) = Len(batch[m]) - 1
      /\ \A k \in 1..(Len(batch[m]) - 1) : Tail(batch[m])[k] = batch[m][k + 1]
  BY <1>1, <1>s, HeadAndTail
<1>b. /\ batch'[m] = Tail(batch[m]) /\ \A q \in Platforms : q # m => batch'[q] = batch[q]
  BY <1>t, <1>1, <1>s DEF Shapes
<1> HIDE DEF h
<1>3. h = (offset[m] - Len(batch[m])) + 1
  BY <1>t, <1>2, <1>s DEF OrderInv, UpTo
<1>4. h - 1 = offset[m] - Len(batch[m])
  BY <1>s, <1>3
<1>5. last[m] \in {0, h - 1} /\ (last[m] = 0 => h - 1 <= confirmed[m])
  BY <1>t, <1>4 DEF OrderInv, Reached
<1>6. InMemory(m, h)
  BY <1>2, <1>s DEF InMemory
<1>7. \A q \in Platforms : \A k \in DOMAIN batch'[q] :
         \E j \in DOMAIN batch[q] : batch[q][j] = batch'[q][k]
  <2>1. ASSUME NEW k \in 1..(Len(batch[m]) - 1)
        PROVE  (k + 1) \in DOMAIN batch[m] /\ batch[m][k + 1] = batch'[m][k]
    BY <1>2, <1>b, <1>s, <2>1
  <2>2. DOMAIN batch'[m] = 1..(Len(batch[m]) - 1)
    BY <1>2, <1>b
  <2>3. \A q \in Platforms : q # m => batch'[q] = batch[q]
    BY <1>b
  <2> HIDE DEF m
  <2> QED BY <2>1, <2>2, <2>3
<1>8. \A k \in DOMAIN channel' : \E j \in DOMAIN channel : channel[j] = channel'[k]
  BY <1>1
<1>9. UNCHANGED <<sent, confirmed, users, result>>
  BY <1>1
<1> HIDE DEF m
<1> QED BY <1>1, <1>2, <1>s, <1>5, <1>6, <1>7, <1>8, <1>9, ModeTakes

(* What a step of a handler does to the row.                               *)
LEMMA RowEffect ==
    ASSUME IInv, FreshInv, NEW p \in Platforms, HandlerStep(p)
    PROVE  /\ \/ users' = users
              \/ users[User(p)] = None /\ users' = [users EXCEPT ![User(p)] = "unset"]
              \/ users' = SetMode(p)
           /\ result'[p][handler[p].id] = "ok" => users' = SetMode(p)
<1>t. Shapes /\ HeldSent
  BY DEF IInv
<1>0. /\ handler[p] # None /\ handler[p].id \in Ids(p) /\ result[p] \in [Ids(p) -> Verdicts]
      /\ DOMAIN result = Platforms
  BY <1>t, StepEnds, InHand, Shape DEF Shapes
<1>n. result[p][handler[p].id] = "none"
  BY <1>0 DEF FreshInv, InMemory
<1>v. ASSUME NEW v, Finish(p, v) PROVE result'[p][handler[p].id] = v
  BY <1>0, <1>v DEF Finish
<1>1. CASE FindUser(p)
  BY <1>1, <1>n DEF FindUser, history
<1>2. CASE CreateUser(p)
  BY <1>2, <1>n DEF CreateUser, HasRow, history
<1>3. CASE CreateRefused(p)
  BY <1>3, <1>v DEF CreateRefused
<1>4. CASE Work(p)
  BY <1>4 DEF Work
<1>5. CASE StatementFails(p)
  <2>1. users' \in {users, Effect(p)}
    BY <1>5 DEF StatementFails
  <2>2. result'[p][handler[p].id] = (IF proc = "stopping" THEN "cancelled" ELSE "failed")
    BY <1>5, <1>v DEF StatementFails
  <2> QED BY <2>1, <2>2 DEF Effect, HasRow
<1> QED BY <1>1, <1>2, <1>3, <1>4, <1>5 DEF HandlerStep

(* An older choice cannot come after one that is seen and was handled last.*)
LEMMA OldChoice ==
    ASSUME IInv, ModeInv, NEW p \in Platforms, handler[p] # None, NEW u \in Users,
           NEW q \in Platforms, NEW i \in Ids(q), LastChoice(u, q, i), Seen(q, i),
           result[q][i] = "ok", User(p) = u, Update(p).kind \in Choices
    PROVE  FALSE
<1> DEFINE j == handler[p].id
<1>t. Shapes /\ HeldSent /\ OrderInv /\ MaxInv /\ FreshInv /\ HandInv
  BY DEF IInv, ModeInv
<1>1. j \in Ids(p) /\ j <= sent[p] /\ j = last[p]
  BY <1>t, InHand DEF HeldSent, HandInv
<1>2. j \in ChoicesOn(p, u)
  BY <1>1 DEF ChoicesOn, User, Update
<1>3. p = q
  BY <1>2 DEF LastChoice
<1>s. /\ i \in Nat /\ j \in Nat /\ j # 0 /\ sent[p] \in Nat /\ confirmed[p] \in Nat
      /\ offset[p] \in Nat /\ Len(channel) \in Nat
  BY <1>t, <1>1, <1>3, Streams, Shape
<1>4. j <= i
  BY <1>1, <1>2, <1>3, <1>s DEF LastChoice
<1>5. i # j
  BY <1>3, <1>t DEF FreshInv, InMemory
<1>6. i <= confirmed[p] /\ i > j
  BY <1>1, <1>3, <1>4, <1>5, <1>s DEF Seen
<1>7. CASE p = "max"
  <2>1. j > confirmed[p]
    BY <1>t, <1>7 DEF MaxInv
  <2> QED BY <1>s, <1>6, <2>1
<1>8. CASE p = "telegram"
  <2>1. j = offset[p] - Len(channel) /\ (offset[p] = 0 \/ confirmed[p] <= offset[p])
    BY <1>t, <1>1, <1>8, <1>s DEF OrderInv, Reached
  <2>2. i <= offset[p] /\ i > offset[p] - Len(channel)
    BY <1>s, <1>6, <2>1
  <2>3. InMemory(q, i)
    BY <1>3, <1>8, <2>2, AheadInChannel
  <2> QED BY <1>t, <2>3 DEF FreshInv
<1> QED BY <1>7, <1>8, TwoPlatforms

LEMMA ModeHandled ==
    ASSUME IInv, IInv', ModeInv, NEW p \in Platforms, HandlerStep(p)
    PROVE  ModeInv'
<1> DEFINE j == handler[p].id
<1>t. Shapes /\ HeldSent /\ FreshInv /\ HandInv /\ RowInv
  BY DEF IInv, ModeInv
<1>f. /\ handler[p] # None
      /\ Advances(p) \/ Ends(p)
      /\ UNCHANGED <<sent, confirmed, offset, batch, channel, last>>
  BY StepEnds DEF Fetched
<1>1. /\ \A q \in Platforms : q # p => handler'[q] = handler[q] /\ result'[q] = result[q]
      /\ \A i \in Ids(p) : i # j => result'[p][i] = result[p][i]
      /\ \/ handler'[p] # None /\ handler'[p].id = j /\ result' = result
         \/ handler'[p] = None /\ result'[p][j] # "none"
  BY <1>f, AfterStep
<1>2. HandInv'
  BY <1>t, <1>f, <1>1 DEF HandInv
<1>3. FreshInv'
  <2> SUFFICES ASSUME NEW q \in Platforms, NEW i \in Ids(q), InMemory(q, i)'
               PROVE  result'[q][i] = "none"
    BY DEF FreshInv
  <2>1. InMemory(q, i)
    BY <1>f, <1>1 DEF InMemory
  <2>2. result[q][i] = "none"
    BY <1>t, <2>1 DEF FreshInv
  <2>3. CASE q = p /\ i = j /\ handler'[p] = None
    <3>1. /\ \A k \in DOMAIN batch[p] : batch[p][k] # j
          /\ p = "telegram" => \A k \in DOMAIN channel : channel[k] # j
      BY <1>t, <1>f, InHandOnly
    <3> QED BY <1>f, <2>3, <3>1 DEF InMemory
  <2> QED BY <1>1, <2>2, <2>3
<1>4. RowInv'
  <2>1. SUFFICES ASSUME NEW u \in Users, NEW q \in Platforms, NEW i \in Ids(q),
                        LastChoice(u, q, i)', Seen(q, i)', result'[q][i] = "ok"
                 PROVE  users'[u] = Stream[q][i].kind
    BY DEF RowInv
  <2>2. LastChoice(u, q, i) /\ Seen(q, i)
    BY <1>f, <2>1 DEF LastChoice, Seen
  <2>3. /\ users \in [Users -> Choices \cup {"unset", None}] /\ None \notin Choices
        /\ User(p) \in Users /\ j \in Ids(p)
    BY <1>t, <1>f, InHand, ConstantsAssumption DEF Shapes, TypeOK
  <2>4. Stream[q][i].kind \in Choices /\ Stream[q][i].user = u
    BY <2>2 DEF LastChoice, ChoicesOn
  <2>5. CASE q = p /\ i = j
    <3>1. users' = SetMode(p)
      BY <1>t, <2>1, <2>5, RowEffect
    <3> QED BY <2>3, <2>4, <2>5, <3>1 DEF SetMode, User, Update
  <2>6. CASE ~(q = p /\ i = j)
    <3>1. result[q][i] = "ok"
      BY <1>1, <2>1, <2>6
    <3>2. users[u] = Stream[q][i].kind
      BY <1>t, <2>2, <3>1 DEF RowInv
    <3>3. ~(User(p) = u /\ Update(p).kind \in Choices)
      BY <1>f, <2>2, <3>1, OldChoice
    <3>4. \/ users' = users
          \/ users[User(p)] = None /\ users' = [users EXCEPT ![User(p)] = "unset"]
          \/ users' = SetMode(p)
      BY <1>t, RowEffect
    <3> QED BY <2>3, <2>4, <3>2, <3>3, <3>4 DEF SetMode
  <2> QED BY <2>5, <2>6
<1> QED BY <1>2, <1>3, <1>4 DEF ModeInv

LEMMA ModeCut ==
    ASSUME IInv, IInv', ModeInv, CutOff
    PROVE  ModeInv'
<1>t. Shapes /\ RowInv
  BY DEF IInv, ModeInv
<1>1. /\ \A p \in Platforms : batch'[p] = <<>> /\ handler'[p] = None /\ last'[p] = 0
      /\ channel' = <<>> /\ UNCHANGED <<sent, confirmed, users, result>>
  BY DEF CutOff, server
<1>2. FreshInv' /\ HandInv'
  BY <1>1 DEF FreshInv, HandInv, InMemory
<1>3. ASSUME NEW q \in Platforms, NEW i \in Ids(q), Seen(q, i)' PROVE Seen(q, i)
  <2>1. i \in Nat /\ i # 0
    BY Streams
  <2> QED BY <1>1, <1>3, <2>1 DEF Seen
<1>4. \A p \in Platforms : sent[p] <= sent'[p]
  BY <1>t, <1>1, Shape
<1> QED BY <1>t, <1>1, <1>2, <1>3, <1>4, RowKept DEF ModeInv

LEMMA ModeNext == IInv /\ IInv' /\ ModeInv /\ [Next]_vars => ModeInv'
<1> SUFFICES ASSUME IInv, IInv', ModeInv, [Next]_vars PROVE ModeInv'
  OBVIOUS
<1>t. Shapes
  BY DEF IInv
<1>1. CASE TelegramPoll \/ MaxPoll \/ \E p \in Platforms : PollFails(p)
  BY <1>1, ModePolls, ModeConfirms
<1>2. CASE Pass \/ TelegramTake \/ MaxTake
  BY <1>2, ModePasses, ModeTelegramTakes, ModeMaxTakes
<1>3. CASE \E p \in Platforms : HandlerStep(p)
  BY <1>3, ModeHandled
<1>4. CASE Crash \/ Exit
  BY <1>4, ModeCut DEF Crash, Exit
<1>5. CASE \/ Shutdown \/ Restart \/ UNCHANGED vars
           \/ \E p \in Platforms : StopLoop(p) \/ UserSends(p)
  <2>1. UNCHANGED <<confirmed, batch, channel, handler, users, last, result>>
    BY <1>5 DEF Shutdown, Restart, StopLoop, UserSends, server, fetching, history, vars
  <2>2. \A p \in Platforms : sent[p] <= sent'[p]
    <3>1. CASE sent' = sent
      BY <1>t, <3>1, Shape
    <3>2. CASE \E p \in Platforms : UserSends(p)
      <4>1. PICK p \in Platforms : sent' = [sent EXCEPT ![p] = sent[p] + 1]
        BY <3>2 DEF UserSends
      <4> QED BY <1>t, <4>1, Shape DEF Shapes
    <3> QED BY <1>5, <3>1, <3>2 DEF Shutdown, Restart, StopLoop, server, vars
  <2>3. \A p \in Platforms : \A i : InMemory(p, i)' => InMemory(p, i)
    BY <2>1 DEF InMemory
  <2> QED BY <2>1, <2>2, <2>3, ModeStutters
<1> QED BY <1>1, <1>2, <1>3, <1>4, <1>5 DEF Next

(* Whatever is delivered again, by however many processes: the row of a    *)
(* user who chooses on one platform holds the last choice that was handled *)
(* and that this process has passed.                                       *)
THEOREM ModeSettles == Spec => []ModeConverges
<1>1. Init => ModeInv
  <2> SUFFICES ASSUME Init PROVE ModeInv
    OBVIOUS
  <2>1. \A p \in Platforms : handler[p] = None /\ result[p] = [i \in Ids(p) |-> "none"]
    BY DEF Init
  <2> QED BY <2>1 DEF ModeInv, FreshInv, HandInv, RowInv
<1>2. ModeInv => ModeConverges
  <2> SUFFICES ASSUME ModeInv PROVE ModeConverges
    OBVIOUS
  <2> QED BY DEF ModeInv, RowInv, ModeConverges, LastChoice, Seen, ChoicesOn
<1> QED BY <1>1, <1>2, ModeNext, Invariance, PTL DEF Spec
=============================================================================
