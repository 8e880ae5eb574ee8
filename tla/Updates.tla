------------------------------ MODULE Updates ------------------------------
(***************************************************************************)
(* How updates reach the handlers: the two platforms' servers, the loops   *)
(* of TelegramTransport and MaxTransport that fetch updates and hand them  *)
(* to the Bot one at a time, and what every handler does first: find or    *)
(* create the row of the user, which both bots share.  The process may be  *)
(* stopped, die and start again; the positions in the streams are memory.  *)
(*                                                                         *)
(* An update is known by its number in the platform's stream.  The kinds   *)
(* are a message that needs the user's row (a command or a supported URL,  *)
(* whose further steps are in Conversation and WorkerPool) and the two     *)
(* mode buttons.  Left out: updates that touch no row, and the user's name *)
(* and last_seen, whose UPDATE may fail without any effect.                *)
(***************************************************************************)
EXTENDS Naturals, Sequences, FiniteSets

CONSTANTS
    Users,       \* external user ids, the same on both platforms
    Stream,      \* [Platforms -> Seq(updates)], all their users will ever send
    MaxDeaths,   \* bound: crashes and exits
    Batch,       \* most updates in one reply of a platform
    Buffer,      \* capacity of the channel of GetUpdatesChan
    Faults,      \* subset of {"net", "db", "crash", "shutdown"}
    None

Platforms == {"telegram", "max"}
Choices == {"auto", "manual"}
Kinds == {"message"} \cup Choices
Ids(p) == 1..Len(Stream[p])
AnyId == UNION {Ids(p) : p \in Platforms}

Handling == [id : AnyId, pc : {"find", "create", "work"}]

ASSUME ConstantsAssumption ==
    /\ Stream \in [Platforms -> Seq([user : Users, kind : Kinds])]
    /\ MaxDeaths \in Nat
    /\ Batch \in Nat \ {0}
    /\ Buffer \in Nat \ {0}
    /\ Faults \subseteq {"net", "db", "crash", "shutdown"}
    /\ None \notin Choices \cup {"unset"} \cup Handling

VARIABLES
    sent,       \* how much of its stream each platform has received
    confirmed,  \* the last update each platform will not deliver again
    proc,       \* "running", "stopping" (context cancelled) or "down"
    loop,       \* whether each transport's Start has not returned
    offset,     \* the position the next request will confirm
    batch,      \* updates of the last reply not yet passed on
    channel,    \* the channel of GetUpdatesChan (Telegram only)
    handler,    \* the update each Bot is handling
    users,      \* users.auto_best_download, None if there is no row
    last,       \* history: the last update taken by this process
    result,     \* history: how the last delivery of each update ended
    refused,    \* history: INSERTs of each user the unique key refused
    deaths      \* history: crashes and exits

server == <<sent, confirmed>>
fetching == <<loop, offset, batch, channel>>
history == <<last, result, refused, deaths>>
vars == <<server, proc, fetching, handler, users, history>>

TypeOK ==
    /\ \A p \in Platforms :
          /\ sent[p] \in 0..Len(Stream[p])
          /\ {confirmed[p], offset[p], last[p]} \subseteq 0..sent[p]
          /\ batch[p] \in Seq(Ids(p))
          /\ handler[p] \in Handling \cup {None}
          /\ result[p] \in [Ids(p) -> {"none", "ok", "failed", "cancelled"}]
    /\ proc \in {"running", "stopping", "down"}
    /\ loop \in [Platforms -> BOOLEAN]
    /\ channel \in Seq(Ids("telegram"))
    /\ users \in [Users -> Choices \cup {"unset", None}]
    /\ refused \in [Users -> Nat]
    /\ deaths \in 0..MaxDeaths

Init ==
    /\ sent = [p \in Platforms |-> 0]
    /\ confirmed = [p \in Platforms |-> 0]
    /\ proc = "running"
    /\ loop = [p \in Platforms |-> TRUE]
    /\ offset = [p \in Platforms |-> 0]
    /\ batch = [p \in Platforms |-> <<>>]
    /\ channel = <<>>
    /\ handler = [p \in Platforms |-> None]
    /\ users = [u \in Users |-> None]
    /\ last = [p \in Platforms |-> 0]
    /\ result = [p \in Platforms |-> [i \in Ids(p) |-> "none"]]
    /\ refused = [u \in Users |-> 0]
    /\ deaths = 0

-----------------------------------------------------------------------------
(* The platforms.                                                          *)

UserSends(p) ==
    /\ sent[p] < Len(Stream[p])
    /\ sent' = [sent EXCEPT ![p] = @ + 1]
    /\ UNCHANGED <<confirmed, proc, fetching, handler, users, history>>

(* A request carries a position: what lies before it is confirmed, and the *)
(* reply holds the next ones.  It is empty only if there are none.  What   *)
(* it delivers again has yet to be handled again.                          *)
Confirm(p) ==
    confirmed' = [confirmed EXCEPT ![p] = IF @ < offset[p] THEN offset[p] ELSE @]

Reply(p) ==
    LET rest == sent[p] - confirmed'[p]
    IN  \E n \in 0..Batch :
           /\ n <= rest
           /\ n = 0 => rest = 0
           /\ batch' = [batch EXCEPT ![p] = [k \in 1..n |-> confirmed'[p] + k]]
           /\ result' = [result EXCEPT ![p] = [i \in Ids(p) |->
                           IF i \in (confirmed'[p] + 1)..(confirmed'[p] + n) THEN "none" ELSE @[i]]]

-----------------------------------------------------------------------------
(* Fetching.  GetUpdatesChan polls in a goroutine of the library, which no *)
(* context stops; MAX polls between two batches, in the loop of Start.     *)

TelegramReady == proc # "down" /\ batch["telegram"] = <<>>

(* Mutant: the handlers run in goroutines of their own.                    *)
MaxReadyAhead == proc = "running" /\ loop["max"] /\ batch["max"] = <<>>

MaxReady ==
    /\ proc = "running"
    /\ loop["max"]
    /\ batch["max"] = <<>>
    /\ handler["max"] = None

TelegramPoll ==
    /\ TelegramReady
    /\ Confirm("telegram")
    /\ Reply("telegram")
    /\ UNCHANGED <<sent, proc, loop, offset, channel, handler, users, last, refused, deaths>>

(* The marker moves to the end of the reply before its updates are handled.*)
MaxPoll ==
    /\ MaxReady
    /\ Confirm("max")
    /\ Reply("max")
    /\ offset' = [offset EXCEPT !["max"] = confirmed'["max"] + Len(batch'["max"])]
    /\ UNCHANGED <<sent, proc, loop, channel, handler, users, last, refused, deaths>>

Ready(p) == IF p = "telegram" THEN TelegramReady ELSE MaxReady

(* Mutant: an error ends the loop.                                         *)
PollFailsForGood(p) ==
    /\ "net" \in Faults
    /\ Ready(p)
    /\ Confirm(p)
    /\ loop' = [loop EXCEPT ![p] = FALSE]
    /\ UNCHANGED <<sent, proc, offset, batch, channel, handler, users, history>>

(* The reply is lost after the server has read the position; the request   *)
(* is made again.  One the server never saw changes nothing.               *)
PollFails(p) ==
    /\ "net" \in Faults
    /\ Ready(p)
    /\ Confirm(p)
    /\ UNCHANGED <<sent, proc, fetching, handler, users, history>>

(* The offset follows each update into the channel.                        *)
Pass ==
    /\ proc # "down"
    /\ batch["telegram"] # <<>>
    /\ Len(channel) < Buffer
    /\ offset' = [offset EXCEPT !["telegram"] = Head(batch["telegram"])]
    /\ channel' = Append(channel, Head(batch["telegram"]))
    /\ batch' = [batch EXCEPT !["telegram"] = Tail(@)]
    /\ UNCHANGED <<server, proc, loop, handler, users, history>>

Begin(p, id) ==
    /\ handler' = [handler EXCEPT ![p] = [id |-> id, pc |-> "find"]]
    /\ last' = [last EXCEPT ![p] = id]

(* Mutant: an update is dropped while another is being handled.            *)
TakeOrDrop ==
    /\ loop["telegram"]
    /\ channel # <<>>
    /\ IF handler["telegram"] = None
         THEN Begin("telegram", Head(channel))
         ELSE UNCHANGED <<handler, last>>
    /\ channel' = Tail(channel)
    /\ UNCHANGED <<server, proc, loop, offset, batch, users, result, refused, deaths>>

(* The select of Telegram's loop may take an update although the context   *)
(* is cancelled.                                                           *)
TelegramTake ==
    /\ loop["telegram"]
    /\ handler["telegram"] = None
    /\ channel # <<>>
    /\ Begin("telegram", Head(channel))
    /\ channel' = Tail(channel)
    /\ UNCHANGED <<server, proc, loop, offset, batch, users, result, refused, deaths>>

(* MAX's loop over a reply does not look at the context at all.            *)
MaxTake ==
    /\ loop["max"]
    /\ handler["max"] = None
    /\ batch["max"] # <<>>
    /\ Begin("max", Head(batch["max"]))
    /\ batch' = [batch EXCEPT !["max"] = Tail(@)]
    /\ UNCHANGED <<server, proc, loop, offset, channel, users, result, refused, deaths>>

(* Start returns.                                                          *)
StopLoop(p) ==
    /\ proc = "stopping"
    /\ loop[p]
    /\ handler[p] = None
    /\ p = "max" => batch[p] = <<>>
    /\ loop' = [loop EXCEPT ![p] = FALSE]
    /\ UNCHANGED <<server, proc, offset, batch, channel, handler, users, history>>

-----------------------------------------------------------------------------
(* The handlers.                                                           *)

Update(p) == Stream[p][handler[p].id]
User(p) == Update(p).user
HasRow(p) == users[User(p)] # None

AtStep(p, pc) == handler[p] # None /\ handler[p].pc = pc
Goto(p, pc) == handler' = [handler EXCEPT ![p].pc = pc]

Finish(p, verdict) ==
    /\ handler' = [handler EXCEPT ![p] = None]
    /\ result' = [result EXCEPT ![p][handler[p].id] = verdict]

(* GetOrCreate: SELECT, and without a row, INSERT.                         *)
FindUser(p) ==
    /\ proc = "running"
    /\ AtStep(p, "find")
    /\ Goto(p, IF HasRow(p) THEN "work" ELSE "create")
    /\ UNCHANGED <<server, proc, fetching, users, history>>

CreateUser(p) ==
    /\ proc = "running"
    /\ AtStep(p, "create")
    /\ ~HasRow(p)
    /\ users' = [users EXCEPT ![User(p)] = "unset"]
    /\ Goto(p, "work")
    /\ UNCHANGED <<server, proc, fetching, history>>

(* telegram_id is unique: the other bot has been faster.                   *)
CreateRefused(p) ==
    /\ proc = "running"
    /\ AtStep(p, "create")
    /\ HasRow(p)
    /\ Finish(p, "failed")
    /\ refused' = [refused EXCEPT ![User(p)] = @ + 1]
    /\ UNCHANGED <<server, proc, fetching, users, last, deaths>>

(* Mutants: a mode once chosen stays; every update is taken for a choice.  *)
SetModeOnce(p) ==
    IF Update(p).kind \in Choices /\ users[User(p)] = "unset"
      THEN [users EXCEPT ![User(p)] = Update(p).kind] ELSE users

SetModeAlways(p) == [users EXCEPT ![User(p)] = Update(p).kind]

SetMode(p) ==
    IF Update(p).kind \in Choices
      THEN [users EXCEPT ![User(p)] = Update(p).kind] ELSE users

(* modeSelected's UPDATE, or the rest of the handler of a message.         *)
Work(p) ==
    /\ proc = "running"
    /\ AtStep(p, "work")
    /\ users' = SetMode(p)
    /\ Finish(p, "ok")
    /\ UNCHANGED <<server, proc, fetching, last, refused, deaths>>

Effect(p) ==
    CASE handler[p].pc = "create" /\ ~HasRow(p) -> [users EXCEPT ![User(p)] = "unset"]
      [] handler[p].pc = "work" -> SetMode(p)
      [] OTHER -> users

(* Mutant: any error of the SELECT is taken for "no such user".            *)
ErrorIsNotFound(p) ==
    /\ handler[p] # None
    /\ proc = "stopping" \/ "db" \in Faults
    /\ IF handler[p].pc = "find"
         THEN Goto(p, "create") /\ UNCHANGED <<users, result>>
         ELSE /\ users' \in {users, Effect(p)}
              /\ Finish(p, IF proc = "stopping" THEN "cancelled" ELSE "failed")
    /\ UNCHANGED <<server, proc, fetching, last, refused, deaths>>

(* A statement fails, or its reply is lost, or the context is cancelled:   *)
(* the user is shown an error and the handler returns.                     *)
StatementFails(p) ==
    /\ handler[p] # None
    /\ proc = "stopping" \/ "db" \in Faults
    /\ users' \in {users, Effect(p)}
    /\ Finish(p, IF proc = "stopping" THEN "cancelled" ELSE "failed")
    /\ UNCHANGED <<server, proc, fetching, last, refused, deaths>>

-----------------------------------------------------------------------------
(* The process.                                                            *)

CutOff ==
    /\ deaths < MaxDeaths
    /\ deaths' = deaths + 1
    /\ proc' = "down"
    /\ loop' = [p \in Platforms |-> FALSE]
    /\ offset' = [p \in Platforms |-> 0]
    /\ batch' = [p \in Platforms |-> <<>>]
    /\ channel' = <<>>
    /\ handler' = [p \in Platforms |-> None]
    /\ last' = [p \in Platforms |-> 0]
    /\ UNCHANGED <<server, users, result, refused>>

Crash == "crash" \in Faults /\ proc # "down" /\ CutOff

Shutdown ==
    /\ "shutdown" \in Faults
    /\ proc = "running"
    /\ proc' = "stopping"
    /\ UNCHANGED <<server, fetching, handler, users, history>>

Exit == proc = "stopping" /\ CutOff

Restart ==
    /\ proc = "down"
    /\ proc' = "running"
    /\ loop' = [p \in Platforms |-> TRUE]
    /\ UNCHANGED <<server, offset, batch, channel, handler, users, history>>

-----------------------------------------------------------------------------
HandlerStep(p) ==
    FindUser(p) \/ CreateUser(p) \/ CreateRefused(p) \/ Work(p) \/ StatementFails(p)

Next ==
    \/ \E p \in Platforms : UserSends(p) \/ PollFails(p) \/ StopLoop(p) \/ HandlerStep(p)
    \/ TelegramPoll
    \/ MaxPoll
    \/ Pass
    \/ TelegramTake
    \/ MaxTake
    \/ Crash
    \/ Shutdown
    \/ Exit
    \/ Restart

Spec == Init /\ [][Next]_vars

(* Every goroutine that can move does, and not every poll fails.           *)
Fairness ==
    /\ WF_vars(TelegramPoll) /\ WF_vars(MaxPoll)
    /\ WF_vars(Pass)
    /\ WF_vars(TelegramTake) /\ WF_vars(MaxTake)
    /\ \A p \in Platforms : WF_vars(HandlerStep(p))

FairSpec == Spec /\ Fairness

-----------------------------------------------------------------------------
(* What must hold.                                                         *)

InMemory(p, i) ==
    \/ handler[p] # None /\ handler[p].id = i
    \/ \E k \in DOMAIN batch[p] : batch[p][k] = i
    \/ p = "telegram" /\ \E k \in DOMAIN channel : channel[k] = i

Lost(p) == {i \in 1..confirmed[p] : result[p][i] = "none" /\ ~InMemory(p, i)}

(* MAX gets a position only after everything before it has been handled,   *)
(* and not under a cancelled context: no crash, exit or lost reply makes   *)
(* its loop miss an update.                                                *)
MaxLosesNothing ==
    \A i \in 1..confirmed["max"] : result["max"][i] \in {"ok", "failed"}

(* Telegram's offset runs ahead of the handlers by the channel: what a     *)
(* crash or an exit loses is at most the channel and the update in hand.   *)
TelegramLossBounded ==
    Cardinality(Lost("telegram")) <= (Buffer + 1) * deaths

(* One process handles the updates of a platform in the order they were    *)
(* sent, each once and none left out, beginning with the first that is not *)
(* confirmed: an update comes twice only if a restart lies between.        *)
InOrder ==
    [][\A p \in Platforms :
          last'[p] \notin {last[p], 0} =>
             \/ last[p] > 0 /\ last'[p] = last[p] + 1
             \/ last[p] = 0 /\ 1..(last'[p] - 1) \subseteq 1..confirmed[p]]_vars

(* The first messages of a user through both platforms may collide on the  *)
(* unique key, but only once: the user's next update is handled, however   *)
(* many statements fail, whatever is delivered again.                      *)
RefusedOnce == \A u \in Users : refused[u] <= 1

ChoicesOn(p, u) ==
    {i \in Ids(p) : Stream[p][i].user = u /\ Stream[p][i].kind \in Choices}

(* Redelivery replays old choices of a mode.  Once this process has passed *)
(* the user's last choice, and the last delivery of that choice was        *)
(* handled, the row holds it (for a user who chooses on one platform only).*)
ModeConverges ==
    \A u \in Users, p \in Platforms : \A i \in ChoicesOn(p, u) :
        /\ \A k \in ChoicesOn(p, u) : k <= i \/ k > sent[p]
        /\ \A q \in Platforms \ {p} : ChoicesOn(q, u) = {}
        /\ i <= last[p]
        /\ result[p][i] = "ok"
        => users[u] = Stream[p][i].kind

Outstanding(p) == {i \in 1..sent[p] : result[p][i] = "none" /\ i \notin Lost(p)}

(* If the process ends up running, the platforms run out of updates again  *)
(* and again: each one is handled in the end, or was confirmed and lost by *)
(* a process that died.                                                    *)
ServedEventually ==
    <>[](proc = "running") => []<>(\A p \in Platforms : Outstanding(p) = {})
=============================================================================
