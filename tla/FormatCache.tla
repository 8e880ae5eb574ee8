---------------------------- MODULE FormatCache -----------------------------
(***************************************************************************)
(* formatService.ListFormats: the list of a URL's formats comes from       *)
(* Redis, from the map of the process or from yt-dlp, whose answer goes    *)
(* into both.  The two bots of the process call it at once; the mutex      *)
(* covers one access of the map, not a call.                               *)
(*                                                                         *)
(* A list is the time at which yt-dlp was asked for it.  Time is counted   *)
(* in units of Timeout, the longest a call takes from asking yt-dlp to     *)
(* having shared the answer: yt-dlp's 30 seconds and two accesses.         *)
(***************************************************************************)
EXTENDS Integers

CONSTANTS
    Bots,
    Urls,     \* cache keys
    TTL,      \* formatCacheTTL
    Timeout,  \* formatListTimeout
    MaxTime,  \* bound: the clock
    Faults,   \* subset of {"redis", "ytdlp", "restart"}
    None

ASSUME ConstantsAssumption ==
    /\ TTL \in Nat /\ Timeout \in Nat /\ MaxTime \in Nat
    /\ Faults \subseteq {"redis", "ytdlp", "restart"}
    /\ None \notin Urls

VARIABLES
    now,
    cache,   \* the map: [asked, expires] of each URL, expires 0 for none
    redis,   \* the keys mediaharvester:formats:*
    call,    \* what each bot's call is doing
    oldest   \* history: the greatest age of a list at the time it was returned

vars == <<now, cache, redis, call, oldest>>

Entry == [asked : 0..MaxTime, expires : 0..(MaxTime + TTL)]
Absent == [asked |-> 0, expires |-> 0]

Call == [pc : {"idle", "redis", "cache", "ytdlp", "store", "share"},
         url : Urls \cup {None}, asked : 0..MaxTime]
Done == [pc |-> "idle", url |-> None, asked |-> 0]

TypeOK ==
    /\ now \in 0..MaxTime
    /\ cache \in [Urls -> Entry]
    /\ redis \in [Urls -> Entry]
    /\ call \in [Bots -> Call]
    /\ oldest \in 0..MaxTime

Init ==
    /\ now = 0
    /\ cache = [u \in Urls |-> Absent]
    /\ redis = [u \in Urls |-> Absent]
    /\ call = [b \in Bots |-> Done]
    /\ oldest = 0

Valid(entry) == now < entry.expires

(* The call of b returns the list asked for at that time.                  *)
Return(b, asked) ==
    /\ call' = [call EXCEPT ![b] = Done]
    /\ oldest' = IF now - asked > oldest THEN now - asked ELSE oldest

Ask(b, url) ==
    /\ call[b].pc = "idle"
    /\ call' = [call EXCEPT ![b] = [pc |-> "redis", url |-> url, asked |-> 0]]
    /\ UNCHANGED <<now, cache, redis, oldest>>

(* Mutant: what Redis has is copied into the map for another TTL.          *)
HitRedisCopies(b) ==
    LET u == call[b].url
    IN  /\ call[b].pc = "redis"
        /\ Valid(redis[u])
        /\ Return(b, redis[u].asked)
        /\ cache' = [cache EXCEPT ![u] = [asked |-> redis[u].asked, expires |-> now + TTL]]
        /\ UNCHANGED <<now, redis>>

HitRedis(b) ==
    /\ call[b].pc = "redis"
    /\ Valid(redis[call[b].url])
    /\ Return(b, redis[call[b].url].asked)
    /\ UNCHANGED <<now, cache, redis>>

MissRedis(b) ==
    /\ call[b].pc = "redis"
    /\ "redis" \in Faults \/ ~Valid(redis[call[b].url])
    /\ call' = [call EXCEPT ![b].pc = "cache"]
    /\ UNCHANGED <<now, cache, redis, oldest>>

HitCache(b) ==
    /\ call[b].pc = "cache"
    /\ Valid(cache[call[b].url])
    /\ Return(b, cache[call[b].url].asked)
    /\ UNCHANGED <<now, cache, redis>>

MissCache(b) ==
    /\ call[b].pc = "cache"
    /\ ~Valid(cache[call[b].url])
    /\ call' = [call EXCEPT ![b].pc = "ytdlp", ![b].asked = now]
    /\ UNCHANGED <<now, cache, redis, oldest>>

(* yt-dlp answers; an empty list is an answer too.                         *)
Listed(b) ==
    /\ call[b].pc = "ytdlp"
    /\ call' = [call EXCEPT ![b].pc = "store"]
    /\ UNCHANGED <<now, cache, redis, oldest>>

ListFails(b) ==
    /\ "ytdlp" \in Faults
    /\ call[b].pc = "ytdlp"
    /\ call' = [call EXCEPT ![b] = Done]
    /\ UNCHANGED <<now, cache, redis, oldest>>

(* Mutant: a list kept for a TTL more than the code's.                     *)
FreshTwice(b) == [asked |-> call[b].asked, expires |-> now + 2 * TTL]

Fresh(b) == [asked |-> call[b].asked, expires |-> now + TTL]

Store(b) ==
    /\ call[b].pc = "store"
    /\ cache' = [cache EXCEPT ![call[b].url] = Fresh(b)]
    /\ call' = [call EXCEPT ![b].pc = "share"]
    /\ UNCHANGED <<now, redis, oldest>>

(* The error of the SET is ignored.                                        *)
Share(b) ==
    /\ call[b].pc = "share"
    /\ redis' \in {[redis EXCEPT ![call[b].url] = Fresh(b)]} \cup
                    IF "redis" \in Faults THEN {redis} ELSE {}
    /\ Return(b, call[b].asked)
    /\ UNCHANGED <<now, cache>>

(* The deadline of the command's context.                                  *)
Tick ==
    /\ now < MaxTime
    /\ \A b \in Bots : call[b].pc \in {"ytdlp", "store", "share"} =>
                          now < call[b].asked + Timeout
    /\ now' = now + 1
    /\ UNCHANGED <<cache, redis, call, oldest>>

Restart ==
    /\ "restart" \in Faults
    /\ cache' = [u \in Urls |-> Absent]
    /\ call' = [b \in Bots |-> Done]
    /\ UNCHANGED <<now, redis, oldest>>

Next ==
    \/ \E b \in Bots :
          \/ \E u \in Urls : Ask(b, u)
          \/ HitRedis(b) \/ MissRedis(b)
          \/ HitCache(b) \/ MissCache(b)
          \/ Listed(b) \/ ListFails(b)
          \/ Store(b) \/ Share(b)
    \/ Tick
    \/ Restart

Spec == Init /\ [][Next]_vars

-----------------------------------------------------------------------------
(* However the calls of the bots, the expiry of the two caches and a       *)
(* restart interleave, nobody is shown a list older than one TTL and the   *)
(* time it took to get it: the caches do not feed each other.              *)
AgeBounded == oldest <= TTL + Timeout
=============================================================================
