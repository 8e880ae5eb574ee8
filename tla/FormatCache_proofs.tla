------------------------- MODULE FormatCache_proofs -------------------------
(***************************************************************************)
(* Proofs about FormatCache.                                               *)
(***************************************************************************)
EXTENDS FormatCache, TLAPS

(* What makes AgeBounded inductive: an entry expires at most a TTL after   *)
(* the deadline of the call that made it, and a call that has asked yt-dlp *)
(* is within its deadline.                                                 *)
ShortLived(store) ==
    \A u \in Urls : store[u].expires <= store[u].asked + Timeout + TTL

InTime ==
    \A b \in Bots : call[b].pc \in {"ytdlp", "store", "share"} =>
                       now <= call[b].asked + Timeout

Addressed == \A b \in Bots : call[b].pc # "idle" => call[b].url \in Urls

AgeInv ==
    /\ TypeOK
    /\ Addressed
    /\ InTime
    /\ ShortLived(cache)
    /\ ShortLived(redis)
    /\ AgeBounded

LEMMA AgeInit == Init => AgeInv
  BY ConstantsAssumption
  DEF Init, AgeInv, TypeOK, Entry, Absent, Call, Done, Addressed, InTime,
      ShortLived, AgeBounded

(* A call that returns a list no older than the bound keeps the invariant  *)
(* of the calls and of the history.                                        *)
LEMMA ReturnKeeps ==
  ASSUME AgeInv, NEW b \in Bots, NEW asked \in 0..MaxTime,
         now <= asked + Timeout + TTL, Return(b, asked), UNCHANGED now
  PROVE  /\ call' \in [Bots -> Call]
         /\ oldest' \in 0..MaxTime
         /\ Addressed' /\ InTime' /\ AgeBounded'
  <1>1. call' \in [Bots -> Call] /\ Addressed' /\ InTime'
    BY ConstantsAssumption
    DEF AgeInv, TypeOK, Call, Done, Addressed, InTime, Return
  <1>2. oldest' \in 0..MaxTime /\ AgeBounded'
    BY ConstantsAssumption DEF AgeInv, TypeOK, AgeBounded, Return
  <1> QED BY <1>1, <1>2

(* The entry made by a call within its deadline is short-lived.            *)
LEMMA FreshShortLived ==
  ASSUME AgeInv, NEW b \in Bots, call[b].pc \in {"store", "share"}
  PROVE  /\ Fresh(b) \in Entry
         /\ Fresh(b).expires <= Fresh(b).asked + Timeout + TTL
  BY ConstantsAssumption DEF AgeInv, TypeOK, Entry, Call, InTime, Fresh

LEMMA AgeStep == AgeInv /\ [Next]_vars => AgeInv'
  <1> SUFFICES ASSUME AgeInv, [Next]_vars PROVE AgeInv'
    OBVIOUS
  <1> USE ConstantsAssumption
  <1>1. CASE Tick
    BY <1>1 DEF AgeInv, TypeOK, Call, Addressed, InTime, ShortLived, AgeBounded, Tick
  <1>2. CASE Restart
    BY <1>2
    DEF AgeInv, TypeOK, Entry, Absent, Call, Done, Addressed, InTime,
        ShortLived, AgeBounded, Restart
  <1>3. ASSUME NEW b \in Bots, NEW u \in Urls, Ask(b, u) PROVE AgeInv'
    BY <1>3
    DEF AgeInv, TypeOK, Call, Addressed, InTime, ShortLived, AgeBounded, Ask
  <1>4. ASSUME NEW b \in Bots, HitRedis(b) PROVE AgeInv'
    <2>1. /\ redis[call[b].url].asked \in 0..MaxTime
          /\ now <= redis[call[b].url].asked + Timeout + TTL
      BY <1>4 DEF AgeInv, TypeOK, Entry, Call, Addressed, ShortLived, Valid, HitRedis
    <2>2. Return(b, redis[call[b].url].asked) /\ UNCHANGED <<now, cache, redis>>
      BY <1>4 DEF HitRedis
    <2> QED BY <2>1, <2>2, ReturnKeeps DEF AgeInv, TypeOK, ShortLived
  <1>5. ASSUME NEW b \in Bots, HitCache(b) PROVE AgeInv'
    <2>1. /\ cache[call[b].url].asked \in 0..MaxTime
          /\ now <= cache[call[b].url].asked + Timeout + TTL
      BY <1>5 DEF AgeInv, TypeOK, Entry, Call, Addressed, ShortLived, Valid, HitCache
    <2>2. Return(b, cache[call[b].url].asked) /\ UNCHANGED <<now, cache, redis>>
      BY <1>5 DEF HitCache
    <2> QED BY <2>1, <2>2, ReturnKeeps DEF AgeInv, TypeOK, ShortLived
  <1>6. ASSUME NEW b \in Bots, MissRedis(b) \/ MissCache(b) \/ Listed(b) PROVE AgeInv'
    BY <1>6
    DEF AgeInv, TypeOK, Call, Addressed, InTime, ShortLived, AgeBounded,
        MissRedis, MissCache, Listed
  <1>7. ASSUME NEW b \in Bots, ListFails(b) PROVE AgeInv'
    BY <1>7
    DEF AgeInv, TypeOK, Call, Done, Addressed, InTime, ShortLived, AgeBounded,
        ListFails
  <1>8. ASSUME NEW b \in Bots, Store(b) PROVE AgeInv'
    <2>1. call[b].pc = "store"
      BY <1>8 DEF Store
    <2>2. /\ Fresh(b) \in Entry
          /\ Fresh(b).expires <= Fresh(b).asked + Timeout + TTL
      BY <2>1, FreshShortLived
    <2>3. cache' \in [Urls -> Entry] /\ ShortLived(cache')
      BY <1>8, <2>2 DEF AgeInv, TypeOK, ShortLived, Store
    <2> QED
      BY <1>8, <2>3
      DEF AgeInv, TypeOK, Call, Addressed, InTime, ShortLived, AgeBounded, Store
  <1>9. ASSUME NEW b \in Bots, Share(b) PROVE AgeInv'
    <2>1. call[b].pc = "share" /\ Return(b, call[b].asked) /\ UNCHANGED <<now, cache>>
      BY <1>9 DEF Share
    <2>2. /\ Fresh(b) \in Entry
          /\ Fresh(b).expires <= Fresh(b).asked + Timeout + TTL
      BY <2>1, FreshShortLived
    <2>3. redis' \in [Urls -> Entry] /\ ShortLived(redis')
      BY <1>9, <2>2 DEF AgeInv, TypeOK, ShortLived, Share
    <2>4. call[b].asked \in 0..MaxTime /\ now <= call[b].asked + Timeout + TTL
      BY <2>1 DEF AgeInv, TypeOK, Call, InTime
    <2> QED
      BY <2>1, <2>3, <2>4, ReturnKeeps DEF AgeInv, TypeOK, ShortLived
  <1>10. CASE UNCHANGED vars
    BY <1>10
    DEF AgeInv, TypeOK, Addressed, InTime, ShortLived, AgeBounded, vars
  <1> QED
    BY <1>1, <1>2, <1>3, <1>4, <1>5, <1>6, <1>7, <1>8, <1>9, <1>10 DEF Next

(* Every variable of the service stays within its type.                    *)
THEOREM TypeCorrect == Spec => []TypeOK
  <1>1. AgeInv => TypeOK
    BY DEF AgeInv
  <1> QED BY <1>1, AgeInit, AgeStep, PTL DEF Spec

(* Whatever the two times, the bots and the keys, no list is returned that *)
(* is older than formatCacheTTL and one formatListTimeout.                 *)
THEOREM AgeIsBounded == Spec => []AgeBounded
  <1>1. AgeInv => AgeBounded
    BY DEF AgeInv
  <1> QED BY <1>1, AgeInit, AgeStep, PTL DEF Spec
=============================================================================
