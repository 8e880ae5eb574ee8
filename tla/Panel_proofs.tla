---------------------------- MODULE Panel_proofs ----------------------------
(***************************************************************************)
(* What Panel promises, for every number of tabs, passwords, attempts and  *)
(* faults.  The argument follows the sessions and pages in existence,      *)
(* wherever they are: in the browser, in a request or in an answer on its  *)
(* way.  A step adds at most one of each, and what it adds has a token and *)
(* a login that were there, or new ones, or none.                          *)
(***************************************************************************)
EXTENDS Panel, FiniteSetTheorems, TLAPS

(* What a request, or the answer to it, carries.                           *)
SessionsOf(r) ==
    IF r = None THEN {}
    ELSE IF r.pc = "answered" THEN {r.set} \ {None} ELSE {r.cookie}

PagesOf(r) ==
    IF r = None THEN {}
    ELSE IF r.pc = "answered" THEN {r.shows} \ {None} ELSE {r.page}

Sessions == {cookie} \cup UNION {SessionsOf(request[t]) : t \in Tabs}

PagesHeld == ({page[t] : t \in Tabs} \ {None}) \cup UNION {PagesOf(request[t]) : t \in Tabs}

SessionInv ==
    /\ \A x \in Sessions : /\ x \in Cookie
                           /\ x.login <= tokens /\ x.token <= tokens
                           /\ x.login \notin ended
                           /\ x.fails <= failures
                           /\ x.locked => failures >= MaxAttempts
    /\ \A y \in PagesHeld : y \in Page /\ y.token <= tokens
    /\ \A l \in ended : l # 0 /\ l <= tokens

(* One token, one login.                                                   *)
StampInv ==
    \A x \in Sessions :
        /\ \A y \in Sessions : x.token # 0 /\ x.token = y.token => x.login = y.login
        /\ \A y \in PagesHeld : x.token # 0 /\ x.token = y.token => x.login = y.login

EndsInv ==
    \A t \in Tabs :
        Pending(t, {"answered"}) /\ request[t].ends # 0 =>
            request[t].set = Empty /\ request[t].ends <= tokens

(* Who is let through to the UPDATE has compared the password that is      *)
(* still there, or has been overtaken.                                     *)
UpdateInv ==
    \A t \in Tabs :
        Pending(t, {"update"}) =>
            /\ password # None
            /\ request[t].arg.current = password \/ t \in overtaken

(* Entries that are still due were earned by UPDATEs of their own.         *)
Auditing == {t \in Tabs : Pending(t, {"audit"})}

AuditInv == entries + Cardinality(Auditing) <= changes

IInv ==
    /\ TypeOK
    /\ SessionInv
    /\ StampInv
    /\ EndsInv
    /\ FormOfItsLogin
    /\ UpdateInv
    /\ AuditInv

-----------------------------------------------------------------------------
(* Requests.                                                               *)

Requests == Login \cup Save \cup Answer \cup {None}

LEMMA RequestKinds ==
    ASSUME TypeOK, NEW t \in Tabs
    PROVE  /\ Pending(t, {"login"}) => request[t] \in Login
           /\ Pending(t, {"change", "update", "audit"}) => request[t] \in Save
           /\ Pending(t, {"answered"}) => request[t] \in Answer
           /\ request[t] \in Requests
BY DEF TypeOK, Pending, Login, Save, Answer, Requests

LEMMA OneRequest ==
    ASSUME TypeOK, NEW t \in Tabs, NEW r \in Requests,
           request' = [request EXCEPT ![t] = r]
    PROVE  /\ request' \in [Tabs -> Requests]
           /\ request'[t] = r
           /\ \A u \in Tabs \ {t} : request'[u] = request[u]
BY DEF TypeOK, Requests

(* A step of one tab brings what its new request carries.                  *)
LEMMA Grow ==
    ASSUME TypeOK, NEW t \in Tabs, NEW r \in Requests,
           request' = [request EXCEPT ![t] = r], UNCHANGED browser
    PROVE  /\ Sessions' \subseteq Sessions \cup SessionsOf(r)
           /\ PagesHeld' \subseteq PagesHeld \cup PagesOf(r)
<1>1. request'[t] = r /\ \A u \in Tabs \ {t} : request'[u] = request[u]
  BY OneRequest
<1>2. cookie' = cookie /\ page' = page
  BY DEF browser
<1>3. Sessions' \subseteq Sessions \cup SessionsOf(r)
  <2> SUFFICES ASSUME NEW u \in Tabs, NEW x, x \in SessionsOf(request'[u])
               PROVE  x \in Sessions \cup SessionsOf(r)
    BY <1>2 DEF Sessions, SessionsOf
  <2> QED BY <1>1 DEF Sessions
<1>4. PagesHeld' \subseteq PagesHeld \cup PagesOf(r)
  <2> SUFFICES ASSUME NEW u \in Tabs, NEW x, x \in PagesOf(request'[u])
               PROVE  x \in PagesHeld \cup PagesOf(r)
    BY <1>2 DEF PagesHeld, PagesOf
  <2> QED BY <1>1 DEF PagesHeld
<1> QED BY <1>3, <1>4

LEMMA Carried ==
    ASSUME NEW t \in Tabs
    PROVE  /\ cookie \in Sessions
           /\ page[t] # None => page[t] \in PagesHeld
           /\ Pending(t, {"login", "change", "update", "audit"}) =>
                request[t].cookie \in Sessions /\ request[t].page \in PagesHeld
           /\ Pending(t, {"answered"}) =>
                /\ request[t].set # None => request[t].set \in Sessions
                /\ request[t].shows # None => request[t].shows \in PagesHeld
BY DEF Sessions, PagesHeld, SessionsOf, PagesOf, Pending

(* What a step may add: sessions X and pages Y.                            *)
LEMMA SessionStep ==
    ASSUME TypeOK, SessionInv, StampInv, NEW X, NEW Y,
           Sessions' \subseteq Sessions \cup X, PagesHeld' \subseteq PagesHeld \cup Y,
           tokens' \in Nat, tokens <= tokens', failures' \in Nat, failures <= failures',
           ended' = ended,
           \A x \in X : /\ x \in Cookie
                        /\ x.login <= tokens' /\ x.token <= tokens'
                        /\ x.login \notin ended
                        /\ x.fails <= failures'
                        /\ x.locked => failures' >= MaxAttempts,
           \A y \in Y : y \in Page /\ y.token <= tokens',
           \A x \in X : \A y \in Sessions \cup PagesHeld \cup X \cup Y :
               x.token # 0 /\ x.token = y.token => x.login = y.login,
           \A x \in Sessions : \A y \in Y :
               x.token # 0 /\ x.token = y.token => x.login = y.login
    PROVE  SessionInv' /\ StampInv'
<1> USE PanelAssumption
<1>1. SessionInv'
  <2>1. ASSUME NEW x \in Sessions'
        PROVE  /\ x \in Cookie
               /\ x.login <= tokens' /\ x.token <= tokens'
               /\ x.login \notin ended
               /\ x.fails <= failures'
               /\ x.locked => failures' >= MaxAttempts
    <3>1. CASE x \in X
      BY <3>1
    <3>2. CASE x \in Sessions
      <4>1. /\ x \in Cookie /\ x.login <= tokens /\ x.token <= tokens /\ x.login \notin ended
            /\ x.fails <= failures /\ (x.locked => failures >= MaxAttempts)
        BY <3>2 DEF SessionInv
      <4>2. x.login \in Nat /\ x.token \in Nat /\ x.fails \in Nat
        BY <4>1 DEF Cookie, Number
      <4> QED BY <4>1, <4>2 DEF TypeOK, Number
    <3> QED BY <2>1, <3>1, <3>2
  <2>2. ASSUME NEW y \in PagesHeld' PROVE y \in Page /\ y.token <= tokens'
    <3>1. CASE y \in PagesHeld
      BY <3>1 DEF SessionInv, Page, TypeOK, Number
    <3> QED BY <2>2, <3>1
  <2>3. \A l \in ended : l # 0 /\ l <= tokens'
    BY DEF SessionInv, TypeOK, Number
  <2> QED BY <2>1, <2>2, <2>3 DEF SessionInv
<1>2. ASSUME NEW x \in Sessions', NEW y \in Sessions' \cup PagesHeld',
             x.token # 0, x.token = y.token
      PROVE  x.login = y.login
  <2>1. CASE x \in X
    BY <1>2, <2>1
  <2>2. CASE x \in Sessions /\ y \in X
    BY <1>2, <2>2
  <2>3. CASE x \in Sessions /\ y \in Y
    BY <1>2, <2>3
  <2>4. CASE x \in Sessions /\ y \in Sessions \cup PagesHeld
    BY <1>2, <2>4 DEF StampInv
  <2> QED BY <1>2, <2>1, <2>2, <2>3, <2>4
<1> QED BY <1>1, <1>2 DEF StampInv

(* The entries owed.                                                       *)
LEMMA AuditingFinite ==
    /\ IsFiniteSet(Auditing) /\ Cardinality(Auditing) \in Nat
    /\ IsFiniteSet(Auditing') /\ Cardinality(Auditing') \in Nat
<1>1. Auditing \subseteq Tabs /\ Auditing' \subseteq Tabs /\ IsFiniteSet(Tabs)
  BY PanelAssumption DEF Auditing
<1> QED BY <1>1, FS_Subset, FS_CardinalityType

LEMMA AuditingStep ==
    ASSUME TypeOK, NEW t \in Tabs, NEW r \in Requests,
           request' = [request EXCEPT ![t] = r]
    PROVE  /\ r # None /\ r.pc = "audit" =>
                Cardinality(Auditing') <= Cardinality(Auditing) + 1
           /\ ~(r # None /\ r.pc = "audit") =>
                Cardinality(Auditing') = Cardinality(Auditing) - IF t \in Auditing THEN 1 ELSE 0
<1>1. request'[t] = r /\ \A u \in Tabs \ {t} : request'[u] = request[u]
  BY OneRequest
<1>2. CASE r # None /\ r.pc = "audit"
  <2>1. Auditing' = Auditing \cup {t}
    BY <1>1, <1>2 DEF Auditing, Pending
  <2> QED BY <1>2, <2>1, FS_AddElement, AuditingFinite
<1>3. CASE ~(r # None /\ r.pc = "audit")
  <2>1. Auditing' = Auditing \ {t}
    BY <1>1, <1>3 DEF Auditing, Pending
  <2> QED BY <1>3, <2>1, FS_RemoveElement, AuditingFinite
<1> QED BY <1>2, <1>3

-----------------------------------------------------------------------------
(* A step of one tab, from the side of the sessions...                     *)
LEMMA TabStep ==
    ASSUME IInv, NEW t \in Tabs, NEW r \in Requests,
           request' = [request EXCEPT ![t] = r], UNCHANGED browser,
           tokens' \in Nat, tokens <= tokens', failures' \in Nat, failures <= failures',
           ended' = ended,
           \A x \in SessionsOf(r) :
               /\ x \in Cookie
               /\ x.login <= tokens' /\ x.token <= tokens'
               /\ x.login \notin ended
               /\ x.fails <= failures'
               /\ x.locked => failures' >= MaxAttempts,
           \A y \in PagesOf(r) : y \in Page /\ y.token <= tokens',
           \A x \in SessionsOf(r) :
               \A y \in Sessions \cup PagesHeld \cup SessionsOf(r) \cup PagesOf(r) :
                   x.token # 0 /\ x.token = y.token => x.login = y.login,
           \A x \in Sessions : \A y \in PagesOf(r) :
               x.token # 0 /\ x.token = y.token => x.login = y.login,
           r # None /\ r.pc = "answered" /\ r.ends # 0 =>
               r.set = Empty /\ r.ends <= tokens',
           r # None /\ r.pc \in {"change", "update", "audit"} => r.page.login = r.cookie.login
    PROVE  SessionInv' /\ StampInv' /\ EndsInv' /\ FormOfItsLogin'
<1>t. TypeOK /\ SessionInv /\ StampInv /\ EndsInv /\ FormOfItsLogin
  BY DEF IInv
<1>1. request'[t] = r /\ \A u \in Tabs \ {t} : request'[u] = request[u]
  BY <1>t, OneRequest
<1>2. SessionInv' /\ StampInv'
  <2>1. /\ Sessions' \subseteq Sessions \cup SessionsOf(r)
        /\ PagesHeld' \subseteq PagesHeld \cup PagesOf(r)
    BY <1>t, Grow
  <2> HIDE DEF SessionsOf, PagesOf
  <2> QED BY <1>t, <2>1, SessionStep
<1>3. EndsInv'
  <2> SUFFICES ASSUME NEW u \in Tabs, Pending(u, {"answered"})', request'[u].ends # 0
               PROVE  request'[u].set = Empty /\ request'[u].ends <= tokens'
    BY DEF EndsInv, Empty
  <2>1. CASE u = t
    BY <1>1, <2>1 DEF Pending
  <2>2. CASE u # t
    <3>1. Pending(u, {"answered"}) /\ request[u].ends # 0 /\ request'[u] = request[u]
      BY <1>1, <2>2 DEF Pending
    <3>2. request[u].set = Empty /\ request[u].ends <= tokens
      BY <1>t, <3>1 DEF EndsInv
    <3>3. request[u].ends \in Nat /\ tokens \in Nat
      BY <1>t, <3>1, RequestKinds, PanelAssumption DEF Answer, Number, TypeOK
    <3> QED BY <3>1, <3>2, <3>3
  <2> QED BY <2>1, <2>2
<1>4. FormOfItsLogin'
  BY <1>t, <1>1 DEF FormOfItsLogin, Pending
<1> QED BY <1>2, <1>3, <1>4

(* ... and from that of the tables, if it writes none.                     *)
LEMMA Unwritten ==
    ASSUME IInv, NEW t \in Tabs, NEW r \in Requests,
           request' = [request EXCEPT ![t] = r],
           UNCHANGED <<boot, password, browser, entries, changes, ended, overtaken>>,
           tokens' \in Number, failures' \in 0..MaxFailures,
           r # None => r.pc # "audit",
           r # None /\ r.pc = "update" => password # None /\ r.arg.current = password
    PROVE  TypeOK' /\ UpdateInv' /\ AuditInv'
<1>t. TypeOK /\ UpdateInv /\ AuditInv
  BY DEF IInv
<1>1. /\ request' \in [Tabs -> Requests]
      /\ request'[t] = r /\ \A u \in Tabs \ {t} : request'[u] = request[u]
  BY <1>t, OneRequest
<1>2. TypeOK'
  BY <1>t, <1>1 DEF TypeOK, Requests, browser
<1>3. UpdateInv'
  BY <1>t, <1>1 DEF UpdateInv, Pending
<1>4. AuditInv'
  <2>1. Cardinality(Auditing') = Cardinality(Auditing) - IF t \in Auditing THEN 1 ELSE 0
    <3>1. ~(r # None /\ r.pc = "audit")
      OBVIOUS
    <3> QED BY <1>t, <3>1, AuditingStep
  <2> QED BY <1>t, <2>1, AuditingFinite DEF AuditInv, TypeOK
<1> QED BY <1>2, <1>3, <1>4

(* A request that brings what was there before.                            *)
LEMMA QuietStep ==
    ASSUME IInv, NEW t \in Tabs, NEW r \in Requests,
           request' = [request EXCEPT ![t] = r],
           UNCHANGED <<browser, tokens, failures, ended>>,
           SessionsOf(r) \subseteq Sessions, PagesOf(r) \subseteq PagesHeld,
           r # None /\ r.pc = "answered" => r.ends = 0,
           r # None /\ r.pc \in {"change", "update", "audit"} => r.page.login = r.cookie.login
    PROVE  SessionInv' /\ StampInv' /\ EndsInv' /\ FormOfItsLogin'
<1>t. TypeOK /\ SessionInv /\ StampInv
  BY DEF IInv
<1>1. /\ tokens \in Nat /\ tokens' = tokens /\ failures \in Nat /\ failures' = failures
      /\ ended' = ended
  BY <1>t, PanelAssumption DEF TypeOK, Number
<1>2. /\ \A x \in SessionsOf(r) :
             /\ x \in Cookie /\ x.login <= tokens /\ x.token <= tokens
             /\ x.login \notin ended /\ x.fails <= failures
             /\ x.locked => failures >= MaxAttempts
      /\ \A y \in PagesOf(r) : y \in Page /\ y.token <= tokens
  BY <1>t DEF SessionInv
<1>3. /\ \A x \in SessionsOf(r) :
             \A y \in Sessions \cup PagesHeld \cup SessionsOf(r) \cup PagesOf(r) :
                 x.token # 0 /\ x.token = y.token => x.login = y.login
      /\ \A x \in Sessions : \A y \in PagesOf(r) :
             x.token # 0 /\ x.token = y.token => x.login = y.login
  BY <1>t DEF StampInv
<1>4. /\ r # None /\ r.pc = "answered" /\ r.ends # 0 =>
             r.set = Empty /\ r.ends <= tokens'
      /\ tokens <= tokens' /\ failures <= failures' /\ UNCHANGED browser
  BY <1>1
<1>5. /\ \A x \in SessionsOf(r) :
             /\ x \in Cookie /\ x.login <= tokens' /\ x.token <= tokens'
             /\ x.login \notin ended /\ x.fails <= failures'
             /\ x.locked => failures' >= MaxAttempts
      /\ \A y \in PagesOf(r) : y \in Page /\ y.token <= tokens'
  BY <1>1, <1>2
<1> HIDE DEF SessionsOf, PagesOf
<1> QED BY <1>1, <1>3, <1>4, <1>5, TabStep

-----------------------------------------------------------------------------
(* The process.                                                            *)
LEMMA BootInv ==
    ASSUME IInv, FindAdmin \/ InsertAdmin
    PROVE  IInv'
<1> USE PanelAssumption
<1>t. /\ TypeOK /\ SessionInv /\ StampInv /\ EndsInv /\ FormOfItsLogin /\ UpdateInv /\ AuditInv
      /\ UNCHANGED <<browser, request, tokens, entries, history>>
  BY DEF IInv, FindAdmin, InsertAdmin
<1>u. UNCHANGED <<cookie, page, request, tokens, entries, changes, failures, ended, overtaken>>
  BY <1>t DEF browser, history
<1>1. /\ boot' \in {"insert", "serving"}
      /\ password' \in Passwords \cup {None}
      /\ password # None => password' = password
  BY <1>t DEF FindAdmin, InsertAdmin, TypeOK
<1>2. TypeOK'
  BY <1>t, <1>u, <1>1 DEF TypeOK
<1>3. Sessions' = Sessions /\ PagesHeld' = PagesHeld /\ Auditing' = Auditing
  BY <1>u DEF Sessions, PagesHeld, Auditing, Pending, SessionsOf, PagesOf
<1>4. SessionInv' /\ StampInv' /\ AuditInv'
  BY <1>t, <1>u, <1>3 DEF SessionInv, StampInv, AuditInv
<1>5. EndsInv' /\ FormOfItsLogin'
  BY <1>t, <1>u DEF EndsInv, FormOfItsLogin, Pending
<1>6. UpdateInv'
  BY <1>t, <1>u, <1>1 DEF UpdateInv, Pending
<1> QED BY <1>2, <1>4, <1>5, <1>6 DEF IInv

LEMMA RestartInv ==
    ASSUME IInv, Restart
    PROVE  IInv'
<1> USE PanelAssumption
<1>t. TypeOK /\ SessionInv /\ StampInv /\ EndsInv /\ FormOfItsLogin /\ UpdateInv /\ AuditInv
  BY DEF IInv
<1>u. /\ UNCHANGED <<password, cookie, page, tokens, entries, changes, failures, ended>>
      /\ request' = [t \in Tabs |-> IF Pending(t, {"answered"}) THEN request[t] ELSE None]
      /\ boot' = "find" /\ overtaken' = {}
  BY DEF Restart, browser
<1>1. \A t \in Tabs : (request'[t] = request[t] /\ Pending(t, {"answered"})) \/ request'[t] = None
  BY <1>u
<1>2. TypeOK'
  <2>1. request' \in [Tabs -> Login \cup Save \cup Answer \cup {None}]
    BY <1>t, <1>u DEF TypeOK
  <2> QED BY <1>t, <1>u, <2>1 DEF TypeOK
<1>3. Sessions' \subseteq Sessions /\ PagesHeld' \subseteq PagesHeld
  <2>1. \A t \in Tabs : /\ SessionsOf(request'[t]) \subseteq SessionsOf(request[t])
                        /\ PagesOf(request'[t]) \subseteq PagesOf(request[t])
    BY <1>1 DEF SessionsOf, PagesOf
  <2>2. Sessions' = {cookie} \cup UNION {SessionsOf(request'[t]) : t \in Tabs}
    BY <1>u DEF Sessions, SessionsOf
  <2>3. PagesHeld' = ({page[t] : t \in Tabs} \ {None})
                        \cup UNION {PagesOf(request'[t]) : t \in Tabs}
    BY <1>u DEF PagesHeld, PagesOf
  <2>4. /\ UNION {SessionsOf(request'[t]) : t \in Tabs} \subseteq Sessions
        /\ UNION {PagesOf(request'[t]) : t \in Tabs} \subseteq PagesHeld
    BY <2>1 DEF Sessions, PagesHeld
  <2>5. cookie \in Sessions /\ {page[t] : t \in Tabs} \ {None} \subseteq PagesHeld
    BY DEF Sessions, PagesHeld
  <2> QED BY <2>2, <2>3, <2>4, <2>5
<1>4. SessionInv' /\ StampInv'
  BY <1>t, <1>u, <1>3 DEF SessionInv, StampInv
<1>5. \A t \in Tabs : ~Pending(t, {"login", "change", "update", "audit"})'
  BY <1>1 DEF Pending
<1>6. EndsInv'
  BY <1>t, <1>u, <1>1 DEF EndsInv, Pending
<1>7. FormOfItsLogin' /\ UpdateInv'
  BY <1>5 DEF FormOfItsLogin, UpdateInv, Pending
<1>8. AuditInv'
  <2>1. Auditing' = {}
    BY <1>5 DEF Auditing, Pending
  <2> QED BY <1>t, <1>u, <2>1, FS_EmptySet, AuditingFinite DEF AuditInv, TypeOK
<1> QED BY <1>2, <1>4, <1>6, <1>7, <1>8 DEF IInv

LEMMA ExpireInv ==
    ASSUME IInv, Expire
    PROVE  IInv'
<1> USE PanelAssumption
<1>t. TypeOK /\ SessionInv /\ StampInv /\ EndsInv /\ FormOfItsLogin /\ UpdateInv /\ AuditInv
  BY DEF IInv
<1>u. /\ UNCHANGED <<boot, password, page, request, tokens, entries, history>>
      /\ UNCHANGED <<changes, failures, ended, overtaken>>
      /\ cookie' = Empty
  BY DEF Expire, history
<1>e. /\ Empty \in Cookie /\ Empty.login = 0 /\ Empty.token = 0 /\ Empty.fails = 0
      /\ Empty.locked = FALSE /\ Empty.login \notin ended
  BY <1>t DEF Empty, Cookie, Number, SessionInv
<1>1. TypeOK'
  BY <1>t, <1>u, <1>e DEF TypeOK
<1>2. Sessions' \subseteq Sessions \cup {Empty} /\ PagesHeld' \subseteq PagesHeld \cup {}
  BY <1>u DEF Sessions, PagesHeld, SessionsOf, PagesOf
<1>3. SessionInv' /\ StampInv'
  <2>1. tokens' \in Nat /\ tokens' = tokens /\ failures' \in Nat /\ failures' = failures
    BY <1>t, <1>u DEF TypeOK, Number
  <2> DEFINE X == {Empty}
             Y == {}
  <2>2. /\ \A x \in X : /\ x \in Cookie
                        /\ x.login <= tokens' /\ x.token <= tokens'
                        /\ x.login \notin ended
                        /\ x.fails <= failures'
                        /\ x.locked => failures' >= MaxAttempts
        /\ \A y \in Y : y \in Page /\ y.token <= tokens'
    BY <1>e, <2>1
  <2>3. /\ \A x \in X : \A y \in Sessions \cup PagesHeld \cup X \cup Y :
               x.token # 0 /\ x.token = y.token => x.login = y.login
        /\ \A x \in Sessions : \A y \in Y :
               x.token # 0 /\ x.token = y.token => x.login = y.login
    BY <1>e
  <2>4. tokens <= tokens' /\ failures <= failures' /\ ended' = ended
    BY <1>u, <2>1
  <2>5. Sessions' \subseteq Sessions \cup X /\ PagesHeld' \subseteq PagesHeld \cup Y
    BY <1>2
  <2> HIDE DEF X, Y
  <2> QED BY <1>t, <2>1, <2>2, <2>3, <2>4, <2>5, SessionStep
<1>4. EndsInv' /\ FormOfItsLogin' /\ UpdateInv'
  BY <1>t, <1>u DEF EndsInv, FormOfItsLogin, UpdateInv, Pending
<1>5. AuditInv'
  <2>1. Auditing' = Auditing
    BY <1>u DEF Auditing, Pending
  <2> QED BY <1>t, <1>u, <2>1 DEF AuditInv
<1> QED BY <1>1, <1>3, <1>4, <1>5 DEF IInv

-----------------------------------------------------------------------------
(* The browser.                                                            *)
LEMMA SubmitInv ==
    ASSUME IInv, NEW t \in Tabs,
           \/ \E arg \in Credentials : SubmitLogin(t, arg)
           \/ \E arg \in Change : SubmitChange(t, arg)
    PROVE  IInv'
<1>t. TypeOK /\ SessionInv /\ StampInv
  BY DEF IInv
<1>u. /\ UNCHANGED <<boot, password, browser, tokens, entries, history>>
      /\ UNCHANGED <<changes, failures, ended, overtaken>>
      /\ page[t] # None
  BY DEF SubmitLogin, SubmitChange, history, Shows
<1>1. cookie \in Cookie /\ page[t] \in Page
  BY <1>t, <1>u DEF TypeOK
<1>2. cookie \in Sessions /\ page[t] \in PagesHeld
  BY <1>u, Carried
<1>3. PICK r \in Login \cup Save :
          /\ request' = [request EXCEPT ![t] = r]
          /\ r.pc \in {"login", "change"} /\ r.cookie = cookie /\ r.page = page[t]
          /\ r.pc = "change" => Admitted(cookie, page[t])
  <2>1. CASE \E arg \in Credentials : SubmitLogin(t, arg)
    <3>1. PICK arg \in Credentials :
              request' = [request EXCEPT ![t] =
                 [pc |-> "login", cookie |-> cookie, page |-> page[t], arg |-> arg]]
      BY <2>1 DEF SubmitLogin
    <3> DEFINE q == [pc |-> "login", cookie |-> cookie, page |-> page[t], arg |-> arg]
    <3>2. q \in Login /\ q.pc = "login" /\ q.cookie = cookie /\ q.page = page[t]
      BY <1>1 DEF Login
    <3> HIDE DEF q
    <3> QED BY <3>1, <3>2 DEF q
  <2>2. CASE \E arg \in Change : SubmitChange(t, arg)
    <3>1. PICK arg \in Change :
              /\ request' = [request EXCEPT ![t] =
                    [pc |-> "change", cookie |-> cookie, page |-> page[t], arg |-> arg]]
              /\ Admitted(cookie, page[t])
      BY <2>2 DEF SubmitChange
    <3>2. [pc |-> "change", cookie |-> cookie, page |-> page[t], arg |-> arg] \in Save
      BY <1>1 DEF Save
    <3> QED BY <3>1, <3>2
  <2> QED BY <2>1, <2>2
<1>4. r.pc = "change" => r.page.login = r.cookie.login
  BY <1>t, <1>2, <1>3 DEF Admitted, VerifyCSRF, StampInv
<1>5. SessionsOf(r) \subseteq Sessions /\ PagesOf(r) \subseteq PagesHeld
  BY <1>2, <1>3 DEF SessionsOf, PagesOf
<1>6. r \in Requests
  BY DEF Requests
<1>7. SessionInv' /\ StampInv' /\ EndsInv' /\ FormOfItsLogin'
  BY <1>u, <1>3, <1>4, <1>5, <1>6, QuietStep
<1>8. TypeOK' /\ UpdateInv' /\ AuditInv'
  <2>1. tokens' \in Number /\ failures' \in 0..MaxFailures
    BY <1>t, <1>u DEF TypeOK
  <2> QED BY <1>u, <1>3, <1>6, <2>1, Unwritten
<1> QED BY <1>7, <1>8 DEF IInv

(* An answer with nothing in it, or none.                                  *)
LEMMA EmptyAnswer ==
    ASSUME NEW r, r = None \/ r = [pc |-> "answered", set |-> None, shows |-> None, ends |-> 0]
    PROVE  /\ r \in Requests
           /\ SessionsOf(r) \subseteq Sessions /\ PagesOf(r) \subseteq PagesHeld
           /\ r # None => r.pc = "answered" /\ r.ends = 0
BY PanelAssumption DEF Requests, Answer, Number, SessionsOf, PagesOf

LEMMA LoseInv ==
    ASSUME IInv, NEW t \in Tabs, Lose(t) \/ RefuseLogin(t)
    PROVE  IInv'
<1>t. TypeOK
  BY DEF IInv
<1>u. /\ UNCHANGED <<boot, password, browser, tokens, entries, history>>
      /\ UNCHANGED <<changes, failures, ended, overtaken>>
  BY DEF Lose, RefuseLogin, history
<1>1. PICK r : /\ request' = [request EXCEPT ![t] = r]
               /\ \/ r = None
                  \/ r = [pc |-> "answered", set |-> None, shows |-> None, ends |-> 0]
  BY DEF Lose, RefuseLogin, Reply
<1>2. /\ r \in Requests
      /\ SessionsOf(r) \subseteq Sessions /\ PagesOf(r) \subseteq PagesHeld
      /\ r # None => r.pc = "answered" /\ r.ends = 0
  BY <1>1, EmptyAnswer
<1>3. SessionInv' /\ StampInv' /\ EndsInv' /\ FormOfItsLogin'
  BY <1>u, <1>1, <1>2, QuietStep
<1>4. TypeOK' /\ UpdateInv' /\ AuditInv'
  <2>1. tokens' \in Number /\ failures' \in 0..MaxFailures
    BY <1>t, <1>u DEF TypeOK
  <2> QED BY <1>u, <1>1, <1>2, <2>1, Unwritten
<1> QED BY <1>3, <1>4 DEF IInv

(* A GET's cookie and page share token and login; the token is the         *)
(* cookie's, or new.                                                       *)
LEMMA GetInv ==
    ASSUME IInv, NEW t \in Tabs, NEW f \in {"login", "panel"}, Get(t, f)
    PROVE  IInv'
<1> USE PanelAssumption
<1>t. TypeOK /\ SessionInv /\ StampInv
  BY DEF IInv
<1>u. /\ UNCHANGED <<boot, password, browser, entries, history>>
      /\ UNCHANGED <<changes, failures, ended, overtaken>>
  BY DEF Get, history
<1> DEFINE c == IF cookie.token = 0 THEN [cookie EXCEPT !.token = Fresh] ELSE cookie
           y == [form |-> f, token |-> c.token, login |-> c.login]
           r == [pc |-> "answered", set |-> IF c = cookie THEN None ELSE c,
                 shows |-> y, ends |-> 0]
<1>1. /\ request' = [request EXCEPT ![t] = r]
      /\ tokens' = IF c = cookie THEN tokens ELSE Fresh
      /\ c # cookie => tokens < MaxTokens
  BY DEF Get, Reply
<1>2. cookie \in Cookie /\ cookie \in Sessions /\ tokens \in Number
  BY <1>t DEF TypeOK, Sessions
<1>3. /\ tokens' \in Number /\ tokens' \in Nat /\ tokens <= tokens'
      /\ failures' \in Nat /\ failures <= failures' /\ failures' \in 0..MaxFailures
      /\ ended' = ended
  BY <1>t, <1>u, <1>1, <1>2 DEF TypeOK, Number, Fresh
<1>4. /\ c \in Cookie /\ c.login = cookie.login /\ c.fails = cookie.fails
      /\ c.locked = cookie.locked
      /\ c = cookie \/ (cookie.token = 0 /\ c.token = Fresh)
  <2>1. /\ c = cookie \/ (cookie.token = 0 /\ c = [cookie EXCEPT !.token = Fresh])
        /\ c # cookie => tokens < MaxTokens
    BY <1>1
  <2> HIDE DEF c
  <2>2. CASE c = cookie
    BY <1>2, <2>2
  <2>3. CASE c # cookie
    BY <1>2, <2>1, <2>3 DEF Cookie, Number, Fresh
  <2> QED BY <2>2, <2>3
<1>5. /\ cookie.login <= tokens /\ cookie.token <= tokens /\ cookie.login \notin ended
      /\ cookie.fails <= failures /\ (cookie.locked => failures >= MaxAttempts)
  BY <1>t, <1>2 DEF SessionInv
<1>6. c.login <= tokens' /\ c.token <= tokens'
  BY <1>1, <1>2, <1>3, <1>4, <1>5 DEF Cookie, Number, Fresh
<1>7. y \in Page /\ y.token = c.token /\ y.login = c.login
  BY <1>4 DEF Page, Cookie
<1>8. r \in Requests
  BY <1>4, <1>7 DEF Requests, Answer, Number
<1>9. /\ SessionsOf(r) \subseteq {c} /\ PagesOf(r) \subseteq {y}
      /\ r # None => r.pc = "answered" /\ r.ends = 0
  BY DEF SessionsOf, PagesOf
<1>10. ASSUME NEW z \in Sessions \cup PagesHeld, c.token # 0, c.token = z.token
       PROVE  c.login = z.login
  <2>1. CASE c = cookie
    BY <1>t, <1>2, <1>10, <2>1 DEF StampInv
  <2>2. CASE c # cookie
    <3>1. z.token <= tokens
      BY <1>t, <1>10 DEF SessionInv
    <3> QED BY <1>2, <1>4, <1>10, <2>2, <3>1 DEF Fresh, Number
  <2> QED BY <2>1, <2>2
<1> HIDE DEF c, y, r
<1>11. SessionInv' /\ StampInv' /\ EndsInv' /\ FormOfItsLogin'
  <2>1. \A x \in SessionsOf(r) : /\ x \in Cookie
                                 /\ x.login <= tokens' /\ x.token <= tokens'
                                 /\ x.login \notin ended
                                 /\ x.fails <= failures'
                                 /\ x.locked => failures' >= MaxAttempts
    BY <1>u, <1>4, <1>5, <1>6, <1>9
  <2>2. \A z \in PagesOf(r) : z \in Page /\ z.token <= tokens'
    BY <1>6, <1>7, <1>9
  <2>3. \A x \in SessionsOf(r) :
           \A z \in Sessions \cup PagesHeld \cup SessionsOf(r) \cup PagesOf(r) :
               x.token # 0 /\ x.token = z.token => x.login = z.login
    BY <1>7, <1>9, <1>10
  <2>4. \A x \in Sessions : \A z \in PagesOf(r) :
            x.token # 0 /\ x.token = z.token => x.login = z.login
    BY <1>7, <1>9, <1>10
  <2>5. /\ r # None /\ r.pc = "answered" /\ r.ends # 0 => r.set = Empty /\ r.ends <= tokens'
        /\ r # None /\ r.pc \in {"change", "update", "audit"} => r.page.login = r.cookie.login
    BY <1>9
  <2> QED BY <1>u, <1>1, <1>3, <1>8, <2>1, <2>2, <2>3, <2>4, <2>5, TabStep
<1>12. TypeOK' /\ UpdateInv' /\ AuditInv'
  BY <1>u, <1>1, <1>3, <1>8, <1>9, Unwritten
<1> QED BY <1>11, <1>12 DEF IInv

(* Every answer that replaces the session, but for a GET's, sets x.        *)
LEMMA SetInv ==
    ASSUME IInv, NEW t \in Tabs, NEW x \in Cookie, NEW e \in Number,
           request' = [request EXCEPT ![t] =
               [pc |-> "answered", set |-> x, shows |-> None, ends |-> e]],
           UNCHANGED <<boot, password, browser, entries, changes, ended, overtaken>>,
           tokens' \in Number, tokens <= tokens',
           failures' \in 0..MaxFailures, failures <= failures',
           x.login <= tokens' /\ x.token <= tokens',
           x.login \notin ended,
           x.fails <= failures' /\ (x.locked => failures' >= MaxAttempts),
           \A y \in Sessions \cup PagesHeld :
               x.token # 0 /\ x.token = y.token => x.login = y.login,
           e # 0 => x = Empty /\ e <= tokens'
    PROVE  IInv'
<1> USE PanelAssumption
<1> DEFINE r == [pc |-> "answered", set |-> x, shows |-> None, ends |-> e]
<1>1. /\ r \in Requests /\ r.pc = "answered"
      /\ r.ends = e /\ r.set = x
  BY DEF Requests, Answer
<1>2. SessionsOf(r) \subseteq {x} /\ PagesOf(r) = {}
  BY DEF SessionsOf, PagesOf
<1>3. tokens' \in Nat /\ failures' \in Nat
  BY DEF Number
<1>4. request' = [request EXCEPT ![t] = r]
  OBVIOUS
<1> HIDE DEF r
<1>5. SessionInv' /\ StampInv' /\ EndsInv' /\ FormOfItsLogin'
  <2>1. \A z \in SessionsOf(r) : /\ z \in Cookie
                                 /\ z.login <= tokens' /\ z.token <= tokens'
                                 /\ z.login \notin ended
                                 /\ z.fails <= failures'
                                 /\ z.locked => failures' >= MaxAttempts
    BY <1>2
  <2>2. \A z \in PagesOf(r) : z \in Page /\ z.token <= tokens'
    BY <1>2
  <2>3. \A z \in SessionsOf(r) :
           \A y \in Sessions \cup PagesHeld \cup SessionsOf(r) \cup PagesOf(r) :
               z.token # 0 /\ z.token = y.token => z.login = y.login
    BY <1>2
  <2>4. \A z \in Sessions : \A y \in PagesOf(r) :
            z.token # 0 /\ z.token = y.token => z.login = y.login
    BY <1>2
  <2>5. /\ r # None /\ r.pc = "answered" /\ r.ends # 0 => r.set = Empty /\ r.ends <= tokens'
        /\ r # None /\ r.pc \in {"change", "update", "audit"} => r.page.login = r.cookie.login
    BY <1>1
  <2>6. UNCHANGED browser /\ ended' = ended
    OBVIOUS
  <2> QED BY <1>1, <1>3, <1>4, <2>1, <2>2, <2>3, <2>4, <2>5, <2>6, TabStep, ZenonT(60)
<1>6. TypeOK' /\ UpdateInv' /\ AuditInv'
  BY <1>1, <1>4, Unwritten
<1> QED BY <1>5, <1>6 DEF IInv

LEMMA EmptySession ==
    ASSUME SessionInv
    PROVE  /\ Empty \in Cookie /\ Empty.login = 0 /\ Empty.token = 0 /\ Empty.fails = 0
           /\ Empty.locked = FALSE /\ Empty.login \notin ended
BY PanelAssumption DEF Empty, Cookie, Number, SessionInv

LEMMA LogoutInv ==
    ASSUME IInv, NEW t \in Tabs, Logout(t)
    PROVE  IInv'
<1> USE PanelAssumption
<1>t. TypeOK /\ SessionInv
  BY DEF IInv
<1>u. /\ UNCHANGED <<boot, password, browser, tokens, entries, history>>
      /\ UNCHANGED <<changes, failures, ended, overtaken>>
      /\ request' = [request EXCEPT ![t] =
            [pc |-> "answered", set |-> Empty, shows |-> None, ends |-> cookie.login]]
  BY DEF Logout, Reply, history
<1>1. /\ tokens' \in Number /\ tokens <= tokens'
      /\ failures' \in 0..MaxFailures /\ failures <= failures' /\ 0 <= tokens' /\ 0 <= failures'
  BY <1>t, <1>u DEF TypeOK, Number
<1>2. cookie.login \in Number /\ cookie.login <= tokens'
  BY <1>t, <1>u, Carried DEF TypeOK, Cookie, SessionInv
<1> QED BY <1>t, <1>u, <1>1, <1>2, EmptySession, SetInv

LEMMA LoginSucceedsInv ==
    ASSUME IInv, NEW t \in Tabs, LoginSucceeds(t)
    PROVE  IInv'
<1> USE PanelAssumption
<1>t. TypeOK /\ SessionInv
  BY DEF IInv
<1> DEFINE x == LoggedIn(request[t].cookie)
<1>u. /\ UNCHANGED <<boot, password, browser, entries, history>>
      /\ UNCHANGED <<changes, failures, ended, overtaken>>
      /\ tokens < MaxTokens /\ tokens' = Fresh
  BY DEF LoginSucceeds, history
<1>v. request' = [request EXCEPT ![t] =
          [pc |-> "answered", set |-> x, shows |-> None, ends |-> 0]]
  BY DEF LoginSucceeds, Reply
<1>1. /\ tokens \in Nat /\ Fresh \in Number /\ tokens <= Fresh /\ ~(Fresh <= tokens)
      /\ failures' \in 0..MaxFailures /\ failures <= failures' /\ 0 <= failures'
  BY <1>t, <1>u DEF TypeOK, Number, Fresh
<1>2. /\ x \in Cookie /\ x.login = Fresh /\ x.token = Fresh /\ x.fails = 0 /\ ~x.locked
  <2>1. /\ Empty \in Cookie /\ Empty.fails = 0 /\ Empty.locked = FALSE
    BY <1>t, EmptySession
  <2> QED BY <1>1, <2>1 DEF Cookie, Number, LoggedIn
<1> HIDE DEF x
<1>3. Fresh \notin ended /\ Fresh <= Fresh /\ 0 \in Number
  BY <1>t, <1>1 DEF SessionInv, Number
<1>4. \A y \in Sessions \cup PagesHeld : x.token # y.token
  BY <1>t, <1>1, <1>2 DEF SessionInv
<1> QED BY <1>u, <1>v, <1>1, <1>2, <1>3, <1>4, SetInv

LEMMA LoginFailsInv ==
    ASSUME IInv, NEW t \in Tabs, LoginFails(t)
    PROVE  IInv'
<1> USE PanelAssumption
<1>t. TypeOK /\ SessionInv /\ StampInv
  BY DEF IInv
<1> DEFINE c == request[t].cookie
           x == Failed(c)
<1>u. /\ UNCHANGED <<boot, password, browser, tokens, entries, changes, ended, overtaken>>
      /\ failures < MaxFailures /\ failures' = failures + 1
      /\ Pending(t, {"login"})
  BY DEF LoginFails, Authenticating, AtLogin
<1>v. request' = [request EXCEPT ![t] =
          [pc |-> "answered", set |-> x, shows |-> None, ends |-> 0]]
  BY DEF LoginFails, Reply
<1>1. c \in Sessions /\ c \in Cookie
  BY <1>t, <1>u, Carried DEF Pending, SessionInv
<1>2. /\ c.login <= tokens /\ c.token <= tokens /\ c.login \notin ended
      /\ c.fails <= failures /\ (c.locked => failures >= MaxAttempts)
  BY <1>t, <1>1 DEF SessionInv
<1>3. /\ tokens' \in Number /\ tokens <= tokens' /\ tokens' = tokens
      /\ failures \in Nat /\ failures' \in 0..MaxFailures /\ failures <= failures'
  BY <1>t, <1>u DEF TypeOK, Number
<1> HIDE DEF c
<1>4. /\ x.login = c.login /\ x.token = c.token /\ x.fails = c.fails + 1
      /\ x.locked = (c.locked \/ c.fails + 1 >= MaxAttempts)
      /\ x \in Cookie
  <2>1. c.fails + 1 \in 0..MaxFailures
    BY <1>1, <1>2, <1>3, <1>u DEF Cookie
  <2> QED BY <1>1, <2>1 DEF Failed, Cookie
<1> HIDE DEF x
<1>5. x.fails <= failures' /\ (x.locked => failures' >= MaxAttempts)
  BY <1>1, <1>2, <1>3, <1>4, <1>u DEF Cookie
<1>6. \A y \in Sessions \cup PagesHeld :
          x.token # 0 /\ x.token = y.token => x.login = y.login
  BY <1>t, <1>1, <1>4 DEF StampInv
<1>7. 0 \in Number
  BY DEF Number
<1>8. /\ x.login <= tokens' /\ x.token <= tokens' /\ x.login \notin ended
      /\ UNCHANGED <<boot, password, browser, entries, changes, ended, overtaken>>
  BY <1>u, <1>2, <1>3, <1>4
<1> QED BY <1>v, <1>3, <1>4, <1>5, <1>6, <1>7, <1>8, SetInv

(* What was on its way is now in the browser.  If a login ends, there is   *)
(* no other request: the only session left is the empty one.               *)
LEMMA ReceiveInv ==
    ASSUME IInv, NEW t \in Tabs, Receive(t)
    PROVE  IInv'
<1> USE PanelAssumption
<1>t. TypeOK /\ SessionInv /\ StampInv /\ EndsInv /\ FormOfItsLogin /\ UpdateInv /\ AuditInv
  BY DEF IInv
<1> DEFINE r == request[t]
<1>u. /\ UNCHANGED <<boot, password, tokens, entries, changes, failures, overtaken>>
      /\ Pending(t, {"answered"})
      /\ cookie' = IF r.set = None THEN cookie ELSE r.set
      /\ page' = [page EXCEPT ![t] = r.shows]
      /\ request' = [request EXCEPT ![t] = None]
      /\ ended' = IF r.ends # 0 /\ \A u \in Tabs \ {t} : request[u] = None
                    THEN ended \cup {r.ends} ELSE ended
  BY DEF Receive
<1>1. /\ request' \in [Tabs -> Requests]
      /\ request'[t] = None /\ \A u \in Tabs \ {t} : request'[u] = request[u]
  <2>1. None \in Requests
    BY DEF Requests
  <2> QED BY <1>t, <1>u, <2>1, OneRequest
<1>2. r \in Answer
  BY <1>t, <1>u, RequestKinds
<1>3. TypeOK'
  <2>1. cookie' \in Cookie
    BY <1>t, <1>u, <1>2 DEF TypeOK, Answer
  <2>2. page' \in [Tabs -> Page \cup {None}]
    BY <1>t, <1>u, <1>2 DEF TypeOK, Answer
  <2>3. ended' \subseteq Number
    BY <1>t, <1>u, <1>2 DEF TypeOK, Answer
  <2> QED BY <1>t, <1>u, <1>1, <2>1, <2>2, <2>3 DEF TypeOK, Requests
<1>4. Sessions' \subseteq Sessions
  <2>1. cookie' \in Sessions
    BY <1>u, Carried
  <2>2. ASSUME NEW u \in Tabs, NEW x, x \in SessionsOf(request'[u])
        PROVE  x \in Sessions
    <3>1. u # t /\ request'[u] = request[u]
      BY <1>1, <2>2 DEF SessionsOf
    <3> QED BY <2>2, <3>1 DEF Sessions
  <2> HIDE DEF r
  <2> QED BY <2>1, <2>2 DEF Sessions, SessionsOf
<1>5. PagesHeld' \subseteq PagesHeld
  <2>1. ASSUME NEW u \in Tabs, page'[u] # None
        PROVE  page'[u] \in PagesHeld
    <3>1. CASE u = t
      BY <1>t, <1>u, <2>1, <3>1, Carried DEF TypeOK
    <3>2. CASE u # t
      BY <1>t, <1>u, <2>1, <3>2, Carried DEF TypeOK
    <3> QED BY <3>1, <3>2
  <2>2. ASSUME NEW u \in Tabs, NEW x, x \in PagesOf(request'[u])
        PROVE  x \in PagesHeld
    <3>1. u # t /\ request'[u] = request[u]
      BY <1>1, <2>2 DEF PagesOf
    <3> QED BY <2>2, <3>1 DEF PagesHeld
  <2> HIDE DEF r
  <2> QED BY <2>1, <2>2 DEF PagesHeld, PagesOf
<1>6. StampInv'
  BY <1>t, <1>4, <1>5 DEF StampInv
<1>7. SessionInv'
  <2>1. CASE ended' = ended
    BY <1>t, <1>u, <1>4, <1>5, <2>1 DEF SessionInv
  <2>2. CASE r.ends # 0 /\ (\A u \in Tabs \ {t} : request[u] = None)
    <3>1. r.set = Empty /\ r.ends <= tokens
      BY <1>t, <1>u, <2>2 DEF EndsInv
    <3>2. ended' = ended \cup {r.ends}
      BY <1>u, <2>2
    <3>3. Sessions' \subseteq {Empty}
      <4>1. cookie' = Empty
        BY <1>u, <3>1, NoneAssumption
      <4>2. \A u \in Tabs : request'[u] = None
        BY <1>1, <2>2
      <4> QED BY <4>1, <4>2 DEF Sessions, SessionsOf
    <3>4. \A x \in Sessions' : x = Empty /\ x \in Sessions
      BY <1>4, <3>3
    <3>5. /\ Empty.login = 0
          /\ \A l \in ended' : l # 0 /\ l <= tokens
      BY <1>t, <2>2, <3>1, <3>2, EmptySession DEF SessionInv
    <3> HIDE DEF r
    <3> QED BY <1>t, <1>u, <1>5, <3>4, <3>5 DEF SessionInv
  <2> QED BY <1>u, <2>1, <2>2
<1>8. EndsInv' /\ FormOfItsLogin' /\ UpdateInv'
  BY <1>t, <1>u, <1>1 DEF EndsInv, FormOfItsLogin, UpdateInv, Pending
<1>9. AuditInv'
  <2>1. Auditing' = Auditing
    BY <1>u, <1>1 DEF Auditing, Pending
  <2> QED BY <1>t, <1>u, <2>1 DEF AuditInv
<1> QED BY <1>3, <1>6, <1>7, <1>8, <1>9 DEF IInv

-----------------------------------------------------------------------------
(* The change of the password.                                             *)

LEMMA Moved ==
    ASSUME TypeOK, FormOfItsLogin, NEW t \in Tabs,
           Pending(t, {"change", "update", "audit"}), NEW pc \in {"update", "audit"}
    PROVE  /\ [request[t] EXCEPT !.pc = pc] \in Save
           /\ [request[t] EXCEPT !.pc = pc] # None =>
                /\ [request[t] EXCEPT !.pc = pc].pc = pc
                /\ [request[t] EXCEPT !.pc = pc].arg = request[t].arg
                /\ [request[t] EXCEPT !.pc = pc].page.login
                     = [request[t] EXCEPT !.pc = pc].cookie.login
           /\ SessionsOf([request[t] EXCEPT !.pc = pc]) \subseteq Sessions
           /\ PagesOf([request[t] EXCEPT !.pc = pc]) \subseteq PagesHeld
<1> DEFINE r == [request[t] EXCEPT !.pc = pc]
<1>1. request[t] \in Save
  BY RequestKinds
<1>2. /\ r \in Save /\ r.pc = pc /\ r.arg = request[t].arg
      /\ r.page = request[t].page /\ r.cookie = request[t].cookie
  BY <1>1 DEF Save
<1>3. request[t].page.login = request[t].cookie.login
  BY DEF FormOfItsLogin
<1>4. request[t].cookie \in Sessions /\ request[t].page \in PagesHeld
  BY Carried DEF Pending
<1> HIDE DEF r
<1>5. SessionsOf(r) \subseteq Sessions /\ PagesOf(r) \subseteq PagesHeld
  BY <1>2, <1>4 DEF SessionsOf, PagesOf
<1>6. r.page.login = r.cookie.login
  BY <1>2, <1>3
<1> QED BY <1>2, <1>5, <1>6 DEF r

LEMMA CheckCurrentInv ==
    ASSUME IInv, NEW t \in Tabs, CheckCurrent(t)
    PROVE  IInv'
<1> USE PanelAssumption
<1>t. TypeOK /\ FormOfItsLogin
  BY DEF IInv
<1>u. /\ UNCHANGED <<boot, password, browser, tokens, entries, history>>
      /\ UNCHANGED <<changes, failures, ended, overtaken>>
      /\ Pending(t, {"change", "update", "audit"})
  BY DEF CheckCurrent, history, Pending
<1>1. request[t] \in Save
  BY <1>t, <1>u, RequestKinds
<1>2. PICK r : /\ request' = [request EXCEPT ![t] = r]
               /\ \/ /\ r = [request[t] EXCEPT !.pc = "update"]
                     /\ request[t].arg.current = password
                  \/ r = [pc |-> "answered", set |-> None, shows |-> None, ends |-> 0]
  BY DEF CheckCurrent, Goto, Reply
<1>3. /\ r \in Requests
      /\ SessionsOf(r) \subseteq Sessions /\ PagesOf(r) \subseteq PagesHeld
      /\ r # None /\ r.pc = "answered" => r.ends = 0
      /\ r # None => r.pc # "audit"
      /\ r # None /\ r.pc = "update" => password # None /\ r.arg.current = password
      /\ r # None /\ r.pc \in {"change", "update", "audit"} => r.page.login = r.cookie.login
  <2>1. CASE /\ r = [request[t] EXCEPT !.pc = "update"]
             /\ request[t].arg.current = password
    <3>1. password # None
      BY <1>1, <2>1 DEF Save, Change
    <3>2. /\ r \in Save
          /\ r # None => r.pc = "update" /\ r.arg = request[t].arg
                         /\ r.page.login = r.cookie.login
          /\ SessionsOf(r) \subseteq Sessions /\ PagesOf(r) \subseteq PagesHeld
      BY <1>t, <1>u, <2>1, Moved
    <3> QED BY <2>1, <3>1, <3>2 DEF Requests
  <2>2. CASE r = [pc |-> "answered", set |-> None, shows |-> None, ends |-> 0]
    BY <2>2, EmptyAnswer
  <2> QED BY <1>2, <2>1, <2>2
<1>4. SessionInv' /\ StampInv' /\ EndsInv' /\ FormOfItsLogin'
  BY <1>u, <1>2, <1>3, QuietStep
<1>5. TypeOK' /\ UpdateInv' /\ AuditInv'
  <2>1. tokens' \in Number /\ failures' \in 0..MaxFailures
    BY <1>t, <1>u DEF TypeOK
  <2> QED BY <1>u, <1>2, <1>3, <2>1, Unwritten
<1> QED BY <1>4, <1>5 DEF IInv

(* The row after UpdatePasswordHash: whoever else has compared with the    *)
(* password that was there is overtaken.                                   *)
LEMMA HashInv ==
    ASSUME TypeOK, UpdateInv, NEW t \in Tabs, Pending(t, {"update"}), UpdatePasswordHash(t),
           ~Pending(t, {"update"})',
           \A u \in Tabs \ {t} : request'[u] = request[u]
    PROVE  /\ password' \in Passwords /\ overtaken' \subseteq Tabs
           /\ changes' = changes + 1 /\ changes' \in 0..MaxChanges
           /\ UpdateInv'
<1> USE PanelAssumption
<1>1. request[t] \in Save
  BY RequestKinds DEF Pending
<1>2. /\ password' = request[t].arg.new /\ password' \in Passwords
      /\ overtaken' = (overtaken \cup {u \in Tabs : Pending(u, {"update"})}) \ {t}
  BY <1>1 DEF UpdatePasswordHash, Save, Change
<1>3. changes' = changes + 1 /\ changes' \in 0..MaxChanges
  BY DEF UpdatePasswordHash, TypeOK
<1>4. UpdateInv'
  <2> SUFFICES ASSUME NEW u \in Tabs, Pending(u, {"update"})'
               PROVE  /\ password' # None
                      /\ u \in overtaken'
    BY DEF UpdateInv
  <2>1. u # t
    OBVIOUS
  <2>2. Pending(u, {"update"})
    BY <2>1 DEF Pending
  <2> QED BY <1>2, <2>1, <2>2
<1> QED BY <1>2, <1>3, <1>4 DEF TypeOK

LEMMA UpdateKeepsInv ==
    ASSUME IInv, NEW t \in Tabs, Update(t)
    PROVE  IInv'
<1> USE PanelAssumption
<1>t. TypeOK /\ FormOfItsLogin /\ UpdateInv /\ AuditInv
  BY DEF IInv
<1>u. /\ UNCHANGED <<boot, browser, tokens, entries, failures, ended>>
      /\ Pending(t, {"update"}) /\ UpdatePasswordHash(t)
      /\ Pending(t, {"change", "update", "audit"})
  BY DEF Update, Pending
<1> DEFINE r == [request[t] EXCEPT !.pc = "audit"]
<1>1. request' = [request EXCEPT ![t] = r]
  BY DEF Update, Goto
<1>2. /\ r \in Requests
      /\ SessionsOf(r) \subseteq Sessions /\ PagesOf(r) \subseteq PagesHeld
      /\ r # None => r.pc = "audit" /\ r.page.login = r.cookie.login
  BY <1>t, <1>u, Moved DEF Requests
<1> HIDE DEF r
<1>3. SessionInv' /\ StampInv' /\ EndsInv' /\ FormOfItsLogin'
  BY <1>u, <1>1, <1>2, QuietStep
<1>4. /\ request' \in [Tabs -> Requests]
      /\ request'[t] = r /\ \A u \in Tabs \ {t} : request'[u] = request[u]
  BY <1>t, <1>1, <1>2, OneRequest
<1>5. /\ password' \in Passwords /\ overtaken' \subseteq Tabs
      /\ changes' = changes + 1 /\ changes' \in 0..MaxChanges
      /\ UpdateInv'
  <2>1. ~Pending(t, {"update"})'
    BY <1>2, <1>4 DEF Pending
  <2> QED BY <1>t, <1>u, <1>4, <2>1, HashInv
<1>6. TypeOK'
  BY <1>t, <1>u, <1>4, <1>5 DEF TypeOK, Requests, browser
<1>7. AuditInv'
  <2>1. Cardinality(Auditing') <= Cardinality(Auditing) + 1
    <3>1. CASE r # None /\ r.pc = "audit"
      BY <1>t, <1>1, <1>2, <3>1, AuditingStep
    <3>2. CASE ~(r # None /\ r.pc = "audit")
      <4>1. Cardinality(Auditing') = Cardinality(Auditing) - IF t \in Auditing THEN 1 ELSE 0
        BY <1>t, <1>1, <1>2, <3>2, AuditingStep
      <4> QED BY <4>1, AuditingFinite
    <3> QED BY <3>1, <3>2
  <2> QED BY <1>t, <1>u, <1>5, <2>1, AuditingFinite DEF AuditInv, TypeOK
<1> QED BY <1>3, <1>5, <1>6, <1>7 DEF IInv

(* The handler ends: with its entry, or without.                           *)
LEMMA AuditEndsInv ==
    ASSUME IInv, NEW t \in Tabs, Audit(t) \/ StatementFails(t)
    PROVE  IInv'
<1> USE PanelAssumption
<1>t. TypeOK /\ FormOfItsLogin /\ UpdateInv /\ AuditInv
  BY DEF IInv
<1> DEFINE r == [pc |-> "answered", set |-> None, shows |-> None, ends |-> 0]
<1>u. /\ UNCHANGED <<boot, browser, tokens, failures, ended>>
      /\ request' = [request EXCEPT ![t] = r]
  BY DEF Audit, StatementFails, Reply, history
<1>1. /\ r \in Requests /\ r.pc = "answered" /\ r.ends = 0
      /\ SessionsOf(r) \subseteq Sessions /\ PagesOf(r) \subseteq PagesHeld
  <2>1. r # None => r.pc = "answered" /\ r.ends = 0
    OBVIOUS
  <2> QED BY <2>1, EmptyAnswer
<1> HIDE DEF r
<1>2. SessionInv' /\ StampInv' /\ EndsInv' /\ FormOfItsLogin'
  BY <1>u, <1>1, QuietStep
<1>3. /\ request' \in [Tabs -> Requests]
      /\ request'[t] = r /\ \A u \in Tabs \ {t} : request'[u] = request[u]
  BY <1>t, <1>u, <1>1, OneRequest
<1>4. Cardinality(Auditing') = Cardinality(Auditing) - IF t \in Auditing THEN 1 ELSE 0
  <2>1. ~(r # None /\ r.pc = "audit")
    BY <1>1
  <2> QED BY <1>t, <1>u, <1>1, <2>1, AuditingStep
<1>5. ~Pending(t, {"update"})'
  BY <1>1, <1>3 DEF Pending
<1>6. CASE Audit(t)
  <2>1. /\ entries' = entries + 1 /\ t \in Auditing
        /\ UNCHANGED <<password, history>> /\ UNCHANGED <<changes, overtaken>>
    BY <1>6 DEF Audit, Auditing, history
  <2>2. AuditInv'
    BY <1>t, <1>4, <2>1, AuditingFinite DEF AuditInv, TypeOK
  <2>3. TypeOK'
    <3>1. entries' \in 0..MaxChanges
      BY <1>t, <2>1, <2>2, AuditingFinite DEF AuditInv, TypeOK
    <3> QED BY <1>t, <1>u, <1>3, <2>1, <3>1 DEF TypeOK, Requests, browser
  <2>4. UpdateInv'
    BY <1>t, <1>3, <1>5, <2>1 DEF UpdateInv, Pending
  <2> QED BY <1>2, <2>2, <2>3, <2>4 DEF IInv
<1>7. CASE StatementFails(t)
  <2>1. /\ entries' = entries
        /\ \/ overtaken' = overtaken \ {t} /\ UNCHANGED <<password, changes>>
           \/ Pending(t, {"update"}) /\ UpdatePasswordHash(t)
    BY <1>7 DEF StatementFails, Pending
  <2>2. /\ password' \in Passwords \cup {None} /\ overtaken' \subseteq Tabs
        /\ changes' \in 0..MaxChanges /\ changes <= changes'
        /\ UpdateInv'
    <3>1. CASE overtaken' = overtaken \ {t} /\ UNCHANGED <<password, changes>>
      BY <1>t, <1>3, <1>5, <3>1 DEF TypeOK, UpdateInv, Pending
    <3>2. CASE Pending(t, {"update"}) /\ UpdatePasswordHash(t)
      BY <1>t, <1>3, <1>5, <3>2, HashInv DEF TypeOK
    <3> QED BY <2>1, <3>1, <3>2
  <2>3. TypeOK'
    BY <1>t, <1>u, <1>3, <2>1, <2>2 DEF TypeOK, Requests, browser
  <2>4. AuditInv'
    BY <1>t, <1>4, <2>1, <2>2, AuditingFinite DEF AuditInv, TypeOK
  <2> QED BY <1>2, <2>2, <2>3, <2>4 DEF IInv
<1> QED BY <1>6, <1>7

-----------------------------------------------------------------------------
LEMMA InitInv == Init => IInv
<1> USE PanelAssumption
<1> SUFFICES ASSUME Init PROVE IInv
  OBVIOUS
<1>1. \A t \in Tabs : page[t] = None /\ request[t] = None
  BY DEF Init
<1>2. Empty \in Cookie /\ Empty.login = 0 /\ Empty.token = 0 /\ Empty.fails = 0
      /\ Empty.locked = FALSE
  BY DEF Empty, Cookie, Number
<1>3. TypeOK
  BY <1>2 DEF Init, TypeOK, Number
<1>4. Sessions = {Empty} /\ PagesHeld = {}
  BY <1>1 DEF Init, Sessions, PagesHeld, SessionsOf, PagesOf
<1>5. SessionInv /\ StampInv
  BY <1>2, <1>4 DEF Init, SessionInv, StampInv
<1>6. EndsInv /\ FormOfItsLogin /\ UpdateInv
  BY <1>1 DEF EndsInv, FormOfItsLogin, UpdateInv, Pending
<1>7. AuditInv
  <2>1. Auditing = {}
    BY <1>1 DEF Auditing, Pending
  <2> QED BY <2>1, FS_EmptySet DEF Init, AuditInv
<1> QED BY <1>3, <1>5, <1>6, <1>7 DEF IInv

LEMMA NextInv == IInv /\ [Next]_vars => IInv'
<1> SUFFICES ASSUME IInv, [Next]_vars PROVE IInv'
  OBVIOUS
<1>1. CASE FindAdmin \/ InsertAdmin
  BY <1>1, BootInv
<1>2. CASE Restart
  BY <1>2, RestartInv
<1>3. CASE Expire
  BY <1>3, ExpireInv
<1>4. ASSUME NEW t \in Tabs, Browse(t) PROVE IInv'
  BY <1>4, GetInv, SubmitInv, LogoutInv, ReceiveInv, LoseInv DEF Browse
<1>5. ASSUME NEW t \in Tabs, Handle(t) PROVE IInv'
  BY <1>5, LoseInv, LoginSucceedsInv, LoginFailsInv, CheckCurrentInv, UpdateKeepsInv,
     AuditEndsInv DEF Handle
<1>6. CASE UNCHANGED vars
  <2>1. /\ UNCHANGED <<boot, password, cookie, page, request, tokens, entries>>
        /\ UNCHANGED <<changes, failures, ended, overtaken>>
    BY <1>6 DEF vars, browser, history
  <2>2. TypeOK /\ SessionInv /\ StampInv /\ EndsInv /\ FormOfItsLogin /\ UpdateInv /\ AuditInv
    BY DEF IInv
  <2>3. Sessions' = Sessions /\ PagesHeld' = PagesHeld /\ Auditing' = Auditing
    BY <2>1 DEF Sessions, PagesHeld, Auditing, Pending, SessionsOf, PagesOf
  <2>4. TypeOK' /\ SessionInv' /\ StampInv' /\ AuditInv'
    BY <2>1, <2>2, <2>3 DEF TypeOK, SessionInv, StampInv, AuditInv
  <2>5. EndsInv' /\ FormOfItsLogin' /\ UpdateInv'
    BY <2>1, <2>2 DEF EndsInv, FormOfItsLogin, UpdateInv, Pending
  <2> QED BY <2>4, <2>5 DEF IInv
<1> QED BY <1>1, <1>2, <1>3, <1>4, <1>5, <1>6 DEF Next

THEOREM Invariance == Spec => []IInv
<1> QED BY InitInv, NextInv, PTL DEF Spec

(* Every variable keeps its type, the numbers of tokens, entries and failed*)
(* logins their bounds.                                                    *)
THEOREM PanelTyped == Spec => []TypeOK
<1>1. IInv => TypeOK
  BY DEF IInv
<1> QED BY <1>1, Invariance, PTL

(* A change of the password runs under the login its form was rendered     *)
(* under.                                                                  *)
THEOREM FormsMatchLogins == Spec => []FormOfItsLogin
<1>1. IInv => FormOfItsLogin
  BY DEF IInv
<1> QED BY <1>1, Invariance, PTL

(* The audit log holds no entry without an UPDATE that earned it.          *)
THEOREM AuditEarned == Spec => []AuditNeverAhead
<1>1. IInv => AuditNeverAhead
  BY AuditingFinite DEF IInv, AuditInv, AuditNeverAhead, TypeOK
<1> QED BY <1>1, Invariance, PTL

(* A session counts, and is locked for, failures that were reported.       *)
THEOREM LocksEarned == Spec => []LockNeedsFailures
<1>1. ASSUME IInv, NEW c \in {cookie} \cup
                   {request[t].set : t \in {u \in Tabs : Pending(u, {"answered"})}}, c # None
      PROVE  c.fails <= failures /\ (c.locked => failures >= MaxAttempts)
  <2>1. c \in Sessions
    <3>1. CASE c = cookie
      BY <3>1 DEF Sessions
    <3>2. CASE c # cookie
      <4>1. PICK t \in Tabs : Pending(t, {"answered"}) /\ c = request[t].set
        BY <1>1, <3>2
      <4> QED BY <1>1, <4>1, Carried
    <3> QED BY <3>1, <3>2
  <2>2. SessionInv
    BY <1>1 DEF IInv
  <2> QED BY <2>1, <2>2 DEF SessionInv
<1>2. IInv => LockNeedsFailures
  BY <1>1 DEF LockNeedsFailures
<1> QED BY <1>2, Invariance, PTL

(* A login that was ended with no other request open never comes back.     *)
THEOREM LogoutFinal == Spec => []LogoutSticks
<1>1. IInv => LogoutSticks
  BY DEF IInv, SessionInv, LogoutSticks, Sessions
<1> QED BY <1>1, Invariance, PTL

(* A password is replaced by one who knew it, or was overtaken.            *)
THEOREM PasswordChangesKnown == Spec => PasswordKept
<1> DEFINE Kept == password # None /\ password' # password =>
                       \E t \in Tabs :
                          /\ Pending(t, {"update"})
                          /\ request[t].arg.current = password \/ t \in overtaken
<1>1. ASSUME IInv, [Next]_vars PROVE [Kept]_vars
  <2> SUFFICES ASSUME Next, password # None, password' # password
               PROVE  \E t \in Tabs : Pending(t, {"update"})
    BY <1>1 DEF IInv, UpdateInv
  <2>1. ~FindAdmin /\ ~InsertAdmin /\ ~Restart /\ ~Expire
    BY DEF FindAdmin, InsertAdmin, Restart, Expire
  <2>2. PICK t \in Tabs : Browse(t) \/ Handle(t)
    BY <2>1 DEF Next
  <2>3. Update(t) \/ StatementFails(t)
    BY <2>2 DEF Browse, Handle, Get, SubmitLogin, SubmitChange, Logout, Receive, Lose,
                RefuseLogin, LoginSucceeds, LoginFails, CheckCurrent, Audit
  <2> QED BY <2>3 DEF Update, StatementFails, Pending
<1>2. Spec => [][Kept]_vars
  BY <1>1, Invariance, PTL DEF Spec
<1> QED BY <1>2 DEF PasswordKept
=============================================================================
