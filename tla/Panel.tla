------------------------------- MODULE Panel -------------------------------
(***************************************************************************)
(* The admin panel's account and sessions: one browser with several tabs,  *)
(* the handlers of login, logout and password change, and the process that *)
(* makes the first account when it starts.  The session is a signed cookie:*)
(* all of its state travels with each request, and every answer that has   *)
(* saved it replaces it, in whatever order the answers arrive.             *)
(*                                                                         *)
(* bcrypt is modelled as equality.  The forms of users and settings, which *)
(* are behind the same session, are in AdminForms.                         *)
(***************************************************************************)
EXTENDS Naturals, FiniteSets

CONSTANTS
    Tabs,             \* tabs of the browser: requests that may overlap
    Passwords,
    InitialPassword,  \* ADMIN_INITIAL_PASSWORD, None if it is not used
    MaxAttempts,      \* maxLoginAttempts: 5
    MaxTokens,        \* bound: tokens made
    MaxFailures,      \* bound: failed logins
    MaxChanges,       \* bound: UPDATEs of the password
    Faults,           \* subset of {"db", "net", "crash"}
    None

ASSUME PanelAssumption ==
    /\ IsFiniteSet(Tabs)
    /\ InitialPassword \in Passwords \cup {None}
    /\ None \notin Passwords
    /\ MaxAttempts \in Nat \ {0}
    /\ {MaxTokens, MaxFailures, MaxChanges} \subseteq Nat

VARIABLES
    boot,      \* main: "find", "insert" (the default admin), "serving"
    password,  \* the row of admins, None if there is none
    cookie,    \* the browser's
    page,      \* the form each tab shows
    request,   \* the request of each tab, or the answer on its way back
    tokens,    \* tokens made so far
    entries,   \* rows of admin_audit_log
    changes,   \* history: UPDATEs that took effect
    failures,  \* history: logins that Authenticate refused
    ended,     \* history: logins ended by a logout that nothing overlapped
    overtaken  \* history: tabs whose change was checked before another's UPDATE

browser == <<cookie, page>>
history == <<changes, failures, ended, overtaken>>
vars == <<boot, password, browser, request, tokens, entries, history>>

-----------------------------------------------------------------------------
(* Tokens are numbered, and a login by the token it makes; 0 is none.      *)
Number == 0..MaxTokens

Cookie == [login : Number, token : Number, fails : 0..MaxFailures, locked : BOOLEAN]

Empty == [login |-> 0, token |-> 0, fails |-> 0, locked |-> FALSE]

ASSUME NoneAssumption == None # Empty

(* The forms on a page carry one token; the login is that of the session   *)
(* it was rendered under.                                                  *)
Page == [form : {"login", "panel"}, token : Number, login : Number]

Credentials == [password : Passwords \cup {None}]   \* None: lengths out of bounds
Change == [current : Passwords, new : Passwords]

Login == [pc : {"login"}, cookie : Cookie, page : Page, arg : Credentials]
Save == [pc : {"change", "update", "audit"}, cookie : Cookie, page : Page, arg : Change]
Answer == [pc : {"answered"}, set : Cookie \cup {None}, shows : Page \cup {None}, ends : Number]

TypeOK ==
    /\ boot \in {"find", "insert", "serving"}
    /\ password \in Passwords \cup {None}
    /\ cookie \in Cookie
    /\ page \in [Tabs -> Page \cup {None}]
    /\ request \in [Tabs -> Login \cup Save \cup Answer \cup {None}]
    /\ tokens \in Number
    /\ {entries, changes} \subseteq 0..MaxChanges
    /\ failures \in 0..MaxFailures
    /\ ended \subseteq Number
    /\ overtaken \subseteq Tabs

Init ==
    /\ boot = "find"
    /\ password = None
    /\ cookie = Empty
    /\ page = [t \in Tabs |-> None]
    /\ request = [t \in Tabs |-> None]
    /\ tokens = 0
    /\ entries = 0
    /\ changes = 0
    /\ failures = 0
    /\ ended = {}
    /\ overtaken = {}

-----------------------------------------------------------------------------
(* createDefaultAdmin.  Any error of GetByUsername is taken for "no such   *)
(* admin".                                                                 *)
FindAdmin ==
    /\ boot = "find"
    /\ \/ (password # None \/ InitialPassword = None) /\ boot' = "serving"
       \/ (password = None \/ "db" \in Faults) /\ InitialPassword # None /\ boot' = "insert"
    /\ UNCHANGED <<password, browser, request, tokens, entries, history>>

(* Mutant: ON CONFLICT DO UPDATE.                                          *)
UpsertAdmin ==
    /\ boot = "insert"
    /\ boot' = "serving"
    /\ password' = InitialPassword
    /\ UNCHANGED <<browser, request, tokens, entries, history>>

(* username is unique; main goes on whatever the INSERT says.              *)
InsertAdmin ==
    /\ boot = "insert"
    /\ boot' = "serving"
    /\ password' \in {IF password = None THEN InitialPassword ELSE password} \cup
                     IF "db" \in Faults THEN {password} ELSE {}
    /\ UNCHANGED <<browser, request, tokens, entries, history>>

Pending(t, steps) == request[t] # None /\ request[t].pc \in steps

(* The process dies, with every handler that runs, and is started again.   *)
Restart ==
    /\ "crash" \in Faults
    /\ boot = "serving"
    /\ boot' = "find"
    /\ request' = [t \in Tabs |-> IF Pending(t, {"answered"}) THEN request[t] ELSE None]
    /\ overtaken' = {}
    /\ UNCHANGED <<password, browser, tokens, entries, changes, failures, ended>>

-----------------------------------------------------------------------------
(* Sessions and pages.  A GET and a logout touch nothing but their copy of *)
(* the cookie: they are answered as they are sent.                         *)

Reply(t, set, shows, ends) ==
    request' = [request EXCEPT ![t] =
        [pc |-> "answered", set |-> set, shows |-> shows, ends |-> ends]]

Idle(t) == boot = "serving" /\ request[t] = None

Shows(t, form) == page[t] # None /\ page[t].form = form

(* A new token.                                                            *)
Fresh == tokens + 1

(* ensureCSRFToken makes a token, and saves the session, only if there is  *)
(* none.  A page of the panel needs a login.                               *)
Get(t, form) ==
    LET c == IF cookie.token = 0 THEN [cookie EXCEPT !.token = Fresh] ELSE cookie
    IN  /\ Idle(t)
        /\ form = "panel" => cookie.login # 0
        /\ c # cookie => tokens < MaxTokens
        /\ tokens' = IF c = cookie THEN tokens ELSE Fresh
        /\ Reply(t, IF c = cookie THEN None ELSE c,
                    [form |-> form, token |-> c.token, login |-> c.login], 0)
        /\ UNCHANGED <<boot, password, browser, entries, history>>

VerifyCSRF(c, p) == c.token # 0 /\ c.token = p.token

(* authMiddleware, then the handler's verifyCSRF.                          *)
Admitted(c, p) == c.login # 0 /\ VerifyCSRF(c, p)

(* Mutant: the session is cleared, but not saved.                          *)
LogoutUnsaved(t) ==
    /\ Idle(t)
    /\ Shows(t, "panel")
    /\ Admitted(cookie, page[t])
    /\ Reply(t, None, None, cookie.login)
    /\ UNCHANGED <<boot, password, browser, tokens, entries, history>>

(* A logout that is refused changes nothing.                               *)
Logout(t) ==
    /\ Idle(t)
    /\ Shows(t, "panel")
    /\ Admitted(cookie, page[t])
    /\ Reply(t, Empty, None, cookie.login)
    /\ UNCHANGED <<boot, password, browser, tokens, entries, history>>

(* The answer of a POST is a redirect: the form is gone.                   *)
Receive(t) ==
    LET r == request[t]
    IN  /\ Pending(t, {"answered"})
        /\ cookie' = IF r.set = None THEN cookie ELSE r.set
        /\ page' = [page EXCEPT ![t] = r.shows]
        /\ request' = [request EXCEPT ![t] = None]
        /\ ended' = IF r.ends # 0 /\ \A u \in Tabs \ {t} : request[u] = None
                      THEN ended \cup {r.ends} ELSE ended
        /\ UNCHANGED <<boot, password, tokens, entries, changes, failures, overtaken>>

(* The request does not arrive, or its answer does not.                    *)
Lose(t) ==
    /\ "net" \in Faults
    /\ Pending(t, {"login", "change", "answered"})
    /\ request' = [request EXCEPT ![t] = None]
    /\ UNCHANGED <<boot, password, browser, tokens, entries, history>>

(* MaxAge, eight hours after the last answer that saved the session.       *)
Expire ==
    /\ cookie # Empty
    /\ cookie' = Empty
    /\ UNCHANGED <<boot, password, page, request, tokens, entries, history>>

-----------------------------------------------------------------------------
(* handleLoginPOST.                                                        *)

SubmitLogin(t, arg) ==
    /\ Idle(t)
    /\ Shows(t, "login")
    /\ request' = [request EXCEPT ![t] =
          [pc |-> "login", cookie |-> cookie, page |-> page[t], arg |-> arg]]
    /\ UNCHANGED <<boot, password, browser, tokens, entries, history>>

AtLogin(t) == boot = "serving" /\ Pending(t, {"login"})

Wrong(r) == r.arg.password # password

Failed(c) ==
    [c EXCEPT !.fails = @ + 1, !.locked = c.locked \/ c.fails + 1 >= MaxAttempts]

(* Mutant: a form with lengths out of bounds counts as a failure.          *)
RefuseLoginCounted(t) ==
    /\ AtLogin(t)
    /\ VerifyCSRF(request[t].cookie, request[t].page)
    /\ request[t].arg.password = None
    /\ Reply(t, Failed(request[t].cookie), None, 0)
    /\ UNCHANGED <<boot, password, browser, tokens, entries, history>>

(* The token is another's, the session is locked or the lengths are wrong. *)
(* A lock runs out ten minutes after it was set: at any time.              *)
RefuseLogin(t) ==
    /\ AtLogin(t)
    /\ \/ ~VerifyCSRF(request[t].cookie, request[t].page)
       \/ request[t].cookie.locked
       \/ request[t].arg.password = None
    /\ Reply(t, None, None, 0)
    /\ UNCHANGED <<boot, password, browser, tokens, entries, history>>

Authenticating(t) ==
    /\ AtLogin(t)
    /\ VerifyCSRF(request[t].cookie, request[t].page)
    /\ request[t].arg.password # None

(* Mutant: the session keeps the token it had.                             *)
LoggedInSameToken(c) == [Empty EXCEPT !.login = Fresh, !.token = c.token]

(* Nothing of the old session stays.                                       *)
LoggedIn(c) == [Empty EXCEPT !.login = Fresh, !.token = Fresh]

LoginSucceeds(t) ==
    /\ Authenticating(t)
    /\ ~Wrong(request[t])
    /\ tokens < MaxTokens
    /\ tokens' = Fresh
    /\ Reply(t, LoggedIn(request[t].cookie), None, 0)
    /\ UNCHANGED <<boot, password, browser, entries, history>>

(* A failed statement counts as a wrong password.                          *)
LoginFails(t) ==
    /\ Authenticating(t)
    /\ Wrong(request[t]) \/ "db" \in Faults
    /\ failures < MaxFailures
    /\ failures' = failures + 1
    /\ Reply(t, Failed(request[t].cookie), None, 0)
    /\ UNCHANGED <<boot, password, browser, tokens, entries, changes, ended, overtaken>>

-----------------------------------------------------------------------------
(* handleChangePassword.  Refused by a test that reads no table, it changes*)
(* nothing: the browser sends only forms that pass those tests.            *)

SubmitChange(t, arg) ==
    /\ Idle(t)
    /\ Shows(t, "panel")
    /\ Admitted(cookie, page[t])
    /\ arg.new # arg.current
    /\ request' = [request EXCEPT ![t] =
          [pc |-> "change", cookie |-> cookie, page |-> page[t], arg |-> arg]]
    /\ UNCHANGED <<boot, password, browser, tokens, entries, history>>

Goto(t, pc) == request' = [request EXCEPT ![t].pc = pc]

(* Mutant: the current password is not compared.                           *)
CheckNothing(t) ==
    /\ boot = "serving"
    /\ Pending(t, {"change"})
    /\ Goto(t, "update")
    /\ UNCHANGED <<boot, password, browser, tokens, entries, history>>

(* GetByID and the comparison.                                             *)
CheckCurrent(t) ==
    /\ boot = "serving"
    /\ Pending(t, {"change"})
    /\ IF password = request[t].arg.current
         THEN Goto(t, "update") ELSE Reply(t, None, None, 0)
    /\ UNCHANGED <<boot, password, browser, tokens, entries, history>>

(* UpdatePasswordHash, whose UPDATE looks for the row alone.               *)
UpdatePasswordHash(t) ==
    /\ changes < MaxChanges
    /\ password' = request[t].arg.new
    /\ changes' = changes + 1
    /\ overtaken' = (overtaken \cup {u \in Tabs : Pending(u, {"update"})}) \ {t}

Update(t) ==
    /\ Pending(t, {"update"})
    /\ UpdatePasswordHash(t)
    /\ Goto(t, "audit")
    /\ UNCHANGED <<boot, browser, tokens, entries, failures, ended>>

Audit(t) ==
    /\ Pending(t, {"audit"})
    /\ entries' = entries + 1
    /\ Reply(t, None, None, 0)
    /\ UNCHANGED <<boot, password, browser, tokens, history>>

(* Mutant: an UPDATE that failed is audited too.                           *)
FailsAudited(t) ==
    /\ "db" \in Faults
    /\ Pending(t, {"update", "audit"})
    /\ entries' = entries + 1
    /\ Reply(t, None, None, 0)
    /\ UNCHANGED <<boot, password, browser, tokens, history>>

(* A statement fails, or its reply is lost.  The error of the audit's      *)
(* INSERT is dropped, the others end the handler.                          *)
StatementFails(t) ==
    /\ "db" \in Faults
    /\ Pending(t, {"change", "update", "audit"})
    /\ \/ overtaken' = overtaken \ {t} /\ UNCHANGED <<password, changes>>
       \/ request[t].pc = "update" /\ UpdatePasswordHash(t)
    /\ Reply(t, None, None, 0)
    /\ UNCHANGED <<boot, browser, tokens, entries, failures, ended>>

-----------------------------------------------------------------------------
Browse(t) ==
    \/ \E form \in {"login", "panel"} : Get(t, form)
    \/ \E arg \in Credentials : SubmitLogin(t, arg)
    \/ \E arg \in Change : SubmitChange(t, arg)
    \/ Logout(t)
    \/ Receive(t)
    \/ Lose(t)

Handle(t) ==
    \/ RefuseLogin(t)
    \/ LoginSucceeds(t)
    \/ LoginFails(t)
    \/ CheckCurrent(t)
    \/ Update(t)
    \/ Audit(t)
    \/ StatementFails(t)

Next ==
    \/ FindAdmin
    \/ InsertAdmin
    \/ Restart
    \/ Expire
    \/ \E t \in Tabs : Browse(t) \/ Handle(t)

Spec == Init /\ [][Next]_vars

-----------------------------------------------------------------------------
(* What must hold.                                                         *)

(* A change is let through only from a form rendered under the login it    *)
(* runs under: a page left from an earlier login is refused, in whatever   *)
(* order the tabs' answers replace the cookie.                             *)
FormOfItsLogin ==
    \A t \in Tabs :
        Pending(t, {"change", "update", "audit"}) =>
            request[t].page.login = request[t].cookie.login

(* Once set, the password is changed only by a request whose sender typed  *)
(* the one it replaces, or one that was set while the request ran.  No     *)
(* restart brings the initial password back.                               *)
PasswordKept ==
    [][password # None /\ password' # password =>
          \E t \in Tabs :
             /\ Pending(t, {"update"})
             /\ request[t].arg.current = password \/ t \in overtaken]_vars

(* The audit log speaks of changes that were made, each at most once.      *)
AuditNeverAhead == entries <= changes

(* However answers overtake each other, a session counts no failure that   *)
(* Authenticate has not reported: a lock has had its MaxAttempts failures. *)
LockNeedsFailures ==
    \A c \in {cookie} \cup {request[t].set : t \in {u \in Tabs : Pending(u, {"answered"})}} :
        c # None => /\ c.fails <= failures
                    /\ c.locked => failures >= MaxAttempts

(* An answer that arrives late may bring an old session back.  A logout    *)
(* during which no other request was open is final.                        *)
LogoutSticks == cookie.login \notin ended
=============================================================================
