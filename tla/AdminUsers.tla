----------------------------- MODULE AdminUsers -----------------------------
(***************************************************************************)
(* The forms of the admin panel that change a user, and the bot's choice   *)
(* of mode, against the row of table users they share.  Blocking and the   *)
(* choice of a mode are statements of one column each; permissions and     *)
(* limits are saved by reading the whole row and writing it back, and      *)
(* every request runs in a goroutine of its own.                           *)
(*                                                                         *)
(* The sessions are in Panel (a refused request changes nothing), the      *)
(* audit log and the settings in AdminForms.  Left out: the user's name and*)
(* times of access, user ids that the page does not list.                  *)
(***************************************************************************)
EXTENDS Naturals

CONSTANTS
    Users,
    Sources,     \* youtube, instagram, tiktok
    Requests,    \* POSTs of the three forms
    Values,      \* what the number fields may be filled with
    MaxLimit,    \* the handler's bound: 10000
    MaxModes,    \* bound: modes chosen through the bot
    Faults,      \* subset of {"db"}
    None         \* NULL, an empty field, "Default"

ASSUME ConstantsAssumption ==
    /\ Values \subseteq Nat
    /\ MaxLimit \in Nat /\ MaxModes \in Nat
    /\ None \notin Nat \cup {"allow", "deny"}
    /\ Faults \subseteq {"db"}

VARIABLES
    rows,      \* table users
    form,      \* the form of each request
    pc,        \* where its handler is, or how it was answered
    user,      \* the models.User its handler has read
    modes,     \* modes chosen so far
    said,      \* history: the block and the mode last set
    overlapped \* history: a row was written while the handler held a copy

vars == <<rows, form, pc, user, modes, said, overlapped>>

Permission == {"allow", "deny", None}
Limit == 1..MaxLimit \cup {None}
Row == [can : [Sources -> Permission], daily : Limit, monthly : Limit,
        blocked : BOOLEAN, auto : BOOLEAN \cup {None}]

BlockForm == [kind : {"block"}, user : Users, blocked : BOOLEAN]
PermissionForm == [kind : {"permissions"}, user : Users, can : [Sources -> Permission]]
LimitForm == [kind : {"limits"}, user : Users, daily : Values \cup {None},
              monthly : Values \cup {None}]
Form == BlockForm \cup PermissionForm \cup LimitForm

Answers == {"saved", "failed", "invalid"}

TypeOK ==
    /\ rows \in [Users -> Row]
    /\ form \in [Requests -> Form \cup {None}]
    /\ pc \in [Requests -> {"idle", "block", "read", "write"} \cup Answers]
    /\ user \in [Requests -> Row \cup {None}]
    /\ modes \in 0..MaxModes
    /\ said \in [Users -> [blocked : BOOLEAN, auto : BOOLEAN \cup {None}]]
    /\ overlapped \subseteq Requests

Init ==
    /\ rows = [u \in Users |-> [can |-> [s \in Sources |-> None], daily |-> None,
                                monthly |-> None, blocked |-> FALSE, auto |-> None]]
    /\ form = [r \in Requests |-> None]
    /\ pc = [r \in Requests |-> "idle"]
    /\ user = [r \in Requests |-> None]
    /\ modes = 0
    /\ said = [u \in Users |-> [blocked |-> FALSE, auto |-> None]]
    /\ overlapped = {}

-----------------------------------------------------------------------------
Goto(r, label) == pc' = [pc EXCEPT ![r] = label]

(* Mutant: an off-by-one at the upper bound.                               *)
InRangeLoose(v) == v \in Limit \cup {MaxLimit + 1}

(* parseLimit of handleUpdateLimits.                                       *)
InRange(v) == v \in Limit

Submit(r, f) ==
    /\ pc[r] = "idle"
    /\ form' = [form EXCEPT ![r] = f]
    /\ \/ f.kind = "block" /\ Goto(r, "block")
       \/ f.kind = "permissions" /\ Goto(r, "read")
       \/ f.kind = "limits" /\ InRange(f.daily) /\ InRange(f.monthly) /\ Goto(r, "read")
       \/ f.kind = "limits" /\ ~(InRange(f.daily) /\ InRange(f.monthly)) /\ Goto(r, "invalid")
    /\ UNCHANGED <<rows, user, modes, said, overlapped>>

(* The row of u has been written while these held a copy of it.            *)
Holders(u) == {r \in Requests : pc[r] = "write" /\ form[r].user = u}

(* SetBlocked: one column.                                                 *)
SetBlocked(r) ==
    LET u == form[r].user
    IN  /\ pc[r] = "block"
        /\ rows' = [rows EXCEPT ![u].blocked = form[r].blocked]
        /\ said' = [said EXCEPT ![u].blocked = form[r].blocked]
        /\ pc' \in {[pc EXCEPT ![r] = "saved"]} \cup
                   IF "db" \in Faults THEN {[pc EXCEPT ![r] = "failed"]} ELSE {}
        /\ UNCHANGED <<form, user, modes, overlapped>>

(* GetByID.                                                                *)
Read(r) ==
    /\ pc[r] = "read"
    /\ user' = [user EXCEPT ![r] = rows[form[r].user]]
    /\ Goto(r, "write")
    /\ UNCHANGED <<rows, form, modes, said, overlapped>>

(* A field left empty, and "Default", keep what was read.                  *)
Chosen(new, old) == IF new = None THEN old ELSE new

(* Mutant: the fields the form does not fill are cleared.                  *)
EditedCleared(f, row) ==
    IF f.kind = "permissions"
    THEN [can |-> f.can, daily |-> None, monthly |-> None]
    ELSE [can |-> row.can, daily |-> f.daily, monthly |-> f.monthly]

(* UpdateUserPermissions and UpdateUserLimits on the row read.             *)
Edited(f, row) ==
    IF f.kind = "permissions"
    THEN [can |-> [s \in Sources |-> Chosen(f.can[s], row.can[s])],
          daily |-> row.daily, monthly |-> row.monthly]
    ELSE [can |-> row.can, daily |-> Chosen(f.daily, row.daily),
          monthly |-> Chosen(f.monthly, row.monthly)]

(* Mutant: is_blocked and auto_best_download are written with the rest.    *)
UpdateAll(row, copy, c) == [copy EXCEPT !.can = c.can, !.daily = c.daily, !.monthly = c.monthly]

(* The UPDATE of the admin's repository names every column except          *)
(* is_blocked and auto_best_download.                                      *)
Update(row, copy, c) == [row EXCEPT !.can = c.can, !.daily = c.daily, !.monthly = c.monthly]

Write(r) ==
    LET u == form[r].user
    IN  /\ pc[r] = "write"
        /\ rows' = [rows EXCEPT ![u] = Update(rows[u], user[r], Edited(form[r], user[r]))]
        /\ overlapped' = overlapped \cup (Holders(u) \ {r})
        /\ pc' \in {[pc EXCEPT ![r] = "saved"]} \cup
                   IF "db" \in Faults THEN {[pc EXCEPT ![r] = "failed"]} ELSE {}
        /\ UNCHANGED <<form, user, modes, said>>

(* A statement fails and has changed nothing.                              *)
StatementFails(r) ==
    /\ "db" \in Faults
    /\ pc[r] \in {"block", "read", "write"}
    /\ Goto(r, "failed")
    /\ UNCHANGED <<rows, form, user, modes, said, overlapped>>

(* The bot's UpdateAutoBestDownload: one column.                           *)
SetMode(u, auto) ==
    /\ modes < MaxModes
    /\ modes' = modes + 1
    /\ rows' = [rows EXCEPT ![u].auto = auto]
    /\ said' = [said EXCEPT ![u].auto = auto]
    /\ UNCHANGED <<form, pc, user, overlapped>>

Next ==
    \/ \E r \in Requests :
          \/ \E f \in Form : Submit(r, f)
          \/ SetBlocked(r)
          \/ Read(r)
          \/ Write(r)
          \/ StatementFails(r)
    \/ \E u \in Users, auto \in BOOLEAN : SetMode(u, auto)

Spec == Init /\ [][Next]_vars

-----------------------------------------------------------------------------
(* What holds.                                                             *)

(* A block and a mode chosen while a form of permissions or limits is      *)
(* being saved survive it: the row says of them what was last said, though *)
(* the form's handler writes back a row read before.                       *)
ColumnsOwned ==
    \A u \in Users : /\ rows[u].blocked = said[u].blocked
                     /\ rows[u].auto = said[u].auto

(* Saving one form changes what the other form is about only when the two  *)
(* overlap: a lost update needs another write between GetByID and Update.  *)
FormsApart ==
    [][\A r \in Requests :
          pc[r] = "write" /\ pc'[r] = "saved" /\ r \notin overlapped =>
             LET u == form[r].user
             IN  IF form[r].kind = "permissions"
                 THEN /\ rows'[u].daily = rows[u].daily
                      /\ rows'[u].monthly = rows[u].monthly
                 ELSE rows'[u].can = rows[u].can]_vars

=============================================================================
