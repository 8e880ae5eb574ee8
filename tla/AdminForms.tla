----------------------------- MODULE AdminForms -----------------------------
(***************************************************************************)
(* All forms of the admin panel that save something about users or the     *)
(* service: AdminUsers, the settings form, and the audit entry that each   *)
(* handler writes once its UPDATE has succeeded.  A request of AdminUsers  *)
(* that is "saved" has done its UPDATE and still owes its entry.           *)
(*                                                                         *)
(* The five settings are one limit and one platform's switch.              *)
(***************************************************************************)
EXTENDS AdminUsers

CONSTANTS
    Edits,         \* POSTs of the settings form
    Settings,      \* what it may be filled with
    FirstSettings  \* what the first migration inserts

ASSUME FormsAssumption ==
    /\ Settings \subseteq [daily : Nat, youtube : BOOLEAN]
    /\ FirstSettings \in Settings
    /\ FirstSettings.daily \in 1..MaxLimit
    /\ None \notin Users
    /\ Requests \cap Edits = {}
    /\ None \notin Settings

VARIABLES
    settings,  \* the row of settings
    edit,      \* the form of each edit
    at,        \* where its handler is, or how it was answered
    copy,      \* the models.Settings its handler has read and not written
    due,       \* handlers that have done their UPDATE and not their audit
    told,      \* what the log says of each subject: its last entry, or nothing
    muddled    \* history: subjects saved while an entry was due, or whose was lost

formsVars == <<vars, settings, edit, at, copy, due, told, muddled>>

Accepted == {f \in Settings : f.daily \in 1..MaxLimit}

Handlers == Requests \cup Edits

(* Whom the log speaks of: a user, or the service as a whole.              *)
Service == None
Subjects == Users \cup {Service}

FormsTypeOK ==
    /\ settings \in Accepted
    /\ edit \in [Edits -> Settings \cup {None}]
    /\ at \in [Edits -> {"idle", "write"} \cup Answers]
    /\ copy \in [Edits -> Settings \cup {None}]
    /\ due \subseteq Handlers
    /\ \A u \in Users : told[u] \in BOOLEAN
    /\ told[Service] \in Settings
    /\ muddled \subseteq Subjects

FormsInit ==
    /\ Init
    /\ settings = FirstSettings
    /\ edit = [e \in Edits |-> None]
    /\ at = [e \in Edits |-> "idle"]
    /\ copy = [e \in Edits |-> None]
    /\ due = {}
    /\ told = [s \in Subjects |-> IF s = Service THEN FirstSettings ELSE FALSE]
    /\ muddled = {}

-----------------------------------------------------------------------------
(* What a handler's entry is about.  The entries on permissions and limits *)
(* hold the form, not the row: no claim is made about them.                *)
About(h) ==
    IF h \in Edits THEN {Service}
    ELSE IF form[h].kind = "block" THEN {form[h].user} ELSE {}

Owed(s) == {h \in due : s \in About(h)}

(* The step does the UPDATE of r, and its reply arrives; or perhaps does a *)
(* block whose reply is lost.                                              *)
Saved(r) == pc[r] # "saved" /\ pc'[r] = "saved"
LostReply(r) == pc[r] = "block" /\ pc'[r] = "failed"

UserStep ==
    /\ Next
    /\ due' = due \cup {r \in Requests : Saved(r)}
    /\ muddled' = muddled
          \cup {u \in Users : \E r \in Requests :
                   /\ LostReply(r) \/ (Saved(r) /\ Owed(u) # {})
                   /\ u \in About(r)}
    /\ UNCHANGED <<settings, edit, at, copy, told>>

-----------------------------------------------------------------------------
(* handleSettingsUpdate.                                                   *)

InBounds(f) == f.daily \in 1..MaxLimit

(* The request arrives, and the row is read before the form's bounds are   *)
(* checked.                                                                *)
GetSettings(e, f) ==
    /\ at[e] = "idle"
    /\ edit' = [edit EXCEPT ![e] = f]
    /\ \/ InBounds(f) /\ at' = [at EXCEPT ![e] = "write"]
                      /\ copy' = [copy EXCEPT ![e] = settings]
       \/ ~InBounds(f) /\ at' = [at EXCEPT ![e] = "invalid"] /\ UNCHANGED copy
    /\ UNCHANGED <<vars, settings, due, told, muddled>>

GetFails(e) ==
    /\ "db" \in Faults
    /\ at[e] = "idle"
    /\ at' = [at EXCEPT ![e] = "failed"]
    /\ UNCHANGED <<vars, settings, edit, copy, due, told, muddled>>

(* Mutant: a box that is not ticked, which no browser sends, is left alone.*)
FilledTicked(old, f) == [f EXCEPT !.youtube = f.youtube \/ old.youtube]

(* All fields of the copy are set from the form.                           *)
Filled(old, f) == f

UpdateSettings(e) ==
    /\ at[e] = "write"
    /\ settings' = Filled(copy[e], edit[e])
    /\ at' = [at EXCEPT ![e] = "saved"]
    /\ copy' = [copy EXCEPT ![e] = None]
    /\ due' = due \cup {e}
    /\ muddled' = IF Owed(Service) = {} THEN muddled ELSE muddled \cup {Service}
    /\ UNCHANGED <<vars, edit, told>>

(* Mutant: the error of the UPDATE is not looked at.                       *)
SettingsFailUnseen(e) ==
    /\ "db" \in Faults
    /\ at[e] = "write"
    /\ at' = [at EXCEPT ![e] = "saved"]
    /\ due' = due \cup {e}
    /\ UNCHANGED <<vars, settings, edit, copy, told, muddled>>

(* The UPDATE fails, or its reply is lost.                                 *)
SettingsFail(e) ==
    /\ "db" \in Faults
    /\ at[e] = "write"
    /\ at' = [at EXCEPT ![e] = "failed"]
    /\ \/ UNCHANGED <<settings, muddled>>
       \/ /\ settings' = Filled(copy[e], edit[e])
          /\ muddled' = muddled \cup {Service}
    /\ copy' = [copy EXCEPT ![e] = None]
    /\ UNCHANGED <<vars, edit, due, told>>

-----------------------------------------------------------------------------
(* AdminServer.audit.                                                      *)
Detail(h) == IF h \in Edits THEN edit[h] ELSE form[h].blocked

Audit(h) ==
    /\ h \in due
    /\ due' = due \ {h}
    /\ told' = [s \in Subjects |-> IF s \in About(h) THEN Detail(h) ELSE told[s]]
    /\ UNCHANGED <<vars, settings, edit, at, copy, muddled>>

(* The error of the INSERT is dropped.                                     *)
AuditLost(h) ==
    /\ "db" \in Faults
    /\ h \in due
    /\ due' = due \ {h}
    /\ muddled' = muddled \cup About(h)
    /\ UNCHANGED <<vars, settings, edit, at, copy, told>>

FormsNext ==
    \/ UserStep
    \/ \E e \in Edits :
          \/ \E f \in Settings : GetSettings(e, f)
          \/ GetFails(e)
          \/ UpdateSettings(e)
          \/ SettingsFail(e)
    \/ \E h \in Handlers : Audit(h) \/ AuditLost(h)

FormsSpec == FormsInit /\ [][FormsNext]_formsVars

-----------------------------------------------------------------------------
(* What holds.                                                             *)

(* However many administrators save at once, the settings are those of one *)
(* form, never a mixture of two, and that form was within the bounds, which*)
(* are checked after the row has been read.                                *)
SettingsOfOneForm ==
    /\ settings \in Accepted
    /\ \/ settings = FirstSettings
       \/ \E e \in Edits : at[e] \in {"saved", "failed"} /\ settings = edit[e]

(* The log's last word on the settings, and on the block of a user, is     *)
(* what the row holds once no entry is due.  Only a save while an entry    *)
(* was due, a lost reply or a lost entry can part them.                    *)
AuditTells ==
    \A s \in Subjects :
        s \notin muddled /\ Owed(s) = {} =>
            told[s] = IF s = Service THEN settings ELSE rows[s].blocked
=============================================================================
