-------------------------- MODULE AdminForms_proofs --------------------------
(***************************************************************************)
(* Proofs about AdminUsers, and about AdminForms, which implements it, for *)
(* every value of their constants.                                         *)
(***************************************************************************)
EXTENDS AdminForms, TLAPS

(* What a handler works on once it has parsed its form.                    *)
FormInv ==
    \A r \in Requests :
       /\ pc[r] = "block" => form[r] \in BlockForm
       /\ pc[r] \in {"read", "write"} =>
            /\ form[r] \in PermissionForm \cup LimitForm
            /\ form[r].kind = "limits" => InRange(form[r].daily) /\ InRange(form[r].monthly)
       /\ pc[r] = "write" => user[r] \in Row

(* A copy nobody has written behind is still what the row says.            *)
CopyInv ==
    \A r \in Requests :
       pc[r] = "write" /\ r \notin overlapped =>
          LET u == form[r].user
          IN  /\ user[r].can = rows[u].can
              /\ user[r].daily = rows[u].daily
              /\ user[r].monthly = rows[u].monthly

Word == [blocked : BOOLEAN, auto : BOOLEAN \cup {None}]

Inv == TypeOK /\ FormInv /\ CopyInv /\ ColumnsOwned

LEMMA ConstantFacts == MaxModes \in Nat
BY ConstantsAssumption

LEMMA InitInv == Init => Inv
<1> SUFFICES ASSUME Init PROVE Inv
  OBVIOUS
<1> DEFINE none == [s \in Sources |-> None]
<1>1. none \in [Sources -> Permission]
  BY DEF Permission
<1> HIDE DEF none
<1> DEFINE row == [can |-> none, daily |-> None, monthly |-> None,
                   blocked |-> FALSE, auto |-> None]
           word == [blocked |-> FALSE, auto |-> None]
<1>2. row \in Row /\ row.blocked = word.blocked /\ row.auto = word.auto
  BY <1>1 DEF Row, Limit
<1>3. word \in Word
  BY <1>1 DEF Word
<1>4. rows = [u \in Users |-> row] /\ said = [u \in Users |-> word]
  BY DEF Init, none
<1> HIDE DEF row, word
<1>5. TypeOK
  <2>1. modes \in 0..MaxModes
    BY ConstantFacts DEF Init
  <2>2. rows \in [Users -> Row] /\ said \in [Users -> Word]
    BY <1>2, <1>3, <1>4
  <2>3. /\ form \in [Requests -> Form \cup {None}]
        /\ pc \in [Requests -> {"idle", "block", "read", "write"} \cup Answers]
        /\ user \in [Requests -> Row \cup {None}]
        /\ overlapped \subseteq Requests
    BY DEF Init
  <2> QED BY <2>1, <2>2, <2>3 DEF TypeOK, Word
<1>6. FormInv /\ CopyInv
  BY DEF Init, FormInv, CopyInv
<1>7. ColumnsOwned
  BY <1>2, <1>4 DEF ColumnsOwned
<1> QED BY <1>5, <1>6, <1>7 DEF Inv

(* Saving a form keeps every field of the row in its range, and the fields *)
(* the form is not about as they were in the copy.                         *)
LEMMA EditedType ==
    ASSUME NEW f \in PermissionForm \cup LimitForm, NEW row \in Row,
           f.kind = "limits" => InRange(f.daily) /\ InRange(f.monthly)
    PROVE  /\ Edited(f, row) \in [can : [Sources -> Permission], daily : Limit, monthly : Limit]
           /\ f.kind = "permissions" => /\ Edited(f, row).daily = row.daily
                                        /\ Edited(f, row).monthly = row.monthly
           /\ f.kind # "permissions" => Edited(f, row).can = row.can
<1>1. CASE f \in PermissionForm
  <2>1. f.kind = "permissions" /\ f.can \in [Sources -> Permission]
    BY <1>1 DEF PermissionForm
  <2>2. row.can \in [Sources -> Permission] /\ row.daily \in Limit /\ row.monthly \in Limit
    BY DEF Row
  <2>3. \A s \in Sources : Chosen(f.can[s], row.can[s]) \in Permission
    BY <2>1, <2>2 DEF Chosen
  <2> QED BY <2>1, <2>2, <2>3 DEF Edited
<1>2. CASE f \in LimitForm
  <2>1. f.kind = "limits" /\ f.daily \in Limit /\ f.monthly \in Limit
    BY <1>2 DEF LimitForm, InRange
  <2>2. row.can \in [Sources -> Permission] /\ row.daily \in Limit /\ row.monthly \in Limit
    BY DEF Row
  <2> QED BY <2>1, <2>2 DEF Edited, Chosen
<1> QED BY <1>1, <1>2

LEMMA NextInv == Inv /\ [Next]_vars => Inv'
<1> SUFFICES ASSUME Inv, [Next]_vars PROVE Inv'
  OBVIOUS
<1> USE DEF Inv
<1>t. TypeOK /\ FormInv /\ CopyInv /\ ColumnsOwned
  OBVIOUS
<1>u. \A r \in Requests : form[r] # None /\ pc[r] \in {"block", "read", "write"} =>
                             form[r].user \in Users
  BY DEF FormInv, BlockForm, PermissionForm, LimitForm
<1>1. ASSUME NEW r \in Requests, NEW f \in Form, Submit(r, f)
      PROVE  Inv'
  <2>1. TypeOK'
    <3>1. form' \in [Requests -> Form \cup {None}]
      BY <1>1 DEF TypeOK, Submit
    <3>2. pc' \in [Requests -> {"idle", "block", "read", "write"} \cup Answers]
      BY <1>1 DEF TypeOK, Submit, Goto, Answers
    <3>3. UNCHANGED <<rows, user, modes, said, overlapped>>
      BY <1>1 DEF Submit
    <3> QED BY <3>1, <3>2, <3>3 DEF TypeOK
  <2>2. FormInv'
    <3> SUFFICES ASSUME NEW q \in Requests
                 PROVE  /\ pc'[q] = "block" => form'[q] \in BlockForm
                        /\ pc'[q] \in {"read", "write"} =>
                             /\ form'[q] \in PermissionForm \cup LimitForm
                             /\ form'[q].kind = "limits" =>
                                  InRange(form'[q].daily) /\ InRange(form'[q].monthly)
                        /\ pc'[q] = "write" => user'[q] \in Row
      BY DEF FormInv, InRange
    <3>1. CASE q # r
      BY <1>1, <3>1 DEF FormInv, TypeOK, Submit, Goto
    <3>2. CASE q = r
      <4>1. form'[r] = f /\ pc'[r] # "write"
        BY <1>1 DEF TypeOK, Submit, Goto
      <4>2. pc'[r] = "block" => f \in BlockForm
        BY <1>1 DEF TypeOK, Submit, Goto, Form, BlockForm, PermissionForm, LimitForm
      <4>3. pc'[r] = "read" => /\ f \in PermissionForm \cup LimitForm
                               /\ f.kind = "limits" => InRange(f.daily) /\ InRange(f.monthly)
        BY <1>1 DEF TypeOK, Submit, Goto, Form, BlockForm, PermissionForm, LimitForm
      <4> QED BY <3>2, <4>1, <4>2, <4>3
    <3> QED BY <3>1, <3>2
  <2>3. CopyInv'
    BY <1>1 DEF CopyInv, TypeOK, Submit, Goto
  <2>4. ColumnsOwned'
    BY <1>1 DEF ColumnsOwned, Submit
  <2> QED BY <2>1, <2>2, <2>3, <2>4
<1>2. ASSUME NEW r \in Requests, SetBlocked(r)
      PROVE  Inv'
  <2> DEFINE u == form[r].user
             b == form[r].blocked
  <2>1. u \in Users /\ b \in BOOLEAN
    BY <1>2 DEF SetBlocked, FormInv, BlockForm
  <2>2. /\ rows' = [rows EXCEPT ![u].blocked = b]
        /\ said' = [said EXCEPT ![u].blocked = b]
        /\ UNCHANGED <<form, user, modes, overlapped>>
        /\ \E a \in {"saved", "failed"} : pc' = [pc EXCEPT ![r] = a]
    BY <1>2 DEF SetBlocked
  <2> HIDE DEF u, b
  <2>a. rows[u] \in Row /\ said[u] \in Word
    BY <2>1 DEF TypeOK, Word
  <2>3. [rows[u] EXCEPT !.blocked = b] \in Row
    BY <2>1, <2>a DEF Row
  <2>4. [said[u] EXCEPT !.blocked = b] \in Word
    BY <2>1, <2>a DEF Word
  <2>5. rows' \in [Users -> Row] /\ \A v \in Users : v # u => rows'[v] = rows[v]
    BY <2>2, <2>3 DEF TypeOK
  <2>6. TypeOK'
    <3>1. said' \in [Users -> Word]
      BY <2>2, <2>4 DEF TypeOK, Word
    <3>2. pc' \in [Requests -> {"idle", "block", "read", "write"} \cup Answers]
      BY <2>2 DEF TypeOK, Answers
    <3>3. UNCHANGED <<form, user, modes, overlapped>>
      BY <2>2
    <3> QED BY <2>5, <3>1, <3>2, <3>3 DEF TypeOK, Word
  <2>7. /\ rows'[u] = [rows[u] EXCEPT !.blocked = b]
        /\ said'[u] = [said[u] EXCEPT !.blocked = b]
        /\ \A v \in Users : v # u => said'[v] = said[v]
    BY <2>1, <2>2 DEF TypeOK
  <2>8. /\ rows'[u].blocked = b /\ said'[u].blocked = b
        /\ rows'[u].auto = rows[u].auto /\ said'[u].auto = said[u].auto
        /\ rows'[u].can = rows[u].can /\ rows'[u].daily = rows[u].daily
        /\ rows'[u].monthly = rows[u].monthly
    BY <2>1, <2>7 DEF TypeOK, Row
  <2>9. ColumnsOwned'
    <3> SUFFICES ASSUME NEW v \in Users
                 PROVE  /\ rows'[v].blocked = said'[v].blocked
                        /\ rows'[v].auto = said'[v].auto
      BY DEF ColumnsOwned
    <3>1. rows[v].blocked = said[v].blocked /\ rows[v].auto = said[v].auto
      BY DEF Inv, ColumnsOwned
    <3>2. CASE v = u
      BY <2>8, <3>1, <3>2
    <3>3. CASE v # u
      BY <2>5, <2>7, <3>1, <3>3
    <3> QED BY <3>2, <3>3
  <2>10. \A q \in Requests : pc'[q] \in {"block", "read", "write"} => pc'[q] = pc[q]
    BY <2>2 DEF TypeOK
  <2>11. FormInv'
    BY <2>2, <2>10 DEF FormInv, InRange
  <2>12. CopyInv'
    <3> SUFFICES ASSUME NEW q \in Requests, pc[q] = "write", q \notin overlapped
                 PROVE  LET v == form[q].user
                        IN  /\ user[q].can = rows'[v].can
                            /\ user[q].daily = rows'[v].daily
                            /\ user[q].monthly = rows'[v].monthly
      BY <2>2, <2>10 DEF CopyInv
    <3>1. form[q].user \in Users
      BY DEF FormInv, PermissionForm, LimitForm
    <3> QED BY <3>1, <2>5, <2>8 DEF CopyInv
  <2> QED BY <2>6, <2>9, <2>11, <2>12
<1>3. ASSUME NEW r \in Requests, Read(r)
      PROVE  Inv'
  <2>1. /\ pc[r] = "read" /\ pc' = [pc EXCEPT ![r] = "write"]
        /\ user' = [user EXCEPT ![r] = rows[form[r].user]]
        /\ UNCHANGED <<rows, form, modes, said, overlapped>>
    BY <1>3 DEF Read, Goto
  <2>2. form[r].user \in Users
    BY <2>1 DEF FormInv, PermissionForm, LimitForm
  <2>3. rows[form[r].user] \in Row
    BY <2>2 DEF TypeOK
  <2>4. user' \in [Requests -> Row \cup {None}] /\ user'[r] = rows[form[r].user]
    BY <2>1, <2>3 DEF TypeOK
  <2>5. pc' \in [Requests -> {"idle", "block", "read", "write"} \cup Answers]
    BY <2>1 DEF TypeOK
  <2>6. TypeOK'
    BY <2>1, <2>4, <2>5 DEF TypeOK
  <2>7. \A q \in Requests : q # r => pc'[q] = pc[q] /\ user'[q] = user[q]
    BY <2>1 DEF TypeOK
  <2>8. pc'[r] = "write"
    BY <2>1 DEF TypeOK
  <2>9. FormInv'
    BY <2>1, <2>3, <2>4, <2>7, <2>8 DEF FormInv, InRange
  <2>10. CopyInv'
    BY <2>1, <2>4, <2>7, <2>8 DEF CopyInv
  <2>11. ColumnsOwned'
    BY <2>1 DEF ColumnsOwned
  <2> QED BY <2>6, <2>9, <2>10, <2>11
<1>4. ASSUME NEW r \in Requests, Write(r)
      PROVE  Inv'
  <2> DEFINE u == form[r].user
             c == Edited(form[r], user[r])
             row == Update(rows[u], user[r], c)
  <2>1. /\ pc[r] = "write"
        /\ rows' = [rows EXCEPT ![u] = row]
        /\ overlapped' = overlapped \cup (Holders(u) \ {r})
        /\ \E a \in {"saved", "failed"} : pc' = [pc EXCEPT ![r] = a]
        /\ UNCHANGED <<form, user, modes, said>>
    BY <1>4 DEF Write
  <2>2. /\ form[r] \in PermissionForm \cup LimitForm /\ user[r] \in Row
        /\ form[r].kind = "limits" => InRange(form[r].daily) /\ InRange(form[r].monthly)
    BY <2>1 DEF FormInv
  <2>3. u \in Users
    BY <2>2 DEF PermissionForm, LimitForm
  <2>4. c \in [can : [Sources -> Permission], daily : Limit, monthly : Limit]
    BY <2>2, EditedType
  <2> HIDE DEF u, c
  <2>6. rows[u] \in Row /\ said[u] \in Word
    BY <2>3 DEF TypeOK, Word
  <2>7. row \in Row /\ row.blocked = rows[u].blocked /\ row.auto = rows[u].auto
    BY <2>4, <2>6 DEF Update, Row
  <2> HIDE DEF row
  <2>8. /\ rows' \in [Users -> Row] /\ rows'[u] = row
        /\ \A v \in Users : v # u => rows'[v] = rows[v]
    BY <2>1, <2>3, <2>7 DEF TypeOK
  <2>9. said' = said /\ said \in [Users -> Word]
    BY <2>1 DEF TypeOK, Word
  <2>10. pc' \in [Requests -> {"idle", "block", "read", "write"} \cup Answers]
    BY <2>1 DEF TypeOK, Answers
  <2>11. overlapped' \subseteq Requests
    BY <2>1 DEF TypeOK, Holders
  <2>12. TypeOK'
    BY <2>1, <2>8, <2>9, <2>10, <2>11 DEF TypeOK, Word
  <2>13. \A q \in Requests : pc'[q] \in {"block", "read", "write"} => pc'[q] = pc[q] /\ q # r
    BY <2>1 DEF TypeOK
  <2>14. FormInv'
    BY <2>1, <2>13 DEF FormInv, InRange
  <2>15. ColumnsOwned'
    BY <2>7, <2>8, <2>9 DEF ColumnsOwned
  <2>16. CopyInv'
    <3> SUFFICES ASSUME NEW q \in Requests, pc'[q] = "write", q \notin overlapped'
                 PROVE  LET v == form[q].user
                        IN  /\ user[q].can = rows'[v].can
                            /\ user[q].daily = rows'[v].daily
                            /\ user[q].monthly = rows'[v].monthly
      BY <2>1 DEF CopyInv
    <3>1. pc[q] = "write" /\ q # r
      BY <2>13
    <3>2. form[q].user # u /\ q \notin overlapped
      BY <2>1, <3>1 DEF Holders
    <3>3. form[q].user \in Users
      BY <3>1 DEF FormInv, PermissionForm, LimitForm
    <3> QED BY <3>1, <3>2, <3>3, <2>8 DEF CopyInv
  <2> QED BY <2>12, <2>14, <2>15, <2>16
<1>5. ASSUME NEW r \in Requests, StatementFails(r)
      PROVE  Inv'
  <2>1. pc' = [pc EXCEPT ![r] = "failed"] /\ UNCHANGED <<rows, form, user, modes, said, overlapped>>
    BY <1>5 DEF StatementFails, Goto
  <2>2. pc' \in [Requests -> {"idle", "block", "read", "write"} \cup Answers]
    BY <2>1 DEF TypeOK, Answers
  <2>3. TypeOK'
    BY <2>1, <2>2 DEF TypeOK
  <2>4. \A q \in Requests : pc'[q] \in {"block", "read", "write"} => pc'[q] = pc[q]
    BY <2>1 DEF TypeOK
  <2>5. FormInv' /\ CopyInv' /\ ColumnsOwned'
    BY <2>1, <2>4 DEF FormInv, CopyInv, ColumnsOwned, InRange
  <2> QED BY <2>3, <2>5
<1>6. ASSUME NEW u \in Users, NEW auto \in BOOLEAN, SetMode(u, auto)
      PROVE  Inv'
  <2>1. /\ rows' = [rows EXCEPT ![u].auto = auto] /\ said' = [said EXCEPT ![u].auto = auto]
        /\ modes < MaxModes /\ modes' = modes + 1
        /\ UNCHANGED <<form, pc, user, overlapped>>
    BY <1>6 DEF SetMode
  <2>2. rows[u] \in Row /\ said[u] \in Word
    BY DEF TypeOK, Word
  <2>3. [rows[u] EXCEPT !.auto = auto] \in Row
    BY <2>2 DEF Row
  <2>4. [said[u] EXCEPT !.auto = auto] \in Word
    BY <2>2 DEF Word
  <2>5. /\ rows' \in [Users -> Row] /\ said' \in [Users -> Word]
        /\ rows'[u] = [rows[u] EXCEPT !.auto = auto]
        /\ said'[u] = [said[u] EXCEPT !.auto = auto]
        /\ \A v \in Users : v # u => rows'[v] = rows[v] /\ said'[v] = said[v]
    BY <2>1, <2>3, <2>4 DEF TypeOK, Word
  <2>6. /\ rows'[u].auto = auto /\ said'[u].auto = auto
        /\ rows'[u].blocked = rows[u].blocked /\ said'[u].blocked = said[u].blocked
        /\ rows'[u].can = rows[u].can /\ rows'[u].daily = rows[u].daily
        /\ rows'[u].monthly = rows[u].monthly
    BY <2>2, <2>5 DEF Row, Word
  <2>7. modes' \in 0..MaxModes
    BY <2>1, ConstantFacts DEF TypeOK
  <2>8. TypeOK'
    BY <2>1, <2>5, <2>7 DEF TypeOK, Word
  <2>9. FormInv'
    BY <2>1 DEF FormInv, InRange
  <2>10. ColumnsOwned'
    BY <2>5, <2>6 DEF ColumnsOwned
  <2>a. \A v \in Users : /\ rows'[v].can = rows[v].can /\ rows'[v].daily = rows[v].daily
                         /\ rows'[v].monthly = rows[v].monthly
    BY <2>5, <2>6
  <2>11. CopyInv'
    <3> SUFFICES ASSUME NEW q \in Requests, pc[q] = "write", q \notin overlapped
                 PROVE  LET v == form[q].user
                        IN  /\ user[q].can = rows'[v].can
                            /\ user[q].daily = rows'[v].daily
                            /\ user[q].monthly = rows'[v].monthly
      BY <2>1 DEF CopyInv
    <3>1. form[q].user \in Users
      BY DEF FormInv, PermissionForm, LimitForm
    <3> QED BY <3>1, <2>a DEF CopyInv
  <2> QED BY <2>8, <2>9, <2>10, <2>11
<1>7. CASE UNCHANGED vars
  <2> USE <1>7 DEF vars
  <2>1. TypeOK'
    BY DEF TypeOK
  <2>2. FormInv' /\ CopyInv' /\ ColumnsOwned'
    BY DEF FormInv, CopyInv, ColumnsOwned, InRange
  <2> QED BY <2>1, <2>2
<1> QED BY <1>1, <1>2, <1>3, <1>4, <1>5, <1>6, <1>7 DEF Next

(* Whatever forms are sent and however their handlers interleave, with     *)
(* each other and with the bot, the rows keep their shape: in particular   *)
(* every limit stored is NULL or within the handler's bounds.              *)
THEOREM RowsTyped == Spec => []TypeOK
<1>1. Inv => TypeOK
  BY DEF Inv
<1> QED BY <1>1, InitInv, NextInv, PTL DEF Spec

(* Saving permissions or limits never undoes a block or a choice of mode.  *)
THEOREM BlockKept == Spec => []ColumnsOwned
<1>1. Inv => ColumnsOwned
  BY DEF Inv
<1> QED BY <1>1, InitInv, NextInv, PTL DEF Spec

(* One step of Write: what a form that nobody overlapped leaves alone.     *)
LEMMA WriteApart ==
    ASSUME Inv, NEW r \in Requests, Write(r), r \notin overlapped
    PROVE  LET u == form[r].user
           IN  IF form[r].kind = "permissions"
               THEN /\ rows'[u].daily = rows[u].daily
                    /\ rows'[u].monthly = rows[u].monthly
               ELSE rows'[u].can = rows[u].can
<1> USE DEF Inv
<1> DEFINE u == form[r].user
           c == Edited(form[r], user[r])
<1>1. pc[r] = "write" /\ rows' = [rows EXCEPT ![u] = Update(rows[u], user[r], c)]
  BY DEF Write
<1>2. /\ form[r] \in PermissionForm \cup LimitForm /\ user[r] \in Row
      /\ form[r].kind = "limits" => InRange(form[r].daily) /\ InRange(form[r].monthly)
  BY <1>1 DEF FormInv
<1>3. u \in Users
  BY <1>2 DEF PermissionForm, LimitForm
<1>4. /\ form[r].kind = "permissions" => c.daily = user[r].daily /\ c.monthly = user[r].monthly
      /\ form[r].kind # "permissions" => c.can = user[r].can
  BY <1>2, EditedType
<1>5. /\ user[r].can = rows[u].can /\ user[r].daily = rows[u].daily
      /\ user[r].monthly = rows[u].monthly
  BY <1>1 DEF CopyInv
<1> HIDE DEF u, c
<1>6. rows[u] \in Row
  BY <1>3 DEF TypeOK
<1>7. rows'[u] = Update(rows[u], user[r], c)
  BY <1>1, <1>3 DEF TypeOK
<1>8. /\ rows'[u].can = c.can /\ rows'[u].daily = c.daily /\ rows'[u].monthly = c.monthly
  BY <1>6, <1>7 DEF Update, Row
<1>9. IF form[r].kind = "permissions"
      THEN /\ rows'[u].daily = rows[u].daily
           /\ rows'[u].monthly = rows[u].monthly
      ELSE rows'[u].can = rows[u].can
  BY <1>4, <1>5, <1>8
<1> QED BY <1>9 DEF u

(* An update of the other form's fields is lost only to an overlapping     *)
(* write of the same row.                                                  *)
THEOREM LostOnlyToOverlap == Spec => FormsApart
<1>1. ASSUME Inv, [Next]_vars
      PROVE  [\A r \in Requests :
                pc[r] = "write" /\ pc'[r] = "saved" /\ r \notin overlapped =>
                   LET u == form[r].user
                   IN  IF form[r].kind = "permissions"
                       THEN /\ rows'[u].daily = rows[u].daily
                            /\ rows'[u].monthly = rows[u].monthly
                       ELSE rows'[u].can = rows[u].can]_vars
  <2> SUFFICES ASSUME NEW r \in Requests, pc[r] = "write", pc'[r] = "saved", r \notin overlapped
               PROVE  LET u == form[r].user
                      IN  IF form[r].kind = "permissions"
                          THEN /\ rows'[u].daily = rows[u].daily
                               /\ rows'[u].monthly = rows[u].monthly
                          ELSE rows'[u].can = rows[u].can
    OBVIOUS
  <2>1. Write(r)
    BY <1>1 DEF Next, vars, Inv, TypeOK, Submit, SetBlocked, Read, Write, StatementFails,
               SetMode, Goto
  <2> QED BY <1>1, <2>1, WriteApart
<1> QED BY <1>1, InitInv, NextInv, PTL DEF Spec, FormsApart

-----------------------------------------------------------------------------
(* With the settings form and the audit log around it.                     *)

(* Every theorem above holds of FormsSpec too: the other forms and the log *)
(* do not disturb those about users.                                       *)
THEOREM FormsImplementUsers == FormsSpec => Spec
<1>1. FormsInit => Init
  BY DEF FormsInit
<1>2. [FormsNext]_formsVars => [Next]_vars
  BY DEF FormsNext, UserStep, GetSettings, GetFails, UpdateSettings, SettingsFail, Audit,
         AuditLost, formsVars
<1> QED BY <1>1, <1>2, PTL DEF FormsSpec, Spec

LEMMA FormsConstants ==
    /\ None \notin Users /\ Requests \cap Edits = {}
    /\ None \notin Settings /\ Settings \subseteq [daily : Nat, youtube : BOOLEAN]
    /\ FirstSettings \in Accepted
BY FormsAssumption DEF Accepted

(* What is saved is a form that was within bounds.                         *)
EditInv == \A e \in Edits : at[e] \in {"write", "saved"} => edit[e] \in Accepted

(* Only handlers that have saved something owe an entry.                   *)
DueInv ==
    /\ \A r \in Requests : r \in due => pc[r] = "saved" /\ form[r] \in Form
    /\ \A e \in Edits : e \in due => at[e] = "saved"

OneForm ==
    \/ settings = FirstSettings
    \/ \E e \in Edits : at[e] \in {"saved", "failed"} /\ settings = edit[e]

Says(s) == IF s = Service THEN settings ELSE rows[s].blocked

(* The row of a subject that is not muddled is what the one entry that is  *)
(* due will say, or what the last entry has said.                          *)
AuditInv ==
    \A s \in Subjects \ muddled :
       /\ Owed(s) = {} => told[s] = Says(s)
       /\ \A h \in Owed(s) : Detail(h) = Says(s) /\ \A g \in Owed(s) : g = h

FormsInv ==
    /\ Inv
    /\ FormsTypeOK
    /\ EditInv
    /\ DueInv
    /\ AuditInv
    /\ OneForm

LEMMA FormsInitInv == FormsInit => FormsInv
<1> SUFFICES ASSUME FormsInit PROVE FormsInv
  OBVIOUS
<1> USE FormsConstants DEF FormsInit
<1>1. Inv
  BY InitInv
<1>2. FormsTypeOK
  <2>1. \A u \in Users : told[u] = FALSE
    BY DEF Subjects, Service
  <2>2. told[Service] = FirstSettings
    BY DEF Subjects
  <2> QED BY <2>1, <2>2 DEF FormsTypeOK, Accepted
<1>3. EditInv /\ DueInv
  BY DEF EditInv, DueInv
<1>4. AuditInv
  <2>1. \A s \in Subjects : Owed(s) = {}
    BY DEF Owed
  <2>2. \A u \in Users : rows[u].blocked = FALSE
    BY DEF Init
  <2> QED BY <2>1, <2>2 DEF AuditInv, Says, Subjects, Service
<1>5. OneForm
  BY DEF OneForm
<1> QED BY <1>1, <1>2, <1>3, <1>4, <1>5 DEF FormsInv

(* What a step of AdminUsers does to the handlers.                         *)
LEMMA UserStepFacts ==
    ASSUME Inv, Next
    PROVE  /\ \A r \in Requests : pc[r] # "idle" => form'[r] = form[r]
           /\ \A r \in Requests : pc[r] = "saved" => pc'[r] = "saved"
           /\ \A r \in Requests : Saved(r) => /\ pc[r] \in {"block", "write"}
                                              /\ pc[r] = "block" => SetBlocked(r)
                                              /\ form[r] \in Form
           /\ \/ \E r \in Requests : SetBlocked(r)
              \/ \A u \in Users : rows'[u].blocked = rows[u].blocked
<1> USE DEF Inv
<1>t. TypeOK /\ FormInv
  OBVIOUS
<1>f. \A r \in Requests : pc[r] \in {"block", "write"} => form[r] \in Form
  BY <1>t DEF FormInv, Form
<1>1. ASSUME NEW r \in Requests, NEW f \in Form, Submit(r, f)
      PROVE  /\ \A q \in Requests : pc[q] # "idle" => form'[q] = form[q]
             /\ \A q \in Requests : pc[q] = "saved" => pc'[q] = "saved"
             /\ \A q \in Requests : ~Saved(q)
             /\ rows' = rows
  BY <1>1, <1>t DEF Submit, TypeOK, Goto, Saved
<1>2. ASSUME NEW r \in Requests, SetBlocked(r)
      PROVE  /\ \A q \in Requests : form'[q] = form[q]
             /\ \A q \in Requests : pc[q] = "saved" => pc'[q] = "saved"
             /\ \A q \in Requests : Saved(q) => q = r
             /\ pc[r] = "block"
  BY <1>2, <1>t DEF SetBlocked, TypeOK, Saved
<1>3. ASSUME NEW r \in Requests, Read(r) \/ StatementFails(r)
      PROVE  /\ \A q \in Requests : form'[q] = form[q]
             /\ \A q \in Requests : pc[q] = "saved" => pc'[q] = "saved"
             /\ \A q \in Requests : ~Saved(q)
             /\ rows' = rows
  BY <1>3, <1>t DEF Read, StatementFails, TypeOK, Goto, Saved
<1>4. ASSUME NEW r \in Requests, Write(r)
      PROVE  /\ \A q \in Requests : form'[q] = form[q]
             /\ \A q \in Requests : pc[q] = "saved" => pc'[q] = "saved"
             /\ \A q \in Requests : Saved(q) => q = r
             /\ pc[r] = "write"
             /\ \A u \in Users : rows'[u].blocked = rows[u].blocked
  <2>1. /\ pc[r] = "write"
        /\ form' = form
        /\ \E a \in {"saved", "failed"} : pc' = [pc EXCEPT ![r] = a]
    BY <1>4 DEF Write
  <2>2. \A q \in Requests : (pc[q] = "saved" => pc'[q] = "saved") /\ (Saved(q) => q = r)
    BY <2>1, <1>t DEF TypeOK, Saved
  <2> DEFINE w == form[r].user
             c == Edited(form[r], user[r])
  <2>3. rows' = [rows EXCEPT ![w] = Update(rows[w], user[r], c)]
    BY <1>4 DEF Write
  <2>4. form[r] \in PermissionForm \cup LimitForm
    BY <2>1, <1>t DEF FormInv
  <2>5. w \in Users
    BY <2>4 DEF PermissionForm, LimitForm
  <2> HIDE DEF w, c
  <2>6. rows[w] \in Row
    BY <2>5, <1>t DEF TypeOK
  <2>7. Update(rows[w], user[r], c).blocked = rows[w].blocked
    BY <2>6 DEF Update, Row
  <2>8. \A u \in Users : rows'[u].blocked = rows[u].blocked
    BY <2>3, <2>5, <2>7, <1>t DEF TypeOK
  <2> QED BY <2>1, <2>2, <2>8
<1>5. ASSUME NEW u \in Users, NEW auto \in BOOLEAN, SetMode(u, auto)
      PROVE  /\ form' = form
             /\ pc' = pc
             /\ \A v \in Users : rows'[v].blocked = rows[v].blocked
  <2>1. rows' = [rows EXCEPT ![u].auto = auto] /\ form' = form /\ pc' = pc
    BY <1>5 DEF SetMode
  <2>2. \A v \in Users : rows[v] \in Row
    BY <1>t DEF TypeOK
  <2>3. [rows[u] EXCEPT !.auto = auto].blocked = rows[u].blocked
    BY <2>2 DEF Row
  <2> QED BY <2>1, <2>2, <2>3, <1>t DEF TypeOK
<1> QED BY <1>1, <1>2, <1>3, <1>4, <1>5, <1>f DEF Next, Saved

(* Each kind of step keeps the invariant.  A step of AdminUsers:           *)
LEMMA UserStepInv ==
    ASSUME FormsInv, UserStep
    PROVE  FormsInv'
<1> USE FormsConstants
<1>t. Inv /\ FormsTypeOK /\ EditInv /\ DueInv /\ AuditInv /\ OneForm
  BY DEF FormsInv
<1>s. /\ Next
      /\ due' = due \cup {r \in Requests : Saved(r)}
      /\ muddled' = muddled
           \cup {u \in Users : \E r \in Requests :
                    /\ LostReply(r) \/ (Saved(r) /\ Owed(u) # {})
                    /\ u \in About(r)}
      /\ UNCHANGED <<settings, edit, at, copy, told>>
  BY DEF UserStep
<1>f. /\ \A r \in Requests : pc[r] # "idle" => form'[r] = form[r]
      /\ \A r \in Requests : pc[r] = "saved" => pc'[r] = "saved"
      /\ \A r \in Requests : Saved(r) => /\ pc[r] \in {"block", "write"}
                                         /\ pc[r] = "block" => SetBlocked(r)
                                         /\ form[r] \in Form
      /\ \/ \E r \in Requests : SetBlocked(r)
         \/ \A u \in Users : rows'[u].blocked = rows[u].blocked
  BY <1>t, <1>s, UserStepFacts
<1>1. Inv'
  BY <1>t, <1>s, NextInv
<1>2. FormsTypeOK'
  <2>1. muddled' \subseteq Subjects /\ due' \subseteq Handlers
    BY <1>s, <1>t DEF FormsTypeOK, Subjects, Handlers
  <2> QED BY <1>s, <1>t, <2>1 DEF FormsTypeOK
<1>3. EditInv' /\ OneForm'
  BY <1>s, <1>t DEF EditInv, OneForm
<1>4. DueInv'
  <2>1. ASSUME NEW r \in Requests, r \in due'
        PROVE  pc'[r] = "saved" /\ form'[r] \in Form
    <3>1. CASE r \in due
      BY <1>t, <1>f, <3>1 DEF DueInv
    <3>2. CASE Saved(r)
      BY <1>f, <3>2 DEF Saved
    <3> QED BY <1>s, <2>1, <3>1, <3>2
  <2>2. \A e \in Edits : e \in due' => at'[e] = "saved"
    BY <1>s, <1>t DEF DueInv
  <2> QED BY <2>1, <2>2 DEF DueInv
<1>5. ASSUME NEW h \in due
      PROVE  About(h)' = About(h) /\ Detail(h)' = Detail(h)
  <2>1. CASE h \in Edits
    BY <2>1, <1>s DEF About, Detail
  <2>2. CASE h \notin Edits
    <3>1. h \in Requests /\ pc[h] = "saved"
      BY <1>t, <2>2 DEF FormsTypeOK, Handlers, DueInv
    <3>2. form'[h] = form[h]
      BY <1>f, <3>1
    <3> QED BY <2>2, <3>2 DEF About, Detail
  <2> QED BY <2>1, <2>2
\* Whom a save that has just been done is about: a user only if it is a block.
<1>6. ASSUME NEW r \in Requests, Saved(r)
      PROVE  /\ About(r)' = About(r)
             /\ About(r) # {} => /\ SetBlocked(r)
                                 /\ About(r) = {form[r].user}
                                 /\ Detail(r)' = form[r].blocked
  <2>1. pc[r] \in {"block", "write"} /\ form'[r] = form[r] /\ r \notin Edits
    BY <1>f, <1>6
  <2>2. pc[r] = "write" => form[r].kind # "block"
    BY <2>1, <1>t DEF Inv, FormInv, PermissionForm, LimitForm
  <2> QED BY <1>f, <1>6, <2>1, <2>2 DEF About, Detail
<1>7. AuditInv'
  <2> SUFFICES ASSUME NEW s \in Subjects, s \notin muddled'
               PROVE  /\ Owed(s)' = {} => told'[s] = Says(s)'
                      /\ \A h \in Owed(s)' : /\ Detail(h)' = Says(s)'
                                             /\ \A g \in Owed(s)' : g = h
    BY DEF AuditInv
  <2>1. s \notin muddled
    BY <1>s
  <2>2. Owed(s)' = Owed(s) \cup {r \in Requests : Saved(r) /\ s \in About(r)}
    BY <1>s, <1>5, <1>6 DEF Owed
  <2>3. \A r \in Requests : Saved(r) /\ s \in About(r) =>
           Owed(s) = {} /\ s \in Users /\ SetBlocked(r) /\ s = form[r].user
                        /\ Detail(r)' = form[r].blocked
    <3> SUFFICES ASSUME NEW r \in Requests, Saved(r), s \in About(r)
                 PROVE  Owed(s) = {} /\ s \in Users /\ SetBlocked(r) /\ s = form[r].user
                                     /\ Detail(r)' = form[r].blocked
      OBVIOUS
    <3>1. SetBlocked(r) /\ s = form[r].user /\ Detail(r)' = form[r].blocked
      BY <1>6
    <3>2. s \in Users
      BY <3>1, <1>t DEF SetBlocked, Inv, FormInv, BlockForm
    <3> QED BY <1>s, <3>1, <3>2
  <2>4. CASE \E r \in Requests : Saved(r) /\ s \in About(r)
    <3>1. PICK r \in Requests : Saved(r) /\ s \in About(r)
      BY <2>4
    <3>2. Owed(s) = {} /\ s \in Users /\ SetBlocked(r) /\ s = form[r].user
                       /\ Detail(r)' = form[r].blocked
      BY <2>3, <3>1
    <3>3. \A q \in Requests : Saved(q) => q = r
      BY <3>2, <1>t DEF SetBlocked, Saved, Inv, TypeOK
    <3>4. Owed(s)' = {r}
      BY <2>2, <3>1, <3>2, <3>3
    <3>5. rows'[s].blocked = form[r].blocked
      <4>1. rows' = [rows EXCEPT ![s].blocked = form[r].blocked]
        BY <3>2 DEF SetBlocked
      <4>2. rows[s] \in Row
        BY <3>2, <1>t DEF Inv, TypeOK
      <4>3. rows'[s] = [rows[s] EXCEPT !.blocked = form[r].blocked]
        BY <3>2, <4>1, <1>t DEF Inv, TypeOK
      <4> QED BY <4>2, <4>3 DEF Row
    <3>6. Says(s)' = form[r].blocked
      BY <3>2, <3>5 DEF Says, Service
    <3> QED BY <3>2, <3>4, <3>6
  <2>5. CASE ~\E r \in Requests : Saved(r) /\ s \in About(r)
    <3>1. Owed(s)' = Owed(s) /\ told'[s] = told[s]
      BY <2>2, <2>5, <1>s
    <3>2. Says(s)' = Says(s)
      <4>1. CASE s = Service
        BY <4>1, <1>s DEF Says
      <4>2. CASE s # Service
        <5>1. s \in Users
          BY <4>2 DEF Subjects
        <5>2. rows'[s].blocked = rows[s].blocked
          <6>1. CASE \E r \in Requests : SetBlocked(r)
            <7>1. PICK r \in Requests : SetBlocked(r)
              BY <6>1
            <7>2. pc[r] = "block" /\ form[r].user \in Users /\ form[r].kind = "block"
              BY <7>1, <1>t DEF SetBlocked, Inv, FormInv, BlockForm
            <7>3. pc'[r] = "saved" \/ pc'[r] = "failed"
              BY <7>1, <1>t DEF SetBlocked, Inv, TypeOK
            <7>4. About(r) = {form[r].user}
              BY <7>2 DEF About
            <7>5. s # form[r].user
              BY <7>2, <7>3, <7>4, <2>5, <1>s, <5>1 DEF Saved, LostReply
            <7> QED BY <7>1, <7>2, <7>5, <5>1, <1>t DEF SetBlocked, Inv, TypeOK
          <6>2. CASE \A u \in Users : rows'[u].blocked = rows[u].blocked
            BY <5>1, <6>2
          <6> QED BY <1>f, <6>1, <6>2
        <5> QED BY <4>2, <5>2 DEF Says
      <4> QED BY <4>1, <4>2
    <3>3. \A h \in Owed(s) : Detail(h)' = Detail(h)
      BY <1>5 DEF Owed
    <3> QED BY <2>1, <3>1, <3>2, <3>3, <1>t DEF AuditInv
  <2> QED BY <2>4, <2>5
<1> QED BY <1>1, <1>2, <1>3, <1>4, <1>7 DEF FormsInv

(* The settings form.                                                      *)
LEMMA SettingsStepInv ==
    ASSUME FormsInv, NEW e \in Edits,
           \/ \E f \in Settings : GetSettings(e, f)
           \/ GetFails(e)
           \/ UpdateSettings(e)
           \/ SettingsFail(e)
    PROVE  FormsInv'
<1> USE FormsConstants
<1>t. Inv /\ FormsTypeOK /\ EditInv /\ DueInv /\ AuditInv /\ OneForm
  BY DEF FormsInv
<1>v. UNCHANGED <<vars, told>>
  BY DEF GetSettings, GetFails, UpdateSettings, SettingsFail
<1>w. UNCHANGED <<rows, form, pc>>
  BY <1>v DEF vars
<1>1. Inv'
  BY <1>t, <1>v DEF Inv, TypeOK, FormInv, CopyInv, ColumnsOwned, InRange, vars
<1>2. CASE (\E f \in Settings : GetSettings(e, f)) \/ GetFails(e)
  <2>1. /\ at[e] = "idle" /\ UNCHANGED <<settings, due, muddled>>
        /\ \/ at' = [at EXCEPT ![e] = "failed"] /\ edit' = edit /\ copy' = copy
           \/ \E f \in Settings :
                /\ edit' = [edit EXCEPT ![e] = f]
                /\ \/ /\ f \in Accepted /\ at' = [at EXCEPT ![e] = "write"]
                      /\ copy' = [copy EXCEPT ![e] = settings]
                   \/ at' = [at EXCEPT ![e] = "invalid"] /\ copy' = copy
    BY <1>2 DEF GetSettings, GetFails, InBounds, Accepted
  <2>2. FormsTypeOK'
    <3>1. settings \in Settings
      BY <1>t DEF FormsTypeOK, Accepted
    <3>2. edit' \in [Edits -> Settings \cup {None}]
      BY <2>1, <1>t DEF FormsTypeOK
    <3>3. at' \in [Edits -> {"idle", "write"} \cup Answers]
      BY <2>1, <1>t DEF FormsTypeOK, Answers
    <3>4. copy' \in [Edits -> Settings \cup {None}]
      BY <2>1, <3>1, <1>t DEF FormsTypeOK
    <3> QED BY <2>1, <3>2, <3>3, <3>4, <1>v, <1>t DEF FormsTypeOK
  <2>3. EditInv' /\ DueInv' /\ OneForm'
    <3>1. \A d \in Edits : d # e => at'[d] = at[d] /\ edit'[d] = edit[d]
      BY <2>1, <1>t DEF FormsTypeOK
    <3>2. EditInv'
      BY <2>1, <3>1, <1>t DEF EditInv, FormsTypeOK
    <3>3. DueInv'
      BY <2>1, <3>1, <1>t, <1>w DEF DueInv
    <3>4. OneForm'
      BY <2>1, <3>1, <1>t DEF OneForm
    <3> QED BY <3>2, <3>3, <3>4
  <2>4. AuditInv'
    <3>1. \A h \in due : About(h)' = About(h) /\ Detail(h)' = Detail(h)
      <4> SUFFICES ASSUME NEW h \in due PROVE About(h)' = About(h) /\ Detail(h)' = Detail(h)
        OBVIOUS
      <4>1. h # e
        BY <2>1, <1>t DEF DueInv
      <4> QED BY <2>1, <4>1, <1>w, <1>t DEF About, Detail, FormsTypeOK
    <3>2. \A s \in Subjects : Owed(s)' = Owed(s) /\ Says(s)' = Says(s)
      BY <2>1, <3>1, <1>w DEF Owed, Says
    <3>3. \A s \in Subjects : \A h \in Owed(s) : Detail(h)' = Detail(h)
      BY <3>1 DEF Owed
    <3> QED BY <2>1, <3>2, <3>3, <1>v, <1>t DEF AuditInv
  <2> QED BY <1>1, <2>2, <2>3, <2>4 DEF FormsInv
<1>3. CASE UpdateSettings(e) \/ SettingsFail(e)
  <2>1. /\ at[e] = "write" /\ edit' = edit
        /\ copy' = [copy EXCEPT ![e] = None]
        /\ \/ /\ at' = [at EXCEPT ![e] = "failed"] /\ settings' = settings
              /\ muddled' = muddled /\ due' = due
           \/ /\ at' = [at EXCEPT ![e] = "failed"] /\ settings' = edit[e]
              /\ muddled' = muddled \cup {Service} /\ due' = due
           \/ /\ at' = [at EXCEPT ![e] = "saved"] /\ settings' = edit[e]
              /\ muddled' = IF Owed(Service) = {} THEN muddled ELSE muddled \cup {Service}
              /\ due' = due \cup {e}
    BY <1>3 DEF UpdateSettings, SettingsFail, Filled
  <2>2. edit[e] \in Accepted
    BY <2>1, <1>t DEF EditInv
  <2>a. \A d \in Edits : d # e => at'[d] = at[d]
    BY <2>1, <1>t DEF FormsTypeOK
  <2>b. at'[e] \in {"failed", "saved"}
    BY <2>1, <1>t DEF FormsTypeOK
  <2>3. FormsTypeOK'
    <3>1. at' \in [Edits -> {"idle", "write"} \cup Answers]
      BY <2>1, <1>t DEF FormsTypeOK, Answers
    <3>2. copy' \in [Edits -> Settings \cup {None}]
      BY <2>1, <1>t DEF FormsTypeOK
    <3>3. /\ settings' \in Accepted
          /\ muddled' \subseteq Subjects
          /\ due' \subseteq Handlers
      BY <2>1, <2>2, <1>t DEF FormsTypeOK, Subjects, Handlers
    <3> QED BY <2>1, <3>1, <3>2, <3>3, <1>v, <1>t DEF FormsTypeOK
  <2>4. EditInv'
    BY <2>1, <2>2, <2>a, <2>b, <1>t DEF EditInv
  <2>5. DueInv'
    <3>1. \A d \in Edits : d \in due' => at'[d] = "saved"
      <4>1. e \notin due
        BY <2>1, <1>t DEF DueInv
      <4>2. e \in due' => at'[e] = "saved"
        BY <2>1, <4>1, <1>t DEF FormsTypeOK
      <4>3. \A d \in Edits : d # e /\ d \in due' => d \in due
        BY <2>1
      <4> QED BY <4>2, <4>3, <2>a, <1>t DEF DueInv
    <3>2. \A r \in Requests : r \in due' => r \in due
      BY <2>1
    <3> QED BY <3>1, <3>2, <1>w, <1>t DEF DueInv
  <2>6. OneForm'
    <3>1. CASE settings' = edit[e]
      BY <2>1, <2>b, <3>1 DEF OneForm
    <3>2. CASE settings' = settings
      BY <2>1, <2>a, <2>b, <3>2, <1>t DEF OneForm
    <3> QED BY <2>1, <3>1, <3>2
  <2>7. AuditInv'
    <3> DEFINE Tells(s) == /\ Owed(s)' = {} => told'[s] = Says(s)'
                           /\ \A h \in Owed(s)' : /\ Detail(h)' = Says(s)'
                                                  /\ \A g \in Owed(s)' : g = h
    <3> SUFFICES ASSUME NEW s \in Subjects, s \notin muddled'
                 PROVE  Tells(s)
      BY DEF AuditInv
    <3>1. s \notin muddled
      BY <2>1
    <3>2. \A h : About(h)' = About(h) /\ Detail(h)' = Detail(h)
      BY <2>1, <1>w DEF About, Detail
    <3>3. About(e) = {Service} /\ Detail(e) = edit[e]
      BY DEF About, Detail
    <3>4. CASE s = Service /\ (settings' # settings \/ due' # due)
      <4>1. Owed(s) = {} /\ due' = due \cup {e} /\ settings' = edit[e]
        BY <2>1, <3>4
      <4>2. Owed(s)' = {e}
        BY <3>2, <3>3, <3>4, <4>1 DEF Owed
      <4>3. Says(s)' = edit[e]
        BY <3>4, <4>1 DEF Says
      <4> QED BY <3>2, <3>3, <4>2, <4>3
    <3>5. CASE s # Service \/ (settings' = settings /\ due' = due)
      <4>1. Says(s)' = Says(s)
        BY <3>5, <1>w DEF Says
      <4>2. Owed(s)' = Owed(s)
        BY <2>1, <3>2, <3>3, <3>5 DEF Owed
      <4>3. told'[s] = told[s]
        BY <1>v
      <4>4. Owed(s)' = {} => told'[s] = Says(s)'
        BY <3>1, <4>1, <4>2, <4>3, <1>t DEF AuditInv
      <4>5. ASSUME NEW h \in Owed(s)'
            PROVE  Detail(h)' = Says(s)' /\ \A g \in Owed(s)' : g = h
        <5>1. h \in Owed(s)
          BY <4>2
        <5>2. Detail(h) = Says(s) /\ \A g \in Owed(s) : g = h
          BY <3>1, <5>1, <1>t DEF AuditInv
        <5>3. Detail(h)' = Detail(h)
          BY <3>2
        <5> QED BY <4>1, <4>2, <5>2, <5>3
      <4> QED BY <4>4, <4>5
    <3> HIDE DEF Tells
    <3> QED BY <3>4, <3>5
  <2> QED BY <1>1, <2>3, <2>4, <2>5, <2>6, <2>7 DEF FormsInv
<1> QED BY <1>2, <1>3

(* The audit log.                                                          *)
LEMMA AuditStepInv ==
    ASSUME FormsInv, NEW h \in Handlers, Audit(h) \/ AuditLost(h)
    PROVE  FormsInv'
<1> USE FormsConstants
<1>t. Inv /\ FormsTypeOK /\ EditInv /\ DueInv /\ AuditInv /\ OneForm
  BY DEF FormsInv
<1>v. UNCHANGED <<vars, settings, edit, at, copy>> /\ h \in due /\ due' = due \ {h}
  BY DEF Audit, AuditLost
<1>w. UNCHANGED <<rows, form, pc>>
  BY <1>v DEF vars
<1>1. Inv'
  BY <1>t, <1>v DEF Inv, TypeOK, FormInv, CopyInv, ColumnsOwned, InRange, vars
<1>2. EditInv' /\ DueInv' /\ OneForm'
  BY <1>t, <1>v, <1>w DEF EditInv, DueInv, OneForm
<1>3. /\ h \in Edits => About(h) = {Service} /\ Detail(h) \in Settings
      /\ h \notin Edits => /\ About(h) \subseteq Users
                           /\ About(h) # {} => Detail(h) \in BOOLEAN
  <2>1. CASE h \in Edits
    BY <2>1, <1>v, <1>t DEF About, Detail, DueInv, EditInv, Accepted
  <2>2. CASE h \notin Edits
    <3>1. h \in Requests /\ form[h] \in Form
      BY <2>2, <1>v, <1>t DEF Handlers, DueInv
    <3>2. form[h].kind = "block" => form[h] \in BlockForm
      BY <3>1 DEF Form, PermissionForm, LimitForm, BlockForm
    <3> QED BY <2>2, <3>2 DEF About, Detail, BlockForm
  <2> QED BY <2>1, <2>2
<1>4. About(h) \subseteq Subjects
  BY <1>3 DEF Subjects
<1>5. \A s \in Subjects : Says(s)' = Says(s) /\ Owed(s)' = Owed(s) \ {h}
  BY <1>v, <1>w DEF Says, Owed, About
<1>6. \A g : Detail(g)' = Detail(g)
  BY <1>v, <1>w DEF Detail
<1>7. CASE Audit(h)
  <2>1. /\ told' = [s \in Subjects |-> IF s \in About(h) THEN Detail(h) ELSE told[s]]
        /\ muddled' = muddled
    BY <1>7 DEF Audit
  <2>2. FormsTypeOK'
    <3>1. \A u \in Users : told'[u] \in BOOLEAN
      BY <2>1, <1>3, <1>t DEF FormsTypeOK, Subjects, Service
    <3>2. told'[Service] \in Settings
      BY <2>1, <1>3, <1>t DEF FormsTypeOK, Subjects, Service
    <3> QED BY <2>1, <3>1, <3>2, <1>v, <1>t DEF FormsTypeOK
  <2>3. AuditInv'
    <3> SUFFICES ASSUME NEW s \in Subjects, s \notin muddled
                 PROVE  /\ Owed(s)' = {} => told'[s] = Says(s)'
                        /\ \A g \in Owed(s)' : /\ Detail(g)' = Says(s)'
                                               /\ \A f \in Owed(s)' : f = g
      BY <2>1 DEF AuditInv
    <3>1. CASE s \in About(h)
      <4>1. h \in Owed(s)
        BY <3>1, <1>v DEF Owed
      <4>2. Detail(h) = Says(s) /\ Owed(s) \ {h} = {}
        BY <4>1, <1>t DEF AuditInv
      <4> QED BY <2>1, <3>1, <4>2, <1>5
    <3>2. CASE s \notin About(h)
      <4>1. Owed(s)' = Owed(s)
        BY <3>2, <1>5 DEF Owed
      <4> QED BY <2>1, <3>2, <4>1, <1>5, <1>6, <1>t DEF AuditInv
    <3> QED BY <3>1, <3>2
  <2> QED BY <1>1, <1>2, <2>2, <2>3 DEF FormsInv
<1>8. CASE AuditLost(h)
  <2>1. told' = told /\ muddled' = muddled \cup About(h)
    BY <1>8 DEF AuditLost
  <2>2. FormsTypeOK'
    BY <2>1, <1>4, <1>v, <1>t DEF FormsTypeOK
  <2>3. AuditInv'
    <3> SUFFICES ASSUME NEW s \in Subjects, s \notin muddled, s \notin About(h)
                 PROVE  /\ Owed(s)' = {} => told'[s] = Says(s)'
                        /\ \A g \in Owed(s)' : /\ Detail(g)' = Says(s)'
                                               /\ \A f \in Owed(s)' : f = g
      BY <2>1 DEF AuditInv
    <3>1. Owed(s)' = Owed(s)
      BY <1>5 DEF Owed
    <3> QED BY <2>1, <3>1, <1>5, <1>6, <1>t DEF AuditInv
  <2> QED BY <1>1, <1>2, <2>2, <2>3 DEF FormsInv
<1> QED BY <1>7, <1>8

LEMMA FormsNextInv == FormsInv /\ [FormsNext]_formsVars => FormsInv'
<1> SUFFICES ASSUME FormsInv, [FormsNext]_formsVars PROVE FormsInv'
  OBVIOUS
<1>1. CASE UserStep
  BY <1>1, UserStepInv
<1>2. CASE \E e \in Edits : \/ \E f \in Settings : GetSettings(e, f)
                            \/ GetFails(e)
                            \/ UpdateSettings(e)
                            \/ SettingsFail(e)
  BY <1>2, SettingsStepInv
<1>3. CASE \E h \in Handlers : Audit(h) \/ AuditLost(h)
  BY <1>3, AuditStepInv
<1>4. CASE UNCHANGED formsVars
  BY <1>4 DEF FormsInv, formsVars, vars, Inv, TypeOK, FormInv, CopyInv, ColumnsOwned, InRange,
             FormsTypeOK, EditInv, DueInv, AuditInv, Owed, About, Detail, Says, OneForm
<1> QED BY <1>1, <1>2, <1>3, <1>4 DEF FormsNext

(* Settings and forms keep their types, and the settings their bounds.     *)
THEOREM SettingsTyped == FormsSpec => []FormsTypeOK
<1>1. FormsInv => FormsTypeOK
  BY DEF FormsInv
<1> QED BY <1>1, FormsInitInv, FormsNextInv, PTL DEF FormsSpec

(* The settings are those of one form, whoever saves at the same time.     *)
THEOREM SettingsUnmixed == FormsSpec => []SettingsOfOneForm
<1>1. FormsInv => SettingsOfOneForm
  BY DEF FormsInv, FormsTypeOK, OneForm, SettingsOfOneForm
<1> QED BY <1>1, FormsInitInv, FormsNextInv, PTL DEF FormsSpec

(* The log's last word holds, but for saves that overlapped and statements *)
(* that were lost.                                                         *)
THEOREM LogTells == FormsSpec => []AuditTells
<1>1. FormsInv => AuditTells
  BY DEF FormsInv, AuditInv, AuditTells, Says
<1> QED BY <1>1, FormsInitInv, FormsNextInv, PTL DEF FormsSpec
=============================================================================
