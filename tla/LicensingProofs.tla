-------------------------- MODULE LicensingProofs --------------------------
(***************************************************************************)
(* The invariants of the licensing server and of its clients, for any set  *)
(* of licenses, devices, processes and calls on the way, one endpoint or   *)
(* two, and every bound.                                                   *)
(*                                                                         *)
(* Each step of the composed system is a step of the server or leaves it   *)
(* alone (ServerPart), so that the server's types and laws hold here too.   *)
(* Everything the client believes, an answer, the claims it has received,   *)
(* its snapshot, its key, was true when the server signed it; and what was  *)
(* signed stays true as long as the admin changes nothing (StepEntitled).   *)
(***************************************************************************)
EXTENDS Licensing, TLAPS

-----------------------------------------------------------------------------
(* The server alone: its invariants hold for every set of licenses,        *)
(* devices, requests, mails and connections, and every window and bound.   *)

(* TypeOK needs the shape of the request table (an admin's change of a     *)
(* request is noted under its license), and that a confirmation mail is    *)
(* about a request that exists.                                            *)
Rows ==
    \A r \in Request :
        /\ req[r].state = "absent" => req[r] = NoReq
        /\ req[r].state # "absent" => req[r].license \in License

Linked ==
    \A e \in Mail : mail[e].request # None => req[mail[e].request].state # "absent"

TypeInv == TypeOK /\ Rows

\* what the assumptions say of the states and the feature sets an admin chooses
LEMMA Choices ==
    /\ "active" \in RowState /\ "absent" \in RowState /\ RecordState \subseteq RowState
    /\ "absent" \notin RecordState
    /\ Grants \subseteq SUBSET Feature
  BY ConstantsAssumption DEF RowState, Feature

LEMMA InitType == Init => TypeInv /\ Linked
  BY ConstantsAssumption
  DEF Init, TypeInv, TypeOK, Rows, Linked, RowState, KeyRow, InstRow, ReqRow, MailRow, TaskRow,
      NoKey, NoInst, NoReq, NoMail, Idle, Reply, Claims

\* a signed answer is a well-formed one
LEMMA SignedType ==
    ASSUME TypeOK,
           NEW status \in {"Active", "PendingConfirmation", "ReplacementIssued"},
           NEW l \in License, NEW granted \in SUBSET Feature,
           NEW s \in Secret \cup {None}, NEW n \in License \cup {None}
    PROVE  Signed(status, l, granted, s, n) \in Claims
  BY ConstantsAssumption DEF TypeOK, Signed, Claims

LEMMA GrantedType ==
    ASSUME TypeOK, NEW l \in License PROVE Granted(l) \in SUBSET Feature
  BY DEF TypeOK, Granted, Feature

LEMMA AnswerType ==
    ASSUME TypeOK, NEW c, NEW r \in Reply, Answer(c, r)
    PROVE  reply' \in [Conn -> Reply]
  BY DEF TypeOK, Answer

LEMMA TrustType ==
    ASSUME TypeOK, NEW l \in License, NEW d \in Device, NEW s \in Secret, Trust(l, d, s)
    PROVE  inst' \in [License \X Device -> InstRow]
  BY ConstantsAssumption DEF TypeOK, Trust, InstRow, RowState, Soft

\* the UPDATEs of a request leave it a request and do not touch what Rows is about
LEMMA RequestUpdate ==
    ASSUME NEW row \in ReqRow, NEW n \in License
    PROVE  /\ [row EXCEPT !.replacement = n] \in ReqRow
           /\ [row EXCEPT !.approved = TRUE] \in ReqRow
           /\ [row EXCEPT !.replacement = n].state = row.state
           /\ [row EXCEPT !.approved = TRUE].state = row.state
           /\ [row EXCEPT !.replacement = n].license = row.license
           /\ [row EXCEPT !.approved = TRUE].license = row.license
           /\ [row EXCEPT !.replacement = n].device = row.device
           /\ [row EXCEPT !.approved = TRUE].device = row.device
           /\ [row EXCEPT !.replacement = n].approved = row.approved
           /\ [row EXCEPT !.approved = TRUE].approved
  BY DEF ReqRow

\* a record state the admin chooses, on a request that exists
LEMMA RequestState ==
    ASSUME NEW row \in ReqRow, NEW state \in RecordState
    PROVE  /\ [row EXCEPT !.state = state] \in ReqRow
           /\ [row EXCEPT !.state = state].license = row.license
           /\ [row EXCEPT !.state = state].device = row.device
           /\ [row EXCEPT !.state = state].approved = row.approved
           /\ [row EXCEPT !.state = state].state = state
           /\ state # "absent"
<1>1. state \in RowState
  BY DEF RowState
<1>2. state # "absent"
  BY ConstantsAssumption
<1> QED
  BY <1>1, <1>2 DEF ReqRow

\* marking a mail sent, delivered or read
LEMMA MailUpdate ==
    ASSUME NEW row \in MailRow
    PROVE  /\ [row EXCEPT !.notif = "sent", !.stamps = @ \cup {"sent"}] \in MailRow
           /\ [row EXCEPT !.notif = "delivered", !.stamps = @ \cup {"sent", "delivered"}] \in MailRow
           /\ [row EXCEPT !.notif = "read", !.stamps = @ \cup {"read"}, !.state = "deleted"] \in MailRow
  BY DEF MailRow

\* every step of the server keeps the types and the shape of the request table
LEMMA StepType == TypeInv /\ Linked /\ [Next]_vars => TypeInv'
<1> SUFFICES ASSUME TypeInv, Linked, [Next]_vars PROVE TypeInv'
  OBVIOUS
<1>0. TypeOK /\ Rows
  BY DEF TypeInv
<1>1. ASSUME NEW l \in License, NEW granted \in Grants, IssueLicense(l, granted)
      PROVE  TypeInv'
  BY <1>0, <1>1, Choices
  DEF TypeInv, TypeOK, Rows, IssueLicense, mailing, history, KeyRow
<1>2. ASSUME NEW c \in Conn \cup {None}, NEW l \in License, NEW d \in Device,
             NEW provided \in Secret \cup {None}, NEW s \in Secret,
             Verify(c, l, d, provided, s)
      PROVE  TypeInv'
  <2> USE <1>0
  <2>g. Granted(l) \in SUBSET Feature
    BY GrantedType
  <2>b. {"basic"} \in SUBSET Feature
    BY DEF Feature
  <2>a. Signed("Active", l, Granted(l), s, None) \in Claims
    BY <2>g, SignedType
  <2>p. Signed("PendingConfirmation", l, {"basic"}, None, None) \in Claims
    BY <2>b, SignedType
  <2>1. CASE VerifyRefused(c, l)
    <3>1. reply' \in [Conn -> Reply]
      BY <2>1, AnswerType DEF VerifyRefused, Reply
    <3> QED
      BY <2>1, <3>1 DEF TypeInv, TypeOK, Rows, VerifyRefused, tables, mailing, history
  <2>2. CASE VerifyPending(c, l, d)
    <3>1. reply' \in [Conn -> Reply]
      BY <2>2, <2>p, AnswerType DEF VerifyPending, Reply
    <3> QED
      BY <2>2, <3>1 DEF TypeInv, TypeOK, Rows, VerifyPending, tables, mailing, history
  <2>3. CASE VerifyInitial(c, l, d, s)
    <3>1. reply' \in [Conn -> Reply]
      BY <2>3, <2>a, AnswerType DEF VerifyInitial, Reply
    <3>2. inst' \in [License \X Device -> InstRow]
      BY <2>3, TrustType DEF VerifyInitial
    <3> QED
      BY <2>3, <3>1, <3>2 DEF TypeInv, TypeOK, Rows, VerifyInitial, mailing, history
  <2>4. CASE VerifyTrusted(c, l, d, s, provided)
    <3>1. reply' \in [Conn -> Reply]
      BY <2>4, <2>a, AnswerType DEF VerifyTrusted, Reply
    <3>2. inst' \in [License \X Device -> InstRow]
      BY <2>4 DEF VerifyTrusted, TypeOK, InstRow
    <3>3. flagged' \subseteq License \X Device
      BY <2>4 DEF VerifyTrusted, TypeOK
    <3> QED
      BY <2>4, <3>1, <3>2, <3>3 DEF TypeInv, TypeOK, Rows, VerifyTrusted, mailing, history
  <2>5. CASE VerifyPromoted(c, l, d, s)
    <3>1. reply' \in [Conn -> Reply]
      BY <2>5, <2>a, AnswerType DEF VerifyPromoted, Reply
    <3>2. inst' \in [License \X Device -> InstRow]
      BY <2>5, TrustType DEF VerifyPromoted
    <3> QED
      BY <2>5, <3>1, <3>2 DEF TypeInv, TypeOK, Rows, VerifyPromoted, mailing, history
  <2>6. ASSUME NEW n \in License, VerifyReplaced(c, l, d, s, n)
        PROVE  TypeInv'
    <3>1. reply' \in [Conn -> Reply]
      <4>1. Signed("ReplacementIssued", n, {"basic"}, s, n) \in Claims
        BY <2>b, SignedType
      <4> QED
        BY <2>6, <4>1, AnswerType DEF VerifyReplaced, Reply
    <3>2. req' \in [Request -> ReqRow] /\ Rows'
      <4>1. PICK r \in Request : /\ req[r].state = "active"
                                 /\ req' = [req EXCEPT ![r] = [req[r] EXCEPT !.replacement = n]]
        BY <2>6 DEF VerifyReplaced, PendingRequest, OpenRequests
      <4>2. req[r] \in ReqRow
        BY DEF TypeOK
      <4>3. [req[r] EXCEPT !.replacement = n] \in ReqRow
        BY <4>2, RequestUpdate
      <4>4. /\ [req[r] EXCEPT !.replacement = n].state = "active"
            /\ [req[r] EXCEPT !.replacement = n].license = req[r].license
        BY <4>1, <4>2, RequestUpdate
      <4> QED
        BY <4>1, <4>3, <4>4 DEF TypeOK, Rows
    <3>3. inst' \in [License \X Device -> InstRow]
      BY <2>6, Choices DEF VerifyReplaced, TypeOK, InstRow
    <3>4. /\ lic' \in [License -> RowState]
          /\ key' \in [License -> KeyRow]
          /\ features' \in [License -> SUBSET Feature]
      BY <2>6, <2>b, Choices DEF VerifyReplaced, TypeOK, KeyRow
    <3> QED
      BY <2>6, <3>1, <3>2, <3>3, <3>4
      DEF TypeInv, TypeOK, VerifyReplaced, mailing, history
  <2>7. ASSUME NEW r \in Request, NEW e \in Mail, VerifyRequested(c, l, d, r, e)
        PROVE  TypeInv'
    <3>1. req' \in [Request -> ReqRow] /\ Rows'
      <4> DEFINE row == [state |-> "active", license |-> l, device |-> d, created |-> now,
                         expires |-> now + Window, approved |-> FALSE, replacement |-> None]
      <4>1. row \in ReqRow /\ row.state = "active" /\ row.license = l
        BY Choices, ConstantsAssumption DEF TypeOK, ReqRow
      <4>2. req' = [req EXCEPT ![r] = row]
        BY <2>7 DEF VerifyRequested
      <4> HIDE DEF row
      <4> QED
        BY <4>1, <4>2 DEF TypeOK, Rows
    <3>2. mail' \in [Mail -> MailRow] /\ task' \in [Mail -> TaskRow]
      BY <2>7, <2>p DEF VerifyRequested, TypeOK, MailRow, TaskRow
    <3> QED
      BY <2>7, <3>1, <3>2 DEF TypeInv, TypeOK, VerifyRequested, history
  <2> QED
    BY <1>2, <2>1, <2>2, <2>3, <2>4, <2>5, <2>6, <2>7 DEF Verify
<1>3. ASSUME NEW e \in Mail, MarkSent(e) \/ Delivered(e) \/ DeliveryFailed(e) \/ MarkDelivered(e)
      PROVE  TypeInv'
  <2> USE <1>0
  <2>1. task[e].conn \in Conn \cup {None} /\ task[e].reply \in Reply
    BY DEF TypeOK, TaskRow, Reply
  <2>2. Idle \in TaskRow
    BY DEF Idle, TaskRow
  <2>3. CASE MarkSent(e)
    <3>1. mail' \in [Mail -> MailRow]
      <4>1. mail[e] \in MailRow
        BY DEF TypeOK
      <4>2. mail' = [mail EXCEPT ![e] = [mail[e] EXCEPT !.notif = "sent", !.stamps = @ \cup {"sent"}]]
        BY <2>3 DEF MarkSent
      <4> QED
        BY <4>1, <4>2, MailUpdate DEF TypeOK
    <3>2. task' \in [Mail -> TaskRow]
      BY <2>3 DEF MarkSent, TypeOK, TaskRow
    <3> QED
      BY <2>3, <3>1, <3>2 DEF TypeInv, TypeOK, Rows, MarkSent, tables, history
  <2>4. CASE Delivered(e)
    <3>1. task' \in [Mail -> TaskRow]
      BY <2>4 DEF Delivered, TypeOK, TaskRow
    <3> QED
      BY <2>4, <3>1 DEF TypeInv, TypeOK, Rows, Delivered, tables, history
  <2>5. CASE DeliveryFailed(e)
    <3>1. reply' \in [Conn -> Reply]
      BY <2>1, <2>5, AnswerType DEF DeliveryFailed, Finish
    <3> QED
      BY <2>2, <2>5, <3>1 DEF TypeInv, TypeOK, Rows, DeliveryFailed, Finish, tables, history
  <2>6. CASE MarkDelivered(e)
    <3>1. reply' \in [Conn -> Reply]
      BY <2>1, <2>6, AnswerType DEF MarkDelivered, Finish
    <3>2. mail' \in [Mail -> MailRow]
      <4>1. mail[e] \in MailRow
        BY DEF TypeOK
      <4>2. mail' = [mail EXCEPT ![e] =
                [mail[e] EXCEPT !.notif = "delivered", !.stamps = @ \cup {"sent", "delivered"}]]
        BY <2>6 DEF MarkDelivered
      <4> QED
        BY <4>1, <4>2, MailUpdate DEF TypeOK
    <3> QED
      BY <2>2, <2>6, <3>1, <3>2 DEF TypeInv, TypeOK, Rows, MarkDelivered, Finish, tables, history
  <2> QED
    BY <1>3, <2>3, <2>4, <2>5, <2>6
<1>4. CASE Restart
  BY <1>0, <1>4
  DEF TypeInv, TypeOK, Rows, Restart, Reply, Idle, TaskRow, tables, history
<1>5. ASSUME NEW c \in Conn, Disconnect(c)
      PROVE  TypeInv'
  <2> USE <1>0
  <2>1. \A e \in Mail : [task[e] EXCEPT !.conn = None] \in TaskRow
    BY DEF TypeOK, TaskRow
  <2>2. task' \in [Mail -> TaskRow]
    BY <1>5, <2>1 DEF Disconnect, TypeOK
  <2> QED
    BY <1>5, <2>2 DEF TypeInv, TypeOK, Rows, Disconnect, Reply, tables, history
<1>6. ASSUME NEW e \in Mail, Confirm(e)
      PROVE  TypeInv'
  <2> USE <1>0
  <2>1. mail' \in [Mail -> MailRow]
    <3>1. \A m \in Mail : mail[m] \in MailRow
      BY DEF TypeOK
    <3> QED
      BY <1>6, <3>1, MailUpdate DEF Confirm
  <2>2. req' \in [Request -> ReqRow] /\ Rows'
    <3> DEFINE r == mail[e].request
    <3>1. r \in Request
      BY <1>6 DEF Confirm, TypeOK, MailRow
    <3>2. req[r] \in ReqRow
      BY <3>1 DEF TypeOK
    <3>3. req' = [req EXCEPT ![r] = [req[r] EXCEPT !.approved = TRUE]]
      BY <1>6 DEF Confirm
    <3>4. req[r].state # "absent"
      BY <1>6 DEF Confirm, Linked
    <3> HIDE DEF r
    <3> QED
      BY <3>1, <3>2, <3>3, <3>4, RequestUpdate DEF TypeOK, Rows
  <2> QED
    BY <1>6, <2>1, <2>2 DEF TypeInv, TypeOK, Confirm, history
<1>7. ASSUME NEW l \in License, ReadNotifications(l)
      PROVE  TypeInv'
  <2> USE <1>0
  <2>1. mail' \in [Mail -> MailRow]
    <3>1. \A m \in Mail : mail[m] \in MailRow
      BY DEF TypeOK
    <3> QED
      BY <1>7, <3>1, MailUpdate DEF ReadNotifications
  <2>2. shown' \in [Mail -> Nat]
    <3>1. \A e \in Mail : shown[e] \in Nat /\ shown[e] + 1 \in Nat
      BY DEF TypeOK
    <3> QED
      BY <1>7, <3>1 DEF ReadNotifications
  <2> QED
    BY <1>7, <2>1, <2>2 DEF TypeInv, TypeOK, Rows, ReadNotifications, tables
<1>8. CASE Admin
  <2> USE <1>0 DEF NoteChange, NoteRestore
  <2>1. ASSUME NEW l \in License, NEW e \in Mail, CreateNotification(l, e)
        PROVE  TypeInv'
    BY <2>1 DEF TypeInv, TypeOK, Rows, CreateNotification, MailRow, TaskRow, tables
  <2>2. ASSUME NEW r \in Request, ApproveRequest(r)
        PROVE  TypeInv'
    <3>1. req[r] \in ReqRow /\ req[r].state # "absent"
      BY <2>2 DEF ApproveRequest, TypeOK
    <3>2. req' = [req EXCEPT ![r] = [req[r] EXCEPT !.approved = TRUE]]
      BY <2>2 DEF ApproveRequest
    <3>3. req' \in [Request -> ReqRow] /\ Rows'
      BY <3>1, <3>2, RequestUpdate DEF TypeOK, Rows
    <3> QED
      BY <2>2, <3>3 DEF TypeInv, TypeOK, ApproveRequest, mailing, history
  <2>3. ASSUME NEW l \in License, NEW granted \in Grants, UpdateFeatures(l, granted)
        PROVE  TypeInv'
    BY <2>3, Choices DEF TypeInv, TypeOK, Rows, UpdateFeatures, mailing
  <2>4. ASSUME NEW l \in License, NEW active \in BOOLEAN, SetKeyActive(l, active)
        PROVE  TypeInv'
    <3>1. key' \in [License -> KeyRow]
      BY <2>4 DEF SetKeyActive, TypeOK, KeyRow
    <3> QED
      BY <2>4, <3>1 DEF TypeInv, TypeOK, Rows, SetKeyActive, mailing
  <2>5. ASSUME NEW l \in License, NEW state \in RecordState, SetLicenseState(l, state)
        PROVE  TypeInv'
    <3>1. key' \in [License -> KeyRow] /\ lic' \in [License -> RowState]
      BY <2>5 DEF SetLicenseState, Restate, TypeOK, KeyRow, RowState
    <3>2. inst' \in [License \X Device -> InstRow]
      BY <2>5 DEF SetLicenseState, Restate, TypeOK, InstRow, RowState
    <3>3. req' \in [Request -> ReqRow] /\ Rows'
      <4>1. \A r \in Request : req[r] \in ReqRow
        BY DEF TypeOK
      <4> QED
        BY <2>5, <4>1, RequestState DEF SetLicenseState, Restate, Rows
    <3> QED
      BY <2>5, <3>1, <3>2, <3>3 DEF TypeInv, TypeOK, SetLicenseState, mailing
  <2>6. ASSUME NEW l \in License, NEW state \in RecordState, SetKeyState(l, state)
        PROVE  TypeInv'
    BY <2>6 DEF TypeInv, TypeOK, Rows, SetKeyState, KeyRow, RowState, mailing
  <2>7. ASSUME NEW l \in License, NEW d \in Device, NEW state \in RecordState,
               SetInstallationState(l, d, state)
        PROVE  TypeInv'
    BY SMTT(30), <2>7 DEF TypeInv, TypeOK, Rows, SetInstallationState, InstRow, RowState, mailing
  <2>8. ASSUME NEW r \in Request, NEW state \in RecordState, SetRequestState(r, state)
        PROVE  TypeInv'
    <3>1. req[r] \in ReqRow /\ req[r].license \in License
      BY <2>8 DEF SetRequestState, TypeOK, Rows
    <3>2. req' = [req EXCEPT ![r] = [req[r] EXCEPT !.state = state]]
      BY <2>8 DEF SetRequestState
    <3>3. req' \in [Request -> ReqRow] /\ Rows'
      BY <3>1, <3>2, RequestState DEF TypeOK, Rows
    <3> QED
      BY <2>8, <3>1, <3>3 DEF TypeInv, TypeOK, SetRequestState, mailing
  <2> QED
    BY <1>8, <2>1, <2>2, <2>3, <2>4, <2>5, <2>6, <2>7, <2>8 DEF Admin
<1>9. CASE Tick
  BY <1>0, <1>9 DEF TypeInv, TypeOK, Rows, Tick, tables, mailing, history
<1>10. CASE UNCHANGED vars
  BY <1>0, <1>10 DEF TypeInv, TypeOK, Rows, vars
<1> QED
  BY <1>1, <1>2, <1>3, <1>4, <1>5, <1>6, <1>7, <1>8, <1>9, <1>10
  DEF Next, Mailer, Owner, NewSecrets

-----------------------------------------------------------------------------
(* Which handlers write which table.                                       *)

RequestWriters ==
    \/ \E c \in Conn \cup {None}, l, n \in License, d \in Device, s \in Secret :
            VerifyReplaced(c, l, d, s, n)
    \/ \E c \in Conn \cup {None}, l \in License, d \in Device, r \in Request, e \in Mail :
            VerifyRequested(c, l, d, r, e)
    \/ \E e \in Mail : Confirm(e)
    \/ \E r \in Request : ApproveRequest(r)
    \/ \E l \in License, state \in RecordState : SetLicenseState(l, state)
    \/ \E r \in Request, state \in RecordState : SetRequestState(r, state)

LEMMA OnlyRequestWriters == [Next]_vars => RequestWriters \/ req' = req
<1>1. ASSUME NEW c \in Conn \cup {None}, NEW l \in License, NEW d \in Device,
             NEW provided \in Secret \cup {None}, NEW s \in Secret,
             Verify(c, l, d, provided, s)
      PROVE  RequestWriters \/ req' = req
  BY <1>1
  DEF Verify, RequestWriters, VerifyRefused, VerifyInitial, VerifyTrusted, VerifyPromoted,
      VerifyPending, tables
<1>2. ASSUME \/ Mailer \/ Restart \/ Tick
             \/ \E c \in Conn : Disconnect(c)
             \/ \E l \in License : ReadNotifications(l)
             \/ \E l \in License, granted \in Grants : IssueLicense(l, granted)
      PROVE  req' = req
  BY <1>2
  DEF Mailer, Restart, Tick, Disconnect, ReadNotifications, IssueLicense, MarkSent, Delivered,
      DeliveryFailed, MarkDelivered, tables
<1>3. CASE Admin
  BY <1>3
  DEF Admin, RequestWriters, CreateNotification, UpdateFeatures, SetKeyActive, SetKeyState,
      SetInstallationState, tables
<1>4. CASE Owner
  BY <1>4 DEF Owner, RequestWriters
<1> QED
  BY <1>1, <1>2, <1>3, <1>4 DEF Next, vars, NewSecrets

MailWriters ==
    \/ \E c \in Conn \cup {None}, l \in License, d \in Device, r \in Request, e \in Mail :
            VerifyRequested(c, l, d, r, e)
    \/ \E l \in License, e \in Mail : CreateNotification(l, e)
    \/ \E e \in Mail : MarkSent(e) \/ MarkDelivered(e) \/ Confirm(e)
    \/ \E l \in License : ReadNotifications(l)

LEMMA OnlyMailWriters == [Next]_vars => MailWriters \/ mail' = mail
<1>1. ASSUME NEW c \in Conn \cup {None}, NEW l \in License, NEW d \in Device,
             NEW provided \in Secret \cup {None}, NEW s \in Secret,
             Verify(c, l, d, provided, s)
      PROVE  MailWriters \/ mail' = mail
  BY <1>1
  DEF Verify, MailWriters, VerifyRefused, VerifyInitial, VerifyTrusted, VerifyPromoted,
      VerifyPending, VerifyReplaced, mailing
<1>2. ASSUME \/ Restart \/ Tick
             \/ \E c \in Conn : Disconnect(c)
             \/ \E l \in License, granted \in Grants : IssueLicense(l, granted)
      PROVE  mail' = mail
  BY <1>2 DEF Restart, Tick, Disconnect, IssueLicense, mailing
<1>3. CASE Mailer
  BY <1>3 DEF Mailer, MailWriters, Delivered, DeliveryFailed
<1>4. CASE Admin
  BY <1>4
  DEF Admin, MailWriters, ApproveRequest, UpdateFeatures, SetKeyActive, SetKeyState,
      SetLicenseState, SetInstallationState, SetRequestState, mailing
<1>5. CASE Owner
  BY <1>5 DEF Owner, MailWriters
<1> QED
  BY <1>1, <1>2, <1>3, <1>4, <1>5 DEF Next, MailWriters, vars, NewSecrets

-----------------------------------------------------------------------------
(* No handler deletes a row, moves a request to another license or device, *)
(* or takes an approval or a soft deletion of a mail back.                 *)

RequestsKept ==
    \A r \in Request : req[r].state # "absent" =>
        /\ req'[r].state # "absent"
        /\ req'[r].license = req[r].license /\ req'[r].device = req[r].device
        /\ req[r].approved => req'[r].approved

LEMMA StepRequests == TypeInv /\ [Next]_vars => RequestsKept
<1> SUFFICES ASSUME TypeInv, [Next]_vars PROVE RequestsKept
  OBVIOUS
<1>0. TypeOK /\ \A r \in Request : req[r] \in ReqRow
  BY DEF TypeInv, TypeOK
<1>1. ASSUME NEW r \in Request, NEW n \in License,
             req' = [req EXCEPT ![r] = [req[r] EXCEPT !.replacement = n]]
      PROVE  RequestsKept
  BY <1>0, <1>1, RequestUpdate DEF RequestsKept, TypeOK
<1>2. ASSUME NEW r \in Request, req' = [req EXCEPT ![r] = [req[r] EXCEPT !.approved = TRUE]]
      PROVE  RequestsKept
  BY <1>0, <1>2, RequestUpdate DEF RequestsKept, TypeOK
<1>3. ASSUME NEW r \in Request, NEW row, req[r].state = "absent", req' = [req EXCEPT ![r] = row]
      PROVE  RequestsKept
  BY <1>0, <1>3 DEF RequestsKept, TypeOK
<1>4. ASSUME NEW state \in RecordState,
             \A r \in Request : req'[r] = req[r] \/ req'[r] = [req[r] EXCEPT !.state = state]
      PROVE  RequestsKept
  <2>1. ASSUME NEW r \in Request
        PROVE  /\ [req[r] EXCEPT !.state = state].license = req[r].license
               /\ [req[r] EXCEPT !.state = state].device = req[r].device
               /\ [req[r] EXCEPT !.state = state].approved = req[r].approved
               /\ [req[r] EXCEPT !.state = state].state # "absent"
    BY <1>0, RequestState
  <2> QED
    BY <1>4, <2>1 DEF RequestsKept
<1>5. ASSUME NEW c \in Conn \cup {None}, NEW l \in License, NEW n \in License,
             NEW d \in Device, NEW s \in Secret, VerifyReplaced(c, l, d, s, n)
      PROVE  RequestsKept
  <2>1. PICK r \in Request : req' = [req EXCEPT ![r] = [req[r] EXCEPT !.replacement = n]]
    BY <1>5 DEF VerifyReplaced, PendingRequest, OpenRequests
  <2> QED
    BY <1>1, <2>1
<1>6. ASSUME NEW c \in Conn \cup {None}, NEW l \in License, NEW d \in Device,
             NEW r \in Request, NEW e \in Mail, VerifyRequested(c, l, d, r, e)
      PROVE  RequestsKept
  BY <1>3, <1>6 DEF VerifyRequested
<1>7. ASSUME NEW e \in Mail, Confirm(e)
      PROVE  RequestsKept
  <2>1. mail[e].request \in Request
    BY <1>0, <1>7 DEF Confirm, TypeOK, MailRow
  <2>2. req' = [req EXCEPT ![mail[e].request] = [req[mail[e].request] EXCEPT !.approved = TRUE]]
    BY <1>7 DEF Confirm
  <2> QED
    BY <1>2, <2>1, <2>2
<1>8. ASSUME NEW r \in Request, ApproveRequest(r)
      PROVE  RequestsKept
  BY <1>2, <1>8 DEF ApproveRequest
<1>9. ASSUME NEW l \in License, NEW state \in RecordState, SetLicenseState(l, state)
      PROVE  RequestsKept
  BY <1>4, <1>9 DEF SetLicenseState, Restate
<1>10. ASSUME NEW r \in Request, NEW state \in RecordState, SetRequestState(r, state)
       PROVE  RequestsKept
  <2>1. req' = [req EXCEPT ![r] = [req[r] EXCEPT !.state = state]]
    BY <1>10 DEF SetRequestState
  <2>2. \A q \in Request : req'[q] = req[q] \/ req'[q] = [req[q] EXCEPT !.state = state]
    BY <1>0, <2>1 DEF TypeOK
  <2> QED
    BY <1>4, <2>2
<1>11. CASE req' = req
  BY <1>11 DEF RequestsKept
<1> QED
  BY <1>5, <1>6, <1>7, <1>8, <1>9, <1>10, <1>11, OnlyRequestWriters DEF RequestWriters

\* what an UPDATE of a mail's state leaves alone
LEMMA MailUpdateKeeps ==
    ASSUME NEW row \in MailRow
    PROVE  LET sent == [row EXCEPT !.notif = "sent", !.stamps = @ \cup {"sent"}]
               delivered == [row EXCEPT !.notif = "delivered", !.stamps = @ \cup {"sent", "delivered"}]
               read == [row EXCEPT !.notif = "read", !.stamps = @ \cup {"read"}, !.state = "deleted"]
           IN  /\ sent.request = row.request /\ sent.state = row.state
               /\ delivered.request = row.request /\ delivered.state = row.state
               /\ read.request = row.request /\ read.state = "deleted"
               /\ "read" \in sent.stamps <=> "read" \in row.stamps
               /\ "read" \in delivered.stamps <=> "read" \in row.stamps
               /\ "read" \in read.stamps
  BY DEF MailRow

(* Every step takes a mail to itself, to the row of a mail just created, or *)
(* to one of the three updates; reading needs its reason.                   *)
MailStep ==
    \A e \in Mail :
        \/ mail'[e] = mail[e]
        \/ mail[e].state = "absent" /\ mail'[e].state = "active" /\ mail'[e].stamps = {}
             /\ \/ mail'[e].request = None
                \/ mail'[e].request \in Request /\ req'[mail'[e].request].state # "absent"
        \/ mail'[e] = [mail[e] EXCEPT !.notif = "sent", !.stamps = @ \cup {"sent"}]
        \/ mail'[e] = [mail[e] EXCEPT !.notif = "delivered", !.stamps = @ \cup {"sent", "delivered"}]
        \/ /\ mail'[e] = [mail[e] EXCEPT !.notif = "read", !.stamps = @ \cup {"read"}, !.state = "deleted"]
           /\ mail[e].request # None => req'[mail[e].request].approved

LEMMA StepMail == TypeInv /\ [Next]_vars => MailStep
<1> SUFFICES ASSUME TypeInv, [Next]_vars PROVE MailStep
  OBVIOUS
<1>0. TypeOK
  BY DEF TypeInv
<1>1. ASSUME NEW c \in Conn \cup {None}, NEW l \in License, NEW d \in Device,
             NEW r \in Request, NEW e \in Mail, VerifyRequested(c, l, d, r, e)
      PROVE  MailStep
  <2>1. mail[e].state = "absent" /\ req'[r].state = "active"
    BY <1>0, <1>1 DEF VerifyRequested, TypeOK
  <2>2. PICK row : /\ row.state = "active" /\ row.stamps = {} /\ row.request = r
                   /\ mail' = [mail EXCEPT ![e] = row]
    BY <1>1 DEF VerifyRequested
  <2> QED
    BY <1>0, <2>1, <2>2 DEF MailStep, TypeOK
<1>2. ASSUME NEW l \in License, NEW e \in Mail, CreateNotification(l, e)
      PROVE  MailStep
  <2>1. PICK row : /\ row.state = "active" /\ row.stamps = {} /\ row.request = None
                   /\ mail' = [mail EXCEPT ![e] = row]
    BY <1>2 DEF CreateNotification
  <2> QED
    BY <1>0, <1>2, <2>1 DEF CreateNotification, MailStep, TypeOK
<1>3. ASSUME NEW e \in Mail, MarkSent(e)
      PROVE  MailStep
  <2>1. mail' = [mail EXCEPT ![e] = [mail[e] EXCEPT !.notif = "sent", !.stamps = @ \cup {"sent"}]]
    BY <1>3 DEF MarkSent
  <2> QED
    BY <1>0, <2>1 DEF MailStep, TypeOK
<1>4. ASSUME NEW e \in Mail, MarkDelivered(e)
      PROVE  MailStep
  <2>1. mail' = [mail EXCEPT ![e] =
            [mail[e] EXCEPT !.notif = "delivered", !.stamps = @ \cup {"sent", "delivered"}]]
    BY <1>4 DEF MarkDelivered
  <2> QED
    BY <1>0, <2>1 DEF MailStep, TypeOK
<1>5. ASSUME NEW e \in Mail, Confirm(e)
      PROVE  MailStep
  <2>1. mail[e].request \in Request
    BY <1>0, <1>5 DEF Confirm, TypeOK, MailRow
  <2>2. req[mail[e].request] \in ReqRow
    BY <1>0, <2>1 DEF TypeOK
  <2>3. req'[mail[e].request] = [req[mail[e].request] EXCEPT !.approved = TRUE]
    BY <1>0, <1>5, <2>1 DEF Confirm, TypeOK
  <2>4. req'[mail[e].request].approved
    BY <2>2, <2>3, RequestUpdate
  <2> QED
    BY <1>5, <2>4 DEF Confirm, MailStep
<1>6. ASSUME NEW l \in License, ReadNotifications(l)
      PROVE  MailStep
  BY <1>6 DEF ReadNotifications, Unread, MailStep
<1>7. CASE mail' = mail
  BY <1>7 DEF MailStep
<1> QED
  BY <1>1, <1>2, <1>3, <1>4, <1>5, <1>6, <1>7, OnlyMailWriters DEF MailWriters

LEMMA StepLinked == TypeInv /\ Linked /\ [Next]_vars => Linked'
<1> SUFFICES ASSUME TypeInv, Linked, [Next]_vars, NEW e \in Mail, mail'[e].request # None
             PROVE  req'[mail'[e].request].state # "absent"
  BY DEF Linked
<1>1. RequestsKept /\ MailStep
  BY StepRequests, StepMail
<1>2. mail[e] \in MailRow
  BY DEF TypeInv, TypeOK
<1>3. mail'[e].request = mail[e].request \/ req'[mail'[e].request].state # "absent"
  BY <1>1, <1>2, MailUpdateKeeps DEF MailStep
<1>4. mail[e].request # None => mail[e].request \in Request
  BY <1>2 DEF MailRow
<1> QED
  BY <1>1, <1>3, <1>4 DEF Linked, RequestsKept

LEMMA Always == Spec => [](TypeInv /\ Linked)
  BY InitType, StepType, StepLinked, PTL DEF Spec

\* The server's tables always hold well-formed rows (every handler's INSERTs and
\* UPDATEs in main.rs).
THEOREM TypeCorrect == Spec => []TypeOK
<1>1. TypeInv => TypeOK
  BY DEF TypeInv
<1> QED
  BY <1>1, Always, PTL

\* A mail is soft deleted exactly when it was read, and a confirmation mail only
\* by confirming, whatever mark_notification_sent and _delivered write later.
THEOREM ReadMail == Spec => []ReadMailSettled
<1>1. Init => ReadMailSettled
  BY DEF Init, ReadMailSettled, NoMail
<1>2. TypeInv /\ Linked /\ ReadMailSettled /\ [Next]_vars => ReadMailSettled'
  <2> SUFFICES ASSUME TypeInv, Linked, ReadMailSettled, [Next]_vars, NEW e \in Mail
               PROVE  /\ mail'[e].state = "deleted" <=> "read" \in mail'[e].stamps
                      /\ (mail'[e].state = "deleted" /\ mail'[e].request # None)
                            => req'[mail'[e].request].approved
    BY DEF ReadMailSettled
  <2>1. RequestsKept /\ MailStep
    BY StepRequests, StepMail
  <2>2. mail[e] \in MailRow /\ (mail[e].request # None => mail[e].request \in Request)
    BY DEF TypeInv, TypeOK, MailRow
  <2>3. mail[e].request # None /\ req[mail[e].request].approved => req'[mail[e].request].approved
    BY <2>1, <2>2 DEF Linked, RequestsKept
  <2>4. /\ mail[e].state = "deleted" <=> "read" \in mail[e].stamps
        /\ (mail[e].state = "deleted" /\ mail[e].request # None) => req[mail[e].request].approved
    BY DEF ReadMailSettled
  <2>5. CASE mail'[e] = mail[e]
    BY <2>3, <2>4, <2>5
  <2>6. CASE mail'[e].state = "active" /\ mail'[e].stamps = {}
    BY <2>6
  <2>7. CASE mail'[e] = [mail[e] EXCEPT !.notif = "sent", !.stamps = @ \cup {"sent"}]
    BY <2>2, <2>3, <2>4, <2>7, MailUpdateKeeps
  <2>8. CASE mail'[e] = [mail[e] EXCEPT !.notif = "delivered", !.stamps = @ \cup {"sent", "delivered"}]
    BY <2>2, <2>3, <2>4, <2>8, MailUpdateKeeps
  <2>9. CASE /\ mail'[e] = [mail[e] EXCEPT !.notif = "read", !.stamps = @ \cup {"read"}, !.state = "deleted"]
             /\ mail[e].request # None => req'[mail[e].request].approved
    BY <2>2, <2>9, MailUpdateKeeps
  <2> QED
    BY <2>1, <2>5, <2>6, <2>7, <2>8, <2>9 DEF MailStep
<1> QED
  BY <1>1, <1>2, Always, PTL DEF Spec

(* shown counts the times read_client_notifications selected a mail: a mail *)
(* that was shown is soft deleted, and no later step brings it back.        *)
ShownInv == \A e \in Mail : shown[e] <= 1 /\ (shown[e] # 0 => mail[e].state = "deleted")

LEMMA OnlyReader == [Next]_vars => shown' = shown \/ \E l \in License : ReadNotifications(l)
<1>1. ASSUME NEW c \in Conn \cup {None}, NEW l \in License, NEW d \in Device,
             NEW provided \in Secret \cup {None}, NEW s \in Secret,
             Verify(c, l, d, provided, s)
      PROVE  shown' = shown
  BY <1>1
  DEF Verify, VerifyRefused, VerifyInitial, VerifyTrusted, VerifyPromoted, VerifyPending,
      VerifyReplaced, VerifyRequested, history
<1>2. ASSUME \/ Mailer \/ Owner \/ Restart \/ Tick
             \/ \E c \in Conn : Disconnect(c)
             \/ \E l \in License, granted \in Grants : IssueLicense(l, granted)
      PROVE  shown' = shown
  BY <1>2
  DEF Mailer, Owner, Restart, Tick, Disconnect, IssueLicense, MarkSent, Delivered,
      DeliveryFailed, MarkDelivered, Confirm, history
<1>3. ASSUME Admin PROVE shown' = shown
  BY <1>3
  DEF Admin, CreateNotification, ApproveRequest, UpdateFeatures, SetKeyActive, SetKeyState,
      SetLicenseState, SetInstallationState, SetRequestState, history
<1> QED
  BY <1>1, <1>2, <1>3 DEF Next, vars, NewSecrets

\* A client notification is handed out at most once, however its row's
\* notification_state is moved about by the sender (read_client_notifications).
THEOREM NotificationOnce == Spec => []ShownOnce
<1>1. Init => ShownInv
  BY DEF Init, ShownInv
<1>2. TypeInv /\ ShownInv /\ [Next]_vars => ShownInv'
  <2> SUFFICES ASSUME TypeInv, ShownInv, [Next]_vars, NEW e \in Mail
               PROVE  shown'[e] <= 1 /\ (shown'[e] # 0 => mail'[e].state = "deleted")
    BY DEF ShownInv
  <2>1. MailStep
    BY StepMail
  <2>2. mail[e] \in MailRow /\ shown[e] \in Nat
    BY DEF TypeInv, TypeOK
  <2>3. CASE shown' = shown
    <3>1. mail[e].state = "deleted" => mail'[e].state = "deleted"
      BY ZenonT(30), <2>1, <2>2, MailUpdateKeeps DEF MailStep
    <3> QED
      BY <2>3, <3>1 DEF ShownInv
  <2>4. ASSUME NEW l \in License, ReadNotifications(l)
        PROVE  shown'[e] <= 1 /\ (shown'[e] # 0 => mail'[e].state = "deleted")
    <3>1. CASE e \in Unread(l)
      <4>1. shown[e] = 0
        BY <2>2, <3>1 DEF Unread, ShownInv
      <4>2. shown'[e] = 1
        <5>1. shown'[e] = shown[e] + 1
          BY <2>4, <3>1 DEF ReadNotifications
        <5> QED
          BY <4>1, <5>1
      <4>3. mail'[e] = [mail[e] EXCEPT !.notif = "read", !.stamps = @ \cup {"read"}, !.state = "deleted"]
        BY <2>4, <3>1 DEF ReadNotifications
      <4> QED
        <5>1. mail'[e].state = "deleted"
          BY <2>2, <4>3, MailUpdateKeeps
        <5> QED
          BY <4>2, <5>1
    <3>2. CASE e \notin Unread(l)
      BY <2>4, <3>2 DEF ReadNotifications, ShownInv
    <3> QED
      BY <3>1, <3>2
  <2> QED
    BY <2>3, <2>4, OnlyReader
<1>3. ShownInv => ShownOnce
  BY DEF ShownInv, ShownOnce
<1> QED
  BY <1>1, <1>2, <1>3, Always, PTL DEF Spec

-----------------------------------------------------------------------------
(* Only verify_key with no open request opens one, and only an admin        *)
(* reopens soft-deleted ones, which restored remembers.                     *)
NoneReopened ==
    \A r \in Request : (req'[r].state = "active" /\ req'[r].license \notin restored') =>
        /\ req[r].state = "active"
        /\ req[r].license = req'[r].license /\ req[r].device = req'[r].device

LEMMA StepReopened ==
    TypeInv /\ [Next]_vars =>
        \/ NoneReopened
        \/ \E c \in Conn \cup {None}, l \in License, d \in Device, r \in Request, e \in Mail :
                VerifyRequested(c, l, d, r, e)
<1> SUFFICES ASSUME TypeInv, RequestWriters \/ req' = req,
                    ~\E c \in Conn \cup {None}, l \in License, d \in Device, r \in Request,
                        e \in Mail : VerifyRequested(c, l, d, r, e)
             PROVE  NoneReopened
  BY OnlyRequestWriters
<1>0. TypeOK /\ \A r \in Request : req[r] \in ReqRow
  BY DEF TypeInv, TypeOK
<1>1. ASSUME NEW r \in Request, NEW row, req' = [req EXCEPT ![r] = row],
             row.state = req[r].state, row.license = req[r].license, row.device = req[r].device
      PROVE  NoneReopened
  BY <1>0, <1>1 DEF NoneReopened, TypeOK
<1>2. ASSUME NEW c \in Conn \cup {None}, NEW l \in License, NEW n \in License,
             NEW d \in Device, NEW s \in Secret, VerifyReplaced(c, l, d, s, n)
      PROVE  NoneReopened
  <2>1. PICK r \in Request : req' = [req EXCEPT ![r] = [req[r] EXCEPT !.replacement = n]]
    BY <1>2 DEF VerifyReplaced, PendingRequest, OpenRequests
  <2>2. req[r] \in ReqRow
    BY <1>0
  <2> QED
    BY <1>1, <2>1, <2>2, RequestUpdate
<1>3. ASSUME NEW r \in Request, req' = [req EXCEPT ![r] = [req[r] EXCEPT !.approved = TRUE]]
      PROVE  NoneReopened
  <2>1. req[r] \in ReqRow
    BY <1>0
  <2>2. /\ [req[r] EXCEPT !.approved = TRUE].state = req[r].state
        /\ [req[r] EXCEPT !.approved = TRUE].license = req[r].license
        /\ [req[r] EXCEPT !.approved = TRUE].device = req[r].device
    BY <2>1 DEF ReqRow
  <2> QED
    BY <1>1, <1>3, <2>2
<1>4. ASSUME NEW e \in Mail, Confirm(e)
      PROVE  NoneReopened
  <2>1. mail[e].request \in Request
    BY <1>0, <1>4 DEF Confirm, TypeOK, MailRow
  <2>2. req' = [req EXCEPT ![mail[e].request] = [req[mail[e].request] EXCEPT !.approved = TRUE]]
    BY <1>4 DEF Confirm
  <2> QED
    BY <1>3, <2>1, <2>2
<1>5. ASSUME NEW r \in Request, ApproveRequest(r)
      PROVE  NoneReopened
  BY <1>3, <1>5 DEF ApproveRequest
<1>6. ASSUME NEW state \in RecordState, NEW r \in Request,
             req'[r] = [req[r] EXCEPT !.state = state],
             state = "active" => req[r].license \in restored'
      PROVE  ~(req'[r].state = "active" /\ req'[r].license \notin restored')
  <2>1. req[r] \in ReqRow
    BY <1>0
  <2>2. req'[r].state = state /\ req'[r].license = req[r].license
    BY <1>6, <2>1, RequestState
  <2> QED
    BY <1>6, <2>2
<1>7. ASSUME NEW l \in License, NEW state \in RecordState, SetLicenseState(l, state)
      PROVE  NoneReopened
  <2>1. state = "active" => l \in restored'
    BY <1>7 DEF SetLicenseState, NoteRestore
  <2>2. \A r \in Request : \/ req'[r] = req[r]
                           \/ req[r].license = l /\ req'[r] = [req[r] EXCEPT !.state = state]
    BY <1>7 DEF SetLicenseState, Restate
  <2> QED
    BY <1>6, <2>1, <2>2 DEF NoneReopened
<1>8. ASSUME NEW q \in Request, NEW state \in RecordState, SetRequestState(q, state)
      PROVE  NoneReopened
  <2>1. state = "active" => req[q].license \in restored'
    BY <1>8 DEF SetRequestState, NoteRestore
  <2>2. req' = [req EXCEPT ![q] = [req[q] EXCEPT !.state = state]]
    BY <1>8 DEF SetRequestState
  <2>3. \A r \in Request : \/ req'[r] = req[r]
                           \/ r = q /\ req'[r] = [req[r] EXCEPT !.state = state]
    BY <1>0, <2>2 DEF TypeOK
  <2> QED
    BY <1>6, <2>1, <2>3 DEF NoneReopened
<1>9. CASE req' = req
  BY <1>9 DEF NoneReopened
<1> QED
  BY <1>2, <1>4, <1>5, <1>7, <1>8, <1>9 DEF RequestWriters

\* what the admin brought back stays on record
LEMMA RestoredGrows == [Next]_vars => restored \subseteq restored'
<1>1. ASSUME NEW c \in Conn \cup {None}, NEW l \in License, NEW d \in Device,
             NEW provided \in Secret \cup {None}, NEW s \in Secret,
             Verify(c, l, d, provided, s)
      PROVE  restored' = restored
  BY <1>1
  DEF Verify, VerifyRefused, VerifyInitial, VerifyTrusted, VerifyPromoted, VerifyPending,
      VerifyReplaced, VerifyRequested, history
<1>2. ASSUME \/ Mailer \/ Owner \/ Restart \/ Tick
             \/ \E c \in Conn : Disconnect(c)
             \/ \E l \in License : ReadNotifications(l)
             \/ \E l \in License, granted \in Grants : IssueLicense(l, granted)
      PROVE  restored' = restored
  BY <1>2
  DEF Mailer, Owner, Restart, Tick, Disconnect, ReadNotifications, IssueLicense, MarkSent,
      Delivered, DeliveryFailed, MarkDelivered, Confirm, history
<1>3. CASE Admin
  BY <1>3
  DEF Admin, NoteRestore, CreateNotification, ApproveRequest, UpdateFeatures, SetKeyActive,
      SetKeyState, SetLicenseState, SetInstallationState, SetRequestState, history
<1> QED
  BY <1>1, <1>2, <1>3 DEF Next, vars, NewSecrets

\* However often a device asks, its license has one open confirmation request
\* for it (find_pending_request before the INSERT in verify_key), unless an
\* admin brought soft-deleted requests of that license back.
THEOREM OneRequest == Spec => []OneOpenRequest
<1>1. Init => OneOpenRequest
  BY DEF Init, OneOpenRequest, OpenRequests, NoReq
<1>2. TypeInv /\ OneOpenRequest /\ [Next]_vars => OneOpenRequest'
  <2> SUFFICES ASSUME TypeInv, OneOpenRequest, [Next]_vars,
                      NEW l \in License, l \notin restored', NEW d \in Device,
                      NEW r \in Request, NEW q \in Request,
                      req'[r].state = "active", req'[r].license = l, req'[r].device = d,
                      req'[q].state = "active", req'[q].license = l, req'[q].device = d
               PROVE  r = q
    BY DEF OneOpenRequest, OpenRequests
  <2>1. CASE NoneReopened /\ l \notin restored
    BY <2>1 DEF NoneReopened, OneOpenRequest, OpenRequests
  <2>2. ASSUME NEW c \in Conn \cup {None}, NEW k \in License, NEW g \in Device,
               NEW x \in Request, NEW e \in Mail, VerifyRequested(c, k, g, x, e)
        PROVE  r = q
    <3>1. /\ OpenRequests(k, g) = {}
          /\ req'[x].license = k /\ req'[x].device = g
          /\ \A y \in Request : y # x => req'[y] = req[y]
      BY <2>2 DEF VerifyRequested, TypeInv, TypeOK
    <3>2. l \notin restored
      BY <2>2 DEF VerifyRequested, history
    <3> QED
      BY <3>1, <3>2 DEF OneOpenRequest, OpenRequests
  <2> QED
    BY <2>1, <2>2, RestoredGrows, StepReopened
<1> QED
  BY <1>1, <1>2, Always, PTL DEF Spec

-----------------------------------------------------------------------------
(* Which handlers write the installations, and what keeps SingleUnapproved: *)
(* a license without a row has no installations, so a replacement license   *)
(* starts with the one it is made for.                                      *)

Unlicensed == \A l \in License, d \in Device :
    lic[l] = "absent" => inst[<<l, d>>].state = "absent"

TrustInv == Unlicensed /\ SingleUnapproved

InstallationWriters ==
    \/ \E c \in Conn \cup {None}, l \in License, d \in Device, s \in Secret :
            \/ VerifyInitial(c, l, d, s)
            \/ VerifyPromoted(c, l, d, s)
            \/ \E provided \in Secret \cup {None} : VerifyTrusted(c, l, d, s, provided)
            \/ \E n \in License : VerifyReplaced(c, l, d, s, n)
    \/ \E l \in License, state \in RecordState : SetLicenseState(l, state)
    \/ \E l \in License, d \in Device, state \in RecordState : SetInstallationState(l, d, state)

LEMMA OnlyInstallationWriters ==
    [Next]_vars =>
        \/ InstallationWriters
        \/ /\ inst' = inst
           /\ lic' = lic \/ \E l \in License : lic' = [lic EXCEPT ![l] = "active"]
<1>1. ASSUME NEW c \in Conn \cup {None}, NEW l \in License, NEW d \in Device,
             NEW provided \in Secret \cup {None}, NEW s \in Secret,
             Verify(c, l, d, provided, s)
      PROVE  InstallationWriters \/ (inst' = inst /\ lic' = lic)
  BY <1>1
  DEF Verify, InstallationWriters, VerifyRefused, VerifyPending, VerifyRequested, tables
<1>2. ASSUME \/ Mailer \/ Owner \/ Restart \/ Tick
             \/ \E c \in Conn : Disconnect(c)
             \/ \E l \in License : ReadNotifications(l)
      PROVE  inst' = inst /\ lic' = lic
  BY <1>2
  DEF Mailer, Owner, Restart, Tick, Disconnect, ReadNotifications, MarkSent, Delivered,
      DeliveryFailed, MarkDelivered, Confirm, tables
<1>3. ASSUME NEW l \in License, NEW granted \in Grants, IssueLicense(l, granted)
      PROVE  inst' = inst /\ lic' = [lic EXCEPT ![l] = "active"]
  BY <1>3 DEF IssueLicense
<1>4. ASSUME Admin
      PROVE  InstallationWriters \/ (inst' = inst /\ lic' = lic)
  BY <1>4
  DEF Admin, InstallationWriters, CreateNotification, ApproveRequest, UpdateFeatures,
      SetKeyActive, SetKeyState, SetRequestState, tables
<1> QED
  BY <1>1, <1>2, <1>3, <1>4 DEF Next, vars, NewSecrets

LEMMA ApprovedStays ==
    ASSUME TypeInv, [Next]_vars, NEW l \in License, NEW d, Approved(l, d)
    PROVE  Approved(l, d)'
<1>1. PICK r \in Request : req[r].license = l /\ req[r].device = d /\ req[r].approved
  BY DEF Approved
<1>2. req[r].state # "absent"
  BY <1>1 DEF TypeInv, Rows, NoReq
<1> QED
  BY <1>1, <1>2, StepRequests DEF RequestsKept, Approved

LEMMA StepTrust == TypeInv /\ TrustInv /\ [Next]_vars => TrustInv'
<1> SUFFICES ASSUME TypeInv, TrustInv, [Next]_vars PROVE TrustInv'
  OBVIOUS
<1>0. /\ lic \in [License -> RowState] /\ inst \in [License \X Device -> InstRow]
      /\ Unlicensed /\ SingleUnapproved
  BY DEF TypeInv, TypeOK, TrustInv
\* a step that trusts no device it did not trust before, except on restored licenses
<1>1. ASSUME \A l \in License \ restored' : Trusted(l)' \subseteq Trusted(l)
      PROVE  SingleUnapproved'
  BY <1>0, <1>1, ApprovedStays, RestoredGrows DEF SingleUnapproved
\* a step that trusts one more device, the first or an approved one
<1>2. ASSUME NEW k \in License, NEW g \in Device,
             Trusted(k) = {} \/ Approved(k, g),
             Trusted(k)' \subseteq Trusted(k) \cup {g},
             \A l \in License \ {k} : Trusted(l)' = Trusted(l)
      PROVE  SingleUnapproved'
  <2> SUFFICES ASSUME NEW l \in License, l \notin restored',
                      NEW d1 \in Trusted(l)', NEW d2 \in Trusted(l)'
               PROVE  d1 = d2 \/ Approved(l, d1)' \/ Approved(l, d2)'
    BY DEF SingleUnapproved
  <2>1. l \notin restored
    BY RestoredGrows
  <2>2. CASE d1 \in Trusted(l) /\ d2 \in Trusted(l)
    BY <1>0, <2>1, <2>2, ApprovedStays DEF SingleUnapproved
  <2>3. CASE ~(d1 \in Trusted(l) /\ d2 \in Trusted(l))
    BY <1>2, <2>3, ApprovedStays
  <2> QED
    BY <2>2, <2>3
<1>3. ASSUME NEW k \in License, NEW g \in Device, NEW row,
             inst' = [inst EXCEPT ![<<k, g>>] = row]
      PROVE  /\ Trusted(k)' \subseteq Trusted(k) \cup {g}
             /\ \A l \in License \ {k} : Trusted(l)' = Trusted(l)
             /\ row.state # "active" \/ g \in Trusted(k) => Trusted(k)' \subseteq Trusted(k)
  BY <1>0, <1>3 DEF Trusted
<1>4. ASSUME NEW k \in License, NEW g \in Device, NEW row, lic'[k] # "absent",
             inst' = [inst EXCEPT ![<<k, g>>] = row],
             \A l \in License : lic'[l] = "absent" => lic[l] = "absent"
      PROVE  Unlicensed'
  BY <1>0, <1>4 DEF Unlicensed
<1>5. ASSUME NEW c \in Conn \cup {None}, NEW l \in License, NEW d \in Device,
             NEW s \in Secret, VerifyInitial(c, l, d, s)
      PROVE  TrustInv'
  <2>1. PICK row : inst' = [inst EXCEPT ![<<l, d>>] = row]
    BY <1>5 DEF VerifyInitial, Trust
  <2>2. Trusted(l) = {} /\ lic[l] # "absent" /\ lic' = lic
    BY <1>5 DEF VerifyInitial, KeyUsable
  <2>3. SingleUnapproved'
    BY <1>2, <1>3, <2>1, <2>2
  <2>4. Unlicensed'
    BY <1>4, <2>1, <2>2
  <2> QED
    BY <2>3, <2>4 DEF TrustInv
<1>6. ASSUME NEW c \in Conn \cup {None}, NEW l \in License, NEW d \in Device,
             NEW s \in Secret, VerifyPromoted(c, l, d, s)
      PROVE  TrustInv'
  <2>1. Approved(l, d)
    BY <1>6 DEF VerifyPromoted, PendingRequest, OpenRequests, Approved
  <2>2. PICK row : inst' = [inst EXCEPT ![<<l, d>>] = row]
    BY <1>6 DEF VerifyPromoted, Trust
  <2>3. lic[l] # "absent" /\ lic' = lic
    BY <1>6 DEF VerifyPromoted, NotTrusted, KeyUsable
  <2>4. SingleUnapproved'
    BY <1>2, <1>3, <2>1, <2>2
  <2>5. Unlicensed'
    BY <1>4, <2>2, <2>3
  <2> QED
    BY <2>4, <2>5 DEF TrustInv
<1>7. ASSUME NEW c \in Conn \cup {None}, NEW l \in License, NEW d \in Device,
             NEW s \in Secret, NEW provided \in Secret \cup {None},
             VerifyTrusted(c, l, d, s, provided)
      PROVE  TrustInv'
  <2>1. PICK row : inst' = [inst EXCEPT ![<<l, d>>] = row]
    BY <1>7 DEF VerifyTrusted
  <2>2. \A k \in License \ restored' : Trusted(k)' \subseteq Trusted(k)
    <3>1. d \in Trusted(l)
      BY <1>7 DEF VerifyTrusted
    <3>2. Trusted(l)' \subseteq Trusted(l) /\ \A k \in License \ {l} : Trusted(k)' = Trusted(k)
      BY <1>3, <2>1, <3>1
    <3> QED
      BY <3>2
  <2> QED
    BY <1>1, <1>4, <1>7, <2>1, <2>2 DEF VerifyTrusted, KeyUsable, TrustInv
<1>8. ASSUME NEW c \in Conn \cup {None}, NEW l \in License, NEW d \in Device,
             NEW s \in Secret, NEW n \in License, VerifyReplaced(c, l, d, s, n)
      PROVE  TrustInv'
  <2>1. Trusted(n) = {}
    BY <1>0, <1>8 DEF VerifyReplaced, Unlicensed, Trusted
  <2>2. lic' = [lic EXCEPT ![n] = "active"]
    BY <1>8 DEF VerifyReplaced
  <2>3. lic'[n] # "absent" /\ \A k \in License : lic'[k] = "absent" => lic[k] = "absent"
    BY <1>0, <2>2
  <2>4. PICK row : inst' = [inst EXCEPT ![<<n, d>>] = row]
    BY <1>8 DEF VerifyReplaced
  <2>5. Trusted(n)' \subseteq Trusted(n) \cup {d} /\ \A k \in License \ {n} : Trusted(k)' = Trusted(k)
    BY <1>3, <2>4
  <2>6. SingleUnapproved'
    BY <1>2, <2>1, <2>5
  <2>7. Unlicensed'
    BY <1>4, <2>3, <2>4
  <2> QED
    BY <2>6, <2>7 DEF TrustInv
<1>9. ASSUME NEW k \in License, NEW state \in RecordState, SetLicenseState(k, state)
      PROVE  TrustInv'
  <2>1. lic' = [lic EXCEPT ![k] = state] /\ state # "absent"
    BY <1>9, Choices DEF SetLicenseState
  <2>2. ASSUME NEW l \in License, NEW d \in Device
        PROVE  inst'[<<l, d>>] = IF l = k THEN Restate(inst[<<l, d>>], state) ELSE inst[<<l, d>>]
    BY <1>9 DEF SetLicenseState
  <2>3. Unlicensed'
    BY <1>0, <2>1, <2>2 DEF Unlicensed
  <2>4. ASSUME NEW l \in License, l \notin restored'
        PROVE  Trusted(l)' \subseteq Trusted(l)
    <3>1. l # k \/ state # "active"
      BY <1>9, <2>4 DEF SetLicenseState, NoteRestore
    <3>2. \A d \in Device : inst[<<l, d>>] \in InstRow
      BY <1>0
    <3>3. \A d \in Device : Restate(inst[<<l, d>>], state).state = "active" => state = "active" \/ inst[<<l, d>>].state = "active"
      BY <3>2 DEF Restate, InstRow
    <3> QED
      BY <2>2, <3>1, <3>2, <3>3 DEF Trusted, Restate, InstRow
  <2> QED
    BY <1>1, <2>3, <2>4 DEF TrustInv
<1>10. ASSUME NEW l \in License, NEW d \in Device, NEW state \in RecordState,
              SetInstallationState(l, d, state)
       PROVE  TrustInv'
  <2>1. PICK row : inst' = [inst EXCEPT ![<<l, d>>] = row] /\ row.state = state
    <3>1. [inst[<<l, d>>] EXCEPT !.state = state].state = state
      BY <1>0 DEF InstRow
    <3>2. inst' = [inst EXCEPT ![<<l, d>>] = [inst[<<l, d>>] EXCEPT !.state = state]]
      BY <1>10 DEF SetInstallationState
    <3> QED
      BY <3>1, <3>2
  <2>3. lic' = lic /\ lic[l] # "absent"
    BY <1>0, <1>10 DEF SetInstallationState, Unlicensed
  <2>4. state = "active" => l \in restored'
    BY <1>10 DEF SetInstallationState, NoteRestore
  <2>5. \A k \in License \ restored' : Trusted(k)' \subseteq Trusted(k)
    <3>1. \A k \in License \ {l} : Trusted(k)' = Trusted(k)
      BY <1>3, <2>1
    <3>2. state # "active" => Trusted(l)' \subseteq Trusted(l)
      BY <1>3, <2>1
    <3> QED
      BY <2>4, <3>1, <3>2
  <2> QED
    BY <1>1, <1>4, <2>1, <2>3, <2>5 DEF TrustInv
<1>11. CASE /\ inst' = inst
            /\ lic' = lic \/ \E l \in License : lic' = [lic EXCEPT ![l] = "active"]
  <2>1. \A l \in License : Trusted(l)' = Trusted(l)
    BY <1>11 DEF Trusted
  <2>2. \A l \in License : lic'[l] = "absent" => lic[l] = "absent"
    BY <1>0, <1>11
  <2>3. Unlicensed'
    BY <1>0, <1>11, <2>2 DEF Unlicensed
  <2> QED
    BY <1>1, <2>1, <2>3 DEF TrustInv
<1> QED
  BY <1>5, <1>6, <1>7, <1>8, <1>9, <1>10, <1>11, OnlyInstallationWriters
  DEF InstallationWriters

\* Of two devices trusted on a license at least one was approved for it, unless
\* an admin brought soft-deleted rows of the license back (the branches of
\* verify_key that call upsert_trusted_installation).
THEOREM Trustworthy == Spec => []SingleUnapproved
<1>1. Init => TrustInv
  BY DEF Init, TrustInv, Unlicensed, SingleUnapproved, Trusted, NoInst
<1>2. TrustInv => SingleUnapproved
  BY DEF TrustInv
<1> QED
  BY <1>1, <1>2, StepTrust, Always, PTL DEF Spec

-----------------------------------------------------------------------------
(* The handlers that mail: what is behind a task, and what its answer says.  *)

OutboxInv ==
    \A e \in Mail :
        /\ "delivered" \in mail[e].stamps => e \in mailbox /\ "sent" \in mail[e].stamps
        /\ task[e].step \in {"marked", "accepted"} => "sent" \in mail[e].stamps
        /\ task[e].step = "accepted" => e \in mailbox

LEMMA StepOutbox == TypeOK /\ OutboxInv /\ [Next]_vars => OutboxInv'
<1> SUFFICES ASSUME TypeOK, OutboxInv, [Next]_vars PROVE OutboxInv'
  OBVIOUS
<1>1. ASSUME NEW c, NEW l \in License, NEW d \in Device,
             NEW r \in Request, NEW e \in Mail, VerifyRequested(c, l, d, r, e)
      PROVE  OutboxInv'
  BY <1>1 DEF VerifyRequested, OutboxInv, TypeOK
<1>2. ASSUME NEW e \in Mail, MarkSent(e) \/ Delivered(e) \/ DeliveryFailed(e) \/ MarkDelivered(e)
      PROVE  OutboxInv'
  <2>1. CASE MarkSent(e)
    BY <2>1 DEF MarkSent, OutboxInv, TypeOK, MailRow, TaskRow
  <2>2. CASE Delivered(e)
    BY <2>2 DEF Delivered, OutboxInv, TypeOK, TaskRow
  <2>3. CASE DeliveryFailed(e)
    BY <2>3 DEF DeliveryFailed, Finish, Idle, OutboxInv, TypeOK, TaskRow
  <2>4. CASE MarkDelivered(e)
    BY <2>4 DEF MarkDelivered, Finish, Idle, OutboxInv, TypeOK, MailRow, TaskRow
  <2> QED
    BY <1>2, <2>1, <2>2, <2>3, <2>4
<1>3. CASE Restart
  BY <1>3 DEF Restart, Idle, OutboxInv
<1>4. ASSUME NEW c \in Conn, Disconnect(c) PROVE OutboxInv'
  <2>1. \A m \in Mail : task'[m].step = task[m].step
    BY <1>4 DEF Disconnect, TypeOK, TaskRow
  <2> QED
    BY <1>4, <2>1 DEF Disconnect, OutboxInv
<1>5. ASSUME NEW l \in License, NEW e \in Mail, CreateNotification(l, e) PROVE OutboxInv'
  BY <1>5 DEF CreateNotification, OutboxInv, TypeOK
<1>6. ASSUME UNCHANGED <<task, mailbox>>,
             \A m \in Mail : mail'[m].stamps \in {mail[m].stamps, mail[m].stamps \cup {"read"}}
      PROVE  OutboxInv'
  BY <1>6 DEF OutboxInv
<1>7. ASSUME NEW e \in Mail, Confirm(e) PROVE OutboxInv'
  BY ZenonT(30), <1>6, <1>7 DEF Confirm, TypeOK, MailRow
<1>8. ASSUME NEW l \in License, ReadNotifications(l) PROVE OutboxInv'
  BY <1>6, <1>8 DEF ReadNotifications, TypeOK, MailRow
<1>9. CASE UNCHANGED <<task, mailbox, mail>>
  BY <1>9 DEF OutboxInv
<1>10. ASSUME NEW c \in Conn \cup {None}, NEW l \in License, NEW d \in Device,
              NEW provided \in Secret \cup {None}, NEW s \in Secret,
              Verify(c, l, d, provided, s)
       PROVE  OutboxInv'
  BY <1>1, <1>9, <1>10
  DEF Verify, VerifyRefused, VerifyPending, VerifyInitial, VerifyTrusted, VerifyPromoted,
      VerifyReplaced, mailing
<1> QED
  BY <1>2, <1>3, <1>4, <1>5, <1>7, <1>8, <1>9, <1>10
  DEF Next, NewSecrets, Mailer, Owner, Admin, IssueLicense, Tick, ApproveRequest, UpdateFeatures,
      SetKeyActive, SetLicenseState, SetKeyState, SetInstallationState, SetRequestState, mailing, vars

\* What the outbox calls delivered was taken by the SMTP server or, where none is
\* configured, by the log, and was marked sent before, for any number of mails,
\* restarts and failed deliveries (the sections after drop(conn)).
THEOREM DeliveredIsTrue == Spec => []DeliveredReachedOwner
<1>1. Init => OutboxInv
  BY DEF Init, OutboxInv, NoMail, Idle
<1>2. TypeInv /\ OutboxInv /\ [Next]_vars => OutboxInv'
  BY StepOutbox DEF TypeInv
<1>3. OutboxInv => DeliveredReachedOwner
  BY DEF OutboxInv, DeliveredReachedOwner
<1> QED
  BY <1>1, <1>2, <1>3, Always, PTL DEF Spec

\* an answer that waits for its mail to be handed over says that it is pending
WaitingAnswers == \A e \in Mail : task[e].reply # None =>
    /\ task[e].reply.status = "PendingConfirmation" /\ task[e].reply.replacement = None
    /\ task[e].reply.secret = None

LEMMA StepWaitingAnswers == TypeOK /\ WaitingAnswers /\ [Next]_vars => WaitingAnswers'
<1> SUFFICES ASSUME TypeOK, WaitingAnswers, [Next]_vars PROVE WaitingAnswers'
  OBVIOUS
<1>1. ASSUME NEW c \in Conn \cup {None}, NEW l \in License, NEW d \in Device,
             NEW provided \in Secret \cup {None}, NEW s \in Secret,
             Verify(c, l, d, provided, s)
      PROVE  WaitingAnswers'
  <2>1. CASE task' = task
    BY <2>1 DEF WaitingAnswers
  <2>2. ASSUME NEW r \in Request, NEW e \in Mail, VerifyRequested(c, l, d, r, e) PROVE WaitingAnswers'
    BY <2>2 DEF VerifyRequested, WaitingAnswers, Signed, TypeOK
  <2> QED
    BY <1>1, <2>1, <2>2
    DEF Verify, VerifyRefused, VerifyPending, VerifyInitial, VerifyTrusted, VerifyPromoted,
        VerifyReplaced, mailing
<1>2. ASSUME NEW e \in Mail, MarkSent(e) \/ Delivered(e) \/ DeliveryFailed(e) \/ MarkDelivered(e)
      PROVE  WaitingAnswers'
  <2>1. \A m \in Mail : task'[m].reply \in {task[m].reply, None}
    BY <1>2 DEF MarkSent, Delivered, DeliveryFailed, MarkDelivered, Finish, Idle, TypeOK, TaskRow
  <2> QED
    BY <2>1 DEF WaitingAnswers
<1>3. ASSUME NEW c \in Conn, Disconnect(c) PROVE WaitingAnswers'
  <2>1. \A m \in Mail : task'[m].reply = task[m].reply
    BY <1>3 DEF Disconnect, TypeOK, TaskRow
  <2> QED
    BY <2>1 DEF WaitingAnswers
<1>4. CASE Restart
  BY <1>4 DEF Restart, WaitingAnswers, Idle
<1>5. ASSUME NEW l \in License, NEW e \in Mail, CreateNotification(l, e) PROVE WaitingAnswers'
  BY <1>5 DEF CreateNotification, WaitingAnswers, TypeOK
<1>6. CASE task' = task
  BY <1>6 DEF WaitingAnswers
<1> QED
  BY <1>1, <1>2, <1>3, <1>4, <1>5, <1>6
  DEF Next, NewSecrets, Mailer, Owner, Admin, IssueLicense, ReadNotifications, Tick, Confirm,
      ApproveRequest, UpdateFeatures, SetKeyActive, SetLicenseState, SetKeyState,
      SetInstallationState, SetRequestState, mailing, vars

LEMMA ActiveAnswer ==
    ASSUME TypeOK, WaitingAnswers, [Next]_vars, NEW x \in Conn,
           reply'[x] \notin {reply[x], None, Refused}, reply'[x].status = "Active"
    PROVE  \E d \in Device : LET l == reply'[x].license IN
                /\ inst'[<<l, d>>].state = "active"
                /\ inst'[<<l, d>>].secret = reply'[x].secret \/ inst[<<l, d>>].state \in Soft
<1>1. ASSUME NEW c \in Conn \cup {None}, NEW l \in License, NEW d \in Device,
             NEW provided \in Secret \cup {None}, NEW s \in Secret,
             Verify(c, l, d, provided, s)
      PROVE  /\ reply'[x].license = l /\ inst'[<<l, d>>].state = "active"
             /\ inst'[<<l, d>>].secret = reply'[x].secret \/ inst[<<l, d>>].state \in Soft
  <2>1. ASSUME NEW claims, Answer(c, claims) PROVE reply'[x] = claims
    BY <2>1 DEF Answer
  <2>2. ~VerifyRefused(c, l) /\ ~VerifyPending(c, l, d)
    BY <2>1 DEF VerifyRefused, VerifyPending, Signed
  <2>3. ASSUME NEW n \in License, VerifyReplaced(c, l, d, s, n) PROVE FALSE
    BY <2>1, <2>3 DEF VerifyReplaced, Signed
  <2>4. ASSUME NEW r \in Request, NEW e \in Mail, VerifyRequested(c, l, d, r, e) PROVE FALSE
    BY <2>4 DEF VerifyRequested
  <2>5. CASE VerifyInitial(c, l, d, s) \/ VerifyPromoted(c, l, d, s)
    BY <2>1, <2>5 DEF VerifyInitial, VerifyPromoted, Trust, Signed, TypeOK
  <2>6. CASE VerifyTrusted(c, l, d, s, provided)
    BY <2>1, <2>6 DEF VerifyTrusted, Trusted, Signed, TypeOK, InstRow
  <2> QED
    BY <1>1, <2>2, <2>3, <2>4, <2>5, <2>6 DEF Verify
<1>2. ASSUME NEW e \in Mail, MarkSent(e) \/ Delivered(e) \/ DeliveryFailed(e) \/ MarkDelivered(e)
      PROVE  FALSE
  <2>1. reply'[x] = task[e].reply
    BY <1>2 DEF MarkSent, Delivered, DeliveryFailed, MarkDelivered, Finish, Answer
  <2> QED
    BY <2>1 DEF WaitingAnswers
<1>3. ~Restart /\ \A c \in Conn : ~Disconnect(c)
  BY DEF Restart, Disconnect, TypeOK
<1> QED
  BY ZenonT(30), <1>1, <1>2, <1>3
  DEF Next, NewSecrets, Mailer, Owner, Admin, IssueLicense, ReadNotifications, Tick, Confirm,
      CreateNotification, ApproveRequest, UpdateFeatures, SetKeyActive, SetLicenseState, SetKeyState,
      SetInstallationState, SetRequestState, vars

LEMMA AlwaysPending == Spec => []WaitingAnswers
<1>1. Init => WaitingAnswers
  BY DEF Init, WaitingAnswers, Idle
<1>2. TypeInv /\ WaitingAnswers /\ [Next]_vars => WaitingAnswers'
  BY StepWaitingAnswers DEF TypeInv
<1> QED
  BY <1>1, <1>2, Always, PTL DEF Spec

\* The session secret in an Active answer is the one stored for the device it was
\* made for, or that device comes back from a soft deletion (rotate_session_secret).
THEOREM SecretIsStored == Spec => AnsweredSecretIsStored
<1> DEFINE Stored ==
        \A c \in Conn :
            reply'[c] \notin {reply[c], None, Refused} /\ reply'[c].status = "Active" =>
                \E d \in Device : LET l == reply'[c].license IN
                    /\ inst'[<<l, d>>].state = "active"
                    /\ inst'[<<l, d>>].secret = reply'[c].secret \/ inst[<<l, d>>].state \in Soft
<1>1. TypeInv /\ WaitingAnswers /\ [Next]_vars => [Stored]_vars
  BY ActiveAnswer DEF TypeInv
<1> HIDE DEF Stored
<1>2. Spec => [][Stored]_vars
  BY <1>1, Always, AlwaysPending, PTL DEF Spec
<1> QED
  BY <1>2 DEF AnsweredSecretIsStored, Stored

-----------------------------------------------------------------------------
(* The server with its clients.                                            *)
\* what an answer can say that is true: this license is in force, trusts this
\* device and grants these features
Entitled ==
    {t \in License \X Device \X SUBSET Feature :
        KeyUsable(t[1]) /\ t[2] \in Trusted(t[1]) /\ t[3] \subseteq Granted(t[1])}
InForce == {t \in License \X Device : KeyUsable(t[1]) /\ t[2] \in Trusted(t[1])}

\* claims that were signed for device d
Sound(c, d) ==
    /\ (changes = 0 /\ c.status # "PendingConfirmation") => <<c.license, d, c.features>> \in Entitled
    /\ c.replacement # None => c.status # "PendingConfirmation" /\ c.replacement = c.license

\* where a process is in its refresh, and what it then holds
Working ==
    \A p \in Conn :
        /\ pc[p] # "idle" => used[p] \in Call /\ used[p].device = DeviceOf[p]
        /\ net[p] # None => pc[p] = "calling" /\ net[p] = used[p]
        /\ net[p] # None \/ pc[p] # "calling" => ~Waiting(p) /\ reply[p] = None
        /\ pc[p] \in {"notify", "save", "keep"} => got[p] \in Claims

AnswersSound == \A p \in Conn : reply[p] \notin {None, Refused} => Sound(reply[p], DeviceOf[p])
ClaimsSound ==
    \A p \in Conn : pc[p] \in {"notify", "save", "keep"} => Sound(got[p], DeviceOf[p])
SnapshotsSound ==
    \A p \in Conn : snap[p].mode = "Editor" =>
        /\ snap[p].claims \in Claims
        /\ snap[p].claims.status = "Active" /\ "editor_workspace" \in snap[p].claims.features
        /\ Sound(snap[p].claims, DeviceOf[p])
KeysInForce ==
    /\ \A d \in Device :
          (changes = 0 /\ file[d].key \notin Issued \cup {None}) => <<file[d].key, d>> \in InForce
    /\ \A p \in Conn :
          (changes = 0 /\ pc[p] # "idle" /\ used[p].license \notin Issued)
              => <<used[p].license, DeviceOf[p]>> \in InForce

ClientInv == ClientTypeOK /\ Rows /\ Linked /\ Working

-----------------------------------------------------------------------------
(* The server's part of a step.                                            *)

\* a new secret is a secret, and not the installation's own while there is another
LEMMA FreshSecret ==
    ASSUME NEW l \in License, NEW d \in Device
    PROVE  Fresh(l, d) \in Secret /\ Fresh(l, d) \in NewSecrets({inst[<<l, d>>].secret})
<1> DEFINE own == inst[<<l, d>>].secret
           taken == IF Secret \subseteq Held THEN {own} ELSE Held
<1>1. own \in Held
  BY DEF Held
<1>2. NewSecrets(taken) # {} /\ NewSecrets(taken) \subseteq NewSecrets({own}) /\ NewSecrets({own}) \subseteq Secret
  BY <1>1, ClientAssumption DEF NewSecrets
<1>3. Fresh(l, d) \in NewSecrets(taken)
  BY <1>2 DEF Fresh
<1> QED
  BY <1>2, <1>3

LEMMA HandledCall ==
    ASSUME ClientInv, NEW p \in Conn, HandleCall(p)
    PROVE  /\ net[p] \in Call /\ net[p] = used[p] /\ ~Waiting(p)
           /\ net[p].license \in License /\ net[p].device = DeviceOf[p] /\ DeviceOf[p] \in Device
           /\ net[p].provided \in Secret \cup {None}
  BY ClientAssumption DEF ClientInv, ClientTypeOK, Working, HandleCall, Call

LEMMA ServerPart == ClientInv /\ [ClientNext]_allVars => [Next]_vars
<1> SUFFICES ASSUME ClientInv, [ClientNext]_allVars PROVE [Next]_vars
  OBVIOUS
<1>1. ASSUME ServerStep PROVE Next
  BY <1>1, ClientAssumption DEF ServerStep, Next
<1>2. ASSUME NEW p \in Conn, HandleCall(p) PROVE Next
  <2>1. /\ net[p].license \in License /\ net[p].device \in Device /\ ~Waiting(p)
        /\ net[p].provided \in Secret \cup {None}
    BY <1>2, HandledCall
  <2>2. Fresh(net[p].license, net[p].device) \in NewSecrets({inst[<<net[p].license, net[p].device>>].secret})
    BY <2>1, FreshSecret
  <2> QED
    BY <1>2, <2>1, <2>2 DEF HandleCall, Next
<1>3. ASSUME NEW c \in strays, HandleStray(c) PROVE Next
  <2>1. c.license \in License /\ c.device \in Device /\ c.provided \in Secret \cup {None}
    BY DEF ClientInv, ClientTypeOK, Call
  <2>2. Fresh(c.license, c.device) \in NewSecrets({inst[<<c.license, c.device>>].secret})
    BY <2>1, FreshSecret
  <2>3. ~Waiting(None)
    BY DEF Waiting
  <2> QED
    BY <1>3, <2>1, <2>2, <2>3 DEF HandleStray, Next
<1>4. ASSUME NEW l \in License, NEW d \in Device, Elsewhere(l, d) PROVE Next
  <2>1. Fresh(l, d) \in NewSecrets({inst[<<l, d>>].secret}) /\ ~Waiting(None)
    BY FreshSecret DEF Waiting
  <2> QED
    BY <1>4, <2>1 DEF Elsewhere, Next
<1>5. ASSUME NEW p \in Conn, NEW l \in License, EnterKey(p, l) PROVE UNCHANGED vars
  BY <1>5 DEF EnterKey
<1>6. ASSUME NEW p \in Conn, StartRefresh(p) \/ Save(p) \/ SaveFailed(p) \/ Keep(p) PROVE UNCHANGED vars
  BY <1>6 DEF StartRefresh, Save, SaveFailed, Keep
<1>7. ASSUME NEW p \in Conn, Receive(p) \/ ReceiveRefused(p) \/ TimeOut(p) \/ Exit(p) PROVE Next
  BY <1>7 DEF Receive, ReceiveRefused, TimeOut, Exit, Next
<1>8. ASSUME NEW p \in Conn, Notify(p) PROVE Next \/ UNCHANGED vars
  <2>1. used[p].license \in License
    BY <1>8 DEF Notify, ClientInv, Working, Call
  <2> QED
    BY <1>8, <2>1 DEF Notify, Next
<1>9. CASE UNCHANGED allVars
  BY <1>9 DEF allVars
<1> QED
  BY <1>1, <1>2, <1>3, <1>4, <1>5, <1>6, <1>7, <1>8, <1>9 DEF ClientNext, Refresh

-----------------------------------------------------------------------------
(* Types, and where each process is.                                       *)

LEMMA ClientStart == ClientInit => ClientInv
<1> SUFFICES ASSUME ClientInit PROVE ClientInv
  OBVIOUS
<1>1. TypeOK /\ Rows /\ Linked
  BY InitType DEF ClientInit, TypeInv
<1>2. ClientTypeOK
  BY <1>1, ClientAssumption DEF ClientInit, ClientTypeOK, NoFile, NoSnap, Snapshot, Mode
<1>3. Working
  BY ConstantsAssumption DEF ClientInit, Working, Init, Waiting, Idle
<1> QED
  BY <1>1, <1>2, <1>3 DEF ClientInv

\* a call to another endpoint, or the end of the refresh
LEMMA FailedTypes ==
    ASSUME ClientInv, NEW p \in Conn, pc[p] = "calling", Failed(p)
    PROVE  /\ net' \in [Conn -> Call \cup {None}]
           /\ pc' \in [Conn -> {"idle", "calling", "notify", "save", "keep"}]
           /\ attempt' \in [Conn -> 1..Endpoints]
           /\ used' \in [Conn -> Call \cup {None}]
           /\ snap' \in [Conn -> Snapshot]
<1>0. used[p] \in Call /\ file[DeviceOf[p]].claims \in Claims \cup {None}
  BY ClientAssumption DEF ClientInv, Working, ClientTypeOK
<1>1. CASE attempt[p] < Endpoints /\ SendTo(p, used[p], attempt[p] + 1) /\ UNCHANGED <<snap, used>>
  <2>1. attempt[p] + 1 \in 1..Endpoints
    BY <1>1, ClientAssumption DEF ClientInv, ClientTypeOK
  <2> QED
    BY <1>0, <1>1, <2>1 DEF ClientInv, ClientTypeOK, SendTo
<1>2. CASE /\ attempt[p] = Endpoints
           /\ snap' = [snap EXCEPT ![p] = [mode |-> "PlayOnly", claims |-> Cached(p),
                                           via |-> "OfflineFallback"]]
           /\ pc' = [pc EXCEPT ![p] = "idle"]
           /\ used' = [used EXCEPT ![p] = None]
           /\ attempt' = [attempt EXCEPT ![p] = 1]
           /\ net' = [net EXCEPT ![p] = None]
  <2>1. Cached(p) \in Claims \cup {None}
    BY <1>0 DEF Cached
  <2>2. [mode |-> "PlayOnly", claims |-> Cached(p), via |-> "OfflineFallback"] \in Snapshot
    BY <2>1 DEF Snapshot, Mode
  <2>3. 1 \in 1..Endpoints
    BY ClientAssumption
  <2> QED
    BY <1>2, <2>2, <2>3 DEF ClientInv, ClientTypeOK
<1> QED
  BY <1>1, <1>2 DEF Failed

LEMMA StepClientType == ClientInv /\ [ClientNext]_allVars => ClientTypeOK'
<1> SUFFICES ASSUME ClientInv, [ClientNext]_allVars PROVE ClientTypeOK'
  OBVIOUS
<1>0. ClientTypeOK /\ TypeOK /\ TypeOK'
  BY ServerPart, StepType DEF ClientInv, ClientTypeOK, TypeInv
<1>1. ASSUME UNCHANGED clientVars PROVE ClientTypeOK'
  BY <1>0, <1>1 DEF ClientTypeOK, clientVars
<1>2. ASSUME NEW p \in Conn, HandleCall(p) PROVE ClientTypeOK'
  BY <1>0, <1>2 DEF ClientTypeOK, HandleCall
<1>3. ASSUME NEW c \in strays, HandleStray(c) PROVE ClientTypeOK'
  BY <1>0, <1>3 DEF ClientTypeOK, HandleStray
<1>4. ASSUME NEW p \in Conn, NEW l \in License, EnterKey(p, l) PROVE ClientTypeOK'
  <2>1. DeviceOf[p] \in Device
    BY ClientAssumption
  <2>2. file' \in [Device -> [key : License \cup {None}, claims : Claims \cup {None}]]
    BY <1>0, <1>4, <2>1 DEF ClientTypeOK, EnterKey
  <2> QED
    BY <1>0, <1>4, <2>2 DEF ClientTypeOK, EnterKey
<1>5. ASSUME NEW p \in Conn, StartRefresh(p) PROVE ClientTypeOK'
  <2> DEFINE d == DeviceOf[p]
             request == [license |-> file[d].key, device |-> d, provided |-> keyring[d]]
  <2>1. d \in Device
    BY ClientAssumption
  <2>2. CASE file[d].key = None
    BY <1>0, <1>5, <2>2 DEF ClientTypeOK, StartRefresh, NoSnap, Snapshot, Mode
  <2>3. CASE file[d].key # None
    <3>1. request \in Call /\ 1 \in 1..Endpoints
      BY <1>0, <2>1, <2>3, ClientAssumption DEF ClientTypeOK, Call
    <3> QED
      BY <1>0, <1>5, <2>3, <3>1 DEF ClientTypeOK, StartRefresh, SendTo
  <2> QED
    BY <2>2, <2>3
<1>6. ASSUME NEW p \in Conn, Receive(p) PROVE ClientTypeOK'
  BY <1>0, <1>6 DEF ClientTypeOK, TypeOK, Receive, Reply
<1>7. ASSUME NEW p \in Conn, ReceiveRefused(p) PROVE ClientTypeOK'
  BY <1>0, <1>7, FailedTypes DEF ClientTypeOK, ReceiveRefused
<1>8. ASSUME NEW p \in Conn, TimeOut(p) PROVE ClientTypeOK'
  <2>1. strays' \subseteq Call /\ losses' \in Nat
    BY <1>0, <1>8 DEF ClientTypeOK, TimeOut
  <2> QED
    BY <1>0, <1>8, <2>1, FailedTypes DEF ClientTypeOK, TimeOut
<1>9. ASSUME NEW p \in Conn, Notify(p) PROVE ClientTypeOK'
  BY <1>0, <1>9 DEF ClientTypeOK, Notify
<1>10. ASSUME NEW p \in Conn, Save(p) PROVE ClientTypeOK'
  <2>1. DeviceOf[p] \in Device /\ got[p] \in Claims /\ used[p].license \in License
    BY <1>10, ClientAssumption DEF Save, ClientInv, Working, Call
  <2>2. [key |-> IF got[p].replacement # None THEN got[p].replacement ELSE used[p].license,
         claims |-> got[p]] \in [key : License \cup {None}, claims : Claims \cup {None}]
    BY <2>1 DEF Claims
  <2> QED
    BY <1>0, <1>10, <2>1, <2>2 DEF ClientTypeOK, Save
<1>11. ASSUME NEW p \in Conn, SaveFailed(p) PROVE ClientTypeOK'
  BY <1>0, <1>11 DEF ClientTypeOK, SaveFailed
<1>12. ASSUME NEW p \in Conn, Keep(p) PROVE ClientTypeOK'
  <2>1. DeviceOf[p] \in Device /\ got[p] \in Claims /\ 1 \in 1..Endpoints
    BY <1>12, ClientAssumption DEF Keep, ClientInv, Working
  <2>2. got[p].secret \in Secret \cup {None} /\ Live(got[p]) \in Snapshot
    BY <2>1 DEF Claims, Live, Snapshot, Mode
  <2> QED
    BY <1>0, <1>12, <2>1, <2>2 DEF ClientTypeOK, Keep
<1>13. ASSUME NEW p \in Conn, Exit(p) PROVE ClientTypeOK'
  <2>1. DeviceOf[p] \in Device /\ 1 \in 1..Endpoints /\ NoFile \in [key : License \cup {None}, claims : Claims \cup {None}]
    BY ClientAssumption DEF NoFile
  <2>2. strays' \subseteq Call /\ losses' \in Nat /\ NoSnap \in Snapshot
    BY <1>0, <1>13 DEF ClientTypeOK, Exit, NoSnap, Snapshot, Mode
  <2> QED
    BY <1>0, <1>13, <2>1, <2>2 DEF ClientTypeOK, Exit
<1> QED
  BY <1>1, <1>2, <1>3, <1>4, <1>5, <1>6, <1>7, <1>8, <1>9, <1>10, <1>11, <1>12, <1>13
  DEF ClientNext, Refresh, ServerStep, Elsewhere, allVars

\* a handler answers, and waits with an answer, only for the call it was made for
LEMMA VerifyWaits ==
    ASSUME TypeOK, NEW c \in Conn \cup {None}, NEW l \in License, NEW d \in Device,
           NEW provided, NEW s, Verify(c, l, d, provided, s),
           NEW x \in Conn, x # c
    PROVE  (Waiting(x)' => Waiting(x)) /\ reply'[x] = reply[x]
<1>1. task' = task => (Waiting(x)' <=> Waiting(x))
  BY DEF Waiting
<1>2. ASSUME NEW r \in Request, NEW e \in Mail, VerifyRequested(c, l, d, r, e)
      PROVE  (Waiting(x)' => Waiting(x)) /\ reply' = reply
  BY <1>2 DEF VerifyRequested, Waiting, TypeOK
<1>3. reply' = reply \/ reply'[x] = reply[x]
  BY DEF Verify, VerifyRefused, VerifyPending, VerifyInitial, VerifyTrusted, VerifyPromoted,
         VerifyReplaced, VerifyRequested, Answer
<1> QED
  BY <1>1, <1>2, <1>3
  DEF Verify, VerifyRefused, VerifyPending, VerifyInitial, VerifyTrusted, VerifyPromoted,
      VerifyReplaced, mailing

LEMMA ServerStepWaits ==
    ASSUME TypeOK, ServerStep, NEW x \in Conn
    PROVE  /\ Waiting(x)' => Waiting(x)
           /\ reply'[x] = reply[x] \/ Waiting(x)
<1>0. x # None
  BY ConstantsAssumption
<1>1. ASSUME NEW e \in Mail, MarkSent(e) \/ Delivered(e) \/ DeliveryFailed(e) \/ MarkDelivered(e)
      PROVE  (Waiting(x)' => Waiting(x)) /\ (reply'[x] = reply[x] \/ Waiting(x))
  <2>1. \A m \in Mail : task'[m].conn \in {task[m].conn, None}
    BY <1>1 DEF MarkSent, Delivered, DeliveryFailed, MarkDelivered, Finish, Idle, TypeOK, TaskRow
  <2>2. reply' = reply \/ reply'[x] = reply[x] \/ x = task[e].conn
    BY <1>1 DEF MarkSent, Delivered, DeliveryFailed, MarkDelivered, Finish, Answer
  <2> QED
    BY <1>0, <2>1, <2>2 DEF Waiting
<1>2. ASSUME Restart PROVE (Waiting(x)' => Waiting(x)) /\ (reply'[x] = reply[x] \/ Waiting(x))
  BY <1>0, <1>2 DEF Restart, Waiting, Idle
<1>3. ASSUME NEW l \in License, NEW e \in Mail, CreateNotification(l, e)
      PROVE  (Waiting(x)' => Waiting(x)) /\ reply' = reply
  <2>1. \A m \in Mail : task'[m].conn \in {task[m].conn, None}
    BY <1>3 DEF CreateNotification, TypeOK
  <2> QED
    BY <1>0, <1>3, <2>1 DEF Waiting, CreateNotification
<1>4. CASE task' = task /\ reply' = reply
  BY <1>4 DEF Waiting
<1> QED
  BY <1>1, <1>2, <1>3, <1>4
  DEF ServerStep, Mailer, Owner, Admin, IssueLicense, Tick, Confirm, ApproveRequest, UpdateFeatures,
      SetKeyActive, SetLicenseState, SetKeyState, SetInstallationState, SetRequestState, mailing

LEMMA DisconnectWaits ==
    ASSUME TypeOK, NEW p \in Conn, Disconnect(p), NEW x \in Conn
    PROVE  /\ ~Waiting(p)' /\ reply'[p] = None
           /\ Waiting(x)' => Waiting(x)
           /\ x # p => reply'[x] = reply[x]
<1>1. \A m \in Mail : task'[m].conn = IF task[m].conn = p THEN None ELSE task[m].conn
  BY DEF Disconnect, TypeOK, TaskRow
<1> QED
  BY <1>1, ConstantsAssumption DEF Waiting, Disconnect, TypeOK

LEMMA StepWorking == ClientInv /\ [ClientNext]_allVars => Working'
<1> SUFFICES ASSUME ClientInv, [ClientNext]_allVars PROVE Working'
  OBVIOUS
<1>0. ClientTypeOK /\ TypeOK /\ Working
  BY DEF ClientInv, ClientTypeOK
<1>1. ASSUME UNCHANGED clientVars, \A x \in Conn : /\ Waiting(x)' => Waiting(x)
                                                   /\ reply'[x] = reply[x] \/ Waiting(x)
      PROVE  Working'
  BY <1>0, <1>1 DEF Working, clientVars
<1>2. ASSUME ServerStep PROVE Working'
  BY <1>0, <1>1, <1>2, ServerStepWaits DEF ServerStep
<1>3. ASSUME NEW p \in Conn, HandleCall(p) PROVE Working'
  <2>1. \A x \in Conn : x # p => (Waiting(x)' => Waiting(x)) /\ reply'[x] = reply[x]
    BY <1>0, <1>3, HandledCall, VerifyWaits DEF HandleCall
  <2>2. pc[p] = "calling"
    BY <1>0, <1>3 DEF HandleCall, Working
  <2>3. /\ \A x \in Conn : x # p => net'[x] = net[x]
        /\ net'[p] = None /\ UNCHANGED <<pc, used, got>>
    BY <1>0, <1>3 DEF HandleCall, ClientTypeOK
  <2> QED
    BY <1>0, <2>1, <2>2, <2>3 DEF Working
<1>4. ASSUME NEW c \in strays, HandleStray(c) PROVE Working'
  <2>1. \A x \in Conn : (Waiting(x)' => Waiting(x)) /\ reply'[x] = reply[x]
    BY <1>0, <1>4, VerifyWaits, ConstantsAssumption DEF HandleStray, ClientTypeOK, Call
  <2> QED
    BY <1>0, <1>4, <2>1 DEF Working, HandleStray
<1>5. ASSUME NEW l \in License, NEW d \in Device, Elsewhere(l, d) PROVE Working'
  <2>1. \A x \in Conn : (Waiting(x)' => Waiting(x)) /\ reply'[x] = reply[x]
    BY <1>0, <1>5, VerifyWaits, ConstantsAssumption DEF Elsewhere
  <2> QED
    BY <1>1, <1>5, <2>1 DEF Elsewhere
<1>6. ASSUME NEW p \in Conn, NEW l \in License, EnterKey(p, l) PROVE Working'
  BY <1>0, <1>6 DEF EnterKey, Working, vars, Waiting
<1>7. ASSUME NEW p \in Conn, StartRefresh(p) PROVE Working'
  <2> DEFINE d == DeviceOf[p]
             request == [license |-> file[d].key, device |-> d, provided |-> keyring[d]]
  <2>0. reply' = reply /\ \A x \in Conn : Waiting(x)' <=> Waiting(x)
    BY <1>7 DEF StartRefresh, vars, Waiting
  <2>1. CASE file[d].key = None
    BY <1>0, <1>7, <2>0, <2>1 DEF StartRefresh, Working
  <2>2. CASE file[d].key # None
    <3>1. request \in Call
      BY <1>0, <2>2, ClientAssumption DEF ClientTypeOK, Call
    <3>2. /\ pc[p] = "idle" /\ used' = [used EXCEPT ![p] = request] /\ net' = [net EXCEPT ![p] = request]
          /\ pc' = [pc EXCEPT ![p] = "calling"] /\ got' = got
      BY <1>7, <2>2 DEF StartRefresh, SendTo
    <3> QED
      BY <1>0, <2>0, <3>1, <3>2 DEF Working, ClientTypeOK
  <2> QED
    BY <2>1, <2>2
<1>8. ASSUME NEW p \in Conn, pc[p] = "calling", Disconnect(p), Failed(p), got' = got PROVE Working'
  <2>1. /\ ~Waiting(p)' /\ reply'[p] = None
        /\ \A x \in Conn : x # p => (Waiting(x)' => Waiting(x)) /\ reply'[x] = reply[x]
    BY <1>0, <1>8, DisconnectWaits
  <2>2. CASE SendTo(p, used[p], attempt[p] + 1) /\ used' = used
    BY <1>0, <1>8, <2>1, <2>2 DEF SendTo, Working, ClientTypeOK
  <2>3. CASE /\ pc' = [pc EXCEPT ![p] = "idle"]
             /\ used' = [used EXCEPT ![p] = None]
             /\ net' = [net EXCEPT ![p] = None]
    BY <1>0, <1>8, <2>1, <2>3 DEF Working, ClientTypeOK
  <2> QED
    BY <1>8, <2>2, <2>3 DEF Failed
<1>9. ASSUME NEW p \in Conn, ReceiveRefused(p) \/ TimeOut(p) PROVE Working'
  BY <1>8, <1>9 DEF ReceiveRefused, TimeOut
<1>10. ASSUME NEW p \in Conn, Receive(p) PROVE Working'
  <2>1. /\ ~Waiting(p)' /\ reply'[p] = None
        /\ \A x \in Conn : x # p => (Waiting(x)' => Waiting(x)) /\ reply'[x] = reply[x]
    BY <1>0, <1>10, DisconnectWaits DEF Receive
  <2>2. reply[p] \in Claims
    BY <1>0, <1>10 DEF Receive, TypeOK, Reply
  <2>3. net[p] = None
    BY <1>0, <1>10 DEF Receive, Working
  <2> QED
    BY <1>0, <1>10, <2>1, <2>2, <2>3 DEF Receive, Working, ClientTypeOK
<1>11. ASSUME NEW p \in Conn, Notify(p) PROVE Working'
  <2>1. task' = task /\ reply' = reply
    BY <1>11 DEF Notify, vars, ReadNotifications
  <2> QED
    BY <1>0, <1>11, <2>1 DEF Notify, Working, ClientTypeOK, Waiting
<1>12. ASSUME NEW p \in Conn, Save(p) \/ SaveFailed(p) PROVE Working'
  BY <1>0, <1>12 DEF Save, SaveFailed, Working, ClientTypeOK, vars, Waiting
<1>13. ASSUME NEW p \in Conn, Keep(p) PROVE Working'
  BY <1>0, <1>13 DEF Keep, Working, ClientTypeOK, vars, Waiting
<1>14. ASSUME NEW p \in Conn, Exit(p) PROVE Working'
  <2>1. /\ ~Waiting(p)' /\ reply'[p] = None
        /\ \A x \in Conn : x # p => (Waiting(x)' => Waiting(x)) /\ reply'[x] = reply[x]
    BY <1>0, <1>14, DisconnectWaits DEF Exit
  <2> QED
    BY <1>0, <1>14, <2>1 DEF Exit, Working, ClientTypeOK
<1>15. CASE UNCHANGED allVars
  BY <1>1, <1>15 DEF allVars, vars, Waiting
<1> QED
  BY <1>2, <1>3, <1>4, <1>5, <1>6, <1>7, <1>9, <1>10, <1>11, <1>12, <1>13, <1>14, <1>15
  DEF ClientNext, Refresh

-----------------------------------------------------------------------------
(* What was signed stays true.                                             *)

\* licenses in force stay as they are, and devices stay trusted
Kept ==
    /\ changes' = changes
    /\ \A l \in License : KeyUsable(l) =>
          lic'[l] = lic[l] /\ key'[l] = key[l] /\ features'[l] = features[l]
    /\ \A l \in License, d \in Device : inst[<<l, d>>].state = "active" => inst'[<<l, d>>].state = "active"

LEMMA VerifyKeeps ==
    ASSUME TypeOK, NEW c, NEW l \in License, NEW d \in Device, NEW provided, NEW s,
           Verify(c, l, d, provided, s)
    PROVE  Kept
<1>1. CASE UNCHANGED <<lic, key, features, inst, changes>>
  BY <1>1 DEF Kept
<1>2. CASE \/ VerifyInitial(c, l, d, s) \/ VerifyPromoted(c, l, d, s)
           \/ VerifyTrusted(c, l, d, s, provided)
  <2>1. UNCHANGED <<lic, key, features, changes>>
    BY <1>2 DEF VerifyInitial, VerifyPromoted, VerifyTrusted, history
  <2>2. ASSUME NEW k \in License, NEW g \in Device, inst[<<k, g>>].state = "active"
        PROVE  inst'[<<k, g>>].state = "active"
    <3>1. CASE Trust(l, d, s)
      BY <2>2, <3>1 DEF Trust, TypeOK
    <3>2. CASE inst' = [inst EXCEPT ![<<l, d>>].secret = s]
      BY <2>2, <3>2 DEF TypeOK, InstRow
    <3> QED
      BY <1>2, <3>1, <3>2 DEF VerifyInitial, VerifyPromoted, VerifyTrusted
  <2> QED
    BY <2>1, <2>2 DEF Kept
<1>3. ASSUME NEW n \in License, VerifyReplaced(c, l, d, s, n) PROVE Kept
  <2>1. \A k \in License : KeyUsable(k) => k # n
    BY <1>3 DEF VerifyReplaced, KeyUsable
  <2>2. /\ lic' = [lic EXCEPT ![n] = "active"]
        /\ \A k \in License \ {n} : key'[k] = key[k] /\ features'[k] = features[k]
        /\ changes' = changes
    BY <1>3 DEF VerifyReplaced, TypeOK, history
  <2>3. \A k \in License, g \in Device :
            inst[<<k, g>>].state = "active" => inst'[<<k, g>>].state = "active"
    BY <1>3 DEF VerifyReplaced, TypeOK
  <2> QED
    BY <2>1, <2>2, <2>3 DEF Kept, TypeOK
<1> QED
  BY <1>1, <1>2, <1>3 DEF Verify, VerifyRefused, VerifyPending, VerifyRequested, tables, history

LEMMA StepKeeps ==
    ASSUME TypeOK, [Next]_vars, changes' = 0
    PROVE  Kept
<1>1. ASSUME NEW l \in License, NEW granted \in Grants, IssueLicense(l, granted) PROVE Kept
  <2>1. \A k \in License : KeyUsable(k) => k # l
    BY <1>1 DEF IssueLicense, KeyUsable
  <2> QED
    BY <1>1, <2>1 DEF IssueLicense, Kept, TypeOK, history
<1>2. ASSUME NEW c \in Conn \cup {None}, NEW l \in License, NEW d \in Device,
             NEW provided \in Secret \cup {None}, NEW s \in Secret,
             Verify(c, l, d, provided, s)
      PROVE  Kept
  BY <1>2, VerifyKeeps
<1>3. CASE \/ Mailer \/ Owner \/ Restart \/ Tick
           \/ \E c \in Conn : Disconnect(c)
           \/ \E l \in License : ReadNotifications(l)
  BY <1>3
  DEF Kept, Mailer, Owner, Restart, Tick, Disconnect, ReadNotifications, MarkSent, Delivered,
      DeliveryFailed, MarkDelivered, Confirm, tables, history
<1>4. CASE Admin
  <2>1. ~NoteChange
    BY DEF TypeOK, NoteChange
  <2>2. \E r \in Request : ApproveRequest(r)
    BY <1>4, <2>1
    DEF Admin, CreateNotification, UpdateFeatures, SetKeyActive, SetLicenseState, SetKeyState,
        SetInstallationState, SetRequestState
  <2> QED
    BY <2>2 DEF ApproveRequest, Kept, history
<1>5. CASE UNCHANGED vars
  BY <1>5 DEF vars, Kept
<1> QED
  BY <1>1, <1>2, <1>3, <1>4, <1>5 DEF Next, NewSecrets

LEMMA StepEntitled ==
    ASSUME TypeOK, [Next]_vars, changes' = 0
    PROVE  changes = 0 /\ Entitled \subseteq Entitled' /\ InForce \subseteq InForce'
<1>1. Kept
  BY StepKeeps
<1>2. \A l \in License : KeyUsable(l) => KeyUsable(l)' /\ Granted(l)' = Granted(l)
  BY <1>1 DEF Kept, KeyUsable, Granted
<1>3. \A l \in License : Trusted(l) \subseteq Trusted(l)'
  BY <1>1 DEF Kept, Trusted
<1> QED
  BY <1>1, <1>2, <1>3 DEF Entitled, InForce, Kept

LEMMA SoundStays ==
    ASSUME TypeOK, [Next]_vars, NEW c, NEW d, Sound(c, d)
    PROVE  Sound(c, d)'
  BY StepEntitled DEF Sound

\* the answers of verify_key are true of the device that asks
LEMMA VerifyAnswers ==
    ASSUME TypeOK, NEW p \in Conn, NEW l \in License, NEW d \in Device,
           NEW provided \in Secret \cup {None}, NEW s \in Secret, Verify(p, l, d, provided, s),
           reply'[p] \notin {reply[p], None, Refused}
    PROVE  Sound(reply[p], d)'
<1>1. CASE \/ VerifyRefused(p, l) \/ \E r \in Request, e \in Mail : VerifyRequested(p, l, d, r, e)
  BY <1>1 DEF VerifyRefused, VerifyRequested, Answer
<1>2. CASE VerifyPending(p, l, d)
  BY <1>2 DEF VerifyPending, Answer, Signed, Sound
<1>3. CASE \/ VerifyInitial(p, l, d, s) \/ VerifyPromoted(p, l, d, s)
           \/ VerifyTrusted(p, l, d, s, provided)
  <2>1. reply'[p] = Signed("Active", l, Granted(l), s, None) /\ KeyUsable(l)
    BY <1>3 DEF VerifyInitial, VerifyPromoted, VerifyTrusted, NotTrusted, Answer
  <2>2. UNCHANGED <<lic, key, features>>
    BY <1>3 DEF VerifyInitial, VerifyPromoted, VerifyTrusted
  <2>3. inst'[<<l, d>>].state = "active"
    <3>1. ASSUME Trust(l, d, s) PROVE inst'[<<l, d>>].state = "active"
      BY <3>1 DEF Trust, TypeOK
    <3>2. ASSUME d \in Trusted(l), inst' = [inst EXCEPT ![<<l, d>>].secret = s]
          PROVE  inst'[<<l, d>>].state = "active"
      BY <3>2 DEF Trusted, TypeOK, InstRow
    <3> QED
      BY <1>3, <3>1, <3>2 DEF VerifyInitial, VerifyPromoted, VerifyTrusted
  <2>4. <<l, d, Granted(l)>> \in Entitled'
    BY <2>1, <2>2, <2>3, GrantedType DEF Entitled, KeyUsable, Trusted, Granted
  <2> QED
    BY <2>1, <2>4 DEF Sound, Signed
<1>4. ASSUME NEW n \in License, VerifyReplaced(p, l, d, s, n) PROVE Sound(reply[p], d)'
  <2>1. reply'[p] = Signed("ReplacementIssued", n, {"basic"}, s, n)
    BY <1>4 DEF VerifyReplaced, Answer
  <2>2. /\ lic'[n] = "active" /\ key'[n].state = "active" /\ key'[n].active
        /\ features'[n] = {"basic"} /\ inst'[<<n, d>>].state = "active"
    BY <1>4 DEF VerifyReplaced, TypeOK
  <2>3. <<n, d, {"basic"}>> \in Entitled'
    BY <2>2 DEF Entitled, KeyUsable, Trusted, Granted, Feature
  <2> QED
    BY <2>1, <2>3 DEF Sound, Signed
<1> QED
  BY <1>1, <1>2, <1>3, <1>4 DEF Verify

-----------------------------------------------------------------------------
(* What the client holds is true.                                          *)

\* an answer that arrives is an old one, a refusal, or a true one
LEMMA StepAnswers ==
    ASSUME ClientInv, WaitingAnswers, AnswersSound, [ClientNext]_allVars PROVE AnswersSound'
<1>0. TypeOK /\ [Next]_vars
  BY ServerPart DEF ClientInv, ClientTypeOK
<1> SUFFICES ASSUME NEW x \in Conn, reply'[x] \notin {reply[x], None, Refused}
             PROVE  Sound(reply[x], DeviceOf[x])'
  BY <1>0, SoundStays DEF AnswersSound
<1>1. ASSUME NEW p \in Conn, HandleCall(p) PROVE Sound(reply[x], DeviceOf[x])'
  <2>1. /\ net[p].license \in License /\ net[p].device = DeviceOf[p] /\ DeviceOf[p] \in Device
        /\ net[p].provided \in Secret \cup {None}
        /\ Fresh(net[p].license, net[p].device) \in Secret
    BY <1>1, HandledCall, FreshSecret
  <2>2. x = p
    BY <1>0, <1>1, <2>1, VerifyWaits DEF HandleCall
  <2> QED
    BY <1>0, <1>1, <2>1, <2>2, VerifyAnswers DEF HandleCall
<1>2. ASSUME NEW c \in strays, HandleStray(c) PROVE FALSE
  BY <1>0, <1>2, VerifyWaits, ConstantsAssumption DEF HandleStray, ClientInv, ClientTypeOK, Call
<1>3. ASSUME NEW l \in License, NEW d \in Device, Elsewhere(l, d) PROVE FALSE
  BY <1>0, <1>3, VerifyWaits, ConstantsAssumption DEF Elsewhere
<1>4. ASSUME NEW e \in Mail, MarkSent(e) \/ Delivered(e) \/ DeliveryFailed(e) \/ MarkDelivered(e)
      PROVE  Sound(reply[x], DeviceOf[x])'
  <2>1. reply'[x] = task[e].reply
    BY <1>4 DEF MarkSent, Delivered, DeliveryFailed, MarkDelivered, Finish, Answer
  <2> QED
    BY <2>1 DEF WaitingAnswers, Sound
<1>5. ASSUME NEW p \in Conn, Disconnect(p) PROVE FALSE
  BY <1>0, <1>5, DisconnectWaits
<1>6. CASE Restart
  BY <1>6 DEF Restart
<1>7. CASE reply' = reply
  BY <1>7
<1> QED
  BY <1>1, <1>2, <1>3, <1>4, <1>5, <1>6, <1>7
  DEF ClientNext, ServerStep, Refresh, IssueLicense, Mailer, Owner, Admin, Tick, Confirm,
      CreateNotification, ApproveRequest, UpdateFeatures, SetKeyActive, SetLicenseState, SetKeyState,
      SetInstallationState, SetRequestState, EnterKey, StartRefresh, Receive, ReceiveRefused, Notify,
      Save, Keep, TimeOut, SaveFailed, Exit, ReadNotifications, allVars, vars

\* a process takes its claims from its answer, and its snapshot from its claims
LEMMA StepClaims ==
    ASSUME ClientInv, AnswersSound, ClaimsSound, SnapshotsSound, [ClientNext]_allVars
    PROVE  ClaimsSound' /\ SnapshotsSound'
<1>0. ClientTypeOK /\ TypeOK /\ [Next]_vars
  BY ServerPart DEF ClientInv, ClientTypeOK
<1>1. ASSUME NEW x \in Conn, pc'[x] \in {"notify", "save", "keep"}
      PROVE  Sound(got[x], DeviceOf[x])'
  <2>1. CASE got'[x] = got[x] /\ pc[x] \in {"notify", "save", "keep"}
    BY <1>0, <2>1, SoundStays DEF ClaimsSound
  <2>2. CASE Receive(x)
    <3>1. reply[x] \notin {None, Refused} /\ got'[x] = reply[x]
      BY <1>0, <2>2 DEF Receive, ClientTypeOK
    <3>2. Sound(reply[x], DeviceOf[x])
      BY <3>1 DEF AnswersSound
    <3> QED
      BY <1>0, <3>1, <3>2, SoundStays
  <2>3. ASSUME NEW p \in Conn, p # x, Refresh(p) \/ TimeOut(p) \/ SaveFailed(p) \/ Exit(p)
        PROVE  got'[x] = got[x] /\ pc'[x] = pc[x]
    BY <1>0, <2>3
    DEF ClientTypeOK, Refresh, StartRefresh, Receive, ReceiveRefused, Failed, SendTo, Notify, Save,
        Keep, TimeOut, SaveFailed, Exit
  <2>4. ASSUME \/ StartRefresh(x) \/ ReceiveRefused(x) \/ TimeOut(x) \/ Keep(x) \/ Exit(x)
        PROVE  FALSE
    BY <1>0, <1>1, <2>4
    DEF ClientTypeOK, StartRefresh, ReceiveRefused, Failed, SendTo, Keep, TimeOut, Exit
  <2>5. ASSUME Notify(x) \/ Save(x) \/ SaveFailed(x)
        PROVE  got'[x] = got[x] /\ pc[x] \in {"notify", "save", "keep"}
    BY <2>5 DEF Notify, Save, SaveFailed
  <2>6. ASSUME UNCHANGED <<got, pc>> PROVE got'[x] = got[x] /\ pc'[x] = pc[x]
    BY <2>6
  <2> QED
    BY <1>1, <2>1, <2>2, <2>3, <2>4, <2>5, <2>6
    DEF ClientNext, ServerStep, HandleCall, HandleStray, Elsewhere, EnterKey, Refresh, allVars, clientVars
<1>2. ASSUME NEW x \in Conn, snap'[x].mode = "Editor"
      PROVE  /\ snap'[x].claims \in Claims
             /\ snap'[x].claims.status = "Active"
             /\ "editor_workspace" \in snap'[x].claims.features
             /\ Sound(snap[x].claims, DeviceOf[x])'
  <2>1. CASE snap'[x] = snap[x]
    BY <1>0, <1>2, <2>1, SoundStays DEF SnapshotsSound
  <2>2. CASE Keep(x)
    <3>1. got[x] \in Claims /\ snap'[x] = Live(got[x]) /\ Sound(got[x], DeviceOf[x])
      BY <1>0, <2>2 DEF Keep, ClientInv, ClientTypeOK, Working, ClaimsSound
    <3>2. /\ snap'[x].claims = got[x]
          /\ got[x].status = "Active" /\ "editor_workspace" \in got[x].features
      BY <1>2, <3>1 DEF Live
    <3> QED
      BY <1>0, <3>1, <3>2, SoundStays
  <2>3. ASSUME NEW p \in Conn, p # x, Refresh(p) \/ TimeOut(p) \/ SaveFailed(p) \/ Exit(p)
        PROVE  snap'[x] = snap[x]
    BY <1>0, <2>3
    DEF ClientTypeOK, Refresh, StartRefresh, Receive, ReceiveRefused, Failed, SendTo, Notify, Save,
        Keep, TimeOut, SaveFailed, Exit
  <2>4. ASSUME \/ StartRefresh(x) \/ ReceiveRefused(x) \/ TimeOut(x) \/ Exit(x)
        PROVE  snap'[x] = snap[x]
    BY <1>0, <1>2, <2>4
    DEF ClientTypeOK, StartRefresh, ReceiveRefused, Failed, SendTo, TimeOut, Exit, NoSnap
  <2>5. ASSUME Receive(x) \/ Notify(x) \/ Save(x) \/ SaveFailed(x) PROVE snap' = snap
    BY <2>5 DEF Receive, Notify, Save, SaveFailed
  <2>6. ASSUME UNCHANGED snap PROVE snap'[x] = snap[x]
    BY <2>6
  <2> QED
    BY <2>1, <2>2, <2>3, <2>4, <2>5, <2>6
    DEF ClientNext, ServerStep, HandleCall, HandleStray, Elsewhere, EnterKey, Refresh, allVars, clientVars
<1> QED
  BY <1>1, <1>2 DEF ClaimsSound, SnapshotsSound

\* a key a user did not enter is that of a replacement, or was
LEMMA StepKeys ==
    ASSUME ClientInv, ClaimsSound, KeysInForce, [ClientNext]_allVars PROVE KeysInForce'
<1>0. ClientTypeOK /\ TypeOK /\ [Next]_vars
  BY ServerPart DEF ClientInv, ClientTypeOK
<1> SUFFICES ASSUME changes' = 0 PROVE KeysInForce'
  BY DEF KeysInForce
<1>1. changes = 0 /\ InForce \subseteq InForce'
  BY <1>0, StepEntitled
<1>2. ASSUME NEW d \in Device, file'[d].key \notin Issued \cup {None}
      PROVE  <<file'[d].key, d>> \in InForce'
  <2>1. CASE file'[d].key = file[d].key
    BY <1>1, <1>2, <2>1 DEF KeysInForce
  <2>2. ASSUME NEW p \in Conn, Save(p), DeviceOf[p] = d PROVE <<file'[d].key, d>> \in InForce'
    <3>1. /\ got[p] \in Claims /\ Sound(got[p], d)
          /\ file'[d].key = IF got[p].replacement # None THEN got[p].replacement ELSE used[p].license
      BY <1>0, <2>2 DEF Save, ClientInv, ClientTypeOK, Working, ClaimsSound
    <3>2. CASE got[p].replacement # None
      BY <1>1, <3>1, <3>2 DEF Sound, Entitled, InForce
    <3>3. CASE got[p].replacement = None
      BY <1>1, <1>2, <2>2, <3>1, <3>3 DEF KeysInForce, Save
    <3> QED
      BY <3>2, <3>3
  <2>3. ASSUME NEW p \in Conn, NEW l \in License, EnterKey(p, l)
        PROVE  file'[d].key = file[d].key
    <3>1. CASE d = DeviceOf[p]
      BY <1>0, <1>2, <2>3, <3>1 DEF EnterKey, ClientTypeOK
    <3>2. CASE d # DeviceOf[p]
      BY <1>0, <2>3, <3>2 DEF EnterKey, ClientTypeOK
    <3> QED
      BY <3>1, <3>2
  <2>4. ASSUME NEW p \in Conn, Save(p), DeviceOf[p] # d PROVE file'[d] = file[d]
    BY <1>0, <2>4 DEF Save, ClientTypeOK
  <2>5. ASSUME NEW p \in Conn, Exit(p) PROVE file'[d] = file[d]
    BY <1>0, <1>2, <2>5 DEF Exit, ClientTypeOK, NoFile
  <2>6. ASSUME UNCHANGED file PROVE file'[d] = file[d]
    BY <2>6
  <2> QED
    BY <2>1, <2>2, <2>3, <2>4, <2>5, <2>6
    DEF ClientNext, ServerStep, HandleCall, HandleStray, Elsewhere, Refresh, StartRefresh, Receive,
        ReceiveRefused, Notify, Keep, TimeOut, SaveFailed, allVars, clientVars
<1>3. ASSUME NEW x \in Conn, pc'[x] # "idle", used'[x].license \notin Issued
      PROVE  <<used'[x].license, DeviceOf[x]>> \in InForce'
  <2>1. CASE used'[x] = used[x] /\ pc[x] # "idle"
    BY <1>1, <1>3, <2>1 DEF KeysInForce
  <2>2. CASE StartRefresh(x)
    <3>1. /\ file[DeviceOf[x]].key # None /\ DeviceOf[x] \in Device
          /\ used'[x].license = file[DeviceOf[x]].key
      BY <1>0, <1>3, <2>2, ClientAssumption DEF StartRefresh, ClientTypeOK
    <3> QED
      BY <1>1, <1>3, <3>1 DEF KeysInForce
  <2>3. ASSUME NEW p \in Conn, p # x, Refresh(p) \/ TimeOut(p) \/ SaveFailed(p) \/ Exit(p)
        PROVE  used'[x] = used[x] /\ pc'[x] = pc[x]
    BY <1>0, <2>3
    DEF ClientTypeOK, Refresh, StartRefresh, Receive, ReceiveRefused, Failed, SendTo, Notify, Save,
        Keep, TimeOut, SaveFailed, Exit
  <2>4. ASSUME \/ ReceiveRefused(x) \/ TimeOut(x)
        PROVE  used'[x] = used[x] /\ pc[x] # "idle"
    BY <1>0, <1>3, <2>4 DEF ClientTypeOK, ReceiveRefused, TimeOut, Failed, SendTo
  <2>5. ASSUME Receive(x) \/ Notify(x) \/ Save(x) \/ SaveFailed(x)
        PROVE  used' = used /\ pc[x] # "idle"
    BY <2>5 DEF Receive, Notify, Save, SaveFailed
  <2>6. ~Keep(x) /\ ~Exit(x)
    BY <1>0, <1>3 DEF Keep, Exit, ClientTypeOK
  <2>7. ASSUME UNCHANGED <<used, pc>> PROVE used'[x] = used[x] /\ pc'[x] = pc[x]
    BY <2>7
  <2> QED
    BY <1>3, <2>1, <2>2, <2>3, <2>4, <2>5, <2>6, <2>7
    DEF ClientNext, ServerStep, HandleCall, HandleStray, Elsewhere, EnterKey, Refresh, allVars, clientVars
<1> QED
  BY <1>2, <1>3 DEF KeysInForce

-----------------------------------------------------------------------------
ClientSound == AnswersSound /\ ClaimsSound /\ SnapshotsSound /\ KeysInForce
IInv == ClientInv /\ WaitingAnswers /\ ClientSound

LEMMA SoundStart == ClientInit => WaitingAnswers /\ ClientSound
  BY DEF ClientInit, Init, WaitingAnswers, Idle, ClientSound, AnswersSound, ClaimsSound, SnapshotsSound,
         KeysInForce, NoSnap, NoFile

LEMMA ClientStep == IInv /\ [ClientNext]_allVars => IInv'
<1> SUFFICES ASSUME IInv, [ClientNext]_allVars PROVE IInv'
  OBVIOUS
<1>1. ClientInv /\ TypeOK /\ Rows /\ Linked /\ [Next]_vars
  BY ServerPart DEF IInv, ClientInv, ClientTypeOK
<1>2. ClientTypeOK' /\ Working'
  BY StepClientType, StepWorking DEF IInv
<1>3. Rows' /\ Linked'
  BY <1>1, StepType, StepLinked DEF TypeInv
<1>4. WaitingAnswers'
  BY <1>1, StepWaitingAnswers DEF IInv
<1>5. ClientSound'
  BY StepAnswers, StepClaims, StepKeys DEF IInv, ClientSound
<1> QED
  BY <1>2, <1>3, <1>4, <1>5 DEF IInv, ClientInv

LEMMA ClientAlways == ClientSpec => []IInv
<1>1. ClientInit => IInv
  BY ClientStart, SoundStart DEF IInv
<1> QED
  BY <1>1, ClientStep, PTL DEF ClientSpec

\* Composed with clients, on a network that loses, delays and repeats calls, the
\* server is the server: all that is proved of it above holds here too.
THEOREM ServerComposed == ClientSpec => Spec
<1>1. ClientInit => Init
  BY DEF ClientInit
<1>2. IInv /\ [ClientNext]_allVars => [Next]_vars
  BY ServerPart DEF IInv
<1> QED
  BY <1>1, <1>2, ClientAlways, PTL DEF ClientSpec, Spec

\* The state file, the keyring, the calls on the way and the processes always
\* hold well-formed values (refresh_entitlement, at every point it may stop at).
THEOREM ClientTypeCorrect == ClientSpec => []ClientTypeOK
<1>1. IInv => ClientTypeOK
  BY DEF IInv, ClientInv
<1> QED
  BY <1>1, ClientAlways, PTL

\* Editor mode is backed by the server while the admin changes nothing, for any
\* number of processes on any devices, and whatever is lost, retried, answered
\* late or handled for a client that has gone (snapshot_from_live_response).
THEOREM EditorStaysEntitled == ClientSpec => []EditorIsEntitled
<1>1. IInv => EditorIsEntitled
  <2> SUFFICES ASSUME IInv, NEW p \in Conn, changes = 0, snap[p].mode = "Editor"
               PROVE  LET l == snap[p].claims.license
                      IN  DeviceOf[p] \in Trusted(l) /\ "editor_workspace" \in Granted(l)
    BY DEF EditorIsEntitled
  <2>1. /\ snap[p].claims.status = "Active" /\ "editor_workspace" \in snap[p].claims.features
        /\ Sound(snap[p].claims, DeviceOf[p])
    BY DEF IInv, ClientSound, SnapshotsSound
  <2> QED
    BY <2>1 DEF Sound, Entitled
<1> QED
  BY <1>1, ClientAlways, PTL

\* A key a device holds that no one has entered is in force and trusts the device
\* (issue_replacement_license; the replacement_key refresh_entitlement saves).
THEOREM ReplacementsWork == ClientSpec => []ReplacementWorks
<1>1. IInv => ReplacementWorks
  BY DEF IInv, ClientSound, KeysInForce, ReplacementWorks, InForce
<1> QED
  BY <1>1, ClientAlways, PTL

-----------------------------------------------------------------------------
(* One process on a device: its key and its secret are the device's.       *)

OneProcess == \A p, q \in Conn : DeviceOf[p] = DeviceOf[q] => p = q
OneKey == \A k, l \in Issued : k = l

\* until it is saved, the key a process presented is the one in the file
KeyRead == \A p \in Conn :
    pc[p] \in {"calling", "notify", "save"} => used[p].license = file[DeviceOf[p]].key

\* what a step may do to the keys in the files
FileStep ==
    \A d \in Device : file'[d].key # file[d].key =>
        \/ file'[d] = NoFile
        \/ \E p \in Conn, l \in Issued : EnterKey(p, l)
        \/ \E p \in Conn : Save(p) /\ used[p].license = file[d].key
                          /\ got[p].replacement = file'[d].key

\* A step of one process leaves the others, and what their devices keep, alone.
LEMMA OthersStay ==
    ASSUME OneProcess, ClientInv, NEW p \in Conn, NEW x \in Conn, x # p,
           \/ Refresh(p) \/ TimeOut(p) \/ SaveFailed(p) \/ Exit(p)
           \/ \E l \in License : EnterKey(p, l)
    PROVE  /\ pc'[x] = pc[x] /\ used'[x] = used[x] /\ got'[x] = got[x]
           /\ file'[DeviceOf[x]] = file[DeviceOf[x]] /\ keyring'[DeviceOf[x]] = keyring[DeviceOf[x]]
<1>1. DeviceOf[x] # DeviceOf[p] /\ DeviceOf[x] \in Device /\ ClientTypeOK
  BY ClientAssumption DEF OneProcess, ClientInv
<1>2. pc'[x] = pc[x] /\ used'[x] = used[x] /\ got'[x] = got[x]
  BY <1>1 DEF ClientTypeOK, Refresh, StartRefresh, Receive, ReceiveRefused, Failed, SendTo, Notify, Save,
      Keep, TimeOut, SaveFailed, Exit, EnterKey
<1>3. file'[DeviceOf[x]] = file[DeviceOf[x]] /\ keyring'[DeviceOf[x]] = keyring[DeviceOf[x]]
  <2>1. ASSUME Exit(p) PROVE file'[DeviceOf[x]] = file[DeviceOf[x]] /\ keyring' = keyring
    BY <1>1, <2>1 DEF ClientTypeOK, Exit
  <2>2. ASSUME Save(p) \/ \E l \in License : EnterKey(p, l)
        PROVE  file'[DeviceOf[x]] = file[DeviceOf[x]] /\ keyring' = keyring
    BY <1>1, <2>2 DEF ClientTypeOK, Save, EnterKey
  <2>3. ASSUME Keep(p) PROVE file' = file /\ keyring'[DeviceOf[x]] = keyring[DeviceOf[x]]
    BY <1>1, <2>3 DEF ClientTypeOK, Keep
  <2>4. ASSUME StartRefresh(p) \/ Receive(p) \/ ReceiveRefused(p) \/ Notify(p) \/ TimeOut(p) \/ SaveFailed(p)
        PROVE  UNCHANGED <<file, keyring>>
    BY <2>4 DEF StartRefresh, Receive, ReceiveRefused, Notify, TimeOut, SaveFailed
  <2> QED
    BY <2>1, <2>2, <2>3, <2>4 DEF Refresh
<1> QED
  BY <1>2, <1>3

LEMMA StepKeyRead ==
    ASSUME OneProcess, ClientInv, KeyRead, [ClientNext]_allVars
    PROVE  KeyRead' /\ FileStep
<1>0. ClientTypeOK
  BY DEF ClientInv
<1>1. ASSUME UNCHANGED <<file, pc, used>> PROVE KeyRead' /\ FileStep
  BY <1>1 DEF KeyRead, FileStep
<1>2. ASSUME NEW p \in Conn, \/ Refresh(p) \/ TimeOut(p) \/ SaveFailed(p) \/ Exit(p)
                             \/ \E l \in License : EnterKey(p, l),
             pc'[p] \in {"calling", "notify", "save"} => used'[p].license = file'[DeviceOf[p]].key
      PROVE  KeyRead'
  BY <1>2, OthersStay DEF KeyRead
<1>3. ASSUME NEW p \in Conn, NEW l \in License, EnterKey(p, l) PROVE KeyRead' /\ FileStep
  <2>1. pc'[p] = "idle" /\ l \in Issued
    BY <1>3 DEF EnterKey
  <2> QED
    BY <1>2, <1>3, <2>1 DEF FileStep
<1>4. ASSUME NEW p \in Conn, StartRefresh(p) PROVE KeyRead' /\ FileStep
  <2>1. /\ file' = file
        /\ pc'[p] = "calling" => used'[p].license = file[DeviceOf[p]].key
        /\ pc'[p] \in {"idle", "calling"}
    BY <1>0, <1>4 DEF StartRefresh, SendTo, ClientTypeOK
  <2> QED
    BY <1>2, <1>4, <2>1 DEF FileStep, Refresh
<1>5. ASSUME NEW p \in Conn, ReceiveRefused(p) \/ TimeOut(p) \/ Receive(p) \/ Notify(p) PROVE KeyRead' /\ FileStep
  <2>1. /\ file' = file /\ pc[p] \in {"calling", "notify"}
        /\ pc'[p] # "idle" => used'[p] = used[p]
    BY <1>0, <1>5 DEF ReceiveRefused, TimeOut, Receive, Notify, Failed, SendTo, ClientTypeOK
  <2> QED
    BY <1>2, <1>5, <2>1 DEF FileStep, Refresh, KeyRead
<1>6. ASSUME NEW p \in Conn, Save(p) PROVE KeyRead' /\ FileStep
  <2>1. /\ pc[p] = "save" /\ pc'[p] = "keep" /\ DeviceOf[p] \in Device /\ used[p].license = file[DeviceOf[p]].key
    BY <1>0, <1>6, ClientAssumption DEF Save, ClientTypeOK, KeyRead
  <2>2. /\ \A d \in Device : d # DeviceOf[p] => file'[d] = file[d]
        /\ file'[DeviceOf[p]].key =
              IF got[p].replacement # None THEN got[p].replacement ELSE used[p].license
    BY <1>0, <1>6, <2>1 DEF Save, ClientTypeOK
  <2>3. FileStep
    BY <1>6, <2>1, <2>2 DEF FileStep
  <2> QED
    BY <1>2, <1>6, <2>1, <2>3 DEF Refresh
<1>7. ASSUME NEW p \in Conn, SaveFailed(p) \/ Keep(p) PROVE KeyRead' /\ FileStep
  <2>1. file' = file /\ pc'[p] \in {"keep", "idle"}
    BY <1>0, <1>7 DEF SaveFailed, Keep, ClientTypeOK
  <2> QED
    BY <1>2, <1>7, <2>1 DEF FileStep, Refresh
<1>8. ASSUME NEW p \in Conn, Exit(p) PROVE KeyRead' /\ FileStep
  <2>1. pc'[p] = "idle" /\ \A d \in Device : file'[d] = file[d] \/ file'[d] = NoFile
    BY <1>0, <1>8 DEF Exit, ClientTypeOK
  <2> QED
    BY <1>2, <1>8, <2>1 DEF FileStep
<1>9. CASE ServerStep \/ UNCHANGED allVars
  BY <1>1, <1>9 DEF ServerStep, clientVars, allVars
<1>10. CASE \/ \E p \in Conn : HandleCall(p)
            \/ \E c \in strays : HandleStray(c)
            \/ \E l \in License, d \in Device : Elsewhere(l, d)
  BY <1>1, <1>10 DEF HandleCall, HandleStray, Elsewhere, clientVars
<1> QED
  BY <1>3, <1>4, <1>5, <1>6, <1>7, <1>8, <1>9, <1>10 DEF ClientNext, Refresh

\* With one process on a device, a refresh never writes back a key that is no
\* longer the device's (load_state at the end of refresh_entitlement).
THEOREM KeyIsKept ==
    ASSUME OneProcess
    PROVE  ClientSpec => KeyKept
<1>1. ClientInit => KeyRead
  BY DEF ClientInit, KeyRead
<1>2. IInv /\ KeyRead /\ [ClientNext]_allVars => KeyRead' /\ [FileStep]_allVars
  BY StepKeyRead DEF IInv
<1>3. [FileStep]_allVars =>
        [\A d \in Device : file'[d].key # file[d].key =>
            \/ file'[d] = NoFile
            \/ \E p \in Conn, l \in Issued : EnterKey(p, l)
            \/ \E p \in Conn : Save(p) /\ used[p].license = file[d].key
                              /\ got[p].replacement = file'[d].key]_allVars
  BY DEF FileStep
<1> QED
  BY <1>1, <1>2, <1>3, ClientAlways, PTL DEF ClientSpec, KeyKept

\* the answer a process has and has not acted on yet, and with it the key and
\* the secret its device has or is about to have
Outstanding(p) ==
    CASE pc[p] = "calling" -> IF reply[p] = Refused THEN None ELSE reply[p]
      [] pc[p] = "idle" -> None
      [] OTHER -> got[p]
KeyOf(p) == IF Outstanding(p) # None /\ Outstanding(p).replacement # None
            THEN Outstanding(p).replacement ELSE file[DeviceOf[p]].key
SecretOf(p) == IF Outstanding(p) # None /\ Outstanding(p).secret # None
               THEN Outstanding(p).secret ELSE keyring[DeviceOf[p]]

\* the secrets the server stores are those the devices present next
Tracked(p) ==
    /\ pc[p] = "calling" => used[p].provided = keyring[DeviceOf[p]]
    /\ pc[p] = "keep" => KeyOf(p) = file[DeviceOf[p]].key
    /\ \A k \in License : inst[<<k, DeviceOf[p]>>].secret # None =>
          /\ k \in Issued => KeyOf(p) = k
          /\ KeyOf(p) = k => SecretOf(p) = inst[<<k, DeviceOf[p]>>].secret

Whole == losses = 0 /\ changes = 0
InTouch == Whole =>
    /\ flagged = {} /\ strays = {} /\ \A p \in Conn : Tracked(p)
    /\ \A x \in License \X Device :
          inst[x].state \notin Soft /\ (inst[x].secret # None => inst[x].state = "active")

\* What a step leaves alone of a process, its device and its answer.
Alone(x) ==
    /\ pc'[x] = pc[x] /\ used'[x] = used[x] /\ got'[x] = got[x]
    /\ file'[DeviceOf[x]] = file[DeviceOf[x]] /\ keyring'[DeviceOf[x]] = keyring[DeviceOf[x]]
    /\ \A k \in License : inst'[<<k, DeviceOf[x]>>] = inst[<<k, DeviceOf[x]>>]

LEMMA TrackedAlone ==
    ASSUME NEW x \in Conn, Tracked(x), Alone(x),
           \/ reply'[x] = reply[x]
           \/ /\ pc[x] = "calling" => Outstanding(x) = None
              /\ \/ reply'[x] \in {None, Refused}
                 \/ reply'[x].replacement = None /\ reply'[x].secret = None
    PROVE  Tracked(x)'
<1>1. KeyOf(x)' = KeyOf(x) /\ SecretOf(x)' = SecretOf(x)
  <2>1. CASE reply'[x] = reply[x] \/ pc[x] # "calling"
    <3>1. Outstanding(x)' = Outstanding(x)
      BY <2>1 DEF Alone, Outstanding
    <3> QED
      BY <3>1 DEF Alone, KeyOf, SecretOf
  <2>2. CASE pc[x] = "calling" /\ Outstanding(x) = None
    <3>1. Outstanding(x)' = None \/ (Outstanding(x)'.replacement = None /\ Outstanding(x)'.secret = None)
          \/ Outstanding(x)' = Outstanding(x)
      BY <2>2 DEF Alone, Outstanding
    <3> QED
      BY <2>2, <3>1 DEF Alone, KeyOf, SecretOf
  <2> QED
    BY <2>1, <2>2
<1> QED
  BY <1>1 DEF Tracked, Alone

\* While the admin changes nothing, only verify_key writes installations and flags.
LEMMA ServerWrites ==
    ASSUME TypeOK, ServerStep, changes' = 0
    PROVE  inst' = inst /\ flagged' = flagged
<1>1. ~NoteChange
  BY DEF TypeOK, NoteChange
<1>2. CASE Admin
  <2>1. \E r \in Request : ApproveRequest(r)
    BY <1>1, <1>2
    DEF Admin, CreateNotification, UpdateFeatures, SetKeyActive, SetLicenseState, SetKeyState,
        SetInstallationState, SetRequestState
  <2> QED
    BY <2>1 DEF ApproveRequest
<1>3. CASE Mailer \/ Owner \/ Restart \/ Tick
  BY <1>3 DEF Mailer, Owner, Restart, Tick, MarkSent, Delivered, DeliveryFailed, MarkDelivered, Confirm, tables
<1>4. CASE \E l \in Issued, granted \in Grants : IssueLicense(l, granted)
  BY <1>4 DEF IssueLicense
<1> QED
  BY <1>2, <1>3, <1>4 DEF ServerStep

\* An answer of a mailing handler says nothing new of key or secret.
LEMMA ServerAnswers ==
    ASSUME TypeOK, WaitingAnswers, ServerStep, NEW x \in Conn
    PROVE  \/ reply'[x] = reply[x]
           \/ reply'[x] \in {None, Refused}
           \/ reply'[x].replacement = None /\ reply'[x].secret = None
<1>1. ASSUME NEW e \in Mail, MarkSent(e) \/ Delivered(e) \/ DeliveryFailed(e) \/ MarkDelivered(e)
      PROVE  reply'[x] = reply[x] \/ reply'[x] = task[e].reply
  BY <1>1 DEF MarkSent, Delivered, DeliveryFailed, MarkDelivered, Finish, Answer
<1>2. CASE Restart
  BY <1>2 DEF Restart
<1>3. CASE reply' = reply
  BY <1>3
<1> QED
  BY <1>1, <1>2, <1>3
  DEF ServerStep, Mailer, Owner, Admin, IssueLicense, Tick, Confirm, ApproveRequest, UpdateFeatures,
      SetKeyActive, SetLicenseState, SetKeyState, SetInstallationState, SetRequestState,
      CreateNotification, mailing, WaitingAnswers

\* A call that presents the secret stored for its installation raises no flag,
\* and touches the installations of its device only.
LEMMA VerifyStores ==
    ASSUME TypeOK, NEW c \in Conn \cup {None}, NEW l \in License, NEW d \in Device,
           NEW provided \in Secret \cup {None}, NEW s \in Secret, Verify(c, l, d, provided, s),
           \A x \in License \X Device : inst[x].state \notin Soft /\ (inst[x].secret # None => inst[x].state = "active")
    PROVE  /\ \A x \in License \X Device : inst'[x].state \notin Soft /\ (inst'[x].secret # None => inst'[x].state = "active")
           /\ \A k \in License, g \in Device : g # d => inst'[<<k, g>>] = inst[<<k, g>>]
           /\ (provided = None \/ inst[<<l, d>>].secret = None \/ provided = inst[<<l, d>>].secret) => flagged' = flagged
<1>1. s # None /\ "active" \notin Soft
  BY ConstantsAssumption DEF Soft
<1>2. CASE UNCHANGED <<inst, flagged>>
  BY <1>2
<1>3. CASE VerifyInitial(c, l, d, s) \/ VerifyPromoted(c, l, d, s)
  <2>1. flagged' = flagged /\ inst' = [inst EXCEPT ![<<l, d>>] = [state |-> "active", secret |-> s]]
    BY <1>3 DEF VerifyInitial, VerifyPromoted, Trust
  <2> QED
    BY <1>1, <2>1 DEF TypeOK
<1>4. CASE VerifyTrusted(c, l, d, s, provided)
  <2>1. /\ inst' = [inst EXCEPT ![<<l, d>>].secret = s] /\ inst[<<l, d>>].state = "active"
        /\ flagged' = IF None \notin {inst[<<l, d>>].secret, provided} /\ provided # inst[<<l, d>>].secret
                      THEN flagged \cup {<<l, d>>} ELSE flagged
    BY <1>4 DEF VerifyTrusted, Trusted
  <2> QED
    BY <1>1, <2>1 DEF TypeOK, InstRow
<1>5. ASSUME NEW n \in License, VerifyReplaced(c, l, d, s, n)
      PROVE  flagged' = flagged /\ inst' = [inst EXCEPT ![<<n, d>>] = [state |-> "active", secret |-> s]]
  BY <1>5 DEF VerifyReplaced
<1>6. ASSUME NEW n \in License, inst' = [inst EXCEPT ![<<n, d>>] = [state |-> "active", secret |-> s]]
      PROVE  /\ \A x \in License \X Device : inst'[x].state \notin Soft /\ (inst'[x].secret # None => inst'[x].state = "active")
             /\ \A k \in License, g \in Device : g # d => inst'[<<k, g>>] = inst[<<k, g>>]
  BY <1>1, <1>6 DEF TypeOK
<1> QED
  BY <1>2, <1>3, <1>4, <1>5, <1>6 DEF Verify, VerifyRefused, VerifyPending, VerifyRequested, tables

\* A new secret is in the answer: for the key presented, or for a replacement,
\* which only a device gets that has no secret under that key.
CallStored(c, l, d, s) ==
    \/ /\ inst' = inst
       /\ \/ reply'[c] \in {reply[c], None, Refused}
          \/ reply'[c].replacement = None /\ reply'[c].secret = None
    \/ \E n \in License :
         /\ reply'[c] \notin {None, Refused} /\ reply'[c].secret = s /\ inst'[<<n, d>>].secret = s
         /\ \A k \in License : k # n => inst'[<<k, d>>] = inst[<<k, d>>]
         /\ \/ n = l /\ reply'[c].replacement = None
            \/ n # None /\ reply'[c].replacement = n /\ inst[<<l, d>>].secret = None

LEMMA CallStores ==
    ASSUME TypeOK, NEW c \in Conn, NEW l \in License, NEW d \in Device,
           NEW provided \in Secret \cup {None}, NEW s \in Secret, Verify(c, l, d, provided, s),
           \A x \in License \X Device : inst[x].state \notin Soft /\ (inst[x].secret # None => inst[x].state = "active")
    PROVE  CallStored(c, l, d, s)
<1> USE DEF CallStored
<1>1. s # None
  BY ConstantsAssumption
<1>2. CASE VerifyRefused(c, l) \/ VerifyPending(c, l, d) \/ \E r \in Request, e \in Mail : VerifyRequested(c, l, d, r, e)
  <2>1. inst' = inst
    BY <1>2 DEF VerifyRefused, VerifyPending, VerifyRequested, tables
  <2>2. \/ reply'[c] \in {reply[c], None, Refused}
        \/ reply'[c].replacement = None /\ reply'[c].secret = None
    BY <1>2 DEF VerifyRefused, VerifyPending, VerifyRequested, Answer, Signed
  <2> QED
    BY <2>1, <2>2
<1>3. CASE VerifyInitial(c, l, d, s) \/ VerifyPromoted(c, l, d, s) \/ VerifyTrusted(c, l, d, s, provided)
  <2>1. reply'[c] = Signed("Active", l, Granted(l), s, None)
    BY <1>3 DEF VerifyInitial, VerifyPromoted, VerifyTrusted, Answer
  <2>2. reply'[c] \notin {None, Refused} /\ reply'[c].secret = s /\ reply'[c].replacement = None
    <3>1. Signed("Active", l, Granted(l), s, None) \in Claims
      BY SignedType, GrantedType DEF TypeOK
    <3> QED
      BY <2>1, <3>1, AnswersAssumption DEF Signed
  <2>3. \/ inst' = [inst EXCEPT ![<<l, d>>] = [state |-> "active", secret |-> s]]
        \/ inst' = [inst EXCEPT ![<<l, d>>].secret = s]
    BY <1>3 DEF VerifyInitial, VerifyPromoted, VerifyTrusted, Trust
  <2>4. inst'[<<l, d>>].secret = s /\ \A k \in License : k # l => inst'[<<k, d>>] = inst[<<k, d>>]
    BY <2>3 DEF TypeOK, InstRow
  <2> QED
    BY <2>2, <2>4
<1>4. ASSUME NEW n \in License, VerifyReplaced(c, l, d, s, n)
      PROVE  /\ reply'[c] \notin {None, Refused} /\ reply'[c].secret = s /\ inst'[<<n, d>>].secret = s
             /\ \A k \in License : k # n => inst'[<<k, d>>] = inst[<<k, d>>]
             /\ n # None /\ reply'[c].replacement = n /\ inst[<<l, d>>].secret = None
  <2>1. reply'[c] = Signed("ReplacementIssued", n, {"basic"}, s, n) /\ n # None
    BY <1>4, ConstantsAssumption DEF VerifyReplaced, Answer
  <2>2. reply'[c] \notin {None, Refused} /\ reply'[c].secret = s /\ reply'[c].replacement = n
    <3>1. Signed("ReplacementIssued", n, {"basic"}, s, n) \in Claims
      BY SignedType DEF TypeOK, Feature
    <3> QED
      BY <2>1, <3>1, AnswersAssumption DEF Signed
  <2>3. inst' = [inst EXCEPT ![<<n, d>>] = [state |-> "active", secret |-> s]]
    BY <1>4 DEF VerifyReplaced
  <2>4. inst[<<l, d>>].secret = None
    BY <1>4 DEF VerifyReplaced, NotTrusted, Trusted
  <2>5. inst'[<<n, d>>].secret = s /\ \A k \in License : k # n => inst'[<<k, d>>] = inst[<<k, d>>]
    BY <2>3 DEF TypeOK
  <2> QED
    BY <2>1, <2>2, <2>4, <2>5
<1> QED
  BY <1>2, <1>3, <1>4 DEF Verify

LEMMA TrackedMoves ==
    ASSUME NEW x \in Conn, Tracked(x), KeyOf(x)' = KeyOf(x), SecretOf(x)' = SecretOf(x), inst' = inst,
           pc'[x] = "calling" => used'[x].provided = keyring'[DeviceOf[x]],
           pc'[x] = "keep" => KeyOf(x)' = file'[DeviceOf[x]].key
    PROVE  Tracked(x)'
  BY DEF Tracked

\* A call that is handled keeps the key and the secret of its device in touch.
LEMMA HandledTracked ==
    ASSUME IInv, KeyRead, InTouch, Whole, NEW p \in Conn, HandleCall(p)
    PROVE  Tracked(p)' /\ flagged' = flagged
<1> DEFINE d == DeviceOf[p]
           l == net[p].license
           provided == net[p].provided
           s == Fresh(l, d)
<1>1. ClientInv /\ Working /\ TypeOK
  BY DEF IInv, ClientInv, ClientTypeOK
<1>2. /\ net[p] = used[p] /\ l \in License /\ net[p].device = d /\ d \in Device
      /\ provided \in Secret \cup {None} /\ s \in Secret /\ s # None
  <2>1. /\ net[p] = used[p] /\ l \in License /\ net[p].device = d /\ d \in Device
        /\ provided \in Secret \cup {None}
    BY <1>1, HandledCall
  <2> HIDE DEF l, d
  <2>2. Fresh(l, d) \in Secret
    BY <2>1, FreshSecret
  <2> QED
    BY <2>1, <2>2, ConstantsAssumption
<1>3. Verify(p, l, d, provided, s) /\ UNCHANGED <<file, keyring, pc, used, got>>
  BY <1>2 DEF HandleCall
<1>4. pc[p] = "calling" /\ reply[p] = None
  BY <1>1 DEF HandleCall, Working
<1>5. Outstanding(p) = None /\ KeyOf(p) = l /\ SecretOf(p) = provided
  <2>1. Outstanding(p) = None
    BY <1>4 DEF Outstanding
  <2>2. l = file[d].key /\ provided = keyring[d]
    BY <1>2, <1>4 DEF KeyRead, InTouch, Tracked
  <2> QED
    BY <2>1, <2>2 DEF KeyOf, SecretOf
<1>6. /\ Tracked(p)
      /\ \A x \in License \X Device : inst[x].state \notin Soft /\ (inst[x].secret # None => inst[x].state = "active")
  BY DEF InTouch
<1>7. inst[<<l, d>>].secret = None \/ provided = inst[<<l, d>>].secret
  BY <1>2, <1>5, <1>6 DEF Tracked
<1> HIDE DEF l, provided, s
<1>8. flagged' = flagged
  BY <1>1, <1>2, <1>3, <1>6, <1>7, VerifyStores
<1>9. CASE /\ inst' = inst
           /\ \/ reply'[p] \in {reply[p], None, Refused}
              \/ reply'[p].replacement = None /\ reply'[p].secret = None
  <2>1. Alone(p)
    BY <1>3, <1>9 DEF Alone
  <2>2. Tracked(p)'
    BY <1>5, <1>6, <1>9, <2>1, TrackedAlone
  <2> QED
    BY <1>8, <2>2
<1>10. ASSUME NEW n \in License,
              /\ reply'[p] \notin {None, Refused} /\ reply'[p].secret = s /\ inst'[<<n, d>>].secret = s
              /\ \A k \in License : k # n => inst'[<<k, d>>] = inst[<<k, d>>]
              /\ \/ n = l /\ reply'[p].replacement = None
                 \/ n # None /\ reply'[p].replacement = n /\ inst[<<l, d>>].secret = None
       PROVE  Tracked(p)'
  <2>1. Outstanding(p)' = reply'[p]
    BY <1>3, <1>4, <1>10 DEF Outstanding
  <2>2. SecretOf(p)' = s
    BY <1>2, <1>10, <2>1 DEF SecretOf
  <2>3. KeyOf(p)' = n
    BY <1>3, <1>5, <1>10, <2>1 DEF KeyOf
  <2>4. ASSUME NEW k \in License, k # n, inst'[<<k, d>>].secret # None PROVE k \notin Issued
    <3>1. inst[<<k, d>>].secret # None
      BY <1>10, <2>4
    <3>2. k \in Issued => k = l
      BY <1>5, <1>6, <3>1 DEF Tracked
    <3> QED
      BY <1>10, <2>4, <3>1, <3>2
  <2>5. pc'[p] = "calling" /\ used'[p].provided = keyring'[d]
    BY <1>3, <1>4, <1>6 DEF Tracked
  <2> QED
    BY <1>10, <2>2, <2>3, <2>4, <2>5 DEF Tracked
<1>11. CallStored(p, l, d, s)
  <2> HIDE DEF d
  <2> QED
    BY <1>1, <1>2, <1>3, <1>6, CallStores
<1> QED
  BY <1>8, <1>9, <1>10, <1>11 DEF CallStored

\* So do the steps of a process.
LEMMA RefreshTracked ==
    ASSUME IInv, KeyRead, InTouch, Whole, Whole', NEW p \in Conn,
           Refresh(p) \/ TimeOut(p) \/ SaveFailed(p) \/ Exit(p)
    PROVE  Tracked(p)' /\ UNCHANGED <<inst, flagged, strays>>
<1>1. ClientInv /\ Working /\ TypeOK /\ ClientTypeOK /\ Tracked(p) /\ DeviceOf[p] \in Device
  BY ClientAssumption DEF IInv, ClientInv, ClientTypeOK, InTouch
<1>2. ~TimeOut(p) /\ ~SaveFailed(p) /\ ~Exit(p)
  BY DEF Whole, TimeOut, SaveFailed, Exit
<1>3. UNCHANGED <<inst, flagged, strays>>
  BY <1>2 DEF Refresh, StartRefresh, Receive, ReceiveRefused, Notify, Save, Keep, vars, tables, Disconnect,
      ReadNotifications
<1>4. ASSUME StartRefresh(p) PROVE Tracked(p)'
  <2>1. reply' = reply /\ reply[p] = None /\ pc[p] = "idle" /\ UNCHANGED <<file, keyring, got>>
    BY <1>1, <1>4 DEF StartRefresh, vars, Working
  <2>2. \/ UNCHANGED <<pc, used>>
        \/ pc'[p] = "calling" /\ used'[p].provided = keyring[DeviceOf[p]]
    BY <1>1, <1>4 DEF StartRefresh, SendTo, ClientTypeOK
  <2>3. Outstanding(p) = None /\ Outstanding(p)' = None
    BY <2>1, <2>2 DEF Outstanding
  <2>4. KeyOf(p)' = KeyOf(p) /\ SecretOf(p)' = SecretOf(p)
    BY <2>1, <2>3 DEF KeyOf, SecretOf
  <2> QED
    BY <1>1, <1>3, <2>1, <2>2, <2>4, TrackedMoves
<1>5. ASSUME Receive(p) PROVE Tracked(p)'
  <2>1. pc[p] = "calling" /\ pc'[p] = "notify" /\ got'[p] = reply[p] /\ reply[p] # Refused /\ UNCHANGED <<file, keyring>>
    BY <1>1, <1>5 DEF Receive, ClientTypeOK
  <2>2. Outstanding(p)' = Outstanding(p)
    BY <2>1 DEF Outstanding
  <2>3. KeyOf(p)' = KeyOf(p) /\ SecretOf(p)' = SecretOf(p)
    BY <2>1, <2>2 DEF KeyOf, SecretOf
  <2> QED
    BY <1>1, <1>3, <2>1, <2>3, TrackedMoves
<1>6. ASSUME ReceiveRefused(p) PROVE Tracked(p)'
  <2>1. pc[p] = "calling" /\ reply[p] = Refused /\ reply'[p] = None /\ UNCHANGED <<file, keyring>>
    BY <1>1, <1>6 DEF ReceiveRefused, Disconnect, TypeOK
  <2>2. pc'[p] = "idle" \/ (pc'[p] = "calling" /\ used' = used)
    BY <1>1, <1>6 DEF ReceiveRefused, Failed, SendTo, ClientTypeOK
  <2>3. Outstanding(p) = None /\ Outstanding(p)' = None
    BY <2>1, <2>2 DEF Outstanding
  <2>4. KeyOf(p)' = KeyOf(p) /\ SecretOf(p)' = SecretOf(p)
    BY <2>1, <2>3 DEF KeyOf, SecretOf
  <2> QED
    BY <1>1, <1>3, <2>1, <2>2, <2>4, TrackedMoves DEF Tracked
<1>7. ASSUME Notify(p) PROVE Tracked(p)'
  <2>1. pc[p] = "notify" /\ pc'[p] = "save" /\ UNCHANGED <<file, keyring, got>>
    BY <1>1, <1>7 DEF Notify, ClientTypeOK
  <2>2. Outstanding(p)' = Outstanding(p)
    BY <2>1 DEF Outstanding
  <2>3. KeyOf(p)' = KeyOf(p) /\ SecretOf(p)' = SecretOf(p)
    BY <2>1, <2>2 DEF KeyOf, SecretOf
  <2> QED
    BY <1>1, <1>3, <2>1, <2>3, TrackedMoves
<1>8. ASSUME Save(p) PROVE Tracked(p)'
  <2>1. /\ pc[p] = "save" /\ pc'[p] = "keep" /\ UNCHANGED <<keyring, got>> /\ got[p] \in Claims
        /\ used[p].license = file[DeviceOf[p]].key
    BY <1>1, <1>8 DEF Save, ClientTypeOK, Working, KeyRead
  <2>2. file'[DeviceOf[p]].key =
            IF got[p].replacement # None THEN got[p].replacement ELSE used[p].license
    BY <1>1, <1>8 DEF Save, ClientTypeOK
  <2>3. Outstanding(p) = got[p] /\ Outstanding(p)' = got[p] /\ got[p] # None
    BY <2>1, AnswersAssumption DEF Outstanding
  <2>4. /\ KeyOf(p)' = KeyOf(p) /\ KeyOf(p)' = file'[DeviceOf[p]].key
        /\ SecretOf(p)' = SecretOf(p)
    BY <2>1, <2>2, <2>3 DEF KeyOf, SecretOf
  <2> QED
    BY <1>1, <1>3, <2>1, <2>4, TrackedMoves
<1>9. ASSUME Keep(p) PROVE Tracked(p)'
  <2>1. /\ pc[p] = "keep" /\ pc'[p] = "idle" /\ UNCHANGED file /\ got[p] \in Claims
        /\ keyring'[DeviceOf[p]] = IF got[p].secret = None THEN keyring[DeviceOf[p]] ELSE got[p].secret
    BY <1>1, <1>9 DEF Keep, ClientTypeOK, Working
  <2>2. Outstanding(p) = got[p] /\ Outstanding(p)' = None /\ got[p] # None
    BY <2>1, AnswersAssumption DEF Outstanding
  <2>3. KeyOf(p) = file[DeviceOf[p]].key
    BY <1>1, <2>1 DEF Tracked
  <2>4. KeyOf(p)' = file[DeviceOf[p]].key
    BY <2>1, <2>2 DEF KeyOf
  <2>5. SecretOf(p)' = SecretOf(p)
    BY <2>1, <2>2 DEF SecretOf
  <2> QED
    BY <1>1, <1>3, <2>1, <2>3, <2>4, <2>5, TrackedMoves
<1> QED
  BY <1>2, <1>3, <1>4, <1>5, <1>6, <1>7, <1>8, <1>9 DEF Refresh

LEMMA RefreshReplies ==
    ASSUME TypeOK, NEW p \in Conn, NEW x \in Conn, x # p,
           Refresh(p) \/ TimeOut(p) \/ SaveFailed(p) \/ Exit(p) \/ \E l \in License : EnterKey(p, l)
    PROVE  reply'[x] = reply[x] /\ \A m \in Mail : task'[m].conn = x => task[m].conn = x
<1>1. CASE Disconnect(p)
  <2>1. reply'[x] = reply[x]
    BY <1>1 DEF Disconnect, TypeOK
  <2>2. \A m \in Mail : task'[m].conn \in {task[m].conn, None}
    BY <1>1 DEF Disconnect, TypeOK, TaskRow
  <2> QED
    BY <2>1, <2>2, ConstantsAssumption
<1>2. CASE reply' = reply /\ task' = task
  BY <1>2
<1>3. CASE \E l \in License : EnterKey(p, l)
  BY <1>2, <1>3 DEF EnterKey, vars
<1>4. CASE Refresh(p)
  BY <1>1, <1>2, <1>4 DEF Refresh, StartRefresh, Receive, ReceiveRefused, Notify, ReadNotifications, Save, Keep, vars
<1> QED
  BY <1>1, <1>2, <1>3, <1>4 DEF TimeOut, SaveFailed, Exit, vars

\* A connection has one call, which is answered once.
OneAnswer(x) ==
    /\ Waiting(x) => reply[x] = None
    /\ \A e, m \in Mail : task[e].conn = x /\ task[m].conn = x => e = m
Answered == \A x \in Conn : OneAnswer(x)

LEMMA AnswerStays ==
    ASSUME NEW x \in Conn, OneAnswer(x), \A m \in Mail : task'[m].conn = x => task[m].conn = x,
           reply'[x] \in {reply[x], None}
    PROVE  OneAnswer(x)'
  BY DEF OneAnswer, Waiting

LEMMA ServerAnswersOnce ==
    ASSUME TypeOK, ServerStep, NEW x \in Conn, OneAnswer(x)
    PROVE  OneAnswer(x)'
<1>0. x # None
  BY ConstantsAssumption
<1>1. ASSUME NEW e \in Mail, MarkSent(e) \/ Delivered(e) PROVE OneAnswer(x)'
  <2>1. reply' = reply /\ \A m \in Mail : task'[m].conn = task[m].conn
    BY <1>1 DEF MarkSent, Delivered, TypeOK, TaskRow
  <2> QED
    BY <2>1, AnswerStays
<1>2. ASSUME NEW e \in Mail, DeliveryFailed(e) \/ MarkDelivered(e) PROVE OneAnswer(x)'
  <2>1. Finish(e)
    BY <1>2 DEF DeliveryFailed, MarkDelivered
  <2>2. \A m \in Mail : task'[m] = IF m = e THEN Idle ELSE task[m]
    BY <2>1 DEF Finish, TypeOK
  <2>3. \A m \in Mail : task'[m].conn = x => m # e /\ task[m].conn = x
    BY <1>0, <2>2 DEF Idle
  <2>4. reply'[x] = IF x = task[e].conn THEN task[e].reply ELSE reply[x]
    BY <2>1 DEF Finish, Answer
  <2>5. CASE x = task[e].conn
    BY <1>0, <2>3, <2>5 DEF OneAnswer, Waiting
  <2>6. CASE x # task[e].conn
    BY <2>3, <2>4, <2>6, AnswerStays
  <2> QED
    BY <2>5, <2>6
<1>3. CASE Restart
  <2>1. \A m \in Mail : task'[m].conn = None
    BY <1>3 DEF Restart, Idle
  <2> QED
    BY <1>0, <2>1 DEF OneAnswer, Waiting
<1>4. ASSUME NEW l \in License, NEW e \in Mail, CreateNotification(l, e) PROVE OneAnswer(x)'
  <2>1. reply' = reply /\ \A m \in Mail : task'[m].conn \in {task[m].conn, None}
    BY <1>4 DEF CreateNotification, TypeOK
  <2> QED
    BY <1>0, <2>1, AnswerStays
<1>5. CASE reply' = reply /\ task' = task
  BY <1>5, AnswerStays
<1> QED
  BY <1>1, <1>2, <1>3, <1>4, <1>5
  DEF ServerStep, Mailer, Owner, Admin, IssueLicense, Tick, Confirm, ApproveRequest, UpdateFeatures,
      SetKeyActive, SetLicenseState, SetKeyState, SetInstallationState, SetRequestState, mailing

LEMMA CallAnsweredOnce ==
    ASSUME TypeOK, NEW c \in Conn \cup {None}, NEW l \in License, NEW d \in Device,
           NEW provided, NEW s, Verify(c, l, d, provided, s), NEW x \in Conn, OneAnswer(x),
           x = c => ~Waiting(x) /\ reply[x] = None
    PROVE  OneAnswer(x)'
<1>0. x # None
  BY ConstantsAssumption
<1>1. ASSUME NEW r \in Request, NEW e \in Mail, VerifyRequested(c, l, d, r, e) PROVE OneAnswer(x)'
  <2>1. reply' = reply /\ \A m \in Mail : task'[m].conn = IF m = e THEN c ELSE task[m].conn
    BY <1>1 DEF VerifyRequested, TypeOK
  <2>2. CASE x = c
    BY <1>0, <2>1, <2>2 DEF OneAnswer, Waiting
  <2>3. CASE x # c
    BY <2>1, <2>3, AnswerStays
  <2> QED
    BY <2>2, <2>3
<1>2. CASE task' = task
  <2>1. CASE x = c
    BY <1>0, <1>2, <2>1 DEF OneAnswer, Waiting
  <2>2. CASE x # c
    BY <1>2, <2>2, VerifyWaits, AnswerStays
  <2> QED
    BY <2>1, <2>2
<1> QED
  BY <1>1, <1>2
  DEF Verify, VerifyRefused, VerifyPending, VerifyInitial, VerifyTrusted, VerifyPromoted,
      VerifyReplaced, mailing

LEMMA StepAnswered ==
    ASSUME ClientInv, Answered, [ClientNext]_allVars
    PROVE  Answered'
<1> SUFFICES ASSUME NEW x \in Conn PROVE OneAnswer(x)'
  BY DEF Answered
<1>0. TypeOK /\ ClientTypeOK /\ Working /\ OneAnswer(x) /\ x # None
  BY ConstantsAssumption DEF ClientInv, ClientTypeOK, Answered
<1>1. CASE ServerStep
  BY <1>0, <1>1, ServerAnswersOnce
<1>2. ASSUME NEW p \in Conn, HandleCall(p) PROVE OneAnswer(x)'
  <2>1. net[p].license \in License /\ DeviceOf[p] \in Device /\ net[p].device = DeviceOf[p]
    BY <1>2, HandledCall
  <2>2. ~Waiting(p) /\ reply[p] = None
    BY <1>0, <1>2 DEF HandleCall, Working
  <2> QED
    BY <1>0, <1>2, <2>1, <2>2, CallAnsweredOnce DEF HandleCall
<1>3. ASSUME NEW c \in strays, HandleStray(c) PROVE OneAnswer(x)'
  BY <1>0, <1>3, CallAnsweredOnce DEF HandleStray, ClientTypeOK, Call
<1>4. ASSUME NEW l \in License, NEW d \in Device, Elsewhere(l, d) PROVE OneAnswer(x)'
  BY <1>0, <1>4, CallAnsweredOnce DEF Elsewhere
<1>5. ASSUME NEW p \in Conn,
             Refresh(p) \/ TimeOut(p) \/ SaveFailed(p) \/ Exit(p) \/ \E l \in License : EnterKey(p, l)
      PROVE  OneAnswer(x)'
  <2>1. CASE x # p
    BY <1>0, <1>5, <2>1, RefreshReplies, AnswerStays
  <2>2. CASE x = p
    <3>1. CASE Disconnect(p)
      <4>1. ~Waiting(p)'
        BY <1>0, <3>1, DisconnectWaits
      <4>2. \A m \in Mail : task'[m].conn # p
        BY <1>0, <2>2, <4>1 DEF Waiting
      <4> QED
        BY <2>2, <4>2 DEF OneAnswer, Waiting
    <3>2. CASE reply' = reply /\ task' = task
      BY <1>0, <3>2, AnswerStays
    <3>3. CASE \E l \in License : EnterKey(p, l)
      BY <3>2, <3>3 DEF EnterKey, vars
    <3>4. CASE Refresh(p)
      BY <3>1, <3>2, <3>4
      DEF Refresh, StartRefresh, Receive, ReceiveRefused, Notify, ReadNotifications, Save, Keep, vars
    <3> QED
      BY <1>5, <3>1, <3>2, <3>3, <3>4 DEF TimeOut, SaveFailed, Exit, vars
  <2> QED
    BY <2>1, <2>2
<1>6. CASE UNCHANGED allVars
  BY <1>0, <1>6, AnswerStays DEF allVars, vars
<1> QED
  BY <1>1, <1>2, <1>3, <1>4, <1>5, <1>6 DEF ClientNext

LEMMA StepInTouch ==
    ASSUME OneProcess, OneKey, IInv, KeyRead, Answered, InTouch, [ClientNext]_allVars
    PROVE  InTouch'
<1> SUFFICES ASSUME Whole' PROVE InTouch'
  BY DEF InTouch
<1>0. /\ ClientInv /\ ClientTypeOK /\ TypeOK /\ WaitingAnswers /\ Working
      /\ losses \in Nat /\ changes = 0 /\ losses' = 0
  BY ServerPart, StepEntitled DEF IInv, ClientInv, ClientTypeOK, Whole
<1>1. Whole
  <2>1. \/ losses' = losses \/ losses' = losses + 1
    BY DEF ClientNext, ServerStep, HandleCall, HandleStray, Elsewhere, EnterKey, Refresh, StartRefresh, Receive,
        ReceiveRefused, Notify, Save, Keep, TimeOut, SaveFailed, Exit, allVars, clientVars
  <2> QED
    BY <1>0, <2>1 DEF Whole
<1>2. /\ flagged = {} /\ strays = {} /\ \A x \in Conn : Tracked(x)
      /\ \A x \in License \X Device : inst[x].state \notin Soft /\ (inst[x].secret # None => inst[x].state = "active")
  BY <1>1 DEF InTouch
<1>3. ASSUME inst' = inst, flagged' = flagged, strays' = strays, \A x \in Conn : Tracked(x)' PROVE InTouch'
  BY <1>2, <1>3 DEF InTouch
<1>4. CASE ServerStep
  <2>1. inst' = inst /\ flagged' = flagged /\ strays' = strays
    BY <1>0, <1>4, ServerWrites DEF ServerStep, clientVars, Whole
  <2>2. ASSUME NEW x \in Conn PROVE Tracked(x)'
    <3>1. Alone(x)
      BY <1>4, <2>1 DEF ServerStep, clientVars, Alone
    <3>2. reply'[x] = reply[x] \/ Waiting(x)
      BY <1>0, <1>4, ServerStepWaits
    <3>3. Waiting(x) => reply[x] = None /\ (pc[x] = "calling" => Outstanding(x) = None)
      BY DEF Answered, OneAnswer, Outstanding
    <3> QED
      BY <1>0, <1>2, <1>4, <3>1, <3>2, <3>3, ServerAnswers, TrackedAlone
  <2> QED
    BY <1>3, <2>1, <2>2
<1>5. ASSUME NEW p \in Conn, HandleCall(p) PROVE InTouch'
  <2>1. Tracked(p)' /\ flagged' = flagged
    BY <1>1, <1>5, HandledTracked
  <2>2. /\ net[p].license \in License /\ net[p].device = DeviceOf[p] /\ DeviceOf[p] \in Device
        /\ net[p].provided \in Secret \cup {None} /\ Fresh(net[p].license, net[p].device) \in Secret
    BY <1>0, <1>5, HandledCall, FreshSecret
  <2>3. /\ \A x \in License \X Device : inst'[x].state \notin Soft /\ (inst'[x].secret # None => inst'[x].state = "active")
        /\ \A k \in License, g \in Device : g # DeviceOf[p] => inst'[<<k, g>>] = inst[<<k, g>>]
    BY <1>0, <1>2, <1>5, <2>2, VerifyStores DEF HandleCall
  <2>4. ASSUME NEW x \in Conn, x # p PROVE Tracked(x)'
    <3>1. DeviceOf[x] \in Device /\ DeviceOf[x] # DeviceOf[p]
      BY <2>4, ClientAssumption DEF OneProcess
    <3>2. Alone(x)
      BY <1>5, <2>3, <3>1 DEF HandleCall, Alone
    <3>3. reply'[x] = reply[x]
      BY <1>0, <1>5, <2>2, <2>4, VerifyWaits DEF HandleCall
    <3> QED
      BY <1>2, <3>2, <3>3, TrackedAlone
  <2>5. strays' = {}
    BY <1>2, <1>5 DEF HandleCall
  <2> QED
    BY <1>2, <2>1, <2>3, <2>4, <2>5 DEF InTouch
<1>6. ASSUME NEW c \in strays PROVE FALSE
  BY <1>2, <1>6
<1>7. ASSUME NEW l \in License, NEW d \in Device, Elsewhere(l, d) PROVE InTouch'
  <2>1. /\ Verify(None, l, d, None, Fresh(l, d)) /\ Fresh(l, d) \in Secret /\ UNCHANGED clientVars
        /\ \A x \in Conn : DeviceOf[x] # d
    BY <1>7, FreshSecret DEF Elsewhere
  <2>2. /\ \A x \in License \X Device : inst'[x].state \notin Soft /\ (inst'[x].secret # None => inst'[x].state = "active")
        /\ \A k \in License, g \in Device : g # d => inst'[<<k, g>>] = inst[<<k, g>>]
        /\ flagged' = flagged
    BY <1>0, <1>2, <2>1, VerifyStores
  <2>3. ASSUME NEW x \in Conn PROVE Tracked(x)'
    <3>1. Alone(x)
      BY <2>1, <2>2, ClientAssumption DEF clientVars, Alone
    <3>2. reply'[x] = reply[x]
      BY <1>0, <2>1, VerifyWaits, ConstantsAssumption
    <3> QED
      BY <1>2, <3>1, <3>2, TrackedAlone
  <2> QED
    BY <1>2, <2>1, <2>2, <2>3 DEF InTouch, clientVars
<1>8. ASSUME NEW p \in Conn, NEW l \in License, EnterKey(p, l) PROVE InTouch'
  <2>1. /\ UNCHANGED <<inst, flagged, strays, reply, pc, used, got, keyring>> /\ pc[p] = "idle" /\ l \in Issued
        /\ file[DeviceOf[p]].key # l /\ file'[DeviceOf[p]].key = l
    BY <1>0, <1>8, ClientAssumption DEF EnterKey, vars, ClientTypeOK
  <2>2. KeyOf(p) = file[DeviceOf[p]].key /\ KeyOf(p)' = l
    BY <2>1 DEF KeyOf, Outstanding
  <2>3. \A k \in License : inst[<<k, DeviceOf[p]>>].secret # None => k \notin Issued
    BY <1>2, <2>1, <2>2 DEF Tracked, OneKey
  <2>4. Tracked(p)'
    BY <2>1, <2>2, <2>3 DEF Tracked
  <2>5. ASSUME NEW x \in Conn, x # p PROVE Tracked(x)'
    BY <1>0, <1>2, <1>8, <2>1, <2>5, OthersStay, TrackedAlone DEF Alone
  <2> QED
    BY <1>3, <2>1, <2>4, <2>5
<1>9. ASSUME NEW p \in Conn, Refresh(p) \/ TimeOut(p) \/ SaveFailed(p) \/ Exit(p) PROVE InTouch'
  <2>1. Tracked(p)' /\ UNCHANGED <<inst, flagged, strays>>
    BY <1>1, <1>9, RefreshTracked
  <2>2. ASSUME NEW x \in Conn, x # p PROVE Tracked(x)'
    <3>1. reply'[x] = reply[x]
      BY <1>0, <1>9, <2>2, RefreshReplies
    <3>2. Alone(x)
      BY <1>0, <1>9, <2>1, <2>2, OthersStay DEF Alone
    <3> QED
      BY <1>2, <3>1, <3>2, TrackedAlone
  <2> QED
    BY <1>3, <2>1, <2>2
<1>10. CASE UNCHANGED allVars
  <2>1. UNCHANGED <<inst, flagged, strays, reply>> /\ \A x \in Conn : Alone(x)
    BY <1>10 DEF allVars, vars, clientVars, Alone
  <2> QED
    BY <1>2, <1>3, <2>1, TrackedAlone
<1> QED
  BY <1>4, <1>5, <1>6, <1>7, <1>8, <1>9, <1>10 DEF ClientNext

\* With one process on a device, one license entered and nothing lost, no
\* installation is flagged, whatever is retried at the backup endpoint, and
\* however replacement and confirmation cross (rotate_session_secret on the
\* server, store_session_secret at the end of the refresh).
THEOREM NoFlagWithoutLoss ==
    ASSUME OneProcess, OneKey
    PROVE  ClientSpec => []FlaggedOnlyAfterLoss
<1>1. ClientInit => KeyRead /\ Answered /\ InTouch
  <2> SUFFICES ASSUME ClientInit PROVE KeyRead /\ Answered /\ InTouch
    OBVIOUS
  <2>1. KeyRead
    BY DEF ClientInit, KeyRead
  <2>2. /\ flagged = {} /\ strays = {} /\ \A x \in License \X Device : inst[x] = NoInst
        /\ \A p \in Conn : pc[p] = "idle"
    BY DEF ClientInit, Init
  <2>3. NoInst.state \notin Soft /\ NoInst.secret = None
    BY DEF NoInst, Soft
  <2>4. \A k \in License, p \in Conn : <<k, DeviceOf[p]>> \in License \X Device
    BY ClientAssumption
  <2>5. Answered
    BY ConstantsAssumption DEF ClientInit, Init, Answered, OneAnswer, Waiting, Idle
  <2> QED
    BY <2>1, <2>2, <2>3, <2>4, <2>5 DEF InTouch, Tracked
<1>2. IInv /\ KeyRead /\ Answered /\ InTouch /\ [ClientNext]_allVars => KeyRead' /\ Answered' /\ InTouch'
  BY StepKeyRead, StepAnswered, StepInTouch DEF IInv
<1>3. InTouch => FlaggedOnlyAfterLoss
  BY DEF InTouch, Whole, FlaggedOnlyAfterLoss
<1> QED
  BY <1>1, <1>2, <1>3, ClientAlways, PTL DEF ClientSpec
=============================================================================
