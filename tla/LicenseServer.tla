--------------------------- MODULE LicenseServer ---------------------------
(***************************************************************************)
(* The licensing server (apps/srs_license_server): one SQLite database     *)
(* behind one mutex, so a handler's transaction is one step here.  A       *)
(* handler that mails the owner releases the mutex first (drop(conn)) and  *)
(* goes on in further critical sections: those are steps of their own, and *)
(* the variable task holds the point each such handler has reached.        *)
(*                                                                         *)
(* issue_license and issue_replacement_license insert exactly one key with *)
(* each license and nothing else inserts keys, so a key is named by its    *)
(* license.  Archived and deleted rows differ only in name: every query    *)
(* asks for record_state = 'active'.                                       *)
(***************************************************************************)
EXTENDS Integers, FiniteSets

CONSTANTS
    License,       \* license ids (each with its key)
    Device,        \* device_install_id values
    Request,       \* verification request ids (each with its token)
    Mail,          \* rows of email_outbox
    Conn,          \* HTTP connections on which verify calls are answered
    Secret,        \* session secrets (Uuid::new_v4)
    RecordState,   \* the record states the admin uses
    Grants,        \* the feature sets that are assigned to licenses
    None,          \* SQL NULL, Option::None
    Refused,       \* an HTTP error status or a broken connection, no response
    Window,        \* confirmation_window_hours
    Ttl,           \* token_ttl_hours
    MaxTime,       \* bound on the clock
    MaxChanges     \* bound on the admin's interventions (approvals apart)

ASSUME ConstantsAssumption ==
    /\ None \notin License \cup Device \cup Request \cup Mail \cup Conn \cup Secret
    /\ "active" \in RecordState
    /\ RecordState \subseteq {"active", "archived", "deleted"}
    /\ Grants \subseteq SUBSET {"basic", "editor_workspace"}
    /\ Window \in Nat /\ Ttl \in Nat /\ MaxTime \in Nat /\ MaxChanges \in Nat

VARIABLES
    now,        \* now_epoch_s, in hours
    lic,        \* table licenses: record_state ("absent": no row)
    features,   \* table license_features
    key,        \* table license_keys
    inst,       \* table installations, UNIQUE (license_id, device_install_id)
    req,        \* table verification_requests
    mail,       \* table email_outbox
    task,       \* handlers that are mailing: the sections they still have to run
    mailbox,    \* mails that reached the owner or, where no SMTP server is set, the log
    reply,      \* the last answer to a verify call on each connection
    flagged,    \* installations with a session_secret_mismatch audit event
    shown,      \* how often a client was given each notification
    restored,   \* licenses with a row the admin brought back from soft deletion
    changes     \* how many times the admin has intervened

tables == <<lic, features, key, inst, req>>
mailing == <<mail, task, mailbox>>
history == <<shown, restored, changes>>
vars == <<now, lic, features, key, inst, req, mail, task, mailbox,
          reply, flagged, shown, restored, changes>>

-----------------------------------------------------------------------------
Feature == {"basic", "editor_workspace"}
RowState == RecordState \cup {"absent"}
Soft == {"archived", "deleted"}

KeyRow == [active : BOOLEAN, state : RowState, rotatedFrom : License \cup {None}]
InstRow == [state : RowState, secret : Secret \cup {None}]
ReqRow == [state : RowState, license : License \cup {None},
           device : Device \cup {None}, created : Nat, expires : Nat,
           approved : BOOLEAN, replacement : License \cup {None}]
MailRow == [state : {"absent", "active", "deleted"}, license : License \cup {None},
            request : Request \cup {None},
            notif : {"queued", "sent", "delivered", "read"},
            stamps : SUBSET {"sent", "delivered", "read"}]

Claims == [status : {"Active", "PendingConfirmation", "ReplacementIssued"},
           license : License, features : SUBSET Feature, expires : Nat,
           secret : Secret \cup {None}, replacement : License \cup {None}]
Reply == Claims \cup {None, Refused}

\* no answer is taken for the lack of one
ASSUME AnswersAssumption == None \notin Claims /\ Refused \notin Claims

TaskRow == [step : {"idle", "committed", "marked", "accepted"},
            conn : Conn \cup {None}, reply : Claims \cup {None}]

NoKey == [active |-> FALSE, state |-> "absent", rotatedFrom |-> None]
NoInst == [state |-> "absent", secret |-> None]
NoReq == [state |-> "absent", license |-> None, device |-> None, created |-> 0,
          expires |-> 0, approved |-> FALSE, replacement |-> None]
NoMail == [state |-> "absent", license |-> None, request |-> None,
           notif |-> "queued", stamps |-> {}]
Idle == [step |-> "idle", conn |-> None, reply |-> None]

TypeOK ==
    /\ now \in Nat
    /\ lic \in [License -> RowState]
    /\ features \in [License -> SUBSET Feature]
    /\ key \in [License -> KeyRow]
    /\ inst \in [License \X Device -> InstRow]
    /\ req \in [Request -> ReqRow]
    /\ mail \in [Mail -> MailRow]
    /\ task \in [Mail -> TaskRow]
    /\ mailbox \subseteq Mail
    /\ reply \in [Conn -> Reply]
    /\ flagged \subseteq License \X Device
    /\ shown \in [Mail -> Nat]
    /\ restored \subseteq License
    /\ changes \in Nat

Init ==
    /\ now = 0
    /\ lic = [l \in License |-> "absent"]
    /\ features = [l \in License |-> {}]
    /\ key = [l \in License |-> NoKey]
    /\ inst = [p \in License \X Device |-> NoInst]
    /\ req = [r \in Request |-> NoReq]
    /\ mail = [e \in Mail |-> NoMail]
    /\ task = [e \in Mail |-> Idle]
    /\ mailbox = {}
    /\ reply = [c \in Conn |-> None]
    /\ flagged = {}
    /\ shown = [e \in Mail |-> 0]
    /\ restored = {}
    /\ changes = 0

-----------------------------------------------------------------------------
(* The queries.                                                            *)

\* find_active_key
KeyUsable(l) == lic[l] = "active" /\ key[l].state = "active" /\ key[l].active

\* load_features: an empty feature table means the basic edition
Granted(l) == IF features[l] = {} THEN {"basic"} ELSE features[l]

\* count_trusted_installations and find_installation; every insert writes
\* trusted = 1, so an active row is a trusted one
Trusted(l) == {d \in Device : inst[<<l, d>>].state = "active"}

\* find_pending_request: the newest active request; ties are broken arbitrarily
OpenRequests(l, d) ==
    {r \in Request : req[r].license = l /\ req[r].device = d /\ req[r].state = "active"}
PendingRequest(l, d) ==
    {r \in OpenRequests(l, d) :
        \A q \in OpenRequests(l, d) : req[q].created <= req[r].created}

\* mutant: the token expires before it is issued
SignedExpired(status, l, granted, secret, replacement) ==
    [status |-> status, license |-> l, features |-> granted,
     expires |-> now - Ttl, secret |-> secret, replacement |-> replacement]

\* signed_response
Signed(status, l, granted, secret, replacement) ==
    [status |-> status, license |-> l, features |-> granted,
     expires |-> now + Ttl, secret |-> secret, replacement |-> replacement]

\* the handler's answer; nobody listens any more on connection None
Answer(c, r) == reply' = [x \in Conn |-> IF x = c THEN r ELSE reply[x]]

\* mutant: the upsert alone, which never writes session_secret_hash
TrustUnrotated(l, d, s) ==
    inst' = [inst EXCEPT ![<<l, d>>] = [@ EXCEPT !.state = "active"]]

\* upsert_trusted_installation then rotate_session_secret.  The lookup sees
\* active rows only, so over a soft-deleted row the upsert keeps the row's own
\* installation_id while the caller rotates the secret of an id without a row.
Trust(l, d, s) ==
    inst' = [inst EXCEPT ![<<l, d>>] =
        [state |-> "active", secret |-> IF @.state \in Soft THEN @.secret ELSE s]]

-----------------------------------------------------------------------------
(* issue_license, and verify_key branch by branch.  In each branch l is    *)
(* the license of the presented key, d the device, s the new secret.       *)

IssueLicense(l, granted) ==
    /\ lic[l] = "absent"
    /\ lic' = [lic EXCEPT ![l] = "active"]
    /\ key' = [key EXCEPT ![l] = [active |-> TRUE, state |-> "active", rotatedFrom |-> None]]
    /\ features' = [features EXCEPT ![l] = granted]
    /\ UNCHANGED <<now, inst, req, mailing, reply, flagged, history>>

VerifyRefused(c, l) ==
    /\ ~KeyUsable(l)
    /\ Answer(c, Refused)
    /\ UNCHANGED <<now, tables, mailing, flagged, history>>

VerifyInitial(c, l, d, s) ==
    /\ KeyUsable(l)
    /\ Trusted(l) = {}
    /\ Trust(l, d, s)
    /\ Answer(c, Signed("Active", l, Granted(l), s, None))
    /\ UNCHANGED <<now, lic, features, key, req, mailing, flagged, history>>

\* provided is the secret the client sent along (None: it has none)
VerifyTrusted(c, l, d, s, provided) ==
    /\ KeyUsable(l)
    /\ d \in Trusted(l)
    /\ flagged' = IF None \notin {inst[<<l, d>>].secret, provided} /\ provided # inst[<<l, d>>].secret
                  THEN flagged \cup {<<l, d>>} ELSE flagged
    /\ inst' = [inst EXCEPT ![<<l, d>>].secret = s]
    /\ Answer(c, Signed("Active", l, Granted(l), s, None))
    /\ UNCHANGED <<now, lic, features, key, req, mailing, history>>

NotTrusted(l, d) == KeyUsable(l) /\ Trusted(l) # {} /\ d \notin Trusted(l)

\* mutant: any open request promotes the device
VerifyPromotedUnapproved(c, l, d, s) ==
    /\ NotTrusted(l, d)
    /\ PendingRequest(l, d) # {}
    /\ Trust(l, d, s)
    /\ Answer(c, Signed("Active", l, Granted(l), s, None))
    /\ UNCHANGED <<now, lic, features, key, req, mailing, flagged, history>>

\* mutant: an approval lapses with the confirmation window
VerifyPromotedInWindow(c, l, d, s) ==
    /\ NotTrusted(l, d)
    /\ \E r \in PendingRequest(l, d) : req[r].approved /\ now < req[r].expires
    /\ Trust(l, d, s)
    /\ Answer(c, Signed("Active", l, Granted(l), s, None))
    /\ UNCHANGED <<now, lic, features, key, req, mailing, flagged, history>>

VerifyPromoted(c, l, d, s) ==
    /\ NotTrusted(l, d)
    /\ \E r \in PendingRequest(l, d) : req[r].approved
    /\ Trust(l, d, s)
    /\ Answer(c, Signed("Active", l, Granted(l), s, None))
    /\ UNCHANGED <<now, lic, features, key, req, mailing, flagged, history>>

\* mutant: the window's last hour belongs to nobody
VerifyReplacedLate(c, l, d, s, n) ==
    /\ NotTrusted(l, d)
    /\ lic[n] = "absent"
    /\ \E r \in PendingRequest(l, d) :
        /\ ~req[r].approved /\ now > req[r].expires
        /\ req' = [req EXCEPT ![r].replacement = n]
    /\ lic' = [lic EXCEPT ![n] = "active"]
    /\ key' = [key EXCEPT ![n] = [active |-> TRUE, state |-> "active", rotatedFrom |-> l]]
    /\ features' = [features EXCEPT ![n] = {"basic"}]
    /\ inst' = [inst EXCEPT ![<<n, d>>] = [state |-> "active", secret |-> s]]
    /\ Answer(c, Signed("ReplacementIssued", n, {"basic"}, s, n))
    /\ UNCHANGED <<now, mailing, flagged, history>>

\* mutant: the replacement license does not trust the device it was made for
VerifyReplacedUntrusted(c, l, d, s, n) ==
    /\ NotTrusted(l, d)
    /\ lic[n] = "absent"
    /\ \E r \in PendingRequest(l, d) :
        /\ ~req[r].approved /\ now >= req[r].expires
        /\ req' = [req EXCEPT ![r].replacement = n]
    /\ lic' = [lic EXCEPT ![n] = "active"]
    /\ key' = [key EXCEPT ![n] = [active |-> TRUE, state |-> "active", rotatedFrom |-> l]]
    /\ features' = [features EXCEPT ![n] = {"basic"}]
    /\ Answer(c, Signed("ReplacementIssued", n, {"basic"}, s, n))
    /\ UNCHANGED <<now, inst, mailing, flagged, history>>

\* the confirmation window is over: issue_replacement_license makes license n
VerifyReplaced(c, l, d, s, n) ==
    /\ NotTrusted(l, d)
    /\ lic[n] = "absent"
    /\ \E r \in PendingRequest(l, d) :
        /\ ~req[r].approved /\ now >= req[r].expires
        /\ req' = [req EXCEPT ![r].replacement = n]
    /\ lic' = [lic EXCEPT ![n] = "active"]
    /\ key' = [key EXCEPT ![n] = [active |-> TRUE, state |-> "active", rotatedFrom |-> l]]
    /\ features' = [features EXCEPT ![n] = {"basic"}]
    /\ inst' = [inst EXCEPT ![<<n, d>>] = [state |-> "active", secret |-> s]]
    /\ Answer(c, Signed("ReplacementIssued", n, {"basic"}, s, n))
    /\ UNCHANGED <<now, mailing, flagged, history>>

\* mutant: the pending answer carries what the key would grant
VerifyPendingActive(c, l, d) ==
    /\ NotTrusted(l, d)
    /\ \E r \in PendingRequest(l, d) : ~req[r].approved /\ now < req[r].expires
    /\ Answer(c, Signed("Active", l, Granted(l), None, None))
    /\ UNCHANGED <<now, tables, mailing, flagged, history>>

VerifyPending(c, l, d) ==
    /\ NotTrusted(l, d)
    /\ \E r \in PendingRequest(l, d) : ~req[r].approved /\ now < req[r].expires
    /\ Answer(c, Signed("PendingConfirmation", l, {"basic"}, None, None))
    /\ UNCHANGED <<now, tables, mailing, flagged, history>>

\* mutant: a request that ran out no longer counts as open
VerifyRequestedAgain(c, l, d, r, e) ==
    /\ NotTrusted(l, d)
    /\ \A q \in OpenRequests(l, d) : now >= req[q].expires
    /\ req[r].state = "absent" /\ mail[e].state = "absent"
    /\ req' = [req EXCEPT ![r] =
            [state |-> "active", license |-> l, device |-> d, created |-> now,
             expires |-> now + Window, approved |-> FALSE, replacement |-> None]]
    /\ mail' = [mail EXCEPT ![e] =
            [state |-> "active", license |-> l, request |-> r, notif |-> "queued", stamps |-> {}]]
    /\ task' = [task EXCEPT ![e] =
            [step |-> "committed", conn |-> c,
             reply |-> Signed("PendingConfirmation", l, {"basic"}, None, None)]]
    /\ UNCHANGED <<now, lic, features, key, inst, mailbox, reply, flagged, history>>

\* a first request from this device: the transaction, up to drop(conn).  The
\* answer waits for the mail to be handed over.
VerifyRequested(c, l, d, r, e) ==
    /\ NotTrusted(l, d)
    /\ OpenRequests(l, d) = {}
    /\ req[r].state = "absent" /\ mail[e].state = "absent"
    /\ req' = [req EXCEPT ![r] =
            [state |-> "active", license |-> l, device |-> d, created |-> now,
             expires |-> now + Window, approved |-> FALSE, replacement |-> None]]
    /\ mail' = [mail EXCEPT ![e] =
            [state |-> "active", license |-> l, request |-> r, notif |-> "queued", stamps |-> {}]]
    /\ task' = [task EXCEPT ![e] =
            [step |-> "committed", conn |-> c,
             reply |-> Signed("PendingConfirmation", l, {"basic"}, None, None)]]
    /\ UNCHANGED <<now, lic, features, key, inst, mailbox, reply, flagged, history>>

-----------------------------------------------------------------------------
(* The mailing handlers after drop(conn).                                  *)

MarkSent(e) ==
    /\ task[e].step = "committed"
    /\ mail' = [mail EXCEPT ![e].notif = "sent", ![e].stamps = @ \cup {"sent"}]
    /\ task' = [task EXCEPT ![e].step = "marked"]
    /\ UNCHANGED <<now, tables, mailbox, reply, flagged, history>>

Finish(e) == task' = [task EXCEPT ![e] = Idle] /\ Answer(task[e].conn, task[e].reply)

\* deliver_email returned true (SMTP accepted the mail, or the log took it)
Delivered(e) ==
    /\ task[e].step = "marked"
    /\ mailbox' = mailbox \cup {e}
    /\ task' = [task EXCEPT ![e].step = "accepted"]
    /\ UNCHANGED <<now, tables, mail, reply, flagged, history>>

\* deliver_email returned false: the mail may still have got through
DeliveryFailed(e) ==
    /\ task[e].step = "marked"
    /\ mailbox' \in {mailbox, mailbox \cup {e}}
    /\ Finish(e)
    /\ UNCHANGED <<now, tables, mail, flagged, history>>

\* mutant: the late update brings the row back
MarkDeliveredAfresh(e) ==
    /\ task[e].step = "accepted"
    /\ mail' = [mail EXCEPT ![e].notif = "delivered", ![e].state = "active",
                            ![e].stamps = @ \cup {"sent", "delivered"}]
    /\ Finish(e)
    /\ UNCHANGED <<now, tables, mailbox, flagged, history>>

\* mutant: the row is updated before the mail is handed over
MarkDeliveredEarly(e) ==
    /\ task[e].step \in {"marked", "accepted"}
    /\ mail' = [mail EXCEPT ![e].notif = "delivered",
                            ![e].stamps = @ \cup {"sent", "delivered"}]
    /\ Finish(e)
    /\ UNCHANGED <<now, tables, mailbox, flagged, history>>

MarkDelivered(e) ==
    /\ task[e].step = "accepted"
    /\ mail' = [mail EXCEPT ![e].notif = "delivered",
                            ![e].stamps = @ \cup {"sent", "delivered"}]
    /\ Finish(e)
    /\ UNCHANGED <<now, tables, mailbox, flagged, history>>

\* a connection carries one call at a time; None stands for the connections
\* whose client has gone and whose request still reaches the server
Waiting(c) == c # None /\ \E e \in Mail : task[e].conn = c

\* the process stops and starts again: the database stays, the handlers do not,
\* and the connections they held break
Restart ==
    /\ task' = [e \in Mail |-> Idle]
    /\ reply' = [c \in Conn |-> IF Waiting(c) THEN Refused ELSE reply[c]]
    /\ UNCHANGED <<now, tables, mail, mailbox, flagged, history>>

\* the client gave up waiting on connection c: a late answer goes nowhere
Disconnect(c) ==
    /\ task' = [e \in Mail |-> IF task[e].conn = c THEN [task[e] EXCEPT !.conn = None]
                                                  ELSE task[e]]
    /\ reply' = [reply EXCEPT ![c] = None]
    /\ UNCHANGED <<now, tables, mail, mailbox, flagged, history>>

-----------------------------------------------------------------------------
(* The owner, the client's notification read and the admin.                *)

\* confirm_request: the owner follows the link in the mail
Confirm(e) ==
    LET r == mail[e].request IN
    /\ e \in mailbox
    /\ r # None
    /\ ~req[r].approved
    /\ req' = [req EXCEPT ![r].approved = TRUE]
    /\ mail' = [m \in Mail |->
            IF mail[m].request = r /\ mail[m].state # "deleted"
            THEN [mail[m] EXCEPT !.notif = "read", !.stamps = @ \cup {"read"}, !.state = "deleted"]
            ELSE mail[m]]
    /\ UNCHANGED <<now, lic, features, key, inst, task, mailbox, reply, flagged, history>>

\* mutant: soft deleted rows are selected too
UnreadOrDeleted(l) == {e \in Mail : /\ mail[e].license = l
                                    /\ mail[e].request = None
                                    /\ mail[e].notif \in {"sent", "delivered"}}

\* the notifications read_client_notifications selects
Unread(l) == {e \in Mail : /\ mail[e].license = l
                           /\ mail[e].request = None
                           /\ mail[e].state = "active"
                           /\ mail[e].notif \in {"sent", "delivered"}}

\* read_client_notifications: the client presents its key for license l
ReadNotifications(l) ==
    /\ KeyUsable(l)
    /\ Unread(l) # {}
    /\ mail' = [e \in Mail |->
            IF e \in Unread(l)
            THEN [mail[e] EXCEPT !.notif = "read", !.stamps = @ \cup {"read"}, !.state = "deleted"]
            ELSE mail[e]]
    /\ shown' = [e \in Mail |-> IF e \in Unread(l) THEN shown[e] + 1 ELSE shown[e]]
    /\ UNCHANGED <<now, tables, task, mailbox, reply, flagged, restored, changes>>

\* an UPDATE of record_state touches the rows that exist
Restate(row, state) == IF row.state = "absent" THEN row ELSE [row EXCEPT !.state = state]

NoteRestore(l, state) == restored' = IF state = "active" THEN restored \cup {l} ELSE restored
NoteChange == changes < MaxChanges /\ changes' = changes + 1

CreateNotification(l, e) ==
    /\ lic[l] # "absent"
    /\ mail[e].state = "absent"
    /\ mail' = [mail EXCEPT ![e] =
            [state |-> "active", license |-> l, request |-> None, notif |-> "queued", stamps |-> {}]]
    /\ task' = [task EXCEPT ![e] = [step |-> "committed", conn |-> None, reply |-> None]]
    /\ NoteChange
    /\ UNCHANGED <<now, tables, mailbox, reply, flagged, shown, restored>>

ApproveRequest(r) ==
    /\ req[r].state # "absent" /\ ~req[r].approved
    /\ req' = [req EXCEPT ![r].approved = TRUE]
    /\ UNCHANGED <<now, lic, features, key, inst, mailing, reply, flagged, history>>

UpdateFeatures(l, granted) ==
    /\ lic[l] # "absent"
    /\ features' = [features EXCEPT ![l] = granted]
    /\ NoteChange
    /\ UNCHANGED <<now, lic, key, inst, req, mailing, reply, flagged, shown, restored>>

SetKeyActive(l, active) ==
    /\ key[l].state # "absent"
    /\ key' = [key EXCEPT ![l].active = active]
    /\ NoteChange
    /\ UNCHANGED <<now, lic, features, inst, req, mailing, reply, flagged, shown, restored>>

SetLicenseState(l, state) ==
    /\ lic[l] # "absent"
    /\ lic' = [lic EXCEPT ![l] = state]
    /\ key' = [key EXCEPT ![l] = Restate(@, state)]
    /\ inst' = [p \in License \X Device |-> IF p[1] = l THEN Restate(inst[p], state) ELSE inst[p]]
    /\ req' = [r \in Request |-> IF req[r].license = l THEN Restate(req[r], state) ELSE req[r]]
    /\ NoteRestore(l, state) /\ NoteChange
    /\ UNCHANGED <<now, features, mailing, reply, flagged, shown>>

SetKeyState(l, state) ==
    /\ key[l].state # "absent"
    /\ key' = [key EXCEPT ![l].state = state]
    /\ NoteChange
    /\ UNCHANGED <<now, lic, features, inst, req, mailing, reply, flagged, shown, restored>>

SetInstallationState(l, d, state) ==
    /\ inst[<<l, d>>].state # "absent"
    /\ inst' = [inst EXCEPT ![<<l, d>>].state = state]
    /\ NoteRestore(l, state) /\ NoteChange
    /\ UNCHANGED <<now, lic, features, key, req, mailing, reply, flagged, shown>>

SetRequestState(r, state) ==
    /\ req[r].state # "absent"
    /\ req' = [req EXCEPT ![r].state = state]
    /\ NoteRestore(req[r].license, state) /\ NoteChange
    /\ UNCHANGED <<now, lic, features, key, inst, mailing, reply, flagged, shown>>

Tick ==
    /\ now < MaxTime
    /\ now' = now + 1
    /\ UNCHANGED <<tables, mailing, reply, flagged, history>>

-----------------------------------------------------------------------------
Verify(c, l, d, provided, s) ==
    \/ VerifyRefused(c, l)
    \/ VerifyPending(c, l, d)
    \/ VerifyInitial(c, l, d, s)
    \/ VerifyTrusted(c, l, d, s, provided)
    \/ VerifyPromoted(c, l, d, s)
    \/ \E n \in License : VerifyReplaced(c, l, d, s, n)
    \/ \E r \in Request, e \in Mail : VerifyRequested(c, l, d, r, e)

\* Uuid::new_v4: a new secret is none of those in use.  A run that gives Secret
\* a single value does not tell secrets apart (only flagged depends on them).
NewSecrets(used) == IF Secret \subseteq used THEN Secret ELSE Secret \ used

Mailer == \E e \in Mail : MarkSent(e) \/ Delivered(e) \/ DeliveryFailed(e) \/ MarkDelivered(e)

Owner == \E e \in Mail : Confirm(e)

Admin ==
    \/ \E l \in License, e \in Mail : CreateNotification(l, e)
    \/ \E r \in Request : ApproveRequest(r)
    \/ \E l \in License, granted \in Grants : UpdateFeatures(l, granted)
    \/ \E l \in License, active \in BOOLEAN : SetKeyActive(l, active)
    \/ \E l \in License, state \in RecordState : SetLicenseState(l, state)
    \/ \E l \in License, state \in RecordState : SetKeyState(l, state)
    \/ \E l \in License, d \in Device, state \in RecordState : SetInstallationState(l, d, state)
    \/ \E r \in Request, state \in RecordState : SetRequestState(r, state)

Next ==
    \/ \E l \in License, granted \in Grants : IssueLicense(l, granted)
    \/ \E c \in Conn \cup {None}, l \in License, d \in Device, provided \in Secret \cup {None} :
            /\ ~Waiting(c)
            /\ \E s \in NewSecrets({inst[<<l, d>>].secret}) : Verify(c, l, d, provided, s)
    \/ \E c \in Conn : Disconnect(c)
    \/ \E l \in License : ReadNotifications(l)
    \/ Mailer \/ Owner \/ Admin \/ Restart \/ Tick

Spec == Init /\ [][Next]_vars
-----------------------------------------------------------------------------
(* What the server promises.                                               *)

Approved(l, d) ==
    \E r \in Request : req[r].license = l /\ req[r].device = d /\ req[r].approved

\* Of two installations trusted on one license at least one was approved for
\* it: by itself verify_key trusts a device only while the license has none
\* (initial_installation_trusted), or on a replacement made for that device.
\* Only an admin who brings soft-deleted rows back can undo this.
SingleUnapproved ==
    \A l \in License \ restored : \A d1, d2 \in Trusted(l) :
        d1 = d2 \/ Approved(l, d1) \/ Approved(l, d2)

\* A device has one open confirmation request per license however often it
\* asks, across windows that run out and mails that fail, unless an admin
\* brings soft-deleted ones back (find_pending_request before the INSERT).
OneOpenRequest ==
    \A l \in License \ restored, d \in Device :
        \A r, q \in OpenRequests(l, d) : r = q

\* A mail is soft deleted exactly when it has been read, and a confirmation
\* mail is read only by confirming its request, whatever the mailing handler
\* still writes into the row afterwards (mark_notification_sent/_delivered).
ReadMailSettled ==
    \A e \in Mail :
        /\ mail[e].state = "deleted" <=> "read" \in mail[e].stamps
        /\ (mail[e].state = "deleted" /\ mail[e].request # None) => req[mail[e].request].approved

\* A client notification is handed out at most once, even when the sender's
\* late mark_notification_delivered puts a read row back to 'delivered'.
ShownOnce == \A e \in Mail : shown[e] <= 1

\* What the outbox calls delivered was taken by the SMTP server for the owner,
\* or by the log where none is configured (deliver_email answers true for both), and
\* was marked sent before, whatever restart or failed delivery came in between.
DeliveredReachedOwner ==
    \A e \in Mail : "delivered" \in mail[e].stamps => e \in mailbox /\ "sent" \in mail[e].stamps

\* The session secret in an Active answer is the one whose hash is stored, so
\* the client's next call matches; the exception is an installation that was
\* soft deleted and comes back, whose new secret is stored nowhere.
AnsweredSecretIsStored ==
    [][\A c \in Conn :
        reply'[c] \notin {reply[c], None, Refused} /\ reply'[c].status = "Active" =>
            \E d \in Device : LET l == reply'[c].license IN
                /\ inst'[<<l, d>>].state = "active"
                /\ inst'[<<l, d>>].secret = reply'[c].secret \/ inst[<<l, d>>].state \in Soft]_vars
=============================================================================
