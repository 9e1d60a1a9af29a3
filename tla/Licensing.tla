----------------------------- MODULE Licensing -----------------------------
(***************************************************************************)
(* The licensing client (crates/libsrs_licensing_client) on the desktop,   *)
(* composed with the server.  srs_player and srs_cli are processes that    *)
(* share one state directory and one keyring entry per device.  A refresh  *)
(* is a chain of steps (read the key, call the server, read notifications, *)
(* write the state file, write the keyring) between which every other      *)
(* process, the server and the network may act.                            *)
(*                                                                         *)
(* A connection of the server is named by the process that opened it: a    *)
(* process has one call in flight.                                         *)
(***************************************************************************)
EXTENDS LicenseServer

CONSTANTS
    Issued,        \* the license ids issue_license draws from (the others are
                   \* left for replacements: a bound on both)
    DeviceOf,      \* the device (install_id) each process runs on
    Endpoints,     \* preferred_endpoints: 1 if primary and backup are the same
    MaxLosses      \* bound on timeouts, failed writes and process exits

ASSUME ClientAssumption ==
    /\ Issued \subseteq License
    /\ DeviceOf \in [Conn -> Device]
    /\ Endpoints \in {1, 2} /\ MaxLosses \in Nat /\ Secret # {}

VARIABLES
    file,       \* license_state.json of each device (None, None: missing or unreadable)
    keyring,    \* the session secret stored for each device
    net,        \* the verify call of each process the server has not handled yet
    strays,     \* calls whose client gave up before the server handled them
    pc,         \* where each process is in refresh_entitlement
    attempt,    \* the endpoint it is calling
    used,       \* the request it built at the start: its key and session secret
    got,        \* the verified claims it received
    snap,       \* its last LicenseSnapshot
    losses

clientVars == <<file, keyring, net, strays, pc, attempt, used, got, snap, losses>>
allVars == <<vars, clientVars>>

-----------------------------------------------------------------------------
Mode == {"PlayOnly", "Editor"}
Snapshot == [mode : Mode, claims : Claims \cup {None},
             via : {"none", "MissingKey", "OfflineFallback", "live"}]
Call == [license : License, device : Device, provided : Secret \cup {None}]
NoFile == [key |-> None, claims |-> None]
NoSnap == [mode |-> "PlayOnly", claims |-> None, via |-> "none"]

ClientTypeOK ==
    /\ TypeOK
    /\ file \in [Device -> [key : License \cup {None}, claims : Claims \cup {None}]]
    /\ keyring \in [Device -> Secret \cup {None}]
    /\ net \in [Conn -> Call \cup {None}]
    /\ strays \subseteq Call
    /\ pc \in [Conn -> {"idle", "calling", "notify", "save", "keep"}]
    /\ attempt \in [Conn -> 1..Endpoints]
    /\ used \in [Conn -> Call \cup {None}]
    /\ got \in [Conn -> Claims \cup {None}]
    /\ snap \in [Conn -> Snapshot]
    /\ losses \in Nat

ClientInit ==
    /\ Init
    /\ file = [d \in Device |-> NoFile]
    /\ keyring = [d \in Device |-> None]
    /\ net = [p \in Conn |-> None]
    /\ strays = {}
    /\ pc = [p \in Conn |-> "idle"]
    /\ attempt = [p \in Conn |-> 1]
    /\ used = [p \in Conn |-> None]
    /\ got = [p \in Conn |-> None]
    /\ snap = [p \in Conn |-> NoSnap]
    /\ losses = 0

-----------------------------------------------------------------------------
(* The server's steps, fed by the network.                                 *)

\* the secret a verify call makes is held nowhere else: not in a row, a keyring,
\* a call or an answer
Calls == strays \cup ({used[p] : p \in Conn} \ {None})
Answers == ({got[p] : p \in Conn} \cup {reply[p] : p \in Conn}) \ {None, Refused}
Held == {inst[x].secret : x \in License \X Device} \cup {keyring[d] : d \in Device}
        \cup {c.provided : c \in Calls} \cup {c.secret : c \in Answers}
Fresh(l, d) ==
    CHOOSE s \in NewSecrets(IF Secret \subseteq Held THEN {inst[<<l, d>>].secret} ELSE Held) : TRUE

HandleCall(p) ==
    /\ net[p] # None
    /\ Verify(p, net[p].license, net[p].device, net[p].provided, Fresh(net[p].license, net[p].device))
    /\ net' = [net EXCEPT ![p] = None]
    /\ UNCHANGED <<file, keyring, strays, pc, attempt, used, got, snap, losses>>

HandleStray(c) ==
    /\ Verify(None, c.license, c.device, c.provided, Fresh(c.license, c.device))
    /\ strays' = strays \ {c}
    /\ UNCHANGED <<file, keyring, net, pc, attempt, used, got, snap, losses>>

\* a device with no modelled process presents the key for the first time
Elsewhere(l, d) ==
    /\ d \notin {DeviceOf[p] : p \in Conn} /\ d \notin Trusted(l)
    /\ Verify(None, l, d, None, Fresh(l, d))
    /\ UNCHANGED clientVars

-----------------------------------------------------------------------------
(* The client.                                                             *)

\* bound on EnterKey: every call that may still be answered with a replacement
\* finds a license id for it
Spare ==
    Cardinality(strays) + Cardinality({p \in Conn : net[p] # None}) + (MaxLosses - losses)
        < Cardinality({n \in License \ Issued : lic[n] = "absent"})

\* mutant: the key is entered while a refresh is under way
EnterKeyAnytime(p, l) ==
    /\ Spare
    /\ l \in Issued /\ lic[l] # "absent"
    /\ file[DeviceOf[p]].key # l
    /\ file' = [file EXCEPT ![DeviceOf[p]].key = l]
    /\ UNCHANGED <<vars, keyring, net, strays, pc, attempt, used, got, snap, losses>>

\* set_license_key
EnterKey(p, l) ==
    /\ pc[p] = "idle" /\ Spare
    /\ l \in Issued /\ lic[l] # "absent"
    /\ file[DeviceOf[p]].key # l
    /\ file' = [file EXCEPT ![DeviceOf[p]].key = l]
    /\ UNCHANGED <<vars, keyring, net, strays, pc, attempt, used, got, snap, losses>>

SendTo(p, request, endpoint) ==
    /\ net' = [net EXCEPT ![p] = request]
    /\ attempt' = [attempt EXCEPT ![p] = endpoint]
    /\ pc' = [pc EXCEPT ![p] = "calling"]

\* refresh_entitlement up to the first call
StartRefresh(p) ==
    /\ pc[p] = "idle"
    /\ LET d == DeviceOf[p]
           request == [license |-> file[d].key, device |-> d, provided |-> keyring[d]]
       IN  \/ /\ file[d].key = None
              /\ snap' = [snap EXCEPT ![p] = [NoSnap EXCEPT !.via = "MissingKey"]]
              /\ UNCHANGED <<used, net, attempt, pc>>
           \/ /\ file[d].key # None
              /\ used' = [used EXCEPT ![p] = request]
              /\ SendTo(p, request, 1)
              /\ UNCHANGED snap
    /\ UNCHANGED <<vars, file, keyring, strays, got, losses>>

\* snapshot_from_offline_fallback: the cached claims, if they have not expired
Cached(p) ==
    LET c == file[DeviceOf[p]].claims
    IN  IF c # None /\ c.expires > now THEN c ELSE None

\* mutant: one endpoint too many
FailedPastLast(p) ==
    \/ /\ attempt[p] <= Endpoints
       /\ SendTo(p, used[p], attempt[p] + 1)
       /\ UNCHANGED <<snap, used>>
    \/ /\ attempt[p] > Endpoints
       /\ snap' = [snap EXCEPT ![p] = [mode |-> "PlayOnly", claims |-> Cached(p),
                                       via |-> "OfflineFallback"]]
       /\ pc' = [pc EXCEPT ![p] = "idle"]
       /\ used' = [used EXCEPT ![p] = None]
       /\ attempt' = [attempt EXCEPT ![p] = 1]
       /\ net' = [net EXCEPT ![p] = None]

\* the call to one endpoint failed: the next endpoint, or the fallback
Failed(p) ==
    \/ /\ attempt[p] < Endpoints
       /\ SendTo(p, used[p], attempt[p] + 1)
       /\ UNCHANGED <<snap, used>>
    \/ /\ attempt[p] = Endpoints
       /\ snap' = [snap EXCEPT ![p] = [mode |-> "PlayOnly", claims |-> Cached(p),
                                       via |-> "OfflineFallback"]]
       /\ pc' = [pc EXCEPT ![p] = "idle"]
       /\ used' = [used EXCEPT ![p] = None]
       /\ attempt' = [attempt EXCEPT ![p] = 1]
       /\ net' = [net EXCEPT ![p] = None]

ReceiveRefused(p) ==
    /\ pc[p] = "calling" /\ reply[p] = Refused
    /\ Disconnect(p)
    /\ Failed(p)
    /\ UNCHANGED <<file, keyring, strays, got, losses>>

\* request_timeout_ms ran out: the call is lost, still on its way, waiting in
\* the mailing handler, or answered too late
TimeOut(p) ==
    /\ pc[p] = "calling" /\ reply[p] # Refused
    /\ losses < MaxLosses /\ losses' = losses + 1
    /\ Disconnect(p)
    /\ strays' \in IF net[p] = None THEN {strays} ELSE {strays, strays \cup {net[p]}}
    /\ Failed(p)
    /\ UNCHANGED <<file, keyring, got>>

Receive(p) ==
    /\ pc[p] = "calling" /\ reply[p] \notin {None, Refused}
    /\ got' = [got EXCEPT ![p] = reply[p]]
    /\ Disconnect(p)
    /\ pc' = [pc EXCEPT ![p] = "notify"]
    /\ UNCHANGED <<file, keyring, net, strays, attempt, used, snap, losses>>

\* read_client_notifications with the key presented and the license of the
\* claims; any failure is only logged
Notify(p) ==
    /\ pc[p] = "notify"
    /\ LET l == used[p].license
       IN  IF l = got[p].license /\ KeyUsable(l) /\ Unread(l) # {}
           THEN ReadNotifications(l)
           ELSE UNCHANGED vars
    /\ pc' = [pc EXCEPT ![p] = "save"]
    /\ UNCHANGED <<file, keyring, net, strays, attempt, used, got, snap, losses>>

\* load_state, assign all four fields, save_state
Save(p) ==
    /\ pc[p] = "save"
    /\ file' = [file EXCEPT ![DeviceOf[p]] =
            [key |-> IF got[p].replacement # None THEN got[p].replacement ELSE used[p].license,
             claims |-> got[p]]]
    /\ pc' = [pc EXCEPT ![p] = "keep"]
    /\ UNCHANGED <<vars, keyring, net, strays, attempt, used, got, snap, losses>>

\* save_state returned an error: a warning, and the refresh goes on
SaveFailed(p) ==
    /\ pc[p] = "save"
    /\ losses < MaxLosses /\ losses' = losses + 1
    /\ pc' = [pc EXCEPT ![p] = "keep"]
    /\ UNCHANGED <<vars, file, keyring, net, strays, attempt, used, got, snap>>

\* mutant: every active license is an editor's
LiveAnyEdition(c) ==
    [mode |-> IF c.status = "Active" THEN "Editor" ELSE "PlayOnly", claims |-> c, via |-> "live"]

\* store_session_secret, then snapshot_from_live_response
Live(c) ==
    [mode |-> IF c.status = "Active" /\ "editor_workspace" \in c.features
              THEN "Editor" ELSE "PlayOnly",
     claims |-> c, via |-> "live"]

\* mutant: only the first secret is kept
KeepFirst(p) ==
    /\ pc[p] = "keep"
    /\ keyring' = IF None \notin {got[p].secret, keyring[DeviceOf[p]]} \/ got[p].secret = None
                  THEN keyring
                  ELSE [keyring EXCEPT ![DeviceOf[p]] = got[p].secret]
    /\ snap' = [snap EXCEPT ![p] = Live(got[p])]
    /\ got' = [got EXCEPT ![p] = None]
    /\ used' = [used EXCEPT ![p] = None]
    /\ attempt' = [attempt EXCEPT ![p] = 1]
    /\ pc' = [pc EXCEPT ![p] = "idle"]
    /\ UNCHANGED <<vars, file, net, strays, losses>>

Keep(p) ==
    /\ pc[p] = "keep"
    /\ keyring' = IF got[p].secret = None THEN keyring
                  ELSE [keyring EXCEPT ![DeviceOf[p]] = got[p].secret]
    /\ snap' = [snap EXCEPT ![p] = Live(got[p])]
    /\ got' = [got EXCEPT ![p] = None]
    /\ used' = [used EXCEPT ![p] = None]
    /\ attempt' = [attempt EXCEPT ![p] = 1]
    /\ pc' = [pc EXCEPT ![p] = "idle"]
    /\ UNCHANGED <<vars, file, net, strays, losses>>

\* the process exits; fs::write truncates before it writes, so an exit while
\* saving may leave a file load_state cannot parse
Exit(p) ==
    /\ pc[p] # "idle" \/ snap[p] # NoSnap
    /\ losses < MaxLosses /\ losses' = losses + 1
    /\ Disconnect(p)
    /\ file' \in IF pc[p] = "save" THEN {file, [file EXCEPT ![DeviceOf[p]] = NoFile]} ELSE {file}
    /\ strays' \in IF net[p] = None THEN {strays} ELSE {strays, strays \cup {net[p]}}
    /\ net' = [net EXCEPT ![p] = None]
    /\ pc' = [pc EXCEPT ![p] = "idle"]
    /\ attempt' = [attempt EXCEPT ![p] = 1]
    /\ used' = [used EXCEPT ![p] = None]
    /\ got' = [got EXCEPT ![p] = None]
    /\ snap' = [snap EXCEPT ![p] = NoSnap]
    /\ UNCHANGED keyring

-----------------------------------------------------------------------------
Refresh(p) ==
    \/ StartRefresh(p) \/ Receive(p) \/ ReceiveRefused(p) \/ Notify(p) \/ Save(p) \/ Keep(p)

ServerStep ==
    /\ \/ \E l \in Issued, granted \in Grants : IssueLicense(l, granted)
       \/ Mailer \/ Owner \/ Admin \/ Restart \/ Tick
    /\ UNCHANGED clientVars

ClientNext ==
    \/ ServerStep
    \/ \E p \in Conn : HandleCall(p)
    \/ \E c \in strays : HandleStray(c)
    \/ \E l \in License, d \in Device : Elsewhere(l, d)
    \/ \E p \in Conn, l \in License : EnterKey(p, l)
    \/ \E p \in Conn : Refresh(p) \/ TimeOut(p) \/ SaveFailed(p) \/ Exit(p)

ClientSpec == ClientInit /\ [][ClientNext]_allVars

(* The player refreshes every 1 to 90 seconds (next_refresh_interval_secs), *)
(* its thread and the server's handlers run on, and time passes.  Timeouts  *)
(* and exits are bounded by MaxLosses, so a call is answered in the end.    *)
Fairness ==
    /\ WF_allVars(Tick /\ UNCHANGED clientVars)
    /\ WF_allVars(Mailer /\ UNCHANGED clientVars)
    /\ \A p \in Conn : WF_allVars(HandleCall(p)) /\ WF_allVars(Refresh(p))

FairClientSpec == ClientSpec /\ Fairness

-----------------------------------------------------------------------------
(* What the two sides promise together.                                    *)

\* Editor mode is backed by the server: while the admin has changed nothing,
\* the device of a process in Editor mode is trusted on the license of its
\* claims and that license has the editor features (snapshot_from_live_response
\* and snapshot_from_offline_fallback, over lost, late and stray calls).
EditorIsEntitled ==
    \A p \in Conn : (changes = 0 /\ snap[p].mode = "Editor") =>
        LET l == snap[p].claims.license
        IN  DeviceOf[p] \in Trusted(l) /\ "editor_workspace" \in Granted(l)

\* A replacement key a device holds works there: the license is in force and
\* trusts the device, whatever was lost, retried or answered late on the way
\* (issue_replacement_license, response.replacement_key in refresh_entitlement).
ReplacementWorks ==
    \A d \in Device : LET l == file[d].key IN
        (changes = 0 /\ l \notin Issued \cup {None}) => KeyUsable(l) /\ d \in Trusted(l)

\* With one process on a device, the key in its file changes only when the user
\* enters one, when the server has replaced that very key, or when an exit tears
\* the file: a refresh never writes back a key that is no longer the device's
\* (load_state at the end of refresh_entitlement, key read at its start).
KeyKept ==
    [][\A d \in Device : file'[d].key # file[d].key =>
            \/ file'[d] = NoFile
            \/ \E p \in Conn, l \in Issued : EnterKey(p, l)
            \/ \E p \in Conn : Save(p) /\ used[p].license = file[d].key
                              /\ got[p].replacement = file'[d].key]_allVars

\* With one process per device, one key and nothing lost, no installation is
\* flagged for a session secret mismatch (rotate_session_secret on the server,
\* store_session_secret at the end of the refresh).
FlaggedOnlyAfterLoss == (losses = 0 /\ changes = 0) => flagged = {}

HasProcess(d) == \E p \in Conn : DeviceOf[p] = d

\* A request confirmed before a replacement was made for it leads to trust as
\* long as the device keeps presenting the key.
ConfirmedInTime(l, d) ==
    /\ HasProcess(d) /\ file[d].key = l
    /\ \E r \in OpenRequests(l, d) : req[r].approved /\ req[r].replacement = None
ConfirmedInTimeIsTrusted ==
    \A l \in License, d \in Device :
        ConfirmedInTime(l, d) ~> d \in Trusted(l) \/ file[d].key # l

\* Whatever the owner does, a device that has asked ends up with a key it is
\* trusted on, its own or a replacement (or with a file torn by an exit).
Asked(l, d) ==
    /\ HasProcess(d) /\ file[d].key = l
    /\ \E r \in OpenRequests(l, d) : req[r].expires <= MaxTime
AskedIsSettled ==
    \A l \in License, d \in Device :
        Asked(l, d) ~> file[d].key = None \/ d \in Trusted(file[d].key)

(* A statement of the repository that the code does not keep.              *)

\* The confirmation page says "The next client refresh will trust this
\* installation": so a confirmed request leads to trust unless the user moves to
\* another key.  After the window the client has already been moved to a
\* replacement key, and the confirmed license never trusts it.
ConfirmedIsTrusted ==
    \A l \in License, d \in Device :
        (HasProcess(d) /\ Approved(l, d)) ~> d \in Trusted(l) \/ file[d].key \in (Issued \cup {None}) \ {l}
=============================================================================
