---------------------------- MODULE DesktopLicence ----------------------------
(***************************************************************************)
(* The licence of one desktop installation and the vendor's server: the    *)
(* registry (vendor-server/src/app/api: licenses, renew, revoke), the      *)
(* heartbeats between them (heartbeat/route.ts, electron/src/license/      *)
(* heartbeat.ts), and what the desktop makes of its key when it starts and *)
(* when a licence is installed (license/verify.ts, main.ts, ipc/handlers). *)
(*                                                                         *)
(* A key is the index of its row in the registry.  The desktop keeps it in *)
(* the operating system's keychain, and a row of its own database keeps    *)
(* fingerprint and status; that row is only ever updated, so it may not be *)
(* there.  The database itself (electron/src/db) is external.              *)
(***************************************************************************)
EXTENDS Integers, Sequences

CONSTANTS
    Beats,          \* heartbeats in flight
    Grace,          \* grace period in every key: 0 days become 30
    Terms,          \* bound: days licences expire on
    MaxKeys,        \* bound: licences there are in all
    LastDay,        \* bound: the clock stops here
    MaxDesktopFaults  \* bound: lost answers, spoilt keychains, new hardware

ASSUME DesktopBounds ==
    /\ Terms \subseteq 0 .. LastDay
    /\ {Grace, MaxKeys, LastDay, MaxDesktopFaults} \subseteq Nat

VARIABLES
    day,            \* the clock
    registry,       \* table License of the vendor
    renewing,       \* the licence whose renewal is half done
    keychain,       \* the key installed: 0 is none, -1 one that does not parse
    licenceRow,     \* row of table license: whether there, fingerprint, status
    hardware,       \* what computeHardwareFingerprint computes
    window,         \* the main window: "off", "main" or "locked"
    beat,           \* heartbeats: program counter, key, action answered
    desktopFaults,
    condemned,      \* history: keys that were revoked, or past their grace
    told,           \* history: keys the desktop was told to lock for
    boundTo,        \* history: hardware of the last installation
    opened,         \* history: windows that stayed open when told to lock
    unheard         \* history: an upload from the locked screen did nothing

desktopVars == <<day, registry, renewing, keychain, licenceRow, hardware, window,
                 beat, desktopFaults, condemned, told, boundTo, opened, unheard>>

Nothing == 0
Broken == -1
Silent == [pc |-> "none", key |-> Nothing, action |-> "none"]
LicenceKeys   == 1 .. MaxKeys
Issued == DOMAIN registry

DesktopInit ==
    /\ day = 0 /\ registry = <<>> /\ renewing = Nothing
    /\ keychain = Nothing
    /\ licenceRow \in {[there |-> x, fingerprint |-> Nothing, status |-> "active"] : x \in BOOLEAN}
    /\ hardware = 1 /\ window = "off"
    /\ beat = [b \in Beats |-> Silent]
    /\ desktopFaults = 0
    /\ condemned = {} /\ told = {} /\ boundTo = Nothing /\ opened = FALSE /\ unheard = FALSE

vendorVars  == <<registry, renewing>>
machineVars == <<keychain, licenceRow, boundTo>>

DesktopFault == desktopFaults < MaxDesktopFaults /\ desktopFaults' = desktopFaults + 1

Past(limit) == day > limit

(* Revoked, or expired and past the grace period the registry has.         *)
ShouldLock(row, d) ==
    row.status = "revoked" \/ (d > row.expires /\ d >= row.expires + row.grace)

Condemn(rows, d) ==
    condemned' = condemned \cup {k \in DOMAIN rows : ShouldLock(rows[k], d)}

-----------------------------------------------------------------------------
(* POST licenses, licenses/[id]/revoke and licenses/[id]/renew.  A grace   *)
(* period of 0 is kept in the registry and 30 days in the key.             *)
Licence(expires, grace) == [status |-> "active", expires |-> expires, grace |-> grace]

Issue ==
    /\ Len(registry) < MaxKeys
    /\ \E expires \in {t \in Terms : t >= day}, grace \in {0, Grace} :
          registry' = Append(registry, Licence(expires, grace))
    /\ UNCHANGED <<day, renewing, machineVars, hardware, window, beat,
                   desktopFaults, condemned, told, opened, unheard>>

Revoke(k) ==
    /\ k \in Issued /\ registry[k].status # "revoked"
    /\ registry' = [registry EXCEPT ![k].status = "revoked"]
    /\ Condemn(registry', day)
    /\ UNCHANGED <<day, renewing, machineVars, hardware, window, beat,
                   desktopFaults, told, opened, unheard>>

(* The old licence is "replaced", whatever it was, before the new one is   *)
(* there.                                                                  *)
BeginRenew(k) ==
    /\ k \in Issued /\ renewing = Nothing /\ Len(registry) < MaxKeys
    /\ registry' = [registry EXCEPT ![k].status = "replaced"]
    /\ renewing' = k
    /\ UNCHANGED <<day, machineVars, hardware, window, beat, desktopFaults,
                   condemned, told, opened, unheard>>

FinishRenew ==
    /\ renewing # Nothing /\ renewing' = Nothing
    /\ \/ /\ Len(registry) < MaxKeys
          /\ \E expires \in {t \in Terms : t >= day} :
                registry' = Append(registry, Licence(expires, registry[renewing].grace))
          /\ UNCHANGED desktopFaults
       \/ DesktopFault /\ UNCHANGED registry
    /\ UNCHANGED <<day, machineVars, hardware, window, beat, condemned,
                   told, opened, unheard>>

-----------------------------------------------------------------------------
(* verifyLicenseOnStartup: expiry comes before the fingerprint, which is   *)
(* not looked at in the grace period.                                      *)
Verdict ==
    CASE keychain = Nothing   -> "no_license"
      [] keychain = Broken -> "invalid"
      [] OTHER ->
         LET expires == registry[keychain].expires IN
         IF Past(expires)
         THEN IF day < expires + Grace THEN "grace_period" ELSE "locked"
         ELSE IF licenceRow.fingerprint \notin {Nothing, hardware} THEN "locked" ELSE "active"

(* The definition after it, which leaves a fingerprint that is there. *)
BindBug ==
    licenceRow' = IF licenceRow.there /\ licenceRow.fingerprint = Nothing
                  THEN [licenceRow EXCEPT !.fingerprint = hardware] ELSE licenceRow

(* storeFingerprint updates the row, if there is one. *)
Bind ==
    licenceRow' = IF licenceRow.there THEN [licenceRow EXCEPT !.fingerprint = hardware]
                  ELSE licenceRow

Verified ==
    /\ IF Verdict = "active" /\ licenceRow.fingerprint = Nothing
       THEN Bind /\ boundTo' = hardware
       ELSE UNCHANGED <<licenceRow, boundTo>>
    /\ UNCHANGED keychain

(* installLicense, of any licence the customer was sent and that has not   *)
(* expired; the status of the row stays.                                   *)
Installed(k) ==
    /\ k \in Issued /\ ~Past(registry[k].expires)
    /\ keychain' = k /\ Bind /\ boundTo' = hardware

(* The start: only "locked" locks; without licence one is asked for first. *)
StartUp ==
    /\ window = "off"
    /\ \/ Verdict # "no_license" /\ Verified
          /\ window' = IF Verdict = "locked" THEN "locked" ELSE "main"
       \/ Verdict = "no_license" /\ \E k \in Issued : Installed(k)
          /\ window' = "main"
    /\ UNCHANGED <<day, vendorVars, hardware, beat, desktopFaults, condemned,
                   told, opened, unheard>>

(* license:status, license:install and license:upload-file, which reload   *)
(* the page that calls them.                                               *)
CallFromPage ==
    /\ window = "main"
    /\ Verified \/ \E k \in Issued : Installed(k)
    /\ UNCHANGED <<day, vendorVars, hardware, window, beat, desktopFaults,
                   condemned, told, opened, unheard>>

(* The button of locked.html sends license:upload-request by Node's        *)
(* require, which a page without Node has not got: nothing happens.        *)
UploadFromLocked(k) ==
    /\ window = "locked" /\ k \in Issued /\ ~Past(registry[k].expires)
    /\ unheard' = TRUE
    /\ UNCHANGED <<day, vendorVars, machineVars, hardware, window, beat, desktopFaults,
                   condemned, told, opened>>

(* The process ends, and with it what it waits for. *)
Quit ==
    /\ window # "off"
    /\ window' = "off" /\ opened' = FALSE
    /\ beat' = [b \in Beats |-> Silent]
    /\ UNCHANGED <<day, vendorVars, machineVars, hardware, desktopFaults,
                   condemned, told, unheard>>

-----------------------------------------------------------------------------
(* sendHeartbeat, from the timer or from the page, for the key installed.  *)
Ask(b) ==
    /\ window # "off" /\ keychain # Nothing /\ beat[b].pc = "none"
    /\ beat' = [beat EXCEPT ![b] = [Silent EXCEPT !.pc = "asked", !.key = keychain]]
    /\ UNCHANGED <<day, vendorVars, machineVars, hardware, window,
                   desktopFaults, condemned, told, opened, unheard>>

(* The definition after it, which forgets that a licence may be revoked. *)
ActionForBug(row) ==
    IF ~Past(row.expires) THEN "none"
    ELSE IF day < row.expires + row.grace THEN "read_only" ELSE "lock"

(* The vendor also answers `lock` to a clock set back or to failed          *)
(* integrity, which no desktop reports: integrityValid is always true, and *)
(* clockRollbackDetected is asked of a table `license`, in a query that    *)
(* the tables of the schema refuse (heartbeat.ts:116, 122-131).            *)
ActionFor(row) ==
    IF row.status = "revoked" THEN "lock"
    ELSE IF ~Past(row.expires) THEN "none"
    ELSE IF day < row.expires + row.grace THEN "read_only" ELSE "lock"

(* An unknown key is answered 404, which the desktop takes for no answer.  *)
Answer(b) ==
    /\ beat[b].pc = "asked"
    /\ beat' = [beat EXCEPT ![b].pc = "answered",
                            ![b].action = IF @ = "none" /\ beat[b].key \in Issued
                                          THEN ActionFor(registry[beat[b].key]) ELSE "none"]
    /\ UNCHANGED <<day, vendorVars, machineVars, hardware, window,
                   desktopFaults, condemned, told, opened, unheard>>

(* Lost, or refused by the checks of signature, nonce and age. *)
LoseBeat(b) ==
    /\ beat[b].pc # "none" /\ DesktopFault
    /\ beat' = [beat EXCEPT ![b] = Silent]
    /\ UNCHANGED <<day, vendorVars, machineVars, hardware, window, condemned,
                   told, opened, unheard>>

(* "lock" and "read_only" are written into the row, if there is one, for   *)
(* whatever key is installed by now; the window stays.                     *)
Obey(b) ==
    /\ beat[b].pc = "answered"
    /\ beat' = [beat EXCEPT ![b] = Silent]
    /\ LET action == beat[b].action IN
       /\ licenceRow' = IF licenceRow.there /\ action # "none"
                        THEN [licenceRow EXCEPT
                                !.status = IF action = "lock" THEN "locked" ELSE "grace_period"]
                        ELSE licenceRow
       /\ told' = IF action = "lock" THEN told \cup {beat[b].key} ELSE told
       /\ opened' = (opened \/ (action = "lock" /\ window = "main"))
    /\ UNCHANGED <<day, vendorVars, keychain, boundTo, hardware, window,
                   desktopFaults, condemned, unheard>>

-----------------------------------------------------------------------------
(* The keychain is spoilt, or the database moves to another machine.       *)
SpoilKeychain ==
    /\ window = "off" /\ keychain > Nothing /\ DesktopFault
    /\ keychain' = Broken
    /\ UNCHANGED <<day, vendorVars, licenceRow, boundTo, hardware, window,
                   beat, condemned, told, opened, unheard>>

ChangeHardware ==
    /\ window = "off" /\ DesktopFault
    /\ hardware' = 3 - hardware
    /\ UNCHANGED <<day, vendorVars, machineVars, window, beat, condemned,
                   told, opened, unheard>>

(* A request that takes longer than ten seconds is given up. *)
DayPasses ==
    /\ day < LastDay /\ day' = day + 1
    /\ \A b \in Beats : beat[b].pc = "none"
    /\ Condemn(registry, day')
    /\ UNCHANGED <<vendorVars, machineVars, hardware, window, beat,
                   desktopFaults, told, opened, unheard>>

BeatStep(b) == Ask(b) \/ Answer(b) \/ Obey(b)

DesktopNext ==
    \/ \E k \in LicenceKeys : Revoke(k) \/ BeginRenew(k) \/ UploadFromLocked(k)
    \/ \E b \in Beats : BeatStep(b) \/ LoseBeat(b)
    \/ Issue \/ FinishRenew \/ StartUp \/ CallFromPage \/ Quit
    \/ SpoilKeychain \/ ChangeHardware \/ DayPasses

(* The timer of main.ts, and the network.                                  *)
Beating(b) == WF_desktopVars(BeatStep(b))

DesktopFairness == \A b \in Beats : Beating(b)

DesktopSpec == DesktopInit /\ [][DesktopNext]_desktopVars /\ DesktopFairness

-----------------------------------------------------------------------------
DesktopTypeOK ==
    /\ registry \in Seq([status : {"active", "revoked", "replaced"}, expires : 0 .. LastDay,
                         grace : {0, Grace}]) /\ Len(registry) <= MaxKeys
    /\ renewing \in LicenceKeys \cup {Nothing}
    /\ keychain \in Issued \cup {Nothing, Broken}
    /\ licenceRow \in [there : BOOLEAN, fingerprint : 0 .. 2,
                       status : {"active", "grace_period", "locked"}]
    /\ window \in {"off", "main", "locked"}
    /\ beat \in [Beats -> [pc : {"none", "asked", "answered"}, key : LicenceKeys \cup {Nothing, Broken},
                           action : {"none", "read_only", "lock"}]]

(* However answers, revocations, renewals and installations cross: the     *)
(* desktop is told to lock, and its row says so, only if a key it held was *)
(* revoked or past its grace period; ...                                   *)
LockHasACause ==
    /\ told \subseteq condemned
    /\ licenceRow.status = "locked" => told # {}

(* ... and its user is locked out only if the key's own grace period has   *)
(* ended or the hardware is not that of the last installation.             *)
LockedOutForACause ==
    window = "locked" =>
       /\ keychain \in Issued
       /\ \/ day >= registry[keychain].expires + Grace
          \/ hardware # boundTo

DesktopInv == DesktopTypeOK /\ LockHasACause /\ LockedOutForACause

(* A desktop that runs with a key installed can go on asking, ... *)
BeatCanGoOn(b) ==
    window # "off" /\ keychain # Nothing => ENABLED <<BeatStep(b)>>_desktopVars

BeatsCanGoOn == \A b \in Beats : BeatCanGoOn(b)

(* ... and in the end its answers arrive.                                  *)
AnswersArrive == <>[][\A b \in Beats : ~LoseBeat(b)]_desktopVars

(* A revoked key that stays installed in a running desktop: the desktop is *)
(* told.                                                                   *)
Exposed(k) ==
    keychain = k /\ k \in Issued /\ registry[k].status = "revoked" /\ window # "off"

IsTold(k) == Exposed(k) ~> (~Exposed(k) \/ k \in told)

RevocationArrives == []BeatsCanGoOn /\ AnswersArrive /\ \A k \in LicenceKeys : IsTold(k)

(* electron/README.md:90: "If `lock`: application locks immediately".      *)
LockIsImmediate == ~opened

(* verify.ts:99: "Upload a renewed license to restore access."            *)
UploadIsHeard == ~unheard
===============================================================================
