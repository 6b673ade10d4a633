---------------------------- MODULE LicenceGate -----------------------------
(***************************************************************************)
(* The licence of an installation on the customer's own server:            *)
(* checkLicenseAccess, installLicense and processExpiredLicenses of        *)
(* src/lib/billing/access-gate.ts, with the integrity hash and the         *)
(* hardware fingerprint of anti-crack.ts.                                  *)
(*                                                                         *)
(* Every API request checks the licence: it reads the row once and then    *)
(* writes columns by id, up to twice, whatever other checks, the cron or   *)
(* an installation wrote meanwhile.  The server's clock may be set back,   *)
(* and the installation may be moved to another machine.                   *)
(***************************************************************************)
EXTENDS Naturals

CONSTANTS
    Checks,         \* requests that check the licence
    Passes,         \* runs of the billing cron
    Machines,       \* hardware fingerprints
    Tolerance,      \* CLOCK_TOLERANCE_MS
    GraceDays,      \* gracePeriodDays of the licence
    Term,           \* how long an installed licence is valid
    LastTick,       \* bound: the clock stops here
    MaxTurns        \* bound: installations, clock settings and moves

ASSUME TimesAssumption ==
    {Tolerance, GraceDays, Term, LastTick, MaxTurns} \subseteq Nat /\ LastTick # 0

Never == 0      \* a date that is null

VARIABLES
    now,            \* the server's clock
    machine,        \* the hardware it runs on
    lic,            \* the row of table License
    check,          \* the checks and the cron: program counter and what they read
    turns,          \* how many installations, clock settings and moves
    peak,           \* history: the latest time the clock showed
    causes,         \* history: what happened to the installed licence's server
    overrun       \* history: a write landed on a licence installed after its read

licVars == <<now, machine, lic, check, turns, peak, causes, overrun>>

Lookers == Checks \cup Passes

-----------------------------------------------------------------------------
(* The hash an installation stores covers the status, the flag, the dates  *)
(* and the mark of that moment; no later write of the row renews it.       *)
HashMatches(l) == l.status = "active" /\ ~l.flag /\ l.mark = l.hashedMark

RolledBack(l, at) == l.mark # Never /\ at + Tolerance < l.mark

(* The definition after it, which writes every reading of the clock. *)
AdvancesBug(l, at) == at # l.mark

Advances(l, at) == l.mark = Never \/ l.mark < at

GraceOf(l) == l.expires + GraceDays

IsLocked(l)     == [l EXCEPT !.status = "locked", !.lockedAt = TRUE]
RolledRow(l)  == [IsLocked(l) EXCEPT !.flag = TRUE]
InGrace(l, e) == [l EXCEPT !.status = "grace_period", !.graceEnds = e]

Intact(l) == l.hashedMark # Never => HashMatches(l)
AtHome(l) == l.machine \in {"any", machine}

(* What a check does to the status of the licence it read. *)
Verdict(l, at) ==
    IF l.flag \/ l.status = "none" THEN "none"
    ELSE CASE ~(Intact(l) /\ AtHome(l)) -> "lock"
           [] /\ Intact(l) /\ AtHome(l)
              /\ l.status = "active" /\ l.expires < at -> "grace"
           [] /\ Intact(l) /\ AtHome(l)
              /\ l.status = "grace_period" /\ l.graceEnds <= at /\ ~l.lockedAt -> "lock"
           [] OTHER -> "none"

Applied(l, what, grace) ==
    CASE what = "lock"   -> IsLocked(l)
      [] what = "grace"  -> InGrace(l, grace)
      [] what = "rolled" -> RolledRow(l)

-----------------------------------------------------------------------------
(* A licence file that is good now. *)
Installed(at, hashed) ==
    [status |-> "active", expires |-> now + Term, graceEnds |-> Never,
     lockedAt |-> FALSE, flag |-> FALSE, mark |-> at, hashedMark |-> hashed,
     machine |-> machine]

(* A row from before the hash and the fingerprint were added, and no row. *)
Legacy    == [Installed(Never, Never) EXCEPT !.machine = "any"]
NoLicence == [Legacy EXCEPT !.status = "none", !.expires = Never]

(* What an actor keeps of its read: what it will write, and, as history,   *)
(* whether the row is still the one it read.                               *)
Resting == [pc |-> "idle", at |-> Never, what |-> "none", grace |-> Never,
            row |-> "same"]

LicInit ==
    /\ now = 1
    /\ machine \in Machines
    /\ lic \in {NoLicence, Legacy, Installed(now, now)}
    /\ check = [w \in Lookers |-> Resting]
    /\ turns = 0
    /\ peak = now
    /\ causes = {}
    /\ overrun = FALSE

(* What an actor that read the row now still has to do. *)
Planned(pc, what) ==
    [Resting EXCEPT !.pc = pc, !.what = what,
                    !.at = IF pc = "write" THEN Never ELSE now,
                    !.grace = IF what = "grace" THEN GraceOf(lic) ELSE Never]

Read(c) ==
    /\ check[c].pc = "idle"
    /\ lic.status # "none"
    /\ check' = [check EXCEPT ![c] =
          CASE RolledBack(lic, now) -> Planned("write", "rolled")
            [] ~RolledBack(lic, now) /\ Advances(lic, now) ->
                 Planned("mark", Verdict(lic, now))
            [] /\ ~RolledBack(lic, now) /\ ~Advances(lic, now)
               /\ Verdict(lic, now) # "none" -> Planned("write", Verdict(lic, now))
            [] OTHER -> Resting]
    /\ UNCHANGED <<now, machine, lic, turns, peak, causes, overrun>>

(* The other actors' reads no longer show the row. *)
Outdated(how) ==
    [v \in Lookers |-> IF check[v].pc \notin {"mark", "write", "first"}
                          \/ check[v].row = "replaced"
                       THEN check[v] ELSE [check[v] EXCEPT !.row = how]]

(* A write of one or two columns, over whatever the row holds by now. *)
Put(w, row, then) ==
    /\ lic' = row
    /\ overrun' = (overrun \/ check[w].row = "replaced")
    /\ check' = [Outdated("changed") EXCEPT ![w] = then]
    /\ UNCHANGED <<now, machine, turns, peak, causes>>

AdvanceMark(c) ==
    /\ check[c].pc = "mark"
    /\ Put(c, [lic EXCEPT !.mark = check[c].at],
           IF check[c].what = "none" THEN Resting
           ELSE [check[c] EXCEPT !.pc = "write", !.at = Never])

WriteStatus(w) ==
    /\ check[w].pc = "write"
    /\ Put(w, Applied(lic, check[w].what, check[w].grace), Resting)

-----------------------------------------------------------------------------
(* The two passes of the cron, with the date of its start. *)
FindExpired(p) ==
    /\ check[p].pc = "idle"
    /\ check' = [check EXCEPT ![p] = IF lic.status = "active" /\ lic.expires < now
                                     THEN Planned("first", "grace")
                                     ELSE Planned("second", "none")]
    /\ UNCHANGED <<now, machine, lic, turns, peak, causes, overrun>>

FirstPassWrites(p) ==
    /\ check[p].pc = "first"
    /\ Put(p, InGrace(lic, check[p].grace),
           [Resting EXCEPT !.pc = "second", !.at = check[p].at])

FindGraceOver(p) ==
    /\ check[p].pc = "second"
    /\ check' = [check EXCEPT ![p] =
          IF lic.status = "grace_period" /\ lic.graceEnds < check[p].at /\ ~lic.lockedAt
          THEN Planned("write", "lock") ELSE Resting]
    /\ UNCHANGED <<now, machine, lic, turns, peak, causes, overrun>>

-----------------------------------------------------------------------------
(* An installation replaces the row.  The hash is computed from one reading *)
(* of the clock and an update stores another, which may be a moment later.  *)
Install ==
    /\ turns < MaxTurns
    /\ turns' = turns + 1
    /\ \E mark \in {now, now + 1} :
          /\ lic.status = "none" => mark = now
          /\ lic' = Installed(mark, now)
          /\ now' = mark
    /\ peak' = now'
    /\ causes' = {}
    /\ overrun' = FALSE
    /\ check' = Outdated("replaced")
    /\ UNCHANGED machine

Tick ==
    /\ now < LastTick
    /\ now' = now + 1
    /\ peak' = IF peak < now' THEN now' ELSE peak
    /\ UNCHANGED <<machine, lic, check, turns, causes, overrun>>

SetClock ==
    /\ turns < MaxTurns
    /\ turns' = turns + 1
    /\ now' \in 1 .. now - 1
    /\ causes' = causes \cup {c \in {"setBack"} : now' + Tolerance < peak}
    /\ UNCHANGED <<machine, lic, check, peak, overrun>>

(* The server is stopped and started again on another machine. *)
Relocate ==
    /\ turns < MaxTurns
    /\ turns' = turns + 1
    /\ machine' \in Machines \ {machine}
    /\ causes' = causes \cup {"moved"}
    /\ check' = [w \in Lookers |-> Resting]
    /\ UNCHANGED <<now, lic, peak, overrun>>

LicNext ==
    \/ \E c \in Checks : Read(c) \/ AdvanceMark(c)
    \/ \E w \in Lookers : WriteStatus(w)
    \/ \E p \in Passes : FindExpired(p) \/ FirstPassWrites(p) \/ FindGraceOver(p)
    \/ Install \/ Tick \/ SetClock \/ Relocate

LicSpec == LicInit /\ [][LicNext]_licVars

-----------------------------------------------------------------------------
Statuses == {"none", "active", "grace_period", "locked"}
Dates    == 0 .. LastTick + MaxTurns + Term + GraceDays
LicenceRows     == [status : Statuses, expires : Dates, graceEnds : Dates, lockedAt : BOOLEAN,
             flag : BOOLEAN, mark : Dates, hashedMark : Dates,
             machine : Machines \cup {"any"}]

LicTypeOK ==
    /\ now \in Dates /\ peak \in Dates
    /\ machine \in Machines
    /\ lic \in LicenceRows
    /\ check \in [Lookers -> [pc : {"idle", "mark", "write", "first", "second"},
                              at : Dates, grace : Dates,
                              what : {"none", "lock", "grace", "rolled"},
                              row : {"same", "changed", "replaced"}]]
    /\ turns \in 0 .. MaxTurns
    /\ causes \subseteq {"setBack", "moved"}
    /\ overrun \in BOOLEAN

(* A licence is locked only for a cause: the clock fell behind the latest  *)
(* time it had shown by more than the tolerance, the installation moved,   *)
(* the licence had expired, or its own mark has moved on from the one its  *)
(* hash covers.  Small steps back, checks that race each other, the cron   *)
(* and a licence without a hash are no cause; a write that was decided     *)
(* before the licence was installed is the exception.                      *)
LockHasCause ==
    lic.status = "locked" /\ ~overrun =>
        \/ lic.flag /\ "setBack" \in causes
        \/ lic.hashedMark # Never /\ lic.mark # lic.hashedMark
        \/ lic.machine # "any" /\ "moved" \in causes
        \/ lic.expires < peak

(* The high-water mark falls, and a lock is lifted, only by installing a   *)
(* licence or by a write whose check read the row before another write.    *)
(* (The comment at access-gate.ts:358 promises a mark that never falls.)   *)
OnlyRacesUndo ==
    [][ (lic'.mark < lic.mark \/ (lic.status = "locked" /\ lic'.status # "locked"))
          => \/ turns' # turns
             \/ \E w \in Lookers : check[w].row # "same" /\ check'[w] # check[w] ]_licVars

(* What the header of the file promises of a licence that has not expired, *)
(* on its machine, under a clock that was never set back: it is in force.  *)
(* It fails: the second check finds the mark the first one moved, takes    *)
(* the row for one that was edited, and locks it.                          *)
UnexpiredIsInForce ==
    now <= lic.expires /\ causes = {} /\ ~overrun
        => lic.status \in {"none", "active"}

(* Rows and checks are well typed, and no licence is locked without cause. *)
LicInv == LicTypeOK /\ LockHasCause

(* The invariant of the licence's row, and what may lift a lock or lower   *)
(* the mark.                                                               *)
LicenceIsSound == []LicInv /\ OnlyRacesUndo
=============================================================================
