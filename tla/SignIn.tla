------------------------------- MODULE SignIn --------------------------------
(***************************************************************************)
(* One account and everything that opens a session of it or changes what   *)
(* opens one: authorize of lib/auth/auth-options.ts (password and code),   *)
(* the passkey login, step-up, TOTP set-up (api/me/mfa), and the change    *)
(* and the reset of the password.                                          *)
(*                                                                         *)
(* Each request reads the user's row, works for a while (Argon2, WebAuthn, *)
(* the codes), and then updates columns by id, from what it had read.      *)
(* Ticks are TOTP time steps; a code is the step it was generated for.     *)
(***************************************************************************)
EXTENDS Naturals, FiniteSets

CONSTANTS
    Calls,          \* concurrent requests
    Threshold,      \* wrong passwords that lock the account
    LockTicks,      \* how long it stays locked
    LastStep,       \* bound: the clock stops here
    MaxSignIns        \* bound: how many requests there are in all

ASSUME SignInBounds ==
    /\ {LockTicks, MaxSignIns} \subseteq Nat /\ {Threshold, LastStep} \subseteq Nat \ {0}
    /\ IsFiniteSet(Calls) /\ Calls # {}

NotLocked == 0
NoCode    == 0

Ways == {"password", "passkey", "stepUp", "enable", "disable", "change", "reset"}

VARIABLES
    step,           \* the clock
    account,        \* the row of table User
    call,           \* the requests: program counter and locals
    made,           \* how many requests there were
    pendingMfa,     \* mfaPendingStore holds a token for the account
    challenge,      \* the passkey challenge is in its store
    resetToken,     \* the row of table VerificationToken is there
    sessions,       \* open sessions: under which password, and how they came
    taken,          \* history: codes a login or a step-up took, and how often
    resets,         \* history: passwords set by the reset token
    crossed         \* history: a code was written over a row read before

signInVars == <<step, account, call, made, pendingMfa, challenge, resetToken,
                sessions, taken, resets, crossed>>

-----------------------------------------------------------------------------
Codes  == 1 .. LastStep + 1
NoUser == [failed |-> 0, lockedUntil |-> NotLocked, mfa |-> FALSE, lastCode |-> NoCode,
           password |-> 1]
Quiet  == [way |-> "password", pc |-> "idle", right |-> FALSE, code |-> NoCode,
           read |-> NoUser, overtaken |-> FALSE]

SignInInit ==
    /\ step = 1
    /\ account \in {NoUser, [NoUser EXCEPT !.mfa = TRUE]}
    /\ call = [c \in Calls |-> Quiet]
    /\ made = 0
    /\ pendingMfa = FALSE
    /\ challenge = TRUE
    /\ resetToken = TRUE
    /\ sessions = {}
    /\ taken = [n \in Codes |-> 0]
    /\ resets = 0
    /\ crossed = FALSE

Locked(row) == row.lockedUntil > step

(* A request arrives and reads the row. *)
Call(c, way, right, code) ==
    /\ made < MaxSignIns
    /\ call[c].pc = "idle"
    /\ made' = made + 1
    /\ call' = [call EXCEPT ![c] = [way |-> way, pc |-> "working", right |-> right,
                                    code |-> code, read |-> account, overtaken |-> FALSE]]

Unmoved == UNCHANGED <<step, account, pendingMfa, challenge, resetToken, sessions,
                       taken, resets, crossed>>

LogIn(c) ==
    /\ \E right \in BOOLEAN, code \in {NoCode} \cup (Codes \cap (step - 1 .. step + 1)) :
          Call(c, "password", right, code)
    /\ Unmoved

(* The challenge is looked up first, and taken out only at the end. *)
LogInByPasskey(c) == challenge /\ Call(c, "passkey", TRUE, NoCode) /\ Unmoved

(* Requests of a signed-in user. *)
AskForMore(c) ==
    /\ sessions # {}
    /\ \E way \in {"stepUp", "enable", "disable"}, code \in Codes \cap (step - 1 .. step + 1) :
          /\ way = "enable" <=> ~account.mfa
          /\ Call(c, way, TRUE, code)
    /\ Unmoved

ChangePassword(c) == sessions # {} /\ Call(c, "change", TRUE, NoCode) /\ Unmoved

(* The reset token is found before the password is hashed. *)
ResetPassword(c) == resetToken /\ Call(c, "reset", TRUE, NoCode) /\ Unmoved

-----------------------------------------------------------------------------
(* What a write leaves to the requests that have read the row before. *)
Wrote(c, pc) ==
    [d \in Calls |-> IF d = c THEN [call[c] EXCEPT !.pc = pc]
                     ELSE [call[d] EXCEPT !.overtaken = call[d].pc # "idle"]]

End(c) == call' = [call EXCEPT ![c] = Quiet]

(* The count is incremented in the database, the lock decided on the count *)
(* that was read.                                                          *)
FailedRow(row, read) ==
    [row EXCEPT !.failed = @ + 1,
                !.lockedUntil = IF read.failed + 1 >= Threshold THEN step + LockTicks ELSE @]

WrongPassword(c) ==
    /\ call[c].way = "password" /\ call[c].pc = "working" /\ ~call[c].right
    /\ account' = FailedRow(account, call[c].read)
    /\ call' = [Wrote(c, "idle") EXCEPT ![c] = Quiet]
    /\ UNCHANGED <<step, made, pendingMfa, challenge, resetToken, sessions, taken,
                   resets, crossed>>

(* The definition after it, which looks at nothing. *)
LetInBug(c) == TRUE

LetIn(c) == ~Locked(call[c].read)

Cleared(row) == [row EXCEPT !.failed = 0, !.lockedUntil = NotLocked]

(* The row as it was read says whether the account is locked, and whether  *)
(* there are failures to clear.                                            *)
RightPassword(c) ==
    /\ call[c].way = "password" /\ call[c].pc = "working" /\ call[c].right
    /\ IF LetIn(c)
       THEN IF call[c].read.failed > 0
            THEN account' = Cleared(account) /\ call' = Wrote(c, "mfa")
            ELSE account' = account /\ call' = [call EXCEPT ![c].pc = "mfa"]
       ELSE End(c) /\ UNCHANGED account
    /\ UNCHANGED <<step, made, pendingMfa, challenge, resetToken, sessions, taken,
                   resets, crossed>>

(* verifyTotpWithReplay: a step around now, later than the last one used. *)
CodeIsGood(c) ==
    /\ call[c].code \in step - 1 .. step + 1
    /\ call[c].code > call[c].read.lastCode

TakeCode(c, pc) ==
    /\ account' = [account EXCEPT !.lastCode = call[c].code]
    /\ taken' = [taken EXCEPT ![call[c].code] = @ + 1]
    /\ crossed' = (crossed \/ account.lastCode # call[c].read.lastCode)
    /\ call' = IF pc = "idle" THEN [Wrote(c, pc) EXCEPT ![c] = Quiet] ELSE Wrote(c, pc)

(* The second factor of authorize.  Without a code a pending token is      *)
(* issued; it is asked for, if the request names one, and removed when a   *)
(* code is taken.                                                          *)
SecondFactor(c) ==
    /\ call[c].pc = "mfa"
    /\ \/ /\ ~call[c].read.mfa
          /\ call' = [call EXCEPT ![c].pc = "opening"]
          /\ UNCHANGED <<account, taken, crossed, pendingMfa>>
       \/ /\ call[c].read.mfa /\ call[c].code = NoCode
          /\ pendingMfa' = TRUE
          /\ End(c)
          /\ UNCHANGED <<account, taken, crossed>>
       \/ /\ call[c].read.mfa /\ call[c].code # NoCode /\ CodeIsGood(c)
          /\ \E named \in BOOLEAN : /\ named => pendingMfa
                                    /\ pendingMfa' = (pendingMfa /\ ~named)
          /\ TakeCode(c, "opening")
       \/ /\ call[c].read.mfa /\ call[c].code # NoCode
          /\ ~CodeIsGood(c) \/ ~pendingMfa
          /\ End(c)
          /\ UNCHANGED <<account, taken, crossed, pendingMfa>>
    /\ UNCHANGED <<step, made, challenge, resetToken, sessions, resets>>

(* The last update clears failures and lock, and the session is opened, or *)
(* refused with all others when the account has opened too many.           *)
OpenSession(c) ==
    /\ \/ call[c].pc = "opening"
       \/ /\ call[c].way = "passkey" /\ call[c].pc = "working" /\ ~Locked(call[c].read)
    /\ account' = Cleared(account)
    /\ call' = [Wrote(c, "idle") EXCEPT ![c] = Quiet]
    /\ challenge' = (challenge /\ call[c].way # "passkey")
    /\ sessions' = sessions \cup
          {[password |-> call[c].read.password, passkey |-> call[c].way = "passkey",
            late |-> call[c].read.password # account.password]}
    /\ UNCHANGED <<step, made, pendingMfa, resetToken, taken, resets, crossed>>

TooManySessions(c) ==
    /\ call[c].pc = "opening"
    /\ account' = Cleared(account)
    /\ call' = [Wrote(c, "idle") EXCEPT ![c] = Quiet]
    /\ sessions' = {}
    /\ UNCHANGED <<step, made, pendingMfa, challenge, resetToken, taken, resets, crossed>>

(* A passkey of a locked account is refused and its challenge is gone. *)
RefusePasskey(c) ==
    /\ call[c].way = "passkey" /\ call[c].pc = "working" /\ Locked(call[c].read)
    /\ challenge' = FALSE
    /\ End(c)
    /\ UNCHANGED <<step, account, made, pendingMfa, resetToken, sessions, taken,
                   resets, crossed>>

-----------------------------------------------------------------------------
(* POST /api/me/step-up with a code. *)
StepUp(c) ==
    /\ call[c].way = "stepUp" /\ call[c].pc = "working"
    /\ IF call[c].read.mfa /\ CodeIsGood(c) THEN TakeCode(c, "idle")
       ELSE End(c) /\ UNCHANGED <<account, taken, crossed>>
    /\ UNCHANGED <<step, made, pendingMfa, challenge, resetToken, sessions, resets>>

(* POST /api/me/mfa takes the answer of verifyTotp, by how many steps the   *)
(* code is off, for a Boolean: 0 is false, and the code of the current step *)
(* is refused.  The last code used does not count.                          *)
MfaCodePasses(c) == call[c].code \in {step - 1, step + 1}

EnableMfa(c) ==
    /\ call[c].way = "enable" /\ call[c].pc = "working"
    /\ IF MfaCodePasses(c)
       THEN /\ account' = [account EXCEPT !.mfa = TRUE]
            /\ call' = [Wrote(c, "idle") EXCEPT ![c] = Quiet]
       ELSE End(c) /\ UNCHANGED account
    /\ UNCHANGED <<step, made, pendingMfa, challenge, resetToken, sessions, taken,
                   resets, crossed>>

DisableMfa(c) ==
    /\ call[c].way = "disable" /\ call[c].pc = "working"
    /\ IF MfaCodePasses(c)
       THEN account' = [account EXCEPT !.mfa = FALSE] /\ call' = Wrote(c, "revoke")
       ELSE End(c) /\ UNCHANGED account
    /\ UNCHANGED <<step, made, pendingMfa, challenge, resetToken, sessions, taken,
                   resets, crossed>>

NewPassword(row) == [row EXCEPT !.password = @ + 1]

(* POST /api/me/password: the current password was compared with the hash  *)
(* that was read.                                                          *)
StorePassword(c) ==
    /\ call[c].way = "change" /\ call[c].pc = "working"
    /\ account' = NewPassword(account)
    /\ call' = Wrote(c, "revoke")
    /\ UNCHANGED <<step, made, pendingMfa, challenge, resetToken, sessions, taken,
                   resets, crossed>>

(* A delete of a row that is gone rolls the transaction back. *)
TokenIsThere == resetToken

StoreReset(c) ==
    /\ call[c].way = "reset" /\ call[c].pc = "working"
    /\ IF TokenIsThere
       THEN /\ account' = NewPassword(Cleared(account))
            /\ resetToken' = FALSE
            /\ resets' = resets + 1
            /\ call' = Wrote(c, "revoke")
       ELSE End(c) /\ UNCHANGED <<account, resetToken, resets>>
    /\ UNCHANGED <<step, made, pendingMfa, challenge, sessions, taken, crossed>>

Revoked == sessions

RevokeSessions(c) ==
    /\ call[c].pc = "revoke"
    /\ sessions' = sessions \ Revoked
    /\ End(c)
    /\ UNCHANGED <<step, account, made, pendingMfa, challenge, resetToken, taken,
                   resets, crossed>>

NextStep ==
    /\ step < LastStep
    /\ step' = step + 1
    /\ UNCHANGED <<account, call, made, pendingMfa, challenge, resetToken, sessions,
                   taken, resets, crossed>>

SignInNext ==
    \/ \E c \in Calls :
          \/ LogIn(c) \/ LogInByPasskey(c) \/ AskForMore(c)
          \/ ChangePassword(c) \/ ResetPassword(c)
          \/ WrongPassword(c) \/ RightPassword(c) \/ SecondFactor(c)
          \/ OpenSession(c) \/ TooManySessions(c) \/ RefusePasskey(c)
          \/ StepUp(c) \/ EnableMfa(c) \/ DisableMfa(c)
          \/ StorePassword(c) \/ StoreReset(c) \/ RevokeSessions(c)
    \/ NextStep

SignInSpec == SignInInit /\ [][SignInNext]_signInVars

-----------------------------------------------------------------------------
RowTypes == [failed : 0 .. MaxSignIns, lockedUntil : 0 .. LastStep + LockTicks,
             mfa : BOOLEAN, lastCode : Codes \cup {NoCode}, password : 1 .. MaxSignIns + 1]

SignInTypeOK ==
    /\ step \in 1 .. LastStep
    /\ account \in RowTypes
    /\ call \in [Calls -> [way : Ways, pc : {"idle", "working", "mfa", "opening", "revoke"},
                           right : BOOLEAN, code : Codes \cup {NoCode}, read : RowTypes,
                           overtaken : BOOLEAN]]
    /\ made \in 0 .. MaxSignIns
    /\ {pendingMfa, challenge, resetToken, crossed} \subseteq BOOLEAN
    /\ sessions \subseteq [password : 1 .. MaxSignIns + 1, passkey : BOOLEAN, late : BOOLEAN]
    /\ taken \in [Codes -> 0 .. MaxSignIns]
    /\ resets \in 0 .. MaxSignIns

(* Wrong passwords lock the account: although the lock is decided on a     *)
(* count that other requests have moved on, all that slips through is one  *)
(* failure for each request under way besides the one that locks.          *)
CountedFailuresLock ==
    account.failed >= Threshold + Cardinality(Calls) - 1
        => account.lockedUntil # NotLocked

(* A code is taken once, by a login or a step-up, while no request writes  *)
(* the step of its code over one it had not read (totp.ts, "replay         *)
(* protection").                                                           *)
CodeCountsOnce == ~crossed => \A n \in Codes : taken[n] <= 1

(* Once a password was changed or reset and the sessions are revoked, none *)
(* is left that was opened under an older one, except by a login that had  *)
(* read the row before and finished late.                                  *)
PasswordEndsSessions ==
    \A s \in sessions : s.password # account.password =>
        s.late \/ \E c \in Calls : call[c].pc = "revoke"

(* A reset token sets one password, however many requests found it. *)
ResetsOnce == resets <= 1

SignInInv == SignInTypeOK /\ CountedFailuresLock /\ CodeCountsOnce
             /\ PasswordEndsSessions /\ ResetsOnce

(* Only time, a reset of the password, or a login that read the row before *)
(* another request wrote it, lifts the lock of an account.                 *)
LockIsKept ==
    [][ Locked(account) /\ account'.lockedUntil = NotLocked
          => \E c \in Calls : /\ call'[c] # call[c]
                              /\ call[c].overtaken \/ call[c].way = "reset" ]_signInVars

(* totp.ts:47: verifyTotp returns "The timestep delta (0 = current period, *)
(* ...), or null if the token is invalid", so the code of the current      *)
(* period is valid, and the request that shows it succeeds.                *)
CurrentCodeIsTaken ==
    [][ \A c \in Calls :
          /\ call[c].way \in {"enable", "disable"} /\ call[c].pc = "working"
          /\ call[c].code = step /\ call'[c].pc # "working"
          => account'.mfa = (call[c].way = "enable") ]_signInVars

(* The invariant of an account and its sessions, and what may lift its     *)
(* lock.                                                                   *)
SignInIsSound == []SignInInv /\ LockIsKept
=============================================================================
