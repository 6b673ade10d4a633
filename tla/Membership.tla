------------------------------ MODULE Membership ------------------------------
(***************************************************************************)
(* How one e-mail address becomes a member of a tenant, what roles it      *)
(* gets, and how it is put out again: api/admin/invitations and its accept *)
(* endpoint, api/admin/users, the single sign-on callback, and the         *)
(* decisions of a recertification.                                         *)
(*                                                                         *)
(* Four handlers insert the user.  Only acceptance does it in one          *)
(* transaction with the roles; the others insert role by role afterwards.  *)
(***************************************************************************)
EXTENDS Integers, Sequences, FiniteSets

CONSTANTS
    Handlers,       \* concurrent invocations
    Grants,         \* sets of roles that can be given
    DefaultRoles,   \* what single sign-on gives: {"end_user"}
    Pauses,         \* how many weeks may pass at once
    LastWeek,       \* bound: the clock stops here
    MaxInvitations  \* bound on rows of Invitation

ASSUME MembershipBounds ==
    /\ Pauses \subseteq Nat /\ LastWeek \in Nat /\ MaxInvitations \in Nat
    /\ DefaultRoles \in Grants

Active    == "active"
Suspended == "suspended"
Outside   == [status |-> "none", by |-> 0]      \* no row of User
ByHand    == 0                                  \* not by an invitation
Ready     == [pc |-> "ready", roles |-> {}, inv |-> ByHand, seen |-> Active]

VARIABLES
    week,           \* the clock
    member,         \* the row of User: its status, the invitation it came from
    roleRows,       \* RoleAssignment
    invitations,    \* Invitation, in the order of creation
    work,           \* the invocations
    signedIn,       \* the member has an open session
    granted,        \* history: the roles last decided on
    unsure,         \* history: an insertion of roles was cut short or crossed
    late            \* history: a session was minted for a member since put out

memberVars == <<week, member, roleRows, invitations, work, signedIn, granted,
                unsure, late>>

MembershipInit ==
    /\ week = 0
    /\ member = Outside
    /\ roleRows = {}
    /\ invitations = <<>>
    /\ work = [h \in Handlers |-> Ready]
    /\ signedIn = FALSE
    /\ granted = {}
    /\ unsure = FALSE
    /\ late = FALSE

(* 7 * 24 * 3600_1000 milliseconds, as the code has it, in whole weeks. *)
InvitationWeeks == (7 * 24 * 36001) \div (7 * 24 * 3600)

At(h, pc)   == work[h].pc = pc
Go(h, pc)   == work' = [work EXCEPT ![h].pc = pc]
Return(h)   == work' = [work EXCEPT ![h] = Ready]
Exists      == member # Outside

-----------------------------------------------------------------------------
(* POST invitations: no such user, no pending invitation, then create. *)
CheckInvitation(h) ==
    /\ At(h, "ready") /\ ~Exists
    /\ \A n \in DOMAIN invitations : invitations[n].status # "pending"
    /\ \E roles \in Grants :
          work' = [work EXCEPT ![h] = [Ready EXCEPT !.pc = "inviting", !.roles = roles]]
    /\ UNCHANGED <<week, member, roleRows, invitations, signedIn, granted, unsure, late>>

CreateInvitation(h) ==
    /\ At(h, "inviting") /\ Len(invitations) < MaxInvitations
    /\ invitations' = Append(invitations,
          [status |-> "pending", made |-> week, accepted |-> 0, roles |-> work[h].roles])
    /\ Return(h)
    /\ UNCHANGED <<week, member, roleRows, signedIn, granted, unsure, late>>

Expires(n) == invitations[n].made + InvitationWeeks

(* POST accept: the row is read and checked, then Argon2 takes its time. *)
ReadInvitation(h) ==
    /\ At(h, "ready")
    /\ \E n \in DOMAIN invitations :
          /\ invitations[n].status # "accepted" /\ Expires(n) >= week
          /\ work' = [work EXCEPT ![h] = [Ready EXCEPT !.pc = "accepting", !.inv = n]]
    /\ UNCHANGED <<week, member, roleRows, invitations, signedIn, granted, unsure, late>>

(* The definition after it, without the conditions of updateMany. *)
ClaimableBug(n) == TRUE

Claimable(n) == invitations[n].status = "pending" /\ Expires(n) > week

(* The claim, the user, the roles: all or nothing. *)
Accept(h) ==
    /\ At(h, "accepting")
    /\ LET n == work[h].inv IN
       IF Claimable(n) /\ ~Exists
       THEN /\ invitations' = [invitations EXCEPT ![n].status = "accepted", ![n].accepted = week]
            /\ member' = [status |-> Active, by |-> n]
            /\ roleRows' = invitations[n].roles
            /\ granted' = invitations[n].roles
       ELSE UNCHANGED <<invitations, member, roleRows, granted>>
    /\ Return(h)
    /\ UNCHANGED <<week, signedIn, unsure, late>>

-----------------------------------------------------------------------------
(* POST users, and the first sign-on of somebody unknown: look, insert the *)
(* user, then its roles one after the other.                               *)
CheckUser(h) ==
    /\ At(h, "ready") /\ ~Exists
    /\ \E roles \in Grants :
          work' = [work EXCEPT ![h] = [Ready EXCEPT !.pc = "creating", !.roles = roles]]
    /\ UNCHANGED <<week, member, roleRows, invitations, signedIn, granted, unsure, late>>

SignOn(h) ==
    /\ At(h, "ready")
    /\ work' = [work EXCEPT ![h] =
          IF Exists THEN [Ready EXCEPT !.pc = "entering", !.seen = member.status]
                    ELSE [Ready EXCEPT !.pc = "joining", !.roles = DefaultRoles]]
    /\ UNCHANGED <<week, member, roleRows, invitations, signedIn, granted, unsure, late>>

InsertUser(h) ==
    /\ work[h].pc \in {"creating", "joining"}
    /\ IF Exists
       THEN Return(h) /\ UNCHANGED <<member, granted>>
       ELSE /\ member' = [status |-> Active, by |-> ByHand]
            /\ granted' = work[h].roles
            /\ Go(h, IF At(h, "creating") THEN "created" ELSE "joined")
    /\ UNCHANGED <<week, roleRows, invitations, signedIn, unsure, late>>

(* The unique index on RoleAssignment refuses a role that is there. *)
InsertRole(h) ==
    /\ work[h].pc \in {"created", "joined"}
    /\ \E role \in work[h].roles :
          IF role \in roleRows
          THEN Return(h) /\ UNCHANGED roleRows /\ unsure' = TRUE
          ELSE /\ roleRows' = roleRows \cup {role}
               /\ work' = [work EXCEPT ![h].roles = @ \ {role}]
               /\ UNCHANGED unsure
    /\ UNCHANGED <<week, member, invitations, signedIn, granted, late>>

RolesInserted(h) ==
    /\ work[h].roles = {}
    /\ \/ At(h, "created") /\ Return(h)
       \/ At(h, "joined") /\ Go(h, "entering")
    /\ UNCHANGED <<week, member, roleRows, invitations, signedIn, granted, unsure, late>>

(* The callback decides on the row it has read, and issues a token after the *)
(* audit event and two more queries.                                         *)
Enter(h) ==
    /\ At(h, "entering")
    /\ IF work[h].seen = Active
       THEN signedIn' = TRUE /\ late' = (late \/ member.status # Active)
       ELSE UNCHANGED <<signedIn, late>>
    /\ Return(h)
    /\ UNCHANGED <<week, member, roleRows, invitations, granted, unsure>>

-----------------------------------------------------------------------------
Replaced(roles) == roles

(* PATCH users/[id].  The update of the user's row comes first and locks   *)
(* it, so replacements follow one another.                                 *)
ReplaceRoles(h) ==
    /\ At(h, "ready") /\ Exists
    /\ \E roles \in Grants :
          /\ roleRows' = Replaced(roles)
          /\ granted' = roles
    /\ unsure' = (unsure \/ \E g \in Handlers : work[g].pc \in {"created", "joined"})
    /\ Go(h, "revoking")
    /\ UNCHANGED <<week, member, invitations, signedIn, late>>

(* With resetPassword the sessions are revoked before the update. *)
RevokeFirst(h) ==
    /\ At(h, "ready") /\ Exists
    /\ signedIn' = FALSE
    /\ UNCHANGED <<week, member, roleRows, invitations, work, granted, unsure, late>>

(* PATCH with a status, and DELETE.  "locked" stands for "invited" too. *)
SetStatus(h) ==
    /\ At(h, "ready") /\ Exists
    /\ \E status \in {Active, Suspended, "locked"} :
          /\ member' = [member EXCEPT !.status = status]
          /\ Go(h, IF status = Suspended THEN "revoking" ELSE "ready")
    /\ UNCHANGED <<week, roleRows, invitations, signedIn, granted, unsure, late>>

(* POST decide of a recertification: "revoke" puts the member out, the     *)
(* other decisions leave the user alone.                                   *)
Decide(h) ==
    /\ At(h, "ready") /\ Exists
    /\ Go(h, "suspending")
    /\ UNCHANGED <<week, member, roleRows, invitations, signedIn, granted, unsure, late>>

Suspend(h) ==
    /\ At(h, "suspending")
    /\ member' = [member EXCEPT !.status = Suspended]
    /\ Go(h, "revoking")
    /\ UNCHANGED <<week, roleRows, invitations, signedIn, granted, unsure, late>>

SessionsLeft(open) == FALSE

RevokeOpen(h) ==
    /\ At(h, "revoking")
    /\ signedIn' = SessionsLeft(signedIn)
    /\ Return(h)
    /\ UNCHANGED <<week, member, roleRows, invitations, granted, unsure, late>>

(* The process stops, or a statement fails. *)
StopHandler(h) ==
    /\ ~At(h, "ready")
    /\ Return(h)
    /\ unsure' = (unsure \/ work[h].pc \in {"created", "joined"})
    /\ late' = (late \/ work[h].pc \in {"suspending", "revoking"})
    /\ UNCHANGED <<week, member, roleRows, invitations, signedIn, granted>>

WeeksPass ==
    /\ \E n \in Pauses : week + n <= LastWeek /\ week' = week + n
    /\ UNCHANGED <<member, roleRows, invitations, work, signedIn, granted, unsure, late>>

MembershipNext ==
    \/ WeeksPass
    \/ \E h \in Handlers :
          \/ CheckInvitation(h) \/ CreateInvitation(h) \/ ReadInvitation(h) \/ Accept(h)
          \/ CheckUser(h) \/ SignOn(h) \/ InsertUser(h) \/ InsertRole(h) \/ RolesInserted(h)
          \/ Enter(h) \/ ReplaceRoles(h) \/ RevokeFirst(h) \/ SetStatus(h)
          \/ Decide(h) \/ Suspend(h) \/ RevokeOpen(h) \/ StopHandler(h)

MembershipSpec == MembershipInit /\ [][MembershipNext]_memberVars

-----------------------------------------------------------------------------
MembershipTypeOK ==
    /\ week \in 0 .. LastWeek
    /\ member \in [status : {"none", Active, Suspended, "locked"}, by : 0 .. MaxInvitations]
    /\ roleRows \subseteq UNION Grants
    /\ \A n \in DOMAIN invitations :
          invitations[n] \in [status : {"pending", "accepted"}, made : 0 .. LastWeek,
                              accepted : 0 .. LastWeek, roles : Grants]
    /\ signedIn \in BOOLEAN

(* An invitation that counts as accepted has made the member, so no two    *)
(* are accepted for one address, and it was accepted before it expired.    *)
AcceptedOnce ==
    \A n \in DOMAIN invitations : invitations[n].status = "accepted" =>
        member.by = n /\ invitations[n].accepted < Expires(n)

(* Once nobody is inserting roles, the member has exactly the roles last   *)
(* decided on, unless an insertion was cut short, refused, or crossed by a *)
(* replacement.                                                            *)
RolesAreAsDecided ==
    (\A h \in Handlers : work[h].pc \notin {"created", "joined"}) /\ ~unsure
        => roleRows = granted

(* A suspended member has no open session once the handler that suspended  *)
(* it is done, except one that signed on over a row read before, or when   *)
(* that handler stopped half-way.                                          *)
SuspendedIsSignedOut ==
    member.status = Suspended /\ signedIn =>
        late \/ \E h \in Handlers : At(h, "revoking")

MembershipInv == MembershipTypeOK /\ AcceptedOnce /\ RolesAreAsDecided /\ SuspendedIsSignedOut

(* invitations/route.ts:81: a token is "valid for 7 days": nobody becomes  *)
(* a member by an invitation older than a week.                            *)
AcceptedInAWeek ==
    \A n \in DOMAIN invitations : invitations[n].status = "accepted" =>
        invitations[n].accepted <= invitations[n].made + 1
===============================================================================
