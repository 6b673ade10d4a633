-------------------------------- MODULE Shares --------------------------------
(***************************************************************************)
(* One share link of one document: its creation (api/documents/[id]/share), *)
(* the public page behind its token (api/shares/[token]), its revocation   *)
(* (share/[sid]), and the document being deleted or closed to sharing.     *)
(*                                                                         *)
(* A visitor is checked against the row as it was read; only the counter   *)
(* of views is compared again, in the database, after the password.        *)
(***************************************************************************)
EXTENDS Naturals, FiniteSets

CONSTANTS
    Visitors,       \* concurrent requests
    ViewLimits,     \* values of maxViews; Unlimited for none
    MaxTries,       \* visits of one token that the rate limiter lets through
    MaxVisits       \* bound: visits there are in all

ASSUME ShareBounds ==
    ViewLimits \subseteq Nat /\ {MaxTries, MaxVisits} \subseteq Nat /\ IsFiniteSet(Visitors)

Unlimited == 0

VARIABLES
    shared,         \* the row of Share
    open,           \* the document: there, and may be shared
    visit,          \* the visitors
    visits,         \* how many visits there were
    tries,          \* entries of the token in the rate limiter's window
    urls,           \* download addresses handed out
    lastSeen        \* history: visitors under way when the link was closed

shareVars == <<shared, open, visit, visits, tries, urls, lastSeen>>

NoShare == [made |-> FALSE, revoked |-> FALSE, expired |-> FALSE, views |-> 0,
            limit |-> Unlimited]

ShareInit ==
    /\ shared = NoShare
    /\ open = [there |-> TRUE, sharing |-> TRUE, version |-> TRUE]
    /\ visit = [v \in Visitors |-> "away"]
    /\ visits = 0
    /\ tries = 0
    /\ urls = 0
    /\ lastSeen = {}

Visiting == {v \in Visitors : visit[v] \in {"admitted", "counted"}}

-----------------------------------------------------------------------------
(* POST share reads the document, checks it, the policies and the tenant's *)
(* rules, hashes the password, and inserts: two steps of the creator.      *)
CheckShare(v) ==
    /\ visit[v] = "away" /\ ~shared.made
    /\ open.there /\ open.sharing
    /\ visit' = [visit EXCEPT ![v] = "sharing"]
    /\ UNCHANGED <<shared, open, visits, tries, urls, lastSeen>>

InsertShare(v) ==
    /\ visit[v] = "sharing" /\ ~shared.made
    /\ \E limit \in ViewLimits :
          shared' = [NoShare EXCEPT !.made = TRUE, !.limit = limit]
    /\ visit' = [visit EXCEPT ![v] = "away"]
    /\ UNCHANGED <<open, visits, tries, urls, lastSeen>>

-----------------------------------------------------------------------------
Arrives(v) == shared.made /\ visit[v] = "away" /\ visits < MaxVisits

(* Too many visits of one token close the link for good. *)
TooMany(v) ==
    /\ Arrives(v) /\ tries >= MaxTries
    /\ shared' = [shared EXCEPT !.revoked = TRUE]
    /\ lastSeen' = IF shared.revoked THEN lastSeen ELSE Visiting
    /\ visits' = visits + 1
    /\ UNCHANGED <<open, visit, tries, urls>>

(* The definition after it, for a page that does not ask whether the link  *)
(* was revoked.                                                            *)
LiveBug == ~shared.expired /\ open.there

Live == ~shared.revoked /\ ~shared.expired /\ open.there

(* The row and the document are read, and the password verified. *)
Visit(v) ==
    /\ Arrives(v) /\ tries < MaxTries
    /\ tries' = tries + 1
    /\ visits' = visits + 1
    /\ \E right \in BOOLEAN :
          visit' = [visit EXCEPT ![v] = IF Live /\ right THEN "admitted" ELSE "away"]
    /\ UNCHANGED <<shared, open, urls, lastSeen>>

(* updateMany counts and compares in one statement. *)
ViewLeft == shared.limit = Unlimited \/ shared.views < shared.limit

CountView(v) ==
    /\ visit[v] = "admitted"
    /\ IF ViewLeft
       THEN /\ shared' = [shared EXCEPT !.views = @ + 1]
            /\ visit' = [visit EXCEPT ![v] = "counted"]
       ELSE visit' = [visit EXCEPT ![v] = "away"] /\ UNCHANGED shared
    /\ UNCHANGED <<open, visits, tries, urls, lastSeen>>

(* The address of the version that was read, if there was one; or the      *)
(* request ends here, its view counted.                                    *)
HandOut(v) ==
    /\ visit[v] = "counted"
    /\ visit' = [visit EXCEPT ![v] = "away"]
    /\ urls' \in IF open.version THEN {urls, urls + 1} ELSE {urls}
    /\ UNCHANGED <<shared, open, visits, tries, lastSeen>>

-----------------------------------------------------------------------------
(* DELETE share/[sid]. *)
Revoke ==
    /\ shared.made /\ ~shared.revoked
    /\ shared' = [shared EXCEPT !.revoked = TRUE]
    /\ lastSeen' = Visiting
    /\ UNCHANGED <<open, visit, visits, tries, urls>>

Expire ==
    /\ shared.made /\ ~shared.expired
    /\ shared' = [shared EXCEPT !.expired = TRUE]
    /\ UNCHANGED <<open, visit, visits, tries, urls, lastSeen>>

(* An entry leaves the limiter's window. *)
TryForgotten ==
    /\ tries > 0 /\ tries' = tries - 1
    /\ UNCHANGED <<shared, open, visit, visits, urls, lastSeen>>

(* The document is deleted, closed to sharing, or loses its only version. *)
DocumentChanges ==
    /\ \E field \in {"there", "sharing", "version"} :
          open[field] /\ open' = [open EXCEPT ![field] = FALSE]
    /\ UNCHANGED <<shared, visit, visits, tries, urls, lastSeen>>

ShareNext ==
    \/ \E v \in Visitors :
          \/ CheckShare(v) \/ InsertShare(v) \/ TooMany(v) \/ Visit(v)
          \/ CountView(v) \/ HandOut(v)
    \/ Revoke \/ Expire \/ TryForgotten \/ DocumentChanges

ShareSpec == ShareInit /\ [][ShareNext]_shareVars

-----------------------------------------------------------------------------
ShareTypeOK ==
    /\ shared \in [made : BOOLEAN, revoked : BOOLEAN, expired : BOOLEAN,
                   views : 0 .. MaxVisits, limit : ViewLimits \cup {Unlimited}]
    /\ visit \in [Visitors -> {"away", "sharing", "admitted", "counted"}]
    /\ tries \in 0 .. MaxTries /\ visits \in 0 .. MaxVisits

(* However visits overlap, no more are let in than maxViews says, and each *)
(* address handed out has used up a view.                                  *)
ViewsAreLimited ==
    /\ shared.limit # Unlimited => shared.views <= shared.limit
    /\ urls + Cardinality({v \in Visitors : visit[v] = "counted"}) <= shared.views

(* After a link is revoked, by its owner or by too many visits, only       *)
(* visitors who were already past the checks still get in.                 *)
RevokedIsClosed == shared.revoked => Visiting \subseteq lastSeen

ShareInv == ShareTypeOK /\ ViewsAreLimited /\ RevokedIsClosed
===============================================================================
