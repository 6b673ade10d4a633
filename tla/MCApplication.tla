---------------------------- MODULE MCApplication ----------------------------
(***************************************************************************)
(* Instance for TLC of the application: sign-in, membership, sessions,     *)
(* rate limits, access policies, the licence; the governance, versions,    *)
(* classification and shares of a document, its folder and its record      *)
(* folder; and the verification of the audit chain.  Each is about rows of *)
(* its own, so a behaviour belongs to one of them: `part` says to which,   *)
(* and the others keep their initial state.                                *)
(***************************************************************************)
EXTENDS AuditVerification, SignIn, Membership, SessionRevocation, RateLimiter,
        PolicyEngine, LicenceGate, DocumentGovernance, DocumentVersions,
        DocumentEditing, FolderTree, Shares, RecordFolders, TLC

CONSTANTS Parts, r1, r2, t1, none, p1, p2, hold1, hold2

VARIABLE part

MCRequests    == {r1, r2}
MCTenants     == {t1}
MCKnownActors == {"user"}
MCNone        == none
MCOfficers    == 1 .. 3

(* Dates are what the break-glass, invitation and dual-control routes pass. *)
DatedInputs == [caller : {"api"}, tenantId : MCTenants, actorId : {"user"},
                metadata : {"plain", "dated"}]

(* The roles an invitation may grant, and what it grants by default. *)
MCGrants == {{"end_user"}, {"auditor", "end_user"}}

(* Tables of policies: a ban on downloads of what is on hold, at its        *)
(* priority a pass for the owner; and the two over a ban on documents with  *)
(* a pass in office hours.                                                 *)
All           == [type |-> "*", name |-> "*"]
Documents     == [type |-> "document", name |-> "*"]
Downloads     == [type |-> "document", name |-> "download"]
OneDocument   == [type |-> "document", name |-> "d"]

Rule(effect, priority, action, resource, conditions) ==
    [effect |-> effect, priority |-> priority, action |-> action,
     resource |-> resource, conditions |-> conditions]

Ban     == Rule("deny", 1, Documents, All, {})
HoldBan == Rule("deny", 2, Downloads, Documents, {"legalHold"})

OwnerPass == Rule("allow", 2, Downloads, OneDocument, {"ownerOnly"})

MCTables ==
    { {HoldBan, OwnerPass},
      {HoldBan, OwnerPass, Ban, Rule("allow", 1, All, All, {"timeOfDay"})} }

MCSituations ==
    { [context |-> {"timeOfDay"}, document |-> {"legalHold"}],
      [context |-> {}, document |-> {"legalHold", "ownerOnly"}] }

(* Officers differ in nothing but what they are asked to do, so they are   *)
(* numbered as they begin.                                                 *)
InOrder == \A r \in MCOfficers \ {1} : officer[r].pc # "idle" => officer[r - 1].pc # "idle"

(* Every part has its invocations p1 and p2, which differ in nothing; so do *)
(* the holds.                                                              *)
Interchangeable == Permutations({p1, p2}) \cup Permutations({hold1, hold2})

applicationVars ==
    <<part, verificationVars, signInVars, memberVars, sesVars, limiterVars,
      policyVars, licVars, governanceVars, versionVars, editVars, treeVars,
      shareVars, folderVars>>

ApplicationInit ==
    /\ part \in Parts
    /\ VerificationInit /\ SignInInit /\ MembershipInit /\ SesInit /\ LimiterInit
    /\ PolicyInit /\ LicInit /\ GovernanceInit /\ VersionInit /\ EditInit
    /\ TreeInit /\ ShareInit /\ FolderInit
    /\ part # "sign-in" => account = NoUser
    /\ part # "limiter" => redisUp
    /\ part # "policies" => Ban \in policies /\ situation.context = {}
    /\ part # "licence" => machine = "m1" /\ lic = NoLicence
    /\ part # "editing" => firstLevel = 0
    /\ part # "tree" => unborn = {} /\ parent = [f \in Folders |-> Root]

(* Only the part's own actions. *)
Verifying ==
    /\ part = "audit" /\ VerificationNext
    /\ UNCHANGED <<part, signInVars, memberVars, sesVars, limiterVars, policyVars,
                   licVars, governanceVars, versionVars, editVars, treeVars,
                   shareVars, folderVars>>

SigningIn ==
    /\ part = "sign-in" /\ SignInNext
    /\ UNCHANGED <<part, verificationVars, memberVars, sesVars, limiterVars,
                   policyVars, licVars, governanceVars, versionVars, editVars,
                   treeVars, shareVars, folderVars>>

Admitting ==
    /\ part = "members" /\ MembershipNext
    /\ UNCHANGED <<part, verificationVars, signInVars, sesVars, limiterVars,
                   policyVars, licVars, governanceVars, versionVars, editVars,
                   treeVars, shareVars, folderVars>>

Revoking ==
    /\ part = "sessions" /\ SesNext
    /\ UNCHANGED <<part, verificationVars, signInVars, memberVars, limiterVars,
                   policyVars, licVars, governanceVars, versionVars, editVars,
                   treeVars, shareVars, folderVars>>

Limiting ==
    /\ part = "limiter" /\ LimiterNext
    /\ UNCHANGED <<part, verificationVars, signInVars, memberVars, sesVars,
                   policyVars, licVars, governanceVars, versionVars, editVars,
                   treeVars, shareVars, folderVars>>

Ruling ==
    /\ part = "policies" /\ PolicyNext
    /\ UNCHANGED <<part, verificationVars, signInVars, memberVars, sesVars,
                   limiterVars, licVars, governanceVars, versionVars,
                   editVars, treeVars, shareVars, folderVars>>

Licensing ==
    /\ part = "licence" /\ LicNext
    /\ UNCHANGED <<part, verificationVars, signInVars, memberVars, sesVars,
                   limiterVars, policyVars, governanceVars, versionVars,
                   editVars, treeVars, shareVars, folderVars>>

Governing ==
    /\ part = "governance" /\ GovernanceNext /\ InOrder'
    /\ UNCHANGED <<part, verificationVars, signInVars, memberVars, sesVars,
                   limiterVars, policyVars, licVars, versionVars, editVars,
                   treeVars, shareVars, folderVars>>

Versioning ==
    /\ part = "versions" /\ VersionNext
    /\ UNCHANGED <<part, verificationVars, signInVars, memberVars, sesVars,
                   limiterVars, policyVars, licVars, governanceVars, editVars,
                   treeVars, shareVars, folderVars>>

Editing ==
    /\ part = "editing" /\ EditNext
    /\ UNCHANGED <<part, verificationVars, signInVars, memberVars, sesVars,
                   limiterVars, policyVars, licVars, governanceVars,
                   versionVars, treeVars, shareVars, folderVars>>

Arranging ==
    /\ part = "tree" /\ TreeNext
    /\ UNCHANGED <<part, verificationVars, signInVars, memberVars, sesVars,
                   limiterVars, policyVars, licVars, governanceVars,
                   versionVars, editVars, shareVars, folderVars>>

Sharing ==
    /\ part = "shares" /\ ShareNext
    /\ UNCHANGED <<part, verificationVars, signInVars, memberVars, sesVars,
                   limiterVars, policyVars, licVars, governanceVars,
                   versionVars, editVars, treeVars, folderVars>>

Filing ==
    /\ part = "folders" /\ FolderNext
    /\ UNCHANGED <<part, verificationVars, signInVars, memberVars, sesVars,
                   limiterVars, policyVars, licVars, governanceVars,
                   versionVars, editVars, treeVars, shareVars>>

ApplicationNext ==
    \/ Verifying \/ SigningIn \/ Admitting \/ Revoking \/ Limiting \/ Ruling
    \/ Licensing \/ Governing \/ Versioning \/ Editing \/ Arranging \/ Sharing
    \/ Filing

ApplicationSpec == ApplicationInit /\ [][ApplicationNext]_applicationVars
===============================================================================
