----------------------------- MODULE MCServices -----------------------------
(***************************************************************************)
(* Instance for TLC of what serves the application from beside it: the     *)
(* search indexes of a document, the passkeys of a user with the store of  *)
(* their challenges, the licence of a desktop with the vendor's registry,  *)
(* the delivery of events to webhooks, and the keys of documents.  A       *)
(* behaviour belongs to one of them: `part` says to which.                 *)
(***************************************************************************)
EXTENDS SearchIndex, Passkeys, DesktopLicence, WebhookDelivery,
        DocumentKeys, TLC

CONSTANTS Parts, p1, p2, i1, i2, d1, d2

VARIABLE part

Interchangeable == Permutations({p1, p2}) \cup Permutations({i1, i2})

(* Documents differ in nothing but when they are stored. *)
InTurn == contents[d2] # NoBytes => contents[d1] # NoBytes

(* An address knows of requests only what they leave behind. *)
AddressesAlone == url # NoUrl => \A t \in Requests : Rest(t)

servicesVars == <<part, searchVars, passkeyVars, desktopVars, hookVars, keyVars>>

ServicesInit ==
    /\ part \in Parts
    /\ SearchInit /\ PasskeyInit /\ DesktopInit /\ WebhookInit /\ KeyInit
    /\ part # "search" => queued
    /\ part # "passkeys" => redisUp /\ counters[0] = 0
    /\ licenceRow.there
    /\ part # "webhooks" => hook = [h \in Hooks |-> "enabled"]
    /\ part # "keys" => driver = "local"

Searching ==
    /\ part = "search" /\ SearchNext
    /\ UNCHANGED <<part, passkeyVars, desktopVars, hookVars, keyVars>>

Authenticating ==
    /\ part = "passkeys" /\ PasskeyNext
    /\ UNCHANGED <<part, searchVars, desktopVars, hookVars, keyVars>>

RunningDesktop ==
    /\ part = "desktop" /\ DesktopNext
    /\ UNCHANGED <<part, searchVars, passkeyVars, hookVars, keyVars>>

Notifying ==
    /\ part = "webhooks" /\ WebhookNext
    /\ UNCHANGED <<part, searchVars, passkeyVars, desktopVars, keyVars>>

KeepingKeys ==
    /\ part = "keys" /\ KeyNext /\ InTurn' /\ AddressesAlone'
    /\ UNCHANGED <<part, searchVars, passkeyVars, desktopVars, hookVars>>

ServicesNext ==
    Searching \/ Authenticating \/ RunningDesktop \/ Notifying \/ KeepingKeys

ServicesSpec == ServicesInit /\ [][ServicesNext]_servicesVars
=============================================================================
