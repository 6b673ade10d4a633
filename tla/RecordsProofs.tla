--------------------------- MODULE RecordsProofs ----------------------------
(*************************************************************************)
(* Record folders and shares.                                            *)
(*************************************************************************)
EXTENDS Shares, RecordFolders, FiniteSetTheorems, TLAPS

-----------------------------------------------------------------------------
(*************************************************************************)
(* The safety properties of Shares, for any visitors and any limits.     *)
(*                                                                       *)
(* The limit holds because the counter is compared and moved in one      *)
(* statement; that each address has used up a view needs the number of   *)
(* visitors between the two, and that a counter stays small the number of *)
(* those before the first.                                               *)
(*************************************************************************)

Stages == {"away", "sharing", "admitted", "counted"}

Count(stage) == Cardinality({v \in Visitors : visit[v] = stage})

(* Every view is one of a visit that has passed the checks. *)
ViewsAreOfVisits == shared.views + Count("admitted") <= visits

(* Before there is a link nobody is under way. *)
NothingBeforeTheLink == ~shared.made => shared.views = 0 /\ Visiting = {}

ShareChecks == ShareInv /\ urls \in Nat /\ ViewsAreOfVisits /\ NothingBeforeTheLink

LEMMA CountIsNat ==
    ASSUME NEW stage PROVE Count(stage) \in Nat
  <1>1. IsFiniteSet({v \in Visitors : visit[v] = stage})
    BY FS_Subset, ShareBounds
  <1> QED
    BY <1>1, FS_CardinalityType DEF Count

(* One visitor changes stage. *)
Moves(v, from, to) ==
    /\ from \in Stages /\ to \in Stages /\ from # to
    /\ visit[v] = from /\ visit' = [visit EXCEPT ![v] = to]

LEMMA CountsMove ==
    ASSUME visit \in [Visitors -> Stages], NEW v \in Visitors, NEW from, NEW to,
           Moves(v, from, to)
    PROVE  /\ Count(to)' = Count(to) + 1
           /\ Count(from)' = Count(from) - 1 /\ Count(from)' \in Nat
           /\ \A other \in Stages \ {from, to} : Count(other)' = Count(other)
  <1> DEFINE In(s) == {w \in Visitors : visit[w] = s}
             Now(s) == {w \in Visitors : visit'[w] = s}
  <1>1. \A s : IsFiniteSet(In(s)) /\ IsFiniteSet(Now(s))
    BY FS_Subset, ShareBounds
  <1>2. Now(to) = In(to) \cup {v} /\ v \notin In(to)
    BY DEF Moves
  <1>3. Now(from) = In(from) \ {v} /\ v \in In(from)
    BY DEF Moves
  <1>4. \A s \in Stages \ {from, to} : Now(s) = In(s)
    BY DEF Moves
  <1>5. \A s : Count(s) = Cardinality(In(s)) /\ Count(s)' = Cardinality(Now(s))
    BY DEF Count
  <1> HIDE DEF In, Now
  <1>6. Cardinality(Now(to)) = Cardinality(In(to)) + 1
    BY <1>1, <1>2, FS_AddElement
  <1>7. Cardinality(Now(from)) = Cardinality(In(from)) - 1
    BY <1>1, <1>3, FS_RemoveElement
  <1>8. Cardinality(Now(from)) \in Nat
    BY <1>1, FS_CardinalityType
  <1> QED
    BY <1>4, <1>5, <1>6, <1>7, <1>8

LEMMA SharesStart == ShareInit => ShareChecks
  <1> SUFFICES ASSUME ShareInit PROVE ShareChecks
    OBVIOUS
  <1>1. \A v \in Visitors : visit[v] = "away"
    BY DEF ShareInit
  <1>2. {v \in Visitors : visit[v] = "admitted"} = {}
        /\ {v \in Visitors : visit[v] = "counted"} = {}
    BY <1>1
  <1>3. Count("admitted") = 0 /\ Count("counted") = 0 /\ Visiting = {}
    BY <1>1, <1>2, FS_EmptySet DEF Count, Visiting
  <1>4. /\ shared.views = 0 /\ shared.limit = Unlimited /\ shared.revoked = FALSE
        /\ urls = 0 /\ visits = 0
    BY DEF ShareInit, NoShare
  <1>5. ShareTypeOK
    BY ShareBounds DEF ShareInit, NoShare, ShareTypeOK
  <1>6. ViewsAreLimited /\ RevokedIsClosed /\ ViewsAreOfVisits /\ NothingBeforeTheLink
    BY <1>3, <1>4
    DEF ViewsAreLimited, RevokedIsClosed, ViewsAreOfVisits, NothingBeforeTheLink, Count
  <1> QED
    BY <1>4, <1>5, <1>6 DEF ShareChecks, ShareInv

(* What a step preserves that moves no visitor. *)
LEMMA NobodyMoves ==
    ASSUME ShareChecks, visit' = visit,
           shared' \in [made : BOOLEAN, revoked : BOOLEAN, expired : BOOLEAN,
                        views : {shared.views}, limit : {shared.limit}],
           shared'.made = shared.made,
           visits' \in 0 .. MaxVisits, visits <= visits', tries' \in 0 .. MaxTries,
           urls' = urls, shared'.revoked => Visiting \subseteq lastSeen'
    PROVE  ShareChecks'
  <1>1. Visiting' = Visiting /\ \A s : Count(s)' = Count(s)
    BY DEF Visiting, Count
  <1>2. Count("admitted") \in Nat
    BY CountIsNat
  <1>3. ShareTypeOK'
    BY DEF ShareChecks, ShareInv, ShareTypeOK
  <1>4. ViewsAreLimited' /\ RevokedIsClosed' /\ NothingBeforeTheLink'
    BY <1>1 DEF ShareChecks, ShareInv, ViewsAreLimited, RevokedIsClosed,
                NothingBeforeTheLink, Count
  <1>5. ViewsAreOfVisits'
    BY <1>1, <1>2 DEF ShareChecks, ShareInv, ShareTypeOK, ViewsAreOfVisits
  <1> QED
    BY <1>3, <1>4, <1>5 DEF ShareChecks, ShareInv

LEMMA LinkPreserves ==
    ASSUME ShareChecks,
           \/ \E v \in Visitors : TooMany(v)
           \/ Revoke \/ Expire \/ TryForgotten \/ DocumentChanges
           \/ UNCHANGED shareVars
    PROVE  ShareChecks'
  <1>1. /\ ShareTypeOK /\ urls \in Nat /\ RevokedIsClosed
        /\ MaxVisits \in Nat /\ MaxTries \in Nat /\ visits \in Nat /\ tries \in Nat
    BY ShareBounds DEF ShareChecks, ShareInv, ShareTypeOK
  <1>2. visit' = visit /\ urls' = urls
    BY DEF TooMany, Revoke, Expire, TryForgotten, DocumentChanges, shareVars
  <1>3. /\ shared' \in [made : BOOLEAN, revoked : BOOLEAN, expired : BOOLEAN,
                         views : {shared.views}, limit : {shared.limit}]
        /\ shared'.made = shared.made
    BY <1>1 DEF ShareTypeOK, TooMany, Revoke, Expire, TryForgotten, DocumentChanges, shareVars
  <1>4. visits' \in 0 .. MaxVisits /\ visits <= visits' /\ tries' \in 0 .. MaxTries
    BY <1>1 DEF ShareTypeOK, TooMany, Arrives, Revoke, Expire, TryForgotten,
                DocumentChanges, shareVars
  <1>5. shared'.revoked => Visiting \subseteq lastSeen'
    BY <1>1 DEF ShareTypeOK, RevokedIsClosed, TooMany, Revoke, Expire, TryForgotten,
                DocumentChanges, shareVars
  <1> QED
    BY <1>1, <1>2, <1>3, <1>4, <1>5, NobodyMoves
(* What every state of the invariant gives the steps of visitors. *)
LEMMA ShareFacts ==
    ASSUME ShareChecks
    PROVE  /\ visit \in [Visitors -> Stages] /\ shared.views \in 0 .. MaxVisits
           /\ shared.limit \in Nat /\ visits \in 0 .. MaxVisits /\ tries \in 0 .. MaxTries
           /\ urls \in Nat /\ MaxVisits \in Nat /\ MaxTries \in Nat
           /\ Count("admitted") \in Nat /\ Count("counted") \in Nat
           /\ shared.views + Count("admitted") <= visits
           /\ urls + Count("counted") <= shared.views
           /\ shared.limit # Unlimited => shared.views <= shared.limit
  <1>1. Count("admitted") \in Nat /\ Count("counted") \in Nat
    BY CountIsNat
  <1>2. visit \in [Visitors -> Stages]
    BY DEF ShareChecks, ShareInv, ShareTypeOK, Stages
  <1>3. ViewLimits \cup {Unlimited} \subseteq Nat /\ MaxVisits \in Nat /\ MaxTries \in Nat
    BY ShareBounds DEF Unlimited
  <1>4. shared.limit \in ViewLimits \cup {Unlimited}
    BY DEF ShareChecks, ShareInv, ShareTypeOK
  <1>5. /\ shared.views \in 0 .. MaxVisits
        /\ visits \in 0 .. MaxVisits /\ tries \in 0 .. MaxTries
    BY DEF ShareChecks, ShareInv, ShareTypeOK
  <1> QED
    BY <1>1, <1>2, <1>3, <1>4, <1>5
    DEF ShareChecks, ShareInv, ViewsAreLimited, ViewsAreOfVisits, Count

(* The creator's two steps. *)
LEMMA CreationPreserves ==
    ASSUME ShareChecks, NEW v \in Visitors, CheckShare(v) \/ InsertShare(v)
    PROVE  ShareChecks'
  <1>1. PICK from \in {"away", "sharing"}, to \in {"away", "sharing"} :
          visit[v] = from /\ from # to /\ visit' = [visit EXCEPT ![v] = to]
    BY DEF CheckShare, InsertShare
  <1>2. Count("admitted")' = Count("admitted") /\ Count("counted")' = Count("counted")
    <2>1. Moves(v, from, to)
      BY <1>1 DEF Moves, Stages
    <2> QED
      BY <1>1, <2>1, ShareFacts, CountsMove DEF Stages
  <1>3. /\ ~shared.made /\ shared.views = 0 /\ Visiting = {}
        /\ UNCHANGED <<visits, tries, urls, lastSeen>>
    BY DEF CheckShare, InsertShare, ShareChecks, NothingBeforeTheLink
  <1>4. Visiting' = Visiting
    BY <1>1, ShareFacts DEF Visiting
  <1>5. /\ shared' \in [made : BOOLEAN, revoked : BOOLEAN, expired : BOOLEAN,
                         views : {0}, limit : ViewLimits \cup {Unlimited}]
    BY <1>3 DEF CheckShare, InsertShare, NoShare, ShareChecks, ShareInv, ShareTypeOK
  <1>6. shared'.limit \in Nat /\ shared'.views = 0
    <2>1. ViewLimits \cup {Unlimited} \subseteq Nat
      BY ShareBounds DEF Unlimited
    <2> QED
      BY <1>5, <2>1
  <1>7. ShareTypeOK'
    BY <1>1, <1>3, <1>5, ShareFacts DEF ShareTypeOK, Stages
  <1>8. ViewsAreLimited' /\ ViewsAreOfVisits' /\ NothingBeforeTheLink' /\ RevokedIsClosed'
    BY <1>2, <1>3, <1>4, <1>6, ShareFacts
    DEF ViewsAreLimited, ViewsAreOfVisits, NothingBeforeTheLink, RevokedIsClosed, Count
  <1> QED
    BY <1>3, <1>7, <1>8 DEF ShareChecks, ShareInv

(* A visitor who is checked and let in, or not. *)
LEMMA VisitPreserves ==
    ASSUME ShareChecks, NEW v \in Visitors, Visit(v) PROVE ShareChecks'
  <1>1. /\ shared.made /\ visit[v] = "away" /\ visits' = visits + 1 /\ visits < MaxVisits
        /\ tries' = tries + 1 /\ tries < MaxTries /\ UNCHANGED <<shared, urls, lastSeen>>
    BY DEF Visit, Arrives
  <1>2. CASE ~shared.revoked /\ visit' = [visit EXCEPT ![v] = "admitted"]
    <2>1. Count("admitted")' = Count("admitted") + 1 /\ Count("counted")' = Count("counted")
      <3>1. Moves(v, "away", "admitted")
        BY <1>1, <1>2 DEF Moves, Stages
      <3> QED
        BY <3>1, ShareFacts, CountsMove DEF Stages
    <2>2. ShareTypeOK'
      BY <1>1, <1>2, ShareFacts DEF ShareChecks, ShareInv, ShareTypeOK, Stages
    <2>3. ViewsAreLimited' /\ ViewsAreOfVisits'
      <3>1. /\ shared'.limit # Unlimited => shared'.views <= shared'.limit
            /\ urls' + Count("counted")' <= shared'.views
            /\ shared'.views + Count("admitted")' <= visits'
        BY <1>1, <2>1, ShareFacts
      <3> QED
        BY <3>1 DEF ViewsAreLimited, ViewsAreOfVisits, Count
    <2> QED
      BY <1>1, <1>2, <2>2, <2>3
      DEF ShareChecks, ShareInv, NothingBeforeTheLink, RevokedIsClosed
  <1>3. CASE visit' = visit
    <2>1. Visiting' = Visiting /\ \A s : Count(s)' = Count(s)
      BY <1>3 DEF Visiting, Count
    <2>2. ShareTypeOK'
      BY <1>1, <1>3, ShareFacts DEF ShareChecks, ShareInv, ShareTypeOK, Stages
    <2>3. ViewsAreLimited' /\ ViewsAreOfVisits'
      <3>1. /\ shared'.limit # Unlimited => shared'.views <= shared'.limit
            /\ urls' + Count("counted")' <= shared'.views
            /\ shared'.views + Count("admitted")' <= visits'
        BY <1>1, <2>1, ShareFacts
      <3> QED
        BY <3>1 DEF ViewsAreLimited, ViewsAreOfVisits, Count
    <2> QED
      BY <1>1, <2>1, <2>2, <2>3
      DEF ShareChecks, ShareInv, NothingBeforeTheLink, RevokedIsClosed
  <1>4. \/ ~shared.revoked /\ visit' = [visit EXCEPT ![v] = "admitted"]
        \/ visit' = visit
    BY ShareFacts, <1>1 DEF Visit, Live
  <1> QED
    BY <1>2, <1>3, <1>4

(* A visitor who is past the checks is counted, refused, or served. *)
LEMMA EntryPreserves ==
    ASSUME ShareChecks, NEW v \in Visitors, CountView(v) \/ HandOut(v)
    PROVE  ShareChecks'
  <1>1. /\ visit[v] \in {"admitted", "counted"} /\ shared.made
        /\ UNCHANGED <<visits, tries, lastSeen>>
    BY DEF CountView, HandOut, ShareChecks, NothingBeforeTheLink, Visiting
  <1>2. CASE CountView(v) /\ ViewLeft
    <2>1. /\ visit[v] = "admitted" /\ visit' = [visit EXCEPT ![v] = "counted"]
          /\ shared' = [shared EXCEPT !.views = @ + 1] /\ urls' = urls
      BY <1>2 DEF CountView
    <2>2. /\ Count("admitted")' = Count("admitted") - 1 /\ Count("admitted")' \in Nat
          /\ Count("counted")' = Count("counted") + 1
      <3>1. Moves(v, "admitted", "counted")
        BY <2>1 DEF Moves, Stages
      <3> QED
        BY <3>1, ShareFacts, CountsMove
    <2>3. Count("admitted") >= 1
      BY <2>2, ShareFacts
    <2>4. shared.views + 1 <= MaxVisits
      BY <2>3, ShareFacts
    <2>5. /\ shared'.views = shared.views + 1 /\ shared'.limit = shared.limit
          /\ shared'.made = shared.made /\ shared'.revoked = shared.revoked
      BY <2>1 DEF ShareChecks, ShareInv, ShareTypeOK
    <2>6. ShareTypeOK'
      BY <1>1, <2>1, <2>4, ShareFacts DEF ShareChecks, ShareInv, ShareTypeOK, Stages
    <2>7. ViewsAreLimited' /\ ViewsAreOfVisits'
      BY <1>1, <1>2, <2>1, <2>2, <2>5, ShareFacts
      DEF ViewLeft, ViewsAreLimited, ViewsAreOfVisits, Count
    <2>8. Visiting' = Visiting
      BY <2>1, ShareFacts DEF Visiting
    <2> QED
      BY <1>1, <2>1, <2>5, <2>6, <2>7, <2>8
      DEF ShareChecks, ShareInv, NothingBeforeTheLink, RevokedIsClosed
  <1>3. CASE (CountView(v) /\ ~ViewLeft) \/ HandOut(v)
    <2>1. /\ shared' = shared /\ visit' = [visit EXCEPT ![v] = "away"]
          /\ \/ visit[v] = "admitted" /\ urls' = urls
             \/ visit[v] = "counted" /\ urls' \in {urls, urls + 1}
      BY <1>3 DEF CountView, HandOut
    <2>2. \/ /\ Count("admitted")' = Count("admitted") - 1
             /\ Count("counted")' = Count("counted") /\ urls' = urls
          \/ /\ Count("admitted")' = Count("admitted")
             /\ Count("counted")' = Count("counted") - 1 /\ urls' \in {urls, urls + 1}
      <3>1. Moves(v, visit[v], "away")
        BY <2>1 DEF Moves, Stages
      <3>2. CASE visit[v] = "admitted"
        BY <2>1, <3>1, <3>2, ShareFacts, CountsMove DEF Stages
      <3>3. CASE visit[v] = "counted"
        BY <2>1, <3>1, <3>3, ShareFacts, CountsMove DEF Stages
      <3> QED
        BY <2>1, <3>2, <3>3
    <2>3. ShareTypeOK'
      BY <1>1, <2>1, ShareFacts DEF ShareChecks, ShareInv, ShareTypeOK, Stages
    <2>4. ViewsAreLimited' /\ ViewsAreOfVisits' /\ urls' \in Nat
      BY <1>1, <2>1, <2>2, ShareFacts DEF ViewsAreLimited, ViewsAreOfVisits, Count
    <2>5. Visiting' \subseteq Visiting
      BY <2>1, ShareFacts DEF Visiting
    <2> QED
      BY <1>1, <2>1, <2>3, <2>4, <2>5
      DEF ShareChecks, ShareInv, NothingBeforeTheLink, RevokedIsClosed
  <1> QED
    BY <1>2, <1>3

LEMMA ShareStep == ShareChecks /\ [ShareNext]_shareVars => ShareChecks'
  BY LinkPreserves, CreationPreserves, VisitPreserves, EntryPreserves DEF ShareNext

(* For any visitors and limits: no more views than the link allows, no     *)
(* address without a view, nobody new after the link is closed.            *)
THEOREM ViewsAreCounted == ShareSpec => []ShareInv
  <1>1. ShareChecks => ShareInv
    BY DEF ShareChecks
  <1> QED
    BY <1>1, SharesStart, ShareStep, PTL DEF ShareSpec

-----------------------------------------------------------------------------
(*************************************************************************)
(* The safety properties of RecordFolders, for any number of clerks and of *)
(* edits.                                                                *)
(*                                                                       *)
(* Neither property speaks of what a clerk's check is worth once it is   *)
(* acted on, and that is what makes them hold: as long as nothing passed a *)
(* clerk, the rows are as they were at the check.                        *)
(*************************************************************************)

(* What a clerk whom no write of the folder passed still finds there: the  *)
(* status of the check, or no folder any more, nor will there be one.      *)
StatusIsCurrent ==
    \A c \in Clerks :
        /\ clerk[c].pc = "cutting" /\ "folder" \notin passed[c]
              => folder.status \in {"open", "none"}
        /\ clerk[c].pc = "disposing" /\ "folder" \notin passed[c]
              => folder.status \in {"cutoff", "none"}
        /\ Examined(c) /\ folder.status = "none" => ~category.there

(* The same for the hold on the category.                                  *)
HoldIsCurrent ==
    \A c \in Clerks :
        clerk[c].pc = "disposing" /\ "hold" \notin passed[c] => ~category.held

(* A folder that was disposed of stays so until its category takes it      *)
(* along; after which no folder is created again.                          *)
DisposedStays ==
    disposals # 0 /\ ~overwritten =>
        /\ folder.status \in {"disposed", "none"}
        /\ folder.status = "none" => ~category.there
        /\ disposals = 1

FolderChecks == FolderTypeOK /\ StatusIsCurrent /\ HoldIsCurrent /\ DisposedStays

LEMMA RecordFoldersStart == FolderInit => FolderChecks
  <1> SUFFICES ASSUME FolderInit PROVE FolderChecks
    OBVIOUS
  <1>1. FolderTypeOK
    BY DEF FolderInit, FolderTypeOK, NoFolder, Waiting
  <1>2. StatusIsCurrent /\ HoldIsCurrent /\ DisposedStays
    BY DEF FolderInit, StatusIsCurrent, HoldIsCurrent, DisposedStays, Examined, Waiting
  <1> QED
    BY <1>1, <1>2 DEF FolderChecks

LEMMA CreatePreserves ==
    ASSUME FolderChecks, CreateFolder PROVE FolderChecks'
  <1>1. /\ folder.status = "none" /\ category.there
        /\ folder' = [status |-> "open", method |-> "none"]
        /\ UNCHANGED <<category, disposals, clerk, passed, overwritten>>
    BY DEF CreateFolder, NoFolder
  <1>2. FolderTypeOK'
    BY <1>1 DEF FolderChecks, FolderTypeOK
  <1>3. HoldIsCurrent' /\ DisposedStays'
    BY <1>1 DEF FolderChecks, HoldIsCurrent, DisposedStays
  <1>4. StatusIsCurrent'
    BY <1>1 DEF FolderChecks, StatusIsCurrent, Examined
  <1> QED
    BY <1>2, <1>3, <1>4 DEF FolderChecks

(* A clerk begins after a check that the rows pass. *)
LEMMA BeginPreserves ==
    ASSUME FolderChecks, NEW c \in Clerks, BeginCutoff(c) \/ BeginDisposal(c)
    PROVE  FolderChecks'
  <1>1. PICK pc \in {"cutting", "disposing"}, m \in Methods \cup {"none"} :
          /\ clerk' = [clerk EXCEPT ![c] = [pc |-> pc, method |-> m]]
          /\ passed' = [passed EXCEPT ![c] = {}]
          /\ UNCHANGED <<category, folder, disposals, edits, overwritten>>
          /\ pc = "cutting" => folder.status = "open"
          /\ pc = "disposing" => folder.status = "cutoff" /\ ~category.held
    BY DEF BeginCutoff, BeginDisposal, BeginClerk, Disposable
  <1>2. FolderTypeOK'
    BY <1>1 DEF FolderChecks, FolderTypeOK
  <1>3. StatusIsCurrent' /\ HoldIsCurrent'
    BY <1>1 DEF FolderChecks, FolderTypeOK, StatusIsCurrent, HoldIsCurrent
  <1>4. DisposedStays'
    BY <1>1 DEF FolderChecks, DisposedStays
  <1> QED
    BY <1>2, <1>3, <1>4 DEF FolderChecks

(* The write of a clerk, whichever it is: it passes every other clerk. *)
LEMMA WritePreserves ==
    ASSUME FolderChecks, NEW c \in Clerks, CutOff(c) \/ Dispose(c)
    PROVE  FolderChecks'
  <1>1. clerk[c].pc \in {"cutting", "disposing"} /\ GoTo(c, "idle")
        /\ category' = category
    BY DEF CutOff, Dispose, WriteFolder
  <1>2. CASE folder.status = "none"
    <2>1. UNCHANGED <<category, folder, disposals, passed, overwritten>>
      BY <1>2 DEF CutOff, Dispose, WriteFolder
    <2> QED
      BY <1>1, <2>1
      DEF GoTo, Examined, FolderChecks, FolderTypeOK, StatusIsCurrent, HoldIsCurrent,
          DisposedStays
  <1>3. CASE folder.status # "none"
    <2>1. /\ folder' \in [status : {"cutoff", "disposed"}, method : Methods \cup {"none"}]
          /\ overwritten' = (overwritten \/ "folder" \in passed[c])
          /\ Pass("folder", Clerks \ {c})
          /\ \/ disposals' = disposals /\ clerk[c].pc = "cutting"
             \/ /\ disposals' = disposals + 1 /\ clerk[c].pc = "disposing"
                /\ folder'.status = "disposed"
      BY <1>3 DEF CutOff, Dispose, WriteFolder, FolderChecks, FolderTypeOK
    <2>2. FolderTypeOK'
      BY <1>1, <2>1 DEF GoTo, Pass, Examined, FolderChecks, FolderTypeOK
    <2>3. StatusIsCurrent' /\ HoldIsCurrent'
      BY <1>1, <2>1 DEF GoTo, Pass, Examined, FolderChecks, FolderTypeOK,
                        StatusIsCurrent, HoldIsCurrent
    <2>4. DisposedStays'
      <3>1. ~overwritten' => ~overwritten /\ folder.status \in {"open", "cutoff"}
        BY <1>1, <1>3, <2>1 DEF FolderChecks, StatusIsCurrent
      <3>2. ~overwritten' => disposals = 0
        BY <1>3, <3>1 DEF FolderChecks, DisposedStays
      <3> QED
        BY <2>1, <3>2 DEF DisposedStays
    <2> QED
      BY <2>2, <2>3, <2>4 DEF FolderChecks
  <1> QED
    BY <1>2, <1>3

LEMMA StopPreserves ==
    ASSUME FolderChecks, NEW c \in Clerks, StopClerk(c) PROVE FolderChecks'
  BY DEF StopClerk, GoTo, Examined, FolderChecks, FolderTypeOK, StatusIsCurrent, HoldIsCurrent,
         DisposedStays

(* The edits of administrators. *)
LEMMA EditPreserves ==
    ASSUME FolderChecks,
           \/ \E held \in BOOLEAN : SetHold(held)
           \/ \E status \in {"open", "cutoff"} : EditStatus(status)
           \/ DeleteCategory
    PROVE  FolderChecks'
  <1>1. ASSUME NEW held \in BOOLEAN, SetHold(held) PROVE FolderChecks'
    BY <1>1 DEF SetHold, Pass, Examined, FolderChecks, FolderTypeOK, StatusIsCurrent,
                HoldIsCurrent, DisposedStays
  <1>2. ASSUME NEW status \in {"open", "cutoff"}, EditStatus(status) PROVE FolderChecks'
    BY <1>2 DEF EditStatus, Pass, Examined, FolderChecks, FolderTypeOK, StatusIsCurrent,
                HoldIsCurrent, DisposedStays
  <1>3. CASE DeleteCategory
    <2>1. folder' = NoFolder /\ NoFolder.status = "none" /\ NoFolder.method = "none"
          /\ category' = [category EXCEPT !.there = FALSE]
          /\ UNCHANGED <<disposals, clerk, passed, overwritten>>
      BY <1>3 DEF DeleteCategory, NoFolder
    <2>2. FolderTypeOK'
      BY <2>1 DEF NoFolder, FolderChecks, FolderTypeOK
    <2>3. StatusIsCurrent' /\ HoldIsCurrent' /\ DisposedStays'
      BY <2>1 DEF FolderChecks, FolderTypeOK, StatusIsCurrent, HoldIsCurrent, DisposedStays
    <2> QED
      BY <2>2, <2>3 DEF FolderChecks
  <1> QED
    BY <1>1, <1>2, <1>3

LEMMA FolderStep == FolderChecks /\ [FolderNext]_folderVars => FolderChecks'
  <1>1. CASE UNCHANGED folderVars
    BY <1>1 DEF folderVars, Examined, FolderChecks, FolderTypeOK, StatusIsCurrent, HoldIsCurrent,
                DisposedStays
  <1> QED
    BY <1>1, CreatePreserves, BeginPreserves, WritePreserves, StopPreserves, EditPreserves
    DEF FolderNext

(* For any clerks and edits: the rows are well typed and a folder is       *)
(* disposed of once unless its status was overwritten.                     *)
THEOREM FoldersAreDisposedOnce == FolderSpec => []FolderInv
  <1>1. FolderChecks => FolderInv
    BY DEF FolderChecks, FolderInv, FolderTypeOK, DisposedStays, DisposedOnce
  <1> QED
    BY <1>1, RecordFoldersStart, FolderStep, PTL DEF FolderSpec

(* For any clerks and edits: what a clerk writes agrees with what the      *)
(* folder and its category are at that moment, unless the clerk was passed.*)
THEOREM DisposalsAreChecked == FolderSpec => DisposalIsChecked
  <1> DEFINE Checked ==
        \A c \in Clerks :
          Examined(c) /\ folder' # folder /\ clerk'[c] # clerk[c] =>
              \/ passed[c] # {}
              \/ /\ folder'.status = "disposed"
                 /\ folder.status = "cutoff" /\ ~category.held
              \/ folder'.status = "cutoff" /\ folder.status = "open"
  <1>1. FolderChecks /\ [FolderNext]_folderVars => [Checked]_folderVars
    <2> SUFFICES ASSUME FolderChecks, FolderNext, NEW c \in Clerks, Examined(c),
                        folder' # folder, clerk'[c] # clerk[c], passed[c] = {}
                 PROVE  \/ /\ folder'.status = "disposed"
                           /\ folder.status = "cutoff" /\ ~category.held
                        \/ folder'.status = "cutoff" /\ folder.status = "open"
      OBVIOUS
    <2>1. CutOff(c) \/ Dispose(c)
      BY DEF FolderNext, CreateFolder, BeginCutoff, BeginDisposal, BeginClerk, CutOff,
             Dispose, WriteFolder, GoTo, StopClerk, SetHold, EditStatus, DeleteCategory,
             FolderChecks, FolderTypeOK
    <2>2. folder.status # "none" /\ (clerk[c].pc = "cutting" => folder'.status = "cutoff")
          /\ (clerk[c].pc = "disposing" => folder'.status = "disposed")
      BY <2>1 DEF CutOff, Dispose, WriteFolder, FolderChecks, FolderTypeOK
    <2> QED
      BY <2>2 DEF Examined, FolderChecks, StatusIsCurrent, HoldIsCurrent
  <1> QED
    BY <1>1, RecordFoldersStart, FolderStep, PTL DEF FolderSpec, DisposalIsChecked

(* The two together: what the rows are, and what a step may do to them. *)
THEOREM FoldersHold == FolderSpec => FoldersAreSound
  BY FoldersAreDisposedOnce, DisposalsAreChecked DEF FoldersAreSound

=============================================================================
