--------------------------- MODULE VersionHistory ---------------------------
(***************************************************************************)
(* What the versions of a document promise their readers: a sequence that  *)
(* only grows at its end, one version at a time.  A new version is a file  *)
(* that differs from the last version, a copy of an earlier one, or the    *)
(* last one redacted.  What is stored is sealed, and what is copied        *)
(* legible, as long as the document's key has not been destroyed.          *)
(***************************************************************************)
EXTENDS Naturals, Sequences

CONSTANTS
    Texts,          \* what an uploaded file may say
    FirstText,      \* what version 1 says
    MaxVersions     \* uploads do not lengthen the history beyond it

VARIABLES
    history,        \* the versions: bytes, and whether they are sealed
    shredded        \* the key is destroyed

historyVars == <<history, shredded>>

File(t) == [text |-> t, marks |-> 0, cipher |-> FALSE]

Latest == history[Len(history)]

HistoryInit ==
    /\ history = <<[body |-> File(FirstText), sealed |-> TRUE]>>
    /\ shredded = FALSE

(* Sealed bytes, or once there is no key any bytes. *)
AddVersion(body) ==
    /\ \E sealed \in BOOLEAN :
          /\ sealed \/ shredded
          /\ history' = Append(history, [body |-> body, sealed |-> sealed])
    /\ UNCHANGED shredded

Upload ==
    \E t \in Texts :
        /\ Len(history) < MaxVersions
        /\ File(t) # Latest.body
        /\ AddVersion(File(t))

Redact ==
    /\ ~Latest.body.cipher
    /\ AddVersion([Latest.body EXCEPT !.marks = @ + 1])

Restore ==
    \E n \in 1 .. Len(history) :
        \/ AddVersion(history[n].body)
        \/ /\ shredded /\ history[n].sealed
           /\ AddVersion([history[n].body EXCEPT !.cipher = TRUE])

Shred == shredded' = TRUE /\ UNCHANGED history

HistoryNext == Upload \/ Redact \/ Restore \/ Shred

HistorySpec == HistoryInit /\ [][HistoryNext]_historyVars
=============================================================================
