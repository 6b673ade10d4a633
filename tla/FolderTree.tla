------------------------------ MODULE FolderTree ------------------------------
(***************************************************************************)
(* The folders of a tenant (api/folders) and the folder a document is in   *)
(* (api/documents/[id]/move).                                              *)
(*                                                                         *)
(* A folder is moved after a walk from its new parent to the root that     *)
(* looks for the folder itself: one query for each level, at most          *)
(* MAX_FOLDER_DEPTH of them, and then an update by id.  Deletion hands the *)
(* children to the parent the folder had when it was read.  The foreign    *)
(* keys refuse a parent that is not there.                                 *)
(***************************************************************************)
EXTENDS Naturals

CONSTANTS
    Folders,        \* ids of folders
    Root,           \* no folder: parentId or folderId null
    Movers,         \* invocations of the handlers
    MaxFolderDepth, \* MAX_FOLDER_DEPTH
    MaxTreeOps      \* bound: invocations there are in all

ASSUME TreeAssumption == Root \notin Folders /\ {MaxFolderDepth, MaxTreeOps} \subseteq Nat

VARIABLES
    parent,         \* the rows of Folder: their parentId
    unborn,         \* ids no row has had yet
    filed,          \* Document.folderId
    mover,          \* the invocations: program counter and locals
    treeOps,        \* how many invocations there were
    unchecked       \* history: a write rested on a walk that was cut short, or
                    \* on a tree that had changed since it was read

treeVars == <<parent, unborn, filed, mover, treeOps, unchecked>>

There == DOMAIN parent

NoMove == [pc |-> "idle", folder |-> Root, target |-> Root, at |-> Root,
           depth |-> 0, stale |-> FALSE]

HasCycle(rows) ==
    \E S \in SUBSET DOMAIN rows : S # {} /\ \A f \in S : rows[f] \in S

TreeInit ==
    /\ unborn \in {{}} \cup {{f} : f \in Folders}
    /\ parent \in [Folders \ unborn -> (Folders \ unborn) \cup {Root}]
    /\ ~HasCycle(parent)
    /\ filed = Root
    /\ mover = [m \in Movers |-> NoMove]
    /\ treeOps = 0
    /\ unchecked = FALSE

-----------------------------------------------------------------------------
BeginOp(m, locals) ==
    /\ treeOps < MaxTreeOps /\ mover[m].pc = "idle"
    /\ treeOps' = treeOps + 1
    /\ mover' = [mover EXCEPT ![m] = locals]
    /\ UNCHANGED <<parent, unborn, filed, unchecked>>

(* The definition after it as it was before the walk: no folder may be its *)
(* own parent, and that is all.                                            *)
BeginMoveBug(m, f, target) ==
    /\ f \in There /\ target # f
    /\ BeginOp(m, [NoMove EXCEPT !.pc = "moving", !.folder = f, !.target = target])

(* PATCH folders/[id] with a parent, which need not be there. *)
BeginMove(m, f, target) ==
    /\ f \in There /\ target # f
    /\ BeginOp(m, [NoMove EXCEPT !.pc = "walking", !.folder = f, !.target = target,
                                  !.at = target])

(* isInParentChain: one level, or the end of the walk. *)
Walk(m) ==
    LET w == mover[m] IN
    /\ w.pc = "walking"
    /\ mover' = [mover EXCEPT ![m] =
          IF w.at = Root \/ w.depth = MaxFolderDepth
          THEN [w EXCEPT !.pc = "moving", !.stale = @ \/ w.at # Root]
          ELSE IF w.at = w.folder THEN NoMove
          ELSE IF w.at \notin There THEN [w EXCEPT !.pc = "moving"]
          ELSE [w EXCEPT !.at = parent[w.at], !.depth = @ + 1]]
    /\ UNCHANGED <<parent, unborn, filed, treeOps, unchecked>>

BeginDeleteFolder(m, f) ==
    /\ f \in There
    /\ BeginOp(m, [NoMove EXCEPT !.pc = "deleting", !.folder = f, !.target = parent[f]])

BeginCreate(m, f, target) ==
    /\ f \in unborn /\ target \in There \cup {Root}
    /\ BeginOp(m, [NoMove EXCEPT !.pc = "creating", !.folder = f, !.target = target])

BeginFile(m, target) ==
    /\ target \in There \cup {Root}
    /\ BeginOp(m, [NoMove EXCEPT !.pc = "filing", !.target = target])

(* The end of m's invocation.  If it changed the tree, the invocations that *)
(* are on their way have read another tree.                                *)
WriteTree(m, rows) ==
    /\ parent' = rows
    /\ unchecked' = (unchecked \/ (rows # parent /\ mover[m].stale))
    /\ mover' = [o \in Movers |->
          IF o = m \/ mover[o].pc = "idle" THEN NoMove
          ELSE [mover[o] EXCEPT !.stale = @ \/ rows # parent]]
    /\ UNCHANGED treeOps

(* The update by id; a folder or a parent that is gone fails it. *)
MoveFolder(m) ==
    /\ mover[m].pc = "moving"
    /\ WriteTree(m, IF mover[m].folder \in There /\ mover[m].target \in There \cup {Root}
                    THEN [parent EXCEPT ![mover[m].folder] = mover[m].target]
                    ELSE parent)
    /\ UNCHANGED <<unborn, filed>>

(* The transaction: documents to no folder, children to the parent, and    *)
(* the row goes.  It fails if the row, or a parent it needs, is gone.      *)
DeleteFolder(m) ==
    LET f        == mover[m].folder
        children == {g \in There \ {f} : parent[g] = f}
        heir     == IF mover[m].target = f THEN Root ELSE mover[m].target
    IN
    /\ mover[m].pc = "deleting"
    /\ IF f \in There /\ (children = {} \/ heir \in There \cup {Root})
       THEN /\ WriteTree(m, [g \in There \ {f} |-> IF g \in children THEN heir ELSE parent[g]])
            /\ filed' = IF filed = f THEN Root ELSE filed
       ELSE WriteTree(m, parent) /\ UNCHANGED filed
    /\ UNCHANGED unborn

CreateTreeFolder(m) ==
    LET f == mover[m].folder IN
    /\ mover[m].pc = "creating"
    /\ IF f \in unborn /\ mover[m].target \in There \cup {Root}
       THEN /\ WriteTree(m, [g \in There \cup {f} |-> IF g = f THEN mover[m].target
                                                      ELSE parent[g]])
            /\ unborn' = unborn \ {f}
       ELSE WriteTree(m, parent) /\ UNCHANGED unborn
    /\ UNCHANGED filed

(* documents/[id]/move, and folderId of PATCH documents/[id]. *)
FileDocument(m) ==
    /\ mover[m].pc = "filing"
    /\ filed' = IF mover[m].target \in There \cup {Root} THEN mover[m].target ELSE filed
    /\ WriteTree(m, parent)
    /\ UNCHANGED unborn

TreeNext ==
    \E m \in Movers :
       \/ \E f \in Folders :
             \/ BeginDeleteFolder(m, f)
             \/ \E target \in Folders \cup {Root} : BeginMove(m, f, target)
                                                    \/ BeginCreate(m, f, target)
       \/ \E target \in Folders \cup {Root} : BeginFile(m, target)
       \/ Walk(m) \/ MoveFolder(m) \/ DeleteFolder(m) \/ CreateTreeFolder(m)
       \/ FileDocument(m)

TreeSpec == TreeInit /\ [][TreeNext]_treeVars

-----------------------------------------------------------------------------
TreeTypeOK ==
    /\ There \subseteq Folders /\ unborn \subseteq Folders \ There
    /\ \A f \in There : parent[f] \in There \cup {Root}
    /\ filed \in There \cup {Root}
    /\ mover \in [Movers ->
          [pc : {"idle", "walking", "moving", "deleting", "creating", "filing"},
           folder : Folders \cup {Root}, target : Folders \cup {Root},
           at : Folders \cup {Root}, depth : 0 .. MaxFolderDepth, stale : BOOLEAN]]
    /\ treeOps \in 0 .. MaxTreeOps
    /\ unchecked \in BOOLEAN

(* folders/[id]/route.ts:62-66: no folder is its own ancestor, unless a    *)
(* tree was deeper than a walk is long or a write was overtaken by another:*)
(* two moves that pass each other, or a deletion that hands the children   *)
(* to a parent that has moved below them.                                  *)
TreeIsATree == unchecked \/ ~HasCycle(parent)

(* The rows refer to rows that are there, and the tree is one. *)
TreeInv == TreeTypeOK /\ TreeIsATree
===============================================================================
