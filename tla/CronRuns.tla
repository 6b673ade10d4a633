------------------------------- MODULE CronRuns -------------------------------
(***************************************************************************)
(* GET /api/cron/escalate, which a scheduler calls every hour: the guard   *)
(* that should keep two runs apart, and the task that requests a           *)
(* disposition for each record whose retention has ended.                  *)
(*                                                                         *)
(* The guard is two variables of the process; they do not say which run    *)
(* set them, and every run takes the guard down at its end.  The other     *)
(* tasks, of WorkflowApprovals and Signatures, only take time here;        *)
(* requests by hand, holds and two officers at once are in                 *)
(* DocumentGovernance.                                                     *)
(***************************************************************************)
EXTENDS Integers, FiniteSets

CONSTANTS
    Runs,           \* calls of the route under way at once
    Instances,      \* processes of the application
    Documents,      \* records whose retention has ended
    NoDocument,
    Take,           \* documents one run looks at
    GuardTtl,       \* CRON_LOCK_TTL_MS
    LastTick,       \* bound: the clock stops here
    MaxCronFaults   \* bound: statements that fail and processes that stop

ASSUME CronBounds ==
    /\ Take \in Nat /\ GuardTtl \in Nat \ {0}
    /\ {LastTick, MaxCronFaults} \subseteq Nat
    /\ Instances # {} /\ NoDocument \notin Documents

VARIABLES
    tick,           \* the clock
    guard,          \* cronRunning and cronStartedAt of each process
    run,            \* the calls: program counter and locals
    requested,      \* pending rows of DispositionRecord for each document
    disposed,       \* documents that were disposed of
    cronFaults,
    outlived,       \* history: processes in which a run outlived its guard
    together        \* history: runs of two processes were under way at once

cronVars == <<tick, guard, run, requested, disposed, cronFaults, outlived, together>>

Over == [pc |-> "over", at |-> CHOOSE i \in Instances : TRUE, startedAt |-> 0,
         todo |-> {}, doc |-> NoDocument]

Active(r)    == run[r].pc # "over"
RunningAt(i) == {r \in Runs : Active(r) /\ run[r].at = i}

CronInit ==
    /\ tick = 0
    /\ guard = [i \in Instances |-> [running |-> FALSE, startedAt |-> 0]]
    /\ run = [r \in Runs |-> Over]
    /\ requested = [d \in Documents |-> 0]
    /\ disposed \in SUBSET Documents
    /\ cronFaults = 0 /\ outlived = {} /\ together = FALSE

CronFault == cronFaults < MaxCronFaults /\ cronFaults' = cronFaults + 1

-----------------------------------------------------------------------------
(* The definition after it, which believes an old guard only. *)
FreeBug(i) == ~guard[i].running \/ tick - guard[i].startedAt < GuardTtl

Free(i) == ~guard[i].running \/ tick - guard[i].startedAt >= GuardTtl

BeginRun(r, i) ==
    /\ ~Active(r) /\ Free(i)
    /\ guard' = [guard EXCEPT ![i] = [running |-> TRUE, startedAt |-> tick]]
    /\ run' = [run EXCEPT ![r] = [Over EXCEPT !.pc = "tasks", !.at = i, !.startedAt = tick]]
    /\ together' = (together \/ \E s \in Runs : Active(s) /\ run[s].at # i)
    /\ UNCHANGED <<tick, requested, disposed, cronFaults, outlived>>

(* That a disposition is pending does not take a document off the list,    *)
(* nor does one that was cancelled or ended in the archive.                *)
Due == Documents \ disposed

(* The definition after it, without deletedAt: null. *)
ListedBug ==
    {some \in SUBSET Documents :
       Cardinality(some) <= Take /\ (some = Documents \/ Cardinality(some) = Take)}

(* findMany with take and without an order. *)
Listed ==
    {some \in SUBSET Due : Cardinality(some) <= Take /\ (some = Due \/ Cardinality(some) = Take)}

List(r) ==
    /\ run[r].pc = "tasks"
    /\ \E some \in Listed : run' = [run EXCEPT ![r].pc = "look", ![r].todo = some]
    /\ UNCHANGED <<tick, guard, requested, disposed, cronFaults, outlived, together>>

Passed(it, d) == [it EXCEPT !.pc = "look", !.todo = @ \ {d}, !.doc = NoDocument]

(* One document after the other: is a disposition pending, and if not, the *)
(* row.                                                                    *)
Look(r) ==
    /\ run[r].pc = "look"
    /\ \E d \in run[r].todo :
          run' = [run EXCEPT ![r] = IF requested[d] > 0 THEN Passed(@, d)
                                    ELSE [@ EXCEPT !.pc = "create", !.doc = d]]
    /\ UNCHANGED <<tick, guard, requested, disposed, cronFaults, outlived, together>>

Create(r) ==
    /\ run[r].pc = "create"
    /\ requested' = [requested EXCEPT ![run[r].doc] = @ + 1]
    /\ run' = [run EXCEPT ![r] = Passed(@, @.doc)]
    /\ UNCHANGED <<tick, guard, disposed, cronFaults, outlived, together>>

(* A statement that fails ends the task, and the next run tries again. *)
TaskFails(r) ==
    /\ Active(r) /\ CronFault
    /\ run' = [run EXCEPT ![r] = [@ EXCEPT !.pc = "look", !.todo = {}, !.doc = NoDocument]]
    /\ UNCHANGED <<tick, guard, requested, disposed, outlived, together>>

(* The end of the run, which asks nothing. *)
Release(r) ==
    /\ run[r].pc = "look" /\ run[r].todo = {}
    /\ guard' = [guard EXCEPT ![run[r].at].running = FALSE]
    /\ run' = [run EXCEPT ![r] = Over]
    /\ UNCHANGED <<tick, requested, disposed, cronFaults, outlived, together>>

-----------------------------------------------------------------------------
(* A process stops, and a new one knows of no run. *)
StopProcess(i) ==
    /\ RunningAt(i) # {} /\ CronFault
    /\ guard' = [guard EXCEPT ![i].running = FALSE]
    /\ run' = [r \in Runs |-> IF r \in RunningAt(i) THEN Over ELSE run[r]]
    /\ UNCHANGED <<tick, requested, disposed, outlived, together>>

(* POST admin/dispositions/[id]/approve: one row is cancelled or executed, *)
(* and the document deleted, if that is the action of its schedule.        *)
Decide(d) ==
    /\ requested[d] > 0
    /\ requested' = [requested EXCEPT ![d] = @ - 1]
    /\ disposed' \in {disposed, disposed \cup {d}}
    /\ UNCHANGED <<tick, guard, run, cronFaults, outlived, together>>

TickPasses ==
    /\ tick < LastTick /\ tick' = tick + 1
    /\ outlived' = outlived \cup
          {i \in Instances : \E r \in RunningAt(i) : tick' - run[r].startedAt >= GuardTtl}
    /\ UNCHANGED <<guard, run, requested, disposed, cronFaults, together>>

CronStep(r) == List(r) \/ Look(r) \/ Create(r) \/ Release(r)

Scheduled == \E r \in Runs, i \in Instances : BeginRun(r, i)

CronNext ==
    \/ Scheduled
    \/ \E r \in Runs : CronStep(r) \/ TaskFails(r)
    \/ \E i \in Instances : StopProcess(i)
    \/ \E d \in Documents : Decide(d)
    \/ TickPasses

(* The scheduler calls again and again, and calls that began go on. *)
CronFairness == WF_cronVars(Scheduled) /\ \A r \in Runs : WF_cronVars(CronStep(r))

CronSpec == CronInit /\ [][CronNext]_cronVars /\ CronFairness

-----------------------------------------------------------------------------
CronTypeOK ==
    /\ tick \in 0 .. LastTick
    /\ guard \in [Instances -> [running : BOOLEAN, startedAt : 0 .. LastTick]]
    /\ run \in [Runs -> [pc : {"over", "tasks", "look", "create"}, at : Instances,
                         startedAt : 0 .. LastTick, todo : SUBSET Documents,
                         doc : Documents \cup {NoDocument}]]
    /\ \A r \in Runs : run[r].pc = "create" => run[r].doc \in Documents
    /\ requested \in [Documents -> Nat]
    /\ disposed \subseteq Documents
    /\ outlived \subseteq Instances /\ together \in BOOLEAN

(* The guard, set by one run and taken down by another, keeps the runs of  *)
(* a process apart as long as none of them outlives it; ...                *)
RunsAreApart ==
    \A i \in Instances \ outlived : \A r, s \in RunningAt(i) : r = s

(* ... and only when runs were not kept apart, in one process or in two,   *)
(* is a document requested that is requested already.                      *)
RequestedOnce ==
    outlived = {} /\ ~together => \A d \in Documents : requested[d] <= 1

CronInv == CronTypeOK /\ RunsAreApart /\ RequestedOnce

(* Every run ends, whatever other runs and officers do in the meantime.    *)
RunsEnd == \A r \in Runs : Active(r) ~> ~Active(r)

(* route.ts:10: dispositions are created "for due documents".  A due one   *)
(* that no list may leave out, because fewer than Take others are due, is  *)
(* requested in the end; ...                                               *)
ListedIsRequested ==
    \A d \in Documents :
       d \notin disposed ~> \/ requested[d] > 0 \/ d \in disposed
                            \/ Cardinality(Due \ {d}) >= Take

(* ... but not every due one: those requested, cancelled or archived stay  *)
(* on the list, and Take of them fill it.                                  *)
DueIsRequested ==
    \A d \in Documents : d \notin disposed ~> (requested[d] > 0 \/ d \in disposed)

(* route.ts:28: "The lock auto-expires after 10 minutes", no earlier: when *)
(* a run begins beside another, that other is older than that.             *)
GuardStands ==
    \A i \in Instances : \A r, s \in RunningAt(i) :
       r # s => \/ run[r].startedAt >= run[s].startedAt + GuardTtl
                \/ run[s].startedAt >= run[r].startedAt + GuardTtl
===============================================================================
