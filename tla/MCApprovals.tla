----------------------------- MODULE MCApprovals -----------------------------
(***************************************************************************)
(* Instance for TLC of what waits for others to act: signature requests,   *)
(* approval workflows and BPMN processes for people, due documents for the *)
(* cron that requests their disposition, a revoked desktop for its         *)
(* heartbeat.  They share nothing, so a behaviour belongs to one of them:  *)
(* `part` says to which.                                                   *)
(***************************************************************************)
EXTENDS Signatures, WorkflowApprovals, BpmnProcess, CronRuns,
        DesktopLicence, TLC

CONSTANTS Parts, a, b, alice, bob, carol, s1, s2, s3

VARIABLE part

MCEmails == {a, b}

Entrant(email, role) == [email |-> email, role |-> role]

(* Two signers; one signer and a copy; one person both copied and signing; *)
(* nobody who signs.                                                       *)
MCLists == {<<Entrant(a, "signer"), Entrant(b, "signer")>>,
            <<Entrant(a, "cc"), Entrant(b, "signer")>>,
            <<Entrant(a, "cc"), Entrant(a, "signer")>>,
            <<Entrant(a, "cc")>>}

MCUsers    == {alice, bob, carol}
MCSessions == {s1, s2, s3}
TwoOfAlice == s1 :> alice @@ s2 :> alice @@ s3 :> bob

Plan(who, m) == [approvers |-> who, mode |-> m, record |-> TRUE]

(* Both decide, or one of them who may hand it on to the other.             *)
Orders == {<<alice, bob>>, <<alice>>, <<bob>>}

AllPlans  == {Plan(<<alice, bob>>, "all")}
BothModes == {Plan(who, m) : who \in Orders, m \in Modes}

(* Two tasks in sequence; a gateway; a loop that leaves before and one that *)
(* leaves after it goes round; no task; a task behind one the parser does   *)
(* not know, alone and after another.                                       *)
MCDiagrams ==
    { << <<"start", "t1">>, <<"t1", "t2">>, <<"t2", "e1">> >>,
      << <<"start", "g">>, <<"g", "t1">>, <<"g", "t2">>, <<"t1", "e1">>, <<"t2", "e2">> >>,
      << <<"t2", "e1">>, <<"t1", "t2">>, <<"t2", "t1">>, <<"start", "t1">> >>,
      << <<"t1", "t2">>, <<"t2", "t1">>, <<"start", "t1">>, <<"t1", "e1">> >>,
      << <<"start", "e1">> >>,
      << <<"start", "x">>, <<"x", "t1">>, <<"t1", "e1">> >>,
      << <<"start", "t1">>, <<"t1", "x">>, <<"x", "t2">>, <<"t2", "e1">> >> }

approvalsVars == <<part, vars, workflowVars, bpmnVars, cronVars, desktopVars>>

ApprovalsInit ==
    /\ part \in Parts
    /\ Init /\ WorkflowInit /\ BpmnInit /\ CronInit /\ DesktopInit
    /\ part # "processes" => diagram = << <<"start", "e1">> >>
    /\ disposed = IF part = "cron" THEN {} ELSE Documents
    /\ part # "desktop" => licenceRow.there

SignaturesRun ==
    /\ part = "signatures" /\ Next
    /\ UNCHANGED <<part, workflowVars, bpmnVars, cronVars, desktopVars>>

WorkflowsRun ==
    /\ part = "workflows" /\ WorkflowNext
    /\ UNCHANGED <<part, vars, bpmnVars, cronVars, desktopVars>>

ProcessesRun ==
    /\ part = "processes" /\ BpmnNext
    /\ UNCHANGED <<part, vars, workflowVars, cronVars, desktopVars>>

CronRunsHourly ==
    /\ part = "cron" /\ CronNext
    /\ UNCHANGED <<part, vars, workflowVars, bpmnVars, desktopVars>>

DesktopRuns ==
    /\ part = "desktop" /\ DesktopNext
    /\ UNCHANGED <<part, vars, workflowVars, bpmnVars, cronVars>>

ApprovalsNext ==
    SignaturesRun \/ WorkflowsRun \/ ProcessesRun \/ CronRunsHourly \/ DesktopRuns

(* The fairness of each module, for the runs of its part. *)
ApprovalsSpec ==
    /\ ApprovalsInit /\ [][ApprovalsNext]_approvalsVars
    /\ WF_vars(part = "signatures" /\ Expire)
    /\ \A s \in Sessions : SF_workflowVars(part = "workflows" /\ TxStep(s))
    /\ WF_cronVars(part = "cron" /\ Scheduled)
    /\ \A r \in Runs : WF_cronVars(part = "cron" /\ CronStep(r))
    /\ \A n \in Beats : WF_desktopVars(part = "desktop" /\ BeatStep(n))
===============================================================================
