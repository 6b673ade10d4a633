---------------------------- MODULE BpmnProcess -----------------------------
(***************************************************************************)
(* A process drawn in BPMN and one instance of it: parseBpmnXml and the    *)
(* functions on instances of src/lib/bpmn/bpmn-engine.ts.                  *)
(*                                                                         *)
(* Parsing turns the diagram into a path: from the start event along the   *)
(* first flow to an element not seen before, keeping the user tasks, up to *)
(* an end event or an element of a type the parser does not look for, and  *)
(* then every end event of the diagram.  An instance stands on an element  *)
(* of the path; each request to advance reads it, decides and updates it   *)
(* by id, with its whole history, whatever other requests wrote since.     *)
(* Diagrams without a start event are left out: their instances stand on   *)
(* nothing, and no request advances them.                                  *)
(***************************************************************************)
EXTENDS Naturals, Sequences

CONSTANTS
    Start,          \* the start event
    Tasks,          \* user tasks
    Gates,          \* gateways and other elements that the path skips
    Ends,           \* end events
    Unknown,        \* what the parser does not find: bpmn:task, events between, nothing
    Diagrams,       \* the diagrams: sequences of flows <<source, target>>
    Callers,        \* requests on the instance
    MaxSteps        \* bound: how many requests there are in all

Elements == {Start} \cup Tasks \cup Gates \cup Ends
Drawn    == Elements \cup Unknown
None     == "none"

ASSUME CallsAssumption == MaxSteps \in Nat

(* An element has one type; "end" and None name none of them. *)
ASSUME ElementsAssumption ==
    /\ Start \notin Tasks \cup Ends /\ Tasks \cap Ends = {}
    /\ {"end", None} \cap ({Start} \cup Tasks) = {}
    /\ Unknown \cap Elements = {}

(* Flows are between elements, found or not. *)
ASSUME DiagramsAssumption == \A d \in Diagrams : d \in Seq(Drawn \X Drawn)

VARIABLES
    diagram,        \* the diagram of the published definition
    inst,           \* the row of table BpmnProcessInstance
    call,            \* the requests: program counter and locals
    calls,          \* how many requests there were
    approved,       \* history: the elements an approval was given for
    outrun           \* history: a request wrote over a row it had not read

bpmnVars == <<diagram, inst, call, calls, approved, outrun>>

-----------------------------------------------------------------------------
(* The flows from n to elements not visited, by their place in the diagram. *)
Onward(d, n, visited) == {i \in DOMAIN d : d[i][1] = n /\ d[i][2] \notin visited}

First(s) == CHOOSE i \in s : \A j \in s : i <= j

Kept(n) == IF n \in Tasks THEN <<n>> ELSE <<>>

(* The user tasks on the way from n, when the visited elements are behind: *)
(* the next element if it is one, and what follows unless it is an end;    *)
(* none, if the flow leads to something the parser does not know.          *)
WalkOn(d, walk, n, visited) ==
    LET onward == Onward(d, n, visited)
        next   == d[First(onward)][2]
    IN  IF onward = {} \/ next \in Unknown THEN <<>>
        ELSE Kept(next) \o (IF next \in Ends THEN <<>>
                            ELSE walk[<<next, visited \cup {next}>>])

Walk(d) ==
    LET walk[p \in Elements \X SUBSET Elements] == WalkOn(d, walk, p[1], p[2])
    IN  walk[<<Start, {Start}>>]

(* executionPath: one entry stands for the end events, which end alike. *)
Path(d) == <<Start>> \o Walk(d) \o <<"end">>

Position(d, n) == First({i \in DOMAIN Path(d) : Path(d)[i] = n})

NextOnPath(d, n) == Path(d)[Position(d, n) + 1]

-----------------------------------------------------------------------------
NoInstance == [status |-> None, at |-> None, trail |-> <<>>]
NoCall       == [pc |-> "idle", read |-> NoInstance, outcome |-> None]

BpmnInit ==
    /\ diagram \in Diagrams
    /\ inst = NoInstance
    /\ call = [r \in Callers |-> NoCall]
    /\ calls = 0
    /\ approved = {}
    /\ outrun = FALSE

Begin(r) ==
    /\ calls < MaxSteps
    /\ calls' = calls + 1
    /\ call[r] = NoCall

(* startBpmnInstance: the row, and later the workflow it is linked to. *)
StartInstance(r) ==
    /\ Begin(r)
    /\ inst.status = None
    /\ inst' = [status |-> "running", at |-> Start, trail |-> <<Start>>]
    /\ \E linked \in BOOLEAN :
          call' = [call EXCEPT ![r] = IF linked THEN [NoCall EXCEPT !.pc = "link", !.read = inst']
                                    ELSE NoCall]
    /\ UNCHANGED <<diagram, approved, outrun>>

(* The second write stores the history of the first. *)
LinkWorkflow(r) ==
    /\ call[r].pc = "link"
    /\ inst' = [inst EXCEPT !.trail = call[r].read.trail]
    /\ outrun' = (outrun \/ inst # call[r].read)
    /\ call' = [call EXCEPT ![r] = NoCall]
    /\ UNCHANGED <<diagram, calls, approved>>

(* The definition after it, which refuses completed instances only. *)
ReadToAdvanceBug(r) ==
    /\ Begin(r)
    /\ inst.status \in {"running", "terminated"}
    /\ \E outcome \in {"approved", "rejected"} :
          call' = [call EXCEPT ![r] = [pc |-> "write", read |-> inst, outcome |-> outcome]]
    /\ UNCHANGED <<diagram, inst, approved, outrun>>

ReadToAdvance(r) ==
    /\ Begin(r)
    /\ inst.status = "running"
    /\ \E outcome \in {"approved", "rejected"} :
          call' = [call EXCEPT ![r] = [pc |-> "write", read |-> inst, outcome |-> outcome]]
    /\ UNCHANGED <<diagram, inst, approved, outrun>>

(* The columns an advance writes, from the row it read. *)
Advanced(read, outcome) ==
    LET next == NextOnPath(diagram, read.at)
    IN  CASE outcome = "rejected" ->
               [inst EXCEPT !.status = "terminated", !.trail = read.trail]
          [] outcome = "approved" /\ next = "end" ->
               [status |-> "completed", at |-> None, trail |-> Append(read.trail, "end")]
          [] outcome = "approved" /\ next # "end" ->
               [inst EXCEPT !.at = next, !.trail = Append(read.trail, next)]

WriteAdvance(r) ==
    /\ call[r].pc = "write"
    /\ inst' = Advanced(call[r].read, call[r].outcome)
    /\ approved' = approved \cup {n \in {call[r].read.at} : call[r].outcome = "approved"}
    /\ outrun' = (outrun \/ inst # call[r].read)
    /\ call' = [call EXCEPT ![r] = NoCall]
    /\ UNCHANGED <<diagram, calls>>

(* terminateBpmnInstance looks at nothing. *)
Terminate(r) ==
    /\ Begin(r)
    /\ inst.status # None
    /\ inst' = [inst EXCEPT !.status = "terminated"]
    /\ UNCHANGED <<diagram, call, approved, outrun>>

BpmnNext == \E r \in Callers :
    \/ StartInstance(r) \/ LinkWorkflow(r)
    \/ ReadToAdvance(r) \/ WriteAdvance(r) \/ Terminate(r)

BpmnSpec == BpmnInit /\ [][BpmnNext]_bpmnVars

-----------------------------------------------------------------------------
InstanceRows == [status : {None, "running", "completed", "terminated"},
         at : {None, Start} \cup Tasks,
         trail : Seq({Start, "end"} \cup Tasks)]

BpmnTypeOK ==
    /\ diagram \in Diagrams
    /\ inst \in InstanceRows
    /\ call \in [Callers -> [pc : {"idle", "link", "write"}, read : InstanceRows,
                             outcome : {None, "approved", "rejected"}]]
    /\ calls \in 0 .. MaxSteps
    /\ approved \subseteq {Start} \cup Tasks
    /\ outrun \in BOOLEAN

(* What a diagram means where it has no choice, and does not go on after   *)
(* an end: everything that the flows between such elements lead to from    *)
(* the start.                                                              *)
Unbranched(d) ==
    /\ \A i, j \in DOMAIN d : d[i][1] = d[j][1] => i = j
    /\ \A i \in DOMAIN d : d[i][1] \notin Ends

ClosedUnder(d, s, elements) ==
    \A i \in DOMAIN d : d[i][1] \in s /\ d[i][2] \in elements => d[i][2] \in s

Reached(d, elements) ==
    {n \in elements : \A s \in SUBSET elements : Start \in s /\ ClosedUnder(d, s, elements) => n \in s}

(* An instance completes only when each user task was approved in it: each *)
(* that the flows lead to, if no element has two ways on, and otherwise    *)
(* each on the way the parser chose; even if requests that overlap move    *)
(* the instance back, and a termination lies in between.  The way ends at  *)
(* what the parser does not know; ...                                      *)
CompletedIsApproved ==
    inst.status = "completed" =>
        /\ \A i \in 1 .. Len(Path(diagram)) - 1 : Path(diagram)[i] \in approved
        /\ Unbranched(diagram) => Reached(diagram, Elements) \cap Tasks \subseteq approved

(* ... so that what bpmn-engine.ts:12-13 says of the user tasks of a       *)
(* diagram, that they become approval steps, is not so of those behind it. *)
TasksAreAsked ==
    inst.status = "completed" /\ Unbranched(diagram) =>
        Reached(diagram, Drawn) \cap Tasks \subseteq approved

(* While requests do not overlap, the history of the instance tells where  *)
(* it has been, each element once and in the order of the path.            *)
TrailIsPath ==
    ~outrun /\ inst.status # None =>
        inst.trail = SubSeq(Path(diagram), 1, Len(inst.trail))

(* A completed instance stays completed, and a terminated one terminated,  *)
(* unless it is terminated again by hand, or a request that had found it   *)
(* running writes late.                                                    *)
ClosedIsReopenedOnlyLate ==
    [][ inst.status \in {"completed", "terminated"} /\ inst' # inst
          => \/ inst' = [inst EXCEPT !.status = "terminated"] /\ calls' # calls
             \/ \E r \in Callers : /\ call[r].read.status = "running"
                                    /\ call'[r] # call[r] ]_bpmnVars

(* Rows and calls are well typed, completed instances were approved task   *)
(* by task, and the trail is a path of the diagram.                        *)
BpmnInv == BpmnTypeOK /\ CompletedIsApproved /\ TrailIsPath

(* The invariant of an instance, and what a step may do to one that is     *)
(* closed.                                                                 *)
BpmnIsSound == []BpmnInv /\ ClosedIsReopenedOnlyLate
=============================================================================
