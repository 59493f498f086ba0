------------------------------- MODULE MCHost --------------------------------
(*****************************************************************************)
(* The host programs of the OpenClaw package, checked together: every        *)
(* behaviour is about one of them, and the others rest in one initial        *)
(* state.                                                                    *)
(*****************************************************************************)
EXTENDS OwnedCompletion, BlackboardBus, LiveCutover, IvyJonah

VARIABLE subject     \* the component that a behaviour is about

CompletionRests ==
    /\ crew = Bridges
    /\ hostFiles = [record |-> "own", handoff |-> "none", receipts |-> <<>>]
    /\ OCInit

BusRests ==
    /\ task = [mode |-> "ingest", dry |-> TRUE, allow |-> FALSE, ledger |-> FALSE, scripts |-> TRUE]
    /\ BusInit

CutoverRests ==
    /\ allowed = [vault |-> FALSE, telegram |-> FALSE, board |-> FALSE]
    /\ vault = [l \in Lanes |-> Absent]
    /\ CutInit

ProjectsRests ==
    /\ project = [p \in Projects |-> [gate |-> "P2", status |-> "active", channel |-> "note"]]
    /\ IvyInit

HostInit ==
    \/ /\ subject = "completion" /\ OCInit
       /\ BusRests /\ CutoverRests /\ ProjectsRests
    \/ /\ subject = "bus" /\ BusInit
       /\ CompletionRests /\ CutoverRests /\ ProjectsRests
    \/ /\ subject = "cutover" /\ CutInit
       /\ CompletionRests /\ BusRests /\ ProjectsRests
    \/ /\ subject = "projects" /\ IvyInit
       /\ CompletionRests /\ BusRests /\ CutoverRests

HostNext ==
    /\ UNCHANGED subject
    /\ \/ /\ subject = "completion" /\ OCNext
          /\ UNCHANGED <<busVars, cutVars, ivyVars>>
       \/ subject = "bus" /\ BusNext /\ UNCHANGED <<ocVars, cutVars, ivyVars>>
       \/ subject = "cutover" /\ CutNext /\ UNCHANGED <<ocVars, busVars, ivyVars>>
       \/ /\ subject = "projects" /\ IvyNext
          /\ UNCHANGED <<ocVars, busVars, cutVars>>

\* The fairness of each component, in the behaviours that are about it.
HostFairness ==
    /\ \A b \in Bridges : /\ WF_ocVars(subject = "completion" /\ ReadEvidence(b))
                        /\ WF_ocVars(subject = "completion" /\ BridgeStep(b))
    /\ WF_ivyVars(subject = "projects" /\ RunStep)

HostSpec ==
    /\ HostInit
    /\ [][HostNext]_<<ocVars, busVars, cutVars, ivyVars, subject>>
    /\ HostFairness
==============================================================================
