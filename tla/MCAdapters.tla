----------------------------- MODULE MCAdapters ------------------------------
(*****************************************************************************)
(* The adapters and decisions around the kernel, checked together: every     *)
(* behaviour is about one of them, and the others rest in one initial        *)
(* state.                                                                    *)
(*****************************************************************************)
EXTENDS EditorialLoop, RuntimeSessions, SandboxSurfaces, ChildSessions, PublishAuthority

VARIABLE subject     \* the component that a behaviour is about

LoopRests ==
    /\ budget = [review |-> Unset, revise |-> Unset, build |-> Unset, gate |-> Unset,
                 defaults |-> Unset]
    /\ LoopInit

RuntimesRests ==
    /\ adapter = [kind |-> "cli", mode |-> "none"]
    /\ SessionsInit

SurfacesRests ==
    /\ connector = "note"
    /\ SurfacesInit

DelegationRests ==
    /\ mapping = [axis \in Axes |-> <<NotThere, NotThere>>]
    /\ reports = FALSE
    /\ ChildInit

AuthorityRests ==
    /\ layers = [workflow |-> Plain, stage |-> Plain, external |-> FALSE,
                 contract |-> "dry", operation |-> "publish", binds |-> TRUE]
    /\ AuthInit

AdaptersInit ==
    \/ /\ subject = "loop" /\ LoopInit
       /\ RuntimesRests /\ SurfacesRests /\ DelegationRests /\ AuthorityRests
    \/ /\ subject = "runtimes" /\ SessionsInit
       /\ LoopRests /\ SurfacesRests /\ DelegationRests /\ AuthorityRests
    \/ /\ subject = "surfaces" /\ SurfacesInit
       /\ LoopRests /\ RuntimesRests /\ DelegationRests /\ AuthorityRests
    \/ /\ subject = "delegation" /\ ChildInit
       /\ LoopRests /\ RuntimesRests /\ SurfacesRests /\ AuthorityRests
    \/ /\ subject = "authority" /\ AuthInit
       /\ LoopRests /\ RuntimesRests /\ SurfacesRests /\ DelegationRests

AdaptersNext ==
    /\ UNCHANGED subject
    /\ \/ /\ subject = "loop" /\ LoopNext
          /\ UNCHANGED <<sessionVars, surfaceVars, childVars, authVars>>
       \/ /\ subject = "runtimes" /\ SessionsNext
          /\ UNCHANGED <<loopVars, surfaceVars, childVars, authVars>>
       \/ /\ subject = "surfaces" /\ SurfacesNext
          /\ UNCHANGED <<loopVars, sessionVars, childVars, authVars>>
       \/ /\ subject = "delegation" /\ ChildNext
          /\ UNCHANGED <<loopVars, sessionVars, surfaceVars, authVars>>
       \/ /\ subject = "authority" /\ AuthNext
          /\ UNCHANGED <<loopVars, sessionVars, surfaceVars, childVars>>

\* The fairness of each component, in the behaviours that are about it.
AdaptersFairness ==
    /\ WF_loopVars(subject = "loop" /\ LoopStages)
    /\ WF_childVars(subject = "delegation" /\ TakeTurn)
    /\ WF_childVars(subject = "delegation" /\ SecondsPass)

AdaptersSpec ==
    /\ AdaptersInit
    /\ [][AdaptersNext]_<<loopVars, sessionVars, surfaceVars, childVars, authVars, subject>>
    /\ AdaptersFairness
==============================================================================
