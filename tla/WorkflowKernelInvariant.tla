----------------------- MODULE WorkflowKernelInvariant ------------------------
(***************************************************************************)
(* The inductive invariant behind the theorems of WorkflowKernelProofs.    *)
(*                                                                         *)
(* The thread of control of an instance is either an attempt (one that is  *)
(* open, or the one from which the instance can be made to run again) or   *)
(* a process that has settled an attempt and has yet to queue the next.    *)
(***************************************************************************)
EXTENDS WorkflowKernel, WorkflowLedgerInvariant

-----------------------------------------------------------------------------
(* The thread of control                                                   *)

Open(r) == run[r].status \in Unfinished

\* An operator may queue another attempt behind r.
Resumable(r) == /\ run[r].status \in {"blocked", "failed", "invalid_output"}
                /\ IsLatestAttempt(r)

Live(r) == Open(r) \/ Resumable(r)

Moving(p) == pc[p] \in {"advancing", "inserting"}

\* The instance that p moves on.
Where(p) == InstanceOf(IF pc[p] = "inserting" THEN job[p].next ELSE job[p].run)

\* An instance is worked on by one live attempt, or moved on by one process,
\* and never by both.
OneThread ==
    /\ \A r, q \in Runs : Live(r) /\ Live(q) /\ InstanceOf(r) = InstanceOf(q) => r = q
    /\ \A p, q \in Procs : Moving(p) /\ Moving(q) /\ Where(p) = Where(q) => p = q
    /\ \A p \in Procs, r \in Runs : Moving(p) /\ Live(r) => Where(p) # InstanceOf(r)

\* Work is only ever open on the last attempt of its stage.
OpenIsLatest == \A r \in Runs : Open(r) => IsLatestAttempt(r)

\* The attempt number that was read before the insert is still the next one.
NextIsFree == \A p \in Procs, x \in Runs :
    pc[p] = "inserting" /\ job[p].next = x => IsNextAttempt(x)

\* Nothing happens to an instance before it is inserted.
NothingBeforeStart == \A i \in Instances : instance[i].status = "absent" =>
    /\ \A r \in Runs : InstanceOf(r) = i => ~Present(r)
    /\ \A p \in Procs : Moving(p) => Where(p) # i

ThreadInv == OneThread /\ OpenIsLatest /\ NextIsFree /\ NothingBeforeStart

-----------------------------------------------------------------------------
(* What the processes hold in memory                                       *)

HandlerVerdicts == {"succeeded", "waiting", "retry", "blocked", "approval",
                    "failed", "invalid_output"}

\* The statuses and stages that update_workflow_instance is called with.
GoodWrite(write) ==
    \/ write.status \in TerminalInstance /\ write.stage = NoStage
    \/ /\ write.status \in {"running", "retrying", "waiting_on_human", "blocked"}
       /\ write.stage \in Stages

JobVerdicts == HandlerVerdicts \cup {"none", "accepted", "unrouted", "invalid"}

Job == [grant : Grant \cup {NoGrant}, run : Runs \cup {<<>>}, verdict : JobVerdicts,
        next : Runs \cup {<<>>},
        write : [status : InstanceStatus \cup {"none"}, stage : Stages \cup {NoStage}]]

\* From the claim until the attempt is settled a worker holds its claim.
Claiming == {"claimed", "handling", "invoking", "reporting", "settling"}

\* Where a job of a review surface can be before it has a decision (HumanGate).
SurfacePlaces == {"publishing", "placing", "receipting", "posting", "reading",
                  "querying", "collecting", "judging"}

\* Where a process can be between two calls of the ledger.
Place == Claiming \cup SurfacePlaces
         \cup {"idle", "swept", "advancing", "inserting", "updating", "recording", "deciding"}

Remembers(p) ==
    /\ pc[p] \in Claiming =>
         /\ p \in Workers
         /\ job[p].grant \in grants /\ job[p].run = job[p].grant.run
    /\ pc[p] \in {"reporting", "settling"} => job[p].verdict \in HandlerVerdicts
    /\ pc[p] \in Claiming \cup {"recording", "deciding", "advancing", "updating"} =>
         job[p].run \in Runs
    /\ pc[p] \in Claiming \cup {"recording", "deciding", "advancing"} => job[p].next = <<>>
    /\ pc[p] = "inserting" =>
         /\ job[p].next \in Runs
         /\ \/ job[p].run = <<>> /\ job[p].write = NoWrite
            \/ /\ job[p].run \in Runs /\ GoodWrite(job[p].write)
               /\ InstanceOf(job[p].run) = InstanceOf(job[p].next)
    /\ pc[p] = "updating" => GoodWrite(job[p].write)

MemoryOK == /\ pc \in [Procs -> Place]
            /\ job \in [Procs -> Job]
            /\ \A p \in Procs : Remembers(p)

-----------------------------------------------------------------------------
(* Effects                                                                 *)

\* Worker w is about to invoke the adapter, or about to decide whether to.
Executing(w) == pc[w] \in {"handling", "invoking"}

\* An adapter is invoked by the one worker that started the attempt, which has
\* not invoked it before.
EffectInv ==
    /\ effects \in [Runs -> 0..1]
    /\ \A r \in Runs : effects[r] # 0 => starts[r] # 0
    /\ \A p \in Procs : Executing(p) => effects[job[p].run] = 0 /\ starts[job[p].run] # 0
    /\ \A p, q \in Procs : Executing(p) /\ Executing(q) /\ job[p].run = job[q].run => p = q

\* The conjunction the proofs carry through every step of the kernel: at most
\* one thread of control per instance, jobs that are what the ledger was asked
\* for, and effects that are counted by the starts of their attempts.
KernelInv == ThreadInv /\ MemoryOK /\ EffectInv
=============================================================================
