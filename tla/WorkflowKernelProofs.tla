------------------------- MODULE WorkflowKernelProofs -------------------------
(***************************************************************************)
(* What the kernel guarantees for every number of workers, clerks,         *)
(* instances, stages and attempts, whatever processes die and operators    *)
(* repair: it uses the ledger as the ledger allows, and an instance has    *)
(* one thread of control.                                                  *)
(***************************************************************************)
EXTENDS WorkflowKernelInvariant, WorkflowLedgerProofs

-----------------------------------------------------------------------------
(* What a step does to the threads of control                              *)

\* No attempt is inserted and none becomes live.
RowsKept == \A r \in Runs : /\ Present(r)' <=> Present(r)
                            /\ Live(r)' => Live(r)

\* Attempt x is inserted, and is the only live one of its instance.
RowAppended(x) ==
    /\ x \in Runs /\ IsNextAttempt(x)
    /\ Present(x)'
    /\ \A r \in Runs \ {x} : /\ Present(r)' <=> Present(r)
                             /\ Live(r)' => Live(r) /\ InstanceOf(r) # InstanceOf(x)

\* A process that moves an instance on did so before.
KeepsMoving(p) == Moving(p)' =>
    /\ Moving(p) /\ Where(p)' = Where(p)
    /\ pc'[p] = "inserting" => IsNextAttempt(job'[p].next)

\* No instance is deleted.
InstancesKept == \A i \in Instances :
    instance'[i].status = "absent" => instance[i].status = "absent"

\* An attempt is the attempt of its stage with its number.
LEMMA RunsAreTriples ==
    ASSUME NEW r \in Runs
    PROVE  /\ r = <<r[1], r[2], r[3]>> /\ r # <<>>
           /\ InstanceOf(r) \in Instances /\ StageOf(r) \in Stages
           /\ AttemptOf(r) \in Attempts
           /\ \A n \in Attempts : /\ <<r[1], r[2], n>> \in Runs
                                  /\ InstanceOf(<<r[1], r[2], n>>) = InstanceOf(r)
BY DEF Runs, InstanceOf, StageOf, AttemptOf

\* With the same rows present, the same attempts are latest and next.
LEMMA SameRowsSameNumbers ==
    ASSUME NEW r \in Runs,
           \A q \in Runs : InstanceOf(q) = InstanceOf(r) => (Present(q)' <=> Present(q))
    PROVE  /\ IsLatestAttempt(r)' <=> IsLatestAttempt(r)
           /\ IsNextAttempt(r)' <=> IsNextAttempt(r)
<1>1. \A n \in Attempts : Present(<<r[1], r[2], n>>)' <=> Present(<<r[1], r[2], n>>)
  BY RunsAreTriples
<1>2. Present(r)' <=> Present(r)
  OBVIOUS
<1>3. AttemptOf(r) > 1 => r[3] - 1 \in Attempts
  BY BoundsAreNat DEF Runs, Attempts, AttemptOf
<1>4. IsLatestAttempt(r)' <=> IsLatestAttempt(r)
  BY <1>1, <1>2 DEF IsLatestAttempt, AttemptOf
<1>5. IsNextAttempt(r)' <=> IsNextAttempt(r)
  BY <1>1, <1>3 DEF IsNextAttempt, AttemptOf
<1> QED BY <1>4, <1>5

\* A live attempt is present and is the latest of its stage.
LEMMA LiveIsLatest ==
    ASSUME OpenIsLatest, NEW r \in Runs, Live(r)
    PROVE  Present(r) /\ IsLatestAttempt(r)
BY DEF OpenIsLatest, Live, Open, Resumable, IsLatestAttempt

\* Live attempts may change their status, the others keep it.
LEMMA OnlyLiveRowsMove ==
    ASSUME OpenIsLatest,
           \A r \in Runs : \/ run'[r].status = run[r].status
                           \/ Live(r) /\ run'[r].status # "absent"
    PROVE  RowsKept
<1>1. \A r \in Runs : Present(r)' <=> Present(r)
  BY LiveIsLatest DEF Present
<1>2. ASSUME NEW r \in Runs, Live(r)' PROVE Live(r)
  <2>1. CASE run'[r].status = run[r].status
    <3>1. IsLatestAttempt(r)' <=> IsLatestAttempt(r)
      BY <1>1, SameRowsSameNumbers
    <3> QED BY <1>2, <2>1, <3>1 DEF Live, Open, Resumable
  <2> QED BY <2>1
<1> QED BY <1>1, <1>2 DEF RowsKept

\* An attempt is appended behind the one live attempt of the instance, which is
\* given up, or to an instance without one.
LEMMA OneRowAppended ==
    ASSUME OpenIsLatest, NEW x \in Runs, IsNextAttempt(x), run'[x].status = "queued",
           \A r \in Runs \ {x} :
             /\ run'[r].status = run[r].status \/ (Live(r) /\ InstanceOf(r) = InstanceOf(x))
             /\ Live(r) /\ InstanceOf(r) = InstanceOf(x) =>
                  /\ StageOf(r) = StageOf(x)
                  /\ run'[r].status \in {"blocked", "failed", "invalid_output"}
    PROVE  RowAppended(x)
<1>1. Present(x)' /\ ~Present(x)
  <2>1. ~Present(<<x[1], x[2], AttemptOf(x)>>)
    BY RunsAreTriples, BoundsAreNat DEF IsNextAttempt, Attempts, AttemptOf
  <2> QED BY <2>1, RunsAreTriples DEF Present, AttemptOf
<1>2. ASSUME NEW r \in Runs \ {x} PROVE Present(r)' <=> Present(r)
  BY <1>2, LiveIsLatest DEF Present
<1>3. ASSUME NEW r \in Runs \ {x}, Live(r)'
      PROVE  Live(r) /\ InstanceOf(r) # InstanceOf(x)
  <2>1. Open(r)' \/ IsLatestAttempt(r)'
    BY <1>3 DEF Live, Resumable
  <2>2. CASE InstanceOf(r) # InstanceOf(x)
    <3>1. IsLatestAttempt(r)' <=> IsLatestAttempt(r)
      BY <1>2, <2>2, SameRowsSameNumbers
    <3> QED BY <1>3, <2>2, <3>1 DEF Live, Open, Resumable
  <2>3. CASE InstanceOf(r) = InstanceOf(x) /\ Live(r)
    <3>1. StageOf(r) = StageOf(x) /\ ~Open(r)'
      BY <2>3 DEF Open, Unfinished, ActiveLease
    <3>2. Present(r)
      BY <2>3, LiveIsLatest
    <3>3. AttemptOf(r) < AttemptOf(x)
      <4>1. r = <<x[1], x[2], AttemptOf(r)>>
        BY <2>3, <3>1, RunsAreTriples DEF InstanceOf, StageOf, AttemptOf
      <4>2. AttemptOf(r) \in Nat /\ AttemptOf(x) \in Nat /\ AttemptOf(r) \in Attempts
        BY RunsAreTriples DEF Attempts
      <4> QED BY <3>2, <4>1, <4>2 DEF IsNextAttempt
    <3>4. ~IsLatestAttempt(r)'
      <4>1. x = <<r[1], r[2], AttemptOf(x)>> /\ AttemptOf(x) \in Attempts
        BY <2>3, <3>1, RunsAreTriples DEF InstanceOf, StageOf, AttemptOf
      <4> QED BY <1>1, <3>3, <4>1 DEF IsLatestAttempt
    <3> QED BY <2>1, <3>1, <3>4
  <2>4. CASE InstanceOf(r) = InstanceOf(x) /\ ~Live(r)
    <3>1. run'[r].status = run[r].status
      BY <2>4
    <3>2. IsLatestAttempt(r)' => IsLatestAttempt(r)
      <4>1. \A n \in Attempts : Present(<<r[1], r[2], n>>) => Present(<<r[1], r[2], n>>)'
        BY <1>1, <1>2, RunsAreTriples
      <4> QED BY <1>2, <4>1 DEF IsLatestAttempt, AttemptOf
    <3> QED BY <1>3, <2>4, <3>1, <3>2 DEF Live, Open, Resumable
  <2> QED BY <2>2, <2>3, <2>4
<1> QED BY <1>1, <1>2, <1>3 DEF RowAppended

\* A step after which no attempt is live and no process moving that was not so
\* before.
LEMMA ThreadsKept ==
    ASSUME ThreadInv, RowsKept, InstancesKept,
           \A p \in Procs : KeepsMoving(p)
    PROVE  ThreadInv'
<1> USE DEF ThreadInv
<1>1. OneThread'
  BY DEF OneThread, RowsKept, KeepsMoving
<1>2. OpenIsLatest'
  <2> SUFFICES ASSUME NEW r \in Runs, Open(r)' PROVE IsLatestAttempt(r)'
    BY DEF OpenIsLatest
  <2>1. Live(r)
    BY DEF RowsKept, Live
  <2> QED BY <2>1, LiveIsLatest, SameRowsSameNumbers DEF RowsKept
<1>3. NextIsFree'
  <2> SUFFICES ASSUME NEW p \in Procs, NEW x \in Runs,
                      pc'[p] = "inserting", job'[p].next = x
               PROVE  IsNextAttempt(x)'
    BY DEF NextIsFree
  <2>1. IsNextAttempt(x)
    BY DEF KeepsMoving, Moving
  <2> QED BY <2>1, SameRowsSameNumbers DEF RowsKept
<1>4. NothingBeforeStart'
  BY DEF NothingBeforeStart, RowsKept, KeepsMoving, InstancesKept
<1> QED BY <1>1, <1>2, <1>3, <1>4

\* The process p takes over the thread of control of instance i.
LEMMA ThreadTakenOver ==
    ASSUME ThreadInv, RowsKept, InstancesKept,
           NEW p \in Procs, \A q \in Procs \ {p} : KeepsMoving(q),
           NEW i \in Instances, Where(p)' = i, instance'[i].status # "absent",
           pc'[p] = "inserting" => IsNextAttempt(job'[p].next),
           \A r \in Runs : Live(r)' => InstanceOf(r) # i,
           \A q \in Procs : Moving(q) => Where(q) # i
    PROVE  ThreadInv'
<1> USE DEF ThreadInv
<1>1. OneThread'
  BY DEF OneThread, RowsKept, KeepsMoving
<1>2. OpenIsLatest'
  <2> SUFFICES ASSUME NEW r \in Runs, Open(r)' PROVE IsLatestAttempt(r)'
    BY DEF OpenIsLatest
  <2>1. Live(r)
    BY DEF RowsKept, Live
  <2> QED BY <2>1, LiveIsLatest, SameRowsSameNumbers DEF RowsKept
<1>3. NextIsFree'
  <2> SUFFICES ASSUME NEW q \in Procs, NEW x \in Runs,
                      pc'[q] = "inserting", job'[q].next = x
               PROVE  IsNextAttempt(x)'
    BY DEF NextIsFree
  <2>1. IsNextAttempt(x)
    BY DEF KeepsMoving, Moving
  <2> QED BY <2>1, SameRowsSameNumbers DEF RowsKept
<1>4. NothingBeforeStart'
  <2> SUFFICES ASSUME NEW k \in Instances, instance'[k].status = "absent"
               PROVE  /\ \A r \in Runs : InstanceOf(r) = k => ~Present(r)'
                      /\ \A q \in Procs : Moving(q)' => Where(q)' # k
    BY DEF NothingBeforeStart
  <2>1. instance[k].status = "absent" /\ k # i
    BY DEF InstancesKept
  <2> QED BY <2>1 DEF NothingBeforeStart, RowsKept, KeepsMoving
<1> QED BY <1>1, <1>2, <1>3, <1>4

\* Attempt x is the new thread of control of its instance, which no process
\* moves on any longer.
LEMMA ThreadHandedOn ==
    ASSUME ThreadInv, InstancesKept,
           NEW x, RowAppended(x), instance'[InstanceOf(x)].status # "absent",
           \A p \in Procs : KeepsMoving(p),
           \A p \in Procs : Moving(p)' => Where(p)' # InstanceOf(x)
    PROVE  ThreadInv'
<1> USE DEF ThreadInv
<1>0. x \in Runs
  BY DEF RowAppended
<1>1. OneThread'
  BY DEF OneThread, RowAppended, KeepsMoving
<1>2. OpenIsLatest'
  <2> SUFFICES ASSUME NEW r \in Runs, Open(r)' PROVE IsLatestAttempt(r)'
    BY DEF OpenIsLatest
  <2>1. CASE r # x
    <3>1. Live(r) /\ InstanceOf(r) # InstanceOf(x)
      BY <2>1 DEF RowAppended, Live
    <3> QED BY <3>1, LiveIsLatest, SameRowsSameNumbers DEF RowAppended
  <2>2. CASE r = x
    <3> SUFFICES ASSUME NEW n \in Attempts, n > AttemptOf(x)
                 PROVE  ~Present(<<x[1], x[2], n>>)'
      BY <2>2 DEF RowAppended, IsLatestAttempt
    <3>1. <<x[1], x[2], n>> \in Runs \ {x}
      BY <1>0, RunsAreTriples, BoundsAreNat DEF AttemptOf, Attempts
    <3>2. ~Present(<<x[1], x[2], n>>)
      BY <1>0, RunsAreTriples, BoundsAreNat DEF RowAppended, IsNextAttempt, Attempts
    <3> QED BY <3>1, <3>2 DEF RowAppended
  <2> QED BY <2>1, <2>2
<1>3. NextIsFree'
  <2> SUFFICES ASSUME NEW p \in Procs, NEW y \in Runs,
                      pc'[p] = "inserting", job'[p].next = y
               PROVE  IsNextAttempt(y)'
    BY DEF NextIsFree
  <2>1. IsNextAttempt(y) /\ InstanceOf(y) # InstanceOf(x)
    BY DEF KeepsMoving, Moving, Where
  <2>2. \A q \in Runs : InstanceOf(q) = InstanceOf(y) => (Present(q)' <=> Present(q))
    BY <2>1 DEF RowAppended
  <2> QED BY <2>1, <2>2, SameRowsSameNumbers
<1>4. NothingBeforeStart'
  BY DEF NothingBeforeStart, RowAppended, KeepsMoving, InstancesKept
<1> QED BY <1>1, <1>2, <1>3, <1>4

-----------------------------------------------------------------------------
(* What a step does to the memory of one process                           *)

\* What the processes remember stays true when none of them takes part.
LEMMA AllRemember ==
    ASSUME MemoryOK, grants \subseteq grants', UNCHANGED <<pc, job>>
    PROVE  MemoryOK'
BY DEF MemoryOK, Remembers

\* The call of process p goes on at `to` with j in memory.
GoesOn(p, to, j) == /\ pc' = [pc EXCEPT ![p] = to]
                    /\ job' = [job EXCEPT ![p] = j]

\* Effects stay counted while nobody new is about to cause one.
LEMMA EffectsKept ==
    ASSUME EffectInv, UNCHANGED effects, \A r \in Runs : starts[r] # 0 => starts'[r] # 0,
           \A p \in Procs : Executing(p)' =>
             Executing(p) /\ job'[p].run = job[p].run /\ job[p].run \in Runs
    PROVE  EffectInv'
BY DEF EffectInv

\* A process that takes no part in a step keeps moving its instance.
LEMMA OthersKeepMoving ==
    ASSUME KernelInv, NEW p \in Procs, NEW to, NEW j, GoesOn(p, to, j)
    PROVE  \A q \in Procs \ {p} : KeepsMoving(q)
<1> SUFFICES ASSUME NEW q \in Procs \ {p} PROVE KeepsMoving(q)
  OBVIOUS
<1>1. pc'[q] = pc[q] /\ job'[q] = job[q]
  BY DEF GoesOn, KernelInv, MemoryOK
<1> QED
  BY <1>1 DEF KeepsMoving, Moving, Where, KernelInv, ThreadInv, NextIsFree, MemoryOK, Remembers

\* Nobody moves when nobody takes part.
LEMMA AllKeepMoving ==
    ASSUME KernelInv, UNCHANGED <<pc, job>>
    PROVE  \A p \in Procs : KeepsMoving(p)
BY DEF KeepsMoving, Moving, Where, KernelInv, ThreadInv, NextIsFree, MemoryOK, Remembers

\* A process that goes on remembers what it should when what it then remembers
\* is right.
LEMMA OneRemembers ==
    ASSUME MemoryOK, grants \subseteq grants', NEW p \in Procs, NEW to \in Place,
           NEW j \in Job, GoesOn(p, to, j), Remembers(p)'
    PROVE  /\ MemoryOK' /\ pc'[p] = to /\ job'[p] = j
           /\ \A q \in Procs \ {p} : pc'[q] = pc[q] /\ job'[q] = job[q]
<1>1. /\ pc'[p] = to /\ job'[p] = j
      /\ \A q \in Procs \ {p} : pc'[q] = pc[q] /\ job'[q] = job[q]
  BY DEF GoesOn, MemoryOK
<1>2. pc' \in [Procs -> Place] /\ job' \in [Procs -> Job]
  BY DEF GoesOn, MemoryOK
<1>3. ASSUME NEW q \in Procs \ {p} PROVE Remembers(q)'
  BY <1>1, <1>3 DEF MemoryOK, Remembers
<1> QED BY <1>1, <1>2, <1>3 DEF MemoryOK

\* Effects stay counted when the process that goes on starts no execution.
LEMMA OneCausesNothing ==
    ASSUME EffectInv, MemoryOK, UNCHANGED effects,
           \A r \in Runs : starts[r] # 0 => starts'[r] # 0,
           NEW p \in Procs, pc'[p] \in {"handling", "invoking"} =>
             Executing(p) /\ job'[p].run = job[p].run,
           \A q \in Procs \ {p} : pc'[q] = pc[q] /\ job'[q] = job[q]
    PROVE  EffectInv'
<1>1. ASSUME NEW q \in Procs, Executing(q)'
      PROVE  Executing(q) /\ job'[q].run = job[q].run /\ job[q].run \in Runs
  <2>1. Executing(q) /\ job'[q].run = job[q].run
    BY <1>1 DEF Executing
  <2>2. job[q].run \in Runs
    BY <2>1 DEF Executing, MemoryOK, Remembers, Claiming
  <2> QED BY <2>1, <2>2
<1> QED BY <1>1, EffectsKept

\* One process goes on, moving no instance and starting no attempt, while rows
\* keep to what they were or move on.
LEMMA OneProcessGoesOn ==
    ASSUME KernelInv, RowsKept, InstancesKept, grants \subseteq grants', UNCHANGED effects,
           \A r \in Runs : starts[r] # 0 => starts'[r] # 0,
           NEW p \in Procs, NEW to \in Place, NEW j \in Job, GoesOn(p, to, j),
           Remembers(p)', to \notin {"advancing", "inserting"},
           to \in {"handling", "invoking"} => Executing(p) /\ j.run = job[p].run
    PROVE  KernelInv'
<1> USE DEF KernelInv
<1>1. /\ MemoryOK' /\ pc'[p] = to /\ job'[p] = j
      /\ \A q \in Procs \ {p} : pc'[q] = pc[q] /\ job'[q] = job[q]
  BY OneRemembers
<1>2. ThreadInv'
  <2>1. KeepsMoving(p)
    BY <1>1 DEF KeepsMoving, Moving
  <2> QED BY <2>1, OthersKeepMoving, ThreadsKept
<1>3. EffectInv'
  BY <1>1, OneCausesNothing
<1> QED BY <1>1, <1>2, <1>3

\* A process between two calls has an empty memory.
LEMMA NoJobIsJob == NoJob \in Job
<1>1. NoWrite \in [status : InstanceStatus \cup {"none"}, stage : Stages \cup {NoStage}]
  BY DEF NoWrite
<1>2. NoGrant \in Grant \cup {NoGrant} /\ <<>> \in Runs \cup {<<>>}
  OBVIOUS
<1> HIDE DEF NoWrite
<1> QED BY <1>1, <1>2 DEF NoJob, Job, JobVerdicts

\* A process with nothing left to do, or that dies, remembers nothing.
LEMMA OneProcessEnds ==
    ASSUME KernelInv, RowsKept, InstancesKept, grants \subseteq grants', UNCHANGED effects,
           \A r \in Runs : starts[r] # 0 => starts'[r] # 0,
           NEW p \in Procs, NEW to, to \in {"idle", "swept"}, GoesOn(p, to, NoJob)
    PROVE  KernelInv'
<1>1. Remembers(p)'
  <2>1. pc'[p] = to
    BY DEF GoesOn, KernelInv, MemoryOK
  <2> QED BY <2>1 DEF Remembers, Claiming
<1>2. /\ to \in Place /\ to \notin {"advancing", "inserting"}
      /\ to \notin {"handling", "invoking"}
  BY DEF Place
<1> QED BY <1>1, <1>2, NoJobIsJob, OneProcessGoesOn

\* No process takes part.
LEMMA NobodyGoesOn ==
    ASSUME KernelInv, ThreadInv', grants \subseteq grants', UNCHANGED <<pc, job, effects>>,
           \A r \in Runs : starts[r] # 0 => starts'[r] # 0
    PROVE  KernelInv'
<1>1. MemoryOK'
  BY AllRemember DEF KernelInv
<1>2. ASSUME NEW p \in Procs, Executing(p)' PROVE job[p].run \in Runs
  BY <1>2 DEF Executing, KernelInv, MemoryOK, Remembers, Claiming
<1>3. EffectInv'
  BY <1>2, EffectsKept DEF KernelInv, Executing
<1> QED BY <1>1, <1>3 DEF KernelInv

-----------------------------------------------------------------------------
(* Every step of the kernel is a call of the ledger, or none               *)

\* A caller may pass the time it reads now.
LEMMA NowIsACallTime == ASSUME TypeOK PROVE now \in CallTimes
BY BoundsAreNat DEF TypeOK, CallTimes

\* A settlement is one of the ledger's, made by a worker with its claim.
LEMMA SettleUsesLedger ==
    ASSUME TypeOK, NEW g \in grants, NEW v \in HandlerVerdicts, SettleBy(g, v)
    PROVE  LeaseStep
<1>1. now \in CallTimes
  BY NowIsACallTime
<1> QED
  BY <1>1 DEF SettleBy, HandlerVerdicts, LeaseStep, HandlerFailures

\* run_once uses the ledger as it allows, up to the settlement of the attempt.
LEMMA WorkUsesLedger ==
    ASSUME TypeOK, KernelInv, NEW w \in Workers, Work(w)
    PROVE  [Next]_vars
<1>0. /\ now \in CallTimes /\ w \in Owners /\ w \in Procs /\ Remembers(w)
  BY NowIsACallTime, ProcessesAreOwners DEF KernelInv, MemoryOK, Procs
<1>1. CASE SweepFirst(w)
  BY <1>0, <1>1 DEF SweepFirst, Next, RecoveryStep
<1>2. CASE Claim(w)
  BY <1>0, <1>2 DEF Claim, Next, QueueStep
<1>3. CASE MarkStarted(w)
  BY <1>0, <1>3 DEF MarkStarted, Authorises, Next, LeaseStep
<1>4. CASE NothingToClaim(w) \/ HandlerStopsEarly(w) \/ InvokeAdapter(w)
  BY <1>4 DEF NothingToClaim, HandlerStopsEarly, InvokeAdapter
<1>5. CASE RecordInvocation(w)
  BY <1>5 DEF RecordInvocation, RecordAdapterInvocation, Next, LeaseStep
<1>6. CASE ReportReceipt(w)
  BY <1>6 DEF ReportReceipt, RecordHandlerReceipt, Next, LeaseStep
<1>7. CASE SettleAttempt(w)
  <2>1. job[w].grant \in grants /\ job[w].verdict \in HandlerVerdicts
    BY <1>0, <1>7 DEF SettleAttempt, Remembers, Claiming
  <2>2. SettleBy(job[w].grant, job[w].verdict) \/ UNCHANGED vars
    BY <1>7 DEF SettleAttempt
  <2> QED BY <2>1, <2>2, SettleUsesLedger DEF Next
<1> QED BY <1>1, <1>2, <1>3, <1>4, <1>5, <1>6, <1>7 DEF Work

\* So does a process that moves an instance on.
LEMMA FinishUsesLedger ==
    ASSUME TypeOK, KernelInv, NEW p \in Procs, Finish(p)
    PROVE  [Next]_vars
<1>0. Remembers(p)
  BY DEF KernelInv, MemoryOK
<1>1. CASE Advance(p)
  BY <1>1 DEF Advance
<1>2. CASE QueueStage(p)
  <2>1. job[p].next \in Runs /\ IsNextAttempt(job[p].next)
    BY <1>0, <1>2 DEF QueueStage, Remembers, KernelInv, ThreadInv, NextIsFree
  <2>2. InsertStageRun(job[p].next) \/ UNCHANGED vars
    BY <1>2 DEF QueueStage
  <2> QED BY <2>1, <2>2 DEF Next, QueueStep
<1>3. CASE WriteInstance(p)
  <2>1. /\ InstanceOf(job[p].run) \in Instances /\ GoodWrite(job[p].write)
    BY <1>0, <1>3, RunsAreTriples DEF WriteInstance, Remembers
  <2>2. UpdateWorkflowInstance(InstanceOf(job[p].run), job[p].write.status, job[p].write.stage)
    BY <1>3 DEF WriteInstance
  <2>3. InstanceStep
    BY <2>1, <2>2 DEF InstanceStep, GoodWrite
  <2> QED BY <2>3 DEF Next
<1> QED BY <1>1, <1>2, <1>3 DEF Finish

\* So do the start of a workflow and the operators.
LEMMA StartUsesLedger ==
    ASSUME NEW p \in Procs, NEW i \in Instances, StartWorkflow(p, i)
    PROVE  Next
BY WorkflowIsWellFormed DEF StartWorkflow, Next, InstanceStep

LEMMA OperateUsesLedger == Operate => Next
BY DEF Operate, Next, InstanceStep, OperatorStep, RecoveryStep

\* So does the ingestion of decisions.
LEMMA DecisionUsesLedger ==
    ASSUME KernelInv, NEW c \in Procs, RecordDecision(c) \/ CompleteGate(c)
    PROVE  [Next]_vars
<1>1. job[c].run \in Runs
  BY DEF KernelInv, MemoryOK, Remembers, RecordDecision, CompleteGate
<1> QED BY <1>1 DEF RecordDecision, CompleteGate, Next, GateStep

\* Whatever a process, an operator or the clock does, the ledger allows it.
LEMMA KernelUsesLedger == TypeOK /\ KernelInv /\ [KNext]_kvars => [Next]_vars
<1> SUFFICES ASSUME TypeOK, KernelInv, [KNext]_kvars PROVE [Next]_vars
  OBVIOUS
<1>1. ASSUME NEW c \in Clerks, Ingest(c) PROVE [Next]_vars
  BY <1>1, DecisionUsesLedger DEF Ingest, FindWaitingGate, Procs
<1>2. ASSUME NEW p \in Procs, Crash(p) PROVE [Next]_vars
  BY <1>2 DEF Crash
<1>3. PublishGate => Next
  BY DEF PublishGate, Next, GateStep
<1>4. PassTime => Next
  BY DEF PassTime, Next
<1>5. UNCHANGED kvars => UNCHANGED vars
  BY DEF kvars
<1> QED
  BY <1>1, <1>2, <1>3, <1>4, <1>5, WorkUsesLedger, FinishUsesLedger,
     StartUsesLedger, OperateUsesLedger DEF KNext

\* No call of the ledger deletes an instance.
LEMMA InstancesStay == TypeOK /\ [Next]_vars => InstancesKept
<1> SUFFICES ASSUME TypeOK, [Next]_vars PROVE InstancesKept
  OBVIOUS
<1> USE DEF TypeOK
<1>1. ASSUME NEW i \in Instances, NEW status, NEW s, Stand(i, status, s), status # "absent"
      PROVE  InstancesKept
  BY <1>1 DEF Stand, InstancesKept, InstanceRow
<1>2. ASSUME NEW i \in Instances, NEW s, Resume(i, s)
      PROVE  InstancesKept
  BY <1>2 DEF Resume, InstancesKept, InstanceRow
<1>3. UNCHANGED instance => InstancesKept
  BY DEF InstancesKept
<1>4. InstanceStep => InstancesKept
  <2> SUFFICES ASSUME NEW i \in Instances,
                      \E status, s : Stand(i, status, s) /\ status # "absent"
               PROVE  InstancesKept
    BY DEF InstanceStep, InsertWorkflowInstance, UpdateWorkflowInstance,
       CancelWorkflowInstance, ParkStaleWorkflowInstance, TerminalInstance
  <2> QED BY <1>1
<1>5. QueueStep => UNCHANGED instance
  BY DEF QueueStep, InsertStageRun, ClaimNextQueuedRun
<1>6. LeaseStep => UNCHANGED instance
  <2>1. \A g, row : Settle(g, row) => UNCHANGED instance
    BY DEF Settle
  <2>2. \A g, at : /\ CompleteStageRun(g, at) => UNCHANGED instance
                   /\ WaitStageRunForHumanDecision(g, at) => UNCHANGED instance
                   /\ \A f : FailStageRun(g, f, at) => UNCHANGED instance
                   /\ \A f, a : BlockStageRun(g, f, a, at) => UNCHANGED instance
    BY <2>1 DEF CompleteStageRun, WaitStageRunForHumanDecision, FailStageRun, BlockStageRun
  <2>3. \A g, f, d, at : ScheduleRetry(g, f, d, at) => UNCHANGED instance
    BY DEF ScheduleRetry
  <2>4. \A g, at : RenewLease(g, at) \/ MarkStageRunStarted(g, at) => UNCHANGED instance
    BY DEF RenewLease, MarkStageRunStarted
  <2>5. \A g : RecordAdapterInvocation(g) \/ RecordHandlerReceipt(g) => UNCHANGED instance
    BY DEF RecordAdapterInvocation, RecordHandlerReceipt
  <2> QED BY <2>2, <2>3, <2>4, <2>5 DEF LeaseStep
<1>7. RecoveryStep => InstancesKept
  <2>1. ASSUME NEW at \in CallTimes, SweepStaleLeases(at) PROVE InstancesKept
    <3>1. \A i \in Instances :
            instance'[i].status = IF SweepBlocks(i, at) THEN "blocked" ELSE instance[i].status
      BY <2>1 DEF SweepStaleLeases, InstanceRow
    <3> QED BY <3>1 DEF InstancesKept
  <2>2. TerminalizeBlockedCurrentStages => InstancesKept
    BY DEF TerminalizeBlockedCurrentStages, InstancesKept, InstanceRow
  <2> QED BY <2>1, <2>2 DEF RecoveryStep
<1>8. GateStep => UNCHANGED instance
  BY DEF GateStep, RecordPublishReceipt, RecordHumanDecision, CompleteWaitingHumanStageRun
<1>9. OperatorStep => InstancesKept
  <2> SUFFICES ASSUME NEW r \in Runs, NEW i, i = InstanceOf(r),
                      \/ RetryBlockedHumanGate(r) \/ ReissueWaitingHumanGate(r)
                      \/ RestorePublishedHumanGateWaiting(r)
                      \/ \E reauthorised, diagnostic \in BOOLEAN :
                           RetryBlockedStageWithoutEffect(r, reauthorised, diagnostic)
                      \/ \E c \in Runs : QueueLocalPreparationRepair(r, c)
               PROVE  InstancesKept
    BY DEF OperatorStep
  <2>1. i \in Instances
    BY RunsAreTriples
  <2>2. (\E s : Resume(i, s)) \/ (\E s : Stand(i, "waiting_on_human", s))
    BY DEF RetryBlockedHumanGate, ReissueWaitingHumanGate,
       RestorePublishedHumanGateWaiting, RetryBlockedStageWithoutEffect,
       QueueLocalPreparationRepair
  <2> QED BY <1>1, <1>2, <2>1, <2>2
<1>10. (Tick \/ UNCHANGED vars) => UNCHANGED instance
  BY DEF Tick, vars, ledger
<1> QED
  BY <1>3, <1>4, <1>5, <1>6, <1>7, <1>8, <1>9, <1>10 DEF Next

-----------------------------------------------------------------------------
(* What the calls of the ledger do to live attempts                        *)

\* Nothing becomes live where no row is written ...
LEMMA QuietKeepsRows == ASSUME UNCHANGED run PROVE RowsKept
BY DEF RowsKept, Live, Open, Resumable, IsLatestAttempt, Present

\* ... where one live attempt moves on ...
LEMMA OneLiveRowMoves ==
    ASSUME TypeOK, OpenIsLatest, NEW r \in Runs, Live(r), NEW row, row.status # "absent",
           run' = [run EXCEPT ![r] = row]
    PROVE  RowsKept /\ run'[r].status = row.status
<1>1. \A q \in Runs : run'[q].status = run[q].status \/ q = r
  BY DEF TypeOK
<1>2. run'[r].status = row.status
  BY DEF TypeOK
<1> QED BY <1>1, <1>2, OnlyLiveRowsMove

\* ... where a worker settles its attempt ...
LEMMA SettledRowsKept ==
    ASSUME TypeOK, OpenIsLatest, NEW g \in grants, Authorises(g, ActiveLease, now),
           NEW row, Settle(g, row), row.status # "absent"
    PROVE  RowsKept /\ run'[g.run].status = row.status
<1>1. g.run \in Runs /\ Live(g.run)
  BY DEF TypeOK, Grant, Authorises, Live, Open, Unfinished
<1> QED BY <1>1, OneLiveRowMoves DEF Settle

\* ... where leases are swept ...
LEMMA SweepKeepsRows ==
    ASSUME TypeOK, LedgerInv, OpenIsLatest, NEW at, SweepStaleLeases(at)
    PROVE  RowsKept
<1> SUFFICES ASSUME NEW r \in Runs
             PROVE  \/ run'[r].status = run[r].status
                    \/ Live(r) /\ run'[r].status # "absent"
  BY OnlyLiveRowsMove
<1>1. CASE ~Expired(r, at)
  BY <1>1 DEF SweepStaleLeases
<1>2. CASE Expired(r, at)
  <2>1. Live(r)
    BY <1>2 DEF Expired, LedgerInv, LeaseIffActive, Live, Open, Unfinished
  <2>2. run'[r] = Recovered(r) /\ run[r] \in Row
    BY <1>2 DEF SweepStaleLeases, TypeOK
  <2>3. Recovered(r).status \in {"queued", "blocked"}
    BY <2>2, ReleasedRow DEF Recovered, RunStatus, Row
  <2> QED BY <2>1, <2>2, <2>3
<1> QED BY <1>1, <1>2

\* ... and where cancel and park retire what is open.
LEMMA SupersedingKeepsRows ==
    ASSUME TypeOK, OpenIsLatest, NEW i, run' = Superseded(i)
    PROVE  RowsKept
<1> SUFFICES ASSUME NEW r \in Runs
             PROVE  \/ run'[r].status = run[r].status
                    \/ Live(r) /\ run'[r].status # "absent"
  BY OnlyLiveRowsMove
<1>1. CASE InstanceOf(r) = i /\ run[r].status \in Unfinished
  <2>1. run'[r].status = "superseded"
    BY <1>1 DEF Superseded, Released, TypeOK, Row
  <2> QED BY <1>1, <2>1 DEF Live, Open
<1>2. CASE ~(InstanceOf(r) = i /\ run[r].status \in Unfinished)
  BY <1>2 DEF Superseded
<1> QED BY <1>1, <1>2

\* An attempt that an operator or a retry appends behind the live attempt of an
\* instance takes over from it.
LEMMA AppendedBehindLive ==
    ASSUME ThreadInv, NEW r \in Runs, Live(r), NEW x \in Runs, IsNextAttempt(x),
           InstanceOf(x) = InstanceOf(r), StageOf(x) = StageOf(r), x # r,
           run'[r].status \in {"blocked", "failed", "invalid_output"},
           run'[x].status = "queued",
           \A q \in Runs \ {r, x} : run'[q] = run[q]
    PROVE  RowAppended(x)
<1>2. \A q \in Runs : Live(q) /\ InstanceOf(q) = InstanceOf(x) => q = r
  BY DEF ThreadInv, OneThread
<1>3. ASSUME NEW q \in Runs \ {x}
      PROVE  /\ run'[q].status = run[q].status \/ (Live(q) /\ InstanceOf(q) = InstanceOf(x))
             /\ Live(q) /\ InstanceOf(q) = InstanceOf(x) =>
                  /\ StageOf(q) = StageOf(x)
                  /\ run'[q].status \in {"blocked", "failed", "invalid_output"}
  <2>1. CASE q = r
    <3>1. /\ Live(r) /\ InstanceOf(r) = InstanceOf(x) /\ StageOf(r) = StageOf(x)
          /\ run'[r].status \in {"blocked", "failed", "invalid_output"}
      OBVIOUS
    <3> QED BY <2>1, <3>1
  <2>2. CASE q # r
    BY <1>2, <2>2
  <2> QED BY <2>1, <2>2
<1>4. OpenIsLatest
  BY DEF ThreadInv
<1> QED BY <1>3, <1>4, OneRowAppended

\* Behind a live attempt is the next attempt.
LEMMA NextOfLiveIsNext ==
    ASSUME NEW r \in Runs, IsLatestAttempt(r), NextOf(r) \in Runs
    PROVE  /\ IsNextAttempt(NextOf(r)) /\ NextOf(r) # r
           /\ InstanceOf(NextOf(r)) = InstanceOf(r) /\ StageOf(NextOf(r)) = StageOf(r)
<1>1. NextOf(r) = <<r[1], r[2], r[3] + 1>> /\ r[3] \in Nat
  BY DEF NextOf, Runs, Attempts
<1>2. NextOf(r)[3] - 1 = r[3] /\ r = <<r[1], r[2], r[3]>>
  BY <1>1, RunsAreTriples
<1>3. IsNextAttempt(NextOf(r))
  BY <1>1, <1>2, BoundsAreNat DEF IsLatestAttempt, IsNextAttempt, AttemptOf, Attempts
<1> QED BY <1>1, <1>2, <1>3 DEF InstanceOf, StageOf

-----------------------------------------------------------------------------
(* The steps of run_once keep the invariant                                *)

\* What is known of a state and of the step that leaves it.
Known == TypeOK /\ LedgerInv /\ KernelInv /\ TypeOK' /\ InstancesKept

\* A step of p, as the lemmas on memory speak of it.
LEMMA GotoGoesOn == ASSUME NEW p, NEW to, NEW j, Goto(p, to, j) PROVE GoesOn(p, to, j)
BY DEF Goto, GoesOn

\* The attempt a worker is on, and what it holds of it.
LEMMA WorkerRemembers ==
    ASSUME KernelInv, NEW w \in Workers, pc[w] \in Claiming
    PROVE  /\ w \in Procs /\ job[w] \in Job /\ Remembers(w)
           /\ job[w].grant \in grants /\ job[w].run = job[w].grant.run
           /\ job[w].run \in Runs /\ job[w].next = <<>>
BY DEF Procs, KernelInv, MemoryOK, Remembers

\* A sweep leaves every thread of control where it is or ends it.
LEMMA SweepFirstStep ==
    ASSUME Known, NEW w \in Workers, SweepFirst(w)
    PROVE  KernelInv'
<1> USE DEF Known
<1>1. RowsKept
  <2>1. ASSUME SweepStaleLeases(now) PROVE RowsKept
    BY <2>1, SweepKeepsRows DEF KernelInv, ThreadInv
  <2>2. UNCHANGED vars => RowsKept
    BY QuietKeepsRows DEF vars, ledger
  <2> QED BY <2>1, <2>2 DEF SweepFirst
<1>2. UNCHANGED <<grants, starts, effects>>
  BY DEF SweepFirst, SweepStaleLeases, vars, history
<1>3. w \in Procs /\ GoesOn(w, "swept", NoJob)
  BY GotoGoesOn DEF SweepFirst, Procs
<1> QED BY <1>1, <1>2, <1>3, OneProcessEnds

\* A claim is a claim of the worker that made it.
LEMMA ClaimByStep ==
    ASSUME Known, NEW w \in Workers, Claim(w)
    PROVE  KernelInv'
<1> USE DEF Known
<1>1. PICK r \in Runs :
        /\ ClaimNextQueuedRun(r, w, now)
        /\ \E g \in grants' \ grants :
             Goto(w, "claimed", [NoJob EXCEPT !.grant = g, !.run = r])
  BY DEF Claim
<1>2. PICK g \in grants' \ grants :
        Goto(w, "claimed", [NoJob EXCEPT !.grant = g, !.run = r])
  BY <1>1
<1> DEFINE j == [NoJob EXCEPT !.grant = g, !.run = r]
<1>3. RowsKept
  <2>1. Live(r)
    BY <1>1 DEF ClaimNextQueuedRun, Live, Open, Unfinished
  <2>2. \E row : row.status = "claimed" /\ run' = [run EXCEPT ![r] = row]
    <3> DEFINE row == [run[r] EXCEPT !.status = "claimed", !.owner = w,
                                     !.token = tokens + 1,
                                     !.expires = now + LeaseSeconds]
    <3>1. row.status = "claimed" /\ run' = [run EXCEPT ![r] = row]
      BY <1>1 DEF ClaimNextQueuedRun, TypeOK, Row
    <3> QED BY <3>1
  <2> QED BY <2>1, <2>2, OneLiveRowMoves DEF KernelInv, ThreadInv
<1>4. grants \subseteq grants' /\ UNCHANGED <<starts, effects>> /\ g.run = r
  BY <1>1, <1>2 DEF ClaimNextQueuedRun, history, Claim
<1>5. /\ j.grant = g /\ j.run = r /\ j.next = <<>> /\ j \in Job
  <2>1. g \in Grant
    BY <1>2 DEF TypeOK
  <2> QED BY <2>1, NoJobIsJob DEF Job, NoJob
<1>6. w \in Procs /\ "claimed" \in Place /\ GoesOn(w, "claimed", j)
  BY <1>2, GotoGoesOn DEF Procs, Place, Claiming
<1>7. Remembers(w)'
  <2>1. pc'[w] = "claimed" /\ job'[w] = j
    BY <1>6 DEF GoesOn, KernelInv, MemoryOK
  <2> HIDE DEF j
  <2> QED BY <1>2, <1>4, <1>5, <2>1 DEF Remembers
<1> HIDE DEF j
<1> QED BY <1>3, <1>4, <1>5, <1>6, <1>7, OneProcessGoesOn

\* A worker that keeps its attempt in hand keeps what it remembers of it.
LEMMA HandlerRemembers ==
    ASSUME Known, RowsKept, UNCHANGED grants, NEW w \in Workers, pc[w] \in Claiming,
           NEW to, to \in Claiming \ {"claimed"},
           NEW j, j = job[w] \/ (\E v \in HandlerVerdicts : j = [job[w] EXCEPT !.verdict = v]),
           to \in {"reporting", "settling"} => j.verdict \in HandlerVerdicts,
           GoesOn(w, to, j)
    PROVE  /\ MemoryOK' /\ ThreadInv'
           /\ pc'[w] = to /\ job'[w].run = job[w].run
           /\ \A q \in Procs \ {w} : pc'[q] = pc[q] /\ job'[q] = job[q]
<1> USE DEF Known
<1>1. /\ w \in Procs /\ job[w] \in Job /\ job[w].grant \in grants
      /\ job[w].run = job[w].grant.run /\ job[w].run \in Runs /\ job[w].next = <<>>
  BY WorkerRemembers
<1>2. j \in Job /\ j.grant = job[w].grant /\ j.run = job[w].run /\ j.next = job[w].next
  BY <1>1 DEF Job, JobVerdicts
<1>3. to \in Place /\ to \notin {"advancing", "inserting", "recording", "deciding", "updating"}
  BY DEF Place, Claiming
<1>4. Remembers(w)'
  <2>1. pc'[w] = to /\ job'[w] = j
    BY <1>1 DEF GoesOn, KernelInv, MemoryOK
  <2> QED BY <1>1, <1>2, <1>3, <2>1 DEF Remembers
<1>5. /\ MemoryOK' /\ pc'[w] = to /\ job'[w] = j
      /\ \A q \in Procs \ {w} : pc'[q] = pc[q] /\ job'[q] = job[q]
  BY <1>1, <1>2, <1>3, <1>4, OneRemembers DEF KernelInv
<1>6. ThreadInv'
  <2>1. KeepsMoving(w)
    BY <1>3, <1>5 DEF KeepsMoving, Moving
  <2> QED BY <1>1, <2>1, OthersKeepMoving, ThreadsKept DEF KernelInv
<1> QED BY <1>2, <1>5, <1>6

\* The same for a step that neither starts an execution nor invokes an adapter.
LEMMA HandlerGoesOn ==
    ASSUME Known, RowsKept, UNCHANGED <<grants, starts, effects>>,
           NEW w \in Workers, pc[w] \in Claiming, NEW to, to \in Claiming \ {"claimed"},
           to \in {"handling", "invoking"} => Executing(w),
           NEW j, j = job[w] \/ (\E v \in HandlerVerdicts : j = [job[w] EXCEPT !.verdict = v]),
           to \in {"reporting", "settling"} => j.verdict \in HandlerVerdicts,
           GoesOn(w, to, j)
    PROVE  KernelInv'
<1>1. /\ MemoryOK' /\ ThreadInv'
      /\ pc'[w] = to /\ job'[w].run = job[w].run
      /\ \A q \in Procs \ {w} : pc'[q] = pc[q] /\ job'[q] = job[q]
  BY HandlerRemembers
<1>2. w \in Procs
  BY DEF Procs
<1>3. EffectInv'
  BY <1>1, <1>2, OneCausesNothing DEF Known, KernelInv
<1> QED BY <1>1, <1>3 DEF KernelInv

\* The first start of an attempt puts it in the hands of one worker.
LEMMA MarkStartedByStep ==
    ASSUME Known, NEW w \in Workers, MarkStarted(w)
    PROVE  KernelInv'
<1> USE DEF Known
<1> DEFINE r == job[w].run
<1>0. /\ pc[w] = "claimed" /\ pc[w] \in Claiming
      /\ w \in Procs /\ job[w] \in Job /\ job[w].grant \in grants
      /\ r = job[w].grant.run /\ r \in Runs
  BY WorkerRemembers DEF MarkStarted, Claiming
<1>1. CASE Authorises(job[w].grant, {"claimed"}, now)
  <2>1. /\ MarkStageRunStarted(job[w].grant, now) /\ GoesOn(w, "handling", job[w])
        /\ UNCHANGED effects
    BY <1>1, GotoGoesOn DEF MarkStarted
  <2>2. RowsKept
    <3>1. Live(r) /\ run[r] \in Row
      BY <1>0, <1>1 DEF Authorises, Live, Open, Unfinished, ActiveLease, TypeOK
    <3>2. \E row : row.status = "started" /\ run' = [run EXCEPT ![r] = row]
      <4> DEFINE row == [run[r] EXCEPT !.status = "started"]
      <4>1. row.status = "started" /\ run' = [run EXCEPT ![r] = row]
        BY <1>0, <2>1, <3>1 DEF MarkStageRunStarted, Row
      <4> QED BY <4>1
    <3> QED BY <1>0, <3>1, <3>2, OneLiveRowMoves DEF KernelInv, ThreadInv
  <2>3. /\ MemoryOK' /\ ThreadInv' /\ pc'[w] = "handling" /\ job'[w].run = r
        /\ \A q \in Procs \ {w} : pc'[q] = pc[q] /\ job'[q] = job[q]
    <3>1. UNCHANGED grants /\ "handling" \in Claiming \ {"claimed"}
      BY <2>1 DEF MarkStageRunStarted, Claiming
    <3> QED BY <1>0, <2>1, <2>2, <3>1, HandlerRemembers
  <2>4. starts[r] = 0 /\ starts'[r] = 1
        /\ \A q \in Runs \ {r} : starts'[q] = starts[q]
    <3>1. run[r].status = "claimed"
      BY <1>0, <1>1 DEF Authorises
    <3>2. starts[r] = 0
      BY <1>0, <3>1 DEF LedgerInv, StartHistory
    <3> QED BY <1>0, <2>1, <3>2 DEF MarkStageRunStarted, TypeOK
  <2>5. effects[r] = 0 /\ \A q \in Procs : Executing(q) => job[q].run # r
    BY <1>0, <2>4 DEF KernelInv, EffectInv
  <2>6. \A q \in Procs \ {w} : /\ Executing(q)' => Executing(q)
                               /\ Executing(q) => job[q].run \in Runs
    BY <2>3 DEF Executing, KernelInv, MemoryOK, Remembers, Claiming
  <2>7. EffectInv'
    <3>1. \A q \in Runs : effects'[q] # 0 => starts'[q] # 0
      BY <2>1, <2>4 DEF KernelInv, EffectInv
    <3>2. \A p \in Procs : Executing(p)' => effects'[job'[p].run] = 0 /\ starts'[job'[p].run] # 0
      BY <2>1, <2>3, <2>4, <2>5, <2>6 DEF KernelInv, EffectInv
    <3>3. \A p, q \in Procs :
            Executing(p)' /\ Executing(q)' /\ job'[p].run = job'[q].run => p = q
      BY <2>3, <2>5, <2>6 DEF KernelInv, EffectInv
    <3> QED BY <2>1, <3>1, <3>2, <3>3 DEF KernelInv, EffectInv
  <2> QED BY <2>3, <2>7 DEF KernelInv
<1>2. CASE ~Authorises(job[w].grant, {"claimed"}, now)
  <2>1. GoesOn(w, "idle", NoJob) /\ UNCHANGED vars /\ UNCHANGED effects
    BY <1>2, GotoGoesOn DEF MarkStarted, Stop
  <2>2. RowsKept /\ UNCHANGED <<grants, starts>>
    BY <2>1, QuietKeepsRows DEF vars, ledger, history
  <2> QED BY <1>0, <2>1, <2>2, OneProcessEnds
<1> QED BY <1>1, <1>2

\* A worker with nothing to claim ends its call.
LEMMA NothingToClaimStep ==
    ASSUME Known, NEW w \in Workers, NothingToClaim(w)
    PROVE  KernelInv'
<1>1. w \in Procs /\ GoesOn(w, "idle", NoJob)
  BY GotoGoesOn DEF NothingToClaim, Stop, Procs
<1>2. RowsKept /\ UNCHANGED <<grants, starts, effects>>
  BY QuietKeepsRows DEF NothingToClaim, vars, ledger, history
<1> QED BY <1>1, <1>2, OneProcessEnds DEF Known

\* A handler that stops before the adapter has its verdict.
LEMMA HandlerStopsEarlyStep ==
    ASSUME Known, NEW w \in Workers, HandlerStopsEarly(w)
    PROVE  KernelInv'
<1>1. pc[w] \in Claiming /\ "settling" \in Claiming \ {"claimed"}
  BY DEF HandlerStopsEarly, Claiming
<1>2. PICK v \in {"waiting", "blocked", "failed", "approval"} :
        GoesOn(w, "settling", [job[w] EXCEPT !.verdict = v])
  BY GotoGoesOn DEF HandlerStopsEarly
<1>3. v \in HandlerVerdicts
  BY DEF HandlerVerdicts
<1>4. [job[w] EXCEPT !.verdict = v].verdict = v
  BY <1>1, WorkerRemembers DEF Known, Job
<1>5. RowsKept /\ UNCHANGED <<grants, starts, effects>>
  BY QuietKeepsRows DEF HandlerStopsEarly, vars, ledger, history
<1> DEFINE j == [job[w] EXCEPT !.verdict = v]
<1>6. j = [job[w] EXCEPT !.verdict = v] /\ j.verdict \in HandlerVerdicts
  BY <1>3, <1>4
<1>7. GoesOn(w, "settling", j)
  BY <1>2
<1> HIDE DEF j
<1> QED BY <1>1, <1>3, <1>5, <1>6, <1>7, HandlerGoesOn

\* Recording the invocation changes no row.
LEMMA RecordInvocationByStep ==
    ASSUME Known, NEW w \in Workers, RecordInvocation(w)
    PROVE  KernelInv'
<1>1. pc[w] \in Claiming /\ "invoking" \in Claiming \ {"claimed"} /\ Executing(w)
  BY DEF RecordInvocation, Claiming, Executing
<1>2. GoesOn(w, "invoking", job[w])
  BY GotoGoesOn DEF RecordInvocation
<1>3. RowsKept /\ UNCHANGED <<grants, starts, effects>>
  BY QuietKeepsRows DEF RecordInvocation, RecordAdapterInvocation, history
<1> QED BY <1>1, <1>2, <1>3, HandlerGoesOn

\* The one worker that executes an attempt invokes its adapter, once.
LEMMA InvokeAdapterStep ==
    ASSUME Known, NEW w \in Workers, InvokeAdapter(w)
    PROVE  KernelInv'
<1> USE DEF Known
<1> DEFINE r == job[w].run
<1>1. /\ pc[w] = "invoking" /\ pc[w] \in Claiming /\ "reporting" \in Claiming \ {"claimed"}
      /\ w \in Procs /\ r \in Runs /\ job[w] \in Job
  BY WorkerRemembers DEF InvokeAdapter, Claiming
<1>2. PICK v \in Verdicts(r) : GoesOn(w, "reporting", [job[w] EXCEPT !.verdict = v])
  BY GotoGoesOn DEF InvokeAdapter
<1>3. v \in HandlerVerdicts
  BY DEF HandlerVerdicts, Verdicts
<1> DEFINE j == [job[w] EXCEPT !.verdict = v]
<1>4. j = [job[w] EXCEPT !.verdict = v] /\ j.verdict \in HandlerVerdicts
  BY <1>1, <1>3 DEF Job
<1>5. GoesOn(w, "reporting", j)
  BY <1>2
<1>6. RowsKept /\ UNCHANGED <<grants, starts>>
  BY QuietKeepsRows DEF InvokeAdapter, vars, ledger, history
<1> HIDE DEF j
<1>7. /\ MemoryOK' /\ ThreadInv' /\ pc'[w] = "reporting"
      /\ \A q \in Procs \ {w} : pc'[q] = pc[q] /\ job'[q] = job[q]
  BY <1>1, <1>3, <1>4, <1>5, <1>6, HandlerRemembers
<1>8. /\ effects[r] = 0 /\ starts[r] # 0
      /\ effects' = [effects EXCEPT ![r] = @ + 1]
  BY <1>1 DEF InvokeAdapter, KernelInv, EffectInv, Executing
<1>9. \A q \in Procs \ {w} :
        /\ Executing(q)' => Executing(q)
        /\ Executing(q) => job[q].run \in Runs /\ job[q].run # r
  BY <1>1, <1>7 DEF Executing, KernelInv, EffectInv, MemoryOK, Remembers, Claiming
<1>10. ~Executing(w)'
  BY <1>7 DEF Executing
<1>11. EffectInv'
  <2>1. effects' \in [Runs -> 0..1]
    BY <1>1, <1>8 DEF KernelInv, EffectInv
  <2>2. \A q \in Runs : effects'[q] # 0 => starts'[q] # 0
    BY <1>1, <1>6, <1>8 DEF KernelInv, EffectInv
  <2>3. \A p \in Procs : Executing(p)' => effects'[job'[p].run] = 0 /\ starts'[job'[p].run] # 0
    BY <1>6, <1>7, <1>8, <1>9, <1>10 DEF KernelInv, EffectInv
  <2>4. \A p, q \in Procs :
          Executing(p)' /\ Executing(q)' /\ job'[p].run = job'[q].run => p = q
    BY <1>7, <1>9, <1>10 DEF KernelInv, EffectInv
  <2> QED BY <2>1, <2>2, <2>3, <2>4 DEF EffectInv
<1> QED BY <1>7, <1>11 DEF KernelInv

\* A receipt, late or not, changes no row.
LEMMA ReportReceiptStep ==
    ASSUME Known, NEW w \in Workers, ReportReceipt(w)
    PROVE  KernelInv'
<1>1. pc[w] \in Claiming /\ "settling" \in Claiming \ {"claimed"}
  BY DEF ReportReceipt, Claiming
<1>2. GoesOn(w, "settling", job[w]) /\ job[w].verdict \in HandlerVerdicts
  BY <1>1, GotoGoesOn, WorkerRemembers DEF ReportReceipt, Known, Remembers
<1>3. RowsKept /\ UNCHANGED <<grants, starts, effects>>
  BY QuietKeepsRows DEF ReportReceipt, RecordHandlerReceipt, vars, ledger, history
<1> QED BY <1>1, <1>2, <1>3, HandlerGoesOn

-----------------------------------------------------------------------------
(* Settling an attempt                                                     *)

\* The row of an attempt, without its lease, has the status it is given.
LEMMA ReleasedStatus ==
    ASSUME TypeOK, NEW r \in Runs, NEW status
    PROVE  /\ Released(run[r], status).status = status
           /\ \A failure, retryAt :
                [Released(run[r], status) EXCEPT !.failure = failure,
                                                 !.retryAt = retryAt].status = status
           /\ \A failure, approval :
                [Released(run[r], status) EXCEPT !.failure = failure,
                                                 !.approval = approval].status = status
<1>1. run[r] \in Row
  BY DEF TypeOK
<1> QED BY <1>1 DEF Released, Row

\* A fresh attempt is queued.
LEMMA QueuedStatus == \A retryAt : QueuedRow(retryAt).status = "queued"
<1> TAKE retryAt
<1>1. AbsentRow.status = "absent" /\ DOMAIN AbsentRow = {"status", "owner", "token",
        "expires", "approval", "retryAt", "failure", "seq"}
  BY DEF AbsentRow
<1> QED BY <1>1 DEF QueuedRow

\* A settlement without a retry ends one thread of control or leaves it waiting.
LEMMA SettledWithoutRetry ==
    ASSUME TypeOK, OpenIsLatest, NEW g \in grants, Authorises(g, ActiveLease, now),
           NEW v \in HandlerVerdicts \ {"retry"}, SettleBy(g, v)
    PROVE  /\ RowsKept /\ UNCHANGED <<grants, starts>>
           /\ run'[g.run].status = "succeeded" <=> v = "succeeded"
           /\ Open(g.run)' => v = "waiting" /\ run'[g.run].status = "waiting_on_human"
           /\ \A q \in Runs \ {g.run} : run'[q] = run[q]
<1>1. g.run \in Runs
  BY DEF TypeOK, Grant
<1>2. ASSUME NEW row, NEW status, row.status = status, status # "absent", Settle(g, row)
      PROVE  RowsKept /\ UNCHANGED <<grants, starts>> /\ run'[g.run].status = status
  BY <1>2, SettledRowsKept DEF Settle
<1>0. \A q \in Runs \ {g.run} : run'[q] = run[q]
  <2>1. \A row : Settle(g, row) => run' = [run EXCEPT ![g.run] = row]
    BY DEF Settle
  <2>2. \E row : Settle(g, row)
    BY DEF SettleBy, HandlerVerdicts, CompleteStageRun, WaitStageRunForHumanDecision,
       BlockStageRun, FailStageRun
  <2> QED BY <1>1, <2>1, <2>2 DEF TypeOK
<1>3. ASSUME NEW status, status # "absent", NEW failure, NEW approval,
             Settle(g, [Released(run[g.run], status)
                          EXCEPT !.failure = failure, !.approval = approval])
      PROVE  RowsKept /\ UNCHANGED <<grants, starts>> /\ run'[g.run].status = status
  <2> DEFINE row == [Released(run[g.run], status)
                       EXCEPT !.failure = failure, !.approval = approval]
  <2>1. row.status = status /\ Settle(g, row)
    BY <1>1, <1>3, ReleasedStatus
  <2> HIDE DEF row
  <2> QED BY <1>2, <1>3, <2>1
<1>4. ASSUME NEW status, status # "absent", NEW failure, NEW retryAt,
             Settle(g, [Released(run[g.run], status)
                          EXCEPT !.failure = failure, !.retryAt = retryAt])
      PROVE  RowsKept /\ UNCHANGED <<grants, starts>> /\ run'[g.run].status = status
  <2> DEFINE row == [Released(run[g.run], status)
                       EXCEPT !.failure = failure, !.retryAt = retryAt]
  <2>1. row.status = status /\ Settle(g, row)
    BY <1>1, <1>4, ReleasedStatus
  <2> HIDE DEF row
  <2> QED BY <1>2, <1>4, <2>1
<1>5. CASE v = "succeeded"
  <2>1. Settle(g, Released(run[g.run], "succeeded"))
    BY <1>5 DEF SettleBy, CompleteStageRun
  <2> QED BY <1>0, <1>1, <1>2, <1>5, <2>1, ReleasedStatus DEF Open, Unfinished, ActiveLease
<1>6. CASE v = "waiting"
  <2>1. WaitStageRunForHumanDecision(g, now)
    BY <1>6 DEF SettleBy
  <2> QED BY <1>0, <1>3, <1>6, <2>1 DEF WaitStageRunForHumanDecision, Open, Unfinished,
             ActiveLease
<1>7. CASE v \in {"blocked", "approval"}
  <2>1. \E failure, approval : BlockStageRun(g, failure, approval, now)
    BY <1>7 DEF SettleBy
  <2>2. RowsKept /\ UNCHANGED <<grants, starts>> /\ run'[g.run].status = "blocked"
    BY <1>3, <2>1 DEF BlockStageRun
  <2> QED BY <1>0, <1>7, <2>2 DEF Open, Unfinished, ActiveLease
<1>8. CASE v \in {"failed", "invalid_output"}
  <2>1. PICK failure : FailStageRun(g, failure, now)
    BY <1>8 DEF SettleBy
  <2>2. FailedStatus(failure) \in {"failed", "invalid_output"}
    BY DEF FailedStatus
  <2> QED BY <1>0, <1>4, <1>8, <2>1, <2>2 DEF FailStageRun, Open, Unfinished, ActiveLease
<1> QED BY <1>5, <1>6, <1>7, <1>8 DEF HandlerVerdicts

\* A retry puts the next attempt in the place of the one it settles.
LEMMA SettledWithRetry ==
    ASSUME TypeOK, ThreadInv, NEW g \in grants, Authorises(g, ActiveLease, now),
           NEW d, ScheduleRetry(g, "other", d, now)
    PROVE  /\ \E x \in Runs : /\ RowAppended(x) /\ InstanceOf(x) = InstanceOf(g.run)
                              /\ StageOf(x) = StageOf(g.run) /\ run'[x].status = "queued"
                              /\ \A q \in Runs \ {g.run, x} : run'[q] = run[q]
           /\ UNCHANGED <<grants, starts>>
           /\ \A q \in Runs : run'[q].status = "succeeded" => run'[q] = run[q]
<1>1. g.run \in Runs /\ Live(g.run)
  BY DEF TypeOK, Grant, Authorises, Live, Open, Unfinished
<1>2. PICK n \in Attempts :
        /\ IsNextAttempt(<<InstanceOf(g.run), StageOf(g.run), n>>)
        /\ run' = [run EXCEPT
                    ![g.run] = [Released(run[g.run], FailedStatus("other"))
                                  EXCEPT !.failure = "other", !.retryAt = now + d],
                    ![<<InstanceOf(g.run), StageOf(g.run), n>>] = QueuedRow(now + d)]
  BY DEF ScheduleRetry
<1> DEFINE x == <<InstanceOf(g.run), StageOf(g.run), n>>
<1>3. x \in Runs /\ InstanceOf(x) = InstanceOf(g.run) /\ StageOf(x) = StageOf(g.run)
  BY <1>1, RunsAreTriples DEF InstanceOf, StageOf
<1>4. x # g.run
  <2>1. ~Present(<<x[1], x[2], AttemptOf(x)>>)
    BY <1>2, BoundsAreNat DEF IsNextAttempt, AttemptOf, Attempts
  <2>2. x = <<x[1], x[2], AttemptOf(x)>>
    BY DEF AttemptOf
  <2> QED BY <1>1, <2>1, <2>2, LiveIsLatest DEF ThreadInv
<1> DEFINE row == [Released(run[g.run], FailedStatus("other"))
                     EXCEPT !.failure = "other", !.retryAt = now + d]
           new == QueuedRow(now + d)
<1>5. IsNextAttempt(x) /\ run' = [run EXCEPT ![g.run] = row, ![x] = new]
  BY <1>2
<1>6. row.status = "failed" /\ new.status = "queued"
  BY <1>1, ReleasedStatus, QueuedStatus DEF FailedStatus
<1> HIDE DEF x, row, new
<1>7. /\ run'[g.run].status = "failed" /\ run'[x].status = "queued"
      /\ \A q \in Runs \ {g.run, x} : run'[q] = run[q]
  BY <1>1, <1>3, <1>4, <1>5, <1>6 DEF TypeOK
<1>8. RowAppended(x)
  BY <1>1, <1>3, <1>4, <1>5, <1>7, AppendedBehindLive
<1> QED BY <1>3, <1>7, <1>8 DEF ScheduleRetry

\* An attempt that takes the place of a live one is the new thread of control.
LEMMA AppendedTakesOver ==
    ASSUME KernelInv, InstancesKept, \A p \in Procs : KeepsMoving(p),
           NEW r \in Runs, Live(r), NEW x \in Runs, RowAppended(x),
           InstanceOf(x) = InstanceOf(r)
    PROVE  ThreadInv'
<1> USE DEF KernelInv, ThreadInv
<1>1. instance'[InstanceOf(x)].status # "absent"
  <2>1. Present(r) /\ InstanceOf(r) \in Instances
    BY LiveIsLatest, RunsAreTriples
  <2> QED BY <2>1 DEF NothingBeforeStart, InstancesKept
<1>2. \A p \in Procs : Moving(p)' => Where(p)' # InstanceOf(x)
  BY DEF OneThread, KeepsMoving
<1> QED BY <1>1, <1>2, ThreadHandedOn

\* A process about to write the instance remembers the attempt and the write.
LEMMA AboutToWrite ==
    ASSUME KernelInv, grants \subseteq grants', NEW p \in Procs, job[p].run \in Runs,
           NEW write \in [status : InstanceStatus \cup {"none"}, stage : Stages \cup {NoStage}],
           GoodWrite(write), GoesOn(p, "updating", [job[p] EXCEPT !.write = write])
    PROVE  /\ MemoryOK' /\ pc'[p] = "updating"
           /\ \A q \in Procs \ {p} : pc'[q] = pc[q] /\ job'[q] = job[q]
           /\ KeepsMoving(p)
<1> DEFINE j == [job[p] EXCEPT !.write = write]
<1>1. job[p] \in Job
  BY DEF KernelInv, MemoryOK
<1>2. j \in Job /\ j.run = job[p].run /\ j.write = write
  BY <1>1 DEF Job
<1>3. "updating" \in Place
  BY DEF Place
<1>4. GoesOn(p, "updating", j)
  OBVIOUS
<1> HIDE DEF j
<1>5. pc'[p] = "updating" /\ job'[p] = j
  BY <1>4 DEF GoesOn, KernelInv, MemoryOK
<1>6. Remembers(p)'
  BY <1>2, <1>5 DEF Remembers, Claiming
<1>7. KeepsMoving(p)
  BY <1>5 DEF KeepsMoving, Moving
<1> QED BY <1>2, <1>3, <1>4, <1>5, <1>6, <1>7, OneRemembers DEF KernelInv

\* What run_once writes after a verdict is a write of the ledger.
LEMMA StatusAfterIsGood ==
    ASSUME NEW v, NEW s \in Stages
    PROVE  /\ Write(StatusAfter(v, s), s) \in
                [status : InstanceStatus \cup {"none"}, stage : Stages \cup {NoStage}]
           /\ GoodWrite(Write(StatusAfter(v, s), s))
<1>1. StatusAfter(v, s) \in {"waiting_on_human", "retrying", "blocked"}
  BY DEF StatusAfter
<1> HIDE DEF StatusAfter
<1> QED BY <1>1 DEF Write, GoodWrite, InstanceStatus

\* Whoever ends an attempt with success takes over its thread of control.
LEMMA SuccessIsTakenOver ==
    ASSUME Known, RowsKept, UNCHANGED grants, NEW p \in Procs, NEW r \in Runs,
           job[p].run = r, job[p].next = <<>>, Live(r), run'[r].status = "succeeded",
           GoesOn(p, "advancing", job[p])
    PROVE  /\ ThreadInv' /\ MemoryOK' /\ pc'[p] = "advancing"
           /\ \A q \in Procs \ {p} : pc'[q] = pc[q] /\ job'[q] = job[q]
<1> USE DEF Known
<1>1. pc'[p] = "advancing" /\ job'[p] = job[p] /\ job[p] \in Job
  BY DEF GoesOn, KernelInv, MemoryOK
<1>2. Remembers(p)'
  BY <1>1 DEF Remembers, Claiming
<1>3. /\ MemoryOK'
      /\ \A q \in Procs \ {p} : pc'[q] = pc[q] /\ job'[q] = job[q]
  BY <1>1, <1>2, OneRemembers DEF Place, KernelInv
<1>4. Where(p)' = InstanceOf(r) /\ InstanceOf(r) \in Instances
  BY <1>1, RunsAreTriples DEF Where
<1>5. instance'[InstanceOf(r)].status # "absent"
  BY <1>4, LiveIsLatest DEF KernelInv, ThreadInv, NothingBeforeStart, InstancesKept
<1>6. \A q \in Runs : Live(q)' => InstanceOf(q) # InstanceOf(r)
  <2> SUFFICES ASSUME NEW q \in Runs, Live(q)', InstanceOf(q) = InstanceOf(r)
               PROVE  FALSE
    OBVIOUS
  <2>1. q = r
    BY DEF RowsKept, KernelInv, ThreadInv, OneThread
  <2> QED BY <2>1 DEF Live, Open, Resumable, Unfinished, ActiveLease
<1>7. \A q \in Procs : Moving(q) => Where(q) # InstanceOf(r)
  BY DEF KernelInv, ThreadInv, OneThread
<1>8. \A q \in Procs \ {p} : KeepsMoving(q)
  BY OthersKeepMoving
<1>9. ThreadInv'
  BY <1>1, <1>4, <1>5, <1>6, <1>7, <1>8, ThreadTakenOver DEF KernelInv
<1> QED BY <1>1, <1>3, <1>9

\* A settlement ends the thread of control, leaves it waiting, hands it on to
\* the retry, or gives it to the worker that settled with success.
LEMMA SettleAttemptStep ==
    ASSUME Known, NEW w \in Workers, SettleAttempt(w)
    PROVE  KernelInv'
<1> USE DEF Known
<1> DEFINE g == job[w].grant
           v == job[w].verdict
           r == job[w].run
<1>1. /\ pc[w] = "settling" /\ pc[w] \in Claiming /\ w \in Procs /\ job[w] \in Job
      /\ g \in grants /\ r = g.run /\ r \in Runs /\ job[w].next = <<>>
      /\ v \in HandlerVerdicts
  BY WorkerRemembers DEF SettleAttempt, Claiming, Remembers
<1>2. UNCHANGED effects
  BY DEF SettleAttempt
<1>3. CASE ~Authorises(g, ActiveLease, now)
  <2>1. GoesOn(w, "idle", NoJob) /\ UNCHANGED vars
    BY <1>3, GotoGoesOn DEF SettleAttempt, Stop
  <2>2. RowsKept /\ UNCHANGED <<grants, starts>>
    BY <2>1, QuietKeepsRows DEF vars, ledger, history
  <2> QED BY <1>1, <1>2, <2>1, <2>2, OneProcessEnds
<1>4. CASE Authorises(g, ActiveLease, now) /\ v = "succeeded"
  <2>1. SettleBy(g, v) /\ GoesOn(w, "advancing", job[w])
    BY <1>4, GotoGoesOn DEF SettleAttempt
  <2>2. /\ RowsKept /\ UNCHANGED <<grants, starts>>
        /\ run'[r].status = "succeeded"
    BY <1>1, <1>4, <2>1, SettledWithoutRetry DEF KernelInv, ThreadInv
  <2>3. Live(r)
    BY <1>1, <1>4 DEF Authorises, Live, Open, Unfinished
  <2>4. /\ ThreadInv' /\ MemoryOK' /\ pc'[w] = "advancing"
        /\ \A q \in Procs \ {w} : pc'[q] = pc[q] /\ job'[q] = job[q]
    BY <1>1, <2>1, <2>2, <2>3, SuccessIsTakenOver
  <2>6. EffectInv'
    BY <1>1, <1>2, <2>2, <2>4, OneCausesNothing DEF KernelInv
  <2> QED BY <2>4, <2>6 DEF KernelInv
<1>5. CASE Authorises(g, ActiveLease, now) /\ v # "succeeded"
  <2> DEFINE write == Write(StatusAfter(v, StageOf(r)), StageOf(r))
  <2>1. SettleBy(g, v) /\ GoesOn(w, "updating", [job[w] EXCEPT !.write = write])
    BY <1>5, GotoGoesOn DEF SettleAttempt
  <2>2. /\ write \in [status : InstanceStatus \cup {"none"}, stage : Stages \cup {NoStage}]
        /\ GoodWrite(write)
    BY <1>1, RunsAreTriples, StatusAfterIsGood
  <2> HIDE DEF write
  <2>3. /\ UNCHANGED <<grants, starts>>
        /\ RowsKept \/ \E x \in Runs : RowAppended(x) /\ InstanceOf(x) = InstanceOf(r)
    <3>1. CASE v # "retry"
      BY <1>1, <1>5, <2>1, <3>1, SettledWithoutRetry DEF KernelInv, ThreadInv
    <3>2. CASE v = "retry"
      BY <1>1, <1>5, <2>1, <3>2, SettledWithRetry DEF KernelInv, SettleBy
    <3> QED BY <3>1, <3>2
  <2>4. /\ MemoryOK' /\ pc'[w] = "updating" /\ KeepsMoving(w)
        /\ \A q \in Procs \ {w} : pc'[q] = pc[q] /\ job'[q] = job[q]
    BY <1>1, <2>1, <2>2, <2>3, AboutToWrite
  <2>5. \A q \in Procs : KeepsMoving(q)
    BY <1>1, <2>1, <2>4, OthersKeepMoving
  <2>6. Live(r)
    BY <1>1, <1>5 DEF Authorises, Live, Open, Unfinished
  <2>7. ThreadInv'
    BY <1>1, <2>3, <2>5, <2>6, ThreadsKept, AppendedTakesOver DEF KernelInv
  <2>8. EffectInv'
    BY <1>1, <1>2, <2>3, <2>4, OneCausesNothing DEF KernelInv
  <2> QED BY <2>4, <2>7, <2>8 DEF KernelInv
<1> QED BY <1>3, <1>4, <1>5

-----------------------------------------------------------------------------
(* Moving the instance on                                                  *)

\* A process that holds the thread of control writes where the instance
\* stops, or takes the next attempt's number.
LEMMA AdvanceStep ==
    ASSUME Known, NEW p \in Procs, Advance(p)
    PROVE  KernelInv'
<1> USE DEF Known
<1> DEFINE r == job[p].run
           i == InstanceOf(r)
<1>1. /\ pc[p] = "advancing" /\ job[p] \in Job /\ r \in Runs /\ job[p].next = <<>>
      /\ i \in Instances /\ StageOf(r) \in Stages
  BY RunsAreTriples DEF Advance, KernelInv, MemoryOK, Remembers
<1>2. RowsKept /\ UNCHANGED <<grants, starts, effects>>
  BY QuietKeepsRows DEF Advance, vars, ledger, history
<1>3. ASSUME NEW status, NEW s,
             \/ status = "blocked" /\ s = StageOf(r)
             \/ status \in TerminalInstance /\ s = NoStage,
             Goto(p, "updating", [job[p] EXCEPT !.write = Write(status, s)])
      PROVE  KernelInv'
  <2> DEFINE write == Write(status, s)
  <2>1. /\ write \in [status : InstanceStatus \cup {"none"}, stage : Stages \cup {NoStage}]
        /\ GoodWrite(write)
    BY <1>1, <1>3 DEF Write, GoodWrite, TerminalInstance, InstanceStatus
  <2>2. GoesOn(p, "updating", [job[p] EXCEPT !.write = write])
    BY <1>3, GotoGoesOn
  <2> HIDE DEF write
  <2>3. /\ MemoryOK' /\ pc'[p] = "updating" /\ KeepsMoving(p)
        /\ \A q \in Procs \ {p} : pc'[q] = pc[q] /\ job'[q] = job[q]
    BY <1>1, <1>2, <2>1, <2>2, AboutToWrite
  <2>4. ThreadInv'
    BY <1>2, <2>2, <2>3, OthersKeepMoving, ThreadsKept DEF KernelInv
  <2>5. EffectInv'
    BY <1>2, <2>3, OneCausesNothing DEF KernelInv
  <2> QED BY <2>3, <2>4, <2>5 DEF KernelInv
<1>4. ASSUME NEW s \in Stages, NEW n \in Attempts, IsNextAttempt(<<i, s, n>>),
             Goto(p, "inserting", [job[p] EXCEPT !.next = <<i, s, n>>,
                                                 !.write = Write("running", s)])
      PROVE  KernelInv'
  <2> DEFINE x == <<i, s, n>>
             write == Write("running", s)
             j == [job[p] EXCEPT !.next = x, !.write = write]
  <2>1. /\ write \in [status : InstanceStatus \cup {"none"}, stage : Stages \cup {NoStage}]
        /\ GoodWrite(write)
    BY DEF Write, GoodWrite, InstanceStatus
  <2>2. x \in Runs /\ InstanceOf(x) = i
    BY <1>1, RunsAreTriples DEF Runs, InstanceOf
  <2>3. GoesOn(p, "inserting", j) /\ IsNextAttempt(x)
    BY <1>4, GotoGoesOn
  <2> HIDE DEF x, write
  <2>4. j \in Job /\ j.run = r /\ j.next = x /\ j.write = write
    BY <1>1, <2>1, <2>2 DEF Job
  <2> HIDE DEF j
  <2>5. pc'[p] = "inserting" /\ job'[p] = j
    BY <2>3 DEF GoesOn, KernelInv, MemoryOK
  <2>6. Remembers(p)'
    BY <1>1, <2>1, <2>2, <2>4, <2>5 DEF Remembers, Claiming
  <2>7. /\ MemoryOK'
        /\ \A q \in Procs \ {p} : pc'[q] = pc[q] /\ job'[q] = job[q]
    BY <1>2, <2>3, <2>4, <2>6, OneRemembers DEF Place, KernelInv
  <2>8. KeepsMoving(p)
    BY <1>1, <2>2, <2>3, <2>4, <2>5 DEF KeepsMoving, Moving, Where
  <2>9. ThreadInv'
    BY <1>2, <2>3, <2>8, OthersKeepMoving, ThreadsKept DEF KernelInv
  <2>10. EffectInv'
    BY <1>2, <2>5, <2>7, OneCausesNothing DEF KernelInv
  <2> QED BY <2>7, <2>9, <2>10 DEF KernelInv
<1> QED BY <1>3, <1>4 DEF Advance

\* The attempt that is inserted is the new thread of control.
LEMMA QueueStageStep ==
    ASSUME Known, NEW p \in Procs, QueueStage(p)
    PROVE  KernelInv'
<1> USE DEF Known
<1> DEFINE x == job[p].next
<1>1. /\ pc[p] = "inserting" /\ job[p] \in Job /\ x \in Runs /\ Remembers(p)
      /\ IsNextAttempt(x) /\ Moving(p) /\ Where(p) = InstanceOf(x)
  BY DEF QueueStage, KernelInv, MemoryOK, Remembers, ThreadInv, NextIsFree, Moving, Where
<1>2. UNCHANGED effects
  BY DEF QueueStage
<1>3. CASE Present(x)
  <2>1. GoesOn(p, "idle", NoJob) /\ UNCHANGED vars
    BY <1>3, GotoGoesOn DEF QueueStage, Stop
  <2>2. RowsKept /\ UNCHANGED <<grants, starts>>
    BY <2>1, QuietKeepsRows DEF vars, ledger, history
  <2> QED BY <1>2, <2>1, <2>2, OneProcessEnds
<1>4. CASE ~Present(x)
  <2>1. InsertStageRun(x)
    BY <1>4 DEF QueueStage
  <2>2. UNCHANGED <<grants, starts>> /\ instance'[InstanceOf(x)].status # "absent"
    BY <2>1 DEF InsertStageRun, history
  <2>3. RowAppended(x)
    <3>1. run'[x].status = "queued" /\ \A q \in Runs \ {x} : run'[q] = run[q]
      BY <1>1, <2>1, QueuedStatus DEF InsertStageRun, TypeOK
    <3>2. \A q \in Runs : Live(q) => InstanceOf(q) # InstanceOf(x)
      BY <1>1 DEF KernelInv, ThreadInv, OneThread
    <3> QED BY <1>1, <3>1, <3>2, OneRowAppended DEF KernelInv, ThreadInv
  <2>4. PICK to \in {"idle", "updating"}, j \in {NoJob, job[p]} :
          GoesOn(p, to, j) /\ (to = "idle" <=> j = NoJob)
    <3>1. NoJob # job[p]
      BY <1>1, RunsAreTriples DEF NoJob
    <3> QED BY <1>4, <3>1, GotoGoesOn DEF QueueStage, Stop
  <2>5. j \in Job /\ to \in Place /\ to \notin {"advancing", "inserting"}
        /\ to \notin {"handling", "invoking"}
    BY <1>1, NoJobIsJob DEF Place
  <2>6. pc'[p] = to /\ job'[p] = j
    BY <2>4 DEF GoesOn, KernelInv, MemoryOK
  <2>7. to = "updating" => job[p].run \in Runs /\ GoodWrite(job[p].write)
    <3>1. job[p].write = NoWrite => GoesOn(p, "idle", NoJob)
      BY <1>4, GotoGoesOn DEF QueueStage, Stop
    <3>2. job[p].write = NoWrite => pc'[p] = "idle"
      BY <3>1 DEF GoesOn, KernelInv, MemoryOK
    <3>3. job[p].write # NoWrite => job[p].run \in Runs /\ GoodWrite(job[p].write)
      BY <1>1 DEF Remembers
    <3> QED BY <2>6, <3>2, <3>3
  <2>8. Remembers(p)'
    BY <2>4, <2>6, <2>7 DEF Remembers, Claiming
  <2>9. /\ MemoryOK'
        /\ \A q \in Procs \ {p} : pc'[q] = pc[q] /\ job'[q] = job[q]
    BY <2>2, <2>4, <2>5, <2>8, OneRemembers DEF KernelInv
  <2>10. ThreadInv'
    <3>1. \A q \in Procs : KeepsMoving(q)
      BY <2>4, <2>5, <2>6, OthersKeepMoving DEF KeepsMoving, Moving
    <3>2. \A q \in Procs : Moving(q)' => Where(q)' # InstanceOf(x)
      <4> SUFFICES ASSUME NEW q \in Procs, Moving(q)', Where(q)' = InstanceOf(x)
                   PROVE  FALSE
        OBVIOUS
      <4>1. Moving(q) /\ Where(q) = InstanceOf(x)
        BY <3>1 DEF KeepsMoving
      <4>2. q = p
        BY <1>1, <4>1 DEF KernelInv, ThreadInv, OneThread
      <4> QED BY <2>5, <2>6, <4>2 DEF Moving
    <3> QED BY <2>2, <2>3, <3>1, <3>2, ThreadHandedOn DEF KernelInv
  <2>11. EffectInv'
    BY <1>2, <2>2, <2>5, <2>6, <2>9, OneCausesNothing DEF KernelInv
  <2> QED BY <2>9, <2>10, <2>11 DEF KernelInv
<1> QED BY <1>3, <1>4

\* Writing the instance ends the call.
LEMMA WriteInstanceStep ==
    ASSUME Known, NEW p \in Procs, WriteInstance(p)
    PROVE  KernelInv'
<1>1. GoesOn(p, "idle", NoJob) /\ UNCHANGED <<run, grants, starts, effects>>
  BY GotoGoesOn DEF WriteInstance, UpdateWorkflowInstance, Stop, history
<1> QED BY <1>1, QuietKeepsRows, OneProcessEnds DEF Known

-----------------------------------------------------------------------------
(* Starts, decisions, repairs, deaths                                      *)

\* Whoever starts a workflow moves an instance nothing has happened to.
LEMMA StartWorkflowStep ==
    ASSUME Known, NEW p \in Procs, NEW i \in Instances, StartWorkflow(p, i)
    PROVE  KernelInv'
<1> USE DEF Known
<1> DEFINE x == <<i, FirstStage, 1>>
           j == [NoJob EXCEPT !.next = x]
<1>1. /\ pc[p] = "idle" /\ instance[i].status = "absent"
      /\ UNCHANGED <<run, grants, starts, effects>>
      /\ GoesOn(p, "inserting", j)
  BY GotoGoesOn DEF StartWorkflow, InsertWorkflowInstance, history
<1>2. /\ x \in Runs /\ InstanceOf(x) = i
      /\ \A n \in Attempts : <<x[1], x[2], n>> \in Runs /\ InstanceOf(<<x[1], x[2], n>>) = i
  BY WorkflowIsWellFormed, KernelBounds, BoundsAreNat DEF Runs, Attempts, InstanceOf
<1>3. IsNextAttempt(x)
  <2>1. AttemptOf(x) = 1
    BY DEF AttemptOf
  <2> QED BY <1>1, <1>2, <2>1 DEF IsNextAttempt, KernelInv, ThreadInv, NothingBeforeStart
<1>4. instance'[i].status # "absent"
  BY DEF StartWorkflow, InsertWorkflowInstance, Stand, TypeOK, InstanceRow
<1>5. /\ \A q \in Runs : Live(q) => InstanceOf(q) # i
      /\ \A q \in Procs : Moving(q) => Where(q) # i
  BY <1>1, LiveIsLatest DEF KernelInv, ThreadInv, NothingBeforeStart
<1>6. RowsKept /\ \A q \in Runs : Live(q)' => InstanceOf(q) # i
  <2>1. RowsKept
    BY <1>1, QuietKeepsRows
  <2> QED BY <1>5, <2>1 DEF RowsKept
<1> HIDE DEF x
<1>7. j \in Job /\ j.next = x /\ j.run = <<>> /\ j.write = NoWrite
  BY <1>2, NoJobIsJob DEF Job, NoJob
<1> HIDE DEF j
<1>8. pc'[p] = "inserting" /\ job'[p] = j
  BY <1>1 DEF GoesOn, KernelInv, MemoryOK
<1>9. Remembers(p)'
  BY <1>2, <1>7, <1>8 DEF Remembers, Claiming
<1>10. /\ MemoryOK'
       /\ \A q \in Procs \ {p} : pc'[q] = pc[q] /\ job'[q] = job[q]
  BY <1>1, <1>7, <1>9, OneRemembers DEF Place, KernelInv
<1>11. ThreadInv'
  <2>1. Where(p)' = i
    BY <1>2, <1>7, <1>8 DEF Where
  <2>2. pc'[p] = "inserting" => IsNextAttempt(job'[p].next)
    BY <1>3, <1>7, <1>8
  <2>3. \A q \in Procs \ {p} : KeepsMoving(q)
    BY <1>1, OthersKeepMoving
  <2> QED BY <1>4, <1>5, <1>6, <2>1, <2>2, <2>3, ThreadTakenOver DEF KernelInv
<1>12. EffectInv'
  BY <1>1, <1>8, <1>10, OneCausesNothing DEF KernelInv
<1> QED BY <1>10, <1>11, <1>12 DEF KernelInv

\* A clerk finds a waiting gate.
LEMMA FindWaitingGateStep ==
    ASSUME Known, NEW c \in Procs, FindWaitingGate(c)
    PROVE  KernelInv'
<1> USE DEF Known
<1>1. PICK r \in Runs, v \in {"accepted", "unrouted", "invalid"},
           to \in {"deciding", "recording"} :
        GoesOn(c, to, [NoJob EXCEPT !.run = r, !.verdict = v])
  BY GotoGoesOn DEF FindWaitingGate
<1> DEFINE j == [NoJob EXCEPT !.run = r, !.verdict = v]
<1>2. RowsKept /\ UNCHANGED <<grants, starts, effects>>
  BY QuietKeepsRows DEF FindWaitingGate, vars, ledger, history
<1>3. /\ j \in Job /\ j.run = r /\ j.next = <<>> /\ GoesOn(c, to, j)
      /\ to \in Place /\ to \notin {"advancing", "inserting", "handling", "invoking"}
  BY <1>1, NoJobIsJob DEF Job, JobVerdicts, NoJob, Place
<1> HIDE DEF j
<1>4. pc'[c] = to /\ job'[c] = j
  BY <1>3 DEF GoesOn, KernelInv, MemoryOK
<1>5. Remembers(c)'
  BY <1>3, <1>4 DEF Remembers, Claiming
<1> QED BY <1>2, <1>3, <1>5, OneProcessGoesOn

\* Recording the decision changes no row.
LEMMA RecordDecisionStep ==
    ASSUME Known, NEW c \in Procs, RecordDecision(c)
    PROVE  KernelInv'
<1> USE DEF Known
<1>1. pc[c] = "recording" /\ job[c] \in Job /\ Remembers(c) /\ "deciding" \in Place
  BY DEF RecordDecision, KernelInv, MemoryOK, Place
<1>2. GoesOn(c, "deciding", job[c])
  BY GotoGoesOn DEF RecordDecision
<1>3. RowsKept /\ UNCHANGED <<grants, starts, effects>>
  BY QuietKeepsRows DEF RecordDecision, RecordHumanDecision, history
<1>4. pc'[c] = "deciding" /\ job'[c] = job[c]
  BY <1>2 DEF GoesOn, KernelInv, MemoryOK
<1>5. Remembers(c)'
  BY <1>1, <1>4 DEF Remembers, Claiming
<1> QED BY <1>1, <1>2, <1>3, <1>5, OneProcessGoesOn

\* A waiting gate that is answered leaves its thread of control to the clerk,
\* or stays where an operator can resume it.
LEMMA CompleteGateStep ==
    ASSUME Known, NEW c \in Procs, CompleteGate(c)
    PROVE  KernelInv'
<1> USE DEF Known
<1> DEFINE r == job[c].run
<1>1. /\ pc[c] = "deciding" /\ job[c] \in Job /\ r \in Runs /\ job[c].next = <<>>
      /\ InstanceOf(r) \in Instances /\ StageOf(r) \in Stages
  BY RunsAreTriples DEF CompleteGate, KernelInv, MemoryOK, Remembers
<1>2. UNCHANGED effects
  BY DEF CompleteGate
<1>3. CASE run[r].status # "waiting_on_human"
  <2>1. GoesOn(c, "idle", NoJob) /\ UNCHANGED vars
    BY <1>3, GotoGoesOn DEF CompleteGate, Stop
  <2>2. RowsKept /\ UNCHANGED <<grants, starts>>
    BY <2>1, QuietKeepsRows DEF vars, ledger, history
  <2> QED BY <1>2, <2>1, <2>2, OneProcessEnds
<1>4. ASSUME run[r].status = "waiting_on_human", NEW status \in {"succeeded", "blocked"},
             NEW failure, CompleteWaitingHumanStageRun(r, status, failure)
      PROVE  /\ RowsKept /\ UNCHANGED <<grants, starts>>
             /\ run'[r].status = status /\ Live(r)
  <2> DEFINE row == [run[r] EXCEPT !.status = status, !.failure = failure]
  <2>1. row.status = status /\ run' = [run EXCEPT ![r] = row]
    BY <1>1, <1>4 DEF CompleteWaitingHumanStageRun, TypeOK, Row
  <2> HIDE DEF row
  <2>2. Live(r)
    BY <1>4 DEF Live, Open, Unfinished
  <2>3. row.status # "absent"
    BY <2>1
  <2>4. RowsKept /\ run'[r].status = row.status
    BY <1>1, <2>1, <2>2, <2>3, OneLiveRowMoves DEF KernelInv, ThreadInv
  <2> QED BY <1>4, <2>1, <2>2, <2>4 DEF CompleteWaitingHumanStageRun, history
<1>5. CASE run[r].status = "waiting_on_human" /\ job[c].verdict = "accepted"
  <2>1. /\ CompleteWaitingHumanStageRun(r, "succeeded", "none")
        /\ GoesOn(c, "advancing", job[c])
    BY <1>5, GotoGoesOn DEF CompleteGate
  <2>2. /\ RowsKept /\ UNCHANGED <<grants, starts>>
        /\ run'[r].status = "succeeded" /\ Live(r)
    BY <1>4, <1>5, <2>1
  <2>3. ThreadInv' /\ MemoryOK' /\ pc'[c] = "advancing"
        /\ \A q \in Procs \ {c} : pc'[q] = pc[q] /\ job'[q] = job[q]
    BY <1>1, <2>1, <2>2, SuccessIsTakenOver
  <2>4. EffectInv'
    BY <1>2, <2>2, <2>3, OneCausesNothing DEF KernelInv
  <2> QED BY <2>3, <2>4 DEF KernelInv
<1>6. CASE run[r].status = "waiting_on_human" /\ job[c].verdict # "accepted"
  <2> DEFINE write == Write("blocked", StageOf(r))
  <2>1. /\ CompleteWaitingHumanStageRun(r, "blocked", "other")
        /\ GoesOn(c, "updating", [job[c] EXCEPT !.write = write])
    BY <1>6, GotoGoesOn DEF CompleteGate
  <2>2. /\ write \in [status : InstanceStatus \cup {"none"}, stage : Stages \cup {NoStage}]
        /\ GoodWrite(write)
    BY <1>1 DEF Write, GoodWrite, InstanceStatus
  <2>3. RowsKept /\ UNCHANGED <<grants, starts>>
    BY <1>4, <1>6, <2>1
  <2> HIDE DEF write
  <2>4. /\ MemoryOK' /\ pc'[c] = "updating" /\ KeepsMoving(c)
        /\ \A q \in Procs \ {c} : pc'[q] = pc[q] /\ job'[q] = job[q]
    BY <1>1, <2>1, <2>2, <2>3, AboutToWrite
  <2>5. ThreadInv'
    BY <2>1, <2>3, <2>4, OthersKeepMoving, ThreadsKept DEF KernelInv
  <2>6. EffectInv'
    BY <1>2, <2>3, <2>4, OneCausesNothing DEF KernelInv
  <2> QED BY <2>4, <2>5, <2>6 DEF KernelInv
<1> QED BY <1>3, <1>5, <1>6

\* An operator who appends an attempt does so behind the thread of control of
\* an instance.
LEMMA OperatorAppends ==
    ASSUME Known, UNCHANGED local, NEW r \in Runs, Live(r), IsLatestAttempt(r),
           NEW row, row.status \in {"blocked", "failed", "invalid_output"},
           AppendAttempt(r, row)
    PROVE  KernelInv'
<1> USE DEF Known
<1> DEFINE x == NextOf(r)
<1>1. /\ x \in Runs /\ IsNextAttempt(x) /\ x # r
      /\ InstanceOf(x) = InstanceOf(r) /\ StageOf(x) = StageOf(r)
  BY NextOfLiveIsNext DEF AppendAttempt
<1>2. /\ run'[r].status = row.status /\ run'[x].status = "queued"
      /\ \A q \in Runs \ {r, x} : run'[q] = run[q]
  <2> DEFINE new == QueuedRow(0)
  <2>1. run' = [run EXCEPT ![r] = row, ![x] = new] /\ new.status = "queued"
    BY QueuedStatus DEF AppendAttempt
  <2> HIDE DEF x, new
  <2> QED BY <1>1, <2>1 DEF TypeOK
<1> HIDE DEF x
<1>3. RowAppended(x)
  BY <1>1, <1>2, AppendedBehindLive DEF KernelInv
<1>4. UNCHANGED <<pc, job, effects, grants, starts>>
  BY DEF local, AppendAttempt, history
<1>5. ThreadInv'
  BY <1>1, <1>3, <1>4, AllKeepMoving, AppendedTakesOver
<1> QED BY <1>4, <1>5, NobodyGoesOn

\* An operator who appends nothing makes nothing live.
LEMMA NothingAppended ==
    ASSUME Known, UNCHANGED <<pc, job, effects, grants, starts>>, RowsKept
    PROVE  KernelInv'
<1>1. ThreadInv'
  BY AllKeepMoving, ThreadsKept DEF Known, KernelInv
<1> QED BY <1>1, NobodyGoesOn DEF Known

\* What operators do.
LEMMA OperateStep == ASSUME Known, Operate PROVE KernelInv'
<1> USE DEF Known
<1>0. UNCHANGED local /\ UNCHANGED <<pc, job, effects>>
  BY DEF Operate, local
<1>1. ASSUME NEW i \in Instances,
             CancelWorkflowInstance(i, FALSE) \/ ParkStaleWorkflowInstance(i)
      PROVE  KernelInv'
  <2>1. run' = Superseded(i) /\ UNCHANGED <<grants, starts>>
    BY <1>1 DEF CancelWorkflowInstance, ParkStaleWorkflowInstance, history
  <2>2. RowsKept
    BY <2>1, SupersedingKeepsRows DEF KernelInv, ThreadInv
  <2> QED BY <1>0, <2>1, <2>2, NothingAppended
<1>2. ASSUME NEW r \in Runs,
             \/ RetryBlockedHumanGate(r)
             \/ \E reauthorised \in BOOLEAN :
                  RetryBlockedStageWithoutEffect(r, reauthorised, FALSE)
      PROVE  KernelInv'
  <2>1. /\ AppendAttempt(r, run[r]) /\ IsLatestAttempt(r)
        /\ run[r].status \in {"blocked", "failed", "invalid_output"}
    BY <1>2 DEF RetryBlockedHumanGate, RetryBlockedStageWithoutEffect, AtCurrentStage
  <2>2. Live(r)
    BY <2>1 DEF Live, Resumable
  <2> QED BY <1>0, <2>1, <2>2, OperatorAppends
<1>3. ASSUME NEW r \in Runs, ReissueWaitingHumanGate(r) PROVE KernelInv'
  <2> DEFINE row == [run[r] EXCEPT !.status = "blocked", !.failure = "other"]
  <2>1. /\ AppendAttempt(r, row) /\ IsLatestAttempt(r)
        /\ run[r].status = "waiting_on_human"
    BY <1>3 DEF ReissueWaitingHumanGate, AtCurrentStage
  <2>2. Live(r) /\ row.status = "blocked"
    BY <2>1 DEF Live, Open, Unfinished, TypeOK, Row
  <2> HIDE DEF row
  <2> QED BY <1>0, <2>1, <2>2, OperatorAppends
<1>4. ASSUME NEW r \in Runs, RestorePublishedHumanGateWaiting(r) PROVE KernelInv'
  <2> DEFINE row == [run[r] EXCEPT !.status = "waiting_on_human", !.failure = "none"]
  <2>1. /\ run' = [run EXCEPT ![r] = row] /\ IsLatestAttempt(r)
        /\ run[r].status = "blocked" /\ UNCHANGED <<grants, starts>>
    BY <1>4 DEF RestorePublishedHumanGateWaiting, AtCurrentStage, history
  <2>2. Live(r) /\ row.status = "waiting_on_human"
    BY <2>1 DEF Live, Resumable, TypeOK, Row
  <2> HIDE DEF row
  <2>3. row.status # "absent"
    BY <2>2
  <2>4. RowsKept
    BY <2>1, <2>2, <2>3, OneLiveRowMoves DEF KernelInv, ThreadInv
  <2> QED BY <1>0, <2>1, <2>4, NothingAppended
<1>5. TerminalizeBlockedCurrentStages => KernelInv'
  BY <1>0, QuietKeepsRows, NothingAppended DEF TerminalizeBlockedCurrentStages, history
<1> QED BY <1>1, <1>2, <1>3, <1>4, <1>5 DEF Operate

\* A process that dies remembers nothing.
LEMMA CrashStep == ASSUME Known, NEW p \in Procs, Crash(p) PROVE KernelInv'
<1>1. GoesOn(p, "idle", NoJob) /\ UNCHANGED <<run, grants, starts, effects>>
  BY DEF Crash, GoesOn, vars, ledger, history
<1> QED BY <1>1, QuietKeepsRows, OneProcessEnds DEF Known

\* Whatever a process, an operator or the clock does keeps the invariant.
LEMMA StepKernelInv == TypeOK /\ LedgerInv /\ KernelInv /\ [KNext]_kvars => KernelInv'
<1> SUFFICES ASSUME TypeOK, LedgerInv, KernelInv, [KNext]_kvars PROVE KernelInv'
  OBVIOUS
<1>1. Known
  <2>1. [Next]_vars
    BY KernelUsesLedger
  <2> QED BY <2>1, InstancesStay, StepTypeOK DEF Known
<1>2. ASSUME NEW w \in Workers, Work(w) PROVE KernelInv'
  BY <1>1, <1>2, SweepFirstStep, ClaimByStep, NothingToClaimStep, MarkStartedByStep,
     HandlerStopsEarlyStep, RecordInvocationByStep, InvokeAdapterStep, ReportReceiptStep,
     SettleAttemptStep DEF Work
<1>3. ASSUME NEW c \in Clerks, Ingest(c) PROVE KernelInv'
  BY <1>1, <1>3, FindWaitingGateStep, RecordDecisionStep, CompleteGateStep DEF Ingest, Procs
<1>4. ASSUME NEW p \in Procs, Finish(p) PROVE KernelInv'
  BY <1>1, <1>4, AdvanceStep, QueueStageStep, WriteInstanceStep DEF Finish
<1>5. PublishGate \/ PassTime \/ UNCHANGED kvars => KernelInv'
  <2>1. PublishGate \/ PassTime \/ UNCHANGED kvars =>
          UNCHANGED <<run, pc, job, effects, grants, starts>>
    BY DEF PublishGate, RecordPublishReceipt, PassTime, Tick, kvars, vars, ledger, history,
       local
  <2> QED BY <1>1, <2>1, QuietKeepsRows, NothingAppended
<1> QED
  BY <1>1, <1>2, <1>3, <1>4, <1>5, StartWorkflowStep, OperateStep, CrashStep DEF KNext

\* Nothing is present, nobody moves and nothing has been invoked.
LEMMA InitKernelInv == KInit => KernelInv
<1> SUFFICES ASSUME KInit PROVE KernelInv
  OBVIOUS
<1>1. \A r \in Runs : run[r].status = "absent"
  BY DEF KInit, Init, AbsentRow
<1>2. \A p \in Procs : pc[p] = "idle" /\ job[p] = NoJob
  BY DEF KInit
<1>3. ThreadInv
  <2>1. \A r \in Runs : ~Live(r) /\ ~Present(r)
    BY <1>1 DEF Live, Open, Resumable, Unfinished, ActiveLease, Present
  <2>2. \A p \in Procs : ~Moving(p) /\ pc[p] # "inserting"
    BY <1>2 DEF Moving
  <2> QED
    BY <2>1, <2>2 DEF ThreadInv, OneThread, OpenIsLatest, NextIsFree, NothingBeforeStart, Live
<1>4. MemoryOK
  <2>1. pc \in [Procs -> Place] /\ job \in [Procs -> Job]
    BY NoJobIsJob DEF KInit, Place
  <2>2. \A p \in Procs : Remembers(p)
    BY <1>2 DEF Remembers, Claiming
  <2> QED BY <2>1, <2>2 DEF MemoryOK
<1>5. EffectInv
  <2>1. effects = [r \in Runs |-> 0] /\ \A p \in Procs : ~Executing(p)
    BY <1>2 DEF KInit, Executing
  <2> QED BY <2>1 DEF EffectInv
<1> QED BY <1>3, <1>4, <1>5 DEF KernelInv

-----------------------------------------------------------------------------
(* One process that does not die: where its instances stand                 *)

\* Where an instance stands, as an open attempt r of it says.
Fits(status, stage, r) ==
    /\ stage = StageOf(r)
    /\ status \in IF run[r].status = "waiting_on_human" THEN {"waiting_on_human"}
                  ELSE {"running", "retrying"}

\* The process has settled an attempt, and has still to write the instance.
Later == {"advancing", "inserting", "updating"}

Writes(p, i) == pc[p] = "updating" /\ InstanceOf(job[p].run) = i

\* Every open attempt is where its instance stands, or where the only process is
\* about to write that it does; meanwhile nothing can be restored.
WellPlaced(p) ==
    /\ \A r \in Runs : Open(r) =>
         IF Writes(p, InstanceOf(r)) THEN Fits(job[p].write.status, job[p].write.stage, r)
         ELSE Fits(instance[InstanceOf(r)].status, instance[InstanceOf(r)].stage, r)
    /\ pc[p] = "inserting" =>
         IF job[p].write = NoWrite
         THEN instance[Where(p)].status = "running"
              /\ instance[Where(p)].stage = StageOf(job[p].next)
         ELSE job[p].write = Write("running", StageOf(job[p].next))
    /\ pc[p] \in Later => instance[Where(p)].status # "blocked"
    /\ crashes = 0

\* No attempt is opened, and none begins or ends to wait and stays open.
KeepsOpen == \A r \in Runs : Open(r)' =>
    Open(r) /\ (run'[r].status = "waiting_on_human" <=> run[r].status = "waiting_on_human")

\* What is known of a state with one process p, and of the step that leaves it.
KnownOf(p) == TypeOK /\ LedgerInv /\ KernelInv /\ TypeOK' /\ KernelInv' /\ p \in Procs /\ WellPlaced(p)

\* A step before the attempt is settled.
LEMMA PlacedBeside ==
    ASSUME NEW p, KnownOf(p), KeepsOpen, UNCHANGED crashes,
           \A r \in Runs : Open(r)' =>
               instance'[InstanceOf(r)].status = instance[InstanceOf(r)].status
               /\ instance'[InstanceOf(r)].stage = instance[InstanceOf(r)].stage,
           pc[p] \notin Later, pc'[p] \notin Later
    PROVE  WellPlaced(p)'
<1>1. ASSUME NEW r \in Runs, Open(r)'
      PROVE  Fits(instance[InstanceOf(r)].status, instance[InstanceOf(r)].stage, r)'
  <2>1. Open(r) /\ ~Writes(p, InstanceOf(r))
    BY <1>1 DEF KeepsOpen, Writes, Later
  <2>2. Fits(instance[InstanceOf(r)].status, instance[InstanceOf(r)].stage, r)
    BY <2>1 DEF KnownOf, WellPlaced
  <2> QED BY <1>1, <2>2 DEF Fits, KeepsOpen
<1>2. \A i : ~Writes(p, i)'
  BY DEF Writes, Later
<1> QED BY <1>1, <1>2 DEF KnownOf, WellPlaced, Later

\* Nothing is open on an instance that the process moves on.
LEMMA NothingOpenWhereMoving ==
    ASSUME KernelInv, NEW p \in Procs, Moving(p), NEW r \in Runs, Open(r)
    PROVE  InstanceOf(r) # Where(p)
BY DEF KernelInv, ThreadInv, OneThread, Live

\* A step in which the process takes over, or keeps, the thread of an instance
\* that is not blocked, while the others stay as they are.
LEMMA PlacedElsewhere ==
    ASSUME NEW p, KnownOf(p), NEW i \in Instances, UNCHANGED crashes,
           pc'[p] \in Later, Where(p)' = i, instance'[i].status # "blocked",
           \A k \in Instances \ {i} : instance'[k] = instance[k] /\ ~Writes(p, k),
           \A r \in Runs : InstanceOf(r) # i => (Open(r)' => Open(r) /\ run'[r] = run[r]),
           \A r \in Runs : InstanceOf(r) = i /\ Open(r)' =>
               IF pc'[p] = "updating" THEN Fits(job[p].write.status, job[p].write.stage, r)'
               ELSE Fits(instance[i].status, instance[i].stage, r)',
           pc'[p] = "inserting" =>
               IF job'[p].write = NoWrite
               THEN instance'[i].status = "running" /\ instance'[i].stage = StageOf(job'[p].next)
               ELSE job'[p].write = Write("running", StageOf(job'[p].next))
    PROVE  WellPlaced(p)'
<1>1. \A k : Writes(p, k)' <=> (pc'[p] = "updating" /\ k = i)
  BY DEF Writes, Where
<1>2. ASSUME NEW r \in Runs, Open(r)', InstanceOf(r) # i
      PROVE  /\ ~Writes(p, InstanceOf(r))'
             /\ Fits(instance[InstanceOf(r)].status, instance[InstanceOf(r)].stage, r)'
  <2>1. InstanceOf(r) \in Instances /\ ~Writes(p, InstanceOf(r)) /\ Open(r)
        /\ run'[r] = run[r] /\ instance'[InstanceOf(r)] = instance[InstanceOf(r)]
    BY <1>2, RunsAreTriples
  <2>2. Fits(instance[InstanceOf(r)].status, instance[InstanceOf(r)].stage, r)
    BY <2>1 DEF KnownOf, WellPlaced
  <2> QED BY <1>1, <1>2, <2>1, <2>2 DEF Fits
<1>3. \A r \in Runs : Open(r)' =>
        IF Writes(p, InstanceOf(r))' THEN Fits(job[p].write.status, job[p].write.stage, r)'
        ELSE Fits(instance[InstanceOf(r)].status, instance[InstanceOf(r)].stage, r)'
  BY <1>1, <1>2
<1> QED BY <1>3 DEF KnownOf, WellPlaced

\* A step of which neither the attempts, the instances nor the processes tell.
LEMMA PlacedAlready ==
    ASSUME NEW p, KnownOf(p), UNCHANGED <<instance, run, pc, job, crashes>>
    PROVE  WellPlaced(p)'
<1>1. \A r : Open(r)' <=> Open(r)
  BY DEF KnownOf, Open
<1>2. \A i : Writes(p, i)' <=> Writes(p, i)
  BY DEF KnownOf, Writes
<1>3. Where(p)' = Where(p)
  BY DEF KnownOf, Where
<1> QED BY <1>1, <1>2, <1>3 DEF KnownOf, WellPlaced, Fits

\* Where a process is after a step of its own.
LEMMA MovedTo ==
    ASSUME TypeOK, KernelInv, NEW p \in Procs, NEW to, NEW j, Goto(p, to, j)
    PROVE  pc'[p] = to /\ job'[p] = j /\ UNCHANGED crashes
BY DEF Goto, KernelInv, MemoryOK

\* The sweep blocks no instance that keeps an open attempt.
LEMMA SweepPlaces ==
    ASSUME NEW p, KnownOf(p), SweepFirst(p)
    PROVE  WellPlaced(p)'
<1>1. pc[p] = "idle" /\ pc'[p] = "swept" /\ UNCHANGED crashes
  BY MovedTo DEF SweepFirst, KnownOf
<1>2. CASE UNCHANGED vars
  BY <1>1, <1>2, PlacedBeside DEF vars, ledger, Later, KeepsOpen, Open
<1>3. CASE SweepStaleLeases(now)
  <2>1. \A r \in Runs : Expired(r, now) => run[r].status \in ActiveLease
    BY DEF Expired, KnownOf, LedgerInv, LeaseIffActive
  <2>2. \A r \in Runs : run'[r] = IF Expired(r, now) THEN Recovered(r) ELSE run[r]
    BY <1>3 DEF SweepStaleLeases
  <2>3. \A r \in Runs : Expired(r, now) =>
          run'[r].status = IF Replayable(r) THEN "queued" ELSE "blocked"
    <3> SUFFICES ASSUME NEW r \in Runs
                 PROVE  Recovered(r).status = IF Replayable(r) THEN "queued" ELSE "blocked"
      BY <2>2
    <3>1. \A status, failure, approval :
            [Released(run[r], status) EXCEPT !.failure = failure,
                                             !.approval = approval].status = status
      BY ReleasedStatus DEF KnownOf
    <3> QED BY <3>1 DEF Recovered
  <2>4. KeepsOpen
    <3> SUFFICES ASSUME NEW r \in Runs, Open(r)'
                 PROVE  Open(r) /\ (run'[r].status = "waiting_on_human"
                                      <=> run[r].status = "waiting_on_human")
      BY DEF KeepsOpen
    <3>1. CASE Expired(r, now)
      BY <2>1, <2>3, <3>1 DEF Open, Unfinished, ActiveLease
    <3>2. CASE ~Expired(r, now)
      BY <2>2, <3>2 DEF Open
    <3> QED BY <3>1, <3>2
  <2>5. ASSUME NEW r \in Runs, Open(r)'
        PROVE  instance'[InstanceOf(r)].status = instance[InstanceOf(r)].status
               /\ instance'[InstanceOf(r)].stage = instance[InstanceOf(r)].stage
    <3>1. InstanceOf(r) \in Instances /\ instance[InstanceOf(r)] \in InstanceRow
      BY RunsAreTriples DEF KnownOf, TypeOK
    <3>2. ~SweepBlocks(InstanceOf(r), now)
      <4> SUFFICES ASSUME NEW q \in Runs, InstanceOf(q) = InstanceOf(r), Expired(q, now),
                          ~Replayable(q)
                   PROVE  FALSE
        BY DEF SweepBlocks, SweptRuns
      <4>1. Open(q) /\ Open(r) /\ ~Open(q)'
        BY <2>1, <2>3, <2>4, <2>5 DEF KeepsOpen, Open, Unfinished, ActiveLease
      <4> QED BY <2>5, <4>1 DEF KnownOf, KernelInv, ThreadInv, OneThread, Live
    <3> QED BY <1>3, <3>1, <3>2 DEF SweepStaleLeases, InstanceRow
  <2> QED BY <1>1, <2>4, <2>5, PlacedBeside DEF Later
<1> QED BY <1>2, <1>3 DEF SweepFirst

\* Up to the settlement, an attempt only goes from queued to claimed to started.
LEMMA WorkPlaces ==
    ASSUME NEW p, KnownOf(p),
           \/ Claim(p) \/ NothingToClaim(p) \/ MarkStarted(p) \/ HandlerStopsEarly(p)
           \/ RecordInvocation(p) \/ InvokeAdapter(p) \/ ReportReceipt(p)
           \/ FindWaitingGate(p) \/ RecordDecision(p)
    PROVE  WellPlaced(p)'
<1> USE DEF KnownOf
<1>1. pc[p] \notin Later
  BY DEF Claim, NothingToClaim, MarkStarted, HandlerStopsEarly, RecordInvocation,
     InvokeAdapter, ReportReceipt, FindWaitingGate, RecordDecision, Later
<1>2. \E to \in {"idle", "claimed", "handling", "invoking", "reporting", "settling",
                 "recording", "deciding"} : pc' = [pc EXCEPT ![p] = to] /\ UNCHANGED crashes
  <2>1. CASE Claim(p)
    BY <2>1 DEF Claim, Goto
  <2>2. CASE NothingToClaim(p) \/ MarkStarted(p)
    BY <2>2 DEF NothingToClaim, MarkStarted, Stop, Goto
  <2>3. CASE HandlerStopsEarly(p)
    BY <2>3 DEF HandlerStopsEarly, Goto
  <2>4. CASE RecordInvocation(p) \/ InvokeAdapter(p)
    BY <2>4 DEF RecordInvocation, InvokeAdapter, Goto
  <2>5. CASE ReportReceipt(p) \/ RecordDecision(p)
    BY <2>5 DEF ReportReceipt, RecordDecision, Goto
  <2>6. CASE FindWaitingGate(p)
    <3>1. PICK r \in Runs, v \in {"accepted", "unrouted", "invalid"} :
            Goto(p, IF v = "invalid" THEN "deciding" ELSE "recording",
                 [NoJob EXCEPT !.run = r, !.verdict = v])
      BY <2>6 DEF FindWaitingGate
    <3> QED BY <3>1 DEF Goto
  <2> QED BY <2>1, <2>2, <2>3, <2>4, <2>5, <2>6
<1>3. pc'[p] \notin Later /\ UNCHANGED crashes
  BY <1>2 DEF KernelInv, MemoryOK, Later
<1>4. CASE UNCHANGED <<instance, run>>
  BY <1>1, <1>3, <1>4, PlacedBeside DEF KeepsOpen, Open
<1>5. CASE Claim(p)
  <2>1. PICK r \in Runs : ClaimNextQueuedRun(r, p, now)
    BY <1>5 DEF Claim
  <2>2. run[r].status = "queued" /\ run'[r].status = "claimed" /\ UNCHANGED instance
        /\ \A q \in Runs \ {r} : run'[q] = run[q]
    BY <2>1 DEF ClaimNextQueuedRun, TypeOK, Row
  <2> QED BY <1>1, <1>3, <2>2, PlacedBeside DEF KeepsOpen, Open, Unfinished, ActiveLease
<1>6. CASE MarkStarted(p)
  <2>1. CASE MarkStageRunStarted(job[p].grant, now)
    <3>1. job[p].grant.run \in Runs /\ run[job[p].grant.run].status = "claimed"
      BY <2>1 DEF MarkStageRunStarted, Authorises, TypeOK, Grant
    <3>2. run'[job[p].grant.run].status = "started" /\ UNCHANGED instance
          /\ \A q \in Runs \ {job[p].grant.run} : run'[q] = run[q]
      BY <2>1, <3>1 DEF MarkStageRunStarted, TypeOK, Row
    <3> QED
      BY <1>1, <1>3, <3>1, <3>2, PlacedBeside DEF KeepsOpen, Open, Unfinished, ActiveLease
  <2>2. CASE UNCHANGED vars
    BY <1>4, <2>2 DEF vars, ledger
  <2> QED BY <1>6, <2>1, <2>2 DEF MarkStarted
<1>7. CASE NothingToClaim(p) \/ HandlerStopsEarly(p) \/ RecordInvocation(p) \/ InvokeAdapter(p)
           \/ ReportReceipt(p) \/ FindWaitingGate(p) \/ RecordDecision(p)
  BY <1>4, <1>7 DEF NothingToClaim, HandlerStopsEarly, RecordInvocation, InvokeAdapter,
     ReportReceipt, FindWaitingGate, RecordDecision, vars, ledger, RecordAdapterInvocation,
     RecordHandlerReceipt, RecordHumanDecision
<1> QED BY <1>5, <1>6, <1>7

\* Whoever settles an attempt is about to write that it waits, or is retried, or
\* goes on from its success.
LEMMA SettlePlaces ==
    ASSUME NEW p, KnownOf(p), SettleAttempt(p)
    PROVE  WellPlaced(p)'
<1> USE DEF KnownOf
<1>0. PICK g \in grants, v \in HandlerVerdicts : g = job[p].grant /\ v = job[p].verdict
  BY DEF SettleAttempt, KernelInv, MemoryOK, Remembers, Claiming
<1> DEFINE i == InstanceOf(g.run)
<1>1. /\ pc[p] = "settling" /\ g = job[p].grant /\ v = job[p].verdict
      /\ job[p].run = g.run /\ g.run \in Runs /\ i \in Instances
  BY <1>0, RunsAreTriples DEF SettleAttempt, KernelInv, MemoryOK, Remembers, Claiming, TypeOK,
     Grant
<1>2. CASE ~Authorises(g, ActiveLease, now)
  <2>1. Stop(p) /\ UNCHANGED vars
    BY <1>1, <1>2 DEF SettleAttempt
  <2>2. pc'[p] = "idle" /\ UNCHANGED crashes
    BY <2>1, MovedTo DEF Stop
  <2> QED BY <1>1, <2>1, <2>2, PlacedBeside DEF vars, ledger, KeepsOpen, Open, Later
<1>3. CASE Authorises(g, ActiveLease, now)
  <2>1. Open(g.run) /\ SettleBy(g, v)
    BY <1>1, <1>3 DEF SettleAttempt, Authorises, Open, Unfinished
  <2>2. \A q \in Runs \ {g.run} : InstanceOf(q) = i => ~Open(q)
    BY <1>1, <2>1 DEF KernelInv, ThreadInv, OneThread, Live
  <2>3. instance[i].status # "blocked" /\ UNCHANGED instance
    <3>1. Fits(instance[i].status, instance[i].stage, g.run)
      BY <1>1, <2>1 DEF WellPlaced, Writes
    <3>2. UNCHANGED instance
      BY <1>1, <2>1 DEF SettleBy, HandlerVerdicts, CompleteStageRun, WaitStageRunForHumanDecision,
         ScheduleRetry, BlockStageRun, FailStageRun, Settle
    <3> QED BY <3>1, <3>2 DEF Fits
  <2>4. UNCHANGED crashes /\ job'[p].run = g.run
        /\ IF v = "succeeded" THEN pc'[p] = "advancing"
           ELSE pc'[p] = "updating"
                /\ job'[p].write = Write(StatusAfter(v, StageOf(g.run)), StageOf(g.run))
    <3>1. CASE v = "succeeded"
      <4>1. Goto(p, "advancing", job[p])
        BY <1>1, <1>3, <3>1 DEF SettleAttempt
      <4> QED BY <1>1, <3>1, <4>1, MovedTo
    <3>2. CASE v # "succeeded"
      <4> DEFINE write == Write(StatusAfter(v, StageOf(g.run)), StageOf(g.run))
                 j == [job[p] EXCEPT !.write = write]
      <4>1. Goto(p, "updating", j)
        BY <1>1, <1>3, <3>2 DEF SettleAttempt
      <4>2. j.run = g.run /\ j.write = write
        BY <1>1 DEF KernelInv, MemoryOK, Job
      <4> HIDE DEF j
      <4>3. pc'[p] = "updating" /\ job'[p] = j /\ UNCHANGED crashes
        BY <4>1, MovedTo
      <4> QED BY <3>2, <4>2, <4>3
    <3> QED BY <3>1, <3>2
  <2>5. pc'[p] \in {"advancing", "updating"} /\ Where(p)' = i
    BY <2>4 DEF Where
  <2>6. ASSUME v # "retry"
        PROVE  /\ \A r \in Runs : InstanceOf(r) # i => (Open(r)' => Open(r) /\ run'[r] = run[r])
               /\ \A r \in Runs : InstanceOf(r) = i /\ Open(r)' =>
                    r = g.run /\ v = "waiting" /\ run'[r].status = "waiting_on_human"
    <3>1. /\ \A q \in Runs \ {g.run} : run'[q] = run[q]
          /\ Open(g.run)' => v = "waiting" /\ run'[g.run].status = "waiting_on_human"
      BY <1>1, <1>3, <2>1, <2>6, SettledWithoutRetry DEF KernelInv, ThreadInv
    <3> QED BY <2>2, <3>1 DEF Open
  <2>7. CASE v = "retry"
    <3>1. PICK d : ScheduleRetry(g, "other", d, now)
      BY <2>1, <2>7 DEF SettleBy
    <3>2. PICK x \in Runs : /\ RowAppended(x) /\ InstanceOf(x) = i
                            /\ StageOf(x) = StageOf(g.run) /\ run'[x].status = "queued"
                            /\ \A q \in Runs \ {g.run, x} : run'[q] = run[q]
      BY <1>1, <1>3, <3>1, SettledWithRetry DEF KernelInv
    <3>3. x # g.run => ~Open(g.run)'
      BY <1>1, <3>2 DEF KernelInv, ThreadInv, OneThread, Live, Open, Unfinished
    <3>4. \A r \in Runs : InstanceOf(r) # i => (Open(r)' => Open(r) /\ run'[r] = run[r])
      BY <3>2 DEF Open
    <3>5. \A r \in Runs : InstanceOf(r) = i /\ Open(r)' => r = x
      BY <2>2, <3>2, <3>3 DEF Open
    <3>6. pc'[p] = "updating" /\ job'[p].write = Write("retrying", StageOf(g.run))
      BY <2>4, <2>7 DEF StatusAfter
    <3>7. Fits(job[p].write.status, job[p].write.stage, x)'
      BY <3>2, <3>6 DEF Fits, Write
    <3> QED
      BY <1>1, <2>3, <2>4, <2>5, <3>4, <3>5, <3>6, <3>7, PlacedElsewhere DEF Later, Writes
  <2>8. CASE v # "retry"
    <3>1. ASSUME NEW r \in Runs, InstanceOf(r) = i, Open(r)'
          PROVE  pc'[p] = "updating" /\ Fits(job[p].write.status, job[p].write.stage, r)'
      <4>1. r = g.run /\ v = "waiting" /\ run'[r].status = "waiting_on_human"
        BY <2>6, <2>8, <3>1
      <4>2. pc'[p] = "updating" /\ job'[p].write = Write("waiting_on_human", StageOf(g.run))
        BY <2>4, <4>1 DEF StatusAfter
      <4> QED BY <4>1, <4>2 DEF Fits, Write
    <3> QED
      BY <1>1, <2>3, <2>4, <2>5, <2>6, <2>8, <3>1, PlacedElsewhere DEF Later, Writes
  <2> QED BY <2>7, <2>8
<1> QED BY <1>2, <1>3

\* The gate a clerk has found is completed, or left alone.
LEMMA GatePlaces ==
    ASSUME NEW p, KnownOf(p), CompleteGate(p)
    PROVE  WellPlaced(p)'
<1> USE DEF KnownOf
<1>0. PICK r \in Runs : r = job[p].run
  BY DEF CompleteGate, KernelInv, MemoryOK, Remembers
<1> DEFINE i == InstanceOf(r)
<1>1. pc[p] = "deciding" /\ job[p] \in Job /\ i \in Instances
  BY <1>0, RunsAreTriples DEF CompleteGate, KernelInv, MemoryOK
<1>2. CASE run[r].status # "waiting_on_human"
  <2>1. Stop(p) /\ UNCHANGED vars
    BY <1>0, <1>2 DEF CompleteGate
  <2>2. pc'[p] = "idle" /\ UNCHANGED crashes
    BY <2>1, MovedTo DEF Stop
  <2> QED BY <1>1, <2>1, <2>2, PlacedBeside DEF vars, ledger, KeepsOpen, Open, Later
<1>3. CASE run[r].status = "waiting_on_human"
  <2>1. PICK status \in {"succeeded", "blocked"} : \E failure :
          CompleteWaitingHumanStageRun(r, status, failure)
    BY <1>0, <1>3 DEF CompleteGate
  <2>2. run'[r].status = status /\ UNCHANGED instance /\ \A q \in Runs \ {r} : run'[q] = run[q]
    BY <2>1 DEF CompleteWaitingHumanStageRun, TypeOK, Row
  <2>3. Open(r) /\ ~Open(r)'
    BY <1>3, <2>2 DEF Open, Unfinished, ActiveLease
  <2>4. \A q \in Runs : InstanceOf(q) = i => ~Open(q)'
    <3>1. \A q \in Runs \ {r} : InstanceOf(q) = i => ~Open(q)
      BY <2>3 DEF KernelInv, ThreadInv, OneThread, Live
    <3> QED BY <2>2, <2>3, <3>1 DEF Open
  <2>5. instance[i].status # "blocked"
    BY <1>1, <2>3 DEF WellPlaced, Writes, Fits
  <2>6. PICK to \in {"advancing", "updating"},
             j \in {job[p], [job[p] EXCEPT !.write = Write("blocked", StageOf(r))]} :
          Goto(p, to, j)
    BY <1>0, <1>3 DEF CompleteGate
  <2>7. j.run = r
    BY <1>0, <1>1, <2>6 DEF Job
  <2>8. pc'[p] = to /\ job'[p] = j /\ UNCHANGED crashes
    BY <2>6, MovedTo
  <2>9. Where(p)' = i
    BY <2>7, <2>8 DEF Where
  <2>10. \A q \in Runs : InstanceOf(q) # i => (Open(q)' => Open(q) /\ run'[q] = run[q])
    BY <2>2 DEF Open
  <2>11. \A k : ~Writes(p, k)
    BY <1>1 DEF Writes
  <2>12. pc'[p] \in Later /\ pc'[p] # "inserting"
    BY <2>8 DEF Later
  <2> QED BY <1>1, <2>2, <2>4, <2>5, <2>8, <2>9, <2>10, <2>11, <2>12, PlacedElsewhere
<1> QED BY <1>2, <1>3

\* The process that advances an instance has nothing open on it, and is about
\* to queue the attempt at the stage it will write.
LEMMA AdvancePlaces ==
    ASSUME NEW p, KnownOf(p), Advance(p)
    PROVE  WellPlaced(p)'
<1> USE DEF KnownOf
<1>0. PICK r \in Runs : r = job[p].run
  BY DEF Advance, KernelInv, MemoryOK, Remembers
<1> DEFINE i == InstanceOf(r)
<1>1. pc[p] = "advancing" /\ job[p] \in Job /\ i \in Instances /\ Where(p) = i
  BY <1>0, RunsAreTriples DEF Advance, KernelInv, MemoryOK, Where
<1>2. instance[i].status # "blocked" /\ UNCHANGED <<instance, run>>
  BY <1>1 DEF WellPlaced, Later, Advance, vars, ledger
<1>3. \A q \in Runs : InstanceOf(q) = i => ~Open(q)'
  BY <1>1, <1>2, NothingOpenWhereMoving DEF Moving, Open
<1>4. \A k : ~Writes(p, k)
  BY <1>1 DEF Writes
<1>5. \A q \in Runs : Open(q)' => Open(q) /\ run'[q] = run[q]
  BY <1>2 DEF Open
<1>6. ASSUME NEW status, NEW s, Goto(p, "updating", [job[p] EXCEPT !.write = Write(status, s)])
      PROVE  WellPlaced(p)'
  <2> DEFINE write == Write(status, s)
             j == [job[p] EXCEPT !.write = write]
  <2>1. j.run = r
    BY <1>0, <1>1 DEF Job
  <2>2. Goto(p, "updating", j)
    BY <1>6
  <2> HIDE DEF j
  <2>3. pc'[p] = "updating" /\ job'[p] = j /\ UNCHANGED crashes
    BY <2>2, MovedTo
  <2>4. Where(p)' = i
    BY <2>1, <2>3 DEF Where
  <2> QED BY <1>1, <1>2, <1>3, <1>4, <1>5, <2>3, <2>4, PlacedElsewhere DEF Later
<1>7. ASSUME NEW s \in Stages, NEW n \in Attempts,
             Goto(p, "inserting", [job[p] EXCEPT !.next = <<i, s, n>>,
                                                 !.write = Write("running", s)])
      PROVE  WellPlaced(p)'
  <2> DEFINE x == <<i, s, n>>
             write == Write("running", s)
             j == [job[p] EXCEPT !.next = x, !.write = write]
  <2>1. j.next = x /\ j.write = write
    BY <1>1 DEF Job
  <2>2. Goto(p, "inserting", j)
    BY <1>7
  <2>3. InstanceOf(x) = i /\ StageOf(x) = s
    BY DEF InstanceOf, StageOf
  <2>4. write # NoWrite /\ write = Write("running", StageOf(x))
    BY <2>3 DEF Write, NoWrite
  <2> HIDE DEF j, x, write
  <2>5. pc'[p] = "inserting" /\ job'[p] = j /\ UNCHANGED crashes
    BY <2>2, MovedTo
  <2>6. Where(p)' = i
    BY <2>1, <2>3, <2>5 DEF Where
  <2> QED
    BY <1>1, <1>2, <1>3, <1>4, <1>5, <2>1, <2>4, <2>5, <2>6, PlacedElsewhere DEF Later
<1> QED BY <1>0, <1>6, <1>7 DEF Advance

\* The attempt that is queued is where the instance stands, or where the process
\* will write that it does.
LEMMA QueuePlaces ==
    ASSUME NEW p, KnownOf(p), QueueStage(p)
    PROVE  WellPlaced(p)'
<1> USE DEF KnownOf
<1>0. PICK x \in Runs : x = job[p].next
  BY DEF QueueStage, KernelInv, MemoryOK, Remembers
<1> DEFINE i == InstanceOf(x)
<1>1. /\ pc[p] = "inserting" /\ job[p] \in Job /\ i \in Instances /\ Where(p) = i
      /\ ~Present(x)
  <2>1. pc[p] = "inserting" /\ IsNextAttempt(x)
    BY <1>0 DEF QueueStage, KernelInv, ThreadInv, NextIsFree
  <2>2. x = <<x[1], x[2], AttemptOf(x)>> /\ AttemptOf(x) \in Attempts
    BY RunsAreTriples DEF Runs, AttemptOf
  <2>3. ~Present(x)
    BY <2>1, <2>2, BoundsAreNat DEF IsNextAttempt, Attempts
  <2> QED BY <1>0, <2>1, <2>3, RunsAreTriples DEF KernelInv, MemoryOK, Where
<1>2. InsertStageRun(x)
      /\ IF job[p].write = NoWrite THEN Stop(p) ELSE Goto(p, "updating", job[p])
  BY <1>0, <1>1 DEF QueueStage
<1>3. run'[x].status = "queued" /\ UNCHANGED instance /\ \A q \in Runs \ {x} : run'[q] = run[q]
  BY <1>2, QueuedStatus DEF InsertStageRun, TypeOK
<1>4. \A q \in Runs : InstanceOf(q) = i => ~Open(q)
  BY <1>1, NothingOpenWhereMoving DEF Moving
<1>5. \A q \in Runs : Open(q)' => q = x \/ (Open(q) /\ run'[q] = run[q])
  BY <1>3 DEF Open
<1>6. \A k : ~Writes(p, k)
  BY <1>1 DEF Writes
<1>7. CASE job[p].write = NoWrite
  <2>1. pc'[p] = "idle" /\ UNCHANGED crashes
    BY <1>2, <1>7, MovedTo DEF Stop
  <2>2. instance[i].status = "running" /\ instance[i].stage = StageOf(x)
    BY <1>0, <1>1, <1>7 DEF WellPlaced
  <2>3. ASSUME NEW q \in Runs, Open(q)'
        PROVE  Fits(instance[InstanceOf(q)].status, instance[InstanceOf(q)].stage, q)'
    <3>1. CASE q = x
      BY <1>3, <2>2, <3>1 DEF Fits
    <3>2. CASE q # x
      BY <1>3, <1>5, <1>6, <2>3, <3>2 DEF WellPlaced, Fits
    <3> QED BY <3>1, <3>2
  <2>4. \A k : ~Writes(p, k)'
    BY <2>1 DEF Writes
  <2> QED BY <2>1, <2>3, <2>4 DEF WellPlaced, Later
<1>8. CASE job[p].write # NoWrite
  <2>1. pc'[p] = "updating" /\ job'[p] = job[p] /\ UNCHANGED crashes
    BY <1>2, <1>8, MovedTo
  <2>2. job[p].write = Write("running", StageOf(x)) /\ instance[i].status # "blocked"
    BY <1>0, <1>1, <1>8 DEF WellPlaced, Later
  <2>3. Where(p)' = i
    BY <1>0, <1>1, <1>8, <2>1 DEF Where, KernelInv, MemoryOK, Remembers
  <2>4. Fits(job[p].write.status, job[p].write.stage, x)'
    BY <1>3, <2>1, <2>2 DEF Fits, Write
  <2>5. \A q \in Runs : InstanceOf(q) = i /\ Open(q)' => q = x
    BY <1>4, <1>5
  <2> QED
    BY <1>1, <1>3, <1>5, <1>6, <2>1, <2>2, <2>3, <2>4, <2>5, PlacedElsewhere DEF Later
<1> QED BY <1>7, <1>8

\* The instance is written where the open attempt is.
LEMMA WritePlaces ==
    ASSUME NEW p, KnownOf(p), WriteInstance(p)
    PROVE  WellPlaced(p)'
<1> USE DEF KnownOf
<1>0. PICK i \in Instances, write \in {job[p].write} : i = InstanceOf(job[p].run)
  BY RunsAreTriples DEF WriteInstance, KernelInv, MemoryOK, Remembers
<1>1. pc[p] = "updating" /\ pc'[p] = "idle" /\ UNCHANGED <<run, crashes>>
  BY MovedTo DEF WriteInstance, Stop, UpdateWorkflowInstance
<1>2. /\ instance'[i].status = write.status /\ instance'[i].stage = write.stage
      /\ \A k \in Instances \ {i} : instance'[k] = instance[k]
  <2>1. UpdateWorkflowInstance(i, write.status, write.stage)
    BY <1>0 DEF WriteInstance
  <2>2. instance[i] \in InstanceRow
    BY DEF TypeOK
  <2> QED BY <2>1, <2>2 DEF UpdateWorkflowInstance, Stand, TypeOK, InstanceRow
<1>3. ASSUME NEW r \in Runs, Open(r)'
      PROVE  Fits(instance[InstanceOf(r)].status, instance[InstanceOf(r)].stage, r)'
  <2>1. Open(r) /\ InstanceOf(r) \in Instances
    BY <1>1, <1>3, RunsAreTriples DEF Open
  <2>2. CASE InstanceOf(r) = i
    <3>1. Fits(write.status, write.stage, r)
      BY <1>0, <1>1, <2>1, <2>2 DEF WellPlaced, Writes
    <3> QED BY <1>1, <1>2, <2>2, <3>1 DEF Fits
  <2>3. CASE InstanceOf(r) # i
    <3>1. Fits(instance[InstanceOf(r)].status, instance[InstanceOf(r)].stage, r)
      BY <1>0, <2>1, <2>3 DEF WellPlaced, Writes
    <3> QED BY <1>1, <1>2, <2>1, <2>3, <3>1 DEF Fits
  <2> QED BY <2>2, <2>3
<1>4. \A k : ~Writes(p, k)'
  BY <1>1 DEF Writes
<1> QED BY <1>1, <1>3, <1>4 DEF WellPlaced, Later

\* A workflow starts at its first stage, where its first attempt will be.
LEMMA StartPlaces ==
    ASSUME NEW p, KnownOf(p), NEW i \in Instances, StartWorkflow(p, i)
    PROVE  WellPlaced(p)'
<1> USE DEF KnownOf
<1> DEFINE x == <<i, FirstStage, 1>>
           j == [NoJob EXCEPT !.next = x]
<1>1. j.next = x /\ j.write = NoWrite
  BY DEF NoJob
<1>2. pc[p] = "idle" /\ instance[i].status = "absent" /\ UNCHANGED run
      /\ InsertWorkflowInstance(i, FirstStage) /\ Goto(p, "inserting", j)
  BY DEF StartWorkflow, InsertWorkflowInstance
<1>3. InstanceOf(x) = i /\ StageOf(x) = FirstStage
  BY DEF InstanceOf, StageOf
<1> HIDE DEF x, j
<1>4. pc'[p] = "inserting" /\ job'[p] = j /\ UNCHANGED crashes
  BY <1>2, MovedTo
<1>5. Where(p)' = i
  BY <1>1, <1>3, <1>4 DEF Where
<1>6. /\ instance'[i].status = "running" /\ instance'[i].stage = FirstStage
      /\ \A k \in Instances \ {i} : instance'[k] = instance[k]
  BY <1>2 DEF InsertWorkflowInstance, Stand, TypeOK, InstanceRow
<1>7. \A r \in Runs : (Open(r)' => Open(r) /\ run'[r] = run[r])
  BY <1>2 DEF Open
<1>8. \A r \in Runs : InstanceOf(r) = i => ~Open(r)'
  <2>1. \A r \in Runs : InstanceOf(r) = i => ~Live(r)
    BY <1>2, LiveIsLatest DEF KernelInv, ThreadInv, NothingBeforeStart
  <2> QED BY <1>7, <2>1 DEF Live
<1>9. \A k : ~Writes(p, k)
  BY <1>2 DEF Writes
<1> QED
  BY <1>1, <1>3, <1>4, <1>5, <1>6, <1>7, <1>8, <1>9, PlacedElsewhere DEF Later

\* A gate is restored only where nothing is open and nobody is moving.
LEMMA RestorePlaces ==
    ASSUME NEW p, KnownOf(p), Operate, Repairs \subseteq {"restore"}
    PROVE  WellPlaced(p)'
<1> USE DEF KnownOf
<1>1. PICK r \in Runs : RestorePublishedHumanGateWaiting(r)
  BY DEF Operate
<1> DEFINE i == InstanceOf(r)
<1>2. UNCHANGED <<pc, job, crashes>> /\ i \in Instances
  BY RunsAreTriples DEF Operate, local
<1>3. /\ instance[i].status = "blocked" /\ Live(r) /\ ~Open(r)
      /\ run'[r].status = "waiting_on_human"
      /\ \A q \in Runs \ {r} : run'[q] = run[q]
  BY <1>1 DEF RestorePublishedHumanGateWaiting, AtCurrentStage, Live, Resumable, Open,
     Unfinished, ActiveLease, TypeOK, Row
<1>4. /\ instance'[i].status = "waiting_on_human" /\ instance'[i].stage = StageOf(r)
      /\ \A k \in Instances \ {i} : instance'[k] = instance[k]
  BY <1>1 DEF RestorePublishedHumanGateWaiting, Stand, TypeOK, InstanceRow
<1>5. pc[p] \in Later => Where(p) \in Instances \ {i}
  <2>1. pc[p] \in Later => Where(p) # i
    BY <1>3 DEF WellPlaced
  <2>2. pc[p] \in Later => Where(p) \in Instances
    BY RunsAreTriples DEF Later, Where, KernelInv, MemoryOK, Remembers, Claiming
  <2> QED BY <2>1, <2>2
<1>6. ~Writes(p, i) /\ Where(p)' = Where(p) /\ \A k : Writes(p, k)' <=> Writes(p, k)
  BY <1>2, <1>5 DEF Writes, Where, Later
<1>7. ASSUME NEW q \in Runs, Open(q)'
      PROVE  IF Writes(p, InstanceOf(q))' THEN Fits(job[p].write.status, job[p].write.stage, q)'
             ELSE Fits(instance[InstanceOf(q)].status, instance[InstanceOf(q)].stage, q)'
  <2>1. CASE q = r
    BY <1>3, <1>4, <1>6, <2>1 DEF Fits
  <2>2. CASE q # r
    <3>1. Open(q) /\ run'[q] = run[q] /\ InstanceOf(q) \in Instances
      BY <1>3, <1>7, <2>2, RunsAreTriples DEF Open
    <3>2. InstanceOf(q) # i
      BY <1>3, <2>2, <3>1 DEF KernelInv, ThreadInv, OneThread, Live
    <3>3. IF Writes(p, InstanceOf(q)) THEN Fits(job[p].write.status, job[p].write.stage, q)
          ELSE Fits(instance[InstanceOf(q)].status, instance[InstanceOf(q)].stage, q)
      BY <3>1 DEF WellPlaced
    <3> QED BY <1>2, <1>4, <1>6, <3>1, <3>2, <3>3 DEF Fits
  <2> QED BY <2>1, <2>2
<1>8. pc'[p] \in Later => instance'[Where(p)'] = instance[Where(p)]
  BY <1>2, <1>4, <1>5, <1>6
<1> QED BY <1>2, <1>6, <1>7, <1>8 DEF WellPlaced, Later

\* Every step of the only process keeps the instances placed.
LEMMA StepWellPlaced ==
    ASSUME NEW p, Procs = {p}, MaxCrashes = 0, Repairs \subseteq {"restore"},
           KnownOf(p), [KNext]_kvars
    PROVE  WellPlaced(p)'
<1>1. ASSUME NEW w \in Workers, Work(w) PROVE WellPlaced(p)'
  <2>1. w = p
    BY DEF Procs
  <2> QED BY <1>1, <2>1, SweepPlaces, WorkPlaces, SettlePlaces DEF Work
<1>2. ASSUME NEW c \in Clerks, Ingest(c) PROVE WellPlaced(p)'
  <2>1. c = p
    BY DEF Procs
  <2> QED BY <1>2, <2>1, WorkPlaces, GatePlaces DEF Ingest
<1>3. ASSUME NEW q \in Procs, Finish(q) PROVE WellPlaced(p)'
  BY <1>3, AdvancePlaces, QueuePlaces, WritePlaces DEF Finish
<1>4. ASSUME NEW q \in Procs, Crash(q) PROVE FALSE
  BY <1>4 DEF Crash, KnownOf, WellPlaced
<1>5. ASSUME PublishGate \/ PassTime \/ UNCHANGED kvars PROVE WellPlaced(p)'
  <2>1. UNCHANGED <<instance, run, pc, job, crashes>>
    BY <1>5 DEF PublishGate, RecordPublishReceipt, PassTime, Tick, kvars, vars, ledger, local
  <2> QED BY <2>1, PlacedAlready
<1> QED BY <1>1, <1>2, <1>3, <1>4, <1>5, StartPlaces, RestorePlaces DEF KNext

-----------------------------------------------------------------------------
(* The theorems                                                            *)

\* In every reachable state of the kernel the ledger is sound, an instance has
\* at most one thread of control, processes remember what they did, and effects
\* are counted by starts.
THEOREM KernelInvariant == KSpec => [](TypeOK /\ LedgerInv /\ KernelInv)
<1>1. KInit => TypeOK /\ LedgerInv /\ KernelInv
  BY InitTypeOK, InitLedgerInv, InitKernelInv DEF KInit
<1>2. TypeOK /\ LedgerInv /\ KernelInv /\ [KNext]_kvars => (TypeOK /\ LedgerInv /\ KernelInv)'
  BY KernelUsesLedger, StepTypeOK, StepLedgerInv, StepKernelInv
<1> QED BY <1>1, <1>2, PTL DEF KSpec

\* "The workflow ledger is the only state authority": whatever workers, clerks,
\* operators and crashes do, the kernel calls the ledger only as the ledger's
\* specification lets a caller.
THEOREM KernelUsesLedgerAsSpecified == KSpec => UsesLedgerAsSpecified
<1>1. KInit => Init
  BY DEF KInit
<1> QED
  BY <1>1, KernelUsesLedger, KernelInvariant, PTL DEF KSpec, UsesLedgerAsSpecified, Spec

\* So every attempt is executed at most once and keeps its success, under the
\* whole kernel.
THEOREM KernelExecutesAtMostOnce == KSpec => AtMostOnceExecution
BY KernelUsesLedgerAsSpecified, ImplementsStageExecution, PTL DEF UsesLedgerAsSpecified

\* And a verdict is final, but for a published gate that nobody has decided.
THEOREM KernelKeepsVerdicts == KSpec => SettledRunsAreFinal
BY KernelUsesLedgerAsSpecified, SettledIsFinal, PTL DEF UsesLedgerAsSpecified

\* A process that moves an instance is the mover that SingleThread counts.
LEMMA MoversMove ==
    ASSUME MemoryOK, NEW i
    PROVE  Movers(i) = {p \in Procs : Moving(p) /\ Where(p) = i}
<1> SUFFICES ASSUME NEW p \in Procs, Moving(p)
             PROVE  i \in {InstanceOf(r) : r \in {job[p].run, job[p].next} \ {<<>>}}
                      <=> Where(p) = i
  BY DEF Movers, Moving
<1>1. CASE pc[p] = "advancing"
  <2>1. job[p].run \in Runs /\ job[p].next = <<>> /\ Where(p) = InstanceOf(job[p].run)
    BY <1>1 DEF MemoryOK, Remembers, Where
  <2> QED BY <2>1, RunsAreTriples
<1>2. CASE pc[p] = "inserting"
  <2>1. /\ job[p].next \in Runs /\ Where(p) = InstanceOf(job[p].next)
        /\ job[p].run # <<>> => InstanceOf(job[p].run) = InstanceOf(job[p].next)
    BY <1>2 DEF MemoryOK, Remembers, Where
  <2> QED BY <2>1, RunsAreTriples
<1> QED BY <1>1, <1>2 DEF Moving

\* What has at most one element counts at most one.
LEMMA AtMostOne ==
    ASSUME NEW S, \A a, b \in S : a = b
    PROVE  Cardinality(S) \in 0..1 /\ (S = {} => Cardinality(S) = 0)
<1>1. CASE S = {}
  BY <1>1, FS_EmptySet
<1>2. CASE S # {}
  <2>1. PICK a \in S : S = {a}
    BY <1>2
  <2>2. Cardinality({a}) = 1
    BY FS_Singleton
  <2> QED BY <1>2, <2>1, <2>2
<1> QED BY <1>1, <1>2

\* The thread of control as SingleThread counts it.
LEMMA OneThreadCounts == KernelInv => SingleThread
<1> SUFFICES ASSUME KernelInv, NEW i \in Instances
             PROVE  Cardinality(OpenAttempts(i)) + Cardinality(Movers(i)) <= 1
  BY DEF SingleThread
<1>1. Movers(i) = {p \in Procs : Moving(p) /\ Where(p) = i}
  BY MoversMove DEF KernelInv
<1>2. \A r, q \in OpenAttempts(i) : r = q
  BY DEF OpenAttempts, Open, Live, KernelInv, ThreadInv, OneThread
<1>3. \A p, q \in Movers(i) : p = q
  BY <1>1 DEF KernelInv, ThreadInv, OneThread
<1>4. OpenAttempts(i) = {} \/ Movers(i) = {}
  BY <1>1 DEF OpenAttempts, Open, Live, KernelInv, ThreadInv, OneThread
<1> QED BY <1>2, <1>3, <1>4, AtMostOne

\* One thread of control per instance, for any number of workers, clerks and
\* operators, under sweeps and crashes: two open attempts, or an open attempt
\* beside a process about to queue another, never coexist.
THEOREM OneThreadOfControl == KSpec => []SingleThread
BY KernelInvariant, OneThreadCounts, PTL

\* The adapter of an attempt is invoked at most once, although nothing re-reads
\* the lease around the call.
THEOREM EffectsAreSingle == KSpec => []EffectOncePerAttempt
<1>1. KernelInv => EffectOncePerAttempt
  BY DEF KernelInv, EffectInv, EffectOncePerAttempt
<1> QED BY <1>1, KernelInvariant, PTL

\* An attempt whose effect no settled attempt accounts for is the latest of its
\* stage, or was set aside.
LEMMA NothingSilent == TypeOK /\ LedgerInv /\ KernelInv => NoSilentReexecution
<1> SUFFICES ASSUME LedgerInv, KernelInv, NEW r \in Runs, AttemptOf(r) < MaxAttempt,
                    effects[r] # 0, closer[r] = 0, Present(NextOf(r)),
                    run[r].status = "started"
             PROVE  FALSE
  BY DEF NoSilentReexecution, LedgerInv, CutOffNeedsApproval, KernelInv, EffectInv
<1>1. IsLatestAttempt(r)
  BY DEF KernelInv, ThreadInv, OpenIsLatest, Open, Unfinished, ActiveLease
<1>2. r[3] + 1 \in Attempts /\ r[3] + 1 > AttemptOf(r)
  <2>1. r[3] \in 1..MaxAttempt /\ r[3] < MaxAttempt
    BY DEF Runs, Attempts, AttemptOf
  <2> QED BY <2>1, BoundsAreNat DEF Attempts, AttemptOf
<1> QED BY <1>1, <1>2 DEF IsLatestAttempt, NextOf

\* An effect that no settled attempt accounts for is never followed by another
\* attempt of the stage unless a person was asked or retired it.
THEOREM NoSilentReexecutionEver == KSpec => []NoSilentReexecution
BY KernelInvariant, NothingSilent, PTL

\* "The current stage" is right: with one process that does not die, and repairs
\* that only restore published gates, an instance stands, between two calls, at
\* the stage of its open attempt, waiting exactly if the attempt waits.  The
\* hypotheses are needed: with two processes, a crash or a cancel the instance is
\* written late.
THEOREM OneProcessStandsWhereWorkIs ==
    ASSUME NEW CONSTANT p, Procs = {p}, MaxCrashes = 0, Repairs \subseteq {"restore"}
    PROVE  KSpec => []StandsWhereWorkIs
<1>1. KInit => WellPlaced(p)
  <2> SUFFICES ASSUME KInit PROVE WellPlaced(p)
    OBVIOUS
  <2>1. \A r \in Runs : ~Open(r)
    BY DEF KInit, Init, Open, AbsentRow, Unfinished, ActiveLease
  <2>2. pc[p] = "idle" /\ crashes = 0
    BY DEF KInit
  <2> QED BY <2>1, <2>2 DEF WellPlaced, Later
<1>2. /\ TypeOK /\ LedgerInv /\ KernelInv /\ (TypeOK /\ LedgerInv /\ KernelInv)'
      /\ WellPlaced(p) /\ [KNext]_kvars
      => WellPlaced(p)'
  BY StepWellPlaced DEF KnownOf
<1>3. WellPlaced(p) => StandsWhereWorkIs
  BY DEF WellPlaced, StandsWhereWorkIs, Writes, Fits, Open
<1> QED BY <1>1, <1>2, <1>3, KernelInvariant, PTL DEF KSpec
=============================================================================
