---------------------------- MODULE RuntimeSessions ----------------------------
(***************************************************************************)
(* The session tables of the runtime adapters: codex_cli/runtime.py (one   *)
(* shot or bounded session), codex_sdk/runtime.py (bounded thread) and     *)
(* openclaw/runtime.py (a session or an agent turn on the host).           *)
(*                                                                         *)
(* A table lives in the adapter's memory: a restart forgets it, while the  *)
(* sessions it spoke of go on outside.  A turn may fail, be cut off by its *)
(* timeout, or not say which session it ran on, and a caller may ask for a *)
(* session by its id, past the table.                                      *)
(***************************************************************************)
EXTENDS Naturals, FiniteSets

CONSTANTS
    Keys,           \* session keys: an actor of an instance, or a stage run
    MaxTurns,       \* max_session_turns
    MaxCalls        \* bound: turns

ASSUME TurnsAllowed == MaxTurns \in Nat \ {0}
ASSUME CallsBound == MaxCalls \in Nat

VARIABLES
    adapter,     \* which adapter it is, and OpenClaw's default command mode
    table,       \* its sessions, by key
    outside,     \* the sessions outside, by id: turns run, turns not counted
    asked,       \* ids a caller asked for
    last,        \* by key: status of the last turn, and the id it ran on
    remote,      \* by key: the session of that name on the OpenClaw host
    forgot,      \* whether the adapter was restarted
    calls

sessionVars == <<adapter, table, outside, asked, last, remote, forgot, calls>>

NoSession == [id |-> 0, turns |-> 0, mode |-> "none"]
NoTurn    == [status |-> "none", id |-> 0]
NoRemote  == [live |-> FALSE, mode |-> "none", known |-> FALSE]

SessionsInit ==
    /\ adapter \in [kind : {"cli_exec", "cli", "sdk"}, mode : {"none"}]
                   \cup [kind : {"openclaw"}, mode : {"session", "agent"}]
    /\ table = [k \in Keys |-> NoSession]
    /\ outside = [i \in {} |-> [turns |-> 0, missed |-> 0]]
    /\ asked = {}
    /\ last = [k \in Keys |-> NoTurn]
    /\ remote = [k \in Keys |-> NoRemote]
    /\ forgot = FALSE /\ calls = 0

Newest == Cardinality(DOMAIN outside)

\* Mutant of ToResume: one turn too many.
ToResumeOnceMore(k, wish) ==
    LET prior == table[k]
    IN  IF prior.id # 0 /\ prior.turns > MaxTurns THEN 0
        ELSE IF wish # 0 THEN wish ELSE prior.id

(***************************************************************************)
(* The session a turn is to resume: the one asked for, or else the key's   *)
(* own, unless the key has used up its turns.  Zero stands for a new one.  *)
(***************************************************************************)
ToResume(k, wish) ==
    LET prior == table[k]
    IN  IF prior.id # 0 /\ prior.turns >= MaxTurns THEN 0
        ELSE IF wish # 0 THEN wish ELSE prior.id

Count(id, missed) ==
    LET old == IF id \in DOMAIN outside THEN outside[id] ELSE [turns |-> 0, missed |-> 0]
        new == [turns |-> old.turns + 1, missed |-> old.missed + missed]
    IN  /\ calls < MaxCalls /\ calls' = calls + 1
        /\ outside' = [i \in DOMAIN outside \cup {id} |-> IF i = id THEN new ELSE outside[i]]

-----------------------------------------------------------------------------
\* Mutant of TurnCli: a turn succeeds although its session is not known.
TurnCliUntracked(k, wish) ==
    /\ adapter.kind = "cli"
    /\ \E named \in BOOLEAN :
        LET resumed == ToResume(k, wish)
            id      == IF resumed = 0 THEN Newest + 1 ELSE resumed
        IN  /\ table' = IF resumed # 0 \/ named
                        THEN [table EXCEPT ![k].id = id, ![k].turns = @ + 1] ELSE table
            /\ Count(id, 0)
            /\ last' = [last EXCEPT ![k] = [status |-> "succeeded", id |-> id]]
    /\ asked' = IF wish = 0 THEN asked ELSE asked \cup {wish}
    /\ UNCHANGED <<adapter, remote, forgot>>

\* codex exec: whatever came of the turn, the table counts it if the session's
\* id is known, from the events of a turn that ended or from the resumption.
TurnCli(k, wish) ==
    /\ adapter.kind = "cli"
    /\ \E result \in {"ok", "failed", "timed_out"}, named \in BOOLEAN :
        LET resumed == ToResume(k, wish)
            id      == IF resumed = 0 THEN Newest + 1 ELSE resumed
            tracked == resumed # 0 \/ named
        IN  /\ result = "timed_out" => ~named
            /\ table' = IF tracked
                        THEN [table EXCEPT ![k].id = id, ![k].turns = @ + 1] ELSE table
            /\ Count(id, 0)
            /\ last' = [last EXCEPT ![k] =
                   [status |-> IF result = "ok" /\ tracked THEN "succeeded" ELSE "failed",
                    id |-> id]]
    /\ asked' = IF wish = 0 THEN asked ELSE asked \cup {wish}
    /\ UNCHANGED <<adapter, remote, forgot>>

\* The one-shot adapter keeps no session.
TurnExec(k) ==
    /\ adapter.kind = "cli_exec"
    /\ Count(Newest + 1, 0)
    /\ \E status \in {"succeeded", "failed"} :
           last' = [last EXCEPT ![k] = [status |-> status, id |-> Newest + 1]]
    /\ UNCHANGED <<adapter, table, asked, remote, forgot>>

\* The thread that the SDK starts or resumes for a turn.
Thread(k, wish) == IF ToResume(k, wish) = 0 THEN Newest + 1 ELSE ToResume(k, wish)

\* The SDK counts a turn only when it completed ...
TurnSdk(k, wish) ==
    /\ adapter.kind = "sdk"
    /\ \E completed \in BOOLEAN :
        /\ table' = IF completed
                    THEN [table EXCEPT ![k].id = Thread(k, wish), ![k].turns = @ + 1] ELSE table
        /\ Count(Thread(k, wish), IF completed THEN 0 ELSE 1)
        /\ last' = [last EXCEPT ![k] = [status |-> IF completed THEN "succeeded" ELSE "failed",
                                       id |-> Thread(k, wish)]]
    /\ asked' = IF wish = 0 THEN asked ELSE asked \cup {wish}
    /\ UNCHANGED <<adapter, remote, forgot>>

\* ... and not when the package, the client or the turn raised, the thread begun
\* or not.
FailSdk(k, wish) ==
    /\ adapter.kind = "sdk"
    /\ \/ Count(Thread(k, wish), 1)
       \/ UNCHANGED <<outside, calls>>
    /\ last' = [last EXCEPT ![k] = [status |-> "failed", id |-> ToResume(k, wish)]]
    /\ asked' = IF wish = 0 THEN asked ELSE asked \cup {wish}
    /\ UNCHANGED <<adapter, table, remote, forgot>>

CancelCodex(k) ==
    /\ adapter.kind \in {"cli", "sdk"}
    /\ table' = [table EXCEPT ![k] = NoSession]
    /\ last' = [last EXCEPT ![k] = NoTurn]
    /\ UNCHANGED <<adapter, outside, asked, remote, forgot, calls>>

-----------------------------------------------------------------------------
\* OpenClaw: the command exits with zero and the session is tracked, or with an
\* error, when the host may have started the session all the same.
MaybeStarted(k, mode) ==
    {remote, [remote EXCEPT ![k] =
                 IF @.live THEN @ ELSE [live |-> TRUE, mode |-> mode, known |-> FALSE]]}

StartOpenClaw(k, mode) ==
    /\ adapter.kind = "openclaw"
    /\ Count(Newest + 1, 0)
    /\ \/ /\ remote' = [remote EXCEPT ![k] = [live |-> TRUE, mode |-> mode, known |-> TRUE]]
          /\ table' = [table EXCEPT ![k] = [id |-> Newest + 1, turns |-> 1, mode |-> mode]]
          /\ last' = [last EXCEPT ![k] = [status |-> "succeeded", id |-> Newest + 1]]
       \/ /\ remote' \in MaybeStarted(k, mode)
          /\ table' = table
          /\ last' = [last EXCEPT ![k] = [status |-> "failed", id |-> Newest + 1]]
    /\ UNCHANGED <<adapter, asked, forgot>>

\* The command cannot be run, or is cut off by its timeout.
FailOpenClaw(k, mode) ==
    /\ adapter.kind = "openclaw"
    /\ Count(Newest + 1, 0)
    /\ remote' \in MaybeStarted(k, mode)
    /\ last' = [last EXCEPT ![k] = [status |-> "failed", id |-> 0]]
    /\ UNCHANGED <<adapter, table, asked, forgot>>

CommandMode(k) == IF table[k].id # 0 THEN table[k].mode ELSE adapter.mode

\* An agent turn has no cancel command; where there is one it may fail.
CancelOpenClaw(k) ==
    /\ adapter.kind = "openclaw"
    /\ remote' \in IF CommandMode(k) = "session"
                   THEN {remote, [remote EXCEPT ![k] = NoRemote]} ELSE {remote}
    /\ table' = [table EXCEPT ![k] = NoSession]
    /\ last' = [last EXCEPT ![k] = NoTurn]
    /\ UNCHANGED <<adapter, outside, asked, forgot, calls>>

RemoteEnds(k) ==
    /\ remote[k].live
    /\ remote' = [remote EXCEPT ![k] = NoRemote]
    /\ UNCHANGED <<adapter, table, outside, asked, last, forgot, calls>>

-----------------------------------------------------------------------------
AdapterRestarts ==
    /\ ~forgot /\ forgot' = TRUE
    /\ table' = [k \in Keys |-> NoSession]
    /\ last' = [k \in Keys |-> NoTurn]
    /\ UNCHANGED <<adapter, outside, asked, remote, calls>>

\* What the adapters answer from their tables.
PollAnswer(k) == IF table[k].id # 0 THEN "running" ELSE "unknown"
Recovered(id) == {k \in Keys : table[k].id = id}
ProofAsked(k) == [mode |-> CommandMode(k), tracked |-> table[k].id # 0]

SessionsNext ==
    \/ AdapterRestarts
    \/ \E k \in Keys : \/ \E wish \in {0} \cup DOMAIN outside :
                            TurnCli(k, wish) \/ TurnSdk(k, wish) \/ FailSdk(k, wish)
                       \/ TurnExec(k) \/ CancelCodex(k) \/ CancelOpenClaw(k) \/ RemoteEnds(k)
                       \/ \E mode \in {"session", "agent"} :
                            StartOpenClaw(k, mode) \/ FailOpenClaw(k, mode)

SessionsSpec == SessionsInit /\ [][SessionsNext]_sessionVars

-----------------------------------------------------------------------------
\* A turn that is reported as succeeded ran on the session that poll, proof and
\* recover find under its key: continuity is never only pretended.
ContinuityIsReal ==
    \A k \in Keys : last[k].status = "succeeded" /\ adapter.kind # "cli_exec" =>
        /\ PollAnswer(k) = "running" /\ ProofAsked(k).tracked
        /\ k \in Recovered(last[k].id)

\* A session is reused for no more turns than the limit, whatever was cancelled,
\* failed or restarted, unless a caller asks for it by id; the SDK adapter lets
\* the turns that failed go uncounted (max_session_turns).
TurnsAreBounded ==
    \A i \in DOMAIN outside \ asked : outside[i].turns <= MaxTurns + outside[i].missed

\* A session started on the host in session mode can be cancelled as long as it
\* lives and is tracked, or session mode is the default after a restart.
LiveSessionCanBeCancelled ==
    \A k \in Keys :
        /\ remote[k].live /\ remote[k].known /\ remote[k].mode = "session"
        /\ PollAnswer(k) = "running" \/ adapter.mode = "session"
        => CommandMode(k) = "session"

\* The table, which a restart empties, still governs the sessions outside: it
\* ends their reuse and it ends them (sessions, of every adapter).
TableGovernsSessions == TurnsAreBounded /\ LiveSessionCanBeCancelled

\* The limit as it is meant.  Not so for the SDK.
TurnsAreStrictlyBounded ==
    \A i \in DOMAIN outside \ asked : outside[i].turns <= MaxTurns
=============================================================================
