-------------------------- MODULE AutonomyRecovery --------------------------
(***************************************************************************)
(* Recovery loops: a loop issues a bounded number of commands to an agent, *)
(* one per attempt, each with the idempotency key "recovery:loop:attempt". *)
(* Workers of several replicas run the cycle at once; issue_command        *)
(* commits in a transaction of its own, before the loop is saved, and      *)
(* refuses (409) when the coordinator or the target is not in the room.    *)
(***************************************************************************)
EXTENDS Integers, FiniteSets

CONSTANTS
    RecLoops,       \* recovery loops, by their idempotency keys
    RecWorkers,     \* autonomy workers, one per replica, each with its session
    RecRequests,    \* sessions of API requests
    RecMaxAttempts,    \* max_attempts of every loop
    RecMaxGen,      \* bound: generations of the policy
    RecMaxCrashes   \* bound: workers lost inside a cycle

ASSUME RecoveryAssumption ==
    /\ RecMaxAttempts \in Nat \ {0}
    /\ RecMaxGen \in Nat \ {0}
    /\ RecMaxCrashes \in Nat

VARIABLES
    recLoop,        \* recLoop[l]: the row of the loop
    recCmd,         \* recCmd[<<l, k>>]: command rows of attempt k of l
    recPol,         \* the policy: its generation and the effective control
    recTx,          \* recTx[s]: what an open session has read
    recCrashes,     \* workers lost so far
    recAway         \* who is not in the room: the coordinator, the target of loop l (as l)

recVars == <<recLoop, recCmd, recPol, recTx, recCrashes, recAway>>

RecTerminal == {"succeeded", "exhausted", "cancelled"}

\* Columns of recovery_loops that some handler reads. A loop is "absent"
\* before it is inserted, "due" says that next_attempt_at has passed.
RecRow == [status : {"absent", "planned", "waiting", "paused"} \cup RecTerminal,
           count  : 0..RecMaxAttempts,
           last   : 0..RecMaxAttempts,     \* attempt of last_command_id, 0: none
           polgen : 0..RecMaxGen,
           due    : BOOLEAN]

RecSessions == RecWorkers \cup RecRequests

RecAttempts == RecLoops \X (1..RecMaxAttempts)

RecIdle == [op |-> "idle"]

RecInit ==
    /\ recLoop = [l \in RecLoops |-> [status |-> "absent", count |-> 0,
                                      last |-> 0, polgen |-> 0, due |-> FALSE]]
    /\ recCmd = [a \in RecAttempts |-> 0]
    /\ recPol = [gen |-> 1, state |-> "enabled"]
    /\ recTx = [s \in RecSessions |-> RecIdle]
    /\ recCrashes = 0
    /\ recAway = {}

RecBegin(s, tx) == recTx[s] = RecIdle /\ recTx' = [recTx EXCEPT ![s] = tx]
RecEnd(s) == recTx' = [recTx EXCEPT ![s] = RecIdle]

\* assert_enabled: an active policy and no control that pauses or kills it.
RecEnabled == recPol.state = "enabled"

(* create_recovery_loop *)
CreateLoopRead(s, l) ==
    /\ RecEnabled
    /\ l \notin recAway
    /\ recLoop[l].status = "absent"
    /\ RecBegin(s, [op |-> "create", l |-> l, polgen |-> recPol.gen])
    /\ UNCHANGED <<recLoop, recCmd, recPol, recCrashes, recAway>>

\* The unique key lets one insert through; the loser returns that row.
CreateLoopCommit(s) ==
    /\ recTx[s].op = "create"
    /\ LET l == recTx[s].l IN
       recLoop' = IF recLoop[l].status # "absent" THEN recLoop
                  ELSE [recLoop EXCEPT ![l] = [@ EXCEPT !.status = "planned",
                                                 !.polgen = recTx[s].polgen,
                                                 !.due = TRUE]]
    /\ RecEnd(s)
    /\ UNCHANGED <<recCmd, recPol, recCrashes, recAway>>

\* The select of run_recovery_cycle: planned loops that are due, unlocked.
DueLoops == {l \in RecLoops : recLoop[l].status = "planned" /\ recLoop[l].due}

(* run_recovery_cycle, start: the policy and the batch are read once. A    *)
(* policy without a coordinator in the room ends the cycle without effect. *)
CycleRead(s) ==
    /\ RecEnabled
    /\ "coordinator" \notin recAway
    /\ DueLoops # {}
    /\ RecBegin(s, [op |-> "cycle", gen |-> recPol.gen,
                 batch |-> [l \in DueLoops |-> recLoop[l]]])
    /\ UNCHANGED <<recLoop, recCmd, recPol, recCrashes, recAway>>

RecWithout(batch, l) == [k \in DOMAIN batch \ {l} |-> batch[k]]

\* The loop body's two early ends: another policy generation, no attempt left.
CycleStop(s, l) ==
    /\ recTx[s].op = "cycle" /\ l \in DOMAIN recTx[s].batch
    /\ LET row == recTx[s].batch[l] IN
       /\ \/ /\ row.polgen # recTx[s].gen
             /\ recLoop' = [recLoop EXCEPT ![l].status = "paused"]
          \/ /\ row.polgen = recTx[s].gen
             /\ row.count >= RecMaxAttempts
             /\ recLoop' = [recLoop EXCEPT ![l].status = "exhausted"]
       /\ recTx' = [recTx EXCEPT ![s].batch = RecWithout(@, l)]
    /\ UNCHANGED <<recCmd, recPol, recCrashes, recAway>>

\* issue_command: an existing command with the key is returned, and the
\* unique key turns a concurrent insert into a re-read.
RecIssueCommand(a) == recCmd' = IF recCmd[a] > 0 THEN recCmd
                                ELSE [recCmd EXCEPT ![a] = @ + 1]

\* The body up to issue_command, which commits by itself.
CycleIssue(s, l) ==
    /\ recTx[s].op = "cycle" /\ l \in DOMAIN recTx[s].batch
    /\ LET row == recTx[s].batch[l] IN
       /\ row.polgen = recTx[s].gen
       /\ row.count < RecMaxAttempts
       /\ recAway \cap {"coordinator", l} = {}
       /\ RecIssueCommand(<<l, row.count + 1>>)
       /\ recTx' = [recTx EXCEPT ![s] = [op |-> "issued", gen |-> @.gen,
                        batch |-> RecWithout(@.batch, l), l |-> l, k |-> row.count + 1]]
    /\ UNCHANGED <<recLoop, recPol, recCrashes, recAway>>

\* issue_command refuses: the exception ends the cycle, and the loops that
\* come after this one in the batch wait with it.
CycleRefused(s, l) ==
    /\ recTx[s].op = "cycle" /\ l \in DOMAIN recTx[s].batch
    /\ recTx[s].batch[l].polgen = recTx[s].gen
    /\ recTx[s].batch[l].count < RecMaxAttempts
    /\ recAway \cap {"coordinator", l} # {}
    /\ RecEnd(s)
    /\ UNCHANGED <<recLoop, recCmd, recPol, recCrashes, recAway>>

\* Mutant: last_command_id is not written.
CycleSaveNoCommand(s) ==
    /\ recTx[s].op = "issued"
    /\ recLoop' = [recLoop EXCEPT ![recTx[s].l] =
                     [@ EXCEPT !.status = "waiting", !.count = recTx[s].k]]
    /\ recTx' = [recTx EXCEPT ![s] = [op |-> "cycle", gen |-> @.gen, batch |-> @.batch]]
    /\ UNCHANGED <<recCmd, recPol, recCrashes, recAway>>

\* The rest of the body: attempt_count, last_command_id and status, all
\* different from what was read, are written over whatever is there now.
CycleSave(s) ==
    /\ recTx[s].op = "issued"
    /\ recLoop' = [recLoop EXCEPT ![recTx[s].l] =
                     [@ EXCEPT !.status = "waiting", !.count = recTx[s].k,
                               !.last = recTx[s].k]]
    /\ recTx' = [recTx EXCEPT ![s] = [op |-> "cycle", gen |-> @.gen, batch |-> @.batch]]
    /\ UNCHANGED <<recCmd, recPol, recCrashes, recAway>>

CycleEnd(s) ==
    /\ recTx[s].op = "cycle" /\ DOMAIN recTx[s].batch = {}
    /\ RecEnd(s)
    /\ UNCHANGED <<recLoop, recCmd, recPol, recCrashes, recAway>>

\* The process dies; what is committed stays, the rest of the cycle is lost.
CycleCrash(s) ==
    /\ recTx[s].op \in {"cycle", "issued"}
    /\ recCrashes < RecMaxCrashes
    /\ recCrashes' = recCrashes + 1
    /\ RecEnd(s)
    /\ UNCHANGED <<recLoop, recCmd, recPol, recAway>>

(* record_recovery_outcome *)
OutcomeRead(s, l, outcome) ==
    /\ recLoop[l].status \in {"waiting", "paused"}
    /\ RecBegin(s, [op |-> "outcome", l |-> l, outcome |-> outcome, row |-> recLoop[l]])
    /\ UNCHANGED <<recLoop, recCmd, recPol, recCrashes, recAway>>

\* The status written after an outcome; a failure plans the next attempt
\* with a backoff unless there is none left.
AfterOutcome(row, outcome) ==
    IF outcome # "failed" THEN outcome
    ELSE IF row.count >= RecMaxAttempts THEN "exhausted" ELSE "planned"

OutcomeCommit(s) ==
    /\ recTx[s].op = "outcome"
    /\ LET st == AfterOutcome(recTx[s].row, recTx[s].outcome) IN
       recLoop' = [recLoop EXCEPT ![recTx[s].l].status = st,
                                  ![recTx[s].l].due = IF st = "planned" THEN FALSE ELSE @]
    /\ RecEnd(s)
    /\ UNCHANGED <<recCmd, recPol, recCrashes, recAway>>

\* The clock passes next_attempt_at.
BackoffEnds(l) ==
    /\ recLoop[l].status = "planned" /\ ~recLoop[l].due
    /\ recLoop' = [recLoop EXCEPT ![l].due = TRUE]
    /\ UNCHANGED <<recCmd, recPol, recTx, recCrashes, recAway>>

(* set_control with its call of _pause_or_cancel_recoveries, and the       *)
(* override cancel_recoveries, which makes that call alone.                *)
LiveLoops == {l \in RecLoops : recLoop[l].status \notin RecTerminal \cup {"absent"}}

ControlRead(s, state, controls) ==
    /\ RecBegin(s, [op |-> "control", state |-> state, controls |-> controls,
                 seen |-> IF state = "enabled" THEN {} ELSE LiveLoops])
    /\ UNCHANGED <<recLoop, recCmd, recPol, recCrashes, recAway>>

PauseOrCancel(seen, state) ==
    recLoop' = [l \in RecLoops |->
                  IF l \notin seen THEN recLoop[l]
                  ELSE [recLoop[l] EXCEPT !.status = IF state = "killed"
                                             THEN "cancelled" ELSE "paused"]]

ControlCommit(s) ==
    /\ recTx[s].op = "control"
    /\ PauseOrCancel(recTx[s].seen, recTx[s].state)
    /\ recPol' = IF recTx[s].controls THEN [recPol EXCEPT !.state = recTx[s].state]
                 ELSE recPol
    /\ RecEnd(s)
    /\ UNCHANGED <<recCmd, recCrashes, recAway>>

\* update_policy: a guarded UPDATE that starts a new generation.
RecUpdatePolicy ==
    /\ recPol.gen < RecMaxGen
    /\ recPol' = [recPol EXCEPT !.gen = @ + 1]
    /\ UNCHANGED <<recLoop, recCmd, recTx, recCrashes, recAway>>

\* An agent enters the room, leaves it or expires.
RecMembership(a) ==
    /\ recAway' = IF a \in recAway THEN recAway \ {a} ELSE recAway \cup {a}
    /\ UNCHANGED <<recLoop, recCmd, recPol, recTx, recCrashes>>

RecWorker(s) ==
    \/ CycleRead(s) \/ CycleSave(s) \/ CycleEnd(s)
    \/ \E l \in RecLoops : CycleStop(s, l) \/ CycleIssue(s, l) \/ CycleRefused(s, l)

RecRequest(s) ==
    \/ \E l \in RecLoops : CreateLoopRead(s, l)
    \/ \E l \in RecLoops, o \in {"succeeded", "cancelled", "failed"} : OutcomeRead(s, l, o)
    \/ \E st \in {"enabled", "paused", "killed"} : ControlRead(s, st, TRUE)
    \/ ControlRead(s, "killed", FALSE)
    \/ CreateLoopCommit(s) \/ OutcomeCommit(s) \/ ControlCommit(s)

RecNext ==
    \/ \E s \in RecWorkers : RecWorker(s) \/ CycleCrash(s)
    \/ \E s \in RecRequests : RecRequest(s)
    \/ \E l \in RecLoops : BackoffEnds(l)
    \/ RecUpdatePolicy
    \/ \E a \in {"coordinator"} \cup RecLoops : RecMembership(a)

RecSpec == RecInit /\ [][RecNext]_recVars

\* AutonomyWorker._run polls for ever and survives every exception, and the
\* clock runs; crashes are finitely many.
RecFairness ==
    /\ \A s \in RecWorkers : WF_recVars(RecWorker(s))
    /\ \A l \in RecLoops : WF_recVars(BackoffEnds(l))

-----------------------------------------------------------------------------
RecTypeOK ==
    /\ recLoop \in [RecLoops -> RecRow]
    /\ recCmd \in [RecAttempts -> Nat]
    /\ recPol \in [gen : 1..RecMaxGen, state : {"enabled", "paused", "killed"}]
    /\ recCrashes \in 0..RecMaxCrashes
    /\ recAway \subseteq {"coordinator"} \cup RecLoops

\* However many workers pick a loop, and wherever one of them dies, an
\* attempt has at most one command (issue_command's idempotency key).
AttemptHasOneCommand == \A a \in RecAttempts : recCmd[a] <= 1

\* attempt_count and last_command_id of a loop always belong together and
\* to a command that exists, whichever stale cycle was saved last.
LatestAttemptConsistent ==
    \A l \in RecLoops :
        /\ recLoop[l].last = recLoop[l].count
        /\ recLoop[l].count > 0 => recCmd[<<l, recLoop[l].count>>] > 0

\* Attempts are made in order: an attempt has a command only if every
\* earlier one has, although attempt_count itself may be set back.
NoAttemptSkipped ==
    \A a \in RecAttempts : recCmd[a] > 0 => \A k \in 1..(a[2] - 1) : recCmd[<<a[1], k>>] > 0

\* A planned loop is taken up, found stale or stopped by a control, unless the
\* coordinator, or the target of a planned loop (this one, or one that comes
\* before it in the batch), keeps being away: neither a crash after
\* issue_command nor a worker that saved an old batch leaves it planned.
PlannedLoopTakenUp ==
    \A l \in RecLoops : recLoop[l].status = "planned" ~>
        \/ recLoop[l].status # "planned" \/ recPol.state # "enabled"
        \/ "coordinator" \in recAway
        \/ \E k \in recAway \cap RecLoops : recLoop[k].status = "planned"

\* What the recovery worker owes a loop across crashes and other workers:
\* one command per attempt, a row that names it, and no attempt left out.
RecoverySound == AttemptHasOneCommand /\ LatestAttemptConsistent /\ NoAttemptSkipped
=============================================================================
