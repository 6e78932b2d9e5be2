------------------------------- MODULE Outbox -------------------------------
(***************************************************************************)
(* The transactional outbox: rows inserted with the change they announce,  *)
(* claimed by the publishers of all replicas, sent to the broker and       *)
(* recorded; claims of dead publishers are released, operators cancel and  *)
(* replay rows.                                                            *)
(*                                                                         *)
(* claim_batch holds the rows it takes FOR UPDATE and is one step.  All    *)
(* the others read a row without a lock and later write it by its id: a    *)
(* read step and a commit step.  The unique (event, attempt_number) of the *)
(* attempts table is the only thing that makes a commit fail.              *)
(***************************************************************************)
EXTENDS Naturals, FiniteSets

CONSTANTS
    Events, Publishers, Operators,
    Tokens,         \* lock tokens; one in use nowhere stands for a new uuid4
    NoToken, NoCopy,
    MaxAttempts,    \* gateway_outbox_max_attempts
    BatchSize,      \* gateway_outbox_batch_size
    MaxCrashes,     \* bound: publishers that die in the middle of a batch
    MaxSlow,        \* bound: claims that lapse under a live publisher
    MaxOps          \* bound: operator requests

ASSUME OutboxAssumption ==
    /\ NoToken \notin Tokens
    /\ MaxAttempts \in Nat \ {0} /\ BatchSize \in Nat \ {0}
    /\ MaxCrashes \in Nat /\ MaxSlow \in Nat /\ MaxOps \in Nat

VARIABLES
    row,            \* OutboxEvent rows
    due,            \* events whose available_at has passed
    lapsed,         \* events whose locked_at is older than the lock TTL
    log,            \* attempt numbers of the OutboxDeliveryAttempt rows
    stream,         \* deliveries the broker has stored, by their Nats-Msg-Id
    pub,            \* progress of each run_once
    op,             \* open operator requests
    used            \* how much of each bound is used up

vars == <<row, due, lapsed, log, stream, pub, op, used>>

Statuses == {"none", "pending", "retry", "processing", "published", "dead_letter", "cancelled"}
Terminal == {"published", "dead_letter", "cancelled"}

Copy   == [event: Events, token: Tokens, id: Nat]
Stages == {"idle", "release", "claim", "batch", "acked", "error", "success", "failure"}

NoPub == [stage |-> "idle", queue |-> {}, cur |-> NoCopy, attempts |-> 0, limit |-> 0, stale |-> {}]
NoOp  == [kind |-> "none"]

TypeOK ==
    /\ row \in [Events -> [status: Statuses, attempts: Nat, limit: Nat, replays: Nat,
                           token: Tokens \cup {NoToken}]]
    /\ due \in SUBSET Events /\ lapsed \in SUBSET Events
    /\ log \in [Events -> SUBSET Nat]
    /\ stream \in SUBSET [event: Events, id: Nat]
    /\ pub \in [Publishers -> [stage: Stages, queue: SUBSET Copy, cur: Copy \cup {NoCopy},
                               attempts: Nat, limit: Nat, stale: SUBSET Events]]
    /\ \A p \in Publishers :
          pub[p].stage \in {"acked", "error", "success", "failure"} => pub[p].cur \in Copy
    /\ op \in [Operators -> {NoOp} \cup [kind: {"cancel"}, event: Events]
                                   \cup [kind: {"replay"}, event: Events, replays: Nat, limit: Nat]]
    /\ used \in [crashes: Nat, slow: Nat, ops: Nat]

Init ==
    /\ row = [e \in Events |-> [status |-> "none", attempts |-> 0, limit |-> MaxAttempts,
                                replays |-> 0, token |-> NoToken]]
    /\ due = {} /\ lapsed = {} /\ stream = {}
    /\ log = [e \in Events |-> {}]
    /\ pub = [p \in Publishers |-> NoPub]
    /\ op = [o \in Operators |-> NoOp]
    /\ used = [crashes |-> 0, slow |-> 0, ops |-> 0]

-----------------------------------------------------------------------------
(* emit_event: the row is part of the business transaction *)

Emit(e) ==
    /\ row[e].status = "none"
    /\ row' = [row EXCEPT ![e].status = "pending"]
    /\ due' = due \cup {e}
    /\ UNCHANGED <<lapsed, log, stream, pub, op, used>>

(* release_stale_claims, the first transaction of run_once *)

ReleaseRead(p) ==
    /\ pub[p].stage = "idle"
    /\ pub' = [pub EXCEPT ![p] = [NoPub EXCEPT !.stage = "release",
           !.stale = {e \in lapsed : row[e].status = "processing"}]]
    /\ UNCHANGED <<row, due, lapsed, log, stream, op, used>>

\* Mutant: stale claims are reported, not released.
ReleaseCommitNothing(p) ==
    /\ pub[p].stage = "release"
    /\ pub' = [pub EXCEPT ![p] = [NoPub EXCEPT !.stage = "claim"]]
    /\ UNCHANGED <<row, due, lapsed, log, stream, op, used>>

ReleaseCommit(p) ==
    LET stale == pub[p].stale IN
    /\ pub[p].stage = "release"
    /\ row' = [e \in Events |->
           IF e \in stale THEN [row[e] EXCEPT !.status = "retry", !.token = NoToken] ELSE row[e]]
    /\ due' = due \cup stale /\ lapsed' = lapsed \ stale
    /\ pub' = [pub EXCEPT ![p] = [NoPub EXCEPT !.stage = "claim"]]
    /\ UNCHANGED <<log, stream, op, used>>

(* claim_batch; the refresh after its commit is part of the step.  A token *)
(* counts only in a row that is processing.                                *)

Copies(p) == pub[p].queue \cup ({pub[p].cur} \ {NoCopy})
InUse == {row[e].token : e \in Events} \cup {c.token : c \in UNION {Copies(p) : p \in Publishers}}

Claimable == {e \in due : row[e].status \in {"pending", "retry"}}

Claim(p, S, t) ==
    /\ pub[p].stage = "claim"
    /\ S \subseteq Claimable /\ Cardinality(S) <= BatchSize
    /\ S = {} => Claimable = {}
    /\ \A e, f \in S : t[e] \in Tokens \ InUse /\ (t[e] = t[f] => e = f)
    /\ row' = [e \in Events |->
           IF e \in S THEN [row[e] EXCEPT !.status = "processing", !.token = t[e]] ELSE row[e]]
    /\ lapsed' = lapsed \ S
    /\ pub' = [pub EXCEPT ![p] = [NoPub EXCEPT !.stage = "batch",
           !.queue = {[event |-> e, token |-> t[e], id |-> row[e].replays] : e \in S}]]
    /\ UNCHANGED <<due, log, stream, op, used>>

\* broker.publish: stored and acknowledged, stored with the answer lost, or
\* not stored.  A delivery id already in the stream is stored once.
Publish(p, c, stored, acked) ==
    /\ pub[p].stage = "batch" /\ c \in pub[p].queue
    /\ acked => stored
    /\ stream' = stream \cup IF stored THEN {[event |-> c.event, id |-> c.id]} ELSE {}
    /\ pub' = [pub EXCEPT ![p].stage = IF acked THEN "acked" ELSE "error",
                          ![p].cur = c, ![p].queue = @ \ {c}]
    /\ UNCHANGED <<row, due, lapsed, log, op, used>>

\* The check of _record_success and _record_failure.
Owns(p) ==
    LET c == pub[p].cur IN
    row[c.event].status = "processing" /\ row[c.event].token = c.token

NextRow(p) == [pub EXCEPT ![p] = [@ EXCEPT !.stage = "batch", !.cur = NoCopy]]

Read(p, stage) ==
    LET e == pub[p].cur.event IN
    /\ pub' = IF Owns(p)
              THEN [pub EXCEPT ![p] = [@ EXCEPT !.stage = stage, !.attempts = row[e].attempts,
                                                !.limit = row[e].limit]]
              ELSE NextRow(p)
    /\ UNCHANGED <<row, due, lapsed, log, stream, op, used>>

SuccessRead(p) == pub[p].stage = "acked" /\ Read(p, "success")

FailureRead(p) == pub[p].stage = "error" /\ Read(p, "failure")

\* Mutant: the attempts table has no unique constraint.
SuccessCommitUnchecked(p) ==
    LET e == pub[p].cur.event
        n == pub[p].attempts + 1
    IN
    /\ pub[p].stage = "success"
    /\ row' = [row EXCEPT ![e].status = "published", ![e].attempts = n, ![e].token = NoToken]
    /\ log' = [log EXCEPT ![e] = @ \cup {n}]
    /\ lapsed' = lapsed \ {e}
    /\ pub' = NextRow(p)
    /\ UNCHANGED <<due, stream, op, used>>

\* Mutant: the error path has lost the row it is about.
SuccessCommitLost(p) ==
    LET e == pub[p].cur.event
        n == pub[p].attempts + 1
    IN
    /\ pub[p].stage = "success"
    /\ \/ /\ n \notin log[e]
          /\ row' = [row EXCEPT ![e].status = "published", ![e].attempts = n, ![e].token = NoToken]
          /\ log' = [log EXCEPT ![e] = @ \cup {n}]
          /\ lapsed' = lapsed \ {e}
          /\ pub' = NextRow(p)
       \/ /\ n \in log[e]
          /\ pub' = [pub EXCEPT ![p].stage = "error", ![p].cur = NoCopy]
          /\ UNCHANGED <<row, log, lapsed>>
    /\ UNCHANGED <<due, stream, op, used>>

\* On a duplicate attempt number the exception leads to _record_failure.
SuccessCommit(p) ==
    LET e == pub[p].cur.event
        n == pub[p].attempts + 1
    IN
    /\ pub[p].stage = "success"
    /\ \/ /\ n \notin log[e]
          /\ row' = [row EXCEPT ![e].status = "published", ![e].attempts = n, ![e].token = NoToken]
          /\ log' = [log EXCEPT ![e] = @ \cup {n}]
          /\ lapsed' = lapsed \ {e}
          /\ pub' = NextRow(p)
       \/ /\ n \in log[e]
          /\ pub' = [pub EXCEPT ![p].stage = "error"]
          /\ UNCHANGED <<row, log, lapsed>>
    /\ UNCHANGED <<due, stream, op, used>>

\* Here the exception ends run_once; the rest of the batch stays claimed.
FailureCommit(p) ==
    LET e == pub[p].cur.event
        n == pub[p].attempts + 1
        terminal == n >= pub[p].limit
    IN
    /\ pub[p].stage = "failure"
    /\ \/ /\ n \notin log[e]
          /\ row' = [row EXCEPT ![e].status = IF terminal THEN "dead_letter" ELSE "retry",
                                ![e].attempts = n, ![e].token = NoToken]
          /\ log' = [log EXCEPT ![e] = @ \cup {n}]
          /\ due' = IF terminal THEN due ELSE due \ {e}
          /\ lapsed' = lapsed \ {e}
          /\ pub' = NextRow(p)
       \/ /\ n \in log[e]
          /\ pub' = [pub EXCEPT ![p] = NoPub]
          /\ UNCHANGED <<row, log, due, lapsed>>
    /\ UNCHANGED <<stream, op, used>>

Finish(p) ==
    /\ pub[p].stage = "batch" /\ pub[p].queue = {}
    /\ pub' = [pub EXCEPT ![p] = NoPub]
    /\ UNCHANGED <<row, due, lapsed, log, stream, op, used>>

\* The task is cancelled, the replica dies or the database fails.
Abort(p) ==
    /\ pub[p].stage # "idle" /\ used.crashes < MaxCrashes
    /\ pub' = [pub EXCEPT ![p] = NoPub]
    /\ used' = [used EXCEPT !.crashes = @ + 1]
    /\ UNCHANGED <<row, due, lapsed, log, stream, op>>

-----------------------------------------------------------------------------
(* cancel and replay *)

\* Of a row that is cancelled already no column of the model is written.
CancelRead(o, e) ==
    /\ op[o] = NoOp /\ used.ops < MaxOps
    /\ row[e].status \notin {"none", "published", "cancelled"}
    /\ op' = [op EXCEPT ![o] = [kind |-> "cancel", event |-> e]]
    /\ used' = [used EXCEPT !.ops = @ + 1]
    /\ UNCHANGED <<row, due, lapsed, log, stream, pub>>

CancelCommit(o) ==
    LET e == op[o].event IN
    /\ op[o].kind = "cancel"
    /\ row' = [row EXCEPT ![e].status = "cancelled", ![e].token = NoToken]
    /\ lapsed' = lapsed \ {e}
    /\ op' = [op EXCEPT ![o] = NoOp]
    /\ UNCHANGED <<due, log, stream, pub, used>>

\* The session writes max_attempts only if replay raises the value it read
\* (0: not written).
Raised(r) == IF r.attempts + MaxAttempts > r.limit THEN r.attempts + MaxAttempts ELSE 0

ReplayRead(o, e) ==
    /\ op[o] = NoOp /\ used.ops < MaxOps
    /\ row[e].status \in Terminal
    /\ op' = [op EXCEPT ![o] = [kind |-> "replay", event |-> e, replays |-> row[e].replays + 1,
                                limit |-> Raised(row[e])]]
    /\ used' = [used EXCEPT !.ops = @ + 1]
    /\ UNCHANGED <<row, due, lapsed, log, stream, pub>>

ReplayCommit(o) ==
    LET e == op[o].event
        limit == IF op[o].limit = 0 THEN row[e].limit ELSE op[o].limit
    IN
    /\ op[o].kind = "replay"
    /\ row' = [row EXCEPT ![e] = [@ EXCEPT !.status = "pending", !.replays = op[o].replays,
                                  !.limit = limit, !.token = NoToken]]
    /\ due' = due \cup {e} /\ lapsed' = lapsed \ {e}
    /\ op' = [op EXCEPT ![o] = NoOp]
    /\ UNCHANGED <<log, stream, pub, used>>

-----------------------------------------------------------------------------
(* Time *)

Abandoned(e) == \A p \in Publishers : \A c \in Copies(p) : c.token # row[e].token

LockLapse(e) ==
    /\ row[e].status = "processing" /\ e \notin lapsed
    /\ \/ Abandoned(e) /\ used' = used
       \/ ~Abandoned(e) /\ used.slow < MaxSlow /\ used' = [used EXCEPT !.slow = @ + 1]
    /\ lapsed' = lapsed \cup {e}
    /\ UNCHANGED <<row, due, log, stream, pub, op>>

BackoffOver(e) ==
    /\ row[e].status = "retry" /\ e \notin due
    /\ due' = due \cup {e}
    /\ UNCHANGED <<row, lapsed, log, stream, pub, op, used>>

RunOnce(p) ==
    \/ ReleaseRead(p) \/ ReleaseCommit(p)
    \/ \E S \in SUBSET Events : \E t \in [S -> Tokens] : Claim(p, S, t)
    \/ \E c \in pub[p].queue, stored, acked \in BOOLEAN : Publish(p, c, stored, acked)
    \/ SuccessRead(p) \/ SuccessCommit(p) \/ FailureRead(p) \/ FailureCommit(p) \/ Finish(p)

Operate(o) ==
    \/ \E e \in Events : CancelRead(o, e) \/ ReplayRead(o, e)
    \/ CancelCommit(o) \/ ReplayCommit(o)

Next ==
    \/ \E p \in Publishers : RunOnce(p) \/ Abort(p)
    \/ \E o \in Operators : Operate(o)
    \/ \E e \in Events : Emit(e) \/ LockLapse(e) \/ BackoffOver(e)

Spec == Init /\ [][Next]_vars

\* The worker loops of OutboxWorker keep running and time passes.
Fairness ==
    /\ \A p \in Publishers : WF_vars(RunOnce(p))
    /\ \A e \in Events : WF_vars(LockLapse(e)) /\ WF_vars(BackoffOver(e))
    /\ \A o \in Operators : WF_vars(CancelCommit(o) \/ ReplayCommit(o))

FairSpec == Spec /\ Fairness

-----------------------------------------------------------------------------
(* Properties *)

\* The history of an event is complete and immutable: attempts are numbered
\* 1 to attempt_count without a gap or a repetition, although two publishers
\* may record at the same time (_record_success, _record_failure).
AttemptsComplete == \A e \in Events : log[e] = 1..row[e].attempts

\* An event is marked published only if the broker has stored it, whatever
\* publishers, releases and operators overwrite (_record_success).
PublishedReachedBroker ==
    \A e \in Events : row[e].status = "published" => \E d \in stream : d.event = e

\* Every emitted event is settled: published, dead-lettered or cancelled, after
\* crashes, lost acknowledgements and lapsed claims (OutboxWorker._run).
EventuallySettled ==
    \A e \in Events : row[e].status # "none" ~> row[e].status \in Terminal

\* "Published outbox events cannot be cancelled" (cancel).
PublishedNeverCancelled ==
    [][\A e \in Events : row[e].status = "published" => row'[e].status # "cancelled"]_vars

\* What an event's history is worth: it is complete, and "published" is true.
HistoryTrue == AttemptsComplete /\ PublishedReachedBroker
=============================================================================
