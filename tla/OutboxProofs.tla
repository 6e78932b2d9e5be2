---------------------------- MODULE OutboxProofs ----------------------------
(***************************************************************************)
(* Proofs about the records that must not be lost or counted twice: the    *)
(* outbox (Outbox), the usage life cycle of a task (UsageLifecycle), the   *)
(* traffic log (McpTraffic) and the cold history (ColdHistory), for any    *)
(* number of events, publishers, operators, requests, flushers and runs.   *)
(***************************************************************************)
EXTENDS MCAccounting, FiniteSetTheorems, TLAPS

(* The parts of the type invariant. *)
RowType == [status: Statuses, attempts: Nat, limit: Nat, replays: Nat, token: Tokens \cup {NoToken}]
PubType == [stage: Stages, queue: SUBSET Copy, cur: Copy \cup {NoCopy},
            attempts: Nat, limit: Nat, stale: SUBSET Events]
OpType  == {NoOp} \cup [kind: {"cancel"}, event: Events]
                  \cup [kind: {"replay"}, event: Events, replays: Nat, limit: Nat]

Holding == {"acked", "error", "success", "failure"}

\* The type invariant, table by table.
LEMMA TypeParts ==
    TypeOK <=>
      /\ row \in [Events -> RowType]
      /\ due \in SUBSET Events /\ lapsed \in SUBSET Events
      /\ log \in [Events -> SUBSET Nat]
      /\ stream \in SUBSET [event: Events, id: Nat]
      /\ pub \in [Publishers -> PubType]
      /\ \A p \in Publishers : pub[p].stage \in Holding => pub[p].cur \in Copy
      /\ op \in [Operators -> OpType]
      /\ used \in [crashes: Nat, slow: Nat, ops: Nat]
  BY DEF TypeOK, RowType, PubType, OpType, Holding

\* The type invariant after a step, table by table.
LEMMA TypePartsNext ==
    TypeOK' <=>
      /\ row' \in [Events -> RowType]
      /\ due' \in SUBSET Events /\ lapsed' \in SUBSET Events
      /\ log' \in [Events -> SUBSET Nat]
      /\ stream' \in SUBSET [event: Events, id: Nat]
      /\ pub' \in [Publishers -> PubType]
      /\ \A p \in Publishers : pub'[p].stage \in Holding => pub'[p].cur \in Copy
      /\ op' \in [Operators -> OpType]
      /\ used' \in [crashes: Nat, slow: Nat, ops: Nat]
  BY DEF TypeOK, RowType, PubType, OpType, Holding

\* A publisher at rest, and one that begins, has its type.
LEMMA NoPubType ==
    /\ NoPub \in PubType
    /\ \A st \in {"release", "claim", "batch"}, S \in SUBSET Events, Q \in SUBSET Copy :
          /\ [NoPub EXCEPT !.stage = st] \in PubType
          /\ [NoPub EXCEPT !.stage = st, !.stale = S] \in PubType
          /\ [NoPub EXCEPT !.stage = st, !.queue = Q] \in PubType
  BY DEF NoPub, PubType, Stages

(* A publisher that has dealt with its row. *)
LEMMA NextRowType ==
    ASSUME TypeOK, NEW p \in Publishers
    PROVE  /\ NextRow(p) \in [Publishers -> PubType]
           /\ \A q \in Publishers : NextRow(p)[q].stage \in Holding => q # p /\ NextRow(p)[q] = pub[q]
  BY TypeParts DEF NextRow, PubType, Stages, Holding

\* An operator request under way names its event.
LEMMA OpFields ==
    ASSUME TypeOK, NEW o \in Operators
    PROVE  /\ op[o].kind = "cancel" => op[o].event \in Events
           /\ op[o].kind = "replay" => op[o].event \in Events /\ op[o].replays \in Nat /\ op[o].limit \in Nat
  BY TypeParts DEF OpType, NoOp

-----------------------------------------------------------------------------
(* Types *)

\* Every event is pending at first, so all rows have their type.
LEMMA TypeInit == Init => TypeOK
  BY OutboxAssumption DEF Init, TypeOK, NoPub, NoOp, Stages, Statuses

\* Every step keeps the types.
LEMMA TypeStep ==
    ASSUME TypeOK, [Next]_vars
    PROVE  TypeOK'
  <1> USE TypeParts, TypePartsNext
  <1>1. CASE UNCHANGED vars
    BY <1>1 DEF vars, TypeOK
  <1>2. ASSUME NEW p \in Publishers, ReleaseRead(p) PROVE TypeOK'
    <2>1. pub' \in [Publishers -> PubType]
      BY <1>2, NoPubType DEF ReleaseRead
    <2>2. \A q \in Publishers : pub'[q].stage \in Holding => pub'[q] = pub[q]
      BY <1>2 DEF ReleaseRead, NoPub, Holding
    <2> QED
      BY <1>2, <2>1, <2>2 DEF ReleaseRead
  <1>3. ASSUME NEW p \in Publishers, ReleaseCommit(p) PROVE TypeOK'
    <2>1. pub' \in [Publishers -> PubType]
      BY <1>3, NoPubType DEF ReleaseCommit
    <2>2. \A q \in Publishers : pub'[q].stage \in Holding => pub'[q] = pub[q]
      BY <1>3 DEF ReleaseCommit, NoPub, Holding
    <2>3. pub[p].stale \in SUBSET Events
      BY DEF PubType
    <2>4. row' \in [Events -> RowType]
      BY <1>3 DEF ReleaseCommit, RowType, Statuses
    <2> QED
      BY <1>3, <2>1, <2>2, <2>3, <2>4 DEF ReleaseCommit
  <1>4. ASSUME NEW p \in Publishers, NEW S \in SUBSET Events, NEW t \in [S -> Tokens], Claim(p, S, t)
        PROVE TypeOK'
    <2>1. {[event |-> e, token |-> t[e], id |-> row[e].replays] : e \in S} \in SUBSET Copy
      BY DEF Copy, RowType
    <2>2. pub' \in [Publishers -> PubType]
      BY <1>4, <2>1, NoPubType DEF Claim
    <2>3. \A q \in Publishers : pub'[q].stage \in Holding => pub'[q] = pub[q]
      BY <1>4 DEF Claim, NoPub, Holding
    <2>4. row' \in [Events -> RowType]
      <3>1. \A e \in S : [row[e] EXCEPT !.status = "processing", !.token = t[e]] \in RowType
        BY DEF RowType, Statuses
      <3> QED
        BY <1>4, <3>1 DEF Claim
    <2> QED
      BY <1>4, <2>2, <2>3, <2>4 DEF Claim
  <1>5. ASSUME NEW p \in Publishers, NEW c \in pub[p].queue, NEW stored \in BOOLEAN,
               NEW acked \in BOOLEAN, Publish(p, c, stored, acked)
        PROVE TypeOK'
    <2>1. c \in Copy /\ c.event \in Events /\ c.id \in Nat
      BY DEF PubType, Copy
    <2>2. stream' \in SUBSET [event: Events, id: Nat]
      BY <1>5, <2>1 DEF Publish
    <2>3. pub' \in [Publishers -> PubType]
      BY <1>5, <2>1 DEF Publish, PubType, Stages
    <2>4. \A q \in Publishers : pub'[q].stage \in Holding => pub'[q].cur \in Copy
      BY <1>5, <2>1 DEF Publish, PubType
    <2> QED
      BY <1>5, <2>2, <2>3, <2>4 DEF Publish
  <1>6. ASSUME NEW p \in Publishers, NEW st \in {"success", "failure"}, pub[p].stage \in Holding, Read(p, st)
        PROVE TypeOK'
    <2>1. pub[p].cur.event \in Events
      BY <1>6 DEF Copy
    <2>2. row[pub[p].cur.event].attempts \in Nat /\ row[pub[p].cur.event].limit \in Nat
      BY <2>1 DEF RowType
    <2>3. pub' \in [Publishers -> PubType]
      <3>1. CASE Owns(p)
        <4>1. \A n, k \in Nat : [pub[p] EXCEPT !.stage = st, !.attempts = n, !.limit = k] \in PubType
          BY DEF PubType, Stages
        <4> QED
          BY <1>6, <2>2, <3>1, <4>1 DEF Read
      <3>2. CASE ~Owns(p)
        BY <1>6, <3>2, NextRowType DEF Read
      <3> QED
        BY <3>1, <3>2
    <2>4. \A q \in Publishers : pub'[q].stage \in Holding => pub'[q].cur \in Copy
      BY <1>6, NextRowType DEF Read, PubType
    <2> QED
      BY <1>6, <2>3, <2>4 DEF Read
  <1>7. ASSUME NEW p \in Publishers, SuccessCommit(p) PROVE TypeOK'
    <2>1. pub[p].cur.event \in Events /\ pub[p].attempts + 1 \in Nat
      BY <1>7 DEF SuccessCommit, Holding, Copy, PubType
    <2>2. row' \in [Events -> RowType]
      <3>1. CASE row' = row
        BY <3>1
      <3>2. CASE row' = [row EXCEPT ![pub[p].cur.event].status = "published",
                                    ![pub[p].cur.event].attempts = pub[p].attempts + 1,
                                    ![pub[p].cur.event].token = NoToken]
        BY <2>1, <3>2 DEF RowType, Statuses
      <3> QED
        BY <1>7, <3>1, <3>2 DEF SuccessCommit
    <2>3. log' \in [Events -> SUBSET Nat] /\ lapsed' \in SUBSET Events
      BY <1>7, <2>1 DEF SuccessCommit
    <2>4. pub' \in [Publishers -> PubType]
      <3>1. CASE pub' = NextRow(p)
        BY <3>1, NextRowType
      <3>2. CASE pub' = [pub EXCEPT ![p].stage = "error"]
        BY <3>2 DEF PubType, Stages
      <3> QED
        BY <1>7, <3>1, <3>2 DEF SuccessCommit
    <2>5. \A q \in Publishers : pub'[q].stage \in Holding => pub'[q].cur \in Copy
      <3>1. CASE pub' = NextRow(p)
        BY <3>1, NextRowType
      <3>2. CASE pub' = [pub EXCEPT ![p].stage = "error"]
        BY <1>7, <3>2 DEF SuccessCommit, PubType, Holding
      <3> QED
        BY <1>7, <3>1, <3>2 DEF SuccessCommit
    <2> QED
      BY <1>7, <2>2, <2>3, <2>4, <2>5 DEF SuccessCommit
  <1>8. ASSUME NEW p \in Publishers, FailureCommit(p) PROVE TypeOK'
    <2>1. pub[p].cur.event \in Events /\ pub[p].attempts + 1 \in Nat
      BY <1>8 DEF FailureCommit, Holding, Copy, PubType
    <2>2. row' \in [Events -> RowType]
      BY <1>8, <2>1 DEF FailureCommit, RowType, Statuses
    <2>3. log' \in [Events -> SUBSET Nat] /\ lapsed' \in SUBSET Events /\ due' \in SUBSET Events
      BY <1>8, <2>1 DEF FailureCommit
    <2>4. pub' \in [Publishers -> PubType]
      <3>1. CASE pub' = NextRow(p)
        BY <3>1, NextRowType
      <3>2. CASE pub' = [pub EXCEPT ![p] = NoPub]
        BY <3>2, NoPubType
      <3> QED
        BY <1>8, <3>1, <3>2 DEF FailureCommit
    <2>5. \A q \in Publishers : pub'[q].stage \in Holding => pub'[q].cur \in Copy
      BY <1>8, NextRowType DEF FailureCommit, Holding, NoPub
    <2> QED
      BY <1>8, <2>2, <2>3, <2>4, <2>5 DEF FailureCommit
  <1>9. ASSUME NEW p \in Publishers, Finish(p) \/ Abort(p) PROVE TypeOK'
    <2>1. pub' \in [Publishers -> PubType]
      BY <1>9, NoPubType DEF Finish, Abort
    <2>2. \A q \in Publishers : pub'[q].stage \in Holding => pub'[q] = pub[q]
      BY <1>9 DEF Finish, Abort, NoPub, Holding
    <2> QED
      BY <1>9, <2>1, <2>2 DEF Finish, Abort
  <1>10. ASSUME NEW o \in Operators, NEW e \in Events, CancelRead(o, e) PROVE TypeOK'
    <2>1. op' \in [Operators -> OpType]
      BY <1>10 DEF CancelRead, OpType
    <2> QED
      BY <1>10, <2>1 DEF CancelRead
  <1>11. ASSUME NEW o \in Operators, NEW e \in Events, ReplayRead(o, e) PROVE TypeOK'
    <2>1. Raised(row[e]) \in Nat /\ row[e].replays + 1 \in Nat
      BY OutboxAssumption DEF Raised, RowType
    <2>2. op' \in [Operators -> OpType]
      BY <1>11, <2>1 DEF ReplayRead, OpType
    <2> QED
      BY <1>11, <2>2 DEF ReplayRead
  <1>12. ASSUME NEW o \in Operators, CancelCommit(o) PROVE TypeOK'
    <2>1. row' \in [Events -> RowType]
      BY <1>12, OpFields DEF CancelCommit, RowType, Statuses
    <2>2. op' \in [Operators -> OpType]
      BY <1>12 DEF CancelCommit, OpType
    <2> QED
      BY <1>12, <2>1, <2>2 DEF CancelCommit
  <1>13. ASSUME NEW o \in Operators, ReplayCommit(o) PROVE TypeOK'
    <2>1. op[o].event \in Events /\ op[o].replays \in Nat /\ op[o].limit \in Nat
      BY <1>13, OpFields DEF ReplayCommit
    <2>2. row' \in [Events -> RowType]
      <3>1. \A r \in RowType, n \in Nat, k \in Nat :
               [r EXCEPT !.status = "pending", !.replays = n, !.limit = k, !.token = NoToken] \in RowType
        BY DEF RowType, Statuses
      <3>2. \A r \in RowType : (IF op[o].limit = 0 THEN r.limit ELSE op[o].limit) \in Nat
        BY <2>1 DEF RowType
      <3> DEFINE r == row[op[o].event]
                 k == IF op[o].limit = 0 THEN r.limit ELSE op[o].limit
      <3>3. row' = [row EXCEPT ![op[o].event] = [r EXCEPT !.status = "pending", !.replays = op[o].replays,
                                                          !.limit = k, !.token = NoToken]]
        BY <1>13, <2>1 DEF ReplayCommit
      <3>4. r \in RowType /\ k \in Nat
        BY <2>1, <3>2
      <3> HIDE DEF r, k
      <3>5. [r EXCEPT !.status = "pending", !.replays = op[o].replays, !.limit = k, !.token = NoToken] \in RowType
        BY <2>1, <3>1, <3>4
      <3> QED
        BY <3>3, <3>5
    <2>3. op' \in [Operators -> OpType]
      BY <1>13 DEF ReplayCommit, OpType
    <2> QED
      BY <1>13, <2>1, <2>2, <2>3 DEF ReplayCommit
  <1>14. ASSUME NEW e \in Events, Emit(e) \/ LockLapse(e) \/ BackoffOver(e) PROVE TypeOK'
    <2>1. row' \in [Events -> RowType]
      BY <1>14 DEF Emit, LockLapse, BackoffOver, RowType, Statuses
    <2> QED
      BY <1>14, <2>1 DEF Emit, LockLapse, BackoffOver
  <1> QED
    BY <1>1, <1>2, <1>3, <1>4, <1>5, <1>6, <1>7, <1>8, <1>9, <1>10, <1>11, <1>12, <1>13, <1>14
    DEF Next, RunOnce, Operate, SuccessRead, FailureRead, Holding

(* Rows, deliveries, publishers and operator requests keep their types, and *)
(* a publisher past its broker call always knows its row (OutboxService).   *)
THEOREM TypeCorrect == Spec => []TypeOK
  BY TypeInit, TypeStep, PTL DEF Spec

-----------------------------------------------------------------------------
(* The history of attempts *)

(* A publisher that is about to record an attempt has read a count that has *)
(* only grown since.                                                        *)
ReadInv ==
    \A p \in Publishers : pub[p].stage \in {"success", "failure"} =>
        pub[p].attempts <= row[pub[p].cur.event].attempts

\* A step that records no attempt keeps the history.
LEMMA HistoryKept ==
    ASSUME TypeOK, AttemptsComplete, ReadInv, log' = log,
           \A e \in Events : row'[e].attempts = row[e].attempts,
           \A q \in Publishers : pub'[q].stage \in {"success", "failure"} => pub'[q] = pub[q]
    PROVE  AttemptsComplete' /\ ReadInv'
  <1>1. AttemptsComplete'
    BY DEF AttemptsComplete
  <1>2. \A q \in Publishers : pub[q].stage \in {"success", "failure"} => pub[q].cur.event \in Events
    BY TypeParts DEF Holding, Copy
  <1>3. ReadInv'
    BY <1>2 DEF ReadInv
  <1> QED
    BY <1>1, <1>3

(* The next number of the history: the unique index admits no other. *)
LEMMA HistoryGrows ==
    ASSUME TypeOK, TypeOK', AttemptsComplete, ReadInv, NEW p \in Publishers, NEW e \in Events, NEW n \in Nat,
           pub[p].stage \in {"success", "failure"}, e = pub[p].cur.event, n = pub[p].attempts + 1,
           n \notin log[e], log' = [log EXCEPT ![e] = @ \cup {n}],
           row'[e].attempts = n, \A f \in Events \ {e} : row'[f].attempts = row[f].attempts,
           pub' = NextRow(p)
    PROVE  AttemptsComplete' /\ ReadInv'
  <1>1. \A f \in Events : row[f].attempts \in Nat /\ log[f] = 1..row[f].attempts
    BY TypeParts DEF RowType, AttemptsComplete
  <1>2. pub[p].attempts \in Nat /\ pub[p].attempts <= row[e].attempts
    BY TypeParts DEF PubType, ReadInv
  <1>3. n = row[e].attempts + 1
    BY <1>1, <1>2
  <1>4. AttemptsComplete'
    <2>1. log'[e] = 1..row'[e].attempts
      <3>1. \A m \in Nat : (1..m) \cup {m + 1} = 1..(m + 1)
        OBVIOUS
      <3>2. log'[e] = log[e] \cup {n}
        BY TypeParts
      <3>3. row[e].attempts \in Nat /\ log[e] = 1..row[e].attempts
        BY <1>1
      <3> QED
        BY <1>3, <3>1, <3>2, <3>3
    <2>2. \A f \in Events \ {e} : log'[f] = 1..row'[f].attempts
      BY <1>1, TypeParts
    <2> QED
      BY <2>1, <2>2 DEF AttemptsComplete
  <1>5. \A q \in Publishers : pub'[q].stage \in {"success", "failure"} =>
            pub'[q] = pub[q] /\ pub[q].cur.event \in Events /\ pub[q].attempts \in Nat
    BY NextRowType, TypeParts DEF Holding, Copy, PubType
  <1>6. \A f \in Events : row[f].attempts <= row'[f].attempts
    BY <1>1, <1>3
  <1>7. \A f \in Events : row'[f].attempts \in Nat
    BY TypePartsNext DEF RowType
  <1>8. ReadInv'
    BY <1>1, <1>5, <1>6, <1>7 DEF ReadInv
  <1> QED
    BY <1>4, <1>8

\* Every step keeps that attempts are numbered without a gap.
LEMMA HistoryStep ==
    ASSUME TypeOK, TypeOK', AttemptsComplete, ReadInv, [Next]_vars
    PROVE  AttemptsComplete' /\ ReadInv'
  <1>1. CASE UNCHANGED vars
    BY <1>1 DEF vars, AttemptsComplete, ReadInv
  <1>2. ASSUME NEW p \in Publishers, ReleaseRead(p) \/ Finish(p) \/ Abort(p)
        PROVE AttemptsComplete' /\ ReadInv'
    <2>1. \A q \in Publishers : pub'[q].stage \in {"success", "failure"} => pub'[q] = pub[q]
      <3>1. CASE ReleaseRead(p)
        BY <3>1, TypeParts DEF ReleaseRead, NoPub
      <3>2. CASE Finish(p) \/ Abort(p)
        BY <3>2, TypeParts DEF Finish, Abort, NoPub
      <3> QED
        BY <1>2, <3>1, <3>2
    <2> QED
      BY <1>2, <2>1, HistoryKept DEF ReleaseRead, Finish, Abort
  <1>3. ASSUME NEW p \in Publishers, ReleaseCommit(p) PROVE AttemptsComplete' /\ ReadInv'
    <2>1. \A q \in Publishers : pub'[q].stage \in {"success", "failure"} => pub'[q] = pub[q]
      BY <1>3, TypeParts DEF ReleaseCommit, NoPub
    <2>2. \A e \in Events : row'[e].attempts = row[e].attempts
      BY <1>3, TypeParts DEF ReleaseCommit, RowType
    <2> QED
      BY <1>3, <2>1, <2>2, HistoryKept DEF ReleaseCommit
  <1>4. ASSUME NEW p \in Publishers, NEW S \in SUBSET Events, NEW t \in [S -> Tokens], Claim(p, S, t)
        PROVE AttemptsComplete' /\ ReadInv'
    <2>1. \A q \in Publishers : pub'[q].stage \in {"success", "failure"} => pub'[q] = pub[q]
      BY <1>4, TypeParts DEF Claim, NoPub
    <2>2. \A e \in Events : row'[e].attempts = row[e].attempts
      <3>1. \A e \in Events : \/ row'[e] = [row[e] EXCEPT !.status = "processing", !.token = t[e]]
                              \/ row'[e] = row[e]
        BY <1>4 DEF Claim
      <3>2. \A e \in Events : row[e] \in RowType
        BY TypeParts
      <3> QED
        BY <3>1, <3>2 DEF RowType
    <2> QED
      BY <1>4, <2>1, <2>2, HistoryKept DEF Claim
  <1>5. ASSUME NEW p \in Publishers, NEW c \in pub[p].queue, NEW stored \in BOOLEAN,
               NEW acked \in BOOLEAN, Publish(p, c, stored, acked)
        PROVE AttemptsComplete' /\ ReadInv'
    <2>1. \A q \in Publishers : pub'[q].stage \in {"success", "failure"} => pub'[q] = pub[q]
      BY <1>5, TypeParts DEF Publish, PubType
    <2> QED
      BY <1>5, <2>1, HistoryKept DEF Publish
  <1>6. ASSUME NEW p \in Publishers, NEW st \in {"success", "failure"}, pub[p].stage \in Holding, Read(p, st)
        PROVE AttemptsComplete' /\ ReadInv'
    <2>1. CASE ~Owns(p)
      <3>1. \A q \in Publishers : pub'[q].stage \in {"success", "failure"} => pub'[q] = pub[q]
        BY <1>6, <2>1, NextRowType DEF Read, Holding
      <3> QED
        BY <1>6, <3>1, HistoryKept DEF Read
    <2>2. CASE Owns(p)
      <3>1. row' = row /\ log' = log
        BY <1>6 DEF Read
      <3>2. \A q \in Publishers \ {p} : pub'[q] = pub[q]
        BY <1>6, <2>2, TypeParts DEF Read
      <3>3. pub'[p].cur = pub[p].cur /\ pub'[p].attempts = row[pub[p].cur.event].attempts
        BY <1>6, <2>2, TypeParts DEF Read, PubType
      <3>4. row[pub[p].cur.event].attempts \in Nat
        BY <1>6, TypeParts DEF Copy, RowType
      <3>5. ReadInv'
        BY <3>1, <3>2, <3>3, <3>4 DEF ReadInv
      <3> QED
        BY <3>1, <3>5 DEF AttemptsComplete
    <2> QED
      BY <2>1, <2>2
  <1>7. ASSUME NEW p \in Publishers, SuccessCommit(p) PROVE AttemptsComplete' /\ ReadInv'
    <2> DEFINE e == pub[p].cur.event
               n == pub[p].attempts + 1
    <2>1. e \in Events /\ n \in Nat
      BY <1>7, TypeParts DEF SuccessCommit, Holding, Copy, PubType
    <2>2. CASE n \in log[e]
      <3>1. \A q \in Publishers : pub'[q].stage \in {"success", "failure"} => pub'[q] = pub[q]
        BY <1>7, <2>2, TypeParts DEF SuccessCommit, PubType
      <3> QED
        BY <1>7, <2>2, <3>1, HistoryKept DEF SuccessCommit
    <2>3. CASE n \notin log[e]
      <3>1. row'[e].attempts = n /\ \A f \in Events \ {e} : row'[f].attempts = row[f].attempts
        BY <1>7, <2>1, <2>3, TypeParts DEF SuccessCommit, RowType
      <3>2. /\ pub[p].stage = "success" /\ pub' = NextRow(p)
            /\ log' = [log EXCEPT ![e] = @ \cup {n}]
        BY <1>7, <2>3 DEF SuccessCommit
      <3> QED
        BY <2>1, <2>3, <3>1, <3>2, HistoryGrows
    <2> QED
      BY <2>2, <2>3
  <1>8. ASSUME NEW p \in Publishers, FailureCommit(p) PROVE AttemptsComplete' /\ ReadInv'
    <2> DEFINE e == pub[p].cur.event
               n == pub[p].attempts + 1
    <2>1. e \in Events /\ n \in Nat
      BY <1>8, TypeParts DEF FailureCommit, Holding, Copy, PubType
    <2>2. CASE n \in log[e]
      <3>1. \A q \in Publishers : pub'[q].stage \in {"success", "failure"} => pub'[q] = pub[q]
        BY <1>8, <2>2, TypeParts DEF FailureCommit, NoPub
      <3> QED
        BY <1>8, <2>2, <3>1, HistoryKept DEF FailureCommit
    <2>3. CASE n \notin log[e]
      <3>1. row'[e].attempts = n /\ \A f \in Events \ {e} : row'[f].attempts = row[f].attempts
        BY <1>8, <2>1, <2>3, TypeParts DEF FailureCommit, RowType
      <3>2. /\ pub[p].stage = "failure" /\ pub' = NextRow(p)
            /\ log' = [log EXCEPT ![e] = @ \cup {n}]
        BY <1>8, <2>3 DEF FailureCommit
      <3> QED
        BY <2>1, <2>3, <3>1, <3>2, HistoryGrows
    <2> QED
      BY <2>2, <2>3
  <1>9. ASSUME NEW o \in Operators, CancelCommit(o) \/ ReplayCommit(o) PROVE AttemptsComplete' /\ ReadInv'
    <2>1. \A e \in Events : row'[e].attempts = row[e].attempts
      <3>1. CASE CancelCommit(o)
        BY <3>1, TypeParts DEF CancelCommit, RowType
      <3>2. CASE ReplayCommit(o)
        BY <3>2, TypeParts DEF ReplayCommit, RowType
      <3> QED
        BY <1>9, <3>1, <3>2
    <2> QED
      BY <1>9, <2>1, HistoryKept DEF CancelCommit, ReplayCommit
  <1>10. ASSUME NEW o \in Operators, NEW e \in Events, CancelRead(o, e) \/ ReplayRead(o, e)
         PROVE AttemptsComplete' /\ ReadInv'
    BY <1>10, HistoryKept DEF CancelRead, ReplayRead
  <1>11. ASSUME NEW e \in Events, Emit(e) \/ LockLapse(e) \/ BackoffOver(e)
         PROVE AttemptsComplete' /\ ReadInv'
    <2>1. \A f \in Events : row'[f].attempts = row[f].attempts
      BY <1>11, TypeParts DEF Emit, LockLapse, BackoffOver, RowType
    <2> QED
      BY <1>11, <2>1, HistoryKept DEF Emit, LockLapse, BackoffOver
  <1> QED
    BY <1>1, <1>2, <1>3, <1>4, <1>5, <1>6, <1>7, <1>8, <1>9, <1>10, <1>11
    DEF Next, RunOnce, Operate, SuccessRead, FailureRead, Holding

(* However many publishers record attempts of one event at once, its        *)
(* history has every number from 1 to attempt_count (_record_success,       *)
(* _record_failure and the unique index of the attempts table).             *)
THEOREM AttemptsCorrect == Spec => []AttemptsComplete
  <1>1. Init => AttemptsComplete /\ ReadInv
    BY DEF Init, AttemptsComplete, ReadInv, NoPub
  <1>2. TypeOK /\ TypeOK' /\ AttemptsComplete /\ ReadInv /\ [Next]_vars => AttemptsComplete' /\ ReadInv'
    BY HistoryStep
  <1> QED
    BY <1>1, <1>2, TypeCorrect, PTL DEF Spec

-----------------------------------------------------------------------------
(* What published says of the broker *)

(* The event of a publisher whose broker call was acknowledged is stored. *)
AckInv ==
    \A p \in Publishers : pub[p].stage \in {"acked", "success"} =>
        \E d \in stream : d.event = pub[p].cur.event

BrokerInv == PublishedReachedBroker /\ AckInv

\* A step that neither publishes nor acknowledges keeps what was stored.
LEMMA BrokerKept ==
    ASSUME BrokerInv, stream \subseteq stream',
           \A e \in Events : row'[e].status = "published" => row[e].status = "published",
           \A q \in Publishers : pub'[q].stage \in {"acked", "success"} =>
               pub[q].stage \in {"acked", "success"} /\ pub'[q].cur = pub[q].cur
    PROVE  BrokerInv'
  BY DEF BrokerInv, PublishedReachedBroker, AckInv

\* Every step keeps that a published event is in the stream.
LEMMA BrokerStep ==
    ASSUME TypeOK, BrokerInv, [Next]_vars
    PROVE  BrokerInv'
  <1>1. CASE UNCHANGED vars
    BY <1>1, BrokerKept DEF vars
  <1>2. ASSUME NEW p \in Publishers, Finish(p) \/ Abort(p) PROVE BrokerInv'
    <2>1. \A q \in Publishers : pub'[q].stage \in {"acked", "success"} => pub'[q] = pub[q]
      BY <1>2, TypeParts DEF Finish, Abort, NoPub
    <2> QED
      BY <1>2, <2>1, BrokerKept DEF Finish, Abort
  <1>3. ASSUME NEW p \in Publishers, ReleaseRead(p) PROVE BrokerInv'
    <2>1. \A q \in Publishers : pub'[q].stage \in {"acked", "success"} => pub'[q] = pub[q]
      BY <1>3, TypeParts DEF ReleaseRead, NoPub
    <2> QED
      BY <1>3, <2>1, BrokerKept DEF ReleaseRead
  <1>4. ASSUME NEW p \in Publishers, ReleaseCommit(p) PROVE BrokerInv'
    <2>1. \A q \in Publishers : pub'[q].stage \in {"acked", "success"} => pub'[q] = pub[q]
      BY <1>4, TypeParts DEF ReleaseCommit, NoPub
    <2>2. \A e \in Events : row'[e].status = "published" => row[e].status = "published"
      BY <1>4, TypeParts DEF ReleaseCommit, RowType
    <2> QED
      BY <1>4, <2>1, <2>2, BrokerKept DEF ReleaseCommit
  <1>5. ASSUME NEW p \in Publishers, NEW S \in SUBSET Events, NEW t \in [S -> Tokens], Claim(p, S, t)
        PROVE BrokerInv'
    <2>1. \A q \in Publishers : pub'[q].stage \in {"acked", "success"} => pub'[q] = pub[q]
      BY <1>5, TypeParts DEF Claim, NoPub
    <2>2. \A e \in Events : row'[e].status = "published" => row[e].status = "published"
      <3>1. \A e \in Events : \/ row'[e] = [row[e] EXCEPT !.status = "processing", !.token = t[e]]
                              \/ row'[e] = row[e]
        BY <1>5 DEF Claim
      <3>2. \A e \in Events : row[e] \in RowType
        BY TypeParts
      <3> QED
        BY <3>1, <3>2 DEF RowType
    <2> QED
      BY <1>5, <2>1, <2>2, BrokerKept DEF Claim
  <1>6. ASSUME NEW p \in Publishers, NEW c \in pub[p].queue, NEW stored \in BOOLEAN,
               NEW acked \in BOOLEAN, Publish(p, c, stored, acked)
        PROVE BrokerInv'
    <2>1. stream \subseteq stream' /\ row' = row
      BY <1>6 DEF Publish
    <2>2. \A q \in Publishers \ {p} : pub'[q] = pub[q]
      BY <1>6, TypeParts DEF Publish
    <2>3. CASE acked
      <3>1. [event |-> c.event, id |-> c.id] \in stream'
        BY <1>6, <2>3 DEF Publish
      <3>2. pub'[p].cur = c
        BY <1>6, TypeParts DEF Publish, PubType
      <3>3. AckInv'
        BY <2>1, <2>2, <3>1, <3>2 DEF BrokerInv, AckInv
      <3> QED
        BY <2>1, <3>3 DEF BrokerInv, PublishedReachedBroker
    <2>4. CASE ~acked
      <3>1. pub'[p].stage = "error"
        BY <1>6, <2>4, TypeParts DEF Publish, PubType
      <3> QED
        BY <2>1, <2>2, <3>1, BrokerKept
    <2> QED
      BY <2>3, <2>4
  <1>7. ASSUME NEW p \in Publishers, SuccessRead(p) \/ FailureRead(p) PROVE BrokerInv'
    <2>1. PICK st \in {"success", "failure"} :
             /\ Read(p, st) /\ pub[p].stage \in Holding
             /\ st = "success" => pub[p].stage = "acked"
      BY <1>7 DEF SuccessRead, FailureRead, Holding
    <2>2. row' = row /\ stream' = stream
      BY <2>1 DEF Read
    <2>3. \A q \in Publishers : pub'[q].stage \in {"acked", "success"} =>
             pub[q].stage \in {"acked", "success"} /\ pub'[q].cur = pub[q].cur
      <3>1. CASE ~Owns(p)
        BY <2>1, <3>1, NextRowType DEF Read, Holding
      <3>2. CASE Owns(p)
        <4>1. \A q \in Publishers \ {p} : pub'[q] = pub[q]
          BY <2>1, <3>2, TypeParts DEF Read
        <4>2. pub'[p].cur = pub[p].cur /\ pub'[p].stage = st
          BY <2>1, <3>2, TypeParts DEF Read, PubType
        <4> QED
          BY <2>1, <4>1, <4>2
      <3> QED
        BY <3>1, <3>2
    <2> QED
      BY <2>2, <2>3, BrokerKept
  <1>8. ASSUME NEW p \in Publishers, SuccessCommit(p) PROVE BrokerInv'
    <2> DEFINE e == pub[p].cur.event
    <2>1. e \in Events /\ stream' = stream
      BY <1>8, TypeParts DEF SuccessCommit, Holding, Copy
    <2>2. \E d \in stream : d.event = e
      BY <1>8 DEF SuccessCommit, BrokerInv, AckInv
    <2>3. \A f \in Events \ {e} : row'[f] = row[f]
      BY <1>8, TypeParts DEF SuccessCommit
    <2>4. PublishedReachedBroker'
      BY <2>1, <2>2, <2>3 DEF BrokerInv, PublishedReachedBroker
    <2>5. \A q \in Publishers : pub'[q].stage \in {"acked", "success"} => pub'[q] = pub[q]
      <3>1. CASE pub' = NextRow(p)
        BY <3>1, NextRowType DEF Holding
      <3>2. CASE pub' = [pub EXCEPT ![p].stage = "error"]
        BY <3>2, TypeParts DEF PubType
      <3> QED
        BY <1>8, <3>1, <3>2 DEF SuccessCommit
    <2>6. AckInv'
      BY <2>1, <2>5 DEF BrokerInv, AckInv
    <2> QED
      BY <2>4, <2>6 DEF BrokerInv
  <1>9. ASSUME NEW p \in Publishers, FailureCommit(p) PROVE BrokerInv'
    <2>1. \A f \in Events : row'[f].status = "published" => row[f].status = "published"
      BY <1>9, TypeParts DEF FailureCommit, RowType
    <2>2. \A q \in Publishers : pub'[q].stage \in {"acked", "success"} => pub'[q] = pub[q]
      <3>1. CASE pub' = NextRow(p)
        BY <3>1, NextRowType DEF Holding
      <3>2. CASE pub' = [pub EXCEPT ![p] = NoPub]
        BY <3>2, TypeParts DEF NoPub
      <3> QED
        BY <1>9, <3>1, <3>2 DEF FailureCommit
    <2> QED
      BY <1>9, <2>1, <2>2, BrokerKept DEF FailureCommit
  <1>10. ASSUME NEW o \in Operators, CancelCommit(o) \/ ReplayCommit(o) PROVE BrokerInv'
    <2>1. \A e \in Events : row'[e].status = "published" => row[e].status = "published"
      <3>1. CASE CancelCommit(o)
        BY <3>1, TypeParts DEF CancelCommit, RowType
      <3>2. CASE ReplayCommit(o)
        BY <3>2, TypeParts DEF ReplayCommit, RowType
      <3> QED
        BY <1>10, <3>1, <3>2
    <2> QED
      BY <1>10, <2>1, BrokerKept DEF CancelCommit, ReplayCommit
  <1>11. ASSUME NEW o \in Operators, NEW e \in Events, CancelRead(o, e) \/ ReplayRead(o, e)
         PROVE BrokerInv'
    BY <1>11, BrokerKept DEF CancelRead, ReplayRead
  <1>12. ASSUME NEW e \in Events, Emit(e) \/ LockLapse(e) \/ BackoffOver(e) PROVE BrokerInv'
    <2>1. \A f \in Events : row'[f].status = "published" => row[f].status = "published"
      BY <1>12, TypeParts DEF Emit, LockLapse, BackoffOver, RowType
    <2> QED
      BY <1>12, <2>1, BrokerKept DEF Emit, LockLapse, BackoffOver
  <1> QED
    BY <1>1, <1>2, <1>3, <1>4, <1>5, <1>6, <1>7, <1>8, <1>9, <1>10, <1>11, <1>12
    DEF Next, RunOnce, Operate

(* No interleaving of publishers, releases, cancellations and replays marks *)
(* an event published that the broker has not stored (_record_success).     *)
THEOREM PublishedCorrect == Spec => []PublishedReachedBroker
  <1>1. Init => BrokerInv
    BY DEF Init, BrokerInv, PublishedReachedBroker, AckInv, NoPub
  <1>2. TypeOK /\ BrokerInv /\ [Next]_vars => BrokerInv'
    BY BrokerStep
  <1>3. BrokerInv => PublishedReachedBroker
    BY DEF BrokerInv
  <1> QED
    BY <1>1, <1>2, <1>3, TypeCorrect, PTL DEF Spec

(* The history of an event is complete and "published" is true, for any       *)
(* number of publishers, events and operators.                                *)
THEOREM HistoryCorrect == Spec => []HistoryTrue
  BY AttemptsCorrect, PublishedCorrect, PTL DEF HistoryTrue

-----------------------------------------------------------------------------
(* The usage life cycle of a task (UsageLifecycle)                         *)

\* LUP has accepted the cause of the event.
Caused(e) == e.cause = "none" \/ (e.cause \in UlIds /\ ulLup[e.cause] # UlNone)

\* What a request still has to publish before it inserts its row: nothing more,
\* the event of the row, or the final observation and then the completion it
\* causes.  Once nothing is left, LUP holds the event of the row.
RequestSound(r) ==
    \/ r.events = <<>> /\ (r.row \in Event => ulLup[r.key] = r.row)
    \/ r.events = <<<<r.key, r.row>>>> /\ r.row \in Event /\ Caused(r.row)
    \/ \E f \in Event :
          /\ r.events = <<<<"final", f>>, <<"terminal", r.row>>>> /\ r.key = "terminal"
          /\ r.row \in Event /\ r.row.cause = "final" /\ Caused(f)

UlInv ==
    /\ ulRow \in [UlIds -> Event \cup Silent \cup {UlNone}]
    /\ ulLup \in [UlIds -> Event \cup {UlNone}]
    /\ ulTask \in [UlTasks -> UlRequest \cup {UlNone}]
    /\ \A i \in UlIds : ulRow[i] \in Silent => i \in UlCallbacks
    /\ \A t \in UlTasks : ulTask[t] # UlNone =>
          /\ RequestSound(ulTask[t])
          /\ ulTask[t].row \in Silent => ulTask[t].key \in UlCallbacks
    /\ RecordedWasAccepted /\ CausesAccepted

\* Events, silent calls and the missing row are told apart by what they say.
LEMMA UlDistinct ==
    /\ UlNone \notin Event /\ UlNone \notin Silent /\ UlNone \notin UlRequest
    /\ Event \cap Silent = {}
    /\ \A e \in Event : e.what # "silent" /\ e # UlNone /\ e.cause \in UlIds \cup {"none"}
    /\ \A e \in Silent : e.what = "silent" /\ e # UlNone
    /\ \A r \in UlRequest : r # UlNone /\ r.key \in UlIds /\ r.row \in Event \cup Silent
    /\ UlNone.what = "none"
  <1>1. \A e \in Event : e.what \in {"start", "observation", "seal", "complete", "abandon"} /\ e.cause \in UlIds \cup {"none"}
    BY DEF Event
  <1>2. \A e \in Silent : e.what = "silent"
    BY DEF Silent
  <1>3. UlNone.what = "none" /\ DOMAIN UlNone = {"what"}
    BY DEF UlNone
  <1>4. \A r \in UlRequest : DOMAIN r = {"key", "row", "events"} /\ r.key \in UlIds /\ r.row \in Event \cup Silent
    BY DEF UlRequest
  <1>5. "key" \notin {"what"} /\ "key" \in {"key", "row", "events"}
    OBVIOUS
  <1> QED BY <1>1, <1>2, <1>3, <1>4, <1>5

\* The ids that are no callbacks.
LEMMA UlNames ==
    /\ {"start", "seal", "final", "terminal"} \subseteq UlIds /\ UlCallbacks \subseteq UlIds /\ "none" \notin UlIds
    /\ "start" \notin UlCallbacks /\ "seal" \notin UlCallbacks /\ "final" \notin UlCallbacks /\ "terminal" \notin UlCallbacks
  BY UlAssumption DEF UlIds

\* Nothing is recorded and nothing accepted at first.
LEMMA UlInitInv == UlInit => UlInv
  <1> SUFFICES ASSUME UlInit PROVE UlInv
    OBVIOUS
  <1>1. /\ ulRow \in [UlIds -> Event \cup Silent \cup {UlNone}]
        /\ ulLup \in [UlIds -> Event \cup {UlNone}]
        /\ ulTask \in [UlTasks -> UlRequest \cup {UlNone}]
    BY DEF UlInit
  <1>2. RecordedWasAccepted /\ CausesAccepted
    BY DEF UlInit, RecordedWasAccepted, CausesAccepted
  <1> QED BY <1>1, <1>2, UlDistinct DEF UlInit, UlInv

\* A request that enters with its event, whose cause LUP has accepted.
LEMMA UlEnters ==
    ASSUME UlInv, NEW t \in UlTasks, NEW r \in UlRequest, RequestSound(r),
           r.row \in Silent => r.key \in UlCallbacks,
           ulTask' = [ulTask EXCEPT ![t] = r], UNCHANGED <<ulRow, ulLup>>
    PROVE  UlInv'
  <1>1. ulTask' \in [UlTasks -> UlRequest \cup {UlNone}] /\ ulTask'[t] = r
        /\ \A u \in UlTasks : u # t => ulTask'[u] = ulTask[u]
    BY DEF UlInv
  <1>2. \A x : RequestSound(x)' <=> RequestSound(x)
    BY DEF RequestSound, Caused
  <1> QED BY <1>1, <1>2 DEF UlInv, RecordedWasAccepted, CausesAccepted

\* The one event of an ordinary request.
LEMMA UlEntersEvent ==
    ASSUME UlInv, NEW t \in UlTasks, NEW k \in UlIds, NEW e \in Event, Caused(e),
           Enter(t, k, e, <<<<k, e>>>>)
    PROVE  UlInv'
  <1>1. <<<<k, e>>>> \in Seq(UlIds \X Event)
    <2>1. <<k, e>> \in UlIds \X Event
      OBVIOUS
    <2> QED BY <2>1
  <1>2. PICK r \in UlRequest : r = [key |-> k, row |-> e, events |-> <<<<k, e>>>>]
    BY <1>1 DEF UlRequest
  <1>3. RequestSound(r)
    BY <1>2 DEF RequestSound
  <1>4. r.row \notin Silent
    BY <1>2, UlDistinct
  <1> QED BY <1>2, <1>3, <1>4, UlEnters DEF Enter

\* A recorded cause was accepted: the start, an observation or the seal.
LEMMA UlLineageAccepted ==
    ASSUME UlInv, Recorded("start")
    PROVE  /\ \A c \in Lineage : c \in UlIds /\ ulLup[c] # UlNone
           /\ \A c \in FinalLineage : c \in UlIds /\ ulLup[c] # UlNone
  <1>1. \A i \in UlIds : ulRow[i] # UlNone /\ ulRow[i].what # "silent" => ulLup[i] = ulRow[i]
    BY DEF UlInv, RecordedWasAccepted
  <1>2. \A i \in UlIds : ulRow[i] # UlNone /\ i \notin UlCallbacks => ulRow[i].what # "silent"
    BY UlDistinct DEF UlInv
  <1>3. ulLup["start"] # UlNone /\ "start" \in UlIds
    BY <1>1, <1>2, UlNames DEF Recorded
  <1>4. \A c \in Observed : c \in UlIds /\ ulLup[c] # UlNone
    BY <1>1, UlNames, UlDistinct DEF Observed
  <1>5. \A c \in Lineage : c \in UlIds /\ ulLup[c] # UlNone
    BY <1>3, <1>4 DEF Lineage
  <1>6. Recorded("seal") => ulLup["seal"] # UlNone /\ "seal" \in UlIds
    BY <1>1, <1>2, UlNames DEF Recorded
  <1> QED BY <1>5, <1>6 DEF FinalLineage

\* An event made from an accepted cause.
LEMMA UlMakes ==
    ASSUME NEW what \in {"start", "observation", "seal", "complete", "abandon"}, NEW c \in UlIds \cup {"none"},
           NEW v \in UlVariants
    PROVE  Mk(what, c, v) \in Event /\ Mk(what, c, v).cause = c
  BY DEF Mk, Event

\* LUP keeps what it holds and takes in only the event that is published.
LEMMA UlStores ==
    ASSUME UlInv, NEW i \in UlIds, NEW e \in Event, Caused(e), NEW a \in LupAnswers(i, e),
           ulLup' = [ulLup EXCEPT ![i] = a.stored]
    PROVE  /\ ulLup' \in [UlIds -> Event \cup {UlNone}]
           /\ \A j \in UlIds : ulLup[j] # UlNone => ulLup'[j] = ulLup[j]
           /\ Durable(a) => ulLup'[i] = e
           /\ CausesAccepted'
  <1>t. ulLup \in [UlIds -> Event \cup {UlNone}] /\ CausesAccepted
    BY DEF UlInv
  <1>1. \/ a.stored = ulLup[i] /\ ~Durable(a)
        \/ a.stored = e /\ (ulLup[i] = UlNone \/ ulLup[i] = e)
    BY DEF LupAnswers, Durable
  <1>2. a.stored \in Event \cup {UlNone}
    BY <1>1, <1>t
  <1>3. ulLup' \in [UlIds -> Event \cup {UlNone}] /\ ulLup'[i] = a.stored /\ \A j \in UlIds : j # i => ulLup'[j] = ulLup[j]
    BY <1>2, <1>t
  <1>4. \A j \in UlIds : ulLup[j] # UlNone => ulLup'[j] = ulLup[j]
    BY <1>1, <1>3
  <1>5. CausesAccepted'
    <2> SUFFICES ASSUME NEW j \in UlIds, ulLup'[j] # UlNone, ulLup'[j].cause # "none"
                 PROVE  ulLup'[ulLup'[j].cause] # UlNone
      BY DEF CausesAccepted
    <2>1. PICK x \in Event : x = ulLup'[j]
      BY <1>3
    <2>2. x.cause \in UlIds
      BY <2>1, UlDistinct
    <2>3. ulLup[x.cause] # UlNone
      BY <2>1, <1>1, <1>3, <1>t DEF Caused, CausesAccepted
    <2> QED BY <2>1, <2>2, <2>3, <1>4
  <1> QED BY <1>1, <1>3, <1>4, <1>5

\* The invariant when LUP has only taken something in and one request moves.
LEMMA UlMoves ==
    ASSUME UlInv, NEW t \in UlTasks, NEW r \in UlRequest \cup {UlNone},
           ulTask' = [ulTask EXCEPT ![t] = r], UNCHANGED ulRow,
           ulLup' \in [UlIds -> Event \cup {UlNone}],
           \A j \in UlIds : ulLup[j] # UlNone => ulLup'[j] = ulLup[j], CausesAccepted',
           r # UlNone => RequestSound(r)' /\ (r.row \in Silent => r.key \in UlCallbacks)
    PROVE  UlInv'
  <1>1. ulTask' \in [UlTasks -> UlRequest \cup {UlNone}] /\ ulTask'[t] = r
        /\ \A u \in UlTasks : u # t => ulTask'[u] = ulTask[u]
    BY DEF UlInv
  <1>2. ASSUME NEW x \in UlRequest, RequestSound(x) PROVE RequestSound(x)'
    <2>1. \A e : Caused(e) => Caused(e)'
      BY DEF Caused
    <2>2. x.row \in Event /\ ulLup[x.key] = x.row => ulLup'[x.key] = x.row
      BY UlDistinct
    <2> QED BY <1>2, <2>1, <2>2 DEF RequestSound
  <1>3. RecordedWasAccepted'
    BY DEF UlInv, RecordedWasAccepted
  <1> QED BY <1>1, <1>2, <1>3 DEF UlInv

\* The checks of an operation, up to its call of LUP.
LEMMA UlEnterStep ==
    ASSUME UlInv, NEW t \in UlTasks, NEW v \in UlVariants,
           \/ StartTask(t, v) \/ SealToolPhase(t, v)
           \/ Complete(t, v) \/ Abandon(t, v)
           \/ \E c \in UlCallbacks : RecordToolCall(t, c, v)
    PROVE  UlInv'
  <1>1. CASE StartTask(t, v)
    <2>1. PICK e \in Event : e = Mk("start", "none", v) /\ e.cause = "none"
      BY UlMakes
    <2>2. Enter(t, "start", e, <<<<"start", e>>>>)
      BY <1>1, <2>1 DEF StartTask
    <2> QED BY <2>1, <2>2, UlNames, UlEntersEvent DEF Caused
  <1>2. CASE SealToolPhase(t, v)
    <2>1. PICK c \in Lineage : Enter(t, "seal", Mk("seal", c, v), <<<<"seal", Mk("seal", c, v)>>>>)
      BY <1>2 DEF SealToolPhase
    <2>2. c \in UlIds /\ ulLup[c] # UlNone
      BY <1>2, <2>1, UlLineageAccepted DEF SealToolPhase
    <2>3. PICK e \in Event : e = Mk("seal", c, v) /\ e.cause = c
      BY <2>2, UlMakes
    <2> QED BY <2>1, <2>2, <2>3, UlNames, UlEntersEvent DEF Caused
  <1>3. CASE Complete(t, v)
    <2>1. PICK c \in FinalLineage :
             \/ Enter(t, "terminal", Mk("complete", "final", v),
                      <<<<"final", Mk("observation", c, v)>>, <<"terminal", Mk("complete", "final", v)>>>>)
             \/ Enter(t, "terminal", Mk("complete", c, v), <<<<"terminal", Mk("complete", c, v)>>>>)
      BY <1>3 DEF Complete
    <2>2. c \in UlIds /\ ulLup[c] # UlNone
      BY <1>3, <2>1, UlLineageAccepted DEF Complete
    <2>3. PICK e \in Event : e = Mk("complete", c, v) /\ e.cause = c
      BY <2>2, UlMakes
    <2>4. PICK f \in Event : f = Mk("observation", c, v) /\ f.cause = c
      BY <2>2, UlMakes
    <2>5. PICK g \in Event : g = Mk("complete", "final", v) /\ g.cause = "final"
      BY UlNames, UlMakes
    <2>6. CASE Enter(t, "terminal", e, <<<<"terminal", e>>>>)
      BY <2>2, <2>3, <2>6, UlNames, UlEntersEvent DEF Caused
    <2>7. CASE Enter(t, "terminal", g, <<<<"final", f>>, <<"terminal", g>>>>)
      <3>1. <<"final", f>> \in UlIds \X Event /\ <<"terminal", g>> \in UlIds \X Event
        BY UlNames, <2>4, <2>5
      <3>2. <<<<"final", f>>, <<"terminal", g>>>> \in Seq(UlIds \X Event)
        BY <3>1
      <3>3. PICK r \in UlRequest :
               r = [key |-> "terminal", row |-> g, events |-> <<<<"final", f>>, <<"terminal", g>>>>]
        BY <3>2, UlNames, <2>5 DEF UlRequest
      <3>4. RequestSound(r)
        BY <3>3, <2>2, <2>4, <2>5 DEF RequestSound, Caused
      <3>5. r.row \notin Silent
        BY <3>3, <2>5, UlDistinct
      <3> QED BY <3>3, <3>4, <3>5, <2>7, UlEnters DEF Enter
    <2> QED BY <2>1, <2>3, <2>4, <2>5, <2>6, <2>7
  <1>4. CASE Abandon(t, v)
    <2>1. PICK c \in FinalLineage :
             Enter(t, "terminal", Mk("abandon", c, v), <<<<"terminal", Mk("abandon", c, v)>>>>)
      BY <1>4 DEF Abandon
    <2>2. c \in UlIds /\ ulLup[c] # UlNone
      BY <1>4, <2>1, UlLineageAccepted DEF Abandon
    <2>3. PICK e \in Event : e = Mk("abandon", c, v) /\ e.cause = c
      BY <2>2, UlMakes
    <2> QED BY <2>1, <2>2, <2>3, UlNames, UlEntersEvent DEF Caused
  <1>5. ASSUME NEW k \in UlCallbacks, RecordToolCall(t, k, v) PROVE UlInv'
    <2>1. CASE \E c \in Lineage : Enter(t, k, Mk("observation", c, v), <<<<k, Mk("observation", c, v)>>>>)
      <3>1. PICK c \in Lineage : Enter(t, k, Mk("observation", c, v), <<<<k, Mk("observation", c, v)>>>>)
        BY <2>1
      <3>2. c \in UlIds /\ ulLup[c] # UlNone
        BY <1>5, <3>1, UlLineageAccepted DEF RecordToolCall
      <3>3. PICK e \in Event : e = Mk("observation", c, v) /\ e.cause = c
        BY <3>2, UlMakes
      <3> QED BY <3>1, <3>2, <3>3, UlNames, UlEntersEvent DEF Caused
    <2>2. CASE Enter(t, k, [what |-> "silent", variant |-> v], <<>>)
      <3>1. PICK e \in Silent : e = [what |-> "silent", variant |-> v]
        BY DEF Silent
      <3>2. PICK r \in UlRequest : r = [key |-> k, row |-> e, events |-> <<>>]
        <4>1. <<>> \in Seq(UlIds \X Event)
          OBVIOUS
        <4> QED BY <4>1, <3>1, UlNames DEF UlRequest
      <3>3. RequestSound(r)
        BY <3>1, <3>2, UlDistinct DEF RequestSound
      <3> QED BY <3>1, <3>2, <3>3, <2>2, UlEnters DEF Enter
    <2> QED BY <1>5, <2>1, <2>2 DEF RecordToolCall
  <1> QED BY <1>1, <1>2, <1>3, <1>4, <1>5

\* The next event of a request, and what remains when LUP has accepted it.
LEMMA UlNextEvent ==
    ASSUME UlInv, NEW t \in UlTasks, NEW r \in UlRequest, r = ulTask[t], r.events # <<>>
    PROVE  /\ Head(r.events)[1] \in UlIds /\ Head(r.events)[2] \in Event /\ Caused(Head(r.events)[2])
           /\ r.row \in Event
           /\ \/ Head(r.events)[1] = r.key /\ Head(r.events)[2] = r.row /\ Tail(r.events) = <<>>
              \/ /\ Head(r.events)[1] = "final" /\ Tail(r.events) = <<<<r.key, r.row>>>>
                 /\ r.row.cause = "final"
  <1>1. RequestSound(r) /\ r # UlNone
    BY UlDistinct DEF UlInv
  <1>2. CASE r.events = <<<<r.key, r.row>>>> /\ r.row \in Event /\ Caused(r.row)
    BY <1>2, UlDistinct
  <1>3. ASSUME NEW f \in Event, r.events = <<<<"final", f>>, <<"terminal", r.row>>>>, r.key = "terminal",
               r.row \in Event, r.row.cause = "final", Caused(f)
        PROVE  /\ Head(r.events) = <<"final", f>> /\ Tail(r.events) = <<<<r.key, r.row>>>>
    BY <1>3
  <1> QED BY <1>1, <1>2, <1>3, UlNames DEF RequestSound

\* Publishing, inserting and crashing.
LEMMA UlProgressStep ==
    ASSUME UlInv, NEW t \in UlTasks, UlPublish(t) \/ UlInsert(t) \/ UlCrash(t)
    PROVE  UlInv'
  <1>r. PICK r \in UlRequest : r = ulTask[t] /\ r # UlNone
    BY UlDistinct DEF UlInv, UlPublish, UlInsert, UlCrash, Busy
  <1>k. r.key \in UlIds /\ r.row \in Event \cup Silent /\ (r.row \in Silent => r.key \in UlCallbacks)
    BY <1>r, UlDistinct DEF UlInv
  <1>1. CASE UlPublish(t)
    <2>1. PICK i \in UlIds, e \in Event : i = Head(r.events)[1] /\ e = Head(r.events)[2] /\ Caused(e)
      BY <1>1, <1>r, UlNextEvent DEF UlPublish
    <2>2. PICK a \in LupAnswers(i, e) :
              /\ ulLup' = [ulLup EXCEPT ![i] = a.stored]
              /\ IF Durable(a) THEN ulTask' = [ulTask EXCEPT ![t].events = Tail(@)] ELSE UlDrop(t)
      BY <1>1, <1>r, <2>1 DEF UlPublish, Next1
    <2>3. /\ ulLup' \in [UlIds -> Event \cup {UlNone}]
          /\ \A j \in UlIds : ulLup[j] # UlNone => ulLup'[j] = ulLup[j]
          /\ Durable(a) => ulLup'[i] = e
          /\ CausesAccepted'
      BY <2>1, <2>2, UlStores
    <2>4. CASE Durable(a)
      <3>1. PICK q : q = [r EXCEPT !.events = Tail(r.events)]
        OBVIOUS
      <3>2. q \in UlRequest /\ q.key = r.key /\ q.row = r.row /\ q.events = Tail(r.events)
        <4>1. Tail(r.events) = <<>> \/ (Tail(r.events) = <<<<r.key, r.row>>>> /\ r.row \in Event)
          BY <1>1, <1>r, UlNextEvent DEF UlPublish
        <4>2. PICK rest \in Seq(UlIds \X Event) : rest = Tail(r.events)
          <5>1. <<>> \in Seq(UlIds \X Event)
            OBVIOUS
          <5>2. ASSUME r.row \in Event PROVE <<<<r.key, r.row>>>> \in Seq(UlIds \X Event)
            <6>1. <<r.key, r.row>> \in UlIds \X Event
              BY <5>2, <1>k
            <6> QED BY <6>1
          <5> QED BY <4>1, <5>1, <5>2
        <4> QED BY <3>1, <4>2 DEF UlRequest
      <3>3. ulTask' = [ulTask EXCEPT ![t] = q]
        BY <3>1, <2>2, <2>4, <1>r
      <3>4. \/ i = r.key /\ e = r.row /\ Tail(r.events) = <<>>
            \/ i = "final" /\ Tail(r.events) = <<<<r.key, r.row>>>> /\ r.row.cause = "final" /\ r.row \in Event
        BY <2>1, <1>r, <1>1, UlNextEvent DEF UlPublish
      <3>5. RequestSound(q)'
        <4>1. CASE i = r.key /\ e = r.row /\ Tail(r.events) = <<>>
          BY <4>1, <3>2, <2>3, <2>4 DEF RequestSound
        <4>2. CASE i = "final" /\ Tail(r.events) = <<<<r.key, r.row>>>> /\ r.row.cause = "final" /\ r.row \in Event
          <5>1. Caused(q.row)'
            BY <4>2, <3>2, <2>1, <2>3, <2>4, UlNames, UlDistinct DEF Caused
          <5> QED BY <5>1, <4>2, <3>2 DEF RequestSound
        <4> QED BY <3>4, <4>1, <4>2
      <3> QED BY <3>2, <3>3, <3>5, <2>3, <1>k, <1>1, UlMoves DEF UlPublish
    <2>5. CASE ~Durable(a)
      BY <2>5, <2>2, <2>3, <1>1, UlMoves DEF UlPublish, UlDrop
    <2> QED BY <2>4, <2>5
  <1>2. CASE UlInsert(t)
    <2>1. ulTask' \in [UlTasks -> UlRequest \cup {UlNone}] /\ ulTask'[t] = UlNone
          /\ \A u \in UlTasks : u # t => ulTask'[u] = ulTask[u]
      BY <1>2 DEF UlInv, UlInsert, UlDrop
    <2>2. ulRow' \in [UlIds -> Event \cup Silent \cup {UlNone}]
          /\ \A j \in UlIds : ulRow'[j] = ulRow[j] \/ (j = r.key /\ ulRow'[j] = r.row)
      BY <1>2, <1>r, <1>k DEF UlInv, UlInsert
    <2>3. r.row \in Event => ulLup[r.key] = r.row
      <3>1. RequestSound(r) /\ r.events = <<>>
        BY <1>r, <1>2 DEF UlInv, UlInsert
      <3>2. r.events # <<<<r.key, r.row>>>> /\ \A f : r.events # <<<<"final", f>>, <<"terminal", r.row>>>>
        BY <3>1
      <3> QED BY <3>1, <3>2 DEF RequestSound
    <2>4. RecordedWasAccepted'
      BY <2>2, <2>3, <1>k, <1>2, UlDistinct DEF UlInv, RecordedWasAccepted, UlInsert
    <2>5. \A x : RequestSound(x)' <=> RequestSound(x)
      BY <1>2 DEF RequestSound, Caused, UlInsert
    <2>6. \A i \in UlIds : ulRow'[i] \in Silent => i \in UlCallbacks
      BY <2>2, <1>k DEF UlInv
    <2> QED BY <2>1, <2>2, <2>4, <2>5, <2>6, <1>2 DEF UlInv, UlInsert, CausesAccepted
  <1>3. CASE UlCrash(t)
    <2>1. CASE r.events = <<>>
      BY <2>1, <1>r, <1>3, UlMoves DEF UlCrash, UlDrop, UlInv, CausesAccepted
    <2>2. CASE r.events # <<>>
      <3>1. PICK i \in UlIds, e \in Event : i = Head(r.events)[1] /\ e = Head(r.events)[2] /\ Caused(e)
        BY <2>2, <1>r, UlNextEvent
      <3>2. PICK a \in LupAnswers(i, e) : ulLup' = [ulLup EXCEPT ![i] = a.stored]
        BY <1>3, <1>r, <2>2, <3>1 DEF UlCrash, Next1
      <3>3. /\ ulLup' \in [UlIds -> Event \cup {UlNone}]
            /\ \A j \in UlIds : ulLup[j] # UlNone => ulLup'[j] = ulLup[j]
            /\ CausesAccepted'
        BY <3>1, <3>2, UlStores
      <3> QED BY <3>3, <1>3, UlMoves DEF UlCrash, UlDrop
    <2> QED BY <2>1, <2>2
  <1> QED BY <1>1, <1>2, <1>3

\* Every step of a request keeps the invariant.
LEMMA UlStepInv == UlInv /\ [UlNext]_ulVars => UlInv'
  <1> SUFFICES ASSUME UlInv, [UlNext]_ulVars PROVE UlInv'
    OBVIOUS
  <1>1. CASE UNCHANGED ulVars
    <2>1. \A x : RequestSound(x)' <=> RequestSound(x)
      BY <1>1 DEF RequestSound, Caused, ulVars
    <2> QED BY <1>1, <2>1 DEF UlInv, ulVars, RecordedWasAccepted, CausesAccepted
  <1>2. CASE UlNext
    BY <1>2, UlEnterStep, UlProgressStep DEF UlNext
  <1> QED BY <1>1, <1>2

\* The invariant has the types the runs check.
LEMMA UlInvTypes == UlInv => UlTypeOK
  BY DEF UlInv, UlTypeOK, Busy

(* For any callbacks, request bodies and concurrent requests: what the      *)
(* gateway has recorded of a task LUP has accepted under the same id, and   *)
(* LUP holds no event before its cause, although row and event are written  *)
(* by different systems and requests repeat, race and crash.                *)
THEOREM UsageCorrect == UlSpec => []UsageSound
  <1>1. UlInv => UsageSound
    BY DEF UlInv, UsageSound
  <1> QED BY <1>1, UlInitInv, UlStepInv, PTL DEF UlSpec

-----------------------------------------------------------------------------
(* The traffic log (McpTraffic)                                            *)

\* What a flusher holds: the rows of its batch and what became of them.
TrBatchType == UNION {[B -> Results] : B \in SUBSET TrCalls}

\* The rows a flusher holds stay pending until it commits, and a delivery it
\* counts as done has been stored.
TrHeldPending ==
    \A f \in TrFlushers : \A c \in DOMAIN trBatch[f] :
        /\ trRow[c].status = "pending"
        /\ trBatch[f][c] = "ok" => trStored[c] = 1

\* A row that may still be delivered has attempts left.
TrAttemptsLeft ==
    \A c \in TrCalls : trRow[c].status \in {"none", "pending"} => trRow[c].attempts < TrAttempts

TrInv ==
    /\ trRow \in [TrCalls -> TrRow] /\ trWaits \subseteq TrCalls
    /\ trStored \in [TrCalls -> 0 .. 1] /\ trStops \in 0 .. MaxTrStops
    /\ trBatch \in [TrFlushers -> TrBatchType]
    /\ TrHeldPending /\ TrAttemptsLeft /\ DeliveredWasStored /\ OneFlusherPerCall

\* A batch is a function on some of the calls.
LEMMA TrBatchFields ==
    /\ \A b \in TrBatchType : DOMAIN b \subseteq TrCalls /\ \A c \in DOMAIN b : b[c] \in Results
    /\ \A B \in SUBSET TrCalls : [c \in B |-> "none"] \in TrBatchType
    /\ [c \in {} |-> "none"] \in TrBatchType /\ DOMAIN [c \in {} |-> "none"] = {}
  <1>1. "none" \in Results
    BY DEF Results
  <1>2. \A b \in TrBatchType : DOMAIN b \subseteq TrCalls /\ \A c \in DOMAIN b : b[c] \in Results
    BY DEF TrBatchType
  <1>3. ASSUME NEW B \in SUBSET TrCalls PROVE [c \in B |-> "none"] \in TrBatchType
    <2>1. [c \in B |-> "none"] \in [B -> Results]
      BY <1>1
    <2> QED BY <2>1 DEF TrBatchType
  <1> QED BY <1>2, <1>3

\* The result of one delivery is put beside the others of the batch.
LEMMA TrBatchResult ==
    ASSUME NEW b \in TrBatchType, NEW c \in DOMAIN b, NEW r \in Results
    PROVE  [b EXCEPT ![c] = r] \in TrBatchType
  <1>1. PICK B \in SUBSET TrCalls : b \in [B -> Results]
    BY DEF TrBatchType
  <1>2. [b EXCEPT ![c] = r] \in [B -> Results]
    BY <1>1
  <1> QED BY <1>2 DEF TrBatchType

\* Nothing is recorded and no batch taken at first.
LEMMA TrInitInv == TrInit => TrInv
  <1> SUFFICES ASSUME TrInit PROVE TrInv
    OBVIOUS
  <1>1. trBatch \in [TrFlushers -> TrBatchType] /\ \A f \in TrFlushers : DOMAIN trBatch[f] = {}
    BY TrBatchFields DEF TrInit
  <1>2. trRow \in [TrCalls -> TrRow] /\ trStored \in [TrCalls -> 0..1] /\ trStops \in 0..MaxTrStops
    BY TrAssumption DEF TrInit, TrRow
  <1>3. TrHeldPending /\ OneFlusherPerCall
    BY <1>1 DEF TrHeldPending, OneFlusherPerCall
  <1>4. TrAttemptsLeft /\ DeliveredWasStored
    BY TrAssumption DEF TrInit, TrAttemptsLeft, DeliveredWasStored
  <1> QED BY <1>1, <1>2, <1>3, <1>4 DEF TrInv, TrInit

\* Every step of recording, of a flusher and of the timer keeps the invariant.
LEMMA TrStepInv == TrInv /\ [TrNext]_trVars => TrInv'
  <1> SUFFICES ASSUME TrInv, [TrNext]_trVars PROVE TrInv'
    OBVIOUS
  <1>t. /\ trRow \in [TrCalls -> TrRow] /\ trWaits \subseteq TrCalls
        /\ trStored \in [TrCalls -> 0 .. 1] /\ trStops \in 0 .. MaxTrStops
        /\ trBatch \in [TrFlushers -> TrBatchType]
    BY DEF TrInv
  <1>0. TrHeldPending /\ TrAttemptsLeft /\ DeliveredWasStored /\ OneFlusherPerCall
    BY DEF TrInv
  <1>n. MaxTrStops \in Nat /\ TrAttempts \in Nat \ {0}
    BY TrAssumption
  <1>d. \A f \in TrFlushers : DOMAIN trBatch[f] \subseteq TrCalls
    BY <1>t, TrBatchFields
  <1>u. CASE UNCHANGED trVars
    BY <1>t, <1>0, <1>u DEF trVars, TrInv, TrHeldPending, TrAttemptsLeft, DeliveredWasStored, OneFlusherPerCall
  \* A batch given up, or a smaller set of held rows.
  <1>g. ASSUME NEW f \in TrFlushers, trBatch' = [trBatch EXCEPT ![f] = [c \in {} |-> "none"]]
        PROVE  /\ trBatch' \in [TrFlushers -> TrBatchType] /\ DOMAIN trBatch'[f] = {}
               /\ \A g \in TrFlushers : g # f => trBatch'[g] = trBatch[g]
               /\ OneFlusherPerCall'
    <2>1. PICK e \in TrBatchType : e = [c \in {} |-> "none"] /\ DOMAIN e = {}
      BY TrBatchFields
    <2>2. trBatch' \in [TrFlushers -> TrBatchType] /\ DOMAIN trBatch'[f] = {}
               /\ \A g \in TrFlushers : g # f => trBatch'[g] = trBatch[g]
      BY <2>1, <1>g, <1>t
    <2> QED BY <2>2, <1>0 DEF OneFlusherPerCall
  <1>1. ASSUME NEW c \in TrCalls, RecordExchange(c)
        PROVE  TrInv'
    <2> USE <1>1 DEF RecordExchange
    <2>1. trRow' \in [TrCalls -> TrRow] /\ trRow'[c].status = "pending" /\ trRow'[c].attempts = trRow[c].attempts
          /\ \A d \in TrCalls : d # c => trRow'[d] = trRow[d]
      BY <1>t DEF TrRow
    <2>2. \A f \in TrFlushers : c \notin DOMAIN trBatch[f]
      BY <1>0 DEF TrHeldPending
    <2>3. TrHeldPending'
      BY <2>1, <2>2, <1>0, <1>d DEF TrHeldPending
    <2>4. TrAttemptsLeft'
      BY <2>1, <1>0 DEF TrAttemptsLeft
    <2>5. DeliveredWasStored'
      BY <2>1, <1>0 DEF DeliveredWasStored
    <2> QED BY <2>1, <2>3, <2>4, <2>5, <1>t, <1>0 DEF TrInv, OneFlusherPerCall
  <1>2. ASSUME NEW c \in TrCalls, DelayEnds(c)
        PROVE  TrInv'
    BY <1>2, <1>t, <1>0 DEF DelayEnds, TrInv, TrHeldPending, TrAttemptsLeft, DeliveredWasStored, OneFlusherPerCall
  <1>3. ASSUME NEW f \in TrFlushers, FlushRead(f)
        PROVE  TrInv'
    <2>1. PICK B \in SUBSET Takeable : trBatch' = [trBatch EXCEPT ![f] = [c \in B |-> "none"]]
      BY <1>3 DEF FlushRead
    <2>2. B \in SUBSET TrCalls /\ \A c \in B : trRow[c].status = "pending" /\ \A g \in TrFlushers : c \notin DOMAIN trBatch[g]
      BY <2>1 DEF Takeable, Due, Held
    <2>3. PICK b \in TrBatchType : b = [c \in B |-> "none"] /\ DOMAIN b = B /\ \A c \in B : b[c] = "none"
      BY <2>2, TrBatchFields
    <2>4. trBatch' \in [TrFlushers -> TrBatchType] /\ trBatch'[f] = b
          /\ \A g \in TrFlushers : g # f => trBatch'[g] = trBatch[g]
      BY <2>1, <2>3, <1>t
    <2>5. TrHeldPending'
      BY <2>2, <2>3, <2>4, <1>0, <1>3 DEF TrHeldPending, FlushRead
    <2>6. OneFlusherPerCall'
      BY <2>2, <2>3, <2>4, <1>0 DEF OneFlusherPerCall
    <2> QED BY <2>4, <2>5, <2>6, <1>t, <1>0, <1>3 DEF FlushRead, TrInv, TrAttemptsLeft, DeliveredWasStored
  <1>4. ASSUME NEW f \in TrFlushers, FlushCommit(f)
        PROVE  TrInv'
    <2>b. PICK b \in TrBatchType : b = trBatch[f]
      BY <1>t
    <2>f. DOMAIN b \subseteq TrCalls /\ \A c \in DOMAIN b : b[c] \in Results
      BY TrBatchFields
    <2>1. trRow' = [c \in TrCalls |-> IF c \in DOMAIN b THEN AfterResult(trRow[c], b[c]) ELSE trRow[c]]
      BY <1>4, <2>b DEF FlushCommit
    <2>2. ASSUME NEW c \in DOMAIN b
          PROVE  /\ trRow'[c] \in TrRow /\ (trRow'[c].status = "pending" => trRow'[c].attempts < TrAttempts)
                 /\ trRow'[c].status # "none" /\ (trRow'[c].status = "delivered" => b[c] = "ok")
                 /\ trRow'[c].status = "dead_letter" => trRow'[c].attempts = TrAttempts
      <3>1. trRow[c] \in TrRow /\ trRow[c].attempts < TrAttempts /\ c \in TrCalls
        BY <2>f, <2>b, <1>t, <1>0 DEF TrHeldPending, TrAttemptsLeft
      <3>2. PICK n \in 1..TrAttempts : n = trRow[c].attempts + 1
        BY <3>1, <1>n DEF TrRow
      <3>3. trRow'[c] = IF b[c] = "ok" THEN [status |-> "delivered", attempts |-> n]
                        ELSE [status |-> IF n >= TrAttempts THEN "dead_letter" ELSE "pending", attempts |-> n]
        BY <2>1, <3>1, <3>2 DEF AfterResult, AfterFailure
      <3> QED BY <3>2, <3>3, <1>n DEF TrRow
    <2>3. \A c \in TrCalls : c \notin DOMAIN b => trRow'[c] = trRow[c]
      BY <2>1
    <2>4. trRow' \in [TrCalls -> TrRow]
      BY <2>1, <2>2, <2>3, <1>t
    <2>5. trWaits' \subseteq TrCalls
      BY <1>4, <2>f, <2>b, <1>t DEF FlushCommit
    <2>6. /\ trBatch' \in [TrFlushers -> TrBatchType] /\ DOMAIN trBatch'[f] = {}
          /\ \A g \in TrFlushers : g # f => trBatch'[g] = trBatch[g]
          /\ OneFlusherPerCall'
      BY <1>4, <1>g DEF FlushCommit
    <2>7. \A g \in TrFlushers : g # f => DOMAIN trBatch[g] \cap DOMAIN b = {}
      BY <2>b, <1>0 DEF OneFlusherPerCall
    <2>8. TrHeldPending'
      BY <2>6, <2>7, <2>3, <1>0, <1>d, <1>4 DEF TrHeldPending, FlushCommit
    <2>9. TrAttemptsLeft'
      BY <2>2, <2>3, <1>0 DEF TrAttemptsLeft
    <2>10. DeliveredWasStored'
      BY <2>2, <2>3, <2>b, <1>0, <1>4 DEF DeliveredWasStored, TrHeldPending, FlushCommit
    <2> QED BY <2>4, <2>5, <2>6, <2>8, <2>9, <2>10, <1>t, <1>4 DEF TrInv, FlushCommit
  <1>5. ASSUME NEW f \in TrFlushers, FlushLost(f)
        PROVE  TrInv'
    <2>1. /\ trBatch' \in [TrFlushers -> TrBatchType] /\ DOMAIN trBatch'[f] = {}
          /\ \A g \in TrFlushers : g # f => trBatch'[g] = trBatch[g]
          /\ OneFlusherPerCall'
      BY <1>5, <1>g DEF FlushLost
    <2>2. trStops' \in 0..MaxTrStops
      BY <1>5, <1>t, <1>n DEF FlushLost
    <2>3. TrHeldPending'
      BY <2>1, <1>0, <1>5 DEF TrHeldPending, FlushLost
    <2> QED BY <2>1, <2>2, <2>3, <1>t, <1>0, <1>5 DEF FlushLost, TrInv, TrAttemptsLeft, DeliveredWasStored
  <1>6. ASSUME NEW f \in TrFlushers, NEW c \in TrCalls, Deliver(f, c)
        PROVE  TrInv'
    <2>1. PICK r \in {"ok", "failed"}, reached \in BOOLEAN :
              /\ r = "ok" => reached
              /\ trBatch' = [trBatch EXCEPT ![f][c] = r]
              /\ trStored' = [trStored EXCEPT ![c] = IF reached THEN 1 ELSE @]
      BY <1>6 DEF Deliver
    <2>2. PICK b \in TrBatchType : b = [trBatch[f] EXCEPT ![c] = r]
      BY <1>6, <2>1, <1>t, TrBatchResult DEF Deliver, Results
    <2>3. trBatch' \in [TrFlushers -> TrBatchType] /\ trBatch'[f] = b
          /\ \A g \in TrFlushers : g # f => trBatch'[g] = trBatch[g]
      BY <2>1, <2>2, <1>t
    <2>4. DOMAIN b = DOMAIN trBatch[f] /\ b[c] = r /\ \A d \in DOMAIN b : d # c => b[d] = trBatch[f][d]
      BY <2>2, <1>6 DEF Deliver
    <2>5. trStored' \in [TrCalls -> 0..1] /\ (r = "ok" => trStored'[c] = 1)
          /\ \A d \in TrCalls : trStored[d] = 1 => trStored'[d] = 1
      BY <2>1, <1>t
    <2>6. TrHeldPending'
      BY <2>3, <2>4, <2>5, <1>0, <1>d, <1>6 DEF TrHeldPending, Deliver
    <2>7. OneFlusherPerCall'
      BY <2>3, <2>4, <1>0 DEF OneFlusherPerCall
    <2>8. DeliveredWasStored'
      BY <2>5, <1>0, <1>6 DEF DeliveredWasStored, Deliver
    <2> QED BY <2>3, <2>5, <2>6, <2>7, <2>8, <1>t, <1>0, <1>6 DEF TrInv, Deliver, TrAttemptsLeft
  <1> QED BY <1>u, <1>1, <1>2, <1>3, <1>4, <1>5, <1>6 DEF TrNext

\* The invariant has the types the runs check.
LEMMA TrInvTypes == TrInv => TrTypeOK
  BY TrBatchFields DEF TrInv, TrTypeOK

(* For any calls, replicas, limits and attempts: an estimate that counts as *)
(* delivered was stored by LUP, a dead letter had all its attempts, and no  *)
(* two flushers work on one row (flush_pending).                            *)
THEOREM TrafficCorrect == TrSpec => []TrafficSound
  <1>1. TrInv => TrafficSound
    BY DEF TrInv, TrafficSound
  <1> QED BY <1>1, TrInitInv, TrStepInv, PTL DEF TrSpec

-----------------------------------------------------------------------------
(* The cold history of the outbox (ColdHistory)                            *)

\* The types in full: batches, and what a run, a request and a reader carry.
ChBatch == [stage : {"events", "manifest"}, rows : UNION {[S -> ChRow] : S \in SUBSET ChEvents}]
ChRunState == [stage : {"idle", "done"}]
              \cup [stage : {"bound", "committed"}, batch : ChBatches]
              \cup [stage : {"deleting"}, batch : ChBatches, locked : SUBSET ChEvents]
ChAdminState == [op : {"idle"}]
                \cup [op : {"rehydrate"}, event : ChEvents, row : ChRow]
                \cup [op : {"replay"}, event : ChEvents, replays : 0 .. (MaxReplays - 1)]
ChReaderState == [op : {"idle", "found", "missing"}] \cup [op : {"cold"}, event : ChEvents]
ChEvidenceRow == {NoEvidence} \cup [status : {"prepared", "offloaded", "reconciled"}, audit : ChRuns]

ChTypes ==
    /\ chHot \in [ChEvents -> ChRow \cup {ChNone}]
    /\ chLatest \in [ChEvents -> ChRow]
    /\ chFile \in [ChBatches -> {NoBatch} \cup ChBatch]
    /\ chStore \in [ChBatches -> {NoBatch} \cup ChBatch]
    /\ chAudits \in [ChBatches -> SUBSET ChRuns]
    /\ chEvidence \in [ChBatches -> ChEvidenceRow]
    /\ chRun \in [ChRuns -> ChRunState]
    /\ chAdmin \in [ChAdmins -> ChAdminState]
    /\ chReader \in [ChReaders -> ChReaderState]

\* What a run of the offload script relies on between its steps: the store
\* holds the batch; while it deletes, the rows it has locked are still as the
\* file has them and nobody has offloaded the batch; after its commit, the
\* audit is there.
RunHolds(o) ==
    LET b == chRun[o].batch
    IN  /\ chRun[o].stage \in {"bound", "deleting", "committed"} =>
              chFile[b].stage = "manifest" /\ chStore[b] = chFile[b]
        /\ chRun[o].stage = "committed" => o \in chAudits[b]
        /\ chRun[o].stage = "deleting" =>
              /\ chRun[o].locked = DOMAIN chFile[b].rows /\ chRun[o].locked # {}
              /\ \A e \in chRun[o].locked : chHot[e] = chFile[b].rows[e]
              /\ chAudits[b] = {}

ChRunsHold == \A o \in ChRuns : RunHolds(o)

LocksDisjoint ==
    \A o, p \in ChRuns :
        o # p /\ chRun[o].stage = "deleting" /\ chRun[p].stage = "deleting" =>
            chRun[o].locked \cap chRun[p].locked = {}

AuditsAtMostOne == \A b \in ChBatches : chAudits[b] = {} \/ \E o \in ChRuns : chAudits[b] = {o}

InStore(b, e) == chStore[b] # NoBatch /\ e \in DOMAIN chStore[b].rows

\* A reader that missed the hot row will find the event in the store.
ColdReadersFind ==
    \A g \in ChReaders : /\ chReader[g].op # "missing"
                         /\ chReader[g].op = "cold" =>
                               \E b \in ChBatches : InStore(b, chReader[g].event)

ChInv ==
    /\ ChTypes /\ ChRunsHold /\ LocksDisjoint /\ AuditsAtMostOne
    /\ EvidenceNamesAudit /\ NothingLost /\ ColdReadersFind

--------------------------------------------------------------------------
\* A row is never the missing row, a batch never the missing batch.
LEMMA ChDistinct ==
    /\ ChNone \notin ChRow /\ NoBatch \notin ChBatch
    /\ \A b \in ChBatch : b # NoBatch /\ b.stage \in {"events", "manifest"}
                          /\ DOMAIN b.rows \subseteq ChEvents /\ \A e \in DOMAIN b.rows : b.rows[e] \in ChRow
    /\ NoBatch.stage = "none" /\ ChNone.terminal = FALSE
    /\ ChFirst \in ChRow
  <1>1. ChNone \notin ChRow
    <2> SUFFICES ASSUME ChNone \in ChRow PROVE FALSE
      OBVIOUS
    <2>1. "replays" \in DOMAIN ChNone
      BY DEF ChRow
    <2> QED BY <2>1 DEF ChNone
  <1>2. \A b \in ChBatch : b.stage \in {"events", "manifest"}
                          /\ DOMAIN b.rows \subseteq ChEvents /\ \A e \in DOMAIN b.rows : b.rows[e] \in ChRow
    BY DEF ChBatch
  <1>3. NoBatch.stage = "none" /\ ChNone.terminal = FALSE
    BY DEF NoBatch, ChNone
  <1>4. ChFirst \in ChRow
    BY ChAssumption DEF ChFirst, ChRow
  <1> QED BY <1>1, <1>2, <1>3, <1>4

\* What a run carries, by its stage.
LEMMA ChRunFields ==
    ASSUME NEW r \in ChRunState
    PROVE  /\ r.stage \in {"bound", "deleting", "committed"} => r.batch \in ChBatches
           /\ r.stage = "deleting" => r.locked \in SUBSET ChEvents
           /\ r.stage \in {"idle", "bound", "deleting", "committed", "done"}
  BY DEF ChRunState

\* What a request of an administrator carries.
LEMMA ChAdminFields ==
    ASSUME NEW r \in ChAdminState
    PROVE  /\ r.op = "rehydrate" => r.event \in ChEvents /\ r.row \in ChRow
           /\ r.op = "replay" => r.event \in ChEvents /\ r.replays \in 0 .. (MaxReplays - 1)
  BY DEF ChAdminState

\* Everything is in the hot table at first.
LEMMA ChInitInv == ChInit => ChInv
  <1> SUFFICES ASSUME ChInit PROVE ChInv
    OBVIOUS
  <1>1. ChTypes
    <2>1. [stage |-> "idle"] \in ChRunState /\ [op |-> "idle"] \in ChAdminState /\ [op |-> "idle"] \in ChReaderState
          /\ NoEvidence \in ChEvidenceRow
      BY DEF ChRunState, ChAdminState, ChReaderState, ChEvidenceRow
    <2> QED BY <2>1, ChDistinct DEF ChInit, ChTypes
  <1>2. \A o \in ChRuns : chRun[o].stage = "idle"
    BY DEF ChInit
  <1>3. ChRunsHold /\ LocksDisjoint
    BY <1>2 DEF ChRunsHold, RunHolds, LocksDisjoint
  <1>4. AuditsAtMostOne /\ EvidenceNamesAudit /\ NothingLost /\ ColdReadersFind
    BY DEF ChInit, AuditsAtMostOne, EvidenceNamesAudit, NothingLost, ColdReadersFind, NoEvidence
  <1> QED BY <1>1, <1>3, <1>4 DEF ChInv

\* Batches of the store, manifests and audits are never taken away.
ChKept ==
    /\ \A b \in ChBatches : chStore[b] # NoBatch => chStore'[b] = chStore[b]
    /\ \A b \in ChBatches : chFile[b].stage = "manifest" => chFile'[b] = chFile[b]
    /\ \A b \in ChBatches : chAudits[b] \subseteq chAudits'[b]

\* Where the store and the audits are kept and the readers do not move, the
\* readers still find their event.
LEMMA ChReadersKept ==
    ASSUME ChInv, ChKept, chReader' = chReader
    PROVE  ColdReadersFind'
  BY DEF ChInv, ChKept, ColdReadersFind, InStore

\* An event whose row and latest content stay is not lost.
LEMMA ChEventKept ==
    ASSUME ChInv, ChKept, NEW e \in ChEvents, chLatest'[e] = chLatest[e],
           chHot'[e] = chHot[e] \/ chHot[e] # chLatest[e]
    PROVE  \/ chHot'[e] = chLatest'[e]
           \/ \E b \in ChBatches : /\ chAudits'[b] # {} /\ chStore'[b] # NoBatch
                                   /\ e \in DOMAIN chStore'[b].rows
                                   /\ chStore'[b].rows[e] = chLatest'[e]
  <1>1. CASE chHot[e] = chLatest[e]
    BY <1>1
  <1>2. CASE chHot[e] # chLatest[e]
    <2>1. PICK b \in ChBatches : /\ chAudits[b] # {} /\ chStore[b] # NoBatch
                                 /\ e \in DOMAIN chStore[b].rows
                                 /\ chStore[b].rows[e] = chLatest[e]
      BY <1>2 DEF ChInv, NothingLost
    <2>2. chAudits'[b] # {} /\ chStore'[b] = chStore[b]
      BY <2>1 DEF ChKept
    <2> QED BY <2>1, <2>2
  <1> QED BY <1>1, <1>2

\* A run that does not move keeps what it holds if batches are kept, nobody
\* else audits a batch that is being deleted, and locked rows are left alone.
LEMMA ChRunKept ==
    ASSUME ChInv, ChKept, NEW o \in ChRuns, chRun'[o] = chRun[o],
           chRun[o].stage = "deleting" =>
              /\ \A e \in chRun[o].locked : chHot'[e] = chHot[e]
              /\ chAudits'[chRun[o].batch] = chAudits[chRun[o].batch]
    PROVE  RunHolds(o)'
  <1>r. PICK r \in ChRunState : r = chRun[o]
    BY DEF ChInv, ChTypes
  <1>1. CASE r.stage \notin {"bound", "deleting", "committed"}
    BY <1>r, <1>1 DEF RunHolds
  <1>2. CASE r.stage \in {"bound", "deleting", "committed"}
    <2>1. PICK b \in ChBatches : b = r.batch
      BY <1>2, ChRunFields
    <2>2. chFile[b].stage = "manifest" /\ chStore[b] = chFile[b]
      BY <1>2, <1>r, <2>1 DEF ChInv, ChRunsHold, RunHolds
    <2>3. chFile[b] # NoBatch
      BY <2>2, ChDistinct
    <2>4. chFile'[b] = chFile[b] /\ chStore'[b] = chStore[b] /\ chAudits[b] \subseteq chAudits'[b]
      BY <2>2, <2>3 DEF ChKept
    <2>5. r.stage = "committed" => o \in chAudits'[b]
      BY <2>4, <1>r, <2>1 DEF ChInv, ChRunsHold, RunHolds
    <2>6. r.stage = "deleting" => /\ r.locked = DOMAIN chFile'[b].rows /\ r.locked # {}
                                  /\ \A e \in r.locked : chHot'[e] = chFile'[b].rows[e]
                                  /\ chAudits'[b] = {}
      BY <2>4, <1>r, <2>1 DEF ChInv, ChRunsHold, RunHolds
    <2> QED BY <1>r, <2>1, <2>2, <2>4, <2>5, <2>6 DEF RunHolds
  <1> QED BY <1>1, <1>2

\* A step that leaves the hot rows, the runs and the audits alone.
LEMMA ChQuiet ==
    ASSUME ChInv, ChTypes', ChKept,
           UNCHANGED <<chHot, chAudits, chEvidence, chRun, chLatest>>, ColdReadersFind'
    PROVE  ChInv'
  <1>1. ChRunsHold'
    BY ChRunKept DEF ChRunsHold
  <1>2. NothingLost'
    BY ChEventKept DEF NothingLost
  <1> QED BY <1>1, <1>2 DEF ChInv, LocksDisjoint, AuditsAtMostOne, EvidenceNamesAudit

\* Export and upload: files are only added, and the store takes a manifest.
LEMMA ChFilesStep ==
    ASSUME ChInv, NEW b \in ChBatches, ExportEvents(b) \/ ExportAttempts(b) \/ Upload(b)
    PROVE  ChInv'
  <1>t. ChTypes
    BY DEF ChInv
  <1>1. CASE ExportEvents(b)
    <2>1. PICK S \in SUBSET {e \in ChEvents : chHot[e].terminal} :
              chFile' = [chFile EXCEPT ![b] = [stage |-> "events", rows |-> [e \in S |-> chHot[e]]]]
      BY <1>1 DEF ExportEvents
    <2>2. \A e \in S : e \in ChEvents /\ chHot[e] \in ChRow
      BY <1>t, ChDistinct DEF ChTypes
    <2>3. PICK f \in [S -> ChRow] : f = [e \in S |-> chHot[e]]
      BY <2>2
    <2>4. PICK batch \in ChBatch : batch = [stage |-> "events", rows |-> f]
      BY <2>2 DEF ChBatch
    <2>5. chFile' = [chFile EXCEPT ![b] = batch]
      BY <2>1, <2>3, <2>4
    <2>6. chFile' \in [ChBatches -> {NoBatch} \cup ChBatch] /\ \A c \in ChBatches : c # b => chFile'[c] = chFile[c]
      BY <2>5, <1>t DEF ChTypes
    <2>7. ChTypes'
      BY <2>6, <1>t, <1>1 DEF ChTypes, ExportEvents
    <2>8. ChKept
      BY <2>6, <1>1, ChDistinct DEF ExportEvents, ChKept
    <2> QED BY <2>7, <2>8, <1>1, ChQuiet, ChReadersKept DEF ExportEvents
  <1>2. CASE ExportAttempts(b)
    <2>1. PICK old \in ChBatch : old = chFile[b] /\ old.stage = "events"
      BY <1>2, <1>t, ChDistinct DEF ExportAttempts, ChTypes
    <2>2. PICK S \in SUBSET ChEvents : S = DOMAIN old.rows /\ \A e \in S : old.rows[e] \in ChRow
      BY ChDistinct
    <2>3. ASSUME NEW e \in S
          PROVE  [old.rows[e] EXCEPT !.rows = IF Absent(e) THEN 0 ELSE chHot[e].rows] \in ChRow
      <3>1. Absent(e) \/ chHot[e] \in ChRow
        BY <1>t, <2>2 DEF ChTypes, Absent
      <3>2. PICK n \in Nat : n = IF Absent(e) THEN 0 ELSE chHot[e].rows
        BY <3>1 DEF ChRow
      <3>3. [old.rows[e] EXCEPT !.rows = n] \in ChRow
        BY <2>2 DEF ChRow
      <3> QED BY <3>2, <3>3
    <2>4. PICK f \in [S -> ChRow] :
             f = [e \in S |-> [old.rows[e] EXCEPT !.rows = IF Absent(e) THEN 0 ELSE chHot[e].rows]]
      BY <2>3
    <2>5. PICK batch \in ChBatch : batch = [stage |-> "manifest", rows |-> f]
      BY <2>4 DEF ChBatch
    <2>6. chFile' = [chFile EXCEPT ![b] = batch]
      BY <1>2, <2>1, <2>2, <2>4, <2>5 DEF ExportAttempts
    <2>7. chFile' \in [ChBatches -> {NoBatch} \cup ChBatch] /\ \A c \in ChBatches : c # b => chFile'[c] = chFile[c]
      BY <2>6, <1>t DEF ChTypes
    <2>8. ChTypes'
      BY <2>7, <1>t, <1>2 DEF ChTypes, ExportAttempts
    <2>9. ChKept
      BY <2>7, <1>2 DEF ExportAttempts, ChKept
    <2> QED BY <2>8, <2>9, <1>2, ChQuiet, ChReadersKept DEF ExportAttempts
  <1>3. CASE Upload(b)
    <2>1. chStore' \in [ChBatches -> {NoBatch} \cup ChBatch] /\ \A c \in ChBatches : c # b => chStore'[c] = chStore[c]
      BY <1>3, <1>t DEF ChTypes, Upload
    <2>2. ChTypes'
      BY <2>1, <1>t, <1>3 DEF ChTypes, Upload
    <2>3. ChKept
      BY <2>1, <1>3 DEF Upload, ChKept
    <2> QED BY <2>2, <2>3, <1>3, ChQuiet, ChReadersKept DEF Upload
  <1> QED BY <1>1, <1>2, <1>3

\* One run of the script moves and the rest of the tables stay: it is enough
\* that the run holds what it should and locks nothing another run has locked.
LEMMA ChRunMoves ==
    ASSUME ChInv, NEW o \in ChRuns, NEW r \in ChRunState,
           chRun' = [chRun EXCEPT ![o] = r],
           UNCHANGED <<chHot, chFile, chStore, chAudits, chAdmin, chReader, chLatest>>,
           chEvidence' \in [ChBatches -> ChEvidenceRow], EvidenceNamesAudit',
           RunHolds(o)',
           r.stage = "deleting" => \A p \in ChRuns : p # o /\ chRun[p].stage = "deleting" =>
                                       chRun[p].locked \cap r.locked = {}
    PROVE  ChInv'
  <1>t. ChTypes
    BY DEF ChInv
  <1>1. chRun' \in [ChRuns -> ChRunState] /\ chRun'[o] = r /\ \A p \in ChRuns : p # o => chRun'[p] = chRun[p]
    BY <1>t DEF ChTypes
  <1>2. ChTypes'
    BY <1>1, <1>t DEF ChTypes
  <1>3. ChKept
    BY DEF ChKept
  <1>4. ChRunsHold'
    BY <1>1, <1>3, ChRunKept DEF ChRunsHold
  <1>5. LocksDisjoint'
    BY <1>1 DEF ChInv, LocksDisjoint
  <1>6. NothingLost'
    BY <1>3, ChEventKept DEF NothingLost
  <1>7. ColdReadersFind'
    BY <1>3, ChReadersKept
  <1> QED BY <1>2, <1>4, <1>5, <1>6, <1>7 DEF ChInv, AuditsAtMostOne

\* The steps of the offload script.
LEMMA ChOffloadStep ==
    ASSUME ChInv, NEW o \in ChRuns,
           \/ \E b \in ChBatches : OffloadBegin(o, b)
           \/ OffloadPrepare(o) \/ OffloadCommit(o) \/ OffloadEvidence(o)
           \/ OffloadReconcile(o) \/ OffloadFails(o)
    PROVE  ChInv'
  <1>t. ChTypes
    BY DEF ChInv
  <1>0. ChRunsHold /\ LocksDisjoint /\ AuditsAtMostOne /\ EvidenceNamesAudit /\ NothingLost
    BY DEF ChInv
  <1>h. RunHolds(o)
    BY <1>0 DEF ChRunsHold
  <1>r. chRun[o] \in ChRunState
    BY <1>t DEF ChTypes
  <1>d. [stage |-> "done"] \in ChRunState
    BY DEF ChRunState
  <1>1. ASSUME NEW b \in ChBatches, OffloadBegin(o, b) PROVE ChInv'
    <2>1. PICK r \in ChRunState : r = [stage |-> "bound", batch |-> b]
      BY DEF ChRunState
    <2>2. chRun' = [chRun EXCEPT ![o] = r] /\ chRun'[o] = r
      BY <1>1, <2>1, <1>t DEF OffloadBegin, ChTypes
    <2>3. RunHolds(o)'
      BY <1>1, <2>1, <2>2 DEF OffloadBegin, Bound, RunHolds
    <2>4. chEvidence' \in [ChBatches -> ChEvidenceRow] /\ EvidenceNamesAudit'
      BY <1>1, <1>t, <1>0 DEF OffloadBegin, ChTypes, EvidenceNamesAudit
    <2> QED BY <2>1, <2>2, <2>3, <2>4, <1>1, ChRunMoves DEF OffloadBegin
  <1>2. CASE OffloadPrepare(o)
    <2>1. PICK b \in ChBatches : b = chRun[o].batch
      BY <1>2, <1>r, ChRunFields DEF OffloadPrepare
    <2>2. /\ chFile[b].stage = "manifest" /\ chStore[b] = chFile[b] /\ chFile[b] \in ChBatch
      BY <1>2, <1>h, <2>1, <1>t, ChDistinct DEF OffloadPrepare, RunHolds, ChTypes
    <2>3. PICK S \in SUBSET ChEvents : S = DOMAIN chFile[b].rows /\ \A e \in S : chFile[b].rows[e] \in ChRow
      BY <2>2, ChDistinct
    <2>4. /\ S # {} /\ (\A e \in S : ~Locked(e)) /\ (\A e \in S : chHot[e] = chFile[b].rows[e]) /\ chAudits[b] = {}
      <3>1. HotEvents(b) # {} /\ (\A e \in HotEvents(b) : ~Locked(e)) /\ Matches(b) /\ NeverOffloaded(b)
        BY <1>2, <2>1 DEF OffloadPrepare
      <3>2. \A e \in S : chHot[e] = chFile[b].rows[e]
        BY <3>1, <2>3 DEF Matches, BatchEvents
      <3>3. HotEvents(b) = S
        BY <3>2, <2>3, ChDistinct DEF HotEvents, BatchEvents, Absent
      <3> QED BY <3>1, <3>2, <3>3 DEF NeverOffloaded
    <2>5. PICK r \in ChRunState : r = [stage |-> "deleting", batch |-> b, locked |-> S]
      BY DEF ChRunState
    <2>6. chRun' = [chRun EXCEPT ![o] = r] /\ chRun'[o] = r
      BY <1>2, <2>1, <2>3, <2>5, <1>t DEF OffloadPrepare, ChTypes, Locks, BatchEvents
    <2>7. RunHolds(o)'
      BY <1>2, <2>2, <2>3, <2>4, <2>5, <2>6 DEF OffloadPrepare, RunHolds
    <2>8. PICK ev \in ChEvidenceRow : ev = PreparedEvidence(o) /\ ev.status = "prepared"
      <3>1. PreparedEvidence(o) = [status |-> "prepared", audit |-> o]
        BY DEF PreparedEvidence
      <3>2. [status |-> "prepared", audit |-> o] \in ChEvidenceRow
        BY DEF ChEvidenceRow
      <3> QED BY <3>1, <3>2
    <2>9. chEvidence' = [chEvidence EXCEPT ![b] = ev]
      BY <1>2, <2>1, <2>8 DEF OffloadPrepare
    <2>10. chEvidence' \in [ChBatches -> ChEvidenceRow] /\ EvidenceNamesAudit'
      BY <2>9, <2>8, <1>2, <1>t, <1>0 DEF OffloadPrepare, ChTypes, EvidenceNamesAudit
    <2>11. \A p \in ChRuns : p # o /\ chRun[p].stage = "deleting" => chRun[p].locked \cap r.locked = {}
      BY <2>4, <2>5 DEF Locked
    <2> QED BY <2>5, <2>6, <2>7, <2>10, <2>11, <1>2, ChRunMoves DEF OffloadPrepare
  <1>3. CASE OffloadCommit(o)
    <2>1. PICK b \in ChBatches : b = chRun[o].batch
      BY <1>3, <1>r, ChRunFields DEF OffloadCommit
    <2>2. /\ chFile[b].stage = "manifest" /\ chStore[b] = chFile[b] /\ chFile[b] \in ChBatch
          /\ chRun[o].locked = DOMAIN chFile[b].rows /\ chRun[o].locked # {}
          /\ chAudits[b] = {} /\ \A e \in chRun[o].locked : chHot[e] = chFile[b].rows[e]
      BY <1>3, <1>h, <2>1, <1>t, ChDistinct DEF OffloadCommit, RunHolds, ChTypes
    <2>3. PICK S \in SUBSET ChEvents : S = DOMAIN chFile[b].rows
      BY <2>2, ChDistinct
    <2>4. /\ chHot' = [e \in ChEvents |-> IF e \in S THEN ChNone ELSE chHot[e]]
          /\ chAudits' = [chAudits EXCEPT ![b] = {o}]
          /\ chRun' = [chRun EXCEPT ![o] = [stage |-> "committed", batch |-> b]]
      BY <1>3, <2>1, <2>2, <2>3, <1>t DEF OffloadCommit, BatchEvents, ChTypes
    <2>5. PICK r \in ChRunState : r = [stage |-> "committed", batch |-> b]
      BY DEF ChRunState
    <2>6. chRun' \in [ChRuns -> ChRunState] /\ chRun'[o] = r /\ \A p \in ChRuns : p # o => chRun'[p] = chRun[p]
      BY <2>4, <2>5, <1>t DEF ChTypes
    <2>7. chHot' \in [ChEvents -> ChRow \cup {ChNone}] /\ \A e \in ChEvents : e \notin S => chHot'[e] = chHot[e]
      BY <2>4, <1>t DEF ChTypes
    <2>8. chAudits' \in [ChBatches -> SUBSET ChRuns] /\ chAudits'[b] = {o}
          /\ \A c \in ChBatches : c # b => chAudits'[c] = chAudits[c]
      BY <2>4, <1>t DEF ChTypes
    <2>9. ChTypes'
      BY <2>6, <2>7, <2>8, <1>3, <1>t DEF ChTypes, OffloadCommit
    <2>10. ChKept
      BY <2>8, <2>2, <1>3 DEF OffloadCommit, ChKept
    <2>11. ASSUME NEW p \in ChRuns, p # o PROVE RunHolds(p)'
      <3>1. ASSUME chRun[p].stage = "deleting"
            PROVE  /\ \A e \in chRun[p].locked : chHot'[e] = chHot[e]
                   /\ chAudits'[chRun[p].batch] = chAudits[chRun[p].batch]
        <4>1. PICK q \in ChRunState : q = chRun[p]
          BY <1>t DEF ChTypes
        <4>2. q.batch \in ChBatches /\ q.locked \in SUBSET ChEvents
          BY <4>1, <3>1, ChRunFields
        <4>3. chRun[p].locked \cap chRun[o].locked = {}
          BY <3>1, <2>11, <1>0, <1>3 DEF LocksDisjoint, OffloadCommit
        <4>4. chRun[p].locked = DOMAIN chFile[chRun[p].batch].rows /\ chRun[p].locked # {}
          BY <3>1, <1>0 DEF ChRunsHold, RunHolds
        <4>5. chRun[p].batch # b
          BY <4>3, <4>4, <2>2
        <4> QED BY <4>1, <4>2, <4>3, <4>5, <2>2, <2>3, <2>7, <2>8
      <3> QED BY <3>1, <2>6, <2>10, <2>11, ChRunKept
    <2>12. RunHolds(o)'
      BY <2>5, <2>6, <2>8, <2>2, <1>3 DEF OffloadCommit, RunHolds
    <2>13. ChRunsHold'
      BY <2>11, <2>12 DEF ChRunsHold
    <2>14. LocksDisjoint'
      BY <2>5, <2>6, <1>0 DEF LocksDisjoint
    <2>15. AuditsAtMostOne'
      BY <2>8, <1>0 DEF AuditsAtMostOne
    <2>16. EvidenceNamesAudit'
      BY <2>8, <2>2, <1>0, <1>3 DEF EvidenceNamesAudit, OffloadCommit
    <2>17. ASSUME NEW e \in ChEvents
           PROVE  \/ chHot'[e] = chLatest'[e]
                  \/ \E c \in ChBatches : /\ chAudits'[c] # {} /\ chStore'[c] # NoBatch
                                          /\ e \in DOMAIN chStore'[c].rows
                                          /\ chStore'[c].rows[e] = chLatest'[e]
      <3>1. CASE e \in S /\ chHot[e] = chLatest[e]
        <4>1. /\ chAudits'[b] # {} /\ chStore'[b] # NoBatch
              /\ e \in DOMAIN chStore'[b].rows /\ chStore'[b].rows[e] = chLatest'[e]
          BY <3>1, <2>2, <2>3, <2>8, <1>3, ChDistinct DEF OffloadCommit
        <4> QED BY <4>1
      <3>2. CASE ~(e \in S /\ chHot[e] = chLatest[e])
        <4>1. chLatest'[e] = chLatest[e] /\ (chHot'[e] = chHot[e] \/ chHot[e] # chLatest[e])
          BY <3>2, <2>7, <1>3 DEF OffloadCommit
        <4> QED BY <4>1, <2>10, ChEventKept
      <3> QED BY <3>1, <3>2
    <2>18. NothingLost'
      BY <2>17 DEF NothingLost
    <2>19. ColdReadersFind'
      BY <2>10, <1>3, ChReadersKept DEF OffloadCommit
    <2> QED BY <2>9, <2>13, <2>14, <2>15, <2>16, <2>18, <2>19 DEF ChInv
  <1>4. CASE OffloadEvidence(o)
    <2>1. PICK b \in ChBatches : b = chRun[o].batch
      BY <1>4, <1>r, ChRunFields DEF OffloadEvidence
    <2>2. PICK ev \in ChEvidenceRow : ev = [status |-> "offloaded", audit |-> o]
      BY DEF ChEvidenceRow
    <2>3. o \in chAudits[b]
      BY <1>4, <2>1, <1>h DEF OffloadEvidence, RunHolds
    <2>4. chEvidence' = [chEvidence EXCEPT ![b] = ev]
      BY <1>4, <2>1, <2>2 DEF OffloadEvidence
    <2>5. chEvidence' \in [ChBatches -> ChEvidenceRow] /\ EvidenceNamesAudit'
      BY <2>2, <2>3, <2>4, <1>4, <1>t, <1>0 DEF OffloadEvidence, ChTypes, EvidenceNamesAudit
    <2>6. chRun'[o] = [stage |-> "done"]
      BY <1>4, <1>t DEF OffloadEvidence, ChTypes
    <2>7. RunHolds(o)'
      BY <2>6 DEF RunHolds
    <2> QED BY <2>5, <2>7, <1>4, <1>d, ChRunMoves DEF OffloadEvidence
  <1>5. CASE OffloadReconcile(o)
    <2>1. PICK b \in ChBatches : b = chRun[o].batch
      BY <1>5, <1>r, ChRunFields DEF OffloadReconcile
    <2>2. PICK id \in ReconciledAudit(b) :
              chEvidence' = [chEvidence EXCEPT ![b] = [status |-> "reconciled", audit |-> id]]
      BY <1>5, <2>1 DEF OffloadReconcile
    <2>3. id \in chAudits[b] /\ id \in ChRuns
      BY <2>2, <1>t DEF ReconciledAudit, ChTypes
    <2>4. PICK ev \in ChEvidenceRow : ev = [status |-> "reconciled", audit |-> id]
      BY <2>3 DEF ChEvidenceRow
    <2>5. chEvidence' \in [ChBatches -> ChEvidenceRow] /\ EvidenceNamesAudit'
      BY <2>2, <2>3, <2>4, <1>5, <1>t, <1>0 DEF OffloadReconcile, ChTypes, EvidenceNamesAudit
    <2>6. chRun'[o] = [stage |-> "done"]
      BY <1>5, <1>t DEF OffloadReconcile, ChTypes
    <2>7. RunHolds(o)'
      BY <2>6 DEF RunHolds
    <2> QED BY <2>5, <2>7, <1>5, <1>d, ChRunMoves DEF OffloadReconcile
  <1>6. CASE OffloadFails(o)
    <2>5. chEvidence' \in [ChBatches -> ChEvidenceRow] /\ EvidenceNamesAudit'
      BY <1>6, <1>t, <1>0 DEF OffloadFails, ChTypes, EvidenceNamesAudit
    <2>6. chRun'[o] = [stage |-> "done"]
      BY <1>6, <1>t DEF OffloadFails, ChTypes
    <2>7. RunHolds(o)'
      BY <2>6 DEF RunHolds
    <2> QED BY <2>5, <2>7, <1>6, <1>d, ChRunMoves DEF OffloadFails
  <1> QED BY <1>1, <1>2, <1>3, <1>4, <1>5, <1>6

\* One row of the hot table is written while nobody deletes it: either its
\* content is the latest from now on, or it was not in the table before.
LEMMA ChHotWrite ==
    ASSUME ChInv, NEW e \in ChEvents, NEW rec \in ChRow, ~Locked(e),
           chHot' = [chHot EXCEPT ![e] = rec],
           \/ chLatest' = [chLatest EXCEPT ![e] = rec]
           \/ chLatest' = chLatest /\ Absent(e),
           chAdmin' \in [ChAdmins -> ChAdminState],
           UNCHANGED <<chFile, chStore, chAudits, chEvidence, chRun, chReader>>
    PROVE  ChInv'
  <1>t. ChTypes
    BY DEF ChInv
  <1>1. chHot' \in [ChEvents -> ChRow \cup {ChNone}] /\ chHot'[e] = rec
        /\ \A d \in ChEvents : d # e => chHot'[d] = chHot[d]
    BY <1>t DEF ChTypes
  <1>2. chLatest' \in [ChEvents -> ChRow] /\ \A d \in ChEvents : d # e => chLatest'[d] = chLatest[d]
    BY <1>t DEF ChTypes
  <1>3. ChTypes'
    BY <1>1, <1>2, <1>t DEF ChTypes
  <1>4. ChKept
    BY DEF ChKept
  <1>5. ASSUME NEW o \in ChRuns PROVE RunHolds(o)'
    <2>1. ASSUME chRun[o].stage = "deleting" PROVE \A d \in chRun[o].locked : chHot'[d] = chHot[d]
      <3>1. PICK r \in ChRunState : r = chRun[o]
        BY <1>t DEF ChTypes
      <3>2. chRun[o].locked \in SUBSET ChEvents
        BY <3>1, <2>1, ChRunFields
      <3>3. e \notin chRun[o].locked
        BY <2>1 DEF Locked
      <3> QED BY <3>2, <3>3, <1>1
    <2> QED BY <2>1, <1>4, ChRunKept
  <1>6. ASSUME NEW d \in ChEvents
        PROVE  \/ chHot'[d] = chLatest'[d]
               \/ \E c \in ChBatches : /\ chAudits'[c] # {} /\ chStore'[c] # NoBatch
                                       /\ d \in DOMAIN chStore'[c].rows
                                       /\ chStore'[c].rows[d] = chLatest'[d]
    <2>1. CASE d # e
      BY <2>1, <1>1, <1>2, <1>4, ChEventKept
    <2>2. CASE d = e /\ chLatest' = [chLatest EXCEPT ![e] = rec]
      BY <2>2, <1>1, <1>t DEF ChTypes
    <2>3. CASE d = e /\ chLatest' = chLatest /\ Absent(e)
      <3>1. chHot[e] # chLatest[e]
        BY <2>3, <1>t, ChDistinct DEF Absent, ChTypes
      <3> QED BY <3>1, <2>3, <1>4, ChEventKept
    <2> QED BY <2>1, <2>2, <2>3
  <1>7. ColdReadersFind'
    BY <1>4, ChReadersKept
  <1> QED BY <1>3, <1>5, <1>6, <1>7 DEF ChInv, ChRunsHold, NothingLost, LocksDisjoint, AuditsAtMostOne, EvidenceNamesAudit

\* A row that a run is deleting is in the hot table.
LEMMA ChLockedHot ==
    ASSUME ChInv, NEW e \in ChEvents, Absent(e)
    PROVE  ~Locked(e)
  <1> SUFFICES ASSUME NEW o \in ChRuns, chRun[o].stage = "deleting", e \in chRun[o].locked PROVE FALSE
    BY DEF Locked
  <1>1. PICK r \in ChRunState : r = chRun[o]
    BY DEF ChInv, ChTypes
  <1>2. PICK b \in ChBatches : b = r.batch
    BY <1>1, ChRunFields
  <1>3. chFile[b].stage = "manifest" /\ e \in DOMAIN chFile[b].rows /\ chHot[e] = chFile[b].rows[e]
    BY <1>1, <1>2 DEF ChInv, ChRunsHold, RunHolds
  <1>4. chFile[b] \in ChBatch
    BY <1>3, ChDistinct DEF ChInv, ChTypes
  <1> QED BY <1>3, <1>4, ChDistinct DEF Absent

\* The steps of the administrators and of the publisher.
LEMMA ChAdminStep ==
    ASSUME ChInv,
           \/ \E a \in ChAdmins : \/ \E e \in ChEvents : RehydrateRead(a, e) \/ ColdReplayRead(a, e)
                                  \/ RehydrateCommit(a) \/ ColdReplayCommit(a)
           \/ \E e \in ChEvents : PublishAgain(e)
    PROVE  ChInv'
  <1>t. ChTypes
    BY DEF ChInv
  <1>n. MaxReplays \in Nat \ {0}
    BY ChAssumption
  <1>k. ASSUME UNCHANGED <<chHot, chFile, chStore, chAudits, chEvidence, chRun, chReader, chLatest>>,
               chAdmin' \in [ChAdmins -> ChAdminState]
        PROVE  ChInv'
    <2>1. ChTypes'
      BY <1>k, <1>t DEF ChTypes
    <2>2. ChKept
      BY <1>k DEF ChKept
    <2> QED BY <2>1, <2>2, <1>k, ChQuiet, ChReadersKept
  <1>l. ASSUME NEW a \in ChAdmins, Leave(a) PROVE chAdmin' \in [ChAdmins -> ChAdminState]
    <2>1. [op |-> "idle"] \in ChAdminState
      BY DEF ChAdminState
    <2> QED BY <2>1, <1>l, <1>t DEF Leave, ChTypes
  <1>1. ASSUME NEW a \in ChAdmins, NEW e \in ChEvents, RehydrateRead(a, e) PROVE ChInv'
    <2>1. PICK rec \in Archived(e) :
             chAdmin' = [chAdmin EXCEPT ![a] = [op |-> "rehydrate", event |-> e, row |-> rec]]
      BY <1>1 DEF RehydrateRead
    <2>2. rec \in ChRow
      <3>1. PICK b \in ChBatches : chStore[b] # NoBatch /\ e \in DOMAIN chStore[b].rows /\ rec = chStore[b].rows[e]
        BY <2>1 DEF Archived
      <3>2. chStore[b] \in ChBatch
        BY <3>1, <1>t DEF ChTypes
      <3> QED BY <3>1, <3>2, ChDistinct
    <2>3. PICK q \in ChAdminState : q = [op |-> "rehydrate", event |-> e, row |-> rec]
      BY <2>2 DEF ChAdminState
    <2>4. chAdmin' \in [ChAdmins -> ChAdminState]
      BY <2>1, <2>3, <1>t DEF ChTypes
    <2> QED BY <2>4, <1>1, <1>k DEF RehydrateRead
  <1>2. ASSUME NEW a \in ChAdmins, NEW e \in ChEvents, ColdReplayRead(a, e) PROVE ChInv'
    <2>1. chHot[e] \in ChRow /\ chHot[e].replays < MaxReplays
      BY <1>2, <1>t, ChDistinct DEF ColdReplayRead, ChTypes
    <2>2. PICK n \in 0 .. (MaxReplays - 1) : n = chHot[e].replays
      BY <2>1, <1>n DEF ChRow
    <2>3. PICK q \in ChAdminState : q = [op |-> "replay", event |-> e, replays |-> n]
      BY DEF ChAdminState
    <2>4. chAdmin' \in [ChAdmins -> ChAdminState]
      BY <1>2, <2>2, <2>3, <1>t DEF ChTypes, ColdReplayRead
    <2> QED BY <2>4, <1>2, <1>k DEF ColdReplayRead
  <1>3. ASSUME NEW a \in ChAdmins, RehydrateCommit(a) PROVE ChInv'
    <2>1. PICK q \in ChAdminState : q = chAdmin[a] /\ q.op = "rehydrate"
      BY <1>3, <1>t DEF RehydrateCommit, ChTypes
    <2>2. PICK e \in ChEvents, rec \in ChRow : e = q.event /\ rec = q.row
      BY <2>1, ChAdminFields
    <2>3. chAdmin' \in [ChAdmins -> ChAdminState]
      BY <1>3, <1>l DEF RehydrateCommit
    <2>4. CASE Absent(e)
      <3>1. chHot' = [chHot EXCEPT ![e] = rec]
        BY <2>1, <2>2, <2>4, <1>3 DEF RehydrateCommit
      <3> QED BY <3>1, <2>3, <2>4, <1>3, ChLockedHot, ChHotWrite DEF RehydrateCommit
    <2>5. CASE ~Absent(e)
      <3>1. chHot' = chHot
        BY <2>1, <2>2, <2>5, <1>3, <1>t DEF RehydrateCommit, ChTypes
      <3> QED BY <3>1, <2>3, <1>3, <1>k DEF RehydrateCommit
    <2> QED BY <2>4, <2>5
  <1>4. ASSUME NEW a \in ChAdmins, ColdReplayCommit(a) PROVE ChInv'
    <2>1. PICK q \in ChAdminState : q = chAdmin[a] /\ q.op = "replay"
      BY <1>4, <1>t DEF ColdReplayCommit, ChTypes
    <2>2. PICK e \in ChEvents, n \in 0 .. (MaxReplays - 1) : e = q.event /\ n = q.replays
      BY <2>1, ChAdminFields
    <2>3. chAdmin' \in [ChAdmins -> ChAdminState]
      BY <1>4, <1>l DEF ColdReplayCommit
    <2>4. CASE Absent(e)
      BY <2>1, <2>2, <2>3, <2>4, <1>4, <1>k DEF ColdReplayCommit
    <2>5. CASE ~Absent(e)
      <3>1. PICK m \in 0 .. MaxReplays : m = n + 1
        BY <1>n
      <3>2. PICK rec : rec = [chHot[e] EXCEPT !.terminal = FALSE, !.replays = m]
        OBVIOUS
      <3>3. chHot[e] \in ChRow
        BY <2>5, <1>t DEF Absent, ChTypes
      <3>4. rec \in ChRow
        BY <3>2, <3>3 DEF ChRow
      <3>5. ~Locked(e) /\ chHot' = [chHot EXCEPT ![e] = rec] /\ chLatest' = [chLatest EXCEPT ![e] = rec]
        BY <2>1, <2>2, <2>5, <3>1, <3>2, <1>4 DEF ColdReplayCommit
      <3> QED BY <3>4, <3>5, <2>3, <1>4, ChHotWrite DEF ColdReplayCommit
    <2> QED BY <2>4, <2>5
  <1>5. ASSUME NEW e \in ChEvents, PublishAgain(e) PROVE ChInv'
    <2>1. PICK old \in ChRow : old = chHot[e]
      BY <1>5, <1>t DEF PublishAgain, Absent, ChTypes
    <2>n. PICK n \in Nat, m \in Nat : n = old.tries + 1 /\ m = old.rows + 1
      BY <2>1 DEF ChRow
    <2>2. PICK rec : rec = [old EXCEPT !.terminal = TRUE, !.tries = n, !.rows = m]
      OBVIOUS
    <2>3. rec \in ChRow
      BY <2>1, <2>2 DEF ChRow
    <2>4. chHot' = [chHot EXCEPT ![e] = rec] /\ chLatest' = [chLatest EXCEPT ![e] = rec]
      BY <1>5, <2>1, <2>n, <2>2 DEF PublishAgain
    <2>5. chAdmin' \in [ChAdmins -> ChAdminState]
      BY <1>5, <1>t DEF PublishAgain, ChTypes
    <2> QED BY <2>3, <2>4, <2>5, <1>5, ChHotWrite DEF PublishAgain
  <1> QED BY <1>1, <1>2, <1>3, <1>4, <1>5

\* The steps of the readers: an event that is not in the hot table is in the
\* store, and stays there until the second read.
LEMMA ChReaderStep ==
    ASSUME ChInv, NEW g \in ChReaders, (\E e \in ChEvents : GetHot(g, e)) \/ GetCold(g)
    PROVE  ChInv'
  <1>t. ChTypes
    BY DEF ChInv
  <1>k. ASSUME UNCHANGED <<chHot, chFile, chStore, chAudits, chEvidence, chRun, chAdmin, chLatest>>,
               chReader' \in [ChReaders -> ChReaderState], ColdReadersFind'
        PROVE  ChInv'
    <2>1. ChTypes'
      BY <1>k, <1>t DEF ChTypes
    <2>2. ChKept
      BY <1>k DEF ChKept
    <2> QED BY <2>1, <2>2, <1>k, ChQuiet
  <1>f. [op |-> "found"] \in ChReaderState
    BY DEF ChReaderState
  <1>1. ASSUME NEW e \in ChEvents, GetHot(g, e) PROVE ChInv'
    <2>1. CASE Absent(e)
      <3>1. PICK b \in ChBatches : InStore(b, e)
        <4>1. chHot[e] # chLatest[e]
          BY <2>1, <1>t, ChDistinct DEF Absent, ChTypes
        <4> QED BY <4>1 DEF ChInv, NothingLost, InStore
      <3>2. PICK q \in ChReaderState : q = [op |-> "cold", event |-> e]
        BY DEF ChReaderState
      <3>3. chReader' = [chReader EXCEPT ![g] = q]
        BY <1>1, <2>1, <3>2 DEF GetHot
      <3>4. chReader' \in [ChReaders -> ChReaderState]
        BY <3>3, <1>t DEF ChTypes
      <3>5. ColdReadersFind'
        BY <3>1, <3>2, <3>3, <1>1, <1>t DEF ChInv, ColdReadersFind, InStore, GetHot, ChTypes
      <3> QED BY <3>4, <3>5, <1>1, <1>k DEF GetHot
    <2>2. CASE ~Absent(e)
      <3>3. chReader' = [chReader EXCEPT ![g] = [op |-> "found"]]
        BY <1>1, <2>2 DEF GetHot
      <3>4. chReader' \in [ChReaders -> ChReaderState]
        BY <3>3, <1>f, <1>t DEF ChTypes
      <3>5. ColdReadersFind'
        BY <3>3, <1>1, <1>t DEF ChInv, ColdReadersFind, InStore, GetHot, ChTypes
      <3> QED BY <3>4, <3>5, <1>1, <1>k DEF GetHot
    <2> QED BY <2>1, <2>2
  <1>2. CASE GetCold(g)
    <2>1. PICK b \in ChBatches : InStore(b, chReader[g].event)
      BY <1>2 DEF ChInv, ColdReadersFind, GetCold
    <2>2. Archived(chReader[g].event) # {}
      BY <2>1 DEF InStore, Archived
    <2>3. chReader' = [chReader EXCEPT ![g] = [op |-> "found"]]
      BY <1>2, <2>2 DEF GetCold
    <2>4. chReader' \in [ChReaders -> ChReaderState]
      BY <2>3, <1>f, <1>t DEF ChTypes
    <2>5. ColdReadersFind'
      BY <2>3, <1>2, <1>t DEF ChInv, ColdReadersFind, InStore, GetCold, ChTypes
    <2> QED BY <2>4, <2>5, <1>2, <1>k DEF GetCold
  <1> QED BY <1>1, <1>2

\* Every step of exports, offloads, administrators, the publisher and readers
\* keeps the invariant.
LEMMA ChStepInv == ChInv /\ [ChNext]_chVars => ChInv'
  <1> SUFFICES ASSUME ChInv, [ChNext]_chVars PROVE ChInv'
    OBVIOUS
  <1>1. CASE UNCHANGED chVars
    <2>1. ChTypes' /\ ChKept /\ UNCHANGED <<chHot, chAudits, chEvidence, chRun, chLatest, chReader>>
      BY <1>1 DEF ChInv, ChTypes, ChKept, chVars
    <2> QED BY <2>1, ChReadersKept, ChQuiet
  <1>2. CASE ChNext
    BY <1>2, ChFilesStep, ChOffloadStep, ChAdminStep, ChReaderStep DEF ChNext
  <1> QED BY <1>1, <1>2

\* The invariant gives the types and the properties the runs check.
LEMMA ChInvSound == ChInv => ChTypeOK /\ ColdHistorySound
  <1> SUFFICES ASSUME ChInv PROVE ChTypeOK /\ ColdHistorySound
    OBVIOUS
  <1>t. ChTypes
    BY DEF ChInv
  <1>1. ASSUME NEW e \in ChEvents PROVE chLatest[e] \in ChRow /\ (Absent(e) \/ chHot[e] \in ChRow)
    BY <1>t DEF ChTypes, Absent
  <1>2. ASSUME NEW o \in ChRuns PROVE chRun[o].stage \in {"idle", "bound", "deleting", "committed", "done"}
    BY <1>t, ChRunFields DEF ChTypes
  <1>3. ASSUME NEW x \in {NoBatch} \cup ChBatch
        PROVE  x = NoBatch \/ (/\ x.stage \in {"events", "manifest"} /\ DOMAIN x.rows \subseteq ChEvents
                               /\ \A e \in DOMAIN x.rows : x.rows[e] \in ChRow)
    BY ChDistinct
  <1>4. ChTypeOK
    BY <1>1, <1>2, <1>3, <1>t DEF ChTypeOK, ChTypes, ChEvidenceRow
  <1>5. OneAuditPerBatch
    <2> SUFFICES ASSUME NEW b \in ChBatches PROVE Cardinality(chAudits[b]) <= 1
      BY DEF OneAuditPerBatch
    <2>1. CASE chAudits[b] = {}
      BY <2>1, FS_EmptySet
    <2>2. CASE chAudits[b] # {}
      <3>1. PICK o \in ChRuns : chAudits[b] = {o}
        BY <2>2 DEF ChInv, AuditsAtMostOne
      <3>2. Cardinality({o}) = 1
        BY FS_Singleton
      <3> QED BY <3>1, <3>2
    <2> QED BY <2>1, <2>2
  <1>6. NeverMissing
    BY DEF ChInv, ColdReadersFind, NeverMissing
  <1> QED BY <1>4, <1>5, <1>6 DEF ChInv, ColdHistorySound

(* For any events, batches, runs of the script, administrators and readers: *)
(* no order of exports, offloads, crashes of the script, rehydrations and   *)
(* replays loses the last content of an event or hides it from a reader,    *)
(* and the evidence of a batch names its one audit (validate_and_offload).  *)
THEOREM ColdHistoryCorrect == ChSpec => []ColdHistorySound
  BY ChInitInv, ChStepInv, ChInvSound, PTL DEF ChSpec

-----------------------------------------------------------------------------
(* The components together.                                                *)

AccountingInv == TypeOK /\ UlInv /\ TrInv /\ ChInv

\* A step moves one component and leaves the others where they were.
LEMMA AccountingStep == AccountingInv /\ [AccountingNext]_<<focus, vars, ulVars, trVars, chVars>> => AccountingInv'
  <1> SUFFICES ASSUME AccountingInv, [AccountingNext]_<<focus, vars, ulVars, trVars, chVars>> PROVE AccountingInv'
    OBVIOUS
  <1>1. [Next]_vars /\ [UlNext]_ulVars /\ [TrNext]_trVars /\ [ChNext]_chVars
    BY DEF AccountingNext
  <1>2. TypeOK'
    BY <1>1, TypeStep DEF AccountingInv
  <1>3. UlInv'
    BY <1>1, UlStepInv DEF AccountingInv
  <1>4. TrInv'
    BY <1>1, TrStepInv DEF AccountingInv
  <1>5. ChInv'
    BY <1>1, ChStepInv DEF AccountingInv
  <1> QED BY <1>2, <1>3, <1>4, <1>5 DEF AccountingInv

(* For any instance of the four components: the rows of events, usage,      *)
(* traffic and history stay within the types of their columns.              *)
THEOREM AccountingTypesCorrect == AccountingSpec => []AccountingTypesOK
  <1>1. AccountingInit => AccountingInv
    BY TypeInit, UlInitInv, TrInitInv, ChInitInv DEF AccountingInit, AccountingInv
  <1>2. AccountingInv => AccountingTypesOK
    BY UlInvTypes, TrInvTypes, ChInvSound DEF AccountingInv, AccountingTypesOK
  <1> QED BY <1>1, <1>2, AccountingStep, PTL DEF AccountingSpec

\* A behaviour of the accounting is a behaviour of each component.
LEMMA AccountingImplements == AccountingSpec => Spec /\ UlSpec /\ TrSpec /\ ChSpec
  <1>1. AccountingInit => Init /\ UlInit /\ TrInit /\ ChInit
    BY DEF AccountingInit
  <1>2. [AccountingNext]_<<focus, vars, ulVars, trVars, chVars>> =>
          [Next]_vars /\ [UlNext]_ulVars /\ [TrNext]_trVars /\ [ChNext]_chVars
    BY DEF AccountingNext
  <1> QED
    BY <1>1, <1>2, PTL DEF AccountingSpec, Spec, UlSpec, TrSpec, ChSpec

\* Everything the run Accounting checks, for any events, publishers, tasks,
\* calls and archive runs: no record is lost, invented or counted twice.
THEOREM AccountingCorrect ==
    AccountingSpec => [](/\ AccountingTypesOK /\ HistoryTrue /\ UsageSound
                         /\ TrafficSound /\ ColdHistorySound)
  BY AccountingImplements, AccountingTypesCorrect, HistoryCorrect, UsageCorrect, TrafficCorrect,
     ColdHistoryCorrect, PTL
=============================================================================
