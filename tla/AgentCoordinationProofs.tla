---------------------- MODULE AgentCoordinationProofs ----------------------
(***************************************************************************)
(* Proofs about AgentCoordination, for any number of sessions, rooms,      *)
(* leases and paths.                                                       *)
(***************************************************************************)
EXTENDS AgentCoordination, NaturalsInduction, WellFoundedInduction, TLAPS

(* What an open request of each kind holds. *)
LEMMA TxFields ==
    ASSUME NEW t \in Tx
    PROVE  /\ t.op \in {"acquire", "renew"} => t.lease \in Leases
           /\ t.op = "expire" => t.seen \in SUBSET Leases /\ t.goal \in Goals
           /\ t.op = "acquiring" => t.lease \in Leases /\ t.token \in Nat
           /\ t.op \in {"write", "checked", "ready", "done"} =>
                  t.lease \in Leases \cup {NoLease} /\ t.path \in Paths /\ t.expected \in Nat
  BY DEF Tx, Idle, Goals

\* What the handlers keep in a session has the type of an open transaction.
LEMMA TxBuild ==
    /\ Idle \in Tx
    /\ \A g \in Goals : g \in Tx
    /\ \A g \in Goals, S \in SUBSET Leases : [op |-> "expire", seen |-> S, goal |-> g] \in Tx
    /\ \A l \in Leases, n \in Nat : [op |-> "acquiring", lease |-> l, token |-> n] \in Tx
    /\ \A l \in Leases \cup {NoLease}, p \in Paths, n \in Nat, op \in {"checked", "ready", "done"} :
          [op |-> op, lease |-> l, path |-> p, expected |-> n] \in Tx
  BY DEF Tx

(* A write request keeps its fields from one stage to the next. *)
LEMMA WriteStage ==
    ASSUME NEW t \in Tx, t.op \in {"write", "checked", "ready"},
           NEW op \in {"checked", "ready", "done"}
    PROVE  [t EXCEPT !.op = op] \in Tx
  <1>1. [t EXCEPT !.op = op] = [op |-> op, lease |-> t.lease, path |-> t.path, expected |-> t.expected]
    BY DEF Tx, Idle, Goals
  <1>2. t.lease \in Leases \cup {NoLease} /\ t.path \in Paths /\ t.expected \in Nat
    BY TxFields
  <1>3. [op |-> op, lease |-> t.lease, path |-> t.path, expected |-> t.expected] \in Tx
    BY <1>2, TxBuild
  <1> QED
    BY <1>1, <1>3

-----------------------------------------------------------------------------
(* Fencing tokens *)

(* The tokens in use have a bound, so that their maximum exists. *)
TokensBounded == \E b \in Nat : \A l \in Leases : lease[l].token <= b

(* max(fencing_token) + 1 exceeds every token of the room. *)
LEMMA NextTokenAbove ==
    ASSUME TypeOK, TokensBounded, NEW r
    PROVE  /\ NextToken(r) \in Nat
           /\ \A k \in Leases : Room(k) = r => lease[k].token < NextToken(r)
  <1> DEFINE Tokens == {0} \cup {lease[k].token : k \in {k \in Leases : Room(k) = r}}
             Upper  == {n \in Nat : \A t \in Tokens : t <= n}
  <1>1. Tokens \subseteq Nat /\ 0 \in Tokens
    BY DEF TypeOK
  <1>2. Upper # {}
    <2>1. PICK b \in Nat : \A l \in Leases : lease[l].token <= b
      BY DEF TokensBounded
    <2>2. \A t \in Tokens : t <= b
      BY <2>1
    <2> QED
      BY <2>2
  <1>3. PICK u \in Upper : \A n \in Upper : ~(n < u)
    <2> DEFINE Less == {pr \in Nat \X Nat : pr[1] < pr[2]}
    <2>1. IsWellFoundedOn(Less, Nat)
      BY NatLessThanWellFounded DEF OpToRel
    <2>2. Upper \subseteq Nat
      OBVIOUS
    <2> HIDE DEF Less, Upper
    <2>3. \E u \in Upper : \A n \in Upper : ~(<<n, u>> \in Less)
      BY <1>2, <2>1, <2>2, WFMin
    <2> QED
      BY <2>2, <2>3 DEF Less
  <1> HIDE DEF Tokens
  <1>4. u \in Tokens
    <2> SUFFICES ASSUME u \notin Tokens PROVE FALSE
      OBVIOUS
    <2>1. u \in Nat /\ \A t \in Tokens : t <= u
      OBVIOUS
    <2>2. u # 0
      BY <1>1
    <2>3. u - 1 \in Nat /\ \A t \in Tokens : t <= u - 1
      BY <1>1, <2>1, <2>2
    <2>4. u - 1 \in Upper
      BY <2>3
    <2> QED
      BY <1>3, <2>1, <2>3, <2>4
  <1>5. \A k \in Leases : Room(k) = r => lease[k].token \in Tokens
    BY DEF Tokens
  <1>6. \E n \in Tokens : \A k \in Leases : Room(k) = r => lease[k].token <= n
    BY <1>4, <1>5
  <1> DEFINE m == CHOOSE n \in Tokens : \A k \in Leases : Room(k) = r => lease[k].token <= n
  <1>7. m \in Tokens /\ \A k \in Leases : Room(k) = r => lease[k].token <= m
    BY <1>6
  <1>8. NextToken(r) = 1 + m
    BY DEF NextToken, Tokens
  <1>9. m \in Nat
    BY <1>7, <1>1
  <1>10. \A k \in Leases : lease[k].token \in Nat
    BY DEF TypeOK
  <1>11. \A k \in Leases : Room(k) = r => lease[k].token < 1 + m
    <2> HIDE DEF m
    <2> QED
      BY <1>7, <1>9, <1>10
  <1>12. 1 + m \in Nat
    <2> HIDE DEF m
    <2> QED
      BY <1>9
  <1> QED
    BY <1>8, <1>11, <1>12

-----------------------------------------------------------------------------
(* Type correctness *)

TypeInv == TypeOK /\ TokensBounded

\* Nothing is leased at first, so all rows have their type.
LEMMA TypeInit == Init => TypeInv
  <1> SUFFICES ASSUME Init PROVE TypeInv
    OBVIOUS
  <1>1. TypeOK
    BY TxBuild DEF Init, TypeOK, LeaseStatuses, HandoffStatuses, IntegrationStatuses
  <1>2. TokensBounded
    BY DEF Init, TokensBounded
  <1> QED
    BY <1>1, <1>2 DEF TypeInv

\* Giving up locks leaves a room row with at most one holder.
LEMMA UnlockedType ==
    ASSUME TypeOK, NEW x \in Sessions
    PROVE  Unlocked(x) \in [Rooms -> {{}} \cup {{y} : y \in Sessions}]
  <1>1. ASSUME NEW r \in Rooms PROVE roomLock[r] \ {x} \in {{}} \cup {{y} : y \in Sessions}
    <2>1. roomLock[r] \in {{}} \cup {{y} : y \in Sessions}
      BY DEF TypeOK
    <2>2. CASE roomLock[r] = {}
      <3>1. roomLock[r] \ {x} = {}
        BY <2>2
      <3> QED
        BY <3>1
    <2>3. ASSUME NEW y \in Sessions, roomLock[r] = {y}
          PROVE  roomLock[r] \ {x} \in {{}} \cup {{z} : z \in Sessions}
      <3>1. roomLock[r] \ {x} = {} \/ roomLock[r] \ {x} = {y}
        BY <2>3
      <3> QED
        BY <3>1
    <2> QED
      BY <2>1, <2>2, <2>3
  <1> QED
    BY <1>1 DEF Unlocked

(* One step per action. *)
LEMMA TypeStep == TypeInv /\ [Next]_vars => TypeInv'
  <1> SUFFICES ASSUME TypeInv, [Next]_vars PROVE TypeInv'
    OBVIOUS
  <1>0. TypeOK /\ TokensBounded /\ \A x \in Sessions : tx[x] \in Tx
    BY DEF TypeInv, TypeOK
  <1> USE DEF TypeInv
  <1>1. ASSUME NEW x \in Sessions, NEW g \in Goals, ExpireRead(x, g) PROVE TypeInv'
    <2>1. [op |-> "expire", seen |-> Active \cap lapsed, goal |-> g] \in Tx
      BY TxBuild DEF Active
    <2> QED
      BY <1>0, <1>1, <2>1 DEF TypeOK, TokensBounded, ExpireRead, Begin, files, evidence
  <1>2. ASSUME NEW x \in Sessions, ExpireCommit(x) PROVE TypeInv'
    <2>1. tx[x].goal \in Goals
      BY <1>0, <1>2, TxFields DEF ExpireCommit
    <2>2. tx' \in [Sessions -> Tx]
      BY <1>0, <1>2, <2>1, TxBuild DEF TypeOK, ExpireCommit, Goto
    <2>3. lease' \in [Leases -> [status: LeaseStatuses, token: Nat]]
      BY <1>0, <1>2 DEF TypeOK, ExpireCommit, LeaseStatuses
    <2>4. \A l \in Leases : lease'[l].token = lease[l].token
      BY <1>0, <1>2 DEF TypeOK, ExpireCommit
    <2> QED
      BY <1>0, <1>2, <2>2, <2>3, <2>4 DEF TypeOK, TokensBounded, ExpireCommit, files, evidence
  <1>3. ASSUME NEW x \in Sessions, Rollback(x) PROVE TypeInv'
    <2>1. roomLock' \in [Rooms -> {{}} \cup {{y} : y \in Sessions}]
      BY <1>0, <1>3, UnlockedType DEF Rollback
    <2> QED
      BY <1>0, <1>3, <2>1, TxBuild DEF TypeOK, TokensBounded, Rollback, Goto, files, evidence
  <1>4. ASSUME NEW x \in Sessions, NEW l \in Leases, AcquireLock(x, l) PROVE TypeInv'
    <2>1. [op |-> "acquiring", lease |-> l, token |-> NextToken(Room(l))] \in Tx
      BY <1>0, NextTokenAbove, TxBuild
    <2>2. roomLock' \in [Rooms -> {{}} \cup {{y} : y \in Sessions}]
      BY <1>0, <1>4 DEF TypeOK, AcquireLock
    <2> QED
      BY <1>0, <1>4, <2>1, <2>2 DEF TypeOK, TokensBounded, AcquireLock, Goto, files, evidence
  <1>5. ASSUME NEW x \in Sessions, NEW l \in Leases, AcquireCommit(x, l) PROVE TypeInv'
    <2>1. tx[x].token \in Nat
      BY <1>0, <1>5, TxFields DEF AcquireCommit
    <2>2. lease' \in [Leases -> [status: LeaseStatuses, token: Nat]]
      BY <1>0, <1>5, <2>1 DEF TypeOK, AcquireCommit, LeaseStatuses
    <2>3. roomLock' \in [Rooms -> {{}} \cup {{y} : y \in Sessions}]
      BY <1>0, <1>5, UnlockedType DEF AcquireCommit
    <2>4. TokensBounded'
      <3>1. PICK b \in Nat : \A k \in Leases : lease[k].token <= b
        BY <1>0 DEF TokensBounded
      <3>2. \A k \in Leases : lease'[k].token = IF k = l THEN tx[x].token ELSE lease[k].token
        BY <1>0, <1>5 DEF TypeOK, AcquireCommit
      <3>3. \A k \in Leases : lease[k].token \in Nat
        BY <1>0 DEF TypeOK
      <3>4. \A k \in Leases : lease'[k].token <= b + tx[x].token
        BY <3>1, <3>2, <3>3, <2>1
      <3> QED
        BY <3>1, <3>4, <2>1 DEF TokensBounded
    <2> QED
      BY <1>0, <1>5, <2>2, <2>3, <2>4, TxBuild DEF TypeOK, AcquireCommit, Goto, files, evidence
  <1>6. ASSUME NEW x \in Sessions, NEW l \in Leases, Renew(x, l) PROVE TypeInv'
    BY <1>0, <1>6, TxBuild DEF TypeOK, TokensBounded, Renew, Goto, files, evidence
  <1>7. ASSUME NEW l \in Leases, NEW forced \in BOOLEAN, Release(l, forced) PROVE TypeInv'
    <2>1. lease' \in [Leases -> [status: LeaseStatuses, token: Nat]]
      BY <1>0, <1>7 DEF TypeOK, Release, LeaseStatuses
    <2>2. \A k \in Leases : lease'[k].token = lease[k].token
      BY <1>0, <1>7 DEF TypeOK, Release
    <2> QED
      BY <1>0, <1>7, <2>1, <2>2 DEF TypeOK, TokensBounded, Release, files, evidence
  <1>8. ASSUME NEW x \in Sessions, WriteCheck(x) PROVE TypeInv'
    <2>1. \A op \in {"checked", "ready"} : [tx[x] EXCEPT !.op = op] \in Tx
      BY <1>0, <1>8, WriteStage DEF WriteCheck
    <2>2. tx' \in [Sessions -> Tx]
      BY <1>0, <1>8, <2>1 DEF TypeOK, WriteCheck, Goto
    <2> QED
      BY <1>0, <1>8, <2>2 DEF TypeOK, TokensBounded, WriteCheck, files, evidence
  <1>9. ASSUME NEW x \in Sessions, WriteState(x) PROVE TypeInv'
    <2>1. [tx[x] EXCEPT !.op = "ready"] \in Tx
      BY <1>0, <1>9, WriteStage DEF WriteState
    <2> QED
      BY <1>0, <1>9, <2>1 DEF TypeOK, TokensBounded, WriteState, Goto, files, evidence
  <1>10. ASSUME NEW x \in Sessions, WriteApply(x) PROVE TypeInv'
    <2>1. [tx[x] EXCEPT !.op = "done"] \in Tx
      BY <1>0, <1>10, WriteStage DEF WriteApply
    <2>2. tx[x].lease \in Leases \cup {NoLease} /\ tx[x].path \in Paths
      BY <1>0, <1>10, TxFields DEF WriteApply
    <2>3. file' \in [Paths -> Nat]
      BY <1>0, <1>10, <2>2 DEF TypeOK, WriteApply
    <2>4. tx[x].expected \in Nat /\ file[tx[x].path] + 1 \in Nat /\ Covering(tx[x].path) \in SUBSET Leases
      BY <1>0, <1>10, <2>2, TxFields DEF TypeOK, WriteApply, Covering, Active
    <2>5. landed' \in SUBSET [lease: Leases \cup {NoLease}, path: Paths, expected: Nat,
                              version: Nat, inForce: SUBSET Leases]
      BY <1>0, <1>10, <2>2, <2>4 DEF TypeOK, WriteApply
    <2> QED
      BY <1>0, <1>10, <2>1, <2>3, <2>5 DEF TypeOK, TokensBounded, WriteApply, Goto, evidence
  <1>11. ASSUME NEW x \in Sessions, WritePersist(x) PROVE TypeInv'
    <2>1. [lease |-> tx[x].lease, path |-> tx[x].path] \in Write
      BY <1>0, <1>11, TxFields DEF WritePersist, Write
    <2> QED
      BY <1>0, <1>11, <2>1, TxBuild DEF TypeOK, TokensBounded, WritePersist, Goto, evidence
  <1>12. ASSUME NEW h \in Handoffs,
                CreateHandoff(h) \/ MarkHandoffReady(h) \/ \E safe \in BOOLEAN : AcceptHandoff(h, safe)
         PROVE  TypeInv'
    BY <1>0, <1>12 DEF TypeOK, TokensBounded, CreateHandoff, MarkHandoffReady, AcceptHandoff,
                       HandoffStatuses, files
  <1>13. ASSUME NEW i \in Integrations, NEW safe \in BOOLEAN, CreateIntegration(i, safe)
         PROVE  TypeInv'
    BY <1>0, <1>13 DEF TypeOK, TokensBounded, CreateIntegration, IntegrationStatuses, files
  <1>14. ASSUME NEW i \in Integrations, NEW st \in {"approved", "integrated", "rejected"},
                NEW head \in BOOLEAN, CompleteIntegration(i, st, head)
         PROVE  TypeInv'
    <2>1. integration' \in [Integrations -> [status: IntegrationStatuses, safe: BOOLEAN, version: Nat]]
      BY <1>0, <1>14 DEF TypeOK, CompleteIntegration, IntegrationStatuses
    <2> QED
      BY <1>0, <1>14, <2>1 DEF TypeOK, TokensBounded, CompleteIntegration, files
  <1>15. ASSUME NEW l \in Leases, Lapse(l) PROVE TypeInv'
    BY <1>0, <1>15 DEF TypeOK, TokensBounded, Lapse, files, evidence
  <1>16. CASE UNCHANGED vars
    BY <1>0, <1>16 DEF TypeOK, TokensBounded, vars
  <1>17. ASSUME NEW x \in Sessions, Request(x) PROVE \E g \in Goals : ExpireRead(x, g)
    BY <1>0, <1>17 DEF Request, Goals, TypeOK
  <1> QED
    BY <1>1, <1>2, <1>3, <1>4, <1>5, <1>6, <1>7, <1>8, <1>9, <1>10, <1>11, <1>12, <1>13,
       <1>14, <1>15, <1>16, <1>17 DEF Next, SessionStep, RowStep

\* Rows and open transactions keep their types.
LEMMA TypeAlways == Spec => []TypeInv
  BY TypeInit, TypeStep, PTL DEF Spec

(* Rows, locks and open requests keep their types; a room row is locked by   *)
(* at most one session (acquire_lease).                                      *)
THEOREM TypeCorrect == Spec => []TypeOK
  BY TypeAlways, PTL DEF TypeInv

-----------------------------------------------------------------------------
(* Exclusive leases.                                                         *)
(*                                                                           *)
(* ExclusiveLeases is not inductive: acquire_lease commits a decision it     *)
(* took earlier.  AcquireInv says what keeps the decision true until then:   *)
(* the session still holds the room row, nothing that conflicts has become   *)
(* active and no token of the room has reached the one it will write.        *)

AcquireInv ==
    \A x \in Sessions : tx[x].op = "acquiring" =>
        LET l == tx[x].lease IN
        /\ roomLock[Room(l)] = {x}
        /\ \A k \in Leases : Room(k) = Room(l) =>
               /\ lease[k].status = "active" => ~Conflict(k, l)
               /\ lease[k].token < tx[x].token

LeaseInv == TypeInv /\ AcquireInv /\ ExclusiveLeases

\* Two leases conflict in either order.
LEMMA ConflictSymmetric ==
    ASSUME NEW k \in Leases, NEW l \in Leases, Conflict(k, l)
    PROVE  Conflict(l, k)
  <1>1. <<Claim[k].area, Claim[l].area>> \in Overlap => <<Claim[l].area, Claim[k].area>> \in Overlap
    BY ConstantsAssumption
  <1> QED
    BY <1>1 DEF Conflict

\* No lease is active at first.
LEMMA LeaseInit == Init => LeaseInv
  <1>1. Init => AcquireInv
    BY DEF Init, AcquireInv, Idle
  <1>2. Init => ExclusiveLeases
    BY DEF Init, ExclusiveLeases, Active
  <1> QED
    BY <1>1, <1>2, TypeInit DEF LeaseInv

(* What a step that neither locks nor grants can do to leases: end some.     *)
Ending ==
    /\ \A k \in Leases : lease'[k].token = lease[k].token
    /\ \A k \in Leases : lease'[k].status = "active" => lease[k].status = "active"
    /\ \A k \in Leases : lease[k].status \notin {"none", "active"} =>
          lease'[k].status \notin {"none", "active"}
    /\ \A k \in Leases : lease'[k].status = "none" => lease[k].status = "none"

(* Every step locks a room for a lease, grants one, or ends leases; a step   *)
(* of session x leaves the requests and the locks of the others alone.       *)
LEMMA StepKinds ==
    ASSUME TypeInv, [Next]_vars
    PROVE  \/ \E x \in Sessions, l \in Leases : AcquireLock(x, l) \/ AcquireCommit(x, l)
           \/ /\ Ending
              /\ \A x \in Sessions : tx'[x].op = "acquiring" => tx'[x] = tx[x]
              /\ \A x \in Sessions : tx'[x].op = "acquiring" =>
                    \A r \in Rooms : roomLock[r] = {x} => roomLock'[r] = {x}
  <1> DEFINE Kept == /\ \A x \in Sessions : tx'[x].op = "acquiring" => tx'[x] = tx[x]
                     /\ \A x \in Sessions : tx'[x].op = "acquiring" =>
                           \A r \in Rooms : roomLock[r] = {x} => roomLock'[r] = {x}
  <1>0. TypeOK /\ \A x \in Sessions : tx[x] \in Tx
    BY DEF TypeInv, TypeOK
  <1>1. ASSUME NEW x \in Sessions, NEW g \in Goals, ExpireRead(x, g) PROVE Ending /\ Kept
    BY <1>0, <1>1 DEF TypeOK, ExpireRead, Begin, Ending
  <1>2. ASSUME NEW x \in Sessions, ExpireCommit(x) PROVE Ending /\ Kept
    <2>1. Ending
      BY <1>0, <1>2 DEF TypeOK, ExpireCommit, Ending
    <2>2. tx[x].goal.op # "acquiring"
      BY <1>0, <1>2, TxFields DEF ExpireCommit, Goals
    <2>3. tx'[x].op # "acquiring"
      BY <1>0, <1>2, <2>2 DEF TypeOK, ExpireCommit, Goto, Idle
    <2> QED
      BY <1>0, <1>2, <2>1, <2>3 DEF TypeOK, ExpireCommit, Goto
  <1>3. ASSUME NEW x \in Sessions, Rollback(x) PROVE Ending /\ Kept
    BY <1>0, <1>3 DEF TypeOK, Rollback, Goto, Idle, Unlocked, Ending
  <1>4. ASSUME NEW x \in Sessions, NEW l \in Leases, Renew(x, l) PROVE Ending /\ Kept
    BY <1>0, <1>4 DEF TypeOK, Renew, Goto, Idle, Ending
  <1>5. ASSUME NEW l \in Leases, NEW forced \in BOOLEAN, Release(l, forced) PROVE Ending /\ Kept
    BY <1>0, <1>5 DEF TypeOK, Release, Ending
  <1>6. ASSUME NEW x \in Sessions, WriteCheck(x) \/ WriteState(x) \/ WriteApply(x) PROVE Ending /\ Kept
    <2>1. tx[x].op \in {"write", "checked", "ready"}
      BY <1>6 DEF WriteCheck, WriteState, WriteApply
    <2>2. PICK op \in {"checked", "ready", "done"} : tx' = [tx EXCEPT ![x] = [tx[x] EXCEPT !.op = op]]
      BY <1>6 DEF WriteCheck, WriteState, WriteApply, Goto
    <2>3. [tx[x] EXCEPT !.op = op].op = op
      BY <1>0, <2>1 DEF Tx, Idle, Goals
    <2>4. tx'[x].op = op
      BY <1>0, <2>2, <2>3 DEF TypeOK
    <2>5. UNCHANGED <<lease, roomLock>>
      BY <1>6 DEF WriteCheck, WriteState, WriteApply
    <2> QED
      BY <1>0, <2>2, <2>4, <2>5 DEF TypeOK, Ending
  <1>7. ASSUME NEW x \in Sessions, WritePersist(x) PROVE Ending /\ Kept
    BY <1>0, <1>7 DEF TypeOK, WritePersist, Goto, Idle, Ending
  <1>8. ASSUME UNCHANGED <<lease, roomLock, tx>> PROVE Ending /\ Kept
    BY <1>8 DEF Ending
  <1>9. ASSUME NEW x \in Sessions, Request(x) PROVE \E g \in Goals : ExpireRead(x, g)
    BY <1>0, <1>9 DEF Request, Goals, TypeOK
  <1>10. CASE UNCHANGED vars
    BY <1>10, <1>8 DEF vars
  <1>11. CASE RowStep
    <2>1. \A l \in Leases : Lapse(l) => UNCHANGED <<lease, roomLock, tx>>
      BY DEF Lapse
    <2>2. \A h \in Handoffs :
            CreateHandoff(h) \/ MarkHandoffReady(h) \/ (\E safe \in BOOLEAN : AcceptHandoff(h, safe))
            => UNCHANGED <<lease, roomLock, tx>>
      BY DEF CreateHandoff, MarkHandoffReady, AcceptHandoff
    <2>3. \A i \in Integrations :
            \/ \E safe \in BOOLEAN : CreateIntegration(i, safe)
            \/ \E st \in {"approved", "integrated", "rejected"}, head \in BOOLEAN :
                  CompleteIntegration(i, st, head)
            => UNCHANGED <<lease, roomLock, tx>>
      BY DEF CreateIntegration, CompleteIntegration
    <2> QED
      BY <1>5, <1>8, <1>11, <2>1, <2>2, <2>3 DEF RowStep
  <1>12. CASE \E x \in Sessions : SessionStep(x)
    BY <1>1, <1>2, <1>3, <1>4, <1>6, <1>7, <1>9, <1>12 DEF SessionStep
  <1> QED
    BY <1>10, <1>11, <1>12 DEF Next

\* Every step keeps active leases apart: an acquisition checks under the
\* lock of the room, and no other step makes a lease active.
LEMMA LeaseStep == LeaseInv /\ [Next]_vars => LeaseInv'
  <1> SUFFICES ASSUME LeaseInv, [Next]_vars PROVE AcquireInv' /\ ExclusiveLeases'
    BY TypeStep DEF LeaseInv
  <1>0. TypeInv /\ TypeOK /\ TokensBounded /\ AcquireInv /\ ExclusiveLeases
    BY DEF LeaseInv, TypeInv
  <1>t. \A x \in Sessions : tx[x] \in Tx
    BY <1>0 DEF TypeOK
  <1>r. \A l \in Leases : Room(l) \in Rooms
    BY ConstantsAssumption DEF Room
  <1>1. ASSUME NEW x \in Sessions, NEW l \in Leases, AcquireLock(x, l)
        PROVE  AcquireInv' /\ ExclusiveLeases'
    <2>1. ExclusiveLeases'
      BY <1>0, <1>1 DEF ExclusiveLeases, Active, AcquireLock
    <2>2. tx'[x] = [op |-> "acquiring", lease |-> l, token |-> NextToken(Room(l))]
      BY <1>0, <1>1 DEF TypeOK, AcquireLock, Goto
    <2>3. \A y \in Sessions \ {x} : tx'[y] = tx[y]
      BY <1>0, <1>1 DEF TypeOK, AcquireLock, Goto
    <2>4. \A r \in Rooms : roomLock'[r] = IF r = Room(l) THEN {x} ELSE roomLock[r]
      BY <1>0, <1>1 DEF TypeOK, AcquireLock
    <2>5. roomLock[Room(l)] = {} /\ lease' = lease
          /\ \A k \in Leases : lease[k].status = "active" /\ Room(k) = Room(l) => ~Conflict(k, l)
      BY <1>1 DEF AcquireLock, Active
    <2>6. \A k \in Leases : Room(k) = Room(l) => lease[k].token < NextToken(Room(l))
      BY <1>0, NextTokenAbove
    <2>7. SUFFICES ASSUME NEW y \in Sessions, tx'[y].op = "acquiring"
          PROVE  /\ roomLock'[Room(tx'[y].lease)] = {y}
                 /\ \A k \in Leases : Room(k) = Room(tx'[y].lease) =>
                        /\ lease'[k].status = "active" => ~Conflict(k, tx'[y].lease)
                        /\ lease'[k].token < tx'[y].token
      BY <2>1 DEF AcquireInv, Room, Conflict
    <2>8. CASE y = x
      BY <1>r, <2>2, <2>4, <2>5, <2>6, <2>8
    <2>9. CASE y # x
      <3>1. tx'[y] = tx[y] /\ tx[y].op = "acquiring" /\ tx[y].lease \in Leases
        BY <1>t, <2>3, <2>7, <2>9, TxFields
      <3>2. roomLock[Room(tx[y].lease)] = {y}
            /\ \A k \in Leases : Room(k) = Room(tx[y].lease) =>
                   /\ lease[k].status = "active" => ~Conflict(k, tx[y].lease)
                   /\ lease[k].token < tx[y].token
        BY <1>0, <3>1 DEF AcquireInv
      <3>3. Room(tx[y].lease) # Room(l)
        BY <2>5, <3>2
      <3> QED
        BY <1>r, <2>4, <2>5, <3>1, <3>2, <3>3
    <2> QED
      BY <2>8, <2>9
  <1>2. ASSUME NEW x \in Sessions, NEW l \in Leases, AcquireCommit(x, l)
        PROVE  AcquireInv' /\ ExclusiveLeases'
    <2>1. tx[x].op = "acquiring" /\ tx[x].lease = l
      BY <1>2 DEF AcquireCommit
    <2>2. /\ roomLock[Room(l)] = {x}
          /\ \A k \in Leases : Room(k) = Room(l) /\ lease[k].status = "active" => ~Conflict(k, l)
      BY <1>0, <2>1 DEF AcquireInv
    <2>3. \A k \in Leases \ {l} : lease'[k] = lease[k]
      BY <1>0, <1>2 DEF TypeOK, AcquireCommit
    <2>4. ExclusiveLeases'
      <3> SUFFICES ASSUME NEW j \in Leases, NEW k \in Leases, j # k, Room(j) = Room(k),
                          lease'[j].status = "active", lease'[k].status = "active"
                   PROVE  ~Conflict(j, k)
        BY DEF ExclusiveLeases, Active, Conflict, Room
      <3>1. CASE j # l /\ k # l
        BY <1>0, <2>3, <3>1 DEF ExclusiveLeases, Active
      <3>2. CASE k = l
        BY <2>2, <2>3, <3>2
      <3>3. CASE j = l
        BY <2>2, <2>3, <3>3, ConflictSymmetric
      <3> QED
        BY <3>1, <3>2, <3>3
    <2>5. tx'[x] = Idle /\ \A y \in Sessions \ {x} : tx'[y] = tx[y]
      BY <1>0, <1>2 DEF TypeOK, AcquireCommit, Goto
    <2>6. SUFFICES ASSUME NEW y \in Sessions, tx'[y].op = "acquiring"
          PROVE  /\ roomLock'[Room(tx'[y].lease)] = {y}
                 /\ \A k \in Leases : Room(k) = Room(tx'[y].lease) =>
                        /\ lease'[k].status = "active" => ~Conflict(k, tx'[y].lease)
                        /\ lease'[k].token < tx'[y].token
      BY <2>4 DEF AcquireInv, Room, Conflict
    <2>7. y # x
      BY <2>5, <2>6 DEF Idle
    <2>8. tx'[y] = tx[y] /\ tx[y].op = "acquiring" /\ tx[y].lease \in Leases
      BY <1>t, <2>5, <2>6, <2>7, TxFields
    <2>9. roomLock[Room(tx[y].lease)] = {y}
          /\ \A k \in Leases : Room(k) = Room(tx[y].lease) =>
                 /\ lease[k].status = "active" => ~Conflict(k, tx[y].lease)
                 /\ lease[k].token < tx[y].token
      BY <1>0, <2>8 DEF AcquireInv
    <2>10. Room(tx[y].lease) # Room(l)
      BY <2>2, <2>7, <2>9
    <2>11. \A k \in Leases : Room(k) = Room(tx[y].lease) => k # l
      BY <2>10
    <2>12. roomLock'[Room(tx[y].lease)] = {y}
      BY <1>2, <1>r, <2>7, <2>8, <2>9 DEF AcquireCommit, Unlocked
    <2> QED
      BY <2>3, <2>8, <2>9, <2>11, <2>12
  <1>3. ASSUME Ending,
               \A x \in Sessions : tx'[x].op = "acquiring" => tx'[x] = tx[x],
               \A x \in Sessions : tx'[x].op = "acquiring" =>
                   \A r \in Rooms : roomLock[r] = {x} => roomLock'[r] = {x}
        PROVE  AcquireInv' /\ ExclusiveLeases'
    <2>1. ExclusiveLeases'
      BY <1>0, <1>3 DEF ExclusiveLeases, Active, Ending, Conflict, Room
    <2>2. SUFFICES ASSUME NEW y \in Sessions, tx'[y].op = "acquiring"
          PROVE  /\ roomLock'[Room(tx'[y].lease)] = {y}
                 /\ \A k \in Leases : Room(k) = Room(tx'[y].lease) =>
                        /\ lease'[k].status = "active" => ~Conflict(k, tx'[y].lease)
                        /\ lease'[k].token < tx'[y].token
      BY <2>1 DEF AcquireInv, Room, Conflict
    <2>3. tx'[y] = tx[y] /\ tx[y].op = "acquiring" /\ tx[y].lease \in Leases
      BY <1>t, <1>3, <2>2, TxFields
    <2>4. roomLock[Room(tx[y].lease)] = {y}
          /\ \A k \in Leases : Room(k) = Room(tx[y].lease) =>
                 /\ lease[k].status = "active" => ~Conflict(k, tx[y].lease)
                 /\ lease[k].token < tx[y].token
      BY <1>0, <2>3 DEF AcquireInv
    <2> QED
      BY <1>3, <1>r, <2>2, <2>3, <2>4 DEF Ending
  <1> QED
    BY <1>0, <1>1, <1>2, <1>3, StepKinds

\* The invariant of acquire_lease holds in every state.
LEMMA LeaseAlways == Spec => []LeaseInv
  BY LeaseInit, LeaseStep, PTL DEF Spec

(* Active leases of a room never conflict, for any number of overlapping     *)
(* acquire, renew, release and expiry requests (acquire_lease).              *)
THEOREM ExclusiveCorrect == Spec => []ExclusiveLeases
  BY LeaseAlways, PTL DEF LeaseInv

-----------------------------------------------------------------------------
(* Action properties *)

(* What an expiry has read was granted: only acquire_lease creates rows.     *)
SeenInv ==
    \A x \in Sessions : tx[x].op = "expire" =>
        \A l \in tx[x].seen : lease[l].status # "none"

\* An open expiry has seen only leases that were granted.
LEMMA SeenStep ==
    ASSUME TypeInv, SeenInv, [Next]_vars
    PROVE  SeenInv'
  <1> DEFINE Kept == \A x \in Sessions : tx'[x].op = "expire" => tx'[x] = tx[x]
  <1>0. TypeOK /\ \A x \in Sessions : tx[x] \in Tx
    BY DEF TypeInv, TypeOK
  <1>1. \A k \in Leases : lease'[k].status = "none" => lease[k].status = "none"
    <2>1. ASSUME NEW x \in Sessions, NEW l \in Leases, AcquireLock(x, l) \/ AcquireCommit(x, l)
          PROVE  \A k \in Leases : lease'[k].status = "none" => lease[k].status = "none"
      BY <1>0, <2>1 DEF TypeOK, AcquireLock, AcquireCommit
    <2> QED
      BY <2>1, StepKinds DEF Ending
  <1>2. ASSUME Kept PROVE SeenInv'
    BY <1>0, <1>1, <1>2, TxFields DEF SeenInv
  <1>3. ASSUME NEW x \in Sessions, NEW g \in Goals, ExpireRead(x, g) PROVE SeenInv'
    <2>1. tx'[x] = [op |-> "expire", seen |-> Active \cap lapsed, goal |-> g] /\ lease' = lease
      BY <1>0, <1>3 DEF TypeOK, ExpireRead, Begin
    <2>2. \A y \in Sessions \ {x} : tx'[y] = tx[y]
      BY <1>0, <1>3 DEF TypeOK, ExpireRead, Begin
    <2> QED
      BY <2>1, <2>2 DEF SeenInv, Active
  <1>4. ASSUME NEW x \in Sessions, ExpireCommit(x) PROVE Kept
    <2>1. tx[x].goal.op # "expire"
      BY <1>0, <1>4, TxFields DEF ExpireCommit, Goals
    <2>2. tx'[x].op # "expire"
      BY <1>0, <1>4, <2>1 DEF TypeOK, ExpireCommit, Goto, Idle
    <2> QED
      BY <1>0, <1>4, <2>2 DEF TypeOK, ExpireCommit, Goto
  <1>5. ASSUME NEW x \in Sessions, Rollback(x) \/ WritePersist(x) PROVE Kept
    BY <1>0, <1>5 DEF TypeOK, Rollback, WritePersist, Goto, Idle
  <1>6. ASSUME NEW x \in Sessions, NEW l \in Leases,
               AcquireLock(x, l) \/ AcquireCommit(x, l) \/ Renew(x, l)
        PROVE  Kept
    BY <1>0, <1>6 DEF TypeOK, AcquireLock, AcquireCommit, Renew, Goto, Idle
  <1>7. ASSUME NEW x \in Sessions, WriteCheck(x) \/ WriteState(x) \/ WriteApply(x) PROVE Kept
    <2>1. tx[x].op \in {"write", "checked", "ready"}
      BY <1>7 DEF WriteCheck, WriteState, WriteApply
    <2>2. PICK op \in {"checked", "ready", "done"} : tx' = [tx EXCEPT ![x] = [tx[x] EXCEPT !.op = op]]
      BY <1>7 DEF WriteCheck, WriteState, WriteApply, Goto
    <2>3. [tx[x] EXCEPT !.op = op].op = op
      BY <1>0, <2>1 DEF Tx, Idle, Goals
    <2>4. tx'[x].op = op
      BY <1>0, <2>2, <2>3 DEF TypeOK
    <2> QED
      BY <1>0, <2>2, <2>4 DEF TypeOK
  <1>8. CASE RowStep
    BY <1>2, <1>8 DEF RowStep, Lapse, Release, CreateHandoff, MarkHandoffReady, AcceptHandoff,
                      CreateIntegration, CompleteIntegration
  <1>9. ASSUME NEW x \in Sessions, Request(x) PROVE \E g \in Goals : ExpireRead(x, g)
    BY <1>0, <1>9 DEF Request, Goals, TypeOK
  <1>10. CASE UNCHANGED vars
    BY <1>2, <1>10 DEF vars
  <1>11. CASE \E x \in Sessions : SessionStep(x)
    BY <1>2, <1>3, <1>4, <1>5, <1>6, <1>7, <1>9, <1>11 DEF SessionStep
  <1> QED
    BY <1>8, <1>10, <1>11 DEF Next

\* An open expiry never holds a lease that was not granted.
LEMMA SeenAlways == Spec => []SeenInv
  <1>1. Init => SeenInv
    BY DEF Init, SeenInv, Idle
  <1> QED
    BY <1>1, SeenStep, TypeAlways, PTL DEF Spec

(* A lease row comes into being only by acquire_lease's commit.              *)
LEMMA GrantStep ==
    ASSUME TypeInv, SeenInv, [Next]_vars, NEW l \in Leases,
           lease[l].status = "none", lease'[l].status # "none"
    PROVE  \E x \in Sessions : AcquireCommit(x, l)
  <1>0. TypeOK /\ \A x \in Sessions : tx[x] \in Tx
    BY DEF TypeInv, TypeOK
  <1>1. ASSUME NEW x \in Sessions, ExpireCommit(x) PROVE FALSE
    BY <1>0, <1>1 DEF TypeOK, ExpireCommit, SeenInv
  <1>2. ASSUME NEW x \in Sessions, NEW k \in Leases, AcquireCommit(x, k) PROVE k = l
    BY <1>0, <1>2 DEF TypeOK, AcquireCommit
  <1>3. ASSUME NEW k \in Leases, NEW forced \in BOOLEAN, Release(k, forced) PROVE FALSE
    BY <1>0, <1>3 DEF TypeOK, Release
  <1>4. lease' # lease
    OBVIOUS
  <1>5. CASE \E x \in Sessions : SessionStep(x)
    BY <1>1, <1>2, <1>4, <1>5 DEF SessionStep, Request, ExpireRead, Rollback, AcquireLock, Renew,
                                 WriteCheck, WriteState, WriteApply, WritePersist
  <1>6. CASE RowStep
    BY <1>3, <1>4, <1>6 DEF RowStep, Lapse, CreateHandoff, MarkHandoffReady, AcceptHandoff,
                            CreateIntegration, CompleteIntegration
  <1> QED
    BY <1>4, <1>5, <1>6 DEF Next, vars

(* A new lease's fencing token exceeds all earlier ones (acquire_lease).     *)
THEOREM TokensCorrect == Spec => TokensIncrease
  <1> DEFINE Grows == \A l \in Leases : lease[l].status = "none" /\ lease'[l].status # "none" =>
                        \A k \in Leases : Room(k) = Room(l) => lease[k].token < lease'[l].token
  <1>1. LeaseInv /\ SeenInv /\ [Next]_vars => [Grows]_vars
    <2> SUFFICES ASSUME LeaseInv, SeenInv, [Next]_vars, NEW l \in Leases,
                        lease[l].status = "none", lease'[l].status # "none"
                 PROVE  \A k \in Leases : Room(k) = Room(l) => lease[k].token < lease'[l].token
      OBVIOUS
    <2>0. TypeInv /\ TypeOK /\ AcquireInv
      BY DEF LeaseInv, TypeInv
    <2>1. PICK x \in Sessions : AcquireCommit(x, l)
      BY <2>0, GrantStep
    <2>2. lease'[l].token = tx[x].token
      BY <2>0, <2>1 DEF AcquireCommit, TypeOK
    <2> QED
      BY <2>0, <2>1, <2>2 DEF AcquireInv, AcquireCommit
  <1> QED
    BY <1>1, LeaseAlways, SeenAlways, PTL DEF Spec, TokensIncrease

Ended == {"released", "revoked", "expired"}

(* A lease that ended is never active again (renew_lease, acquire_lease,     *)
(* expire_stale_leases).                                                     *)
LEMMA EndedStep ==
    ASSUME TypeInv, [Next]_vars, NEW l \in Leases, lease[l].status \in Ended
    PROVE  lease'[l].status \in Ended
  <1>0. TypeOK /\ TypeOK'
    BY TypeStep DEF TypeInv
  <1>1. lease'[l].status \in LeaseStatuses
    BY <1>0 DEF TypeOK
  <1>2. ASSUME NEW x \in Sessions, NEW k \in Leases, AcquireLock(x, k) \/ AcquireCommit(x, k)
        PROVE  lease'[l] = lease[l]
    BY <1>0, <1>2 DEF TypeOK, AcquireLock, AcquireCommit, Ended
  <1>3. ASSUME Ending PROVE lease'[l].status \in Ended
    BY <1>1, <1>3 DEF Ending, Ended, LeaseStatuses
  <1> QED
    BY <1>2, <1>3, StepKinds

\* A lease that was released, revoked or has expired never becomes active
\* again, whatever renewal, expiry or release was read before it ended
\* (renew_lease, release_lease, _expire_stale_leases).
THEOREM EndedCorrect == Spec => EndedLeaseStaysEnded
  <1>1. TypeInv /\ [Next]_vars =>
          [\A l \in Leases : lease[l].status \in {"released", "revoked", "expired"} =>
               lease'[l].status \in {"released", "revoked", "expired"}]_vars
    BY EndedStep DEF Ended
  <1> QED
    BY <1>1, TypeAlways, PTL DEF Spec, EndedLeaseStaysEnded

-----------------------------------------------------------------------------
(* Handoffs, integrations and writes *)

\* A granted lease stays a lease: its row is never taken away.
LEMMA GrantedStep ==
    ASSUME TypeInv, [Next]_vars, NEW l \in Leases, lease[l].status # "none"
    PROVE  lease'[l].status # "none"
  <1>0. TypeOK
    BY DEF TypeInv
  <1>1. ASSUME NEW x \in Sessions, NEW k \in Leases, AcquireLock(x, k) \/ AcquireCommit(x, k)
        PROVE  lease'[l] = lease[l]
    BY <1>0, <1>1 DEF TypeOK, AcquireLock, AcquireCommit
  <1> QED
    BY <1>1, StepKinds DEF Ending

(* Who changes handoffs, integrations and landed writes. *)
LEMMA EvidenceKinds ==
    ASSUME [Next]_vars
    PROVE  /\ \/ handoff' = handoff
              \/ \E h \in Handoffs :
                    CreateHandoff(h) \/ MarkHandoffReady(h) \/ \E safe \in BOOLEAN : AcceptHandoff(h, safe)
           /\ \/ integration' = integration
              \/ \E i \in Integrations :
                    \/ \E safe \in BOOLEAN : CreateIntegration(i, safe)
                    \/ \E st \in {"approved", "integrated", "rejected"}, head \in BOOLEAN :
                          CompleteIntegration(i, st, head)
           /\ (file' = file /\ landed' = landed) \/ \E x \in Sessions : WriteApply(x)
  <1>1. CASE \E x \in Sessions : SessionStep(x)
    BY <1>1 DEF SessionStep, Request, ExpireRead, ExpireCommit, Rollback, AcquireLock, AcquireCommit,
                Renew, WriteCheck, WriteState, WriteApply, WritePersist, files, evidence
  <1>2. CASE RowStep
    BY <1>2 DEF RowStep, Lapse, Release, CreateHandoff, MarkHandoffReady, AcceptHandoff,
                CreateIntegration, CompleteIntegration, files, evidence
  <1>3. CASE UNCHANGED vars
    BY <1>3 DEF vars
  <1> QED
    BY <1>1, <1>2, <1>3 DEF Next

(* The source lease of a handoff was granted, so when it is not active it    *)
(* has ended.                                                                *)
HandoffInv ==
    \A h \in Handoffs :
        /\ handoff[h] # "none" => lease[Source[h]].status # "none"
        /\ handoff[h] = "accepted" => lease[Source[h]].status \in Ended

(* A handoff is accepted only after its source lease ended, and then it      *)
(* stays ended (accept_handoff).                                             *)
THEOREM HandoffCorrect == Spec => []HandoffAfterRelease
  <1>1. Init => HandoffInv
    BY DEF Init, HandoffInv
  <1>2. TypeInv /\ HandoffInv /\ [Next]_vars => HandoffInv'
    <2> SUFFICES ASSUME TypeInv, HandoffInv, [Next]_vars, NEW h \in Handoffs
                 PROVE  /\ handoff'[h] # "none" => lease'[Source[h]].status # "none"
                        /\ handoff'[h] = "accepted" => lease'[Source[h]].status \in Ended
      BY DEF HandoffInv
    <2>0. TypeOK /\ Source[h] \in Leases
      BY ConstantsAssumption DEF TypeInv
    <2>1. CASE handoff'[h] = handoff[h]
      BY <2>0, <2>1, GrantedStep, EndedStep DEF HandoffInv
    <2>2. CASE CreateHandoff(h) \/ MarkHandoffReady(h) \/ \E safe \in BOOLEAN : AcceptHandoff(h, safe)
      <3>1. lease[Source[h]].status \in LeaseStatuses
        BY <2>0 DEF TypeOK
      <3> QED
        BY <2>0, <2>2, <3>1 DEF TypeOK, HandoffInv, CreateHandoff, MarkHandoffReady, AcceptHandoff,
                                Ended, LeaseStatuses
    <2>3. ASSUME NEW k \in Handoffs \ {h},
                 CreateHandoff(k) \/ MarkHandoffReady(k) \/ \E safe \in BOOLEAN : AcceptHandoff(k, safe)
          PROVE  handoff'[h] = handoff[h]
      BY <2>0, <2>3 DEF TypeOK, CreateHandoff, MarkHandoffReady, AcceptHandoff
    <2> QED
      BY <2>1, <2>2, <2>3, EvidenceKinds
  <1>3. HandoffInv => HandoffAfterRelease
    BY DEF HandoffInv, HandoffAfterRelease, Ended
  <1> QED
    BY <1>1, <1>2, <1>3, TypeAlways, PTL DEF Spec

(* Source leases have ended when the record is made, and an approval finds   *)
(* the report of that moment.                                                *)
IntegrationInv ==
    \A i \in Integrations :
        /\ integration[i].status # "none" => \A l \in Sources[i] : lease[l].status \in Ended
        /\ integration[i].status \in {"approved", "integrated"} => integration[i].safe

(* Approved and integrated records have a safe report and ended source       *)
(* leases (create_integration, complete_integration).                        *)
THEOREM IntegrationCorrect == Spec => []IntegrationSound
  <1>1. Init => IntegrationInv
    BY DEF Init, IntegrationInv
  <1>2. TypeInv /\ IntegrationInv /\ [Next]_vars => IntegrationInv'
    <2> SUFFICES ASSUME TypeInv, IntegrationInv, [Next]_vars, NEW i \in Integrations
                 PROVE  /\ integration'[i].status # "none" => \A l \in Sources[i] : lease'[l].status \in Ended
                        /\ integration'[i].status \in {"approved", "integrated"} => integration'[i].safe
      BY DEF IntegrationInv
    <2>0. TypeOK /\ Sources[i] \subseteq Leases
      BY ConstantsAssumption DEF TypeInv
    <2>1. CASE integration'[i] = integration[i]
      BY <2>0, <2>1, EndedStep DEF IntegrationInv
    <2>2. ASSUME NEW safe \in BOOLEAN, CreateIntegration(i, safe)
          PROVE  /\ \A l \in Sources[i] : lease'[l].status \in Ended
                 /\ integration'[i].status \in {"approved", "integrated"} => integration'[i].safe
      <3>1. \A l \in Sources[i] : lease[l].status \in LeaseStatuses
        BY <2>0 DEF TypeOK
      <3>2. \A l \in Sources[i] : lease'[l].status \in Ended
        BY <2>2, <3>1 DEF CreateIntegration, Ended, LeaseStatuses
      <3>3. integration'[i].status \in {"review", "blocked"}
        BY <2>0, <2>2 DEF TypeOK, CreateIntegration
      <3> QED
        BY <3>2, <3>3
    <2>3. ASSUME NEW st \in {"approved", "integrated", "rejected"}, NEW head \in BOOLEAN,
                 CompleteIntegration(i, st, head)
          PROVE  /\ \A l \in Sources[i] : lease'[l].status \in Ended
                 /\ integration'[i].status \in {"approved", "integrated"} => integration'[i].safe
      <3>1. integration[i].status # "none" /\ lease' = lease
        BY <2>3 DEF CompleteIntegration
      <3>2. integration'[i].status = st /\ (integration'[i].safe <=> integration[i].safe)
        BY <2>0, <2>3 DEF TypeOK, CompleteIntegration
      <3>3. st \in {"approved", "integrated"} => integration[i].safe
        BY <2>3 DEF CompleteIntegration
      <3> QED
        BY <3>1, <3>2, <3>3 DEF IntegrationInv
    <2>4. ASSUME NEW k \in Integrations \ {i}, NEW safe \in BOOLEAN, CreateIntegration(k, safe)
          PROVE  integration'[i] = integration[i]
      BY <2>0, <2>4 DEF TypeOK, CreateIntegration
    <2>5. ASSUME NEW k \in Integrations \ {i}, NEW st, NEW head, CompleteIntegration(k, st, head)
          PROVE  integration'[i] = integration[i]
      BY <2>0, <2>5 DEF TypeOK, CompleteIntegration
    <2> QED
      BY <2>1, <2>2, <2>3, <2>4, <2>5, EvidenceKinds
  <1>3. IntegrationInv => IntegrationSound
    BY DEF IntegrationInv, IntegrationSound, Ended
  <1> QED
    BY <1>1, <1>2, <1>3, TypeAlways, PTL DEF Spec

(* Guarded writes.                                                           *)
(*                                                                           *)
(* The write is applied some time after file_state was answered.  WriteInv   *)
(* says what has stayed true since: versions on disk are at least those of   *)
(* the landed writes, the lease was granted, and while it is still active    *)
(* nothing landed after the expected version under a lease kept apart from   *)
(* it.                                                                       *)

\* v is a later version than n of path p, landed under a lease in force other
\* than l that the conflict check keeps apart from l.
Intrudes(v, l, p, n) ==
    /\ v.path = p /\ n < v.version
    /\ v.lease \in v.inForce /\ v.lease # l
    /\ KeptApart(v.lease, l)

WriteInv ==
    /\ \A v \in landed : v.version <= file[v.path]
    /\ \A x \in Sessions : tx[x].op \in {"checked", "ready"} /\ tx[x].lease \in Leases =>
          lease[tx[x].lease].status # "none"
    /\ \A x \in Sessions :
          tx[x].op = "ready" /\ tx[x].lease \in Leases /\ tx[x].lease \in Active =>
              \A v \in landed : ~Intrudes(v, tx[x].lease, tx[x].path, tx[x].expected)
    /\ GuardedWriteReplacesExpected

\* A request becomes checked or ready only by its own check of the lease or of
\* the file's state.
LEMMA WriteKinds ==
    ASSUME TypeInv, [Next]_vars, NEW x \in Sessions, tx'[x].op \in {"checked", "ready"}
    PROVE  tx'[x] = tx[x] \/ WriteCheck(x) \/ WriteState(x)
  <1>0. TypeOK /\ \A y \in Sessions : tx[y] \in Tx
    BY DEF TypeInv, TypeOK
  <1>1. ASSUME NEW g, ExpireRead(x, g) PROVE FALSE
    BY <1>0, <1>1 DEF TypeOK, ExpireRead, Begin
  <1>2. ASSUME ExpireCommit(x) PROVE FALSE
    <2>1. tx[x].goal.op \notin {"checked", "ready"}
      BY <1>0, <1>2, TxFields DEF ExpireCommit, Goals
    <2> QED
      BY <1>0, <1>2, <2>1 DEF TypeOK, ExpireCommit, Goto, Idle
  <1>3. ASSUME Rollback(x) \/ WritePersist(x) PROVE FALSE
    BY <1>0, <1>3 DEF TypeOK, Rollback, WritePersist, Goto, Idle
  <1>4. ASSUME NEW l \in Leases, AcquireLock(x, l) \/ AcquireCommit(x, l) \/ Renew(x, l) PROVE FALSE
    BY <1>0, <1>4 DEF TypeOK, AcquireLock, AcquireCommit, Renew, Goto, Idle
  <1>5. ASSUME WriteApply(x) PROVE FALSE
    <2>1. [tx[x] EXCEPT !.op = "done"].op = "done"
      BY <1>0, <1>5 DEF WriteApply, Tx, Idle, Goals
    <2> QED
      BY <1>0, <1>5, <2>1 DEF TypeOK, WriteApply, Goto
  <1>6. ASSUME NEW y \in Sessions \ {x}, SessionStep(y) PROVE tx'[x] = tx[x]
    <2>1. \E t : tx' = [tx EXCEPT ![y] = t]
      BY <1>6 DEF SessionStep, Request, ExpireRead, Begin, ExpireCommit, Rollback, AcquireLock,
                  AcquireCommit, Renew, WriteCheck, WriteState, WriteApply, WritePersist, Goto
    <2> QED
      BY <1>0, <1>6, <2>1 DEF TypeOK
  <1>7. CASE RowStep \/ UNCHANGED vars
    BY <1>7 DEF RowStep, Lapse, Release, CreateHandoff, MarkHandoffReady, AcceptHandoff,
                CreateIntegration, CompleteIntegration, vars
  <1>8. CASE SessionStep(x)
    BY <1>1, <1>2, <1>3, <1>4, <1>5, <1>8 DEF SessionStep, Request
  <1> QED
    BY <1>6, <1>7, <1>8 DEF Next

\* A lease that was granted and is active now was active before the step.
LEMMA ActiveBefore ==
    ASSUME TypeInv, [Next]_vars, NEW l \in Leases,
           lease[l].status # "none", lease'[l].status = "active"
    PROVE  lease[l].status = "active"
  <1>1. lease[l].status \in LeaseStatuses
    BY DEF TypeInv, TypeOK
  <1> QED
    BY <1>1, EndedStep DEF Ended, LeaseStatuses

\* Two leases in force on one path are not kept apart: acquire_lease would have
\* refused the second.
LEMMA InForceApart ==
    ASSUME ExclusiveLeases, NEW p, NEW k \in Covering(p), NEW l \in Active, k # l
    PROVE  ~KeptApart(k, l)
  BY DEF ExclusiveLeases, Covering, Active, KeptApart, Conflict

\* What is known of the writes on their way survives every step.
LEMMA WriteStep ==
    ASSUME LeaseInv, WriteInv, [Next]_vars
    PROVE  WriteInv'
  <1>0. TypeOK /\ TypeInv /\ ExclusiveLeases /\ \A y \in Sessions : tx[y] \in Tx
    BY DEF LeaseInv, TypeInv, TypeOK
  <1>1. ASSUME NEW x \in Sessions, tx'[x].op \in {"checked", "ready"}, tx'[x].lease \in Leases
        PROVE  lease'[tx'[x].lease].status # "none"
    <2>1. CASE tx'[x] = tx[x]
      BY <1>0, <1>1, <2>1, GrantedStep DEF WriteInv
    <2>2. CASE WriteCheck(x)
      <3>1. tx[x].op = "write" /\ lease' = lease
        BY <2>2 DEF WriteCheck
      <3>2. PICK op \in {"checked", "ready"} : tx'[x] = [tx[x] EXCEPT !.op = op]
        BY <1>0, <2>2 DEF WriteCheck, Goto, TypeOK
      <3>3. [tx[x] EXCEPT !.op = op].lease = tx[x].lease
        BY <1>0, <3>1 DEF Tx, Idle, Goals
      <3>4. tx[x].lease # NoLease
        BY <1>1, <3>2, <3>3, ConstantsAssumption
      <3> QED
        BY <1>1, <2>2, <3>1, <3>2, <3>3, <3>4 DEF WriteCheck, Covering, Active
    <2>3. CASE WriteState(x)
      <3>1. tx[x].op = "checked" /\ lease' = lease /\ tx'[x] = [tx[x] EXCEPT !.op = "ready"]
        BY <1>0, <2>3 DEF WriteState, Goto, TypeOK
      <3>2. [tx[x] EXCEPT !.op = "ready"].lease = tx[x].lease
        BY <1>0, <3>1 DEF Tx, Idle, Goals
      <3> QED
        BY <1>1, <3>1, <3>2 DEF WriteInv
    <2> QED
      BY <1>0, <1>1, <2>1, <2>2, <2>3, WriteKinds
  <1>2. CASE file' = file /\ landed' = landed
    <2>1. ASSUME NEW x \in Sessions, tx'[x].op = "ready", tx'[x].lease \in Leases,
                 tx'[x].lease \in Active', NEW v \in landed
          PROVE  ~Intrudes(v, tx'[x].lease, tx'[x].path, tx'[x].expected)
      <3>1. lease'[tx'[x].lease].status = "active"
        BY <2>1 DEF Active
      <3>2. CASE tx'[x] = tx[x]
        <4>1. lease[tx[x].lease].status # "none"
          BY <2>1, <3>2 DEF WriteInv
        <4>2. tx[x].lease \in Active
          BY <1>0, <2>1, <3>1, <3>2, <4>1, ActiveBefore DEF Active
        <4> QED
          BY <2>1, <3>2, <4>2 DEF WriteInv
      <3>3. CASE WriteCheck(x)
        <4>1. tx[x].op = "write" /\ tx[x].lease \in Leases \cup {NoLease}
          BY <1>0, <3>3, TxFields DEF WriteCheck
        <4>2. PICK op \in {"checked", "ready"} :
                  /\ tx'[x] = [tx[x] EXCEPT !.op = op]
                  /\ op = "ready" => tx[x].lease = NoLease
          BY <1>0, <3>3 DEF WriteCheck, Goto, TypeOK
        <4>3. [tx[x] EXCEPT !.op = op].lease = tx[x].lease /\ [tx[x] EXCEPT !.op = op].op = op
          BY <1>0, <4>1 DEF Tx, Idle, Goals
        <4> QED
          BY <2>1, <4>2, <4>3, ConstantsAssumption
      <3>4. CASE WriteState(x)
        <4>1. tx[x].op = "checked" /\ tx'[x] = [tx[x] EXCEPT !.op = "ready"]
              /\ file[tx[x].path] = tx[x].expected
          BY <1>0, <3>4 DEF WriteState, Goto, TypeOK
        <4>2. /\ [tx[x] EXCEPT !.op = "ready"].path = tx[x].path
              /\ [tx[x] EXCEPT !.op = "ready"].expected = tx[x].expected
          BY <1>0, <4>1 DEF Tx, Idle, Goals
        <4>3. v.version <= file[v.path] /\ v.version \in Nat /\ v.path \in Paths
          BY <1>0, <2>1 DEF WriteInv, TypeOK
        <4>4. v.path = tx'[x].path => v.version <= tx'[x].expected
          BY <4>1, <4>2, <4>3
        <4>5. tx'[x].expected \in Nat
          BY <1>0, <4>1, <4>2, TxFields
        <4> QED
          BY <4>3, <4>4, <4>5 DEF Intrudes
      <3> QED
        BY <1>0, <2>1, <3>2, <3>3, <3>4, WriteKinds
    <2>2. \A v \in landed' : v.version <= file'[v.path]
      BY <1>2 DEF WriteInv
    <2>3. GuardedWriteReplacesExpected'
      BY <1>2 DEF WriteInv, GuardedWriteReplacesExpected, KeptApart, Room
    <2>4. \A x \in Sessions :
              tx'[x].op = "ready" /\ tx'[x].lease \in Leases /\ tx'[x].lease \in Active' =>
                  \A v \in landed' : ~Intrudes(v, tx'[x].lease, tx'[x].path, tx'[x].expected)
      BY <1>2, <2>1
    <2> QED
      BY <1>1, <2>2, <2>3, <2>4 DEF WriteInv, Intrudes, KeptApart, Room
  <1>3. ASSUME NEW x \in Sessions, WriteApply(x) PROVE WriteInv'
    <2>1. /\ tx[x].op = "ready" /\ tx[x].lease \in Leases \cup {NoLease}
          /\ tx[x].path \in Paths /\ tx[x].expected \in Nat
      BY <1>0, <1>3, TxFields DEF WriteApply
    <2>2. PICK p \in Paths, n \in Nat : p = tx[x].path /\ n = file[p] + 1
      BY <1>0, <2>1 DEF TypeOK
    <2>3. PICK w : w = [lease |-> tx[x].lease, path |-> p, expected |-> tx[x].expected,
                        version |-> n, inForce |-> Covering(p)]
      OBVIOUS
    <2>4. landed' = landed \cup {w} /\ lease' = lease /\ file' = [file EXCEPT ![p] = n]
      BY <1>0, <1>3, <2>2, <2>3 DEF WriteApply, TypeOK
    <2>5. \A v \in landed : v.version \in Nat /\ v.path \in Paths /\ v.version <= file[v.path]
      BY <1>0 DEF WriteInv, TypeOK
    <2>6. \A v \in landed : v.path = p => v.version < n
      BY <1>0, <2>2, <2>5 DEF TypeOK
    <2>7. \A v \in landed' : v.version <= file'[v.path]
      <3>1. file'[p] = n /\ \A q \in Paths \ {p} : file'[q] = file[q]
        BY <1>0, <2>4 DEF TypeOK
      <3>2. \A v \in landed : v.version <= file'[v.path]
        BY <2>2, <2>5, <2>6, <3>1
      <3> QED
        BY <2>2, <2>3, <2>4, <3>1, <3>2
    <2>8. ASSUME NEW y \in Sessions, tx'[y].op = "ready", tx'[y].lease \in Leases,
                 tx'[y].lease \in Active', NEW v \in landed'
          PROVE  ~Intrudes(v, tx'[y].lease, tx'[y].path, tx'[y].expected)
      <3>1. y # x
        <4>1. [tx[x] EXCEPT !.op = "done"].op = "done"
          BY <1>0, <2>1 DEF Tx, Idle, Goals
        <4> QED
          BY <1>0, <1>3, <2>8, <4>1 DEF TypeOK, WriteApply, Goto
      <3>2. tx'[y] = tx[y] /\ Active' = Active
        BY <1>0, <1>3, <3>1 DEF TypeOK, WriteApply, Goto, Active
      <3>3. CASE v \in landed
        BY <2>8, <3>2, <3>3 DEF WriteInv
      <3>4. CASE v = w
        BY <1>0, <2>3, <2>8, <3>2, <3>4, InForceApart DEF Intrudes
      <3> QED
        BY <2>4, <2>8, <3>3, <3>4
    <2>9. GuardedWriteReplacesExpected'
      <3> SUFFICES ASSUME NEW u \in landed', NEW v \in landed', u.lease \in u.inForce,
                          v.path = u.path, u.expected < v.version, v.version < u.version,
                          v.lease \in v.inForce, v.lease # u.lease
                   PROVE  ~KeptApart(v.lease, u.lease)
        BY DEF GuardedWriteReplacesExpected, KeptApart, Room
      <3>1. CASE u \in landed /\ v \in landed
        BY <3>1 DEF WriteInv, GuardedWriteReplacesExpected
      <3>2. CASE u = w /\ v \in landed
        <4>1. u.lease = tx[x].lease /\ u.path = p /\ u.expected = tx[x].expected
          BY <2>3, <3>2
        <4>2. tx[x].lease \in Leases /\ tx[x].lease \in Active
          BY <2>3, <3>2 DEF Covering, Active
        <4>3. ~Intrudes(v, tx[x].lease, tx[x].path, tx[x].expected)
          BY <2>1, <3>2, <4>2 DEF WriteInv
        <4> QED
          BY <2>2, <4>1, <4>3 DEF Intrudes
      <3>3. CASE u \in landed /\ v = w
        BY <2>2, <2>3, <2>5, <2>6, <3>3
      <3>4. CASE u = w /\ v = w
        BY <2>2, <2>3, <3>4
      <3> QED
        BY <2>4, <3>1, <3>2, <3>3, <3>4
    <2> QED
      BY <1>1, <2>7, <2>8, <2>9 DEF WriteInv, Intrudes, KeptApart, Room
  <1> QED
    BY <1>2, <1>3, EvidenceKinds

(* A guarded write that lands under its lease replaces the version it was    *)
(* based on, up to writes of the same lease, of leases that had ended and of *)
(* leases the conflict check does not see (validate_write_context,           *)
(* write_file).                                                              *)
THEOREM WriteCorrect == Spec => []GuardedWriteReplacesExpected
  <1>1. Init => WriteInv
    BY DEF Init, WriteInv, GuardedWriteReplacesExpected, Idle
  <1>2. LeaseInv /\ WriteInv /\ [Next]_vars => WriteInv'
    BY WriteStep
  <1>3. WriteInv => GuardedWriteReplacesExpected
    BY DEF WriteInv
  <1> QED
    BY <1>1, <1>2, <1>3, LeaseAlways, PTL DEF Spec

-----------------------------------------------------------------------------
(* The rows implement the ledger of LeaseLedger.                             *)

\* The rows that are over.
Over == {l \in Leases : lease[l].status \in Ended}

\* An empty table is an empty ledger.
LEMMA LedgerInit == Init => Ledger!Init
  BY DEF Init, Ledger!Init, Active

(* The commit of acquire_lease grants: its decision has kept true, and its    *)
(* token is above all of the room.                                            *)
LEMMA LedgerGrant ==
    ASSUME LeaseInv, NEW x \in Sessions, NEW l \in Leases, AcquireCommit(x, l)
    PROVE  Ledger!Grant(l)
  <1>0. TypeOK /\ AcquireInv /\ tx[x] \in Tx
    BY DEF LeaseInv, TypeInv, TypeOK
  <1>1. /\ tx[x].op = "acquiring" /\ tx[x].lease = l /\ lease[l].status = "none"
        /\ lease' = [lease EXCEPT ![l] = [status |-> "active", token |-> tx[x].token]]
    BY DEF AcquireCommit
  <1>2. tx[x].token \in Nat
    BY <1>0, <1>1, TxFields
  <1>3. \A k \in Leases : Room(k) = Room(l) =>
           (lease[k].status = "active" => ~Conflict(k, l)) /\ lease[k].token < tx[x].token
    BY <1>0, <1>1 DEF AcquireInv
  <1>4. /\ lease'[l].status = "active" /\ lease'[l].token = tx[x].token
        /\ \A k \in Leases : k # l => lease'[k] = lease[k]
    BY <1>0, <1>1 DEF TypeOK
  <1>5. l \notin Active \cup Over
    BY <1>1 DEF Active, Over, Ended
  <1>6. ASSUME NEW k \in Active
        PROVE  <<k, l>> \notin {pr \in Leases \X Leases : Room(pr[1]) = Room(pr[2]) /\ Conflict(pr[1], pr[2])}
    BY <1>3 DEF Active
  <1>7. Active' = Active \cup {l}
    BY <1>4 DEF Active
  <1>8. Over' = Over
    BY <1>1, <1>4 DEF Over, Ended
  <1>9. PICK old, new : old = [k \in Leases |-> lease[k].token] /\ new = [k \in Leases |-> lease'[k].token]
    OBVIOUS
  <1>10. new = [old EXCEPT ![l] = new[l]] /\ new[l] \in Nat
    BY <1>2, <1>4, <1>9
  <1>11. \A k \in Leases : Room(k) = Room(l) => old[k] < new[l]
    BY <1>3, <1>4, <1>9
  <1>12. \A k \in Leases : [j \in Leases |-> Room(j)][k] = [j \in Leases |-> Room(j)][l] => Room(k) = Room(l)
    OBVIOUS
  <1> QED
    BY <1>5, <1>6, <1>7, <1>8, <1>9, <1>10, <1>11, <1>12 DEF Ledger!Grant, Over, Ended

(* Any other step ends the leases that leave the active ones, maybe none.     *)
LEMMA LedgerEnd ==
    ASSUME TypeInv, SeenInv, [Next]_vars, Ending, \A x \in Sessions, l \in Leases : ~AcquireCommit(x, l)
    PROVE  Ledger!End(Active \ Active')
  <1>0. TypeOK /\ TypeOK'
    BY TypeStep DEF TypeInv
  <1>1. \A l \in Leases : lease[l].status \in LeaseStatuses /\ lease'[l].status \in LeaseStatuses
    BY <1>0 DEF TypeOK
  <1>2. \A l \in Leases : lease[l].status = "none" => lease'[l].status = "none"
    BY GrantStep
  <1>3. Active' = Active \ (Active \ Active')
    BY DEF Ending, Active
  <1>4. Over' = Over \cup (Active \ Active')
    BY <1>1, <1>2 DEF Ending, Active, Over, Ended, LeaseStatuses
  <1>5. [k \in Leases |-> lease'[k].token] = [k \in Leases |-> lease[k].token]
    BY DEF Ending
  <1> QED
    BY <1>3, <1>4, <1>5 DEF Ledger!End, Over, Ended

\* Every step of every handler is a step of the ledger or changes nothing in it.
LEMMA LedgerStep ==
    ASSUME LeaseInv, SeenInv, [Next]_vars
    PROVE  [Ledger!Next]_<<Active, Over, [l \in Leases |-> lease[l].token]>>
  <1>0. TypeInv
    BY DEF LeaseInv
  <1>1. ASSUME NEW x \in Sessions, NEW l \in Leases, AcquireCommit(x, l) PROVE Ledger!Next
    BY <1>1, LedgerGrant DEF Ledger!Next
  <1>2. ASSUME NEW x \in Sessions, NEW l \in Leases, AcquireLock(x, l)
        PROVE  UNCHANGED <<Active, Over, [k \in Leases |-> lease[k].token]>>
    BY <1>2 DEF AcquireLock, Active, Over
  <1>3. ASSUME Ending, \A x \in Sessions, l \in Leases : ~AcquireCommit(x, l) PROVE Ledger!Next
    <2>1. Ledger!End(Active \ Active')
      BY <1>0, <1>3, LedgerEnd
    <2>2. Active \ Active' \in SUBSET Active
      OBVIOUS
    <2> QED
      BY <2>1, <2>2 DEF Ledger!Next, Ledger!End
  <1> QED
    BY <1>0, <1>1, <1>2, <1>3, StepKinds

(* Refinement: for any leases, sessions and rooms, the rows of leases        *)
(* implement the ledger of grants and ends (acquire_lease, renew_lease,      *)
(* release_lease, expire_stale_leases).                                      *)
THEOREM LeasesRefineLedger == Spec => Ledger!Spec
  <1>1. LeaseInv /\ SeenInv /\ [Next]_vars =>
          [Ledger!Next]_<<Active, {l \in Leases : lease[l].status \in {"released", "revoked", "expired"}},
                          [l \in Leases |-> lease[l].token]>>
    BY LedgerStep DEF Over, Ended
  <1> QED
    BY <1>1, LedgerInit, LeaseAlways, SeenAlways, PTL DEF Spec, Ledger!Spec

(* A lease's past is final: tokens only grow, an ended lease stays ended, and *)
(* the rows implement the ledger (acquire_lease, renew_lease, release_lease). *)
THEOREM LeaseHistoryCorrect == Spec => LeaseHistory
  BY TokensCorrect, EndedCorrect, LeasesRefineLedger DEF LeaseHistory

(* Handoff and integration records tell the truth about the leases they name  *)
(* (accept_handoff, complete_integration).                                    *)
THEOREM EvidenceCorrect == Spec => []CoordinationEvidence
  BY HandoffCorrect, IntegrationCorrect, PTL DEF CoordinationEvidence
=============================================================================
