-------------------------- MODULE FederationProofs --------------------------
(***************************************************************************)
(* Proofs about the federation of upstream MCP servers, for any number of  *)
(* servers, revisions, sessions and messages.  Each section finds the      *)
(* inductive invariant of one component and proves what the run Federation *)
(* checks of it; the last one composes their types.                        *)
(***************************************************************************)
EXTENDS MCFederation, FiniteSetTheorems, WellFoundedInduction, TLAPS

-----------------------------------------------------------------------------
(* Guarded actions of the federated broker (FederatedActions)              *)

GaOutTx == [op : {"record", "receipt", "finish"}, p : Preps, out : Outcomes]
GaPlainTx == [op : {"claim", "start", "insert", "call", "wait"}, p : Preps]
GaPrepTx == [op : {"prepare"}, p : Preps, auth : 0..MaxAuth, context : BOOLEAN]
GaTxType == {GaIdle} \cup GaPrepTx \cup GaPlainTx \cup GaOutTx
GaPermitType == [status : {"none", "active", "claimed", "revoked", "consumed"}, claimed : BOOLEAN]
GaWireType == [sends : 0..1, result : {"no", "ok", "error"}]

(* A request that has passed the claim; one that holds the invocation row. *)
GaActing == {"start", "insert", "call", "wait", "record", "receipt", "finish"}
GaCalling == {"call", "wait", "record"}

(* A claimed permit stays marked as claimed, and every request past the    *)
(* claim holds one.                                                        *)
GaClaims ==
    /\ \A p \in Preps : gaPermit[p].status = "claimed" => gaPermit[p].claimed
    /\ \A s \in GaSessions : gaTx[s].op \in GaActing => gaPermit[gaTx[s].p].claimed

(* The invocation row is a lock: the one request that inserted it calls.   *)
GaOwnsCall ==
    /\ \A s \in GaSessions : gaTx[s].op \in GaCalling => gaInv[gaTx[s].p] = "running"
    /\ \A s, t \in GaSessions :
         gaTx[s].op \in GaCalling /\ gaTx[t].op \in GaCalling /\ gaTx[s].p = gaTx[t].p => s = t

(* Nothing is sent before the row is there and its owner sends it.         *)
GaSendsOnce ==
    /\ \A p \in Preps : gaInv[p] = "none" => gaWire[p].sends = 0
    /\ \A s \in GaSessions : gaTx[s].op = "call" => gaWire[gaTx[s].p].sends = 0
    /\ \A p \in Preps : gaWire[p].result # "no" => gaWire[p].sends = 1

(* Whatever says succeeded says so of a tool that ran.                     *)
GaTruthful ==
    /\ \A p \in Preps : gaInv[p] = "succeeded" => gaWire[p].result = "ok"
    /\ \A s \in GaSessions : gaTx[s].op \in {"record", "receipt", "finish"} /\ gaTx[s].out = "succeeded"
                               => gaWire[gaTx[s].p].result = "ok"

GaIInv == FedTypeOK /\ GaClaims /\ GaOwnsCall /\ GaSendsOnce /\ GaTruthful

(* The type invariant of the broker, one fact per column of its rows.        *)
LEMMA GaTypeParts ==
    FedTypeOK <=>
      /\ gaContext \in BOOLEAN /\ gaAuth \in 0..MaxAuth /\ gaLapsed \subseteq Preps
      /\ gaPrep \in [Preps -> PrepRow]
      /\ gaApproval \in [Preps -> {"none", "pending", "approved", "closed"}]
      /\ gaPermit \in [Preps -> GaPermitType]
      /\ gaReceipt \in [Preps -> {"none"} \cup Outcomes]
      /\ gaInv \in [Preps -> {"none", "running"} \cup Outcomes]
      /\ gaWire \in [Preps -> GaWireType]
      /\ gaTx \in [GaSessions -> GaTxType]
  BY DEF FedTypeOK, GaPermitType, GaWireType, GaTxType, GaOutTx, GaPlainTx, GaPrepTx

(* The same for the state after a step.                                      *)
LEMMA GaTypePartsNext ==
    FedTypeOK' <=>
      /\ gaContext' \in BOOLEAN /\ gaAuth' \in 0..MaxAuth /\ gaLapsed' \subseteq Preps
      /\ gaPrep' \in [Preps -> PrepRow]
      /\ gaApproval' \in [Preps -> {"none", "pending", "approved", "closed"}]
      /\ gaPermit' \in [Preps -> GaPermitType]
      /\ gaReceipt' \in [Preps -> {"none"} \cup Outcomes]
      /\ gaInv' \in [Preps -> {"none", "running"} \cup Outcomes]
      /\ gaWire' \in [Preps -> GaWireType]
      /\ gaTx' \in [GaSessions -> GaTxType]
  BY DEF FedTypeOK, GaPermitType, GaWireType, GaTxType, GaOutTx, GaPlainTx, GaPrepTx

(* What a call in flight carries, by the place of prepare_guarded or         *)
(* execute_guarded it has reached.                                           *)
LEMMA GaTxFields ==
    ASSUME FedTypeOK, NEW s \in GaSessions
    PROVE  /\ gaTx[s].op = "prepare" => gaTx[s].p \in Preps /\ gaTx[s].auth \in 0..MaxAuth
           /\ gaTx[s].op \in {"claim", "start", "insert", "call", "wait", "record", "receipt", "finish"}
                => gaTx[s].p \in Preps
           /\ gaTx[s].op \in {"record", "receipt", "finish"} => gaTx[s] \in GaOutTx
  BY GaTypeParts DEF GaTxType, GaOutTx, GaPlainTx, GaPrepTx, GaIdle

(* Moving one request on, for any of the records a request can be.         *)
LEMMA GaNewTx ==
    /\ GaIdle \in GaTxType /\ GaIdle.op = "idle"
    /\ \A p \in Preps : \A o \in {"claim", "start", "insert", "call", "wait"} :
         [op |-> o, p |-> p] \in GaTxType
    /\ \A p \in Preps : \A o \in {"record", "receipt", "finish"} : \A out \in Outcomes :
         [op |-> o, p |-> p, out |-> out] \in GaTxType
    /\ \A t \in GaOutTx : \A o \in {"record", "receipt", "finish"} :
         [t EXCEPT !.op = o] \in GaTxType /\ [t EXCEPT !.op = o].op = o
         /\ [t EXCEPT !.op = o].p = t.p /\ [t EXCEPT !.op = o].out = t.out
  BY DEF GaIdle, GaTxType, GaPlainTx, GaOutTx

(* A step that moves one call leaves every other call where it was.          *)
LEMMA GaMove ==
    ASSUME FedTypeOK, NEW s \in GaSessions, NEW t \in GaTxType, GaGoto(s, t)
    PROVE  gaTx' \in [GaSessions -> GaTxType] /\ gaTx'[s] = t
           /\ \A u \in GaSessions : u # s => gaTx'[u] = gaTx[u]
  <1>1. gaTx \in [GaSessions -> GaTxType]
    BY GaTypeParts
  <1> QED
    BY <1>1 DEF GaGoto

(* A retried execute answers with the outcome the invocation row recorded,   *)
(* and never turns it into a success.                                        *)
LEMMA GaReplayed ==
    ASSUME FedTypeOK, NEW p \in Preps, gaInv[p] # "none"
    PROVE  Replayed(gaInv[p]) \in Outcomes /\ (Replayed(gaInv[p]) = "succeeded" => gaInv[p] = "succeeded")
  <1>1. gaInv[p] \in {"none", "running"} \cup Outcomes
    BY GaTypeParts
  <1> QED
    BY <1>1 DEF Replayed, Outcomes

-----------------------------------------------------------------------------
(* Types.  That a call is sent once is part of them, and rests on the      *)
(* invocation row.                                                         *)

\* Nothing is prepared at first, so all rows have their type.
LEMMA GaTypeInit == GaInit => FedTypeOK
  <1> SUFFICES ASSUME GaInit PROVE FedTypeOK
    OBVIOUS
  <1>1. gaContext \in BOOLEAN /\ gaLapsed \subseteq Preps
    BY DEF GaInit
  <1>a. gaAuth \in 0..MaxAuth
    BY FederatedActionsAssumption DEF GaInit
  <1>2. gaPrep \in [Preps -> PrepRow]
    BY FederatedActionsAssumption DEF GaInit, PrepRow
  <1>3. gaApproval \in [Preps -> {"none", "pending", "approved", "closed"}]
        /\ gaReceipt \in [Preps -> {"none"} \cup Outcomes]
        /\ gaInv \in [Preps -> {"none", "running"} \cup Outcomes]
    BY DEF GaInit
  <1>4. gaPermit \in [Preps -> GaPermitType] /\ gaWire \in [Preps -> GaWireType]
    BY DEF GaInit, GaPermitType, GaWireType
  <1>5. gaTx \in [GaSessions -> GaTxType]
    BY DEF GaInit, GaTxType
  <1> QED
    BY <1>1, <1>a, <1>2, <1>3, <1>4, <1>5, GaTypeParts

(* Every step of the broker keeps its rows and calls well-typed.             *)
LEMMA GaTypeStep ==
    ASSUME FedTypeOK, GaSendsOnce, [GaNext]_gaVars
    PROVE  FedTypeOK'
  <1>0. /\ gaContext \in BOOLEAN /\ gaAuth \in 0..MaxAuth /\ gaLapsed \subseteq Preps
        /\ gaPrep \in [Preps -> PrepRow]
        /\ gaApproval \in [Preps -> {"none", "pending", "approved", "closed"}]
        /\ gaPermit \in [Preps -> GaPermitType]
        /\ gaReceipt \in [Preps -> {"none"} \cup Outcomes]
        /\ gaInv \in [Preps -> {"none", "running"} \cup Outcomes]
        /\ gaWire \in [Preps -> GaWireType]
        /\ gaTx \in [GaSessions -> GaTxType]
    BY GaTypeParts
  <1>1. CASE UNCHANGED gaVars
    BY <1>0, <1>1, GaTypePartsNext DEF gaVars
  <1>2. CASE ChangeAuth
    <2>1. gaAuth' \in 0..MaxAuth
      BY <1>0, <1>2, FederatedActionsAssumption DEF ChangeAuth
    <2> QED
      BY <1>0, <1>2, <2>1, GaTypePartsNext DEF ChangeAuth, GaEnvUnchanged
  <1>3. ASSUME NEW p \in Preps, Decide(p) PROVE FedTypeOK'
    <2>1. gaApproval' \in [Preps -> {"none", "pending", "approved", "closed"}]
      BY <1>0, <1>3 DEF Decide
    <2> QED
      BY <1>0, <1>3, <2>1, GaTypePartsNext DEF Decide, GaEnvUnchanged
  <1>4. ASSUME NEW p \in Preps, Lapse(p) PROVE FedTypeOK'
    BY <1>0, <1>4, GaTypePartsNext DEF Lapse, GaEnvUnchanged
  <1>5. ASSUME NEW p \in Preps, IssuePermit(p) \/ RevokePermit(p) PROVE FedTypeOK'
    <2>1. gaPermit' \in [Preps -> GaPermitType]
      BY <1>0, <1>5 DEF IssuePermit, RevokePermit, GaPermitType
    <2> QED
      BY <1>0, <1>5, <2>1, GaTypePartsNext DEF IssuePermit, RevokePermit, GaEnvUnchanged
  <1>6. ASSUME NEW p \in Preps, UpstreamRuns(p) PROVE FedTypeOK'
    <2>1. gaWire' \in [Preps -> GaWireType]
      BY <1>0, <1>6 DEF UpstreamRuns, GaWireType
    <2> QED
      BY <1>0, <1>6, <2>1, GaTypePartsNext DEF UpstreamRuns, ExecUnchanged
  <1>7. ASSUME NEW s \in GaSessions, NEW p \in Preps, PrepareRead(s, p) PROVE FedTypeOK'
    <2>1. [op |-> "prepare", p |-> p, auth |-> gaAuth, context |-> gaContext] \in GaTxType
      BY <1>0 DEF GaTxType, GaPrepTx
    <2>2. gaTx' \in [GaSessions -> GaTxType]
      BY <1>7, <2>1, GaMove DEF PrepareRead
    <2> QED
      BY <1>0, <1>7, <2>2, GaTypePartsNext DEF PrepareRead
  <1>8. ASSUME NEW s \in GaSessions, PrepareCommit(s) PROVE FedTypeOK'
    <2>1. gaTx' \in [GaSessions -> GaTxType]
      BY <1>8, GaMove, GaNewTx DEF PrepareCommit
    <2>2. gaTx[s].p \in Preps /\ gaTx[s].auth \in 0..MaxAuth
      BY <1>8, GaTxFields DEF PrepareCommit, GaAt
    <2>3. [status |-> "pending_approval", auth |-> gaTx[s].auth] \in PrepRow
      BY <2>2 DEF PrepRow
    <2>4. gaPrep' \in [Preps -> PrepRow]
      BY <1>0, <1>8, <2>2, <2>3 DEF PrepareCommit
    <2>5. gaContext' \in BOOLEAN /\ gaApproval' \in [Preps -> {"none", "pending", "approved", "closed"}]
      BY <1>0, <1>8, <2>2 DEF PrepareCommit
    <2> QED
      BY <1>0, <1>8, <2>1, <2>4, <2>5, GaTypePartsNext DEF PrepareCommit
  <1>9. ASSUME NEW s \in GaSessions, NEW p \in Preps, ExecExpired(s, p) PROVE FedTypeOK'
    <2>1. gaPrep' \in [Preps -> PrepRow]
      BY <1>0, <1>9 DEF ExecExpired, PrepRow
    <2> QED
      BY <1>0, <1>9, <2>1, GaTypePartsNext DEF ExecExpired, ExecUnchanged
  <1>10. ASSUME NEW s \in GaSessions, NEW p \in Preps, ExecRead(s, p) PROVE FedTypeOK'
    <2>1. gaTx' \in [GaSessions -> GaTxType]
      BY <1>10, GaMove, GaNewTx DEF ExecRead
    <2> QED
      BY <1>0, <1>10, <2>1, GaTypePartsNext DEF ExecRead, ExecUnchanged
  <1>11. ASSUME NEW s \in GaSessions, ExecClaim(s) PROVE FedTypeOK'
    <2>1. gaTx[s].p \in Preps
      BY <1>11, GaTxFields DEF ExecClaim, GaAt
    <2>2. GaGoto(s, GaIdle) \/ GaGoto(s, [op |-> "start", p |-> gaTx[s].p])
      BY <1>11 DEF ExecClaim
    <2>3. gaTx' \in [GaSessions -> GaTxType]
      BY <2>1, <2>2, GaMove, GaNewTx
    <2>4. [status |-> "claimed", claimed |-> TRUE] \in GaPermitType
      BY DEF GaPermitType
    <2>5. gaPermit' \in [Preps -> GaPermitType]
      BY <1>0, <1>11, <2>1, <2>4 DEF ExecClaim
    <2> QED
      BY <1>0, <1>11, <2>3, <2>5, GaTypePartsNext DEF ExecClaim, ExecUnchanged
  <1>12. ASSUME NEW s \in GaSessions, ExecRefused(s) \/ GaCrash(s) PROVE FedTypeOK'
    <2>1. gaTx' \in [GaSessions -> GaTxType]
      BY <1>12, GaMove, GaNewTx DEF ExecRefused, GaCrash
    <2> QED
      BY <1>0, <1>12, <2>1, GaTypePartsNext DEF ExecRefused, GaCrash, ExecUnchanged
  <1>13. ASSUME NEW s \in GaSessions, ExecStart(s) PROVE FedTypeOK'
    <2>1. gaTx[s].p \in Preps
      BY <1>13, GaTxFields DEF ExecStart, GaAt
    <2>2. gaPrep' \in [Preps -> PrepRow]
      BY <1>0, <1>13, <2>1 DEF ExecStart, PrepRow
    <2>3. \/ gaInv[gaTx[s].p] # "none" /\ GaGoto(s, [op |-> "receipt", p |-> gaTx[s].p, out |-> Replayed(gaInv[gaTx[s].p])])
          \/ GaGoto(s, [op |-> "insert", p |-> gaTx[s].p])
          \/ GaGoto(s, [op |-> "receipt", p |-> gaTx[s].p, out |-> "failed"])
      BY <1>13 DEF ExecStart
    <2>4. gaTx' \in [GaSessions -> GaTxType]
      BY <2>1, <2>3, GaMove, GaNewTx, GaReplayed DEF Outcomes
    <2> QED
      BY <1>0, <1>13, <2>2, <2>4, GaTypePartsNext DEF ExecStart, ExecUnchanged
  <1>14. ASSUME NEW s \in GaSessions, ExecInsert(s) PROVE FedTypeOK'
    <2>1. gaTx[s].p \in Preps
      BY <1>14, GaTxFields DEF ExecInsert, GaAt
    <2>2. gaInv' \in [Preps -> {"none", "running"} \cup Outcomes]
      BY <1>0, <1>14, <2>1 DEF ExecInsert
    <2>3. \/ gaInv[gaTx[s].p] # "none" /\ GaGoto(s, [op |-> "receipt", p |-> gaTx[s].p, out |-> Replayed(gaInv[gaTx[s].p])])
          \/ GaGoto(s, [op |-> "call", p |-> gaTx[s].p])
      BY <1>14 DEF ExecInsert
    <2>4. gaTx' \in [GaSessions -> GaTxType]
      BY <2>1, <2>3, GaMove, GaNewTx, GaReplayed
    <2> QED
      BY <1>0, <1>14, <2>2, <2>4, GaTypePartsNext DEF ExecInsert, ExecUnchanged
  <1>15. ASSUME NEW s \in GaSessions, ExecNotSent(s) PROVE FedTypeOK'
    <2>1. gaTx[s].p \in Preps
      BY <1>15, GaTxFields DEF ExecNotSent, GaAt
    <2>2. gaTx' \in [GaSessions -> GaTxType]
      BY <1>15, <2>1, GaMove, GaNewTx DEF ExecNotSent, Outcomes
    <2> QED
      BY <1>0, <1>15, <2>2, GaTypePartsNext DEF ExecNotSent, ExecUnchanged
  <1>16. ASSUME NEW s \in GaSessions, ExecSend(s) PROVE FedTypeOK'
    <2>1. gaTx[s].p \in Preps /\ gaWire[gaTx[s].p].sends = 0
      BY <1>16, GaTxFields DEF ExecSend, GaAt, GaSendsOnce
    <2>2. gaTx' \in [GaSessions -> GaTxType]
      BY <1>16, <2>1, GaMove, GaNewTx DEF ExecSend
    <2>3. gaWire' \in [Preps -> GaWireType]
      BY <1>0, <1>16, <2>1 DEF ExecSend, GaWireType
    <2> QED
      BY <1>0, <1>16, <2>2, <2>3, GaTypePartsNext DEF ExecSend, ExecUnchanged
  <1>17. ASSUME NEW s \in GaSessions, ExecAnswer(s) \/ ExecNoAnswer(s) PROVE FedTypeOK'
    <2>1. gaTx[s].p \in Preps
      BY <1>17, GaTxFields DEF ExecAnswer, ExecNoAnswer, GaAt
    <2>2. \E out \in Outcomes : GaGoto(s, [op |-> "record", p |-> gaTx[s].p, out |-> out])
      BY <1>17 DEF ExecAnswer, ExecNoAnswer, Outcomes
    <2>3. gaTx' \in [GaSessions -> GaTxType]
      BY <2>1, <2>2, GaMove, GaNewTx
    <2> QED
      BY <1>0, <1>17, <2>3, GaTypePartsNext DEF ExecAnswer, ExecNoAnswer, ExecUnchanged
  <1>18. ASSUME NEW s \in GaSessions, ExecRecord(s) PROVE FedTypeOK'
    <2>1. gaTx[s] \in GaOutTx
      BY <1>18, GaTxFields DEF ExecRecord, GaAt
    <2>2. gaTx' \in [GaSessions -> GaTxType]
      BY <1>18, <2>1, GaMove, GaNewTx DEF ExecRecord
    <2>3. gaInv' \in [Preps -> {"none", "running"} \cup Outcomes]
      BY <1>0, <1>18, <2>1 DEF ExecRecord, GaOutTx
    <2> QED
      BY <1>0, <1>18, <2>2, <2>3, GaTypePartsNext DEF ExecRecord, ExecUnchanged
  <1>19. ASSUME NEW s \in GaSessions, ExecReceipt(s) PROVE FedTypeOK'
    <2>1. gaTx[s] \in GaOutTx
      BY <1>19, GaTxFields DEF ExecReceipt, GaAt
    <2>2. gaTx' \in [GaSessions -> GaTxType]
      BY <1>19, <2>1, GaMove, GaNewTx DEF ExecReceipt
    <2>3. gaTx[s].p \in Preps /\ gaTx[s].out \in Outcomes
      BY <2>1 DEF GaOutTx
    <2>4. gaReceipt' \in [Preps -> {"none"} \cup Outcomes]
      BY <1>0, <1>19, <2>3 DEF ExecReceipt
    <2>5. gaPermit' \in [Preps -> GaPermitType]
      BY <1>0, <1>19, <2>3 DEF ExecReceipt, GaPermitType
    <2> QED
      BY <1>0, <1>19, <2>2, <2>4, <2>5, GaTypePartsNext DEF ExecReceipt, ExecUnchanged
  <1>20. ASSUME NEW s \in GaSessions, ExecFinish(s) PROVE FedTypeOK'
    <2>1. gaTx[s].p \in Preps
      BY <1>20, GaTxFields DEF ExecFinish, GaAt
    <2>2. gaTx' \in [GaSessions -> GaTxType]
      BY <1>20, GaMove, GaNewTx DEF ExecFinish
    <2>3. gaPrep' \in [Preps -> PrepRow]
      BY <1>0, <1>20, <2>1 DEF ExecFinish, PrepRow
    <2> QED
      BY <1>0, <1>20, <2>2, <2>3, GaTypePartsNext DEF ExecFinish, ExecUnchanged
  <1> QED
    BY <1>1, <1>2, <1>3, <1>4, <1>5, <1>6, <1>7, <1>8, <1>9, <1>10, <1>11, <1>12, <1>13, <1>14,
       <1>15, <1>16, <1>17, <1>18, <1>19, <1>20 DEF GaNext

-----------------------------------------------------------------------------
(* The inductive invariant *)

\* Nothing has been approved, claimed or sent at first.
LEMMA GaInitInv == GaInit => GaIInv
  <1> SUFFICES ASSUME GaInit PROVE GaIInv
    OBVIOUS
  <1>1. FedTypeOK
    BY GaTypeInit
  <1>2. GaClaims /\ GaOwnsCall /\ GaSendsOnce /\ GaTruthful
    BY DEF GaInit, GaClaims, GaOwnsCall, GaSendsOnce, GaTruthful, GaIdle, GaActing, GaCalling
  <1> QED
    BY <1>1, <1>2 DEF GaIInv

(* Steps that leave the invocations and the wire alone, and move at most   *)
(* one request, to a place outside the call.                               *)
LEMMA GaQuietStep ==
    ASSUME GaIInv, gaInv' = gaInv, gaWire' = gaWire,
           \A p \in Preps : /\ gaPermit[p].claimed => gaPermit'[p].claimed
                            /\ gaPermit'[p].status = "claimed" => gaPermit'[p].claimed,
           \A u \in GaSessions :
             \/ gaTx'[u] = gaTx[u]
             \/ /\ gaTx'[u].op \notin GaCalling
                /\ gaTx'[u].op \in GaActing => gaPermit'[gaTx'[u].p].claimed
                /\ gaTx'[u].op \in {"receipt", "finish"} /\ gaTx'[u].out = "succeeded"
                     => gaWire[gaTx'[u].p].result = "ok"
    PROVE  GaClaims' /\ GaOwnsCall' /\ GaSendsOnce' /\ GaTruthful'
  <1>0. FedTypeOK /\ GaClaims /\ GaOwnsCall /\ GaSendsOnce /\ GaTruthful
    BY DEF GaIInv
  <1>1. \A u \in GaSessions : gaTx[u].op \in GaActing => gaTx[u].p \in Preps
    BY <1>0, GaTxFields DEF GaActing
  <1>2. GaClaims'
    BY <1>0, <1>1 DEF GaClaims
  <1>3. GaOwnsCall'
    BY <1>0 DEF GaOwnsCall
  <1>4. GaSendsOnce'
    BY <1>0 DEF GaSendsOnce, GaCalling
  <1>5. GaTruthful'
    BY <1>0 DEF GaTruthful, GaCalling
  <1> QED
    BY <1>2, <1>3, <1>4, <1>5

(* The owner of the invocation moves on within the call.                   *)
LEMMA GaOwnerStep ==
    ASSUME GaIInv, gaInv' = gaInv, gaWire' = gaWire, gaPermit' = gaPermit,
           NEW s \in GaSessions, gaTx[s].op \in {"call", "wait"},
           gaTx'[s].op = "record", gaTx'[s].p = gaTx[s].p,
           gaTx'[s].out = "succeeded" => gaWire[gaTx[s].p].result = "ok",
           \A u \in GaSessions : u # s => gaTx'[u] = gaTx[u]
    PROVE  GaClaims' /\ GaOwnsCall' /\ GaSendsOnce' /\ GaTruthful'
  <1>0. GaClaims /\ GaOwnsCall /\ GaSendsOnce /\ GaTruthful
    BY DEF GaIInv
  <1>1. GaClaims'
    BY <1>0 DEF GaClaims, GaActing
  <1>2. GaOwnsCall'
    BY <1>0 DEF GaOwnsCall, GaCalling
  <1>3. GaSendsOnce'
    BY <1>0 DEF GaSendsOnce
  <1>4. GaTruthful'
    BY <1>0 DEF GaTruthful
  <1> QED
    BY <1>1, <1>2, <1>3, <1>4

(* Every step of the broker keeps the four parts of the inductive invariant: *)
(* who holds a claim, who owns the one remote call, that it is sent once,    *)
(* and that what is recorded is what happened.                               *)
LEMMA GaSafeStep ==
    ASSUME GaIInv, [GaNext]_gaVars
    PROVE  GaClaims' /\ GaOwnsCall' /\ GaSendsOnce' /\ GaTruthful'
  <1> DEFINE Safe == GaClaims /\ GaOwnsCall /\ GaSendsOnce /\ GaTruthful
  <1>0. FedTypeOK /\ GaClaims /\ GaOwnsCall /\ GaSendsOnce /\ GaTruthful
    BY DEF GaIInv
  <1>p. gaPermit \in [Preps -> GaPermitType]
    BY <1>0, GaTypeParts
  <1>c. \A p \in Preps : gaPermit[p].status = "claimed" => gaPermit[p].claimed
    BY <1>0 DEF GaClaims
  <1>1. CASE UNCHANGED gaVars
    BY <1>1, <1>c, GaQuietStep DEF gaVars
  <1>2. CASE ChangeAuth \/ \E p \in Preps : Decide(p) \/ Lapse(p)
    BY <1>2, <1>c, GaQuietStep DEF ChangeAuth, Decide, Lapse, GaEnvUnchanged
  <1>3. ASSUME NEW p \in Preps, IssuePermit(p) \/ RevokePermit(p) PROVE Safe'
    <2>1. \A q \in Preps : /\ gaPermit'[q].claimed = gaPermit[q].claimed
                           /\ gaPermit'[q].status = "claimed" => gaPermit[q].status = "claimed"
      BY <1>3, <1>p DEF IssuePermit, RevokePermit, GaPermitType
    <2> QED
      BY <1>3, <1>c, <2>1, GaQuietStep DEF IssuePermit, RevokePermit, GaEnvUnchanged
  <1>4. ASSUME NEW p \in Preps, UpstreamRuns(p) PROVE Safe'
    <2>1. gaWire \in [Preps -> GaWireType]
      BY <1>0, GaTypeParts
    <2>2. \A q \in Preps : /\ gaWire'[q].sends = gaWire[q].sends
                           /\ gaWire[q].result # "no" => gaWire'[q] = gaWire[q]
                           /\ gaWire'[q].result # "no" => gaWire[q].result # "no" \/ q = p
      BY <1>4, <2>1 DEF UpstreamRuns, GaWireType
    <2>3. gaWire[p].sends = 1
      BY <1>4, <2>1 DEF UpstreamRuns, GaWireType
    <2>4. gaTx' = gaTx /\ gaInv' = gaInv /\ gaPermit' = gaPermit
      BY <1>4 DEF UpstreamRuns
    <2>5. \A u \in GaSessions : gaTx[u].op \in GaActing => gaTx[u].p \in Preps
      BY <1>0, GaTxFields DEF GaActing
    <2>6. GaSendsOnce'
      BY <1>0, <2>2, <2>3, <2>4, <2>5 DEF GaSendsOnce, GaActing
    <2>7. GaTruthful'
      BY <1>0, <2>2, <2>4, <2>5 DEF GaTruthful, GaActing
    <2>8. GaClaims' /\ GaOwnsCall'
      BY <1>0, <2>4 DEF GaClaims, GaOwnsCall
    <2> QED
      BY <2>6, <2>7, <2>8
  <1>5. ASSUME NEW s \in GaSessions, NEW p \in Preps, PrepareRead(s, p) PROVE Safe'
    <2>1. gaTx \in [GaSessions -> GaTxType]
      BY <1>0, GaTypeParts
    <2>2. gaTx'[s].op = "prepare" /\ \A u \in GaSessions : u # s => gaTx'[u] = gaTx[u]
      BY <1>5, <2>1 DEF PrepareRead, GaGoto
    <2> QED
      BY <1>5, <1>c, <2>2, GaQuietStep DEF PrepareRead, GaCalling, GaActing
  <1>6. ASSUME NEW s \in GaSessions,
               PrepareCommit(s) \/ ExecRefused(s) \/ GaCrash(s) \/ ExecFinish(s)
        PROVE  Safe'
    <2>1. gaTx'[s].op = "idle" /\ \A u \in GaSessions : u # s => gaTx'[u] = gaTx[u]
      BY <1>0, <1>6, GaMove, GaNewTx DEF PrepareCommit, ExecRefused, GaCrash, ExecFinish
    <2>2. gaInv' = gaInv /\ gaWire' = gaWire /\ gaPermit' = gaPermit
      BY <1>6 DEF PrepareCommit, ExecRefused, GaCrash, ExecFinish
    <2> QED
      BY <1>c, <2>1, <2>2, GaQuietStep DEF GaCalling, GaActing
  <1>7. ASSUME NEW s \in GaSessions, NEW p \in Preps, ExecExpired(s, p) PROVE Safe'
    BY <1>7, <1>c, GaQuietStep DEF ExecExpired
  <1>8. ASSUME NEW s \in GaSessions, NEW p \in Preps, ExecRead(s, p) PROVE Safe'
    <2>1. gaTx'[s] = [op |-> "claim", p |-> p] /\ \A u \in GaSessions : u # s => gaTx'[u] = gaTx[u]
      BY <1>0, <1>8, GaMove, GaNewTx DEF ExecRead
    <2> QED
      BY <1>8, <1>c, <2>1, GaQuietStep DEF ExecRead, GaCalling, GaActing
  <1>9. ASSUME NEW s \in GaSessions, ExecClaim(s) PROVE Safe'
    <2> DEFINE p == gaTx[s].p
    <2>1. p \in Preps
      BY <1>0, <1>9, GaTxFields DEF ExecClaim, GaAt
    <2>2. \/ GaGoto(s, GaIdle) /\ gaPermit' = gaPermit
          \/ GaGoto(s, [op |-> "start", p |-> p]) /\ gaPermit' = gaPermit /\ gaPermit[p].status = "claimed"
          \/ /\ GaGoto(s, [op |-> "start", p |-> p])
             /\ gaPermit' = [gaPermit EXCEPT ![p] = [status |-> "claimed", claimed |-> TRUE]]
      BY <1>9 DEF ExecClaim
    <2>3. \A q \in Preps : /\ gaPermit[q].claimed => gaPermit'[q].claimed
                           /\ gaPermit'[q].status = "claimed" => gaPermit'[q].claimed
      BY <1>p, <1>c, <2>1, <2>2
    <2>4. \/ gaTx'[s].op = "idle"
          \/ gaTx'[s].op = "start" /\ gaTx'[s].p = p /\ gaPermit'[p].claimed
      <3>1. CASE GaGoto(s, GaIdle)
        BY <1>0, <3>1, GaMove, GaNewTx
      <3>2. CASE GaGoto(s, [op |-> "start", p |-> p])
        <4>1. gaTx'[s] = [op |-> "start", p |-> p]
          BY <1>0, <2>1, <3>2, GaMove, GaNewTx
        <4>2. gaPermit'[p].claimed \/ GaGoto(s, GaIdle)
          BY <1>p, <1>c, <2>1, <2>2
        <4> QED
          BY <3>1, <4>1, <4>2
      <3> QED
        BY <2>2, <3>1, <3>2
    <2>5. \A u \in GaSessions : u # s => gaTx'[u] = gaTx[u]
      BY <1>0, <2>1, <2>2, GaMove, GaNewTx
    <2>6. gaInv' = gaInv /\ gaWire' = gaWire
      BY <1>9 DEF ExecClaim
    <2> QED
      BY <2>3, <2>4, <2>5, <2>6, GaQuietStep DEF GaCalling, GaActing
  <1>10. ASSUME NEW s \in GaSessions, ExecStart(s) PROVE Safe'
    <2> DEFINE p == gaTx[s].p
    <2>1. p \in Preps /\ gaPermit[p].claimed
      BY <1>0, <1>10, GaTxFields DEF ExecStart, GaAt, GaClaims, GaActing
    <2>2. \/ gaInv[p] # "none" /\ GaGoto(s, [op |-> "receipt", p |-> p, out |-> Replayed(gaInv[p])])
          \/ GaGoto(s, [op |-> "insert", p |-> p])
          \/ GaGoto(s, [op |-> "receipt", p |-> p, out |-> "failed"])
      BY <1>10 DEF ExecStart
    <2>3. "failed" \in Outcomes
      BY DEF Outcomes
    <2>4. /\ gaTx'[s].p = p
          /\ \/ gaTx'[s].op = "insert"
             \/ gaTx'[s].op = "receipt" /\ (gaTx'[s].out = "succeeded" => gaInv[p] = "succeeded")
      <3>1. CASE gaInv[p] # "none" /\ GaGoto(s, [op |-> "receipt", p |-> p, out |-> Replayed(gaInv[p])])
        <4>1. Replayed(gaInv[p]) \in Outcomes /\ (Replayed(gaInv[p]) = "succeeded" => gaInv[p] = "succeeded")
          BY <1>0, <2>1, <3>1, GaReplayed
        <4>2. gaTx'[s] = [op |-> "receipt", p |-> p, out |-> Replayed(gaInv[p])]
          BY <1>0, <2>1, <3>1, <4>1, GaMove, GaNewTx
        <4> QED
          BY <4>1, <4>2
      <3>2. CASE GaGoto(s, [op |-> "insert", p |-> p])
        <4>1. gaTx'[s] = [op |-> "insert", p |-> p]
          BY <1>0, <2>1, <3>2, GaMove, GaNewTx
        <4> QED
          BY <4>1
      <3>3. CASE GaGoto(s, [op |-> "receipt", p |-> p, out |-> "failed"])
        <4>1. gaTx'[s] = [op |-> "receipt", p |-> p, out |-> "failed"]
          BY <1>0, <2>1, <2>3, <3>3, GaMove, GaNewTx
        <4> QED
          BY <4>1
      <3> QED
        BY <2>2, <3>1, <3>2, <3>3
    <2>5. \A u \in GaSessions : u # s => gaTx'[u] = gaTx[u]
      BY <1>0, <2>1, <2>2, <2>3, GaMove, GaNewTx, GaReplayed
    <2>6. gaInv' = gaInv /\ gaWire' = gaWire /\ gaPermit' = gaPermit
      BY <1>10 DEF ExecStart
    <2>7. gaInv[p] = "succeeded" => gaWire[p].result = "ok"
      BY <1>0, <2>1 DEF GaTruthful
    <2> QED
      BY <1>c, <2>1, <2>4, <2>5, <2>6, <2>7, GaQuietStep DEF GaCalling, GaActing
  <1>11. ASSUME NEW s \in GaSessions, ExecInsert(s) PROVE Safe'
    <2> DEFINE p == gaTx[s].p
    <2>1. p \in Preps /\ gaTx[s].op = "insert" /\ gaPermit[p].claimed
      BY <1>0, <1>11, GaTxFields DEF ExecInsert, GaAt, GaClaims, GaActing
    <2>2. CASE gaInv[p] = "none"
      <3>1. gaTx'[s] = [op |-> "call", p |-> p] /\ \A u \in GaSessions : u # s => gaTx'[u] = gaTx[u]
        BY <1>0, <1>11, <2>1, <2>2, GaMove, GaNewTx DEF ExecInsert
      <3>2. gaInv' = [gaInv EXCEPT ![p] = "running"] /\ gaWire' = gaWire /\ gaPermit' = gaPermit
        BY <1>11, <2>2 DEF ExecInsert
      <3>3. gaInv'[p] = "running" /\ \A q \in Preps : q # p => gaInv'[q] = gaInv[q]
        <4>1. gaInv \in [Preps -> {"none", "running"} \cup Outcomes]
          BY <1>0, GaTypeParts
        <4> QED
          BY <2>1, <3>2, <4>1
      <3>4. \A u \in GaSessions : gaTx[u].op \in GaCalling => gaTx[u].p # p /\ gaTx[u].p \in Preps
        BY <1>0, <2>1, <2>2, GaTxFields DEF GaOwnsCall, GaCalling
      <3>5. GaClaims'
        BY <1>0, <2>1, <3>1, <3>2 DEF GaClaims, GaActing
      <3>6. GaOwnsCall'
        BY <1>0, <3>1, <3>3, <3>4 DEF GaOwnsCall
      <3>7. GaSendsOnce'
        BY <1>0, <2>1, <2>2, <3>1, <3>2, <3>3 DEF GaSendsOnce
      <3>8. GaTruthful'
        BY <1>0, <2>1, <3>1, <3>2, <3>3 DEF GaTruthful
      <3> QED
        BY <3>5, <3>6, <3>7, <3>8
    <2>3. CASE gaInv[p] # "none"
      <3>1. GaGoto(s, [op |-> "receipt", p |-> p, out |-> Replayed(gaInv[p])])
        BY <1>11, <2>3 DEF ExecInsert
      <3>2. /\ gaTx'[s].op = "receipt" /\ gaTx'[s].p = p
            /\ gaTx'[s].out = "succeeded" => gaInv[p] = "succeeded"
            /\ \A u \in GaSessions : u # s => gaTx'[u] = gaTx[u]
        BY <1>0, <2>1, <2>3, <3>1, GaMove, GaNewTx, GaReplayed
      <3>3. gaInv' = gaInv /\ gaWire' = gaWire /\ gaPermit' = gaPermit
        BY <1>11, <2>3 DEF ExecInsert
      <3>4. gaInv[p] = "succeeded" => gaWire[p].result = "ok"
        BY <1>0, <2>1 DEF GaTruthful
      <3> QED
        BY <1>c, <2>1, <3>2, <3>3, <3>4, GaQuietStep DEF GaCalling, GaActing
    <2> QED
      BY <2>2, <2>3
  <1>12. ASSUME NEW s \in GaSessions, ExecNotSent(s) PROVE Safe'
    <2>1. gaTx[s].p \in Preps /\ gaTx[s].op = "call"
      BY <1>0, <1>12, GaTxFields DEF ExecNotSent, GaAt
    <2>2. /\ gaTx'[s] = [op |-> "record", p |-> gaTx[s].p, out |-> "failed"]
          /\ \A u \in GaSessions : u # s => gaTx'[u] = gaTx[u]
      BY <1>0, <1>12, <2>1, GaMove, GaNewTx DEF ExecNotSent, Outcomes
    <2> QED
      BY <1>12, <2>1, <2>2, GaOwnerStep DEF ExecNotSent
  <1>13. ASSUME NEW s \in GaSessions, ExecSend(s) PROVE Safe'
    <2> DEFINE p == gaTx[s].p
    <2>1. p \in Preps /\ gaTx[s].op = "call"
      BY <1>0, <1>13, GaTxFields DEF ExecSend, GaAt
    <2>2. gaInv[p] = "running" /\ gaWire[p].sends = 0
      BY <1>0, <2>1 DEF GaOwnsCall, GaCalling, GaSendsOnce
    <2>3. gaTx'[s] = [op |-> "wait", p |-> p] /\ \A u \in GaSessions : u # s => gaTx'[u] = gaTx[u]
      BY <1>0, <1>13, <2>1, GaMove, GaNewTx DEF ExecSend
    <2>4. gaWire \in [Preps -> GaWireType]
      BY <1>0, GaTypeParts
    <2>5. /\ gaWire'[p].sends = 1
          /\ \A q \in Preps : gaWire'[q].result = gaWire[q].result /\ (q # p => gaWire'[q] = gaWire[q])
      BY <1>13, <2>1, <2>2, <2>4 DEF ExecSend, GaWireType
    <2>6. gaInv' = gaInv /\ gaPermit' = gaPermit
      BY <1>13 DEF ExecSend
    <2>7. GaOwnsCall'
      BY <1>0, <2>1, <2>3, <2>6 DEF GaOwnsCall, GaCalling
    <2>8. \A u \in GaSessions : gaTx'[u].op = "call" => gaTx'[u] = gaTx[u] /\ gaTx[u].p # p /\ gaTx[u].p \in Preps
      BY <1>0, <2>1, <2>3, GaTxFields DEF GaOwnsCall, GaCalling
    <2>9. GaSendsOnce'
      BY <1>0, <2>1, <2>2, <2>5, <2>6, <2>8 DEF GaSendsOnce
    <2>10. GaClaims'
      BY <1>0, <2>1, <2>3, <2>6 DEF GaClaims, GaActing
    <2>11. \A u \in GaSessions : gaTx[u].op \in {"record", "receipt", "finish"} => gaTx[u].p \in Preps
      BY <1>0, GaTxFields
    <2>12. GaTruthful'
      BY <1>0, <2>3, <2>5, <2>6, <2>11 DEF GaTruthful
    <2> QED
      BY <2>7, <2>9, <2>10, <2>12
  <1>14. ASSUME NEW s \in GaSessions, ExecAnswer(s) \/ ExecNoAnswer(s) PROVE Safe'
    <2> DEFINE p == gaTx[s].p
    <2>1. p \in Preps /\ gaTx[s].op = "wait"
      BY <1>0, <1>14, GaTxFields DEF ExecAnswer, ExecNoAnswer, GaAt
    <2>2. PICK out \in Outcomes : /\ GaGoto(s, [op |-> "record", p |-> p, out |-> out])
                                  /\ out = "succeeded" => gaWire[p].result = "ok"
      BY <1>14 DEF ExecAnswer, ExecNoAnswer, Outcomes
    <2>3. /\ gaTx'[s] = [op |-> "record", p |-> p, out |-> out]
          /\ \A u \in GaSessions : u # s => gaTx'[u] = gaTx[u]
      BY <1>0, <2>1, <2>2, GaMove, GaNewTx
    <2>4. gaInv' = gaInv /\ gaWire' = gaWire /\ gaPermit' = gaPermit
      BY <1>14 DEF ExecAnswer, ExecNoAnswer
    <2> QED
      BY <2>1, <2>2, <2>3, <2>4, GaOwnerStep
  <1>15. ASSUME NEW s \in GaSessions, ExecRecord(s) PROVE Safe'
    <2> DEFINE p == gaTx[s].p
    <2>1. gaTx[s].op = "record" /\ gaTx[s] \in GaOutTx
      BY <1>0, <1>15, GaTxFields DEF ExecRecord, GaAt
    <2>2. p \in Preps /\ gaTx[s].out \in Outcomes
      BY <2>1 DEF GaOutTx
    <2>3. /\ gaTx'[s].op = "receipt" /\ gaTx'[s].p = p /\ gaTx'[s].out = gaTx[s].out
          /\ \A u \in GaSessions : u # s => gaTx'[u] = gaTx[u]
      <3> DEFINE t == [gaTx[s] EXCEPT !.op = "receipt"]
      <3>1. t \in GaTxType /\ t.op = "receipt" /\ t.p = p /\ t.out = gaTx[s].out
        BY <2>1, GaNewTx
      <3>2. GaGoto(s, t)
        BY <1>15 DEF ExecRecord
      <3> HIDE DEF t
      <3> QED
        BY <1>0, <3>1, <3>2, GaMove
    <2>4. gaInv'[p] = gaTx[s].out /\ \A q \in Preps : q # p => gaInv'[q] = gaInv[q]
      <3>1. gaInv \in [Preps -> {"none", "running"} \cup Outcomes]
        BY <1>0, GaTypeParts
      <3> QED
        BY <1>15, <2>2, <3>1 DEF ExecRecord
    <2>5. gaWire' = gaWire /\ gaPermit' = gaPermit
      BY <1>15 DEF ExecRecord
    <2>6. \A u \in GaSessions : gaTx'[u].op \in GaCalling => gaTx'[u] = gaTx[u] /\ gaTx[u].p # p /\ gaTx[u].p \in Preps
      BY <1>0, <2>1, <2>3, GaTxFields DEF GaOwnsCall, GaCalling
    <2>7. GaOwnsCall'
      BY <1>0, <2>4, <2>6 DEF GaOwnsCall
    <2>8. GaClaims'
      BY <1>0, <2>1, <2>3, <2>5 DEF GaClaims, GaActing
    <2>9. GaSendsOnce'
      BY <1>0, <2>2, <2>3, <2>4, <2>5 DEF GaSendsOnce, Outcomes
    <2>10. GaTruthful'
      BY <1>0, <2>1, <2>2, <2>3, <2>4, <2>5 DEF GaTruthful
    <2> QED
      BY <2>7, <2>8, <2>9, <2>10
  <1>16. ASSUME NEW s \in GaSessions, ExecReceipt(s) PROVE Safe'
    <2> DEFINE p == gaTx[s].p
    <2>1. gaTx[s].op = "receipt" /\ gaTx[s] \in GaOutTx
      BY <1>0, <1>16, GaTxFields DEF ExecReceipt, GaAt
    <2>2. p \in Preps /\ gaPermit[p].claimed /\ (gaTx[s].out = "succeeded" => gaWire[p].result = "ok")
      BY <1>0, <2>1 DEF GaOutTx, GaClaims, GaActing, GaTruthful
    <2>3. /\ gaTx'[s].op = "finish" /\ gaTx'[s].p = p /\ gaTx'[s].out = gaTx[s].out
          /\ \A u \in GaSessions : u # s => gaTx'[u] = gaTx[u]
      <3> DEFINE t == [gaTx[s] EXCEPT !.op = "finish"]
      <3>1. t \in GaTxType /\ t.op = "finish" /\ t.p = p /\ t.out = gaTx[s].out
        BY <2>1, GaNewTx
      <3>2. GaGoto(s, t)
        BY <1>16 DEF ExecReceipt
      <3> HIDE DEF t
      <3> QED
        BY <1>0, <3>1, <3>2, GaMove
    <2>4. \A q \in Preps : /\ gaPermit'[q].claimed = gaPermit[q].claimed
                           /\ gaPermit'[q].status = "claimed" => gaPermit[q].status = "claimed"
      BY <1>16, <1>p, <2>2 DEF ExecReceipt, GaPermitType
    <2>5. gaInv' = gaInv /\ gaWire' = gaWire
      BY <1>16 DEF ExecReceipt
    <2> QED
      BY <1>c, <2>2, <2>3, <2>4, <2>5, GaQuietStep DEF GaCalling, GaActing
  <1> QED
    BY <1>1, <1>2, <1>3, <1>4, <1>5, <1>6, <1>7, <1>8, <1>9, <1>10, <1>11, <1>12, <1>13, <1>14,
       <1>15, <1>16 DEF GaNext

(* For any calls and preparations: an approval is spent by one claim, the    *)
(* guarded remote call is sent at most once, and receipts and invocations    *)
(* record what really came back (execute_guarded).                           *)
THEOREM FederatedActionsInvariant == GaSpec => []GaIInv
  <1>1. GaIInv /\ [GaNext]_gaVars => GaIInv'
    BY GaTypeStep, GaSafeStep DEF GaIInv
  <1> QED
    BY <1>1, GaInitInv, PTL DEF GaSpec

(* Every step of the broker is a step of the guarded action or a stutter.  *)
LEMMA GaStepSimulates ==
    ASSUME GaIInv, [GaNext]_gaVars
    PROVE  [Promise!Next]_<<{p \in Preps : gaPermit[p].claimed}, [p \in Preps |-> gaWire[p].sends],
                            [p \in Preps |-> gaWire[p].result], gaReceipt>>
  <1> DEFINE auth == {p \in Preps : gaPermit[p].claimed}
             sent == [p \in Preps |-> gaWire[p].sends]
             done == [p \in Preps |-> gaWire[p].result]
  <1>0. FedTypeOK /\ GaClaims /\ GaOwnsCall /\ GaSendsOnce /\ GaTruthful
    BY DEF GaIInv
  <1>p. gaPermit \in [Preps -> GaPermitType]
    BY <1>0, GaTypeParts
  <1>w. gaWire \in [Preps -> GaWireType]
    BY <1>0, GaTypeParts
  <1>1. ASSUME gaWire' = gaWire, gaReceipt' = gaReceipt,
               \A p \in Preps : gaPermit'[p].claimed = gaPermit[p].claimed
        PROVE  UNCHANGED <<auth, sent, done, gaReceipt>>
    BY <1>1
  <1>2. ASSUME NEW p \in Preps, IssuePermit(p) \/ RevokePermit(p)
        PROVE  UNCHANGED <<auth, sent, done, gaReceipt>>
    <2>1. \A q \in Preps : gaPermit'[q].claimed = gaPermit[q].claimed
      BY <1>2, <1>p DEF IssuePermit, RevokePermit, GaPermitType
    <2> QED
      BY <1>1, <1>2, <2>1 DEF IssuePermit, RevokePermit, GaEnvUnchanged
  <1>3. ASSUME NEW p \in Preps, UpstreamRuns(p)
        PROVE  Promise!Perform(p)
    <2>1. gaWire[p].sends = 1 /\ gaWire[p].result = "no"
      BY <1>3, <1>w DEF UpstreamRuns, GaWireType
    <2>2. PICK r \in {"ok", "error"} : gaWire' = [gaWire EXCEPT ![p].result = r]
      BY <1>3 DEF UpstreamRuns
    <2>3. sent' = sent /\ done' = [done EXCEPT ![p] = r]
      BY <2>2, <1>w DEF GaWireType
    <2> QED
      BY <1>3, <2>1, <2>2, <2>3 DEF UpstreamRuns, Promise!Perform
  <1>4. ASSUME NEW s \in GaSessions, NEW p \in Preps, p = gaTx[s].p, ExecClaim(s)
        PROVE  Promise!Authorise(p) \/ UNCHANGED <<auth, sent, done, gaReceipt>>
    <2>2. gaWire' = gaWire /\ gaReceipt' = gaReceipt
      BY <1>4 DEF ExecClaim
    <2>3. CASE gaPermit' = gaPermit
      BY <2>2, <2>3
    <2>4. CASE gaPermit' = [gaPermit EXCEPT ![p] = [status |-> "claimed", claimed |-> TRUE]]
      <3>1. auth' = auth \cup {p}
        BY <1>p, <1>4, <2>4 DEF GaPermitType
      <3> QED
        BY <1>4, <2>2, <3>1 DEF Promise!Authorise
    <2> QED
      BY <1>4, <2>3, <2>4 DEF ExecClaim
  <1>5. ASSUME NEW s \in GaSessions, NEW p \in Preps, p = gaTx[s].p, ExecSend(s)
        PROVE  Promise!Send(p)
    <2>1. p \in Preps /\ gaPermit[p].claimed /\ gaWire[p].sends = 0
      BY <1>0, <1>5, GaTxFields DEF ExecSend, GaAt, GaClaims, GaActing, GaSendsOnce
    <2>2. sent' = [sent EXCEPT ![p] = 1] /\ done' = done
      <3>1. gaWire' = [gaWire EXCEPT ![p].sends = @ + 1]
        BY <1>5 DEF ExecSend
      <3>2. /\ gaWire'[p].sends = 1
            /\ \A q \in Preps : gaWire'[q].result = gaWire[q].result /\ (q # p => gaWire'[q] = gaWire[q])
        BY <1>w, <2>1, <3>1 DEF GaWireType
      <3> QED
        BY <2>1, <3>2
    <2> QED
      BY <1>5, <2>1, <2>2 DEF ExecSend, Promise!Send
  <1>6. ASSUME NEW s \in GaSessions, NEW p \in Preps, p = gaTx[s].p, ExecReceipt(s)
        PROVE  Promise!Report(p) \/ UNCHANGED <<auth, sent, done, gaReceipt>>
    <2>1. /\ p \in Preps /\ gaPermit[p].claimed /\ gaTx[s].out \in Outcomes
          /\ gaTx[s].out = "succeeded" => gaWire[p].result = "ok"
      BY <1>0, <1>6, GaTxFields DEF ExecReceipt, GaAt, GaClaims, GaActing, GaOutTx, GaTruthful
    <2>2. \A q \in Preps : gaPermit'[q].claimed = gaPermit[q].claimed
      BY <1>6, <1>p, <2>1 DEF ExecReceipt, GaPermitType
    <2>3. auth' = auth /\ gaWire' = gaWire
      BY <1>6, <2>2 DEF ExecReceipt
    <2>4. CASE gaReceipt[p] = "none"
      BY <1>6, <2>1, <2>3, <2>4 DEF ExecReceipt, Promise!Report, Outcomes
    <2>5. CASE gaReceipt[p] # "none"
      BY <1>6, <2>3, <2>5 DEF ExecReceipt
    <2> QED
      BY <2>4, <2>5
  <1>7. CASE UNCHANGED gaVars
    BY <1>1, <1>7 DEF gaVars
  <1>8. CASE ChangeAuth \/ (\E p \in Preps : Decide(p) \/ Lapse(p))
    BY <1>1, <1>8 DEF ChangeAuth, Decide, Lapse, GaEnvUnchanged
  <1>9. ASSUME NEW s \in GaSessions,
               \/ \E p \in Preps : PrepareRead(s, p) \/ ExecExpired(s, p) \/ ExecRead(s, p)
               \/ PrepareCommit(s) \/ ExecRefused(s) \/ ExecStart(s) \/ ExecInsert(s)
               \/ ExecNotSent(s) \/ ExecAnswer(s) \/ ExecNoAnswer(s)
               \/ ExecRecord(s) \/ ExecFinish(s) \/ GaCrash(s)
        PROVE  UNCHANGED <<auth, sent, done, gaReceipt>>
    <2>1. gaWire' = gaWire /\ gaReceipt' = gaReceipt /\ gaPermit' = gaPermit
      BY <1>9 DEF PrepareRead, ExecExpired, ExecRead, PrepareCommit, ExecRefused, ExecStart, ExecInsert,
                  ExecNotSent, ExecAnswer, ExecNoAnswer, ExecRecord, ExecFinish, GaCrash
    <2> QED
      BY <1>1, <2>1
  <1>10. ASSUME NEW s \in GaSessions, ExecClaim(s) \/ ExecSend(s) \/ ExecReceipt(s)
         PROVE  Promise!Next \/ UNCHANGED <<auth, sent, done, gaReceipt>>
    <2>1. PICK p \in Preps : p = gaTx[s].p
      BY <1>0, <1>10, GaTxFields DEF ExecClaim, ExecSend, ExecReceipt, GaAt
    <2>2. \/ Promise!Authorise(p) \/ Promise!Send(p) \/ Promise!Report(p)
          \/ UNCHANGED <<auth, sent, done, gaReceipt>>
      BY <1>4, <1>5, <1>6, <1>10, <2>1, Zenon
    <2> QED
      BY <2>2, Zenon DEF Promise!Next
  <1>11. ASSUME NEW p \in Preps, UpstreamRuns(p) PROVE Promise!Next
    <2>1. Promise!Perform(p)
      BY <1>3, <1>11
    <2> QED
      BY <2>1, Zenon DEF Promise!Next
  <1> QED
    BY <1>2, <1>7, <1>8, <1>9, <1>10, <1>11, Zenon DEF GaNext

(* The initial state of the broker is one of the abstract guarded action.    *)
LEMMA GaInitSimulates == GaInit => Promise!Init
  BY DEF GaInit, Promise!Init

(* The broker implements GuardedAction: whatever the interleaving of         *)
(* prepare, approval, execute_guarded and its retries, a step of the code is *)
(* a step of the promise or none.                                            *)
THEOREM FederatedActionsRefineGuardedAction == GaSpec => ImplementsGuardedAction
  BY FederatedActionsInvariant, GaInitSimulates, GaStepSimulates, PTL
  DEF GaSpec, ImplementsGuardedAction, Promise!Spec

-----------------------------------------------------------------------------
(* Connections to an upstream server (UpstreamServers)                     *)

UsActiveCall == [op : {"queued", "connecting", "online"}, kind : Kinds,
                 probe : {"none", "own", "orphan"}, loaded : Statuses]
UsCallType == {UsIdle} \cup UsActiveCall
UsRowType == {"none", "connecting", "online", "closed", "failed"}

(* A connection call that is not idle carries the row it loaded, its kind    *)
(* and its probe.                                                            *)
LEMMA UsCallFields ==
    ASSUME UsTypeOK, NEW c \in UsCalls
    PROVE  /\ usCall \in [UsCalls -> UsCallType] /\ usRow \in [UsCalls -> UsRowType]
           /\ usCall[c].op # "idle" => usCall[c] \in UsActiveCall
           /\ usCall[c] # UsIdle => usCall[c] \in UsActiveCall
           /\ usCall[c] \in UsActiveCall => usCall[c].op # "idle" /\ usCall[c].op \in {"queued", "connecting", "online"}
                                            /\ usCall[c] # UsIdle
  BY DEF UsTypeOK, UsCallType, UsActiveCall, UsIdle, UsRowType

(* Moving a call on, or handing it a probe, keeps what it loaded.            *)
LEMMA UsActiveFields ==
    ASSUME NEW x \in UsActiveCall
    PROVE  /\ \A o \in {"queued", "connecting", "online"} :
                [x EXCEPT !.op = o] \in UsActiveCall /\ [x EXCEPT !.op = o].op = o /\ [x EXCEPT !.op = o].probe = x.probe
           /\ \A p \in {"none", "own", "orphan"} :
                [x EXCEPT !.probe = p] \in UsActiveCall /\ [x EXCEPT !.probe = p].op = x.op
           /\ x.probe \in {"none", "own", "orphan"} /\ x.kind \in Kinds /\ x.loaded \in Statuses
  BY DEF UsActiveCall

(* The idle call is a call, and is none of the active ones.                  *)
LEMMA UsIdleFields == UsIdle.op = "idle" /\ UsIdle \in UsCallType /\ UsIdle \notin UsActiveCall
  BY DEF UsIdle, UsCallType, UsActiveCall

UsInv == UsTypeOK /\ UpstreamSound

(* The type invariant of the upstream connections, one fact per variable.    *)
LEMMA UsTypeParts ==
    UsTypeOK <=> /\ usStatus \in Statuses /\ usFail \in 0..UsThreshold /\ usCool \in 0..UsDelay
                 /\ usProbe \in BOOLEAN
                 /\ usRow \in [UsCalls -> UsRowType]
                 /\ usCall \in [UsCalls -> UsCallType]
  BY DEF UsTypeOK, UsCallType, UsActiveCall, UsRowType

(* The same for the state after a step.                                      *)
LEMMA UsTypePartsNext ==
    UsTypeOK' <=> /\ usStatus' \in Statuses /\ usFail' \in 0..UsThreshold /\ usCool' \in 0..UsDelay
                  /\ usProbe' \in BOOLEAN
                  /\ usRow' \in [UsCalls -> UsRowType]
                  /\ usCall' \in [UsCalls -> UsCallType]
  BY DEF UsTypeOK, UsCallType, UsActiveCall, UsRowType

(* What a failure does to the breaker, and to the status.                  *)
LEMMA UsRecordFailure ==
    ASSUME UsTypeOK, RecordFailure
    PROVE  usFail' \in 0..UsThreshold /\ usCool' \in 0..UsDelay /\ usProbe' = FALSE
  BY UpstreamServersAssumption DEF UsTypeOK, RecordFailure

(* Recording a failure writes one of the statuses of the server row.         *)
LEMMA UsMarkFailure ==
    ASSUME UsTypeOK, NEW kind, NEW loaded, MarkFailure(kind, loaded)
    PROVE  usStatus' \in Statuses
  BY DEF UsTypeOK, MarkFailure, Statuses

(* No connection is open and the breaker closed when the broker starts.      *)
LEMMA UsInitInv == UsInit => UsInv
  <1> SUFFICES ASSUME UsInit PROVE UsInv
    OBVIOUS
  <1>1. usStatus \in Statuses /\ usProbe \in BOOLEAN
    BY DEF UsInit, Statuses
  <1>2. usFail \in 0..UsThreshold /\ usCool \in 0..UsDelay
    BY UpstreamServersAssumption DEF UsInit
  <1>3. usRow \in [UsCalls -> UsRowType] /\ usCall \in [UsCalls -> UsCallType]
    BY UsIdleFields DEF UsInit, UsRowType
  <1>4. UpstreamSound
    BY UsIdleFields DEF UsInit, UpstreamSound, ProbeFlagHasItsProbe, OnlineRowsAreSessions
  <1> QED
    BY <1>1, <1>2, <1>3, <1>4, UsTypeParts DEF UsInv

(* Every step of a connection call, of the breaker and of the administrator  *)
(* keeps the invariant.                                                      *)
LEMMA UsStepInv ==
    ASSUME UsInv, [UsNext]_usVars
    PROVE  UsInv'
  <1> USE DEF UpstreamSound, ProbeFlagHasItsProbe, OnlineRowsAreSessions
  <1>0. UsTypeOK /\ UpstreamSound
    BY DEF UsInv
  <1>t. /\ usStatus \in Statuses /\ usFail \in 0..UsThreshold /\ usCool \in 0..UsDelay
        /\ usProbe \in BOOLEAN
        /\ usRow \in [UsCalls -> UsRowType]
        /\ usCall \in [UsCalls -> UsCallType]
    BY <1>0, UsTypeParts
  <1>1. CASE UNCHANGED usVars
    BY <1>0, <1>t, <1>1, UsTypePartsNext DEF usVars, UsInv
  <1>2. CASE Tick
    <2>1. usCool' \in 0..UsDelay
      BY <1>t, <1>2, UpstreamServersAssumption DEF Tick
    <2> QED
      BY <1>0, <1>t, <1>2, <2>1, UsTypePartsNext DEF Tick, UsInv
  <1>3. CASE SetStatus
    <2>1. usStatus' \in Statuses
      BY <1>3 DEF SetStatus, Statuses
    <2> QED
      BY <1>0, <1>t, <1>3, <2>1, UsTypePartsNext DEF SetStatus, UsInv
  <1>4. ASSUME NEW c \in UsCalls, NEW kind \in Kinds, Enter(c, kind) PROVE UsInv'
    <2> DEFINE x == [op |-> "queued", kind |-> kind, loaded |-> usStatus,
                     probe |-> IF usFail > 0 THEN "own" ELSE "none"]
    <2>1. x \in UsActiveCall /\ x.op = "queued"
      BY <1>t DEF UsActiveCall
    <2>2. usFail > 0 => x.probe = "own"
      OBVIOUS
    <2>3. usCall' = [usCall EXCEPT ![c] = x] /\ usCall[c] = UsIdle
      BY <1>4 DEF Enter
    <2> HIDE DEF x
    <2>4. usCall' \in [UsCalls -> UsCallType] /\ usCall'[c] = x /\ \A d \in UsCalls : d # c => usCall'[d] = usCall[d]
      BY <1>t, <2>1, <2>3 DEF UsCallType
    <2>5. UsTypeOK'
      BY <1>t, <1>4, <2>4, UsTypePartsNext DEF Enter
    <2>6. ProbeFlagHasItsProbe'
      <3>1. usProbe' => usProbe \/ usFail > 0
        BY <1>4 DEF Enter
      <3>2. CASE usFail > 0
        BY <2>1, <2>2, <2>4, <3>2
      <3>3. CASE usProbe
        BY <1>0, <2>3, <2>4, <3>3, UsIdleFields
      <3> QED
        BY <3>1, <3>2, <3>3
    <2>7. OnlineRowsAreSessions'
      BY <1>0, <1>4, <2>1, <2>3, <2>4, UsIdleFields DEF Enter
    <2> QED
      BY <2>5, <2>6, <2>7 DEF UsInv
  <1>5. ASSUME NEW c \in UsCalls, NEW kind \in Kinds, Refused(c, kind) PROVE UsInv'
    <2>1. usFail' \in 0..UsThreshold /\ usCool' \in 0..UsDelay /\ usProbe' = FALSE
      BY <1>0, <1>5, UsRecordFailure DEF Refused
    <2>2. usStatus' \in Statuses
      BY <1>0, <1>5, UsMarkFailure DEF Refused
    <2>3. usCall' = usCall /\ usRow' = usRow
      BY <1>5 DEF Refused
    <2>4. UsTypeOK'
      BY <1>t, <2>1, <2>2, <2>3, UsTypePartsNext
    <2> QED
      BY <1>0, <2>1, <2>3, <2>4 DEF UsInv
  <1>6. ASSUME NEW c \in UsCalls, NEW from \in {"queued", "connecting"}, NEW to \in {"connecting", "online"},
               usCall[c].op = from, usCall' = [usCall EXCEPT ![c].op = to],
               usRow' = [usRow EXCEPT ![c] = to],
               UNCHANGED <<usStatus, usFail, usCool, usProbe>>
        PROVE  UsInv'
    <2>1. usCall[c] \in UsActiveCall
      BY <1>0, <1>6, UsCallFields
    <2> DEFINE x == [usCall[c] EXCEPT !.op = to]
    <2>2. x \in UsActiveCall /\ x.op = to /\ x.probe = usCall[c].probe
      BY <1>6, <2>1 DEF UsActiveCall
    <2>3. usCall' = [usCall EXCEPT ![c] = x]
      BY <1>6
    <2> HIDE DEF x
    <2>4. usCall' \in [UsCalls -> UsCallType] /\ usCall'[c] = x /\ \A d \in UsCalls : d # c => usCall'[d] = usCall[d]
      BY <1>t, <2>2, <2>3 DEF UsCallType
    <2>5. usRow' \in [UsCalls -> UsRowType] /\ usRow'[c] = to /\ \A d \in UsCalls : d # c => usRow'[d] = usRow[d]
      BY <1>t, <1>6 DEF UsRowType
    <2>6. UsTypeOK'
      BY <1>t, <1>6, <2>4, <2>5, UsTypePartsNext
    <2>7. ProbeFlagHasItsProbe'
      BY <1>0, <1>6, <2>2, <2>4
    <2>8. OnlineRowsAreSessions'
      BY <1>0, <1>6, <2>2, <2>4, <2>5
    <2> QED
      BY <2>6, <2>7, <2>8 DEF UsInv
  <1>7. ASSUME NEW c \in UsCalls, Succeed(c) PROVE UsInv'
    <2>1. usFail' \in 0..UsThreshold /\ usCool' \in 0..UsDelay /\ usProbe' = FALSE
      BY <1>7, UpstreamServersAssumption DEF Succeed, RecordSuccess
    <2>2. usStatus' \in Statuses
      BY <1>t, <1>7 DEF Succeed, Statuses
    <2>3. usRow' \in [UsCalls -> UsRowType] /\ usRow'[c] = "closed" /\ \A d \in UsCalls : d # c => usRow'[d] = usRow[d]
      BY <1>t, <1>7 DEF Succeed, UsRowType
    <2>4. \A d \in UsCalls : d # c =>
             IF usCall[d] = UsIdle THEN usCall'[d] = UsIdle
             ELSE usCall'[d] = [usCall[d] EXCEPT !.probe = IF @ = "own" THEN "orphan" ELSE @]
      BY <1>7 DEF Succeed, RecordSuccess
    <2>5. usCall'[c] = UsIdle /\ usCall' = [d \in UsCalls |-> usCall'[d]]
      BY <1>7 DEF Succeed, RecordSuccess
    <2>6. ASSUME NEW d \in UsCalls, d # c, usCall[d] # UsIdle
          PROVE  usCall'[d] \in UsActiveCall /\ usCall'[d].op = usCall[d].op
      <3>1. usCall[d] \in UsActiveCall
        BY <1>0, <2>6, UsCallFields
      <3>2. PICK p \in {"none", "own", "orphan"} : p = IF usCall[d].probe = "own" THEN "orphan" ELSE usCall[d].probe
        BY <3>1, UsActiveFields
      <3>3. usCall'[d] = [usCall[d] EXCEPT !.probe = p]
        BY <2>4, <2>6, <3>2
      <3> QED
        BY <3>1, <3>3 DEF UsActiveCall
    <2>7. \A d \in UsCalls : usCall'[d] \in UsCallType
      BY <2>4, <2>5, <2>6 DEF UsCallType
    <2>8. UsTypeOK'
      BY <2>1, <2>2, <2>3, <2>5, <2>7, UsTypePartsNext
    <2>9. OnlineRowsAreSessions'
      BY <1>0, <2>3, <2>4, <2>5, <2>6, UsIdleFields
    <2> QED
      BY <2>1, <2>8, <2>9 DEF UsInv
  <1>8. ASSUME NEW c \in UsCalls, Fail(c) PROVE UsInv'
    <2>1. usFail' \in 0..UsThreshold /\ usCool' \in 0..UsDelay /\ usProbe' = FALSE
      BY <1>0, <1>8, UsRecordFailure DEF Fail
    <2>2. usStatus' \in Statuses
      BY <1>0, <1>8, UsMarkFailure DEF Fail
    <2>3. usCall' \in [UsCalls -> UsCallType] /\ usCall'[c] = UsIdle /\ \A d \in UsCalls : d # c => usCall'[d] = usCall[d]
      BY <1>t, <1>8, UsIdleFields DEF Fail
    <2>4. usRow' \in [UsCalls -> UsRowType] /\ usRow'[c] # "online" /\ \A d \in UsCalls : d # c => usRow'[d] = usRow[d]
      BY <1>t, <1>8 DEF Fail, UsRowType
    <2>5. UsTypeOK'
      BY <2>1, <2>2, <2>3, <2>4, UsTypePartsNext
    <2>6. OnlineRowsAreSessions'
      BY <1>0, <2>3, <2>4, UsIdleFields
    <2> QED
      BY <2>1, <2>5, <2>6 DEF UsInv
  <1>9. ASSUME NEW c \in UsCalls, Cancel(c) PROVE UsInv'
    <2>1. usCall' \in [UsCalls -> UsCallType] /\ usCall'[c] = UsIdle /\ \A d \in UsCalls : d # c => usCall'[d] = usCall[d]
      BY <1>t, <1>9, UsIdleFields DEF Cancel
    <2>2. usRow' \in [UsCalls -> UsRowType] /\ usRow'[c] # "online" /\ \A d \in UsCalls : d # c => usRow'[d] = usRow[d]
      BY <1>t, <1>9 DEF Cancel, UsRowType
    <2>3. usProbe' \in BOOLEAN /\ (usProbe' => usProbe /\ usCall[c].probe # "own")
      BY <1>9 DEF Cancel
    <2>4. UsTypeOK'
      BY <1>t, <1>9, <2>1, <2>2, <2>3, UsTypePartsNext DEF Cancel
    <2>5. ProbeFlagHasItsProbe'
      BY <1>0, <2>1, <2>3
    <2>6. OnlineRowsAreSessions'
      BY <1>0, <2>1, <2>2, UsIdleFields
    <2> QED
      BY <2>4, <2>5, <2>6 DEF UsInv
  <1>10. ASSUME NEW c \in UsCalls, Connect(c) PROVE UsInv'
    BY <1>6, <1>10 DEF Connect
  <1>11. ASSUME NEW c \in UsCalls, Online(c) PROVE UsInv'
    BY <1>6, <1>11 DEF Online
  <1>12. ASSUME NEW c \in UsCalls, \/ CallExactRevision(c) \/ GetExactPrompt(c) \/ CompleteExactReference(c)
                                   \/ ReadExactResource(c) \/ TestServer(c) \/ RefreshServer(c)
         PROVE  UsInv'
    <2>1. \E kind \in Kinds : Enter(c, kind) \/ Refused(c, kind)
      BY <1>12 DEF CallExactRevision, GetExactPrompt, CompleteExactReference, ReadExactResource,
                   TestServer, RefreshServer, Kinds
    <2> QED
      BY <1>4, <1>5, <2>1
  <1> QED
    BY <1>1, <1>2, <1>3, <1>7, <1>8, <1>9, <1>10, <1>11, <1>12 DEF UsNext

(* For any number of calls to an upstream server: wherever one fails or is   *)
(* cancelled, the half-open probe flag of the circuit has its probe in       *)
(* flight, and a runtime row is online exactly while its session lives       *)
(* (mcp_upstream.py).                                                        *)
THEOREM UpstreamServersCorrect == UsSpec => []UpstreamSound
  <1>1. UsInv => UpstreamSound
    BY DEF UsInv
  <1> QED
    BY <1>1, UsInitInv, UsStepInv, PTL DEF UsSpec

-----------------------------------------------------------------------------
(* The registry of an upstream server (FederationRegistry)                 *)

\* What a database session of the registry holds.
RegTxState ==
    {RegIdle}
    \cup [op : {"listed"}, kind : RegKinds, snap : [Caps -> Descriptors \cup {Absent}]]
    \cup [op : {"reconcile"}, kind : RegKinds, snap : [Caps -> Descriptors \cup {Absent}],
          caps : [Caps -> CapRow], class : [Revisions -> {"none", "unknown", "read", "write"}]]
    \cup [op : {"classify"}, k : RegKeys, r : Revisions, class : {"unknown", "read", "write"}]
    \cup [op : {"expose"}, k : RegKeys, r : Revisions, version : Nat, enabled : BOOLEAN, generation : Nat,
          count : Nat]
    \cup [op : {"policy"}, k : RegKeys, generation : Nat, trust : TrustLevels]
    \cup [op : {"chosen", "session"}, r : Revisions]
    \cup [op : {"matched"}, r : Revisions, listed : Descriptors \cup {Absent}]

\* An exposure that is enabled was reviewed.
EnabledReviewed == \A r \in Revisions : regExp[r].enabled => r \in regReviewed

\* A call that reached its session chose a reviewed revision, and one that
\* found it listed found its descriptor.
SessionReviewed == \A s \in RegSessions :
    /\ regTx[s].op \in {"session", "matched"} => regTx[s].r \in regReviewed
    /\ regTx[s].op = "matched" => <<regTx[s].r[1], regTx[s].listed>> = regTx[s].r

\* The generation in force, and those of the reviews, are numbers taken.
ReviewsTaken ==
    /\ regPolicy.generation \in regTaken
    /\ \A r \in Revisions : regKind[r[1]] # "tool" /\ regExp[r].enabled => regExp[r].generation \in regTaken
    /\ \A s \in RegSessions : regTx[s].op = "expose" => regTx[s].generation \in regTaken

\* The policy trusts the server, or the generation in force was taken twice.
TrustedNow == regPolicy.trust \in Trusted \/ regPolicy.generation \in regReused

\* A review of the generation in force was made under the trust in force.
ReviewsTrusted ==
    /\ \A r \in Revisions :
         regKind[r[1]] # "tool" /\ regExp[r].enabled /\ regExp[r].generation = regPolicy.generation
           => TrustedNow
    /\ \A s \in RegSessions :
         regTx[s].op = "expose" /\ regTx[s].enabled /\ regTx[s].generation = regPolicy.generation
           => TrustedNow

RegInv ==
    /\ RegTypeOK /\ regTx \in [RegSessions -> RegTxState]
    /\ MutationOncePerKey /\ EnabledReviewed /\ SessionReviewed /\ CalledAsReviewed
    /\ ReviewsTaken /\ ReviewsTrusted

\* The fields of what a session holds.
LEMMA RegTxFields ==
  ASSUME NEW t \in RegTxState
  PROVE  /\ t.op = "listed" => t.kind \in RegKinds /\ t.snap \in [Caps -> Descriptors \cup {Absent}]
         /\ t.op = "reconcile" =>
              /\ t.kind \in RegKinds /\ t.snap \in [Caps -> Descriptors \cup {Absent}]
              /\ t.caps \in [Caps -> CapRow] /\ t.class \in [Revisions -> {"none", "unknown", "read", "write"}]
         /\ t.op = "classify" => t.k \in RegKeys /\ t.r \in Revisions /\ t.class \in {"unknown", "read", "write"}
         /\ t.op = "expose" =>
              t.k \in RegKeys /\ t.r \in Revisions /\ t.version \in Nat /\ t.enabled \in BOOLEAN /\ t.generation \in Nat
         /\ t.op = "expose" => t.count \in Nat
         /\ t.op = "policy" => t.k \in RegKeys /\ t.generation \in Nat /\ t.trust \in TrustLevels
         /\ t.op \in {"chosen", "session", "matched"} => t.r \in Revisions
  BY DEF RegTxState, RegIdle

(* The idle session is one of the states of a registry session.              *)
LEMMA RegIdleState == RegIdle \in RegTxState /\ RegIdle.op = "idle"
  BY DEF RegTxState, RegIdle

\* A usable revision has an enabled exposure.
LEMMA AuthorisedEnabled ==
  ASSUME RegTypeOK, NEW c \in Caps, NEW d \in Descriptors, Authorised(c, d)
  PROVE  /\ regExp[<<c, d>>].enabled
         /\ regKind[c] # "tool" => regExp[<<c, d>>].generation = regPolicy.generation
         /\ regKind[c] = "tool" => regPolicy.trust \in Trusted
  <1>1. regKind[c] \in RegKinds
    BY DEF RegTypeOK
  <1>2. CASE regKind[c] = "tool"
    BY <1>2 DEF Authorised, ToolAuthorised, ToolExposed, PolicyAllows
  <1>3. CASE regKind[c] = "resource"
    BY <1>3 DEF Authorised, ExactBinding
  <1>4. CASE regKind[c] = "prompt"
    BY <1>4 DEF Authorised, PromptBinding
  <1> QED
    BY <1>1, <1>2, <1>3, <1>4 DEF RegKinds

(* The inductive invariant says what RegistrySound says.                     *)
LEMMA RegInvSound == RegInv => RegistrySound
  <1> SUFFICES ASSUME RegInv PROVE RegistrySound
    OBVIOUS
  <1>1. ASSUME NEW r \in Revisions, Authorised(r[1], r[2])
        PROVE  r \in regReviewed /\ TrustedNow
    <2>1. PICK c \in Caps, d \in Descriptors : r = <<c, d>>
      BY DEF Revisions
    <2>2. Authorised(c, d)
      BY <1>1, <2>1
    <2>3. /\ regExp[r].enabled
          /\ regKind[c] # "tool" => regExp[r].generation = regPolicy.generation
          /\ regKind[c] = "tool" => regPolicy.trust \in Trusted
      BY <2>1, <2>2, AuthorisedEnabled DEF RegInv
    <2>4. r[1] = c
      BY <2>1
    <2> QED
      BY <2>3, <2>4 DEF RegInv, EnabledReviewed, ReviewsTrusted, TrustedNow
  <1> QED
    BY <1>1 DEF RegistrySound, UsableWasReviewed, UsableUnderTrust, TrustedNow, RegInv

(* An empty registry satisfies the invariant.                                *)
LEMMA RegInvInit == RegInit => RegInv
  <1> SUFFICES ASSUME RegInit PROVE RegInv
    OBVIOUS
  <1>1. RegTypeOK
    BY DEF RegInit, RegTypeOK, CapRow, ExpRow, TrustLevels
  <1>2. regTx \in [RegSessions -> RegTxState] /\ \A s \in RegSessions : regTx[s].op = "idle"
    BY RegIdleState DEF RegInit
  <1>3. MutationOncePerKey /\ EnabledReviewed /\ CalledAsReviewed
    BY DEF RegInit, MutationOncePerKey, EnabledReviewed, CalledAsReviewed
  <1>4. SessionReviewed
    BY <1>2 DEF SessionReviewed
  <1>5. ReviewsTaken
    BY <1>2 DEF RegInit, ReviewsTaken
  <1>6. ReviewsTrusted
    BY <1>2 DEF RegInit, ReviewsTrusted
  <1> QED
    BY <1>1, <1>2, <1>3, <1>4, <1>5, <1>6 DEF RegInv

\* A session takes up something that is neither a policy's write nor an
\* exposure of its own; nothing the reviews rest on changes.
LEMMA RegSessionKeeps ==
  ASSUME RegInv, NEW s \in RegSessions, NEW t \in RegTxState,
         t.op \notin {"policy", "expose"},
         t.op \in {"session", "matched"} => t.r \in regReviewed,
               t.op = "matched" => <<t.r[1], t.listed>> = t.r,
         regTx' = [regTx EXCEPT ![s] = t],
         UNCHANGED <<regExp, policyVars, regKey, regReviewed, regCalled, regKind>>
  PROVE  /\ regTx' \in [RegSessions -> RegTxState]
         /\ MutationOncePerKey' /\ EnabledReviewed' /\ SessionReviewed' /\ CalledAsReviewed'
         /\ ReviewsTaken' /\ ReviewsTrusted'
  <1>1. regTx \in [RegSessions -> RegTxState]
    BY DEF RegInv
  <1>2. regTx' \in [RegSessions -> RegTxState] /\ regTx'[s] = t /\ \A x \in RegSessions : x # s => regTx'[x] = regTx[x]
    BY <1>1
  <1>3. MutationOncePerKey' /\ EnabledReviewed' /\ CalledAsReviewed'
    BY DEF RegInv, MutationOncePerKey, EnabledReviewed, CalledAsReviewed
  <1>4. SessionReviewed'
    BY <1>2 DEF RegInv, SessionReviewed
  <1>6. ReviewsTaken'
    BY <1>2 DEF RegInv, ReviewsTaken, policyVars
  <1>7. ReviewsTrusted'
    BY <1>2 DEF RegInv, ReviewsTrusted, TrustedNow, policyVars
  <1> QED
    BY <1>2, <1>3, <1>4, <1>6, <1>7

(* Every commit of the registry keeps the invariant.                         *)
LEMMA RegInvNext ==
  ASSUME RegInv, [RegNext]_regVars
  PROVE  RegInv'
  <1>t. /\ RegTypeOK /\ regTx \in [RegSessions -> RegTxState]
        /\ regPolicy.generation \in Nat /\ regPolicy.trust \in TrustLevels
    BY DEF RegInv, RegTypeOK
  <1>0. /\ MutationOncePerKey /\ EnabledReviewed /\ SessionReviewed /\ CalledAsReviewed
        /\ ReviewsTaken /\ ReviewsTrusted
    BY DEF RegInv
  <1> USE DEF expVars, policyVars, TrustedNow
  \* A step that only moves a session.
  <1>m. ASSUME NEW s \in RegSessions, NEW t \in RegTxState, regTx' = [regTx EXCEPT ![s] = t],
               t.op \notin {"policy", "expose"}, t.op \in {"session", "matched"} => t.r \in regReviewed,
               t.op = "matched" => <<t.r[1], t.listed>> = t.r,
               UNCHANGED <<regKind, regUp, regCap, regClass, expVars, policyVars, regKey, regReviewed, regCalled>>
        PROVE  RegInv'
    <2>1. RegTypeOK'
      BY <1>t, <1>m DEF RegTypeOK
    <2>2. UNCHANGED <<regExp, policyVars, regKey, regReviewed, regCalled, regKind>>
      BY <1>m
    <2> QED
      BY <1>m, <2>1, <2>2, RegSessionKeeps DEF RegInv
  <1>1. ASSUME NEW c \in Caps, NEW d \in Descriptors \cup {Absent}, Drift(c, d) PROVE RegInv'
    <2>1. RegTypeOK'
      BY <1>t, <1>1 DEF RegTypeOK, Drift
    <2>2. UNCHANGED <<regKind, expVars, policyVars, regKey, regReviewed, regCalled, regTx>>
      BY <1>1 DEF Drift
    <2> QED
      BY <1>t, <1>0, <2>1, <2>2 DEF RegInv, MutationOncePerKey, EnabledReviewed, SessionReviewed, CalledAsReviewed,
           ReviewsTaken, ReviewsTrusted, TrustedNow
  <1>2. ASSUME NEW s \in RegSessions, RefreshList(s) PROVE RegInv'
    <2>1. PICK t : t = [op |-> "listed", kind |-> "tool", snap |-> regUp]
      OBVIOUS
    <2>2. t \in RegTxState /\ t.op = "listed"
      BY <1>t, <2>1 DEF RegTypeOK, RegTxState, RegKinds
    <2>3. /\ regTx' = [regTx EXCEPT ![s] = t]
          /\ UNCHANGED <<regKind, regUp, regCap, regClass, expVars, policyVars, regKey, regReviewed, regCalled>>
      BY <1>2, <2>1 DEF RefreshList, RegBegin
    <2> QED
      BY <1>m, <2>2, <2>3
  <1>3. ASSUME NEW s \in RegSessions, RefreshRead(s) PROVE RegInv'
    <2>1. regTx[s].kind \in RegKinds /\ regTx[s].snap \in [Caps -> Descriptors \cup {Absent}]
      BY <1>t, <1>3, RegTxFields DEF RefreshRead
    <2>2. PICK t : t = [op |-> "reconcile", kind |-> regTx[s].kind, snap |-> regTx[s].snap,
                        caps |-> regCap, class |-> regClass]
      OBVIOUS
    <2>3. t \in RegTxState /\ t.op = "reconcile"
      BY <1>t, <2>1, <2>2 DEF RegTypeOK, RegTxState
    <2>4. /\ regTx' = [regTx EXCEPT ![s] = t]
          /\ UNCHANGED <<regKind, regUp, regCap, regClass, expVars, policyVars, regKey, regReviewed, regCalled>>
      BY <1>3, <2>2 DEF RefreshRead
    <2> QED
      BY <1>m, <2>3, <2>4
  <1>4. ASSUME NEW s \in RegSessions, ReconcileCommit(s) PROVE RegInv'
    <2>1. PICK t \in RegTxState : t = regTx[s]
      BY <1>t
    <2>2. /\ t.op = "reconcile" /\ t.kind \in RegKinds /\ t.snap \in [Caps -> Descriptors \cup {Absent}]
          /\ t.caps \in [Caps -> CapRow]
      BY <1>4, <2>1, RegTxFields DEF ReconcileCommit
    <2>3. UNCHANGED <<regKind, regUp, expVars, policyVars, regKey, regReviewed, regCalled>>
      BY <1>4 DEF ReconcileCommit
    <2>4. CASE ReconcileClash(t, t.kind)
      <3>1. regTx' = [regTx EXCEPT ![s] = RegIdle] /\ UNCHANGED <<regCap, regClass>>
        BY <1>4, <2>1, <2>4 DEF ReconcileCommit, RegEnd
      <3> QED
        BY <1>m, <2>3, <3>1, RegIdleState
    <2>5. CASE ~ReconcileClash(t, t.kind)
      <3>1. /\ regCap' = [c \in Caps |-> IF regKind[c] = t.kind THEN Reconciled(t, c) ELSE regCap[c]]
            /\ regClass' = [r \in Revisions |->
                 IF regKind[r[1]] = t.kind /\ t.snap[r[1]] = r[2] /\ regClass[r] = "none"
                 THEN "unknown" ELSE regClass[r]]
            /\ IF t.kind = "prompt" THEN RegEnd(s)
               ELSE regTx' = [regTx EXCEPT ![s] = [op |-> "listed", kind |-> NextKind(t.kind), snap |-> t.snap]]
        BY <1>4, <2>1, <2>5 DEF ReconcileCommit
      <3>2. \A c \in Caps : Reconciled(t, c) \in CapRow
        <4> SUFFICES ASSUME NEW c \in Caps PROVE Reconciled(t, c) \in CapRow
          OBVIOUS
        <4>1. t.snap[c] \in Descriptors \cup {Absent} /\ regCap[c] \in CapRow
          BY <1>t, <2>2 DEF RegTypeOK
        <4>2. CASE t.snap[c] # Absent
          BY <4>1, <4>2 DEF Reconciled, CapRow
        <4>3. CASE t.snap[c] = Absent /\ t.caps[c].state = "active"
          BY <4>1, <4>3 DEF Reconciled, CapRow
        <4>4. CASE t.snap[c] = Absent /\ t.caps[c].state # "active"
          BY <4>1, <4>4 DEF Reconciled, CapRow
        <4> QED
          BY <4>2, <4>3, <4>4
      <3>3. regCap' \in [Caps -> CapRow]
        BY <1>t, <3>1, <3>2 DEF RegTypeOK
      <3>4. regClass' \in [Revisions -> {"none", "unknown", "read", "write"}]
        BY <1>t, <3>1 DEF RegTypeOK
      <3>5. RegTypeOK'
        BY <1>t, <2>3, <3>3, <3>4 DEF RegTypeOK
      <3>6. PICK u \in RegTxState : regTx' = [regTx EXCEPT ![s] = u] /\ u.op \in {"idle", "listed"}
        <4>1. CASE t.kind = "prompt"
          BY <3>1, <4>1, RegIdleState DEF RegEnd
        <4>2. CASE t.kind # "prompt"
          <5>1. PICK u : u = [op |-> "listed", kind |-> NextKind(t.kind), snap |-> t.snap]
            OBVIOUS
          <5>2. u \in RegTxState /\ u.op = "listed"
            BY <2>2, <5>1 DEF RegTxState, NextKind, RegKinds
          <5> QED
            BY <3>1, <4>2, <5>1, <5>2
        <4> QED
          BY <4>1, <4>2
      <3>7. UNCHANGED <<regExp, policyVars, regKey, regReviewed, regCalled, regKind>>
        BY <2>3
      <3> QED
        BY <3>5, <3>6, <3>7, RegSessionKeeps DEF RegInv
    <2> QED
      BY <2>4, <2>5
  <1>5. ASSUME NEW s \in RegSessions, RefreshAborts(s) PROVE RegInv'
    <2>1. /\ regTx' = [regTx EXCEPT ![s] = RegIdle]
          /\ UNCHANGED <<regKind, regUp, regCap, regClass, expVars, policyVars, regKey, regReviewed, regCalled>>
      BY <1>5 DEF RefreshAborts, RegEnd
    <2> QED
      BY <1>m, <2>1, RegIdleState
  <1>6. ASSUME NEW s \in RegSessions, MutationCommit(s) PROVE RegInv'
    <2>1. PICK t \in RegTxState : t = regTx[s]
      BY <1>t
    <2>2. /\ t.op \in {"classify", "expose", "policy"} /\ regTx' = [regTx EXCEPT ![s] = RegIdle]
          /\ UNCHANGED <<regKind, regUp, regCap, regCalled>>
      BY <1>6, <2>1 DEF MutationCommit, RegEnd
    <2>3. CASE MutationClash(t)
      <3>1. UNCHANGED <<regClass, expVars, policyVars, regKey, regReviewed>>
        BY <1>6, <2>1, <2>3 DEF MutationCommit
      <3> QED
        BY <1>m, <2>2, <3>1, RegIdleState
    <2>4. CASE ~MutationClash(t)
      <3>1. t.k \in RegKeys
        BY <2>2, RegTxFields
      <3>2. regKey' = [regKey EXCEPT ![t.k] = @ + 1]
        BY <1>6, <2>1, <2>4 DEF MutationCommit
      <3>3. regKey' \in [RegKeys -> Nat] /\ MutationOncePerKey'
        <4>1. regKey \in [RegKeys -> Nat] /\ \A k \in RegKeys : regKey[k] <= 1
          BY <1>t, <1>0 DEF RegTypeOK, MutationOncePerKey
        <4>2. ~(regKey[t.k] > 0)
          BY <2>4 DEF MutationClash
        <4> QED
          BY <3>1, <3>2, <4>1, <4>2 DEF MutationOncePerKey
      <3>4. /\ regTx' \in [RegSessions -> RegTxState] /\ regTx'[s] = RegIdle
            /\ \A x \in RegSessions : x # s => regTx'[x] = regTx[x]
        BY <1>t, <2>2, RegIdleState
      <3>5. regTx'[s].op = "idle"
        BY <3>4, RegIdleState
      <3>6. CASE t.op = "classify"
        <4>1. regClass' = [regClass EXCEPT ![t.r] = t.class] /\ UNCHANGED <<regExp, regNewest, policyVars, regReviewed>>
          BY <1>6, <2>1, <2>4, <3>6 DEF MutationCommit
        <4>2. t.r \in Revisions /\ t.class \in {"unknown", "read", "write"}
          BY <3>6, RegTxFields
        <4>3. RegTypeOK'
          BY <1>t, <2>2, <3>3, <4>1, <4>2 DEF RegTypeOK
        <4>4. EnabledReviewed' /\ CalledAsReviewed'
          BY <1>0, <2>2, <4>1 DEF EnabledReviewed, CalledAsReviewed
        <4>5. SessionReviewed'
          BY <1>0, <3>4, <3>5, <4>1 DEF SessionReviewed
        <4>7. ReviewsTaken'
          BY <1>0, <2>2, <3>4, <3>5, <4>1 DEF ReviewsTaken
        <4>8. ReviewsTrusted'
          BY <1>0, <2>2, <3>4, <3>5, <4>1 DEF ReviewsTrusted
        <4> QED
          BY <3>3, <3>4, <4>3, <4>4, <4>5, <4>7, <4>8 DEF RegInv
      <3>7. CASE t.op = "expose"
        <4>1. ExposeApply(t) /\ UNCHANGED <<regClass, policyVars>>
          BY <1>6, <2>1, <2>4, <3>7 DEF MutationCommit
        <4>2. t.r \in Revisions /\ t.version \in Nat /\ t.enabled \in BOOLEAN /\ t.generation \in Nat
          BY <3>7, RegTxFields
        <4>3. PICK row : row = [version |-> t.version + 1, enabled |-> t.enabled,
                  generation |-> IF regKind[t.r[1]] = "tool" /\ t.version > 0 THEN regExp[t.r].generation ELSE t.generation]
          OBVIOUS
        <4>4. regExp[t.r].generation \in Nat
          BY <1>t, <4>2 DEF RegTypeOK, ExpRow
        <4>5. row \in ExpRow /\ row.enabled = t.enabled
          BY <4>2, <4>3, <4>4 DEF ExpRow
        <4>6. regExp' = [regExp EXCEPT ![t.r] = row]
          BY <4>1, <4>3 DEF ExposeApply
        <4>7. regReviewed' = IF t.enabled THEN regReviewed \cup {t.r} ELSE regReviewed
          BY <4>1 DEF ExposeApply
        <4>8. regExp \in [Revisions -> ExpRow]
          BY <1>t DEF RegTypeOK
        <4>9. regExp' \in [Revisions -> ExpRow] /\ regExp'[t.r] = row /\ \A x \in Revisions : x # t.r => regExp'[x] = regExp[x]
          BY <4>2, <4>5, <4>6, <4>8
        <4>10. regReviewed \subseteq regReviewed' /\ regReviewed' \subseteq Revisions /\ (t.enabled => t.r \in regReviewed')
          BY <1>t, <4>2, <4>7 DEF RegTypeOK
        <4>11. RegTypeOK'
          <5>1. PICK d \in NewestAfter(t) :
                  regNewest' = [regNewest EXCEPT ![t.r[1]] = [cur |-> d, count |-> @.count + 1]]
            BY <4>1 DEF ExposeApply
          <5>2. t.r[1] \in Caps /\ t.r[2] \in Descriptors
            BY <4>2 DEF Revisions
          <5>3. /\ regNewest \in [Caps -> [cur : Descriptors \cup {Absent}, count : Nat]]
                /\ regNewest[t.r[1]].count + 1 \in Nat
            BY <1>t, <5>2 DEF RegTypeOK
          <5>4. d \in Descriptors \cup {Absent}
            BY <5>1, <5>2, <5>3 DEF NewestAfter
          <5>5. regNewest' \in [Caps -> [cur : Descriptors \cup {Absent}, count : Nat]]
            BY <5>1, <5>3, <5>4
          <5> QED
            BY <1>t, <2>2, <3>3, <4>1, <4>9, <4>10, <5>5 DEF RegTypeOK
        <4>12. EnabledReviewed'
          BY <1>0, <4>5, <4>9, <4>10 DEF EnabledReviewed
        <4>13. CalledAsReviewed'
          BY <1>0, <2>2, <4>10 DEF CalledAsReviewed
        <4>14. SessionReviewed'
          BY <1>0, <3>4, <3>5, <4>10 DEF SessionReviewed
        <4>16. /\ t.generation \in regTaken
               /\ t.enabled /\ t.generation = regPolicy.generation => TrustedNow
          BY <1>0, <2>1, <3>7 DEF ReviewsTaken, ReviewsTrusted
        <4>17. regKind[t.r[1]] # "tool" => row.generation = t.generation
          BY <4>3
        <4>18. ReviewsTaken'
          <5>1. \A x \in Revisions : regKind[x[1]] # "tool" /\ regExp'[x].enabled => regExp'[x].generation \in regTaken
            BY <1>0, <4>9, <4>16, <4>17 DEF ReviewsTaken
          <5>2. \A x \in RegSessions : regTx'[x].op = "expose" => regTx'[x].generation \in regTaken
            BY <1>0, <3>4, <3>5 DEF ReviewsTaken
          <5> QED
            BY <1>0, <2>2, <4>1, <5>1, <5>2 DEF ReviewsTaken
        <4>19. ReviewsTrusted'
          <5>1. ASSUME NEW x \in Revisions, regKind[x[1]] # "tool", regExp'[x].enabled,
                       regExp'[x].generation = regPolicy.generation
                PROVE  TrustedNow
            <6>1. CASE x = t.r
              BY <4>5, <4>9, <4>16, <4>17, <5>1, <6>1
            <6>2. CASE x # t.r
              BY <1>0, <4>9, <5>1, <6>2 DEF ReviewsTrusted
            <6> QED
              BY <6>1, <6>2
          <5>2. \A x \in RegSessions :
                  regTx'[x].op = "expose" /\ regTx'[x].enabled /\ regTx'[x].generation = regPolicy.generation
                    => TrustedNow
            BY <1>0, <3>4, <3>5 DEF ReviewsTrusted
          <5>3. regPolicy' = regPolicy /\ regKind' = regKind /\ TrustedNow' = TrustedNow
            BY <2>2, <4>1 DEF policyVars, TrustedNow
          <5> QED
            BY <5>1, <5>2, <5>3 DEF ReviewsTrusted
        <4> QED
          BY <3>3, <3>4, <4>11, <4>12, <4>13, <4>14, <4>18, <4>19 DEF RegInv
      <3>8. CASE t.op = "policy"
        <4>1. PolicyApply(t) /\ TakeNumber(t.generation + 1) /\ UNCHANGED <<regClass, expVars, regReviewed>>
          BY <1>6, <2>1, <2>4, <3>8 DEF MutationCommit
        <4>2. t.generation \in Nat /\ t.trust \in TrustLevels
          BY <3>8, RegTxFields
        <4>3. PICK n \in Nat :
                /\ n = t.generation + 1
                /\ regPolicy' = [generation |-> n, trust |-> t.trust]
                /\ regTaken' = regTaken \cup {n}
                /\ regReused' = IF n \in regTaken THEN regReused \cup {n} ELSE regReused
          <5>1. PICK n \in Nat : n = t.generation + 1
            BY <4>2
          <5> QED
            BY <4>1, <5>1 DEF PolicyApply, TakeNumber
        <4>4. RegTypeOK'
          <5>1. regPolicy' \in [generation : Nat, trust : TrustLevels]
            BY <4>2, <4>3
          <5>2. regTaken' \subseteq Nat /\ regReused' \subseteq Nat
            BY <1>t, <4>3 DEF RegTypeOK
          <5> QED
            BY <1>t, <2>2, <3>3, <4>1, <5>1, <5>2 DEF RegTypeOK
        <4>5. EnabledReviewed' /\ CalledAsReviewed'
          BY <1>0, <2>2, <4>1 DEF EnabledReviewed, CalledAsReviewed
        <4>6. SessionReviewed'
          BY <1>0, <3>4, <3>5, <4>1 DEF SessionReviewed
        <4>7. /\ regPolicy'.generation = n /\ n \in regTaken' /\ regTaken \subseteq regTaken'
              /\ n \in regTaken => n \in regReused'
          BY <4>3
        <4>8. UNCHANGED <<regKind, regExp>>
          BY <2>2, <4>1 DEF expVars
        <4>9. \A x \in Revisions : regKind'[x[1]] # "tool" /\ regExp'[x].enabled => regExp'[x].generation \in regTaken
          BY <1>0, <4>8 DEF ReviewsTaken
        <4>10. \A x \in RegSessions : regTx'[x].op = "expose" => regTx'[x].generation \in regTaken
          BY <1>0, <3>4, <3>5 DEF ReviewsTaken
        <4>11. ReviewsTaken'
          BY <4>7, <4>9, <4>10 DEF ReviewsTaken
        <4>12. ReviewsTrusted'
          BY <4>7, <4>9, <4>10 DEF ReviewsTrusted, TrustedNow
        <4> QED
          BY <3>3, <3>4, <4>4, <4>5, <4>6, <4>11, <4>12 DEF RegInv
      <3> QED
        BY <2>2, <3>6, <3>7, <3>8
    <2> QED
      BY <2>3, <2>4
  <1>7. ASSUME NEW s \in RegSessions, Resolve(s) PROVE RegInv'
    <2>1. PICK t \in RegTxState : t = regTx[s]
      BY <1>t
    <2>2. t.op = "chosen" /\ t.r \in Revisions
      BY <1>7, <2>1, RegTxFields DEF Resolve
    <2>3. UNCHANGED <<regKind, regUp, regCap, regClass, expVars, policyVars, regKey, regReviewed, regCalled>>
      BY <1>7 DEF Resolve
    <2>4. PICK r \in Revisions : r = t.r
      BY <2>2
    <2>5. CASE CallRead(r) \/ ReadResource(r) \/ GetPrompt(r)
      <3>1. regExp[<<r[1], r[2]>>].enabled
        BY <2>5 DEF CallRead, ReadResource, GetPrompt, ToolAuthorised, ToolExposed, ExactBinding, PromptBinding
      <3>2. r = <<r[1], r[2]>>
        BY DEF Revisions
      <3>3. r \in regReviewed
        BY <1>0, <3>1, <3>2 DEF EnabledReviewed
      <3>4. t = [op |-> "chosen", r |-> r]
        BY <2>1, <2>2, <2>4 DEF RegTxState, RegIdle
      <3>5. PICK u : u = [op |-> "session", r |-> r]
        OBVIOUS
      <3>6. u \in RegTxState /\ u.op = "session" /\ u.r = r
        BY <3>5 DEF RegTxState
      <3>7. regTx' = [regTx EXCEPT ![s].op = "session"]
        BY <1>7, <2>1, <2>4, <2>5 DEF Resolve
      <3>8. [t EXCEPT !.op = "session"] = u
        BY <3>4, <3>5
      <3>9. regTx' = [regTx EXCEPT ![s] = u]
        BY <1>t, <2>1, <3>7, <3>8
      <3> QED
        BY <1>m, <2>3, <3>3, <3>6, <3>9
    <2>6. CASE ~(CallRead(r) \/ ReadResource(r) \/ GetPrompt(r))
      <3>1. regTx' = [regTx EXCEPT ![s] = RegIdle]
        BY <1>7, <2>1, <2>4, <2>6 DEF Resolve, RegEnd
      <3> QED
        BY <1>m, <2>3, <3>1, RegIdleState
    <2> QED
      BY <2>5, <2>6
  <1>8. ASSUME NEW s \in RegSessions, ListLive(s) PROVE RegInv'
    <2>1. PICK t \in RegTxState : t = regTx[s]
      BY <1>t
    <2>2. t.op = "session" /\ t.r \in Revisions /\ t.r \in regReviewed
      BY <1>0, <1>8, <2>1, RegTxFields DEF ListLive, SessionReviewed
    <2>3. PICK r \in Revisions : r = t.r
      BY <2>2
    <2>4. UNCHANGED <<regKind, regUp, regCap, regClass, expVars, policyVars, regKey, regReviewed, regCalled>>
      BY <1>8 DEF ListLive
    <2>5. CASE LiveMatches(r)
      <3>1. PICK u : u = [op |-> "matched", r |-> r, listed |-> regUp[r[1]]]
        OBVIOUS
      <3>2. <<r[1], regUp[r[1]]>> = r /\ regUp[r[1]] \in Descriptors
        BY <2>5 DEF LiveMatches, Revisions
      <3>3. u \in RegTxState /\ u.op = "matched" /\ u.r = r /\ <<u.r[1], u.listed>> = u.r
        BY <3>1, <3>2 DEF RegTxState
      <3>4. regTx' = [regTx EXCEPT ![s] = u]
        BY <1>8, <2>1, <2>3, <2>5, <3>1 DEF ListLive
      <3> QED
        BY <1>m, <2>2, <2>3, <2>4, <3>3, <3>4
    <2>6. CASE ~LiveMatches(r)
      <3>1. regTx' = [regTx EXCEPT ![s] = RegIdle]
        BY <1>8, <2>1, <2>3, <2>6 DEF ListLive, RegEnd
      <3> QED
        BY <1>m, <2>4, <3>1, RegIdleState
    <2> QED
      BY <2>5, <2>6
  <1>14. ASSUME NEW s \in RegSessions, CallLive(s) PROVE RegInv'
    <2>1. PICK r \in Revisions : r = regTx[s].r
      BY <1>t, <1>14, RegTxFields DEF CallLive
    <2>2. r \in regReviewed /\ <<regTx[s].r[1], regTx[s].listed>> = r
      BY <1>0, <1>14, <2>1 DEF CallLive, SessionReviewed
    <2>3. /\ UNCHANGED <<regKind, regUp, regCap, regClass, expVars, policyVars, regKey, regReviewed>>
          /\ regTx' = [regTx EXCEPT ![s] = RegIdle]
          /\ regCalled' = regCalled \cup {r}
      BY <1>14, <2>2 DEF CallLive, RegEnd
    <2>4. CalledAsReviewed' /\ regCalled' \subseteq Revisions
      BY <1>0, <1>t, <2>2, <2>3 DEF CalledAsReviewed, RegTypeOK
    <2>5. RegTypeOK'
      BY <1>t, <2>3, <2>4 DEF RegTypeOK
    <2>6. /\ regTx' \in [RegSessions -> RegTxState] /\ regTx'[s].op = "idle"
          /\ \A x \in RegSessions : x # s => regTx'[x] = regTx[x]
      BY <1>t, <2>3, RegIdleState
    <2>7. MutationOncePerKey' /\ EnabledReviewed'
      BY <1>0, <2>3 DEF MutationOncePerKey, EnabledReviewed
    <2>8. SessionReviewed'
      BY <1>0, <2>3, <2>6 DEF SessionReviewed
    <2>9. ReviewsTaken'
      BY <1>0, <2>3, <2>6 DEF ReviewsTaken
    <2>10. ReviewsTrusted'
      BY <1>0, <2>3, <2>6 DEF ReviewsTrusted, TrustedNow
    <2> QED
      BY <2>4, <2>5, <2>6, <2>7, <2>8, <2>9, <2>10 DEF RegInv
  <1>9. ASSUME NEW s \in RegSessions, NEW r \in Revisions, Choose(s, r) PROVE RegInv'
    <2>1. PICK t : t = [op |-> "chosen", r |-> r]
      OBVIOUS
    <2>2. t \in RegTxState /\ t.op = "chosen"
      BY <2>1 DEF RegTxState
    <2>3. /\ regTx' = [regTx EXCEPT ![s] = t]
          /\ UNCHANGED <<regKind, regUp, regCap, regClass, expVars, policyVars, regKey, regReviewed, regCalled>>
      BY <1>9, <2>1 DEF Choose, RegBegin
    <2> QED
      BY <1>m, <2>2, <2>3
  <1>10. ASSUME NEW s \in RegSessions, NEW k \in RegKeys, NEW r \in Revisions, NEW class \in {"unknown", "read", "write"},
                ClassifyRead(s, k, r, class)
         PROVE  RegInv'
    <2>1. PICK t : t = [op |-> "classify", k |-> k, r |-> r, class |-> class]
      OBVIOUS
    <2>2. t \in RegTxState /\ t.op = "classify"
      BY <2>1 DEF RegTxState
    <2>3. /\ regTx' = [regTx EXCEPT ![s] = t]
          /\ UNCHANGED <<regKind, regUp, regCap, regClass, expVars, policyVars, regKey, regReviewed, regCalled>>
      BY <1>10, <2>1 DEF ClassifyRead, ReadMutation, RegBegin
    <2> QED
      BY <1>m, <2>2, <2>3
  <1>11. ASSUME NEW s \in RegSessions, NEW k \in RegKeys, NEW r \in Revisions, NEW on \in BOOLEAN,
                ExposeRead(s, k, r, on)
         PROVE  RegInv'
    <2>1. PICK t : t = [op |-> "expose", k |-> k, r |-> r, version |-> regExp[r].version,
                        enabled |-> on, generation |-> regPolicy.generation,
                        count |-> regNewest[r[1]].count]
      OBVIOUS
    <2>2. regExp[r].version \in Nat /\ regNewest[r[1]].count \in Nat
      BY <1>t DEF RegTypeOK, ExpRow, Revisions
    <2>3. /\ t \in RegTxState /\ t.op = "expose" /\ t.generation = regPolicy.generation
          /\ t.enabled = on
      BY <1>t, <2>1, <2>2 DEF RegTxState
    <2>4. /\ regTx' = [regTx EXCEPT ![s] = t]
          /\ UNCHANGED <<regKind, regUp, regCap, regClass, expVars, policyVars, regKey, regReviewed, regCalled>>
      BY <1>11, <2>1 DEF ExposeRead, ReadMutation, RegBegin
    <2>5. on => regPolicy.trust \in Trusted
      BY <1>11 DEF ExposeRead, ToolExposable, ResourceExposable, PromptExposable
    <2>6. /\ regTx' \in [RegSessions -> RegTxState] /\ regTx'[s] = t
          /\ \A x \in RegSessions : x # s => regTx'[x] = regTx[x]
      BY <1>t, <2>3, <2>4
    <2>7. RegTypeOK'
      BY <1>t, <2>4 DEF RegTypeOK
    <2>8. MutationOncePerKey' /\ EnabledReviewed' /\ CalledAsReviewed'
      BY <1>0, <2>4 DEF MutationOncePerKey, EnabledReviewed, CalledAsReviewed
    <2>9. SessionReviewed'
      BY <1>0, <2>3, <2>4, <2>6 DEF SessionReviewed
    <2>11. ReviewsTaken'
      BY <1>0, <1>t, <2>3, <2>4, <2>6 DEF ReviewsTaken
    <2>12. ReviewsTrusted'
      BY <1>0, <2>3, <2>4, <2>5, <2>6 DEF ReviewsTrusted
    <2> QED
      BY <2>6, <2>7, <2>8, <2>9, <2>11, <2>12 DEF RegInv
  <1>12. ASSUME NEW s \in RegSessions, NEW k \in RegKeys, NEW trust \in TrustLevels, PolicyRead(s, k, trust)
         PROVE  RegInv'
    <2>1. PICK t : t = [op |-> "policy", k |-> k, generation |-> regPolicy.generation, trust |-> trust]
      OBVIOUS
    <2>2. t \in RegTxState /\ t.op = "policy" /\ t.generation = regPolicy.generation
      BY <1>t, <2>1 DEF RegTxState
    <2>3. /\ regTx' = [regTx EXCEPT ![s] = t]
          /\ UNCHANGED <<regKind, regUp, regCap, regClass, expVars, policyVars, regKey, regReviewed, regCalled>>
      BY <1>12, <2>1 DEF PolicyRead, ReadMutation, RegBegin
    <2>4. /\ regTx' \in [RegSessions -> RegTxState] /\ regTx'[s] = t
          /\ \A x \in RegSessions : x # s => regTx'[x] = regTx[x]
      BY <1>t, <2>2, <2>3
    <2>5. RegTypeOK'
      BY <1>t, <2>3 DEF RegTypeOK
    <2>6. MutationOncePerKey' /\ EnabledReviewed' /\ CalledAsReviewed'
      BY <1>0, <2>3 DEF MutationOncePerKey, EnabledReviewed, CalledAsReviewed
    <2>7. SessionReviewed'
      BY <1>0, <2>2, <2>3, <2>4 DEF SessionReviewed
    <2>9. ReviewsTaken'
      BY <1>0, <2>2, <2>3, <2>4 DEF ReviewsTaken
    <2>10. ReviewsTrusted'
      BY <1>0, <2>2, <2>3, <2>4 DEF ReviewsTrusted
    <2> QED
      BY <2>4, <2>5, <2>6, <2>7, <2>9, <2>10 DEF RegInv
  <1>13. CASE UNCHANGED regVars
    BY <1>t, <1>0, <1>13 DEF regVars, RegInv, RegTypeOK, MutationOncePerKey, EnabledReviewed, SessionReviewed,
         CalledAsReviewed, ReviewsTaken, ReviewsTrusted, TrustedNow
  <1> QED
    BY <1>1, <1>2, <1>3, <1>4, <1>5, <1>6, <1>7, <1>8, <1>9, <1>10, <1>11, <1>12, <1>13, <1>14 DEF RegNext

\* The invariant of the registry, however its requests overlap.
LEMMA RegAlways == RegSpec => []RegInv
  <1>1. RegInv /\ [RegNext]_regVars => RegInv'
    BY RegInvNext
  <1> QED
    BY <1>1, RegInvInit, PTL DEF RegSpec

\* What a caller of the registry may rely on, however updates of the policy,
\* reviews, refreshes and calls overlap (upsert_policy, upsert_exposure,
\* refresh_server, _find_upstream_tool).
THEOREM FederationRegistryCorrect == RegSpec => []RegistrySound
  BY RegAlways, RegInvSound, PTL

-----------------------------------------------------------------------------
(* Root grants (RootGrants)                                                *)

(* A grant that is approved was approved by an operator, for the binding it  *)
(* has unless a rival writer overlapped.                                     *)
RowReviewed(g) ==
    g.status = "approved" => /\ g.for # Unseen
                             /\ g.for = <<g.inst, g.policy>> \/ g.raced

ApprovedWereReviewed == \A s \in RgServers, r \in RgRoots : RowReviewed(rgGrant[s][r])

(* What an open writer has read is the row, unless the row is raced.         *)
WritersFresh ==
    \A x \in RgSessions :
       /\ Reviewing(rgTx[x]) =>
            (rgGrant[rgTx[x].srv][rgTx[x].root].raced \/ rgGrant[rgTx[x].srv][rgTx[x].root] = rgTx[x].seen)
       /\ Reconciling(rgTx[x]) =>
            \A r \in RgRoots : rgGrant[rgTx[x].srv][r].raced \/ rgGrant[rgTx[x].srv][r] = rgTx[x].seen[r]

RgInv == RgTypeOK /\ ApprovedWereReviewed /\ WritersFresh /\ HeldRootsWereReviewed

SetReviewed(i, h) == \A e \in h.roots : e[2] # Unseen /\ (e[2] = <<i, h.policy>> \/ e[3])

(* The roots approved for a connection were reviewed for it.                 *)
LEMMA RgApprovedRoots ==
    ASSUME NEW g \in [RgRoots -> GrantRow], \A r \in RgRoots : RowReviewed(g[r]),
           NEW i \in Insts, NEW p \in 1..MaxRgPolicy
    PROVE  /\ ApprovedRoots(g, i, p) \in RootSet
           /\ SetReviewed(i, ApprovedRoots(g, i, p))
  <1>1. p \in 0..MaxRgPolicy
    BY RootGrantsAssumption
  <1>2. ApprovedRoots(g, i, p) \in RootSet
    BY <1>1 DEF ApprovedRoots, RootSet, GrantRow
  <1>3. \A r \in RgRoots : (g[r].status = "approved" /\ g[r].inst = i /\ g[r].policy = p)
          => g[r].for # Unseen /\ (g[r].for = <<i, p>> \/ g[r].raced)
    BY DEF RowReviewed
  <1> QED
    BY <1>2, <1>3 DEF SetReviewed, ApprovedRoots

(* The empty set of roots is a set of roots.                                 *)
LEMMA RgNoRoots == NoRoots \in RootSet /\ NoRoots.roots = {}
  BY RootGrantsAssumption DEF NoRoots, RootSet

(* A reconciliation approves nothing: it leaves a grant as it is or writes   *)
(* another status than approved.                                             *)
LEMMA RgReconciled ==
    ASSUME NEW g \in GrantRow, NEW i \in Insts, NEW p \in 1..MaxRgPolicy
    PROVE  /\ ObservedGrant(g, i, p) \in GrantRow /\ MissingGrant(g, i) \in GrantRow
           /\ ObservedGrant(g, i, p) = g \/ ObservedGrant(g, i, p).status = "pending"
           /\ MissingGrant(g, i) = g \/ MissingGrant(g, i).status = "revoked"
  <1>0. g.version + 1 \in Nat
    BY DEF GrantRow
  <1>1. [g EXCEPT !.status = "pending", !.inst = i, !.policy = p, !.version = @ + 1] \in GrantRow
    <2>1. PICK v \in Nat : v = g.version + 1
      BY <1>0
    <2>2. [g EXCEPT !.status = "pending", !.inst = i, !.policy = p, !.version = v] \in GrantRow
      BY DEF GrantRow
    <2> QED
      BY <2>1, <2>2
  <1>2. [g EXCEPT !.status = "revoked", !.version = @ + 1] \in GrantRow
    <2>1. PICK v \in Nat : v = g.version + 1
      BY <1>0
    <2>2. [g EXCEPT !.status = "revoked", !.version = v] \in GrantRow
      BY DEF GrantRow
    <2> QED
      BY <2>1, <2>2
  <1>3. /\ [g EXCEPT !.status = "pending", !.inst = i, !.policy = p, !.version = @ + 1].status = "pending"
        /\ [g EXCEPT !.status = "revoked", !.version = @ + 1].status = "revoked"
    BY DEF GrantRow
  <1> QED
    BY <1>1, <1>2, <1>3 DEF ObservedGrant, MissingGrant

(* The columns that an UPDATE writes, and the row when nothing came between. *)
LEMMA RgFlushed ==
    ASSUME NEW now \in GrantRow, NEW seen \in GrantRow, NEW new \in GrantRow
    PROVE  /\ RgFlush(now, seen, new) \in GrantRow
           /\ RgFlush(now, seen, new).for = now.for /\ RgFlush(now, seen, new).raced = now.raced
           /\ RgFlush(now, seen, new).status \in {now.status, new.status}
           /\ new = seen => RgFlush(now, seen, new) = now
           /\ (now = seen) => /\ RgFlush(now, seen, new).inst = new.inst
                              /\ RgFlush(now, seen, new).policy = new.policy
  BY DEF RgFlush, GrantRow

(* The mark of an overlap.                                                   *)
LEMMA RgMark ==
    ASSUME NEW g \in GrantRow, NEW f \in Bindings \cup {Unseen}, NEW b \in BOOLEAN
    PROVE  /\ [g EXCEPT !.for = f, !.raced = b] \in GrantRow /\ [g EXCEPT !.raced = b] \in GrantRow
           /\ [g EXCEPT !.raced = b].status = g.status /\ [g EXCEPT !.raced = b].inst = g.inst
           /\ [g EXCEPT !.raced = b].policy = g.policy /\ [g EXCEPT !.raced = b].for = g.for
           /\ [g EXCEPT !.raced = b].raced = b
           /\ [g EXCEPT !.for = f, !.raced = b].status = g.status
           /\ [g EXCEPT !.for = f, !.raced = b].inst = g.inst
           /\ [g EXCEPT !.for = f, !.raced = b].policy = g.policy
           /\ [g EXCEPT !.for = f, !.raced = b].for = f /\ [g EXCEPT !.for = f, !.raced = b].raced = b
           /\ b = g.raced => [g EXCEPT !.raced = b] = g
  BY DEF GrantRow

(* A session that has read the grants of a server to write them.             *)
LEMMA RgReconcilerType ==
    ASSUME RgTypeOK, NEW x \in RgSessions, Reconciling(rgTx[x])
    PROVE  /\ rgTx[x].srv \in RgServers /\ rgTx[x].inst \in Insts /\ rgTx[x].policy \in 1..MaxRgPolicy
           /\ rgTx[x].cands \in SUBSET RgRoots /\ rgTx[x].seen \in [RgRoots -> GrantRow]
  BY DEF RgTypeOK, RgTxRow, RgIdle, Reconciling

(* A session that has read one grant to review it.                           *)
LEMMA RgReviewerType ==
    ASSUME RgTypeOK, NEW x \in RgSessions, Reviewing(rgTx[x])
    PROVE  /\ rgTx[x].srv \in RgServers /\ rgTx[x].root \in RgRoots /\ rgTx[x].seen \in GrantRow
           /\ rgTx[x].policy \in 1..MaxRgPolicy /\ rgTx[x].op \in {"approved", "revoked"}
  BY DEF RgTypeOK, RgTxRow, RgIdle, Reviewing

(* A row written at a reconciliation.                                        *)
LEMMA RgRowReconciled ==
    ASSUME NEW now \in GrantRow, NEW seen \in GrantRow, NEW new \in GrantRow, NEW b,
           new = seen \/ new.status \in {"pending", "revoked"},
           RowReviewed(now), now.raced \/ now = seen
    PROVE  LET g == RowReconciled(now, seen, new, b) IN
           /\ g \in GrantRow /\ RowReviewed(g) /\ (b # {} => g.raced)
  <1>1. PICK f \in GrantRow : f = RgFlush(now, seen, new)
    BY RgFlushed
  <1>2. f.for = now.for /\ f.raced = now.raced /\ f.status \in {now.status, new.status} /\ (new = seen => f = now)
    BY <1>1, RgFlushed
  <1>3. now.raced \in BOOLEAN /\ (now.raced \/ b # {}) \in BOOLEAN /\ now.for \in Bindings \cup {Unseen}
    BY DEF GrantRow
  <1>4. PICK c \in BOOLEAN : c = (now.raced \/ b # {})
    BY <1>3
  <1>5. PICK g : g = [f EXCEPT !.raced = c]
    OBVIOUS
  <1>6. /\ g \in GrantRow /\ g.status = f.status /\ g.inst = f.inst /\ g.policy = f.policy
        /\ g.for = f.for /\ g.raced = c
    BY <1>3, <1>4, <1>5 DEF GrantRow
  <1>7. RowReviewed(g)
    <2>1. CASE new = seen
      BY <1>2, <1>4, <1>6, <2>1 DEF RowReviewed
    <2>2. CASE new.status \in {"pending", "revoked"}
      <3>1. CASE f.status = now.status
        <4>1. CASE c
          BY <1>2, <1>6, <3>1, <4>1 DEF RowReviewed
        <4>2. CASE ~c
          <5>1. now = seen /\ ~now.raced
            BY <1>4, <4>2
          <5>2. f.status = new.status
            BY <1>1, <5>1 DEF RgFlush, GrantRow
          <5> QED
            BY <1>6, <2>2, <5>2 DEF RowReviewed
        <4> QED
          BY <4>1, <4>2
      <3>2. CASE f.status = new.status
        BY <1>6, <2>2, <3>2 DEF RowReviewed
      <3> QED
        BY <1>2, <3>1, <3>2
    <2> QED
      BY <2>1, <2>2
  <1> QED
    BY <1>1, <1>4, <1>5, <1>6, <1>7 DEF RowReconciled

(* Writing back what a reconciliation made of the grants.                    *)
LEMMA RgRewritten ==
    ASSUME RgInv, NEW x \in RgSessions, Reconciling(rgTx[x]), Rewritten(x),
           ~Reconciling(rgTx'[x]), ~Reviewing(rgTx'[x]),
           \A y \in RgSessions \ {x} : rgTx'[y] = rgTx[y]
    PROVE  rgGrant' \in [RgServers -> [RgRoots -> GrantRow]] /\ ApprovedWereReviewed' /\ WritersFresh'
  <1> DEFINE t == rgTx[x]
  <1>0. RgTypeOK /\ ApprovedWereReviewed /\ WritersFresh
    BY DEF RgInv
  <1>g. rgGrant \in [RgServers -> [RgRoots -> GrantRow]]
    BY <1>0 DEF RgTypeOK
  <1>1. /\ t.srv \in RgServers /\ t.inst \in Insts /\ t.policy \in 1..MaxRgPolicy
        /\ t.cands \in SUBSET RgRoots /\ t.seen \in [RgRoots -> GrantRow]
    BY <1>0, RgReconcilerType
  <1>2. rgGrant' = [rgGrant EXCEPT ![t.srv] = [r \in RgRoots |->
           RowReconciled(@[r], t.seen[r], RootReconciled(t, r), Writers(x, t.srv, r))]]
    BY DEF Rewritten
  <1>3. ASSUME NEW r \in RgRoots
        PROVE  /\ rgGrant'[t.srv][r] \in GrantRow /\ RowReviewed(rgGrant'[t.srv][r])
               /\ (Writers(x, t.srv, r) # {} => rgGrant'[t.srv][r].raced)
    <2>1. PICK now \in GrantRow, seen \in GrantRow : now = rgGrant[t.srv][r] /\ seen = t.seen[r]
      BY <1>1, <1>g
    <2>2. PICK new \in GrantRow : /\ new = RootReconciled(t, r)
                                  /\ new = seen \/ new.status \in {"pending", "revoked"}
      BY <1>1, <2>1, RgReconciled DEF RootReconciled
    <2>3. now.raced \/ now = seen
      BY <1>0, <2>1 DEF WritersFresh
    <2>4. RowReviewed(now)
      BY <1>0, <1>1, <2>1 DEF ApprovedWereReviewed
    <2> DEFINE b == Writers(x, t.srv, r)
    <2>7. rgGrant'[t.srv][r] = RowReconciled(now, seen, new, b)
      <3>1. rgGrant'[t.srv] = [q \in RgRoots |->
              RowReconciled(rgGrant[t.srv][q], t.seen[q], RootReconciled(t, q), Writers(x, t.srv, q))]
        BY <1>1, <1>2, <1>g
      <3>2. rgGrant'[t.srv][r] =
              RowReconciled(rgGrant[t.srv][r], t.seen[r], RootReconciled(t, r), Writers(x, t.srv, r))
        BY <3>1
      <3> QED
        BY <2>1, <2>2, <3>2
    <2> HIDE DEF b
    <2>9. /\ rgGrant'[t.srv][r] \in GrantRow /\ RowReviewed(rgGrant'[t.srv][r])
          /\ (b # {} => rgGrant'[t.srv][r].raced)
      BY <2>2, <2>3, <2>4, <2>7, RgRowReconciled
    <2> QED
      BY <2>9 DEF b
  <1>4. \A s \in RgServers \ {t.srv} : rgGrant'[s] = rgGrant[s]
    BY <1>1, <1>2, <1>g
  <1>5. rgGrant' \in [RgServers -> [RgRoots -> GrantRow]]
    <2>1. rgGrant'[t.srv] \in [RgRoots -> GrantRow]
      BY <1>1, <1>2, <1>3, <1>g
    <2> QED
      BY <1>1, <1>2, <1>g, <2>1
  <1>6. ApprovedWereReviewed'
    <2>1. \A s \in RgServers, r \in RgRoots : RowReviewed(rgGrant'[s][r])
      BY <1>0, <1>3, <1>4 DEF ApprovedWereReviewed
    <2> QED
      BY <2>1 DEF ApprovedWereReviewed, RowReviewed
  <1>7. WritersFresh'
    <2> SUFFICES ASSUME NEW y \in RgSessions
                 PROVE  /\ Reviewing(rgTx'[y]) =>
                             \/ rgGrant'[rgTx'[y].srv][rgTx'[y].root].raced
                             \/ rgGrant'[rgTx'[y].srv][rgTx'[y].root] = rgTx'[y].seen
                        /\ Reconciling(rgTx'[y]) =>
                             \A r \in RgRoots : \/ rgGrant'[rgTx'[y].srv][r].raced
                                               \/ rgGrant'[rgTx'[y].srv][r] = rgTx'[y].seen[r]
      BY DEF WritersFresh, Reviewing, Reconciling
    <2>1. CASE y = x
      BY <2>1
    <2>2. CASE y # x
      <3>1. rgTx'[y] = rgTx[y]
        BY <2>2
      <3>2. ASSUME Reviewing(rgTx[y])
            PROVE  \/ rgGrant'[rgTx[y].srv][rgTx[y].root].raced
                   \/ rgGrant'[rgTx[y].srv][rgTx[y].root] = rgTx[y].seen
        <4>1. rgTx[y].srv \in RgServers /\ rgTx[y].root \in RgRoots
          BY <1>0, <3>2, RgReviewerType
        <4>2. CASE rgTx[y].srv = t.srv
          <5>1. y \in Writers(x, t.srv, rgTx[y].root)
            BY <2>2, <3>2, <4>2 DEF Writers
          <5> QED
            BY <1>3, <4>1, <4>2, <5>1
        <4>3. CASE rgTx[y].srv # t.srv
          BY <1>0, <1>4, <3>2, <4>1, <4>3 DEF WritersFresh
        <4> QED
          BY <4>2, <4>3
      <3>3. ASSUME Reconciling(rgTx[y]), NEW r \in RgRoots
            PROVE  \/ rgGrant'[rgTx[y].srv][r].raced
                   \/ rgGrant'[rgTx[y].srv][r] = rgTx[y].seen[r]
        <4>1. rgTx[y].srv \in RgServers
          BY <1>0, <3>3, RgReconcilerType
        <4>2. CASE rgTx[y].srv = t.srv
          <5>1. y \in Writers(x, t.srv, r)
            BY <2>2, <3>3, <4>2 DEF Writers
          <5> QED
            BY <1>3, <4>2, <5>1
        <4>3. CASE rgTx[y].srv # t.srv
          BY <1>0, <1>4, <3>3, <4>1, <4>3 DEF WritersFresh
        <4> QED
          BY <4>2, <4>3
      <3> QED
        BY <3>1, <3>2, <3>3
    <2> QED
      BY <2>1, <2>2
  <1> QED
    BY <1>5, <1>6, <1>7

(* A row written at a review.                                                *)
LEMMA RgRowDecided ==
    ASSUME NEW now \in GrantRow, NEW seen \in GrantRow, NEW decision \in {"approved", "revoked"}, NEW b,
           RowReviewed(now)
    PROVE  LET g == RowDecided(now, seen, decision, b) IN
           g \in GrantRow /\ RowReviewed(g) /\ (b # {} => g.raced)
  <1>1. PICK new \in GrantRow : /\ new = [seen EXCEPT !.status = decision, !.version = @ + 1]
                                /\ new.status = decision /\ new.inst = seen.inst /\ new.policy = seen.policy
    <2>1. PICK v \in Nat : v = seen.version + 1
      BY DEF GrantRow
    <2>2. [seen EXCEPT !.status = decision, !.version = v] \in GrantRow
      BY DEF GrantRow
    <2> QED
      BY <2>1, <2>2 DEF GrantRow
  <1>2. PICK f \in GrantRow : f = RgFlush(now, seen, new)
    BY RgFlushed
  <1>3. f.inst = now.inst /\ f.policy = now.policy /\ f.status \in {now.status, decision}
    BY <1>1, <1>2 DEF RgFlush, GrantRow
  <1>4. /\ now.for \in Bindings \cup {Unseen} /\ now.raced \in BOOLEAN
        /\ <<seen.inst, seen.policy>> \in Bindings /\ <<seen.inst, seen.policy>> # Unseen
    BY DEF GrantRow, Bindings, Unseen
  <1>5. PICK m \in Bindings \cup {Unseen} : m = IF decision = "approved" THEN <<seen.inst, seen.policy>> ELSE now.for
    BY <1>4
  <1>6. PICK c \in BOOLEAN : c = (b # {} \/ (IF decision = "approved" THEN now # seen ELSE now.raced))
    BY <1>4
  <1>7. PICK g : g = [f EXCEPT !.for = m, !.raced = c]
    OBVIOUS
  <1>8. g = RowDecided(now, seen, decision, b)
    BY <1>1, <1>2, <1>5, <1>6, <1>7 DEF RowDecided
  <1>9. g \in GrantRow /\ g.status = f.status /\ g.inst = f.inst /\ g.policy = f.policy /\ g.for = m /\ g.raced = c
    BY <1>7 DEF GrantRow
  <1>11. RowReviewed(g)
    <2>1. CASE decision = "revoked"
      <3>1. m = now.for /\ (now.raced => c)
        BY <1>5, <1>6, <2>1
      <3> QED
        BY <1>3, <1>9, <2>1, <3>1 DEF RowReviewed
    <2>2. CASE decision = "approved"
      <3>1. m = <<seen.inst, seen.policy>> /\ (now # seen => c)
        BY <1>5, <1>6, <2>2
      <3>2. CASE now = seen
        BY <1>3, <1>4, <1>9, <3>1, <3>2 DEF RowReviewed
      <3>3. CASE now # seen
        BY <1>4, <1>9, <3>1, <3>3 DEF RowReviewed
      <3> QED
        BY <3>2, <3>3
    <2> QED
      BY <2>1, <2>2
  <1>12. b # {} => g.raced
    BY <1>6, <1>9
  <1> QED
    BY <1>8, <1>9, <1>11, <1>12

(* Writing back a decision.                                                  *)
LEMMA RgReviewCommitted ==
    ASSUME RgInv, NEW x \in RgSessions, ReviewCommit(x)
    PROVE  rgGrant' \in [RgServers -> [RgRoots -> GrantRow]] /\ ApprovedWereReviewed' /\ WritersFresh'
  <1>0. RgTypeOK /\ ApprovedWereReviewed /\ WritersFresh
    BY DEF RgInv
  <1>g. rgGrant \in [RgServers -> [RgRoots -> GrantRow]] /\ rgTx \in [RgSessions -> RgTxRow]
    BY <1>0 DEF RgTypeOK
  <1>1. PICK s \in RgServers, r \in RgRoots, seen \in GrantRow, d \in {"approved", "revoked"} :
           s = rgTx[x].srv /\ r = rgTx[x].root /\ seen = rgTx[x].seen /\ d = rgTx[x].op
    BY <1>0, RgReviewerType DEF ReviewCommit
  <1>2. PICK now \in GrantRow : now = rgGrant[s][r]
    BY <1>g
  <1> DEFINE b == Writers(x, s, r)
             g == RowDecided(now, seen, d, b)
  <1>3. rgGrant' = [rgGrant EXCEPT ![s][r] = g]
    BY <1>1, <1>2, <1>g DEF ReviewCommit
  <1>4. g \in GrantRow /\ RowReviewed(g) /\ (b # {} => g.raced)
    <2>1. RowReviewed(now)
      BY <1>0, <1>2 DEF ApprovedWereReviewed
    <2> HIDE DEF b
    <2> QED
      BY <2>1, RgRowDecided
  <1> HIDE DEF g
  <1>5. \A y \in RgSessions \ {x} : rgTx'[y] = rgTx[y]
    BY <1>g DEF ReviewCommit
  <1>6. ~Reviewing(rgTx'[x]) /\ ~Reconciling(rgTx'[x])
    BY <1>g DEF ReviewCommit, Reviewing, Reconciling
  <1>7. \A p \in RgServers, q \in RgRoots : rgGrant'[p][q] = IF p = s /\ q = r THEN g ELSE rgGrant[p][q]
    BY <1>3, <1>g
  <1>8. rgGrant' \in [RgServers -> [RgRoots -> GrantRow]]
    BY <1>3, <1>4, <1>g
  <1>9. ApprovedWereReviewed'
    <2>1. \A p \in RgServers, q \in RgRoots : RowReviewed(rgGrant'[p][q])
      BY <1>0, <1>4, <1>7 DEF ApprovedWereReviewed
    <2> QED
      BY <2>1 DEF ApprovedWereReviewed, RowReviewed
  <1>10. WritersFresh'
    <2> SUFFICES ASSUME NEW y \in RgSessions
                 PROVE  /\ Reviewing(rgTx'[y]) =>
                             \/ rgGrant'[rgTx'[y].srv][rgTx'[y].root].raced
                             \/ rgGrant'[rgTx'[y].srv][rgTx'[y].root] = rgTx'[y].seen
                        /\ Reconciling(rgTx'[y]) =>
                             \A q \in RgRoots : \/ rgGrant'[rgTx'[y].srv][q].raced
                                               \/ rgGrant'[rgTx'[y].srv][q] = rgTx'[y].seen[q]
      BY DEF WritersFresh, Reviewing, Reconciling
    <2>1. CASE y = x
      BY <1>6, <2>1
    <2>2. CASE y # x
      <3>1. rgTx'[y] = rgTx[y]
        BY <1>5, <2>2
      <3>2. ASSUME Reviewing(rgTx[y])
            PROVE  \/ rgGrant'[rgTx[y].srv][rgTx[y].root].raced
                   \/ rgGrant'[rgTx[y].srv][rgTx[y].root] = rgTx[y].seen
        <4>1. rgTx[y].srv \in RgServers /\ rgTx[y].root \in RgRoots
          BY <1>0, <3>2, RgReviewerType
        <4>2. CASE rgTx[y].srv = s /\ rgTx[y].root = r
          <5>1. b # {}
            BY <2>2, <3>2, <4>2 DEF Writers
          <5> QED
            BY <1>4, <1>7, <4>1, <4>2, <5>1
        <4>3. CASE ~(rgTx[y].srv = s /\ rgTx[y].root = r)
          BY <1>0, <1>7, <3>2, <4>1, <4>3 DEF WritersFresh
        <4> QED
          BY <4>2, <4>3
      <3>3. ASSUME Reconciling(rgTx[y]), NEW q \in RgRoots
            PROVE  \/ rgGrant'[rgTx[y].srv][q].raced
                   \/ rgGrant'[rgTx[y].srv][q] = rgTx[y].seen[q]
        <4>1. rgTx[y].srv \in RgServers
          BY <1>0, <3>3, RgReconcilerType
        <4>2. CASE rgTx[y].srv = s /\ q = r
          <5>1. b # {}
            BY <2>2, <3>3, <4>2 DEF Writers
          <5> QED
            BY <1>4, <1>7, <4>1, <4>2, <5>1
        <4>3. CASE ~(rgTx[y].srv = s /\ q = r)
          BY <1>0, <1>7, <3>3, <4>1, <4>3 DEF WritersFresh
        <4> QED
          BY <4>2, <4>3
      <3> QED
        BY <3>1, <3>2, <3>3
    <2> QED
      BY <2>1, <2>2
  <1> QED
    BY <1>8, <1>9, <1>10

(* Handing a connection roots that were reviewed for it.                     *)
LEMMA RgHeldStep ==
    ASSUME RgInv, NEW s \in RgServers, NEW i \in Insts, NEW h \in RootSet, SetReviewed(i, h),
           rgHeld' = [rgHeld EXCEPT ![s][i] = h]
    PROVE  rgHeld' \in [RgServers -> [Insts -> RootSet]] /\ HeldRootsWereReviewed'
  <1>1. rgHeld \in [RgServers -> [Insts -> RootSet]]
    BY DEF RgInv, RgTypeOK
  <1>2. HeldRootsWereReviewed
    BY DEF RgInv
  <1>3. \A p \in RgServers, j \in Insts : rgHeld'[p][j] = IF p = s /\ j = i THEN h ELSE rgHeld[p][j]
    BY <1>1
  <1> QED
    BY <1>1, <1>2, <1>3 DEF HeldRootsWereReviewed, SetReviewed

(* A read leaves the grants alone and remembers them as they are.            *)
LEMMA RgReadStep ==
    ASSUME RgInv, NEW x \in RgSessions, NEW t \in RgTxRow, rgTx' = [rgTx EXCEPT ![x] = t],
           Reviewing(t) => t.seen = rgGrant[t.srv][t.root],
           Reconciling(t) => t.seen = rgGrant[t.srv],
           UNCHANGED rgGrant
    PROVE  rgTx' \in [RgSessions -> RgTxRow] /\ ApprovedWereReviewed' /\ WritersFresh'
  <1>1. rgTx \in [RgSessions -> RgTxRow] /\ ApprovedWereReviewed /\ WritersFresh
    BY DEF RgInv, RgTypeOK
  <1>2. ApprovedWereReviewed'
    BY <1>1 DEF ApprovedWereReviewed, RowReviewed
  <1>3. \A y \in RgSessions : rgTx'[y] = IF y = x THEN t ELSE rgTx[y]
    BY <1>1
  <1>4. WritersFresh'
    BY <1>1, <1>3 DEF WritersFresh, Reviewing, Reconciling
  <1> QED
    BY <1>1, <1>2, <1>4

(* At first no connection holds a root.                                      *)
LEMMA RgInitInv == RgInit => RgInv
  <1> SUFFICES ASSUME RgInit PROVE RgInv
    OBVIOUS
  <1>1. NoGrant \in GrantRow /\ NoGrant.status = "none"
    BY RootGrantsAssumption DEF NoGrant, GrantRow, Insts
  <1>2. RgIdle \in RgTxRow /\ ~Reviewing(RgIdle) /\ ~Reconciling(RgIdle)
    BY DEF RgTxRow, RgIdle, Reviewing, Reconciling
  <1>3. rgPolicy \in [RgServers -> 1..MaxRgPolicy] /\ rgRequests \in 0..MaxRgRequests
    BY RootGrantsAssumption DEF RgInit
  <1>4. /\ rgConn \in [RgServers -> [Insts -> {"none", "online", "stale", "gone"}]]
        /\ rgGrant \in [RgServers -> [RgRoots -> GrantRow]] /\ rgTx \in [RgSessions -> RgTxRow]
        /\ rgHeld \in [RgServers -> [Insts -> RootSet]]
    BY <1>1, <1>2, RgNoRoots DEF RgInit
  <1>5. ApprovedWereReviewed /\ WritersFresh /\ HeldRootsWereReviewed
    BY <1>1, <1>2, RgNoRoots DEF RgInit, ApprovedWereReviewed, RowReviewed, WritersFresh, HeldRootsWereReviewed
  <1> QED
    BY <1>3, <1>4, <1>5 DEF RgInv, RgTypeOK

(* Every step of reviewing, reconciling and handing out roots keeps the      *)
(* invariant.                                                                *)
LEMMA RgStepInv ==
    ASSUME RgInv, [RgNext]_rgVars
    PROVE  RgInv'
  <1>0. RgTypeOK /\ ApprovedWereReviewed /\ WritersFresh /\ HeldRootsWereReviewed
    BY DEF RgInv
  <1>t. /\ rgPolicy \in [RgServers -> 1..MaxRgPolicy]
        /\ rgConn \in [RgServers -> [Insts -> {"none", "online", "stale", "gone"}]]
        /\ rgGrant \in [RgServers -> [RgRoots -> GrantRow]]
        /\ rgHeld \in [RgServers -> [Insts -> RootSet]]
        /\ rgTx \in [RgSessions -> RgTxRow] /\ rgRequests \in 0..MaxRgRequests
    BY <1>0 DEF RgTypeOK
  <1>c. RgIdle \in RgTxRow /\ ~Reviewing(RgIdle) /\ ~Reconciling(RgIdle)
    BY DEF RgTxRow, RgIdle, Reviewing, Reconciling
  <1>h. ASSUME NEW s \in RgServers, NEW i \in Insts, NEW g, g = rgGrant'[s], NEW p \in 1..MaxRgPolicy,
               rgGrant' \in [RgServers -> [RgRoots -> GrantRow]], ApprovedWereReviewed'
        PROVE  ApprovedRoots(g, i, p) \in RootSet /\ SetReviewed(i, ApprovedRoots(g, i, p))
    <2>1. g \in [RgRoots -> GrantRow]
      BY <1>h
    <2>2. \A r \in RgRoots : RowReviewed(g[r])
      BY <1>h DEF ApprovedWereReviewed, RowReviewed
    <2> QED
      BY <2>1, <2>2, RgApprovedRoots
  <1>1. CASE UNCHANGED rgVars
    BY <1>0, <1>1 DEF rgVars, RgInv, RgTypeOK, ApprovedWereReviewed, RowReviewed, WritersFresh,
                      Reviewing, Reconciling, HeldRootsWereReviewed
  <1>2. ASSUME NEW x \in RgSessions, NEW op \in {"register", "open", "sync"}, NEW s \in RgServers, NEW i \in Insts,
               NEW cands \in SUBSET RgRoots, ReconcileRead(x, op, s, i, cands)
        PROVE  RgInv'
    <2> DEFINE t == [op |-> op, srv |-> s, inst |-> i, policy |-> rgPolicy[s], cands |-> cands,
                     rivals |-> {j \in Insts \ {i} : rgConn[s][j] = "online"}, seen |-> rgGrant[s]]
    <2>1. rgTx' = [rgTx EXCEPT ![x] = t] /\ UNCHANGED rgGrant
      BY <1>2 DEF ReconcileRead
    <2>2. t \in RgTxRow
      BY <1>t DEF RgTxRow
    <2>3. ~Reviewing(t) /\ t.seen = rgGrant[t.srv]
      BY DEF Reviewing
    <2> HIDE DEF t
    <2>4. rgTx' \in [RgSessions -> RgTxRow] /\ ApprovedWereReviewed' /\ WritersFresh'
      BY <2>1, <2>2, <2>3, RgReadStep
    <2>5. rgRequests' \in 0..MaxRgRequests
      BY <1>t, <1>2, RootGrantsAssumption DEF ReconcileRead
    <2>6. UNCHANGED <<rgPolicy, rgConn, rgGrant, rgHeld>>
      BY <1>2 DEF ReconcileRead
    <2> QED
      BY <1>0, <1>t, <2>4, <2>5, <2>6 DEF RgInv, RgTypeOK, HeldRootsWereReviewed
  <1>3. ASSUME NEW x \in RgSessions, NEW s \in RgServers, NEW r \in RgRoots, NEW d \in {"approved", "revoked"},
               NEW v \in 0..MaxRgRequests, ReviewRead(x, s, r, d, v)
        PROVE  RgInv'
    <2> DEFINE t == [op |-> d, srv |-> s, root |-> r, seen |-> rgGrant[s][r], policy |-> rgPolicy[s]]
    <2>1. rgTx' = [rgTx EXCEPT ![x] = t] /\ UNCHANGED rgGrant
      BY <1>3 DEF ReviewRead
    <2>2. t \in RgTxRow
      BY <1>t DEF RgTxRow
    <2>3. ~Reconciling(t) /\ t.seen = rgGrant[t.srv][t.root]
      BY DEF Reconciling
    <2> HIDE DEF t
    <2>4. rgTx' \in [RgSessions -> RgTxRow] /\ ApprovedWereReviewed' /\ WritersFresh'
      BY <2>1, <2>2, <2>3, RgReadStep
    <2>5. rgRequests' \in 0..MaxRgRequests
      BY <1>t, <1>3, RootGrantsAssumption DEF ReviewRead
    <2>6. UNCHANGED <<rgPolicy, rgConn, rgGrant, rgHeld>>
      BY <1>3 DEF ReviewRead
    <2> QED
      BY <1>0, <1>t, <2>4, <2>5, <2>6 DEF RgInv, RgTypeOK, HeldRootsWereReviewed
  <1>4. ASSUME NEW x \in RgSessions, RegisterCommit(x) PROVE RgInv'
    <2>1. Reconciling(rgTx[x]) /\ Rewritten(x) /\ rgTx' = [rgTx EXCEPT ![x] = RgIdle]
      BY <1>4 DEF RegisterCommit, Reconciling
    <2>2. PICK s \in RgServers, i \in Insts, p \in 1..MaxRgPolicy :
            s = rgTx[x].srv /\ i = rgTx[x].inst /\ p = rgTx[x].policy
      BY <1>0, <2>1, RgReconcilerType
    <2>3. rgTx' \in [RgSessions -> RgTxRow] /\ rgTx'[x] = RgIdle /\ \A y \in RgSessions \ {x} : rgTx'[y] = rgTx[y]
      BY <1>c, <1>t, <2>1
    <2>4. rgGrant' \in [RgServers -> [RgRoots -> GrantRow]] /\ ApprovedWereReviewed' /\ WritersFresh'
      BY <1>c, <2>1, <2>3, RgRewritten
    <2>5. rgHeld' \in [RgServers -> [Insts -> RootSet]] /\ HeldRootsWereReviewed'
      <3>1. CASE rgHeld' = [rgHeld EXCEPT ![s][i] = ApprovedRoots(rgGrant'[s], i, p)]
        <4>1. PICK h \in RootSet : h = ApprovedRoots(rgGrant'[s], i, p) /\ SetReviewed(i, h)
          BY <1>h, <2>4
        <4> QED
          BY <3>1, <4>1, RgHeldStep
      <3>2. CASE UNCHANGED rgHeld
        BY <1>0, <1>t, <3>2 DEF HeldRootsWereReviewed
      <3> QED
        BY <1>4, <2>2, <3>1, <3>2 DEF RegisterCommit
    <2>6. rgConn' \in [RgServers -> [Insts -> {"none", "online", "stale", "gone"}]]
      BY <1>t, <1>4, <2>2 DEF RegisterCommit
    <2>7. UNCHANGED <<rgPolicy, rgRequests>>
      BY <2>1 DEF Rewritten
    <2> QED
      BY <1>t, <2>3, <2>4, <2>5, <2>6, <2>7 DEF RgInv, RgTypeOK
  <1>5. ASSUME NEW x \in RgSessions, GatewayCommit(x) PROVE RgInv'
    <2> DEFINE u == [op |-> IF rgTx[x].op = "open" THEN "connecting" ELSE "notify",
                     srv |-> rgTx[x].srv, policy |-> rgTx[x].policy]
    <2>1. Reconciling(rgTx[x]) /\ Rewritten(x) /\ rgTx' = [rgTx EXCEPT ![x] = u]
      BY <1>5 DEF GatewayCommit, Reconciling
    <2>2. rgTx[x].srv \in RgServers /\ rgTx[x].policy \in 1..MaxRgPolicy
      BY <1>0, <2>1, RgReconcilerType
    <2>3. u \in RgTxRow /\ ~Reconciling(u) /\ ~Reviewing(u)
      BY <2>2 DEF RgTxRow, Reconciling, Reviewing
    <2> HIDE DEF u
    <2>4. rgTx' \in [RgSessions -> RgTxRow] /\ rgTx'[x] = u /\ \A y \in RgSessions \ {x} : rgTx'[y] = rgTx[y]
      BY <1>t, <2>1, <2>3
    <2>5. rgGrant' \in [RgServers -> [RgRoots -> GrantRow]] /\ ApprovedWereReviewed' /\ WritersFresh'
      BY <2>1, <2>3, <2>4, RgRewritten
    <2>6. UNCHANGED <<rgPolicy, rgRequests, rgConn, rgHeld>>
      BY <1>5 DEF GatewayCommit, Rewritten
    <2> QED
      BY <1>0, <1>t, <2>4, <2>5, <2>6 DEF RgInv, RgTypeOK, HeldRootsWereReviewed
  <1>6. ASSUME NEW x \in RgSessions, RgAbort(x) PROVE RgInv'
    <2>1. rgTx' = [rgTx EXCEPT ![x] = RgIdle] /\ UNCHANGED <<rgPolicy, rgConn, rgGrant, rgHeld, rgRequests>>
      BY <1>6 DEF RgAbort
    <2>2. rgTx' \in [RgSessions -> RgTxRow] /\ ApprovedWereReviewed' /\ WritersFresh'
      BY <1>c, <2>1, RgReadStep
    <2> QED
      BY <1>0, <1>t, <2>1, <2>2 DEF RgInv, RgTypeOK, HeldRootsWereReviewed
  <1>7. ASSUME NEW x \in RgSessions, NEW cands \in SUBSET RgRoots, SessionOnline(x, cands) PROVE RgInv'
    <2>1. PICK s \in RgServers, p \in 1..MaxRgPolicy : s = rgTx[x].srv /\ p = rgTx[x].policy
      BY <1>t, <1>7 DEF SessionOnline, RgTxRow, RgIdle
    <2>2. /\ rgTx' = [rgTx EXCEPT ![x] = RgIdle] /\ UNCHANGED <<rgPolicy, rgGrant, rgRequests>>
          /\ rgConn' = [rgConn EXCEPT ![s][0] = "online"]
      BY <1>7, <2>1 DEF SessionOnline
    <2>3. rgTx' \in [RgSessions -> RgTxRow] /\ ApprovedWereReviewed' /\ WritersFresh'
      BY <1>c, <2>2, RgReadStep
    <2>4. 0 \in Insts
      BY RootGrantsAssumption DEF Insts
    <2>5. PICK a \in RootSet : a = ApprovedRoots(rgGrant[s], 0, p) /\ SetReviewed(0, a)
      BY <1>h, <1>t, <2>2, <2>3, <2>4
    <2>6. PICK h : h = [a EXCEPT !.roots = {e \in @ : e[1] \in cands}]
      OBVIOUS
    <2>7. h \in RootSet /\ SetReviewed(0, h)
      BY <2>5, <2>6 DEF RootSet, SetReviewed
    <2>8. rgHeld' = [rgHeld EXCEPT ![s][0] = h]
      BY <1>7, <2>1, <2>5, <2>6 DEF SessionOnline
    <2>9. rgHeld' \in [RgServers -> [Insts -> RootSet]] /\ HeldRootsWereReviewed'
      BY <2>4, <2>7, <2>8, RgHeldStep
    <2>10. rgConn' \in [RgServers -> [Insts -> {"none", "online", "stale", "gone"}]]
      BY <1>t, <2>2, <2>4
    <2> QED
      BY <1>t, <2>2, <2>3, <2>9, <2>10 DEF RgInv, RgTypeOK
  <1>8. ASSUME NEW s \in RgServers, NEW i \in Insts, Close(s, i) PROVE RgInv'
    <2>1. /\ rgConn' = [rgConn EXCEPT ![s][i] = IF i = 0 THEN "none" ELSE "gone"]
          /\ rgHeld' = [rgHeld EXCEPT ![s][i] = NoRoots] /\ UNCHANGED <<rgPolicy, rgGrant, rgTx, rgRequests>>
      BY <1>8 DEF Close
    <2>2. SetReviewed(i, NoRoots)
      BY RgNoRoots DEF SetReviewed
    <2>3. rgHeld' \in [RgServers -> [Insts -> RootSet]] /\ HeldRootsWereReviewed'
      BY <2>1, <2>2, RgNoRoots, RgHeldStep
    <2>4. rgConn' \in [RgServers -> [Insts -> {"none", "online", "stale", "gone"}]]
      BY <1>t, <2>1
    <2> QED
      BY <1>0, <1>t, <2>1, <2>3, <2>4
      DEF RgInv, RgTypeOK, ApprovedWereReviewed, RowReviewed, WritersFresh, Reviewing, Reconciling
  <1>9. ASSUME NEW x \in RgSessions, ReviewCommit(x) PROVE RgInv'
    <2>1. Reviewing(rgTx[x]) /\ UNCHANGED <<rgPolicy, rgConn, rgHeld, rgRequests>>
          /\ rgTx' = [rgTx EXCEPT ![x] = [op |-> "notify", srv |-> rgTx[x].srv, policy |-> rgTx[x].policy]]
      BY <1>9 DEF ReviewCommit
    <2>2. rgTx[x].srv \in RgServers /\ rgTx[x].policy \in 1..MaxRgPolicy
      BY <1>0, <2>1, RgReviewerType
    <2>3. [op |-> "notify", srv |-> rgTx[x].srv, policy |-> rgTx[x].policy] \in RgTxRow
      BY <2>2 DEF RgTxRow
    <2>4. rgTx' \in [RgSessions -> RgTxRow]
      BY <1>t, <2>1, <2>3
    <2>5. rgGrant' \in [RgServers -> [RgRoots -> GrantRow]] /\ ApprovedWereReviewed' /\ WritersFresh'
      BY <1>9, RgReviewCommitted
    <2> QED
      BY <1>0, <1>t, <2>1, <2>4, <2>5 DEF RgInv, RgTypeOK, HeldRootsWereReviewed
  <1>10. ASSUME NEW x \in RgSessions, NotifyRootGrantChange(x) PROVE RgInv'
    <2>1. PICK s \in RgServers, p \in 1..MaxRgPolicy : s = rgTx[x].srv /\ p = rgTx[x].policy
      BY <1>t, <1>10 DEF NotifyRootGrantChange, RgTxRow, RgIdle
    <2>2. rgTx' = [rgTx EXCEPT ![x] = RgIdle] /\ UNCHANGED <<rgPolicy, rgConn, rgGrant, rgRequests>>
      BY <1>10 DEF NotifyRootGrantChange
    <2>3. rgTx' \in [RgSessions -> RgTxRow] /\ ApprovedWereReviewed' /\ WritersFresh'
      BY <1>c, <2>2, RgReadStep
    <2>4. PICK i \in Insts : rgHeld' = [rgHeld EXCEPT ![s][i] = ApprovedRoots(rgGrant[s], i, p)]
      BY <1>10, <2>1 DEF NotifyRootGrantChange
    <2>5. PICK h \in RootSet : h = ApprovedRoots(rgGrant[s], i, p) /\ SetReviewed(i, h)
      BY <1>h, <1>t, <2>2, <2>3
    <2>6. rgHeld' \in [RgServers -> [Insts -> RootSet]] /\ HeldRootsWereReviewed'
      BY <2>4, <2>5, RgHeldStep
    <2> QED
      BY <1>t, <2>2, <2>3, <2>6 DEF RgInv, RgTypeOK
  <1>11. ASSUME NEW s \in RgServers, ChangePolicy(s) PROVE RgInv'
    <2>1. rgPolicy' \in [RgServers -> 1..MaxRgPolicy]
      BY <1>t, <1>11, RootGrantsAssumption DEF ChangePolicy
    <2>2. UNCHANGED <<rgConn, rgGrant, rgHeld, rgTx, rgRequests>>
      BY <1>11 DEF ChangePolicy
    <2> QED
      BY <1>0, <1>t, <2>1, <2>2
      DEF RgInv, RgTypeOK, ApprovedWereReviewed, RowReviewed, WritersFresh, Reviewing, Reconciling, HeldRootsWereReviewed
  <1>12. ASSUME NEW x \in RgSessions, NEW cands \in SUBSET RgRoots, NEW s \in RgServers,
                GatewayRead(x, s, cands) \/ \E i \in Insts : RegisterRead(x, s, i, cands)
         PROVE  RgInv'
    <2>1. 0 \in Insts
      BY RootGrantsAssumption DEF Insts
    <2> QED
      BY <1>2, <1>12, <2>1 DEF GatewayRead, RegisterRead
  <1> QED
    BY <1>1, <1>3, <1>4, <1>5, <1>6, <1>7, <1>8, <1>9, <1>10, <1>11, <1>12 DEF RgNext

(* For any servers, roots and replicas: a root that a connection is given    *)
(* was approved by an operator, for that connection instance and the policy  *)
(* generation named with it unless a rival writer of the grant overlapped.   *)
THEOREM RootGrantsCorrect == RgSpec => []HeldRootsWereReviewed
  <1>1. RgInv => HeldRootsWereReviewed
    BY DEF RgInv
  <1> QED
    BY <1>1, RgInitInv, RgStepInv, PTL DEF RgSpec

-----------------------------------------------------------------------------
(* The mirror of a thin client's catalogue (LocalCatalogue)                *)

(* A message names generations the client has had.                         *)
LcMsg == [type : {"snapshot"}, base : {0}, gen : 1..MaxLcGen]
         \cup [type : {"delta"}, base : 1..MaxLcGen, gen : 1..MaxLcGen]
Known(m, n) == m.gen <= n /\ (m.type = "delta" => m.base < m.gen)
QueueKnown == lcQueue \in Seq(LcMsg) /\ \A i \in 1..Len(lcQueue) : Known(lcQueue[i], LocalGen)

(* What a handler read is there until another one commits; what it is to   *)
(* commit is the client's generation.                                      *)
TaskKnown(c) ==
    lcTask[c].at # "idle" =>
        /\ lcTask[c].gen \in 1..LocalGen
        /\ lcTask[c].at = "tools" /\ c \notin lcLate => lcTask[c].seen = lcTool
        /\ lcTask[c].at = "tools" => \A t \in LcTools :
             \/ lcTask[c].tools[t] = lcLocal[lcTask[c].gen][t]
             \/ lcTask[c].type = "delta" /\ (c \notin lcOff => lcTask[c].tools[t] = Stored(lcLocal[lcTask[c].gen][t]))
        /\ lcTask[c].at = "rest" /\ c \notin lcOff => Mirrors(lcTask[c].gen, lcTask[c].type)

(* A row that was not overtaken tells what the mirror holds.               *)
RowKnown(c) ==
    /\ lcRow[c].gen <= LocalGen
    /\ lcRow[c].gen > 0 /\ lcTask[c].at # "rest" /\ c \notin lcOff => Mirrors(lcRow[c].gen, "delta")

LcInv ==
    /\ LcTypeOK /\ QueueKnown /\ lcLate \subseteq lcOff
    /\ \A c \in Conns : TaskKnown(c) /\ RowKnown(c)

(* Sanitizing is idempotent, for a missing tool too.                         *)
LEMMA StoredTwice ==
    ASSUME NEW v \in LcVersions \cup {NoTool}
    PROVE  Stored(v) \in LcVersions \cup {NoTool} /\ Stored(Stored(v)) = Stored(v)
  BY LocalCatalogueAssumption, SanitizedAssumption DEF Stored

(* The first message of a queue, and the rest of it.                         *)
LEMMA LcTail ==
    ASSUME QueueKnown, lcQueue # <<>>
    PROVE  /\ lcQueue[1] \in LcMsg /\ Known(lcQueue[1], LocalGen)
           /\ Tail(lcQueue) \in Seq(LcMsg)
           /\ \A i \in 1..Len(Tail(lcQueue)) : Known(Tail(lcQueue)[i], LocalGen)
  <1>1. PICK q \in Seq(LcMsg) : q = lcQueue
    BY DEF QueueKnown
  <1>2. /\ Len(q) \in Nat /\ Len(q) > 0 /\ Tail(q) \in Seq(LcMsg) /\ Len(Tail(q)) = Len(q) - 1 /\ q[1] \in LcMsg
        /\ \A i \in 1..Len(Tail(q)) : Tail(q)[i] = q[i + 1] /\ i + 1 \in 1..Len(q)
    BY <1>1
  <1>3. 1 \in 1..Len(q)
    BY <1>2
  <1> QED
    BY <1>1, <1>2, <1>3 DEF QueueKnown

(* Nothing is mirrored and nothing acknowledged before the first connection. *)
LEMMA LcInvInit == LcInit => LcInv
  <1> SUFFICES ASSUME LcInit PROVE LcInv
    OBVIOUS
  <1>1. NoTools \in Catalogues /\ NoRows \in [LcTools -> ToolRow]
    BY DEF NoTools, Catalogues, NoRows, ToolRow
  <1>2. NoTask \in Task /\ NoTask.at = "idle" /\ [gen |-> 0, tools |-> NoTools] \in CatalogueRow
    BY <1>1, LocalCatalogueAssumption DEF NoTask, Task, CatalogueRow
  <1>3. LcTypeOK /\ LocalGen = 1
    BY <1>1, <1>2, LocalCatalogueAssumption DEF LcInit, LcTypeOK, LocalGen, Conns
  <1>4. QueueKnown
    BY DEF LcInit, QueueKnown
  <1>5. \A c \in Conns : lcTask[c].at = "idle" /\ lcRow[c].gen = 0
    BY <1>2 DEF LcInit
  <1> QED
    BY <1>3, <1>4, <1>5 DEF LcInv, TaskKnown, RowKnown, LcInit

(* A message is taken from the queue.                                        *)
LEMMA LcDrops == LcInv /\ lcQueue # <<>> /\ Drop => LcInv'
  <1> SUFFICES ASSUME LcInv, lcQueue # <<>>, Drop PROVE LcInv'
    OBVIOUS
  <1>1. QueueKnown'
    BY LcTail DEF LcInv, Drop, QueueKnown, LocalGen
  <1>2. LcTypeOK' /\ (lcLate \subseteq lcOff)'
    BY DEF LcInv, Drop, LcTypeOK, LocalGen
  <1>3. \A c \in Conns : TaskKnown(c)' /\ RowKnown(c)'
    BY DEF LcInv, Drop, TaskKnown, RowKnown, LocalGen, Mirrors, Mirrored
  <1> QED
    BY <1>1, <1>2, <1>3 DEF LcInv

(* A message is sent.                                                        *)
LEMMA LcSends ==
    ASSUME LcInv, NEW m \in LcMsg, Known(m, LocalGen), Send(m)
    PROVE  LcInv'
  <1>1. QueueKnown'
    <2>1. PICK q \in Seq(LcMsg) : q = lcQueue
      BY DEF LcInv, QueueKnown
    <2>2. PICK p : p = Append(q, m)
      OBVIOUS
    <2>3. /\ p \in Seq(LcMsg) /\ Len(q) \in Nat /\ Len(p) = Len(q) + 1
          /\ p[Len(q) + 1] = m /\ \A i \in 1..Len(q) : p[i] = q[i]
      BY <2>2
    <2>4. \A i \in 1..Len(p) : i \in 1..Len(q) \/ i = Len(q) + 1
      BY <2>3
    <2>5. \A i \in 1..Len(q) : Known(q[i], LocalGen)
      BY <2>1 DEF LcInv, QueueKnown
    <2>6. \A i \in 1..Len(p) : Known(p[i], LocalGen)
      BY <2>3, <2>4, <2>5
    <2>7. lcQueue' = p /\ LocalGen' = LocalGen
      BY <2>1, <2>2 DEF Send, LocalGen
    <2> QED
      BY <2>3, <2>6, <2>7 DEF QueueKnown
  <1>2. LcTypeOK' /\ (lcLate \subseteq lcOff)'
    BY LocalCatalogueAssumption DEF LcInv, Send, LcTypeOK, LocalGen
  <1>3. \A c \in Conns : TaskKnown(c)' /\ RowKnown(c)'
    BY DEF LcInv, Send, TaskKnown, RowKnown, LocalGen, Mirrors, Mirrored
  <1> QED
    BY <1>1, <1>2, <1>3 DEF LcInv

(* A new generation of the client leaves the older ones as they were.        *)
LEMMA LcChanges == LcInv /\ ToolsChange => LcInv'
  <1> SUFFICES ASSUME LcInv, ToolsChange PROVE LcInv'
    OBVIOUS
  <1>1. PICK d \in Catalogues : lcLocal' = Append(lcLocal, d)
    BY DEF ToolsChange
  <1>2. /\ LocalGen < MaxLcGen /\ LocalGen \in 1..MaxLcGen /\ lcLocal \in Seq(Catalogues)
        /\ UNCHANGED <<lcSent, lcQueue, lcConn, lcRow, lcTool, lcTask, lcLate, lcOff>>
    BY DEF ToolsChange, LcInv, LcTypeOK
  <1>3. /\ lcLocal' \in Seq(Catalogues) /\ LocalGen' = LocalGen + 1
        /\ \A g \in 1..LocalGen : lcLocal'[g] = lcLocal[g]
    BY <1>1, <1>2 DEF LocalGen
  <1>4. PICK n \in 1..MaxLcGen : n = LocalGen
    BY <1>2
  <1>5. n + 1 \in 1..MaxLcGen /\ LocalGen' = n + 1 /\ n <= n + 1
    BY <1>2, <1>3, <1>4, LocalCatalogueAssumption
  <1>6. LcTypeOK' /\ (lcLate \subseteq lcOff)'
    BY <1>2, <1>3, <1>5 DEF LcInv, LcTypeOK
  <1>7. QueueKnown'
    <2>1. \A i \in 1..Len(lcQueue) : lcQueue[i] \in LcMsg /\ Known(lcQueue[i], n)
      BY <1>4 DEF LcInv, QueueKnown
    <2>2. \A m \in LcMsg : Known(m, n) => Known(m, n + 1)
      BY <1>4 DEF LcMsg, Known
    <2> QED
      BY <1>2, <1>5, <2>1, <2>2 DEF LcInv, QueueKnown
  <1>8. ASSUME NEW g \in 1..LocalGen, NEW y PROVE Mirrors(g, y) => Mirrors(g, y)'
    BY <1>2, <1>3 DEF Mirrors, Mirrored
  <1>9. ASSUME NEW c \in Conns PROVE TaskKnown(c)' /\ RowKnown(c)'
    <2>1. TaskKnown(c) /\ RowKnown(c) /\ lcRow[c].gen \in 0..MaxLcGen
      BY DEF LcInv, LcTypeOK, CatalogueRow
    <2>2. PICK k, r : k = lcTask[c] /\ r = lcRow[c].gen
      OBVIOUS
    <2>3. k.at # "idle" => k.gen \in 1..LocalGen /\ k.gen \in 1..(n + 1) /\ lcLocal'[k.gen] = lcLocal[k.gen]
      BY <1>3, <1>4, <2>1, <2>2 DEF TaskKnown
    <2>4. r \in 0..MaxLcGen /\ r <= n /\ r <= n + 1 /\ (r > 0 => r \in 1..LocalGen)
      BY <1>4, <2>1, <2>2 DEF RowKnown
    <2>5. TaskKnown(c)'
      BY <1>2, <1>5, <1>8, <2>1, <2>2, <2>3 DEF TaskKnown
    <2>6. RowKnown(c)'
      BY <1>2, <1>5, <1>8, <2>1, <2>2, <2>4 DEF RowKnown
    <2> QED
      BY <2>5, <2>6
  <1> QED
    BY <1>6, <1>7, <1>9 DEF LcInv

(* What reconcile_snapshot reads, and what it is to write.                   *)
LEMMA LcReads == LcInv /\ ReadMessage => LcInv'
  <1> SUFFICES ASSUME LcInv, ReadMessage PROVE LcInv'
    OBVIOUS
  <1>1. PICK m : m = lcQueue[1]
    OBVIOUS
  <1>2. PICK c \in Conns : c = lcConn
    BY DEF LcInv, LcTypeOK
  <1>3. /\ m \in LcMsg /\ Known(m, LocalGen) /\ Tail(lcQueue) \in Seq(LcMsg)
        /\ \A i \in 1..Len(Tail(lcQueue)) : Known(Tail(lcQueue)[i], LocalGen)
    BY <1>1, LcTail DEF LcInv, ReadMessage, Handles
  <1>4. m.gen \in 1..MaxLcGen /\ m.type \in {"snapshot", "delta"} /\ (m.type = "delta" => m.base \in 1..MaxLcGen)
    BY <1>3 DEF LcMsg
  <1>5. LocalGen \in 1..MaxLcGen /\ LocalGen = Len(lcLocal) /\ lcLocal \in Seq(Catalogues)
    BY DEF LcInv, LcTypeOK, LocalGen
  <1>6. m.gen \in 1..LocalGen /\ (m.type = "delta" => m.base \in 1..LocalGen)
    BY <1>3, <1>4, <1>5, LocalCatalogueAssumption DEF Known
  <1>7. \A t \in LcTools : /\ lcLocal[m.gen][t] \in LcVersions \cup {NoTool}
                           /\ m.type = "delta" => lcLocal[m.base][t] \in LcVersions \cup {NoTool}
    BY <1>5, <1>6 DEF Catalogues
  <1>8. \A t \in LcTools : Mirrored(t) \in LcVersions \cup {NoTool} /\ Stored(Mirrored(t)) \in LcVersions \cup {NoTool}
    <2>1. \A t \in LcTools : lcTool[t] \in ToolRow
      BY DEF LcInv, LcTypeOK
    <2>2. \A t \in LcTools : Mirrored(t) \in LcVersions \cup {NoTool}
      BY <2>1 DEF ToolRow, Mirrored
    <2> QED
      BY <2>2, StoredTwice
  <1>9. PICK g : g = Merged(m)
    OBVIOUS
  <1>10. /\ g \in Catalogues
         /\ \A t \in LcTools : g[t] = IF m.type = "snapshot" \/ lcLocal[m.gen][t] # lcLocal[m.base][t]
                                      THEN lcLocal[m.gen][t] ELSE Stored(Mirrored(t))
    BY <1>7, <1>8, <1>9 DEF Merged, Catalogues
  <1>11. PICK k : k = [at |-> "tools", type |-> m.type, gen |-> m.gen, tools |-> g, seen |-> lcTool]
    OBVIOUS
  <1>12. k \in Task /\ k.at = "tools" /\ k.type = m.type /\ k.gen = m.gen /\ k.tools = g /\ k.seen = lcTool
    <2>1. m.gen \in 0..MaxLcGen /\ lcTool \in [LcTools -> ToolRow]
      BY <1>4 DEF LcInv, LcTypeOK
    <2> QED
      BY <1>4, <1>10, <1>11, <2>1 DEF Task
  <1>13. /\ lcTask' = [lcTask EXCEPT ![c] = k] /\ lcTask \in [Conns -> Task]
         /\ lcQueue' = Tail(lcQueue) /\ lcLate' = lcLate \ {c}
         /\ UNCHANGED <<lcLocal, lcSent, lcConn, lcRow, lcTool, lcOff>>
         /\ lcTask[c].at = "idle" /\ BaseMatches(m)
    BY <1>1, <1>2, <1>9, <1>11 DEF ReadMessage, LcInv, LcTypeOK, Handles
  <1>14. lcTask'[c] = k /\ lcTask' \in [Conns -> Task] /\ \A d \in Conns : d # c => lcTask'[d] = lcTask[d]
    BY <1>12, <1>13
  <1>15. LcTypeOK' /\ (lcLate \subseteq lcOff)'
    BY <1>13, <1>14 DEF LcInv, LcTypeOK, LocalGen
  <1>16. QueueKnown'
    BY <1>3, <1>13 DEF QueueKnown, LocalGen
  <1>17. c \notin lcOff /\ m.type = "delta" =>
           \A t \in LcTools : g[t] = lcLocal[m.gen][t] \/ g[t] = Stored(lcLocal[m.gen][t])
    <2> SUFFICES ASSUME c \notin lcOff, m.type = "delta", NEW t \in LcTools
                 PROVE  g[t] = lcLocal[m.gen][t] \/ g[t] = Stored(lcLocal[m.gen][t])
      OBVIOUS
    <2>1. m.base = lcRow[c].gen /\ m.base > 0
      BY <1>2, <1>4, <1>13 DEF BaseMatches
    <2>2. Mirrors(m.base, "delta")
      BY <1>13, <2>1 DEF LcInv, RowKnown
    <2>3. Mirrored(t) = lcLocal[m.base][t] \/ Mirrored(t) = Stored(lcLocal[m.base][t])
      BY <2>2 DEF Mirrors
    <2>4. Stored(Mirrored(t)) = Stored(lcLocal[m.base][t])
      BY <1>7, <2>3, StoredTwice
    <2> QED
      BY <1>10, <2>4
  <1>18. TaskKnown(c)'
    <2>1. \A t \in LcTools : \/ g[t] = lcLocal[m.gen][t]
                             \/ m.type = "delta" /\ (c \notin lcOff => g[t] = Stored(lcLocal[m.gen][t]))
      BY <1>4, <1>10, <1>17
    <2>2. LocalGen' = LocalGen
      BY <1>13 DEF LocalGen
    <2> QED
      BY <1>6, <1>12, <1>13, <1>14, <2>1, <2>2 DEF TaskKnown
  <1>19. ASSUME NEW d \in Conns, d # c PROVE TaskKnown(d)'
    <2>1. d \in lcLate' <=> d \in lcLate
      BY <1>13, <1>19
    <2> QED
      BY <1>13, <1>14, <1>19, <2>1 DEF LcInv, TaskKnown, LocalGen, Mirrors, Mirrored
  <1>20. ASSUME NEW d \in Conns PROVE RowKnown(d)'
    <2>1. lcTask'[d].at # "rest" => lcTask[d].at # "rest"
      BY <1>13, <1>14
    <2> QED
      BY <1>13, <2>1 DEF LcInv, RowKnown, LocalGen, Mirrors, Mirrored
  <1> QED
    BY <1>15, <1>16, <1>18, <1>19, <1>20 DEF LcInv

(* Tools that are committed as they were read are those of the message.      *)
LEMMA LcRecorded ==
    ASSUME LcTypeOK, NEW c \in Conns, NEW t \in LcTools,
           lcTask[c].seen = lcTool,
           lcTool' = [u \in LcTools |-> Recorded(lcTask[c].tools[u], lcTask[c].seen[u], lcTool[u])]
    PROVE  Mirrored(t)' = lcTask[c].tools[t]
  <1>1. PICK w, s : w = lcTask[c].tools[t] /\ s = lcTool[t]
    OBVIOUS
  <1>2. s \in ToolRow
    BY <1>1 DEF LcTypeOK
  <1>3. lcTool'[t] = Recorded(w, s, s)
    BY <1>1
  <1>4. CASE w = NoTool
    <2>1. Recorded(w, s, s).state = "missing"
      BY <1>2, <1>4 DEF Recorded, ToolRow
    <2> QED
      BY <1>1, <1>3, <1>4, <2>1 DEF Mirrored
  <1>5. CASE w # NoTool
    <2>1. Recorded(w, s, s).state = "active" /\ Recorded(w, s, s).rev = w
      BY <1>2, <1>5 DEF Recorded, ToolRow
    <2> QED
      BY <1>1, <1>3, <2>1 DEF Mirrored
  <1> QED
    BY <1>4, <1>5

(* The commit of the tools.                                                  *)
LEMMA LcCommits == ASSUME LcInv, NEW c \in Conns, CommitTools(c) PROVE LcInv'
  <1>0. /\ LcTypeOK /\ lcLate \subseteq lcOff /\ TaskKnown(c) /\ lcTask[c] \in Task
        /\ lcTool \in [LcTools -> ToolRow] /\ lcTask \in [Conns -> Task]
    BY DEF LcInv, LcTypeOK
  <1>1. PICK k : k = lcTask[c]
    OBVIOUS
  <1>2. PICK m : m = [k EXCEPT !.at = "rest"]
    OBVIOUS
  <1>3. k \in Task /\ m \in Task /\ m.at = "rest" /\ m.gen = k.gen /\ m.type = k.type
    BY <1>0, <1>1, <1>2 DEF Task
  <1>4. /\ lcTask[c].at = "tools" /\ lcTask' = [lcTask EXCEPT ![c] = m]
        /\ lcTool' = [t \in LcTools |-> Recorded(k.tools[t], k.seen[t], lcTool[t])]
        /\ lcLate' = Conns \ {c} /\ UNCHANGED <<lcLocal, lcSent, lcQueue, lcConn, lcRow>>
        /\ lcOff' = (Conns \ {c}) \cup (IF k.type = "snapshot" /\ c \notin lcLate THEN {} ELSE lcOff)
    BY <1>0, <1>1, <1>2 DEF CommitTools, clientVars
  <1>5. lcTask'[c] = m /\ lcTask' \in [Conns -> Task] /\ \A d \in Conns : d # c => lcTask'[d] = lcTask[d]
    BY <1>0, <1>3, <1>4
  <1>6. lcTool' \in [LcTools -> ToolRow]
    <2>1. ASSUME NEW t \in LcTools PROVE lcTool'[t] \in ToolRow
      <3>1. PICK w \in LcVersions \cup {NoTool}, s \in ToolRow, r \in ToolRow :
               w = k.tools[t] /\ s = k.seen[t] /\ r = lcTool[t]
        BY <1>0, <1>3 DEF Task, Catalogues
      <3>2. lcTool'[t] = Recorded(w, s, r)
        BY <1>4, <3>1
      <3> QED
        BY <3>1, <3>2 DEF Recorded, ToolRow
    <2> QED
      BY <1>4, <2>1
  <1>7. LcTypeOK'
    BY <1>0, <1>4, <1>5, <1>6 DEF LcTypeOK, LocalGen
  <1>8. (lcLate \subseteq lcOff)' /\ \A d \in Conns : d # c => d \in lcOff' /\ d \in lcLate'
    BY <1>4
  <1>9. QueueKnown' /\ LocalGen' = LocalGen
    BY <1>4 DEF LcInv, QueueKnown, LocalGen
  <1>10. c \notin lcOff' => Mirrors(k.gen, k.type)'
    <2> SUFFICES ASSUME c \notin lcOff', NEW t \in LcTools
                 PROVE  Mirrored(t)' = lcLocal[k.gen][t]
                        \/ (k.type = "delta" /\ Mirrored(t)' = Stored(lcLocal[k.gen][t]))
      BY <1>4 DEF Mirrors
    <2>1. c \notin lcLate /\ (k.type = "delta" => c \notin lcOff)
      BY <1>0, <1>4
    <2>2. k.seen = lcTool
      BY <1>0, <1>1, <1>4, <2>1 DEF TaskKnown
    <2>3. Mirrored(t)' = k.tools[t]
      BY <1>0, <1>1, <1>4, <2>2, LcRecorded
    <2> QED
      BY <1>0, <1>1, <1>4, <2>1, <2>3 DEF TaskKnown
  <1>11. TaskKnown(c)'
    <2>1. k.gen \in 1..LocalGen
      BY <1>0, <1>1, <1>4 DEF TaskKnown
    <2> QED
      BY <1>3, <1>5, <1>9, <1>10, <2>1 DEF TaskKnown
  <1>12. ASSUME NEW d \in Conns, d # c PROVE TaskKnown(d)'
    <2>1. TaskKnown(d) /\ d \in lcOff' /\ d \in lcLate' /\ lcTask'[d] = lcTask[d]
      BY <1>5, <1>8, <1>12 DEF LcInv
    <2>2. \A t \in LcTools : lcTask[d].at = "tools" =>
             lcTask[d].tools[t] = lcLocal[lcTask[d].gen][t] \/ lcTask[d].type = "delta"
      BY <2>1 DEF TaskKnown
    <2> QED
      BY <1>4, <1>9, <2>1, <2>2 DEF TaskKnown
  <1>13. ASSUME NEW d \in Conns PROVE RowKnown(d)'
    <2>1. d = c \/ d \in lcOff'
      BY <1>8
    <2> QED
      BY <1>3, <1>4, <1>5, <1>9, <2>1 DEF LcInv, RowKnown
  <1> QED
    BY <1>7, <1>8, <1>9, <1>11, <1>12, <1>13 DEF LcInv

(* A handler comes to its end: with the row, or without.                     *)
LEMMA LcEnds ==
    ASSUME LcInv, NEW c \in Conns, RefuseTools(c) \/ Acknowledge(c) \/ RefuseRest(c)
    PROVE  LcInv'
  <1>0. LcTypeOK /\ QueueKnown /\ lcLate \subseteq lcOff /\ lcTask \in [Conns -> Task] /\ lcRow \in [Conns -> CatalogueRow]
    BY DEF LcInv, LcTypeOK
  <1>1. NoTask \in Task /\ NoTask.at = "idle"
    BY LocalCatalogueAssumption DEF NoTask, Task, NoTools, Catalogues, NoRows, ToolRow
  <1>2. /\ lcTask' = [lcTask EXCEPT ![c] = NoTask]
        /\ UNCHANGED <<lcLocal, lcSent, lcQueue, lcConn, lcTool, lcLate>>
        /\ lcOff \subseteq lcOff' /\ lcOff' \subseteq Conns
    BY <1>0 DEF RefuseTools, Acknowledge, RefuseRest, clientVars, LcTypeOK
  <1>3. lcTask' \in [Conns -> Task] /\ lcTask'[c].at = "idle" /\ \A d \in Conns : d # c => lcTask'[d] = lcTask[d]
    BY <1>0, <1>1, <1>2
  <1>4. ASSUME NEW d \in Conns PROVE TaskKnown(d)'
    <2>1. CASE d = c
      BY <1>3, <2>1 DEF TaskKnown
    <2>2. CASE d # c
      <3>1. lcTask'[d] = lcTask[d] /\ TaskKnown(d) /\ (d \notin lcOff' => d \notin lcOff)
        BY <1>2, <1>3, <2>2 DEF LcInv
      <3> QED
        BY <1>2, <3>1 DEF TaskKnown, LocalGen, Mirrors, Mirrored
    <2> QED
      BY <2>1, <2>2
  <1>5. QueueKnown' /\ (lcLate \subseteq lcOff)' /\ LocalGen' = LocalGen
    BY <1>0, <1>2 DEF QueueKnown, LocalGen
  <1>6. \A g, y : Mirrors(g, y) => Mirrors(g, y)'
    BY <1>2 DEF Mirrors, Mirrored
  <1>7. CASE ~Acknowledge(c)
    <2>1. UNCHANGED lcRow
      BY <1>7 DEF RefuseTools, RefuseRest
    <2>2. ASSUME NEW d \in Conns PROVE RowKnown(d)'
      <3>1. RowKnown(d) /\ (d \notin lcOff' => d \notin lcOff)
        BY <1>2 DEF LcInv
      <3>2. d \notin lcOff' => (lcTask[d].at = "rest" => lcTask'[d].at = "rest")
        BY <1>3, <1>7 DEF RefuseTools, RefuseRest
      <3> QED
        BY <1>5, <1>6, <2>1, <3>1, <3>2 DEF RowKnown
    <2>3. LcTypeOK'
      BY <1>0, <1>2, <1>3, <2>1 DEF LcTypeOK, LocalGen
    <2> QED
      BY <1>4, <1>5, <2>2, <2>3 DEF LcInv
  <1>8. CASE Acknowledge(c)
    <2>1. PICK k \in Task : k = lcTask[c]
      BY <1>0
    <2>2. PICK r : r = [gen |-> k.gen, tools |-> k.tools]
      OBVIOUS
    <2>3. r \in CatalogueRow /\ r.gen = k.gen
      BY <2>1, <2>2 DEF CatalogueRow, Task
    <2>4. lcRow' = [lcRow EXCEPT ![c] = r] /\ k.at = "rest" /\ lcOff' = lcOff
      BY <1>8, <2>1, <2>2 DEF Acknowledge
    <2>5. lcRow'[c] = r /\ lcRow' \in [Conns -> CatalogueRow] /\ \A d \in Conns : d # c => lcRow'[d] = lcRow[d]
      BY <1>0, <2>3, <2>4
    <2>6. k.gen \in 1..LocalGen /\ (c \notin lcOff => Mirrors(k.gen, k.type))
      BY <2>1, <2>4 DEF LcInv, TaskKnown
    <2>7. Mirrors(k.gen, k.type) => Mirrors(k.gen, "delta")
      BY DEF Mirrors
    <2>8. RowKnown(c)'
      <3>1. k.gen <= LocalGen
        BY <1>0, <2>6 DEF LcTypeOK
      <3> QED
        BY <1>5, <1>6, <2>3, <2>4, <2>5, <2>6, <2>7, <3>1 DEF RowKnown
    <2>9. ASSUME NEW d \in Conns, d # c PROVE RowKnown(d)'
      <3>1. RowKnown(d) /\ lcRow'[d] = lcRow[d] /\ lcTask'[d] = lcTask[d]
        BY <1>3, <2>5, <2>9 DEF LcInv
      <3> QED
        BY <1>5, <1>6, <2>4, <3>1 DEF RowKnown
    <2>10. LcTypeOK'
      BY <1>0, <1>2, <1>3, <2>5 DEF LcTypeOK, LocalGen
    <2> QED
      BY <1>4, <1>5, <2>8, <2>9, <2>10 DEF LcInv
  <1> QED
    BY <1>7, <1>8

(* Every message of the catalogue protocol, however the connections that     *)
(* carry them overlap, keeps the invariant.                                  *)
LEMMA LcInvNext == LcInv /\ [LcNext]_lcVars => LcInv'
  <1> SUFFICES ASSUME LcInv, [LcNext]_lcVars PROVE LcInv'
    OBVIOUS
  <1>t. LocalGen \in 1..MaxLcGen /\ MaxLcGen \in Nat
    BY LocalCatalogueAssumption DEF LcInv, LcTypeOK
  <1>1. CASE ToolsChange
    BY <1>1, LcChanges
  <1>2. CASE SendSnapshot
    <2>1. PICK m : m = [type |-> "snapshot", base |-> 0, gen |-> LocalGen]
      OBVIOUS
    <2>2. m \in LcMsg /\ Known(m, LocalGen)
      BY <1>t, <2>1 DEF LcMsg, Known
    <2>3. Send(m)
      BY <1>2, <2>1 DEF SendSnapshot
    <2> QED
      BY <2>2, <2>3, LcSends
  <1>3. CASE SendDelta
    <2>1. PICK b \in 1..(LocalGen - 1) : Send([type |-> "delta", base |-> b, gen |-> LocalGen])
      BY <1>3 DEF SendDelta
    <2>2. PICK m : m = [type |-> "delta", base |-> b, gen |-> LocalGen]
      OBVIOUS
    <2>3. b \in 1..MaxLcGen /\ b < LocalGen
      BY <1>t, <2>1
    <2>4. m \in LcMsg /\ Known(m, LocalGen)
      BY <1>t, <2>2, <2>3 DEF LcMsg, Known
    <2> QED
      BY <2>1, <2>2, <2>4, LcSends
  <1>4. CASE Reconnect
    <2>1. /\ lcConn' = lcConn + 1 /\ lcConn < MaxLcConns /\ lcQueue' = <<>> /\ lcSent' = 0
          /\ UNCHANGED <<lcLocal, lcRow, lcTool, lcTask, lcLate, lcOff>>
      BY <1>4 DEF Reconnect
    <2>2. LcTypeOK' /\ (lcLate \subseteq lcOff)'
      BY <1>t, <2>1, LocalCatalogueAssumption DEF LcInv, LcTypeOK, LocalGen, Conns
    <2>3. QueueKnown'
      BY <2>1 DEF QueueKnown
    <2>4. \A c \in Conns : TaskKnown(c)' /\ RowKnown(c)'
      BY <2>1 DEF LcInv, TaskKnown, RowKnown, LocalGen, Mirrors, Mirrored
    <2> QED
      BY <2>2, <2>3, <2>4 DEF LcInv
  <1>5. CASE Mismatch
    BY <1>5, LcDrops DEF Mismatch, Handles
  <1>6. CASE Unchanged
    BY <1>6, LcDrops DEF Unchanged, Handles
  <1>7. CASE ReadMessage
    BY <1>7, LcReads
  <1>8. CASE \E c \in Conns : CommitTools(c)
    BY <1>8, LcCommits
  <1>9. CASE \E c \in Conns : RefuseTools(c) \/ Acknowledge(c) \/ RefuseRest(c)
    BY <1>9, LcEnds
  <1>10. CASE UNCHANGED lcVars
    <2>1. \A c \in Conns : TaskKnown(c)' /\ RowKnown(c)'
      BY <1>10 DEF LcInv, lcVars, TaskKnown, RowKnown, LocalGen, Mirrors, Mirrored
    <2>2. LcTypeOK' /\ QueueKnown' /\ (lcLate \subseteq lcOff)'
      BY <1>10 DEF LcInv, lcVars, LcTypeOK, QueueKnown, LocalGen
    <2> QED
      BY <2>1, <2>2 DEF LcInv
  <1> QED
    BY <1>1, <1>2, <1>3, <1>4, <1>5, <1>6, <1>7, <1>8, <1>9, <1>10 DEF LcNext

(* For any tools, generations and connections: a generation that             *)
(* reconcile_snapshot acknowledges is mirrored, unless another connection's  *)
(* tools, or half a message of its own, came in between.                     *)
THEOREM LocalCatalogueCorrect == LcSpec => AcknowledgedIsMirrored
  <1>1. LcInv /\ [LcNext]_lcVars =>
          [\A c \in Conns : lcRow'[c] # lcRow[c] /\ c \notin lcOff
                            => Mirrors(lcRow'[c].gen, lcTask[c].type)]_lcVars
    <2> SUFFICES ASSUME LcInv, LcNext, NEW c \in Conns, lcRow'[c] # lcRow[c], c \notin lcOff
                 PROVE  Mirrors(lcRow'[c].gen, lcTask[c].type)
      BY DEF lcVars
    <2>1. PICK d \in Conns : Acknowledge(d)
      BY DEF LcNext, ToolsChange, SendSnapshot, SendDelta, Send, Reconnect, Mismatch, Unchanged, Drop, ReadMessage,
             RefuseTools, CommitTools, RefuseRest
    <2>2. lcRow \in [Conns -> CatalogueRow] /\ TaskKnown(c)
      BY DEF LcInv, LcTypeOK
    <2>3. d = c /\ lcRow'[c] = [gen |-> lcTask[c].gen, tools |-> lcTask[c].tools] /\ lcTask[c].at = "rest"
      BY <2>1, <2>2 DEF Acknowledge
    <2> QED
      BY <2>2, <2>3 DEF TaskKnown
  <1> QED
    BY <1>1, LcInvInit, LcInvNext, PTL DEF LcSpec, AcknowledgedIsMirrored

-----------------------------------------------------------------------------
(* Upstream credentials (UpstreamCredentials)                              *)

(* What the stamp of a secret says of it: the issuer declared for it, if   *)
(* any, is the one it is stamped with.                                     *)
Vouched(s) == s.origin \in {NoIssuer, s.stamp}

SecretsVouched == \A b \in UcBindings : Vouched(ucBinding[b].secret)

FlowsPlaced == \A f \in UcFlows : ucFlow[f].status # "none" => ucFlow[f].binding \in UcBindings

(* What a request in flight decided about the row it loaded.               *)
Decided(k) ==
    /\ k.op \in {"rotate", "revoke", "complete"} => k.loaded.version < MaxUcVersion
    /\ k.op = "rotate" => RotationAllowed(k.loaded, k.issuer)
    /\ k.op = "use" => Vouched(k.loaded.secret)
    /\ k.op = "complete" => /\ ucFlow[k.flow].status # "none"
                            /\ ucFlow[k.flow].issuer \in {NoIssuer, k.issuer}
                            /\ k.loaded.issuer \in {NoIssuer, k.issuer}

TasksDecided == \A t \in UcTasks : Decided(ucTask[t])

UcInv == UcTypeOK /\ SecretsVouched /\ FlowsPlaced /\ TasksDecided /\ TokenSentUnderItsIssuer

(* What a request carries from its reads to its commit.                    *)
LEMMA UcTaskFields ==
    ASSUME UcTypeOK, NEW t \in UcTasks
    PROVE  /\ ucTask[t].op \in {"rotate", "revoke", "use", "reauthorize", "complete"} =>
                ucTask[t].binding \in UcBindings /\ ucTask[t].loaded \in BindingRow
           /\ ucTask[t].op \in {"rotate", "start", "reauthorize", "complete"} => ucTask[t].issuer \in Stamps
           /\ ucTask[t].op \in {"start", "reauthorize", "complete"} => ucTask[t].flow \in UcFlows
           /\ ucTask[t].op = "start" => ucTask[t].binding \in UcBindings \cup {NoBinding}
           /\ ucTask[t].op \in {"idle", "rotate", "revoke", "use", "start", "reauthorize", "complete"}
  BY DEF UcTypeOK, UcTaskState, UcIdle

(* The fields of a loaded row.                                             *)
LEMMA UcRowFields ==
    ASSUME NEW r \in BindingRow
    PROVE  /\ r.status \in {"none", "active", "authorizing", "auth_required", "revoked"}
           /\ r.issuer \in Stamps /\ r.secret \in Secret /\ r.version \in 0 .. MaxUcVersion
  BY DEF BindingRow

(* A written status is the loaded row's, the new one or the row's.         *)
LEMMA UcWritten ==
    ASSUME NEW l, NEW n, NEW r
    PROVE  Written(l, n, r) \in {n, r} /\ (l = n => Written(l, n, r) = r) /\ (l # n => Written(l, n, r) = n)
  BY DEF Written

(* A token the issuer mints carries the issuer declared for it.            *)
LEMMA UcMinted ==
    ASSUME NEW i \in Stamps, NEW o \in {NoIssuer, i}
    PROVE  Minted(i, o) \in Secret /\ Vouched(Minted(i, o))
  BY DEF Minted, Secret, Stamps, Vouched

(* The secret a binding starts with is nobody's.                           *)
LEMMA UcSeed == Seed \in Secret /\ Vouched(Seed)
  BY DEF Seed, Secret, Stamps, Vouched

(* The idle task is one of the task states.                                *)
LEMMA UcIdleTask == UcIdle \in UcTaskState /\ UcIdle.op = "idle"
  BY DEF UcIdle, UcTaskState

(* One request goes on, or rests; nothing it decided is undone.            *)
LEMMA UcTaskStep ==
    ASSUME UcInv, NEW t \in UcTasks, NEW k \in UcTaskState, ucTask' = [ucTask EXCEPT ![t] = k],
           Decided(k)',
           \A f \in UcFlows : ucFlow[f].status # "none" =>
              ucFlow'[f].status # "none" /\ ucFlow'[f].issuer = ucFlow[f].issuer
    PROVE  ucTask' \in [UcTasks -> UcTaskState] /\ TasksDecided'
  <1>1. UcTypeOK /\ TasksDecided
    BY DEF UcInv
  <1>2. ucTask' \in [UcTasks -> UcTaskState] /\ ucTask'[t] = k /\ \A u \in UcTasks : u # t => ucTask'[u] = ucTask[u]
    BY <1>1 DEF UcTypeOK
  <1>3. ASSUME NEW u \in UcTasks, u # t PROVE Decided(ucTask[u])'
    <2>1. Decided(ucTask[u])
      BY <1>1 DEF TasksDecided
    <2>2. ucTask'[u] = ucTask[u]
      BY <1>2, <1>3
    <2>3. ucTask[u].op = "complete" => ucTask[u].flow \in UcFlows
      BY <1>1, UcTaskFields
    <2> QED
      BY <2>1, <2>2, <2>3 DEF Decided
  <1>4. Decided(ucTask[t])'
    BY <1>2 DEF Decided
  <1> QED
    BY <1>2, <1>3, <1>4 DEF TasksDecided

(* A request that rests.                                                   *)
LEMMA UcRests ==
    ASSUME UcInv, NEW t \in UcTasks, Rest(t),
           \A f \in UcFlows : ucFlow[f].status # "none" =>
              ucFlow'[f].status # "none" /\ ucFlow'[f].issuer = ucFlow[f].issuer
    PROVE  ucTask' \in [UcTasks -> UcTaskState] /\ TasksDecided'
  <1>1. Decided(UcIdle)'
    BY UcIdleTask DEF Decided
  <1> QED
    BY <1>1, UcTaskStep, UcIdleTask DEF Rest

(* A step that writes one binding row.                                     *)
LEMMA UcRowStep ==
    ASSUME UcInv, NEW b \in UcBindings, NEW row \in BindingRow, Vouched(row.secret),
           ucBinding' = [ucBinding EXCEPT ![b] = row]
    PROVE  ucBinding' \in [UcBindings -> BindingRow] /\ SecretsVouched'
  <1>1. UcTypeOK /\ SecretsVouched
    BY DEF UcInv
  <1>2. ucBinding' \in [UcBindings -> BindingRow] /\ ucBinding'[b] = row /\ \A c \in UcBindings : c # b => ucBinding'[c] = ucBinding[c]
    BY <1>1 DEF UcTypeOK
  <1> QED
    BY <1>1, <1>2 DEF SecretsVouched

(* The credentials an installation starts with satisfy the invariant.      *)
LEMMA UcInitInv == UcInit => UcInv
  <1> SUFFICES ASSUME UcInit PROVE UcInv
    OBVIOUS
  <1>1. NoRow \in BindingRow /\ NoRow.secret = Seed
    BY UcSeed, UcAssumption DEF NoRow, BindingRow, Stamps
  <1>2. [status |-> "none", binding |-> NoBinding, issuer |-> NoIssuer] \in FlowRow
    BY DEF FlowRow, Stamps
  <1>3. UcTypeOK
    BY <1>1, <1>2, UcIdleTask DEF UcInit, UcTypeOK, Stamps
  <1>4. SecretsVouched
    BY <1>1, UcSeed DEF UcInit, SecretsVouched
  <1>5. FlowsPlaced /\ TasksDecided
    BY UcIdleTask DEF UcInit, FlowsPlaced, TasksDecided, Decided
  <1>6. TokenSentUnderItsIssuer
    BY DEF UcInit, TokenSentUnderItsIssuer
  <1> QED
    BY <1>3, <1>4, <1>5, <1>6 DEF UcInv

(* The requests that only load a row.                                      *)
LEMMA UcReadInv ==
    ASSUME UcInv, NEW t \in UcTasks, NEW k \in UcTaskState, ucTask' = [ucTask EXCEPT ![t] = k],
           Decided(k), UNCHANGED <<ucBinding, ucServer, ucFlow, ucSent>>,
           ucRedeemed' \subseteq UcFlows
    PROVE  UcInv'
  <1>1. Decided(k)'
    BY DEF Decided
  <1>2. ucTask' \in [UcTasks -> UcTaskState] /\ TasksDecided'
    BY <1>1, UcTaskStep
  <1> QED
    BY <1>2 DEF UcInv, UcTypeOK, SecretsVouched, FlowsPlaced, TokenSentUnderItsIssuer

(* The requests that commit to one binding row and rest.                   *)
LEMMA UcCommitInv ==
    ASSUME UcInv, NEW t \in UcTasks, Rest(t), NEW b \in UcBindings, NEW row \in BindingRow, Vouched(row.secret),
           ucBinding' = [ucBinding EXCEPT ![b] = row], UNCHANGED <<ucServer, ucFlow, ucRedeemed>>,
           ucSent' \in [origin : Stamps, issuer : Stamps], TokenSentUnderItsIssuer'
    PROVE  UcInv'
  <1>1. ucBinding' \in [UcBindings -> BindingRow] /\ SecretsVouched'
    BY UcRowStep
  <1>2. ucTask' \in [UcTasks -> UcTaskState] /\ TasksDecided'
    BY UcRests
  <1> QED
    BY <1>1, <1>2 DEF UcInv, UcTypeOK, FlowsPlaced

(* Every step of a rotation, a revocation, an authorisation and a use of a *)
(* credential keeps the invariant.                                         *)
LEMMA UcStepInv ==
    ASSUME UcInv, [UcNext]_ucVars
    PROVE  UcInv'
  <1>0. UcTypeOK /\ SecretsVouched /\ FlowsPlaced /\ TasksDecided /\ TokenSentUnderItsIssuer
    BY DEF UcInv
  <1>t. /\ ucBinding \in [UcBindings -> BindingRow]
        /\ ucServer \in UcBindings \cup {NoBinding}
        /\ ucFlow \in [UcFlows -> FlowRow]
        /\ ucRedeemed \subseteq UcFlows
        /\ ucTask \in [UcTasks -> UcTaskState]
        /\ ucSent \in [origin : Stamps, issuer : Stamps]
    BY <1>0 DEF UcTypeOK
  <1>s. ASSUME ucSent' = ucSent PROVE ucSent' \in [origin : Stamps, issuer : Stamps] /\ TokenSentUnderItsIssuer'
    BY <1>0, <1>t, <1>s DEF TokenSentUnderItsIssuer
  <1>r. \A b \in UcBindings : ucBinding[b] \in BindingRow /\ Vouched(ucBinding[b].secret)
    BY <1>0, <1>t DEF SecretsVouched
  <1>1. CASE UNCHANGED ucVars
    BY <1>0, <1>1 DEF ucVars, UcInv, UcTypeOK, SecretsVouched, FlowsPlaced, TasksDecided, Decided, TokenSentUnderItsIssuer
  <1>2. ASSUME NEW b \in UcBindings, NEW i \in Stamps, CreateMaterial(b, i) PROVE UcInv'
    <2>1. PICK row : row = [status |-> "active", issuer |-> i, secret |-> Minted(i, i), version |-> 1]
      OBVIOUS
    <2>2. row \in BindingRow /\ Vouched(row.secret)
      BY <2>1, UcMinted, UcAssumption DEF BindingRow
    <2>3. ucBinding' \in [UcBindings -> BindingRow] /\ SecretsVouched'
      BY <1>2, <2>1, <2>2, UcRowStep DEF CreateMaterial
    <2> QED
      BY <1>0, <1>t, <1>2, <2>3 DEF CreateMaterial, UcInv, UcTypeOK, FlowsPlaced, TasksDecided, Decided, TokenSentUnderItsIssuer
  <1>3. ASSUME NEW b \in UcBindings, AttachBinding(b) PROVE UcInv'
    BY <1>0, <1>t, <1>3 DEF AttachBinding, UcInv, UcTypeOK, SecretsVouched, FlowsPlaced, TasksDecided, Decided,
                            TokenSentUnderItsIssuer
  <1>4. ASSUME NEW f \in UcFlows, StartReplayExpires(f) PROVE UcInv'
    <2>1. /\ ucFlow' \in [UcFlows -> FlowRow]
          /\ \A e \in UcFlows : /\ ucFlow'[e].binding = ucFlow[e].binding /\ ucFlow'[e].issuer = ucFlow[e].issuer
                                /\ ucFlow'[e].status = "none" <=> ucFlow[e].status = "none"
      BY <1>t, <1>4 DEF StartReplayExpires, FlowRow
    <2>2. FlowsPlaced'
      BY <1>0, <2>1 DEF FlowsPlaced
    <2>3. \A t \in UcTasks : ucTask[t].op = "complete" => ucTask[t].flow \in UcFlows
      BY <1>0, UcTaskFields
    <2>4. TasksDecided'
      BY <1>0, <1>4, <2>1, <2>3 DEF StartReplayExpires, TasksDecided, Decided
    <2> QED
      BY <1>0, <1>t, <1>4, <2>1, <2>2, <2>4 DEF StartReplayExpires, UcInv, UcTypeOK, SecretsVouched, TokenSentUnderItsIssuer
  <1>5. ASSUME NEW t \in UcTasks, NEW b \in UcBindings, NEW i \in Stamps, RotateRead(t, b, i) PROVE UcInv'
    <2>1. PICK row \in BindingRow : row = ucBinding[b]
      BY <1>r
    <2>2. PICK k : k = [op |-> "rotate", binding |-> b, loaded |-> row, issuer |-> i]
      OBVIOUS
    <2>3. k \in UcTaskState
      BY <2>1, <2>2 DEF UcTaskState
    <2>4. Decided(k)
      BY <1>5, <2>1, <2>2 DEF RotateRead, Decided
    <2> QED
      BY <1>t, <1>5, <2>1, <2>2, <2>3, <2>4, UcReadInv DEF RotateRead, Takes
  <1>6. ASSUME NEW t \in UcTasks, NEW b \in UcBindings, RevokeRead(t, b) PROVE UcInv'
    <2>1. PICK row \in BindingRow : row = ucBinding[b]
      BY <1>r
    <2>2. PICK k : k = [op |-> "revoke", binding |-> b, loaded |-> row]
      OBVIOUS
    <2>3. k \in UcTaskState
      BY <2>1, <2>2 DEF UcTaskState
    <2>4. Decided(k)
      BY <1>6, <2>1, <2>2 DEF RevokeRead, Decided
    <2> QED
      BY <1>t, <1>6, <2>1, <2>2, <2>3, <2>4, UcReadInv DEF RevokeRead, Takes
  <1>7. ASSUME NEW t \in UcTasks, NEW f \in UcFlows, NEW i \in Stamps, StartRead(t, f, i) PROVE UcInv'
    <2>1. PICK k : k = [op |-> "start", flow |-> f, issuer |-> i, binding |-> ucServer]
      OBVIOUS
    <2>2. k \in UcTaskState
      BY <1>t, <2>1 DEF UcTaskState
    <2>3. Decided(k)
      BY <2>1 DEF Decided
    <2> QED
      BY <1>t, <1>7, <2>1, <2>2, <2>3, UcReadInv DEF StartRead, Takes
  <1>8. ASSUME NEW t \in UcTasks, StartReuses(t) PROVE UcInv'
    <2>1. ucTask[t].op = "start" /\ ReusesBinding(ucTask[t].binding, ucTask[t].issuer)
      BY <1>8 DEF StartReuses
    <2>2. PICK b \in UcBindings : b = ucTask[t].binding
      BY <1>0, <2>1, UcTaskFields DEF ReusesBinding
    <2>3. PICK f \in UcFlows, i \in Stamps : f = ucTask[t].flow /\ i = ucTask[t].issuer
      BY <1>0, <2>1, UcTaskFields
    <2>4. PICK row \in BindingRow : row = ucBinding[b]
      BY <1>r
    <2>5. PICK k : k = [op |-> "reauthorize", flow |-> f, issuer |-> i, binding |-> b, loaded |-> row]
      OBVIOUS
    <2>6. k \in UcTaskState
      BY <2>5 DEF UcTaskState
    <2>7. Decided(k)
      BY <2>5 DEF Decided
    <2>8. ucTask' = [ucTask EXCEPT ![t] = k]
      BY <1>8, <2>2, <2>3, <2>4, <2>5 DEF StartReuses
    <2> QED
      BY <1>t, <1>8, <2>6, <2>7, <2>8, UcReadInv DEF StartReuses
  <1>9. ASSUME NEW t \in UcTasks, NEW f \in UcFlows, CompleteRead(t, f) PROVE UcInv'
    <2>1. PICK b \in UcBindings : b = ucFlow[f].binding
      BY <1>0, <1>9 DEF CompleteRead, FlowsPlaced
    <2>2. PICK row \in BindingRow : row = ucBinding[b]
      BY <1>r
    <2>3. ucFlow[f] \in FlowRow
      BY <1>t
    <2>4. PICK i \in Stamps : i = ExpectedIssuer(ucFlow[f], row)
      BY <2>3, UcRowFields DEF ExpectedIssuer, FlowRow
    <2>5. PICK k : k = [op |-> "complete", flow |-> f, issuer |-> i, binding |-> b, loaded |-> row]
      OBVIOUS
    <2>6. k \in UcTaskState
      BY <2>5 DEF UcTaskState
    <2>7. ucFlow[f].issuer \in {NoIssuer, i}
      BY <2>4 DEF ExpectedIssuer
    <2>8. Decided(k)
      BY <1>9, <2>1, <2>2, <2>4, <2>5, <2>7 DEF CompleteRead, Decided
    <2> QED
      BY <1>t, <1>9, <2>1, <2>2, <2>4, <2>5, <2>6, <2>8, UcReadInv DEF CompleteRead, Takes
  <1>10. ASSUME NEW t \in UcTasks, UseRead(t) PROVE UcInv'
    <2>1. PICK b \in UcBindings : b = ucServer
      BY <1>t, <1>10 DEF UseRead
    <2>2. PICK row \in BindingRow : row = ucBinding[b] /\ Vouched(row.secret)
      BY <1>r
    <2>3. PICK k : k = [op |-> "use", binding |-> b, loaded |-> row]
      OBVIOUS
    <2>4. k \in UcTaskState
      BY <2>3 DEF UcTaskState
    <2>5. Decided(k)
      BY <2>2, <2>3 DEF Decided
    <2> QED
      BY <1>t, <1>10, <2>1, <2>2, <2>3, <2>4, <2>5, UcReadInv DEF UseRead, Takes
  <1>11. ASSUME NEW t \in UcTasks, StartRefused(t) \/ CompleteFails(t) \/ RefreshFails(t) PROVE UcInv'
    <2>1. Decided(UcIdle)
      BY UcIdleTask DEF Decided
    <2>2. ucTask[t].op = "complete" => ucTask[t].flow \in UcFlows
      BY <1>0, UcTaskFields
    <2>3. ucRedeemed' \subseteq UcFlows
      BY <1>t, <1>11, <2>2 DEF StartRefused, CompleteFails, RefreshFails
    <2> QED
      BY <1>11, <2>1, <2>3, UcReadInv, UcIdleTask DEF StartRefused, CompleteFails, RefreshFails, Rest
  <1>12. ASSUME NEW t \in UcTasks, UseToken(t) PROVE UcInv'
    <2>1. PICK row \in BindingRow : row = ucTask[t].loaded
      BY <1>0, <1>12, UcTaskFields DEF UseToken
    <2>2. Vouched(row.secret) /\ row.secret \in Secret /\ row.issuer \in Stamps
      BY <1>0, <1>12, <2>1, UcRowFields DEF UseToken, TasksDecided, Decided
    <2>3. ucSent' \in [origin : Stamps, issuer : Stamps] /\ TokenSentUnderItsIssuer'
      BY <1>12, <2>1, <2>2 DEF UseToken, Present, StampsAgree, Vouched, Secret, TokenSentUnderItsIssuer
    <2>4. ucTask' \in [UcTasks -> UcTaskState] /\ TasksDecided'
      BY <1>12, UcRests DEF UseToken
    <2> QED
      BY <1>0, <1>t, <1>12, <2>3, <2>4 DEF UseToken, UcInv, UcTypeOK, SecretsVouched, FlowsPlaced
  <1>13. ASSUME NEW t \in UcTasks, RotateCommit(t) PROVE UcInv'
    <2>1. PICK l \in BindingRow, b \in UcBindings, i \in Stamps :
             l = ucTask[t].loaded /\ b = ucTask[t].binding /\ i = ucTask[t].issuer
      BY <1>0, <1>13, UcTaskFields DEF RotateCommit
    <2>2. PICK new \in Stamps : new = IF i # NoIssuer THEN i ELSE l.issuer
      BY <2>1, UcRowFields
    <2>3. PICK st : st = Written(l.status, "active", ucBinding[b].status)
      OBVIOUS
    <2>4. st \in {"none", "active", "authorizing", "auth_required", "revoked"}
      BY <1>r, <2>3, UcRowFields, UcWritten
    <2>5. l.version < MaxUcVersion
      BY <1>0, <1>13, <2>1 DEF RotateCommit, TasksDecided, Decided
    <2>6. l.version \in 0 .. MaxUcVersion
      BY UcRowFields
    <2>7. PICK v \in 0 .. MaxUcVersion : v = l.version + 1
      BY <2>5, <2>6, UcAssumption
    <2>8. PICK row : row = [status |-> st, issuer |-> new, secret |-> Minted(new, i), version |-> v]
      OBVIOUS
    <2>9. row \in BindingRow /\ Vouched(row.secret)
      BY <2>2, <2>4, <2>7, <2>8, UcMinted DEF BindingRow
    <2>10. ucBinding' = [ucBinding EXCEPT ![b] = row]
      BY <1>13, <2>1, <2>2, <2>3, <2>7, <2>8 DEF RotateCommit
    <2> QED
      BY <1>s, <1>13, <2>9, <2>10, UcCommitInv DEF RotateCommit
  <1>14. ASSUME NEW t \in UcTasks, RevokeCommit(t) PROVE UcInv'
    <2>1. PICK l \in BindingRow, b \in UcBindings : l = ucTask[t].loaded /\ b = ucTask[t].binding
      BY <1>0, <1>14, UcTaskFields DEF RevokeCommit
    <2>3. PICK st : st = Written(l.status, "revoked", ucBinding[b].status)
      OBVIOUS
    <2>4. st \in {"none", "active", "authorizing", "auth_required", "revoked"}
      BY <1>r, <2>3, UcRowFields, UcWritten
    <2>5. l.version < MaxUcVersion
      BY <1>0, <1>14, <2>1 DEF RevokeCommit, TasksDecided, Decided
    <2>6. l.version \in 0 .. MaxUcVersion
      BY UcRowFields
    <2>7. PICK v \in 0 .. MaxUcVersion : v = l.version + 1
      BY <2>5, <2>6, UcAssumption
    <2>8. PICK row : row = [ucBinding[b] EXCEPT !.status = st, !.version = v]
      OBVIOUS
    <2>9. row \in BindingRow /\ row.secret = ucBinding[b].secret
      BY <1>r, <2>4, <2>7, <2>8 DEF BindingRow
    <2>10. ucBinding' = [ucBinding EXCEPT ![b] = row]
      BY <1>t, <1>14, <2>1, <2>3, <2>7, <2>8 DEF RevokeCommit
    <2> QED
      BY <1>r, <1>s, <1>14, <2>9, <2>10, UcCommitInv DEF RevokeCommit
  <1>15. ASSUME NEW t \in UcTasks, UseRefused(t) PROVE UcInv'
    <2>1. PICK l \in BindingRow, b \in UcBindings : l = ucTask[t].loaded /\ b = ucTask[t].binding
      BY <1>0, <1>15, UcTaskFields DEF UseRefused
    <2>3. PICK st : st = Written(l.status, "auth_required", ucBinding[b].status)
      OBVIOUS
    <2>4. st \in {"none", "active", "authorizing", "auth_required", "revoked"}
      BY <1>r, <2>3, UcRowFields, UcWritten
    <2>8. PICK row : row = [ucBinding[b] EXCEPT !.status = st]
      OBVIOUS
    <2>9. row \in BindingRow /\ row.secret = ucBinding[b].secret
      BY <1>r, <2>4, <2>8 DEF BindingRow
    <2>10. ucBinding' = [ucBinding EXCEPT ![b] = row]
      BY <1>t, <1>15, <2>1, <2>3, <2>8 DEF UseRefused
    <2> QED
      BY <1>r, <1>s, <1>15, <2>9, <2>10, UcCommitInv DEF UseRefused
  <1>16. ASSUME NEW t \in UcTasks, RefreshCommit(t) PROVE UcInv'
    <2>1. PICK l \in BindingRow, b \in UcBindings : l = ucTask[t].loaded /\ b = ucTask[t].binding
      BY <1>0, <1>16, UcTaskFields DEF RefreshCommit
    <2>2. Vouched(l.secret) /\ l.secret \in Secret /\ l.issuer \in Stamps
      BY <1>0, <1>16, <2>1, UcRowFields DEF RefreshCommit, TasksDecided, Decided
    <2>3. PICK st : st = Written(l.status, "active", ucBinding[b].status)
      OBVIOUS
    <2>4. st \in {"none", "active", "authorizing", "auth_required", "revoked"}
      BY <1>r, <2>3, UcRowFields, UcWritten
    <2>5. l.version < MaxUcVersion
      BY <1>16, <2>1 DEF RefreshCommit
    <2>6. l.version \in 0 .. MaxUcVersion
      BY UcRowFields
    <2>7. PICK v \in 0 .. MaxUcVersion : v = l.version + 1
      BY <2>5, <2>6, UcAssumption
    <2>8. PICK row : row = [ucBinding[b] EXCEPT !.secret = l.secret, !.status = st, !.version = v]
      OBVIOUS
    <2>9. row \in BindingRow /\ row.secret = l.secret
      BY <1>r, <2>2, <2>4, <2>7, <2>8 DEF BindingRow
    <2>10. ucBinding' = [ucBinding EXCEPT ![b] = row]
      BY <1>t, <1>16, <2>1, <2>3, <2>7, <2>8 DEF RefreshCommit
    <2>11. ucSent' \in [origin : Stamps, issuer : Stamps] /\ TokenSentUnderItsIssuer'
      BY <1>16, <2>1, <2>2 DEF RefreshCommit, Present, StampsAgree, Vouched, Secret, TokenSentUnderItsIssuer
    <2> QED
      BY <1>16, <2>2, <2>9, <2>10, <2>11, UcCommitInv DEF RefreshCommit
  <1>f. ASSUME NEW t \in UcTasks, NEW b \in UcBindings, FlowStarted(t, b), ucTask[t].op \in {"start", "reauthorize"}
        PROVE  ucFlow' \in [UcFlows -> FlowRow] /\ FlowsPlaced' /\ ucTask' \in [UcTasks -> UcTaskState] /\ TasksDecided'
    <2>1. PICK f \in UcFlows, i \in Stamps : f = ucTask[t].flow /\ i = ucTask[t].issuer
      BY <1>0, <1>f, UcTaskFields
    <2>2. PICK g : g = [status |-> "pending", binding |-> b, issuer |-> i]
      OBVIOUS
    <2>3. g \in FlowRow /\ g.status = "pending" /\ g.binding = b
      BY <2>2 DEF FlowRow
    <2>4. ucFlow' = [ucFlow EXCEPT ![f] = g] /\ ucFlow[f].status = "none"
      BY <1>f, <2>1, <2>2 DEF FlowStarted
    <2>5. ucFlow' \in [UcFlows -> FlowRow] /\ ucFlow'[f] = g /\ \A e \in UcFlows : e # f => ucFlow'[e] = ucFlow[e]
      BY <1>t, <2>3, <2>4
    <2>6. FlowsPlaced'
      BY <1>0, <2>3, <2>5 DEF FlowsPlaced
    <2>7. ucTask' \in [UcTasks -> UcTaskState] /\ TasksDecided'
      BY <1>f, <2>4, <2>5, UcRests DEF FlowStarted
    <2> QED
      BY <2>5, <2>6, <2>7
  <1>17. ASSUME NEW t \in UcTasks, ReauthorizeCommit(t) PROVE UcInv'
    <2>1. PICK l \in BindingRow, b \in UcBindings : l = ucTask[t].loaded /\ b = ucTask[t].binding
      BY <1>0, <1>17, UcTaskFields DEF ReauthorizeCommit
    <2>2. PICK i \in {ucBinding[b].issuer, l.issuer} :
             ucBinding' = [ucBinding EXCEPT ![b].status = Written(l.status, "authorizing", @), ![b].issuer = i]
      BY <1>17, <2>1 DEF ReauthorizeCommit
    <2>3. PICK st : st = Written(l.status, "authorizing", ucBinding[b].status)
      OBVIOUS
    <2>4. st \in {"none", "active", "authorizing", "auth_required", "revoked"}
      BY <1>r, <2>3, UcRowFields, UcWritten
    <2>5. i \in Stamps
      BY <1>r, <2>2, UcRowFields
    <2>8. PICK row : row = [ucBinding[b] EXCEPT !.status = st, !.issuer = i]
      OBVIOUS
    <2>9. row \in BindingRow /\ row.secret = ucBinding[b].secret
      BY <1>r, <2>4, <2>5, <2>8 DEF BindingRow
    <2>10. ucBinding' = [ucBinding EXCEPT ![b] = row]
      BY <1>t, <2>2, <2>3, <2>8
    <2>11. ucBinding' \in [UcBindings -> BindingRow] /\ SecretsVouched'
      BY <1>r, <2>9, <2>10, UcRowStep
    <2>12. ucFlow' \in [UcFlows -> FlowRow] /\ FlowsPlaced' /\ ucTask' \in [UcTasks -> UcTaskState] /\ TasksDecided'
      BY <1>f, <1>17, <2>1 DEF ReauthorizeCommit
    <2> QED
      BY <1>t, <1>s, <1>17, <2>11, <2>12 DEF ReauthorizeCommit, UcInv, UcTypeOK
  <1>18. ASSUME NEW t \in UcTasks, NEW b \in UcBindings, StartCreates(t, b) PROVE UcInv'
    <2>1. PICK i \in Stamps : i = ucTask[t].issuer
      BY <1>0, <1>18, UcTaskFields DEF StartCreates
    <2>2. PICK row : row = [status |-> "authorizing", issuer |-> i, secret |-> Seed, version |-> 1]
      OBVIOUS
    <2>3. row \in BindingRow /\ Vouched(row.secret)
      BY <2>2, UcSeed, UcAssumption DEF BindingRow
    <2>4. ucBinding' \in [UcBindings -> BindingRow] /\ SecretsVouched'
      BY <1>18, <2>1, <2>2, <2>3, UcRowStep DEF StartCreates
    <2>5. ucFlow' \in [UcFlows -> FlowRow] /\ FlowsPlaced' /\ ucTask' \in [UcTasks -> UcTaskState] /\ TasksDecided'
      BY <1>f, <1>18 DEF StartCreates
    <2> QED
      BY <1>t, <1>s, <1>18, <2>4, <2>5 DEF StartCreates, UcInv, UcTypeOK
  <1>19. ASSUME NEW t \in UcTasks, CompleteCommit(t) PROVE UcInv'
    <2>1. PICK l \in BindingRow, b \in UcBindings, i \in Stamps, f \in UcFlows :
             l = ucTask[t].loaded /\ b = ucTask[t].binding /\ i = ucTask[t].issuer /\ f = ucTask[t].flow
      BY <1>0, <1>19, UcTaskFields DEF CompleteCommit
    <2>2. ucFlow[f].issuer \in {NoIssuer, i} /\ l.version < MaxUcVersion
      BY <1>0, <1>19, <2>1 DEF CompleteCommit, TasksDecided, Decided
    <2>3. PICK st : st = Written(l.status, "active", ucBinding[b].status)
      OBVIOUS
    <2>4. st \in {"none", "active", "authorizing", "auth_required", "revoked"}
      BY <1>r, <2>3, UcRowFields, UcWritten
    <2>5. PICK j : j = Written(l.issuer, i, ucBinding[b].issuer)
      OBVIOUS
    <2>6. j \in Stamps
      BY <1>r, <2>5, UcRowFields, UcWritten
    <2>7. l.version \in 0 .. MaxUcVersion
      BY UcRowFields
    <2>8. PICK v \in 0 .. MaxUcVersion : v = l.version + 1
      BY <2>2, <2>7, UcAssumption
    <2>9. PICK s : s = Minted(i, ucFlow[f].issuer)
      OBVIOUS
    <2>10. s \in Secret /\ Vouched(s)
      BY <2>2, <2>9, UcMinted
    <2>11. PICK row : row = [ucBinding[b] EXCEPT !.secret = s, !.issuer = j, !.status = st, !.version = v]
      OBVIOUS
    <2>12. row \in BindingRow /\ row.secret = s
      BY <1>r, <2>4, <2>6, <2>8, <2>10, <2>11 DEF BindingRow
    <2>13. ucBinding' = [ucBinding EXCEPT ![b] = row]
      BY <1>t, <1>19, <2>1, <2>3, <2>5, <2>8, <2>9, <2>11 DEF CompleteCommit
    <2>14. ucBinding' \in [UcBindings -> BindingRow] /\ SecretsVouched'
      BY <2>10, <2>12, <2>13, UcRowStep
    <2>15. /\ ucFlow' \in [UcFlows -> FlowRow]
           /\ \A e \in UcFlows : /\ ucFlow'[e].binding = ucFlow[e].binding /\ ucFlow'[e].issuer = ucFlow[e].issuer
                                 /\ ucFlow[e].status # "none" => ucFlow'[e].status # "none"
                                 /\ ucFlow'[e].status # "none" => ucFlow[e].status # "none" \/ e = f
      BY <1>t, <1>19, <2>1 DEF CompleteCommit, FlowRow
    <2>16. ucFlow[f].status # "none"
      BY <1>0, <1>19, <2>1 DEF CompleteCommit, TasksDecided, Decided
    <2>17. FlowsPlaced'
      BY <1>0, <2>15, <2>16 DEF FlowsPlaced
    <2>18. ucTask' \in [UcTasks -> UcTaskState] /\ TasksDecided'
      BY <1>19, <2>15, UcRests DEF CompleteCommit
    <2> QED
      BY <1>t, <1>s, <1>19, <2>1, <2>14, <2>15, <2>17, <2>18 DEF CompleteCommit, UcInv, UcTypeOK
  <1> QED
    BY <1>1, <1>2, <1>3, <1>4, <1>5, <1>6, <1>7, <1>8, <1>9, <1>10, <1>11, <1>12, <1>13, <1>14, <1>15, <1>16, <1>17, <1>18, <1>19
    DEF UcNext

(* What a step leaves of an issuer and of a revocation.                    *)
LEMMA UcStepPinned ==
    ASSUME UcInv, [UcNext]_ucVars
    PROVE  [IssuerPinned /\ RevocationSurvives]_ucVars
  <1>0. UcTypeOK /\ TasksDecided
    BY DEF UcInv
  <1>t. ucBinding \in [UcBindings -> BindingRow] /\ ucTask \in [UcTasks -> UcTaskState]
    BY <1>0 DEF UcTypeOK
  <1>r. \A b \in UcBindings : ucBinding[b] \in BindingRow
    BY <1>t
  <1>w. ASSUME NEW t \in UcTasks, NEW b \in UcBindings, Rest(t), ucTask[t].binding = b,
               \A c \in UcBindings : c # b => ucBinding'[c] = ucBinding[c],
               ucTask[t].op \in {"rotate", "reauthorize", "complete", "use"},
               ucBinding[b].issuer \notin {NoIssuer, ucBinding'[b].issuer} => ucTask[t].loaded.issuer # ucBinding[b].issuer,
               ucBinding[b].status = "revoked" /\ ucBinding'[b].status = "active" => ucTask[t].loaded.status # "active"
        PROVE  IssuerPinned /\ RevocationSurvives
    <2>1. ucTask'[t] = UcIdle /\ UcIdle.op = "idle"
      BY <1>t, <1>w, UcIdleTask DEF Rest
    <2>2. ucTask'[t] # ucTask[t]
      BY <1>w, <2>1
    <2>3. Ends(t, b)
      BY <1>w, <2>2 DEF Ends
    <2> QED
      BY <1>w, <2>3 DEF IssuerPinned, RevocationSurvives
  <1>f. \A t \in UcTasks : ucTask[t].op \in {"rotate", "revoke", "use", "reauthorize", "complete"} =>
          ucTask[t].binding \in UcBindings /\ ucTask[t].loaded \in BindingRow
    BY <1>0, UcTaskFields
  <1>1. ASSUME ucBinding' = ucBinding PROVE IssuerPinned /\ RevocationSurvives
    BY <1>1 DEF IssuerPinned, RevocationSurvives
  <1>2. ASSUME NEW b \in UcBindings, ucBinding[b].status = "none",
               \A c \in UcBindings : c # b => ucBinding'[c] = ucBinding[c]
        PROVE  IssuerPinned /\ RevocationSurvives
    BY <1>2 DEF IssuerPinned, RevocationSurvives
  <1>3. ASSUME NEW t \in UcTasks, RotateCommit(t) PROVE IssuerPinned /\ RevocationSurvives
    <2>1. PICK b \in UcBindings : b = ucTask[t].binding
      BY <1>f, <1>3 DEF RotateCommit
    <2>2. /\ ucBinding[b] \in BindingRow
          /\ \A c \in UcBindings : c # b => ucBinding'[c] = ucBinding[c]
      BY <1>t, <1>3, <2>1 DEF RotateCommit
    <2>3. /\ ucBinding'[b].status = Written(ucTask[t].loaded.status, "active", ucBinding[b].status)
          /\ ucBinding'[b].issuer = IF ucTask[t].issuer # NoIssuer THEN ucTask[t].issuer ELSE ucTask[t].loaded.issuer
      BY <1>t, <1>3, <2>1, <2>2 DEF RotateCommit, BindingRow
    <2>4. /\ ucTask[t].op = "rotate"
          /\ ucTask[t].loaded.issuer # NoIssuer => ucTask[t].issuer \in {NoIssuer, ucTask[t].loaded.issuer}
      BY <1>0, <1>3 DEF RotateCommit, TasksDecided, Decided, RotationAllowed
    <2>5. /\ ucBinding[b].issuer \notin {NoIssuer, ucBinding'[b].issuer} => ucTask[t].loaded.issuer # ucBinding[b].issuer
          /\ ucBinding[b].status = "revoked" /\ ucBinding'[b].status = "active" => ucTask[t].loaded.status # "active"
      BY <2>3, <2>4 DEF Written
    <2> QED
      BY <1>w, <1>3, <2>1, <2>2, <2>4, <2>5 DEF RotateCommit
  <1>4. ASSUME NEW t \in UcTasks, CompleteCommit(t) PROVE IssuerPinned /\ RevocationSurvives
    <2>1. PICK b \in UcBindings : b = ucTask[t].binding
      BY <1>f, <1>4 DEF CompleteCommit
    <2>2. /\ ucBinding[b] \in BindingRow
          /\ \A c \in UcBindings : c # b => ucBinding'[c] = ucBinding[c]
      BY <1>t, <1>4, <2>1 DEF CompleteCommit
    <2>3. /\ ucBinding'[b].status = Written(ucTask[t].loaded.status, "active", ucBinding[b].status)
          /\ ucBinding'[b].issuer = Written(ucTask[t].loaded.issuer, ucTask[t].issuer, ucBinding[b].issuer)
      BY <1>t, <1>4, <2>1, <2>2 DEF CompleteCommit, BindingRow
    <2>4. /\ ucTask[t].op = "complete"
          /\ ucTask[t].loaded.issuer \in {NoIssuer, ucTask[t].issuer}
      BY <1>0, <1>4 DEF CompleteCommit, TasksDecided, Decided, RotationAllowed
    <2>5. /\ ucBinding[b].issuer \notin {NoIssuer, ucBinding'[b].issuer} => ucTask[t].loaded.issuer # ucBinding[b].issuer
          /\ ucBinding[b].status = "revoked" /\ ucBinding'[b].status = "active" => ucTask[t].loaded.status # "active"
      BY <2>3, <2>4 DEF Written
    <2> QED
      BY <1>w, <1>4, <2>1, <2>2, <2>4, <2>5 DEF CompleteCommit
  <1>5. ASSUME NEW t \in UcTasks, ReauthorizeCommit(t) PROVE IssuerPinned /\ RevocationSurvives
    <2>1. PICK b \in UcBindings : b = ucTask[t].binding
      BY <1>f, <1>5 DEF ReauthorizeCommit
    <2>2. /\ ucBinding[b] \in BindingRow
          /\ \A c \in UcBindings : c # b => ucBinding'[c] = ucBinding[c]
      BY <1>t, <1>5, <2>1 DEF ReauthorizeCommit
    <2>3. /\ ucBinding'[b].status = Written(ucTask[t].loaded.status, "authorizing", ucBinding[b].status)
          /\ ucBinding'[b].issuer \in {ucBinding[b].issuer, ucTask[t].loaded.issuer}
      BY <1>t, <1>5, <2>1, <2>2 DEF ReauthorizeCommit, BindingRow
    <2>4. ucTask[t].op = "reauthorize"
      BY <1>0, <1>5 DEF ReauthorizeCommit, TasksDecided, Decided, RotationAllowed
    <2>5. /\ ucBinding[b].issuer \notin {NoIssuer, ucBinding'[b].issuer} => ucTask[t].loaded.issuer # ucBinding[b].issuer
          /\ ucBinding[b].status = "revoked" /\ ucBinding'[b].status = "active" => ucTask[t].loaded.status # "active"
      BY <2>3, <2>4 DEF Written
    <2> QED
      BY <1>w, <1>5, <2>1, <2>2, <2>4, <2>5 DEF ReauthorizeCommit, FlowStarted
  <1>6. ASSUME NEW t \in UcTasks, RefreshCommit(t) PROVE IssuerPinned /\ RevocationSurvives
    <2>1. PICK b \in UcBindings : b = ucTask[t].binding
      BY <1>f, <1>6 DEF RefreshCommit
    <2>2. /\ ucBinding[b] \in BindingRow
          /\ \A c \in UcBindings : c # b => ucBinding'[c] = ucBinding[c]
      BY <1>t, <1>6, <2>1 DEF RefreshCommit
    <2>3. /\ ucBinding'[b].status = Written(ucTask[t].loaded.status, "active", ucBinding[b].status)
          /\ ucBinding'[b].issuer = ucBinding[b].issuer
      BY <1>t, <1>6, <2>1, <2>2 DEF RefreshCommit, BindingRow
    <2>4. ucTask[t].op = "use"
      BY <1>0, <1>6 DEF RefreshCommit, TasksDecided, Decided, RotationAllowed
    <2>5. /\ ucBinding[b].issuer \notin {NoIssuer, ucBinding'[b].issuer} => ucTask[t].loaded.issuer # ucBinding[b].issuer
          /\ ucBinding[b].status = "revoked" /\ ucBinding'[b].status = "active" => ucTask[t].loaded.status # "active"
      BY <2>3, <2>4 DEF Written
    <2> QED
      BY <1>w, <1>6, <2>1, <2>2, <2>4, <2>5 DEF RefreshCommit
  <1>7. ASSUME NEW t \in UcTasks, UseRefused(t) PROVE IssuerPinned /\ RevocationSurvives
    <2>1. PICK b \in UcBindings : b = ucTask[t].binding
      BY <1>f, <1>7 DEF UseRefused
    <2>2. /\ ucBinding[b] \in BindingRow
          /\ \A c \in UcBindings : c # b => ucBinding'[c] = ucBinding[c]
      BY <1>t, <1>7, <2>1 DEF UseRefused
    <2>3. /\ ucBinding'[b].status = Written(ucTask[t].loaded.status, "auth_required", ucBinding[b].status)
          /\ ucBinding'[b].issuer = ucBinding[b].issuer
      BY <1>t, <1>7, <2>1, <2>2 DEF UseRefused, BindingRow
    <2>4. ucTask[t].op = "use"
      BY <1>0, <1>7 DEF UseRefused, TasksDecided, Decided, RotationAllowed
    <2>5. /\ ucBinding[b].issuer \notin {NoIssuer, ucBinding'[b].issuer} => ucTask[t].loaded.issuer # ucBinding[b].issuer
          /\ ucBinding[b].status = "revoked" /\ ucBinding'[b].status = "active" => ucTask[t].loaded.status # "active"
      BY <2>3, <2>4 DEF Written
    <2> QED
      BY <1>w, <1>7, <2>1, <2>2, <2>4, <2>5 DEF UseRefused
  <1>8. ASSUME NEW t \in UcTasks, RevokeCommit(t) PROVE IssuerPinned /\ RevocationSurvives
    <2>1. PICK b \in UcBindings : b = ucTask[t].binding
      BY <1>f, <1>8 DEF RevokeCommit
    <2>2. /\ ucBinding[b] \in BindingRow
          /\ \A c \in UcBindings : c # b => ucBinding'[c] = ucBinding[c]
      BY <1>t, <1>8, <2>1 DEF RevokeCommit
    <2>3. /\ ucBinding'[b].status = Written(ucTask[t].loaded.status, "revoked", ucBinding[b].status)
          /\ ucBinding'[b].issuer = ucBinding[b].issuer
      BY <1>t, <1>8, <2>1, <2>2 DEF RevokeCommit, BindingRow
    <2>4. \A c \in UcBindings : /\ ucBinding'[c].issuer = ucBinding[c].issuer
                                /\ ucBinding[c].status = "revoked" => ucBinding'[c].status = "revoked"
      BY <2>2, <2>3 DEF Written
    <2> QED
      BY <2>4 DEF IssuerPinned, RevocationSurvives
  <1>9. ASSUME NEW b \in UcBindings, NEW i \in Stamps, CreateMaterial(b, i) PROVE IssuerPinned /\ RevocationSurvives
    BY <1>t, <1>2, <1>9 DEF CreateMaterial
  <1>10. ASSUME NEW t \in UcTasks, NEW b \in UcBindings, StartCreates(t, b) PROVE IssuerPinned /\ RevocationSurvives
    BY <1>t, <1>2, <1>10 DEF StartCreates
  <1>11. CASE UNCHANGED ucVars
    BY <1>11
  <1>12. ASSUME UcNext, ucBinding' # ucBinding PROVE IssuerPinned /\ RevocationSurvives
    BY <1>3, <1>4, <1>5, <1>6, <1>7, <1>8, <1>9, <1>10, <1>12
    DEF UcNext, AttachBinding, StartReplayExpires, StartReuses, StartRefused, CompleteFails, UseRead, UseToken,
        RefreshFails, RevokeRead, RotateRead, CompleteRead, StartRead
  <1> QED
    BY <1>1, <1>11, <1>12

(* For any bindings, flows and requests: headers_for_server sends a token    *)
(* only under the issuer declared for it; no rotation or authorisation       *)
(* replaces the issuer it has seen, and none that found a binding active     *)
(* brings it back from a revocation.                                         *)
THEOREM UpstreamCredentialsCorrect == UcSpec => CredentialsSound
  <1>1. UcInv => TokenSentUnderItsIssuer
    BY DEF UcInv
  <1> QED
    BY <1>1, UcInitInv, UcStepInv, UcStepPinned, PTL DEF UcSpec, CredentialsSound

-----------------------------------------------------------------------------
(* Published and indexed generations (CatalogueGenerations)                *)

(* One request builds at a time, and no index of the catalogue it builds   *)
(* is ready meanwhile.                                                     *)
BuildsAlone ==
    /\ \A a, b \in CgBuilders : ixTask[a].op = "build" /\ ixTask[b].op = "build" => a = b
    /\ \A b \in CgBuilders : ixTask[b].op = "build" =>
         \A g \in CgGens : ixGen[g].status = "ready" => ixGen[g].hash # ixTask[b].hash

(* What a request on the projection has read, and what it may have missed  *)
(* since: another commit, which then knew of it.                           *)
ServesRead(k) ==
    k.op = "serve" =>
        /\ k.target \notin k.current /\ pjGen[k.target].status # "none"
        /\ k.seen.status \in {"candidate", "superseded", "active"}
        /\ k.seen.status = "active" => k.current = {}
        /\ ~k.overtaken => Served \ {k.target} \subseteq k.current /\ pjGen[k.target].refresh = k.seen.refresh
        /\ \A h \in Served : h \notin k.current /\ h # k.target => pjGen[h].raced

ReadsKept == \A b \in CgBuilders : /\ ServesRead(pjTask[b])
                                   /\ pjTask[b].op = "verify" => pjGen[pjTask[b].target].status # "none"

CgInv == CgTypeOK /\ ReadsKept /\ BuildsAlone /\ GenerationsSound

(* What an index task carries: the hash it builds, or the generation it will *)
(* activate.                                                                 *)
LEMMA CgTaskFields ==
    ASSUME CgTypeOK, NEW b \in CgBuilders
    PROVE  /\ ixTask[b].op = "build" => ixTask[b].hash \in CgHashes
           /\ ixTask[b].op = "activate" => ixTask[b].target \in CgGens
  BY DEF CgTypeOK, Builder

(* What a request on the projection carries.                                 *)
LEMMA PjTaskFields ==
    ASSUME CgTypeOK, NEW b \in CgBuilders
    PROVE  /\ pjTask[b].op \in {"idle", "serve", "verify"}
           /\ pjTask[b].op # "idle" => /\ pjTask[b].target \in CgGens /\ pjTask[b].seen \in Projection
                                       /\ pjTask[b].overtaken \in BOOLEAN
           /\ pjTask[b].op = "serve" => pjTask[b].current \in SUBSET CgGens
  BY DEF CgTypeOK, Operator

(* A request that another one overtakes has read what it had read.           *)
LEMMA PjOvertaken ==
    ASSUME NEW k \in Operator, k.op # "idle", NEW m, m = [k EXCEPT !.overtaken = TRUE]
    PROVE  /\ m \in Operator /\ m.op = k.op /\ m.target = k.target /\ m.seen = k.seen /\ m.overtaken = TRUE
           /\ k.op = "serve" => m.current = k.current
  <1>1. CASE k.op = "serve"
    <2>1. k \in [op : {"serve"}, target : CgGens, seen : Projection, current : SUBSET CgGens, overtaken : BOOLEAN]
      BY <1>1 DEF Operator
    <2>2. m \in [op : {"serve"}, target : CgGens, seen : Projection, current : SUBSET CgGens, overtaken : BOOLEAN]
      BY <2>1
    <2>3. m.op = k.op /\ m.target = k.target /\ m.seen = k.seen /\ m.overtaken = TRUE /\ m.current = k.current
      BY <2>1
    <2> QED
      BY <2>2, <2>3 DEF Operator
  <1>2. CASE k.op = "verify"
    <2>1. k \in [op : {"verify"}, target : CgGens, seen : Projection, overtaken : BOOLEAN]
      BY <1>2 DEF Operator
    <2>2. m \in [op : {"verify"}, target : CgGens, seen : Projection, overtaken : BOOLEAN]
      BY <2>1
    <2>3. m.op = k.op /\ m.target = k.target /\ m.seen = k.seen /\ m.overtaken = TRUE
      BY <2>1
    <2> QED
      BY <1>2, <2>2, <2>3 DEF Operator
  <1>3. k.op = "serve" \/ k.op = "verify"
    BY DEF Operator
  <1> QED
    BY <1>1, <1>2, <1>3

(* The commit of one request leaves the others overtaken.                    *)
LEMMA PjCommitted ==
    ASSUME CgTypeOK, NEW b \in CgBuilders, CommitTask(b)
    PROVE  /\ pjTask' \in [CgBuilders -> Operator]
           /\ pjTask'[b].op = "idle"
           /\ \A c \in CgBuilders \ {b} :
                /\ pjTask'[c].op = pjTask[c].op
                /\ pjTask[c].op # "idle" => /\ pjTask'[c].target = pjTask[c].target
                                            /\ pjTask'[c].seen = pjTask[c].seen
                                            /\ pjTask'[c].overtaken = TRUE
                /\ pjTask[c].op = "serve" => pjTask'[c].current = pjTask[c].current
  <1>1. [op |-> "idle"] \in Operator /\ [op |-> "idle"].op = "idle"
    BY DEF Operator
  <1>2. \A c \in CgBuilders : pjTask[c] \in Operator
    BY DEF CgTypeOK
  <1>3. pjTask'[b].op = "idle" /\ pjTask'[b] \in Operator
    BY <1>1 DEF CommitTask
  <1>4. ASSUME NEW c \in CgBuilders \ {b}
        PROVE  /\ pjTask'[c] \in Operator /\ pjTask'[c].op = pjTask[c].op
               /\ pjTask[c].op # "idle" => /\ pjTask'[c].target = pjTask[c].target
                                           /\ pjTask'[c].seen = pjTask[c].seen
                                           /\ pjTask'[c].overtaken = TRUE
               /\ pjTask[c].op = "serve" => pjTask'[c].current = pjTask[c].current
    <2>1. CASE pjTask[c].op = "idle"
      BY <1>2, <2>1 DEF CommitTask
    <2>2. CASE pjTask[c].op # "idle"
      <3>1. pjTask'[c] = [pjTask[c] EXCEPT !.overtaken = TRUE]
        BY <2>2 DEF CommitTask
      <3>2. pjTask[c] \in Operator
        BY <1>2
      <3> QED
        BY <2>2, <3>1, <3>2, PjOvertaken
    <2> QED
      BY <2>1, <2>2
  <1> QED
    BY <1>3, <1>4 DEF CommitTask

(* The commit of a publication or a rollback.                                *)
LEMMA PjServe ==
    ASSUME CgInv, NEW b \in CgBuilders, ServeCommit(b)
    PROVE  CgInv'
  <1>0. CgTypeOK /\ ReadsKept /\ BuildsAlone /\ OneGenerationServed /\ SomethingServed /\ VerifiedSincePublished
        /\ OneReadyIndexPerCatalogue
    BY DEF CgInv, GenerationsSound
  <1>1. pjTask[b].op = "serve"
    BY DEF ServeCommit
  <1>2. PICK t \in CgGens, w \in Projection, cur \in SUBSET CgGens :
           t = pjTask[b].target /\ w = pjTask[b].seen /\ cur = pjTask[b].current
    BY <1>0, <1>1, PjTaskFields
  <1>3. /\ t \notin cur /\ pjGen[t].status # "none"
        /\ w.status \in {"candidate", "superseded", "active"}
        /\ w.status = "active" => cur = {}
        /\ ~pjTask[b].overtaken => Served \ {t} \subseteq cur /\ pjGen[t].refresh = w.refresh
        /\ \A h \in Served : h \notin cur /\ h # t => pjGen[h].raced
    BY <1>0, <1>1, <1>2 DEF ReadsKept, ServesRead
  <1>4. \A g \in CgGens : pjGen[g] \in Projection
    BY <1>0 DEF CgTypeOK
  <1>5. PICK o \in BOOLEAN : o = Overlapped(b)
    BY <1>0, <1>1, PjTaskFields DEF Overlapped
  <1>6. PICK st : st = Flushed(w.status, "active", pjGen[t].status)
    OBVIOUS
  <1>7. PICK rf : rf = Flushed(w.refresh, "pending", pjGen[t].refresh)
    OBVIOUS
  <1>8. /\ st \in {"active", pjGen[t].status} /\ (w.status # "active" => st = "active")
        /\ (w.status = "active" => st = pjGen[t].status)
        /\ rf \in {"pending", pjGen[t].refresh} /\ (rf = "verified" => w.refresh = "pending" /\ pjGen[t].refresh = "verified")
    BY <1>6, <1>7 DEF Flushed
  <1>9. pjGen' = [g \in CgGens |->
               IF g = t
               THEN [pjGen[g] EXCEPT !.status = st, !.refresh = rf, !.since = FALSE, !.raced = o]
               ELSE IF g \in cur THEN [pjGen[g] EXCEPT !.status = "superseded"]
               ELSE pjGen[g]]
    BY <1>2, <1>5, <1>6, <1>7 DEF ServeCommit
  <1>10. /\ pjGen'[t] \in Projection /\ pjGen'[t].status = st /\ pjGen'[t].refresh = rf /\ pjGen'[t].raced = o
    <2>1. pjGen'[t] = [pjGen[t] EXCEPT !.status = st, !.refresh = rf, !.since = FALSE, !.raced = o]
      BY <1>9
    <2>2. pjGen[t] \in Projection
      BY <1>4
    <2>3. st \in {"none", "candidate", "active", "superseded"} /\ rf \in {"not_required", "pending", "verified"}
      BY <1>8, <2>2 DEF Projection
    <2> QED
      BY <1>5, <2>1, <2>2, <2>3 DEF Projection
  <1>11. ASSUME NEW g \in CgGens, g # t, g \in cur
         PROVE  pjGen'[g] \in Projection /\ pjGen'[g].status = "superseded" /\ pjGen'[g].refresh = pjGen[g].refresh
                /\ pjGen'[g].raced = pjGen[g].raced /\ pjGen'[g].since = pjGen[g].since
    <2>1. pjGen'[g] = [pjGen[g] EXCEPT !.status = "superseded"]
      BY <1>9, <1>11
    <2>2. pjGen[g] \in Projection
      BY <1>4
    <2> QED
      BY <2>1, <2>2 DEF Projection
  <1>12. ASSUME NEW g \in CgGens, g # t, g \notin cur PROVE pjGen'[g] = pjGen[g]
    BY <1>9, <1>12
  <1>13. pjGen' \in [CgGens -> Projection]
    BY <1>4, <1>9, <1>10, <1>11, <1>12
  <1>14. \A h \in Served' : h = t \/ (h \in Served /\ h \notin cur /\ pjGen'[h] = pjGen[h])
    BY <1>10, <1>11, <1>12 DEF Served
  <1>15. /\ pjTask' \in [CgBuilders -> Operator]
         /\ pjTask'[b].op = "idle"
         /\ \A c \in CgBuilders \ {b} :
                /\ pjTask'[c].op = pjTask[c].op
                /\ pjTask[c].op # "idle" => /\ pjTask'[c].target = pjTask[c].target
                                            /\ pjTask'[c].seen = pjTask[c].seen
                                            /\ pjTask'[c].overtaken = TRUE
                /\ pjTask[c].op = "serve" => pjTask'[c].current = pjTask[c].current
    BY <1>0, PjCommitted DEF ServeCommit
  <1>16. CgTypeOK'
    BY <1>0, <1>13, <1>15 DEF ServeCommit, CgTypeOK, ixVars
  <1>17. OneGenerationServed'
    <2>1. ASSUME NEW h \in Served', h # t PROVE pjGen'[h].raced /\ (t \in Served' => pjGen'[t].raced)
      <3>1. h \in Served /\ h \notin cur /\ pjGen'[h] = pjGen[h]
        BY <1>14, <2>1
      <3>2. pjTask[b].overtaken
        BY <1>3, <2>1, <3>1
      <3>3. o
        BY <1>5, <3>2 DEF Overlapped
      <3> QED
        BY <1>3, <1>10, <2>1, <3>1, <3>3
    <2> QED
      BY <2>1 DEF OneGenerationServed
  <1>18. SomethingServed'
    <2>1. CASE w.status # "active"
      BY <1>8, <1>10, <2>1 DEF SomethingServed, Served
    <2>2. CASE w.status = "active"
      <3>1. \A g \in CgGens : pjGen'[g].status = pjGen[g].status
        BY <1>3, <1>8, <1>10, <1>12, <2>2
      <3> QED
        BY <1>0, <3>1 DEF SomethingServed, Served
    <2> QED
      BY <2>1, <2>2
  <1>19. VerifiedSincePublished'
    <2>1. ASSUME NEW g \in CgGens, pjGen'[g].refresh = "verified" PROVE pjGen'[g].since \/ pjGen'[g].raced
      <3>1. CASE g = t
        <4>1. w.refresh = "pending" /\ pjGen[t].refresh = "verified"
          BY <1>8, <1>10, <2>1, <3>1
        <4>2. pjTask[b].overtaken
          BY <1>3, <4>1
        <4>3. o
          BY <1>5, <4>2 DEF Overlapped
        <4> QED
          BY <1>10, <3>1, <4>3
      <3>2. CASE g # t /\ g \in cur
        BY <1>0, <1>11, <2>1, <3>2 DEF VerifiedSincePublished
      <3>3. CASE g # t /\ g \notin cur
        BY <1>0, <1>12, <2>1, <3>3 DEF VerifiedSincePublished
      <3> QED
        BY <3>1, <3>2, <3>3
    <2> QED
      BY <2>1 DEF VerifiedSincePublished
  <1>20. BuildsAlone' /\ OneReadyIndexPerCatalogue'
    BY <1>0 DEF ServeCommit, ixVars, BuildsAlone, OneReadyIndexPerCatalogue
  <1>21. \A g \in CgGens : pjGen[g].status # "none" => pjGen'[g].status # "none"
    BY <1>8, <1>10, <1>11, <1>12
  <1>22. ASSUME NEW c \in CgBuilders, c # b, pjTask[c].op = "serve" PROVE ServesRead(pjTask[c])'
    <2>1. PICK u \in CgGens, v \in Projection, uc \in SUBSET CgGens :
             u = pjTask[c].target /\ v = pjTask[c].seen /\ uc = pjTask[c].current
      BY <1>0, <1>22, PjTaskFields
    <2>2. /\ u \notin uc /\ pjGen[u].status # "none"
          /\ v.status \in {"candidate", "superseded", "active"}
          /\ v.status = "active" => uc = {}
          /\ ~pjTask[c].overtaken => Served \ {u} \subseteq uc
          /\ \A h \in Served : h \notin uc /\ h # u => pjGen[h].raced
      BY <1>0, <1>22, <2>1 DEF ReadsKept, ServesRead
    <2>3. o
      BY <1>5, <1>22 DEF Overlapped
    <2>4. \A h \in Served' : h \notin uc /\ h # u => pjGen'[h].raced
      BY <1>10, <1>14, <2>2, <2>3
    <2>5. /\ pjTask'[c].op = "serve" /\ pjTask'[c].target = u /\ pjTask'[c].seen = v /\ pjTask'[c].current = uc
          /\ pjTask'[c].overtaken
      BY <1>15, <1>22, <2>1
    <2> QED
      BY <1>21, <2>1, <2>2, <2>4, <2>5 DEF ServesRead
  <1>23. ReadsKept'
    <2>1. ASSUME NEW c \in CgBuilders
          PROVE  ServesRead(pjTask[c])' /\ (pjTask'[c].op = "verify" => pjGen'[pjTask'[c].target].status # "none")
      <3>1. CASE c = b
        BY <1>15, <3>1 DEF ServesRead
      <3>2. CASE c # b /\ pjTask[c].op = "serve"
        BY <1>15, <1>22, <3>2
      <3>3. CASE c # b /\ pjTask[c].op = "verify"
        <4>1. pjTask[c].target \in CgGens /\ pjGen[pjTask[c].target].status # "none"
          BY <1>0, <3>3, PjTaskFields DEF ReadsKept
        <4> QED
          BY <1>15, <1>21, <3>3, <4>1 DEF ServesRead
      <3>4. CASE c # b /\ pjTask[c].op = "idle"
        BY <1>15, <3>4 DEF ServesRead
      <3> QED
        BY <1>0, <3>1, <3>2, <3>3, <3>4, PjTaskFields
    <2> QED
      BY <2>1 DEF ReadsKept
  <1> QED
    BY <1>16, <1>17, <1>18, <1>19, <1>20, <1>23 DEF CgInv, GenerationsSound

(* The commit of a verification.                                             *)
LEMMA PjVerify ==
    ASSUME CgInv, NEW b \in CgBuilders, VerifyCommit(b)
    PROVE  CgInv'
  <1>0. CgTypeOK /\ ReadsKept /\ BuildsAlone /\ OneGenerationServed /\ SomethingServed /\ VerifiedSincePublished
        /\ OneReadyIndexPerCatalogue
    BY DEF CgInv, GenerationsSound
  <1>1. pjTask[b].op = "verify"
    BY DEF VerifyCommit
  <1>2. PICK t \in CgGens, w \in Projection, ov \in BOOLEAN :
           t = pjTask[b].target /\ w = pjTask[b].seen /\ ov = pjTask[b].overtaken
    BY <1>0, <1>1, PjTaskFields
  <1>4. \A g \in CgGens : pjGen[g] \in Projection
    BY <1>0 DEF CgTypeOK
  <1>5. PICK o \in BOOLEAN : o = (pjGen[t].raced \/ Overlapped(b))
    BY <1>0, <1>1, PjTaskFields DEF Overlapped
  <1>6. PICK rf : rf = Flushed(w.refresh, "verified", pjGen[t].refresh)
    OBVIOUS
  <1>7. rf \in {"verified", pjGen[t].refresh}
    BY <1>6 DEF Flushed
  <1>8. PICK n \in BOOLEAN : n = ~ov
    OBVIOUS
  <1>9. pjGen' = [pjGen EXCEPT ![t] = [pjGen[t] EXCEPT !.refresh = rf, !.since = n, !.raced = o]]
    BY <1>0, <1>2, <1>5, <1>6, <1>8 DEF VerifyCommit, CgTypeOK
  <1>10. /\ pjGen'[t] \in Projection /\ pjGen'[t].status = pjGen[t].status /\ pjGen'[t].raced = o /\ pjGen'[t].since = n
    <2>1. pjGen'[t] = [pjGen[t] EXCEPT !.refresh = rf, !.since = n, !.raced = o]
      BY <1>0, <1>9 DEF CgTypeOK
    <2>2. pjGen[t] \in Projection
      BY <1>4
    <2>3. rf \in {"not_required", "pending", "verified"}
      BY <1>7, <2>2 DEF Projection
    <2> QED
      BY <1>5, <1>8, <2>1, <2>2, <2>3 DEF Projection
  <1>12. \A g \in CgGens : g # t => pjGen'[g] = pjGen[g]
    BY <1>0, <1>9 DEF CgTypeOK
  <1>13. pjGen' \in [CgGens -> Projection]
    BY <1>0, <1>9, <1>10, <1>12 DEF CgTypeOK
  <1>14. Served' = Served /\ \A h \in CgGens : pjGen[h].raced => pjGen'[h].raced
    BY <1>5, <1>10, <1>12 DEF Served
  <1>15. /\ pjTask' \in [CgBuilders -> Operator]
         /\ pjTask'[b].op = "idle"
         /\ \A c \in CgBuilders \ {b} :
                /\ pjTask'[c].op = pjTask[c].op
                /\ pjTask[c].op # "idle" => /\ pjTask'[c].target = pjTask[c].target
                                            /\ pjTask'[c].seen = pjTask[c].seen
                                            /\ pjTask'[c].overtaken = TRUE
                /\ pjTask[c].op = "serve" => pjTask'[c].current = pjTask[c].current
    BY <1>0, PjCommitted DEF VerifyCommit
  <1>16. CgTypeOK'
    BY <1>0, <1>13, <1>15 DEF VerifyCommit, CgTypeOK, ixVars
  <1>17. OneGenerationServed'
    BY <1>0, <1>14 DEF OneGenerationServed, Served
  <1>18. SomethingServed'
    BY <1>0, <1>10, <1>12, <1>14 DEF SomethingServed
  <1>19. VerifiedSincePublished'
    <2>1. ov => o
      BY <1>2, <1>5 DEF Overlapped
    <2>2. pjGen'[t].since \/ pjGen'[t].raced
      BY <1>8, <1>10, <2>1
    <2> QED
      BY <1>0, <1>12, <2>2 DEF VerifiedSincePublished
  <1>20. BuildsAlone' /\ OneReadyIndexPerCatalogue'
    BY <1>0 DEF VerifyCommit, ixVars, BuildsAlone, OneReadyIndexPerCatalogue
  <1>21. \A g \in CgGens : pjGen'[g].status = pjGen[g].status
    BY <1>10, <1>12
  <1>23. ReadsKept'
    <2>1. ASSUME NEW c \in CgBuilders
          PROVE  ServesRead(pjTask[c])' /\ (pjTask'[c].op = "verify" => pjGen'[pjTask'[c].target].status # "none")
      <3>1. CASE c = b
        BY <1>15, <3>1 DEF ServesRead
      <3>2. CASE c # b /\ pjTask[c].op = "serve"
        <4>1. PICK u \in CgGens, v \in Projection, uc \in SUBSET CgGens :
                 u = pjTask[c].target /\ v = pjTask[c].seen /\ uc = pjTask[c].current
          BY <1>0, <3>2, PjTaskFields
        <4>2. /\ u \notin uc /\ pjGen[u].status # "none"
              /\ v.status \in {"candidate", "superseded", "active"}
              /\ v.status = "active" => uc = {}
              /\ \A h \in Served : h \notin uc /\ h # u => pjGen[h].raced
          BY <1>0, <3>2, <4>1 DEF ReadsKept, ServesRead
        <4>3. /\ pjTask'[c].op = "serve" /\ pjTask'[c].target = u /\ pjTask'[c].seen = v /\ pjTask'[c].current = uc
              /\ pjTask'[c].overtaken
          BY <1>15, <3>2, <4>1
        <4>4. \A h \in Served' : h \notin uc /\ h # u => pjGen'[h].raced
          BY <1>14, <4>2 DEF Served
        <4> QED
          BY <1>21, <4>1, <4>2, <4>3, <4>4 DEF ServesRead
      <3>3. CASE c # b /\ pjTask[c].op = "verify"
        <4>1. pjTask[c].target \in CgGens /\ pjGen[pjTask[c].target].status # "none"
          BY <1>0, <3>3, PjTaskFields DEF ReadsKept
        <4> QED
          BY <1>15, <1>21, <3>3, <4>1 DEF ServesRead
      <3>4. CASE c # b /\ pjTask[c].op = "idle"
        BY <1>15, <3>4 DEF ServesRead
      <3> QED
        BY <1>0, <3>1, <3>2, <3>3, <3>4, PjTaskFields
    <2> QED
      BY <2>1 DEF ReadsKept
  <1> QED
    BY <1>16, <1>17, <1>18, <1>19, <1>20, <1>23 DEF CgInv, GenerationsSound

(* The first state has no generation.                                        *)
LEMMA CgInitInv == CgInit => CgInv
  <1> SUFFICES ASSUME CgInit PROVE CgInv
    OBVIOUS
  <1>1. PICK h \in CgHashes :
        /\ cgLive = [hash |-> h, sound |-> TRUE]
        /\ pjGen = [g \in CgGens |-> NoProjection]
        /\ pjTask = [b \in CgBuilders |-> [op |-> "idle"]]
        /\ ixGen = [g \in CgGens |-> [status |-> "none", hash |-> h]]
        /\ ixTask = [b \in CgBuilders |-> [op |-> "idle"]]
    BY DEF CgInit
  <1>2. cgLive \in [hash : CgHashes, sound : BOOLEAN]
    BY <1>1
  <1>3. pjGen \in [CgGens -> Projection] /\ ixGen \in [CgGens -> IndexRow]
    BY <1>1 DEF NoProjection, Projection, IndexRow
  <1>4. ixTask \in [CgBuilders -> Builder] /\ pjTask \in [CgBuilders -> Operator]
    BY <1>1 DEF Builder, Operator
  <1>5. CgTypeOK
    BY <1>2, <1>3, <1>4 DEF CgTypeOK
  <1>6. Served = {}
    BY <1>1 DEF Served, NoProjection
  <1>7. OneGenerationServed /\ SomethingServed /\ VerifiedSincePublished
    BY <1>1, <1>6 DEF OneGenerationServed, SomethingServed, VerifiedSincePublished, NoProjection
  <1>8. BuildsAlone /\ ReadsKept /\ OneReadyIndexPerCatalogue
    BY <1>1 DEF BuildsAlone, ReadsKept, ServesRead, OneReadyIndexPerCatalogue
  <1> QED
    BY <1>5, <1>7, <1>8 DEF CgInv, GenerationsSound

(* Every step of publishing, verifying, indexing and activating keeps the    *)
(* invariant.                                                                *)
LEMMA CgStepInv ==
    ASSUME CgInv, [CgNext]_cgVars
    PROVE  CgInv'
  <1>0. CgTypeOK /\ ReadsKept /\ BuildsAlone /\ OneGenerationServed /\ SomethingServed /\ VerifiedSincePublished
        /\ OneReadyIndexPerCatalogue
    BY DEF CgInv, GenerationsSound
  <1>t. /\ cgLive \in [hash : CgHashes, sound : BOOLEAN]
        /\ pjGen \in [CgGens -> Projection]
        /\ pjTask \in [CgBuilders -> Operator]
        /\ ixGen \in [CgGens -> IndexRow]
        /\ ixTask \in [CgBuilders -> Builder]
    BY <1>0 DEF CgTypeOK
  <1>p. ASSUME pjVars' = pjVars
        PROVE  /\ ReadsKept' /\ OneGenerationServed' /\ SomethingServed' /\ VerifiedSincePublished'
               /\ pjGen' \in [CgGens -> Projection] /\ pjTask' \in [CgBuilders -> Operator]
    <2>1. pjGen' = pjGen /\ pjTask' = pjTask
      BY <1>p DEF pjVars
    <2>2. Served' = Served
      BY <2>1 DEF Served
    <2>3. ReadsKept'
      BY <1>0, <2>1, <2>2 DEF ReadsKept, ServesRead
    <2> QED
      BY <1>0, <1>t, <2>1, <2>2, <2>3 DEF OneGenerationServed, SomethingServed, VerifiedSincePublished
  <1>x. ASSUME ixVars' = ixVars PROVE /\ BuildsAlone' /\ OneReadyIndexPerCatalogue'
                                      /\ ixGen' \in [CgGens -> IndexRow] /\ ixTask' \in [CgBuilders -> Builder]
    BY <1>0, <1>t, <1>x DEF ixVars, BuildsAlone, OneReadyIndexPerCatalogue
  <1>1. CASE UNCHANGED cgVars
    BY <1>t, <1>p, <1>x, <1>1 DEF cgVars, CgInv, CgTypeOK, GenerationsSound
  <1>2. CASE CatalogueChanges
    <2>1. cgLive' \in [hash : CgHashes, sound : BOOLEAN]
      BY <1>2 DEF CatalogueChanges
    <2> QED
      BY <1>t, <1>p, <1>x, <1>2, <2>1 DEF CatalogueChanges, CgInv, CgTypeOK, GenerationsSound
  <1>3. ASSUME NEW g \in CgGens, CreateCandidate(g) PROVE CgInv'
    <2>1. PICK n : n = [NoProjection EXCEPT !.status = "candidate"]
      OBVIOUS
    <2>2. n \in Projection /\ n.status = "candidate" /\ n.refresh = "not_required"
      BY <2>1 DEF NoProjection, Projection
    <2>3. pjGen' \in [CgGens -> Projection] /\ pjGen'[g] = n /\ \A h \in CgGens : h # g => pjGen'[h] = pjGen[h]
      BY <1>t, <1>3, <2>1, <2>2 DEF CreateCandidate
    <2>4. pjGen[g].status = "none" /\ pjTask' = pjTask
      BY <1>3 DEF CreateCandidate
    <2>5. Served' = Served /\ g \notin Served
      BY <2>2, <2>3, <2>4 DEF Served
    <2>6. OneGenerationServed'
      BY <1>0, <2>3, <2>5 DEF OneGenerationServed, Served
    <2>7. SomethingServed' /\ VerifiedSincePublished'
      BY <1>0, <2>2, <2>3, <2>5 DEF SomethingServed, VerifiedSincePublished
    <2>8. ReadsKept'
      <3>1. ASSUME NEW c \in CgBuilders, pjTask[c].op = "serve" PROVE ServesRead(pjTask[c])'
        <4>1. PICK u \in CgGens : u = pjTask[c].target
          BY <1>0, <3>1, PjTaskFields
        <4>2. ServesRead(pjTask[c])
          BY <1>0 DEF ReadsKept
        <4>3. u # g
          BY <2>4, <3>1, <4>1, <4>2 DEF ServesRead
        <4>4. \A h \in Served : h \in CgGens /\ h # g
          BY <2>5 DEF Served
        <4> QED
          BY <2>3, <2>4, <2>5, <3>1, <4>1, <4>2, <4>3, <4>4 DEF ServesRead
      <3>2. ASSUME NEW c \in CgBuilders, pjTask[c].op = "verify" PROVE pjGen'[pjTask[c].target].status # "none"
        BY <1>0, <2>2, <2>3, <3>2, PjTaskFields DEF ReadsKept
      <3> QED
        BY <2>4, <3>1, <3>2 DEF ReadsKept, ServesRead
    <2> QED
      BY <1>t, <1>x, <1>3, <2>3, <2>4, <2>6, <2>7, <2>8 DEF CreateCandidate, CgInv, CgTypeOK, GenerationsSound
  <1>k. ASSUME NEW b \in CgBuilders, NEW k \in Operator, pjTask' = [pjTask EXCEPT ![b] = k], ServesRead(k),
               k.op = "verify" => pjGen[k.target].status # "none", UNCHANGED <<cgLive, pjGen, ixVars>>
        PROVE  CgInv'
    <2>1. pjTask' \in [CgBuilders -> Operator] /\ pjTask'[b] = k /\ \A c \in CgBuilders : c # b => pjTask'[c] = pjTask[c]
      BY <1>t, <1>k
    <2>2. Served' = Served /\ pjGen' = pjGen
      BY <1>k DEF Served
    <2>3. ReadsKept'
      BY <1>0, <1>k, <2>1, <2>2 DEF ReadsKept, ServesRead
    <2>4. OneGenerationServed' /\ SomethingServed' /\ VerifiedSincePublished'
      BY <1>0, <2>2 DEF OneGenerationServed, SomethingServed, VerifiedSincePublished
    <2> QED
      BY <1>t, <1>x, <1>k, <2>1, <2>2, <2>3, <2>4 DEF CgInv, CgTypeOK, GenerationsSound
  <1>4. ASSUME NEW b \in CgBuilders, NEW g \in CgGens, ServeRead(b, g) PROVE CgInv'
    <2>1. PICK r \in Projection : r = pjGen[g]
      BY <1>t
    <2>2. PICK cur \in SUBSET CgGens : cur = Served \ {g}
      BY DEF Served
    <2>3. PICK k : k = [op |-> "serve", target |-> g, seen |-> r, current |-> cur, overtaken |-> FALSE]
      OBVIOUS
    <2>4. k \in Operator /\ k.op = "serve" /\ k.target = g /\ k.seen = r /\ k.current = cur /\ k.overtaken = FALSE
      BY <2>3 DEF Operator
    <2>5. r.status \in {"candidate", "superseded", "active"} /\ Unambiguous
      BY <1>4, <2>1 DEF ServeRead
    <2>6. r.status = "active" => cur = {}
      BY <2>1, <2>2, <2>5 DEF Unambiguous, Served
    <2>7. \A h \in Served : h \notin cur /\ h # g => pjGen[h].raced
      BY <2>2
    <2>8. ServesRead(k)
      BY <2>1, <2>2, <2>4, <2>5, <2>6, <2>7 DEF ServesRead
    <2>9. pjTask' = [pjTask EXCEPT ![b] = k]
      BY <1>4, <2>1, <2>2, <2>3 DEF ServeRead, Replaces
    <2> QED
      BY <1>4, <1>k, <2>4, <2>8, <2>9 DEF ServeRead
  <1>5. ASSUME NEW b \in CgBuilders, NEW g \in CgGens, VerifyRead(b, g) PROVE CgInv'
    <2>1. PICK r \in Projection : r = pjGen[g]
      BY <1>t
    <2>3. PICK k : k = [op |-> "verify", target |-> g, seen |-> r, overtaken |-> FALSE]
      OBVIOUS
    <2>4. k \in Operator /\ k.op = "verify" /\ k.target = g
      BY <2>3 DEF Operator
    <2>8. ServesRead(k) /\ pjGen[k.target].status # "none"
      BY <1>5, <2>4 DEF ServesRead, VerifyRead
    <2>9. pjTask' = [pjTask EXCEPT ![b] = k]
      BY <1>5, <2>1, <2>3 DEF VerifyRead
    <2> QED
      BY <1>5, <1>k, <2>4, <2>8, <2>9 DEF VerifyRead
  <1>a. ASSUME NEW b \in CgBuilders, PjAborts(b) PROVE CgInv'
    <2>1. PICK k : k = [op |-> "idle"]
      OBVIOUS
    <2>2. k \in Operator /\ k.op = "idle"
      BY <2>1 DEF Operator
    <2>3. ServesRead(k)
      BY <2>2 DEF ServesRead
    <2> QED
      BY <1>a, <1>k, <2>1, <2>2, <2>3 DEF PjAborts
  <1>6. ASSUME NEW b \in CgBuilders, BuildRead(b) PROVE CgInv'
    <2> DEFINE k == [op |-> "build", hash |-> cgLive.hash]
    <2>1. k \in Builder /\ k.op = "build" /\ k.hash = cgLive.hash
      BY <1>t DEF Builder
    <2>2. ixTask' = [ixTask EXCEPT ![b] = k]
      BY <1>6 DEF BuildRead
    <2> HIDE DEF k
    <2>3. ixTask' \in [CgBuilders -> Builder] /\ ixTask'[b] = k /\ \A a \in CgBuilders : a # b => ixTask'[a] = ixTask[a]
      BY <1>t, <2>1, <2>2
    <2>4. BuildsAlone'
      BY <1>6, <2>1, <2>3 DEF BuildRead, BuildLock, Holds, BuildsAlone
    <2>5. OneReadyIndexPerCatalogue'
      BY <1>0, <1>6 DEF BuildRead, OneReadyIndexPerCatalogue
    <2> QED
      BY <1>t, <1>p, <1>6, <2>3, <2>4, <2>5 DEF BuildRead, CgInv, CgTypeOK, GenerationsSound
  <1>i. ASSUME NEW b \in CgBuilders, Idle(b)
        PROVE  ixTask' \in [CgBuilders -> Builder] /\ ixTask'[b].op = "idle"
               /\ \A a \in CgBuilders : a # b => ixTask'[a] = ixTask[a]
    <2>1. [op |-> "idle"] \in Builder
      BY DEF Builder
    <2> QED
      BY <1>t, <1>i, <2>1 DEF Idle
  <1>7. ASSUME NEW b \in CgBuilders, BuildCommit(b) PROVE CgInv'
    <2>1. PICK g \in CgGens : ixGen[g].status = "none"
                              /\ ixGen' = [ixGen EXCEPT ![g] = [status |-> "ready", hash |-> ixTask[b].hash]]
      BY <1>7 DEF BuildCommit
    <2>2. ixTask[b].op = "build" /\ ixTask[b].hash \in CgHashes
      BY <1>0, <1>7, CgTaskFields DEF BuildCommit
    <2>3. [status |-> "ready", hash |-> ixTask[b].hash] \in IndexRow
      BY <2>2 DEF IndexRow
    <2>4. /\ ixGen' \in [CgGens -> IndexRow]
          /\ ixGen'[g].status = "ready" /\ ixGen'[g].hash = ixTask[b].hash
          /\ \A h \in CgGens : h # g => ixGen'[h] = ixGen[h]
      BY <1>t, <2>1, <2>3
    <2>5. ixTask' \in [CgBuilders -> Builder] /\ \A a \in CgBuilders : ixTask'[a].op # "build"
      BY <1>0, <1>7, <1>i, <2>2 DEF BuildCommit, BuildsAlone
    <2>6. BuildsAlone'
      BY <2>5 DEF BuildsAlone
    <2>7. OneReadyIndexPerCatalogue'
      BY <1>0, <2>2, <2>4 DEF BuildsAlone, OneReadyIndexPerCatalogue
    <2> QED
      BY <1>t, <1>p, <1>7, <2>4, <2>5, <2>6, <2>7 DEF BuildCommit, CgInv, CgTypeOK, GenerationsSound
  <1>8. ASSUME NEW b \in CgBuilders, BuildFails(b) PROVE CgInv'
    <2>1. ixTask' \in [CgBuilders -> Builder] /\ ixTask'[b].op = "idle"
          /\ \A a \in CgBuilders : a # b => ixTask'[a] = ixTask[a]
      BY <1>8, <1>i DEF BuildFails
    <2>2. BuildsAlone' /\ OneReadyIndexPerCatalogue'
      BY <1>0, <1>8, <2>1 DEF BuildFails, BuildsAlone, OneReadyIndexPerCatalogue
    <2> QED
      BY <1>t, <1>p, <1>8, <2>1, <2>2 DEF BuildFails, CgInv, CgTypeOK, GenerationsSound
  <1>9. ASSUME NEW b \in CgBuilders, NEW g \in CgGens, ActivateRead(b, g) PROVE CgInv'
    <2> DEFINE k == [op |-> "activate", target |-> g, current |-> {h \in CgGens : ixGen[h].status = "active"}]
    <2>1. k \in Builder /\ k.op = "activate"
      BY DEF Builder
    <2>2. ixTask' = [ixTask EXCEPT ![b] = k]
      BY <1>9 DEF ActivateRead
    <2> HIDE DEF k
    <2>3. ixTask' \in [CgBuilders -> Builder] /\ ixTask'[b] = k /\ \A a \in CgBuilders : a # b => ixTask'[a] = ixTask[a]
      BY <1>t, <2>1, <2>2
    <2>4. BuildsAlone' /\ OneReadyIndexPerCatalogue'
      BY <1>0, <1>9, <2>1, <2>3 DEF ActivateRead, BuildsAlone, OneReadyIndexPerCatalogue
    <2> QED
      BY <1>t, <1>p, <1>9, <2>3, <2>4 DEF ActivateRead, CgInv, CgTypeOK, GenerationsSound
  <1>10. ASSUME NEW b \in CgBuilders, ActivateCommit(b) PROVE CgInv'
    <2> DEFINE G == Activated(ixTask[b])
    <2>1. ASSUME NEW g \in CgGens
          PROVE  G[g] \in IndexRow /\ G[g].hash = ixGen[g].hash /\ (G[g].status = "ready" => ixGen[g].status = "ready")
      <3>1. ixGen[g] \in IndexRow
        BY <1>t
      <3> QED
        BY <3>1 DEF Activated, IndexRow
    <2>2. G \in [CgGens -> IndexRow]
      BY <2>1 DEF Activated
    <2>3. ixGen' = G \/ ixGen' = ixGen
      BY <1>10 DEF ActivateCommit
    <2> HIDE DEF G
    <2>4. ixGen' \in [CgGens -> IndexRow]
          /\ \A g \in CgGens : ixGen'[g].hash = ixGen[g].hash /\ (ixGen'[g].status = "ready" => ixGen[g].status = "ready")
      BY <1>t, <2>1, <2>2, <2>3
    <2>5. ixTask' \in [CgBuilders -> Builder] /\ ixTask'[b].op = "idle"
          /\ \A a \in CgBuilders : a # b => ixTask'[a] = ixTask[a]
      BY <1>10, <1>i DEF ActivateCommit
    <2>6. BuildsAlone' /\ OneReadyIndexPerCatalogue'
      BY <1>0, <2>4, <2>5 DEF BuildsAlone, OneReadyIndexPerCatalogue
    <2> QED
      BY <1>t, <1>p, <1>10, <2>4, <2>5, <2>6 DEF ActivateCommit, CgInv, CgTypeOK, GenerationsSound
  <1> QED
    BY <1>1, <1>2, <1>3, <1>4, <1>5, <1>6, <1>7, <1>8, <1>9, <1>10, <1>a, PjServe, PjVerify DEF CgNext, PjNext, IxNext

(* For any generations and requests: two generations are served only if      *)
(* their publications overlapped, one always is once one was, one that       *)
(* counts as verified was seen since it was published or raced, and a        *)
(* catalogue has one ready index (publish_generation, rollback_generation,   *)
(* record_projection_verification, build_index_generation).                  *)
THEOREM CatalogueGenerationsCorrect == CgSpec => []GenerationsSound
  <1>1. CgInv => GenerationsSound
    BY DEF CgInv
  <1> QED
    BY <1>1, CgInitInv, CgStepInv, PTL DEF CgSpec

-----------------------------------------------------------------------------
(* The matching of reservations (Reservations)                             *)

Segments == Names \cup Wild

\* A non-empty set of naturals has a least element.
LEMMA ResLeast ==
    ASSUME NEW T, T \subseteq Nat, T # {}
    PROVE  \E d \in T : \A e \in T : d <= e
  <1>1. PICK d \in T : \A e \in T : ~(<<e, d>> \in OpToRel(<, Nat))
    BY WFMin, NatLessThanWellFounded
  <1>2. \A e \in T : ~(e < d)
    BY <1>1 DEF OpToRel
  <1>3. d \in Nat /\ \A e \in T : e \in Nat
    BY <1>1
  <1>4. \A e \in T : d <= e
    BY <1>2, <1>3
  <1> QED BY <1>1, <1>4

\* A non-empty set of naturals below a bound has a greatest element.
LEMMA ResGreatest ==
    ASSUME NEW n \in Nat, NEW T, T \subseteq 0 .. n, T # {}
    PROVE  \E d \in T : \A e \in T : e <= d
  <1>1. PICK D : D = {n - x : x \in T}
    OBVIOUS
  <1>2. \A x \in T : x \in Nat /\ n - x \in Nat
    OBVIOUS
  <1>3. D \subseteq Nat /\ D # {}
    BY <1>1, <1>2
  <1>4. PICK d \in D : \A e \in D : d <= e
    BY <1>3, ResLeast
  <1>5. PICK m \in T : d = n - m
    BY <1>1, <1>4
  <1>6. ASSUME NEW y \in T PROVE y <= m
    <2>1. n - y \in D
      BY <1>1
    <2>2. n - m <= n - y
      BY <2>1, <1>4, <1>5
    <2> QED BY <2>2, <1>2, <1>5
  <1> QED BY <1>5, <1>6

\* A bounded sequence is a sequence.
LEMMA ResSequence ==
    ASSUME NEW S, NEW n \in Nat, NEW p \in UpTo(S, n)
    PROVE  p \in Seq(S) /\ Len(p) \in Nat /\ DOMAIN p = 1 .. Len(p) /\ \A i \in 1 .. Len(p) : p[i] \in S
  <1>1. PICK k \in 0 .. n : p \in [1 .. k -> S]
    BY DEF UpTo
  <1>2. k \in Nat
    BY <1>1
  <1>3. p \in Seq(S) /\ Len(p) = k
    BY <1>1, <1>2
  <1> QED BY <1>1, <1>2, <1>3

\* What is reserved: a path, or a glob with a wildcard (normalize_reservations).
LEMMA ResReserved ==
    ASSUME NEW r \in Reserved
    PROVE  /\ r.kind \in {"path", "glob"} /\ r.recursive \in BOOLEAN
           /\ r.pattern \in Seq(Segments)
           /\ r.kind = "glob" => IsWild(r.pattern)
           /\ r.kind = "glob" => r.recursive = FALSE
           /\ r.kind = "path" => r.pattern \in Seq(Names)
  <1>1. CASE \E p \in UpTo(Names, MaxSegments), rec \in BOOLEAN : r = Normalize("path", p, rec)
    <2>1. PICK p \in UpTo(Names, MaxSegments), rec \in BOOLEAN : r = Normalize("path", p, rec)
      BY <1>1
    <2>2. p \in Seq(Names)
      BY <2>1, ResSequence, ReservationAssumption
    <2>3. r.kind = "path" /\ r.pattern = p /\ r.recursive = rec
      BY <2>1 DEF Normalize
    <2> QED BY <2>1, <2>2, <2>3 DEF Segments
  <1>2. CASE \E p \in UpTo(Names \cup Wild, MaxSegments) : r = Normalize("glob", p, FALSE)
    <2>1. PICK p \in UpTo(Names \cup Wild, MaxSegments) : r = Normalize("glob", p, FALSE)
      BY <1>2
    <2>2. p \in Seq(Segments) /\ DOMAIN p = 1 .. Len(p) /\ Len(p) \in Nat /\ \A i \in 1 .. Len(p) : p[i] \in Segments
      BY <2>1, ResSequence, ReservationAssumption DEF Segments
    <2>3. /\ r.kind = IF IsWild(p) THEN "glob" ELSE "path"
          /\ r.pattern = p /\ r.recursive = FALSE
      BY <2>1 DEF Normalize
    <2>4. ~IsWild(p) => p \in Seq(Names)
      <3>1. ASSUME ~IsWild(p) PROVE \A i \in 1 .. Len(p) : p[i] \in Names
        BY <3>1, <2>2 DEF IsWild, Segments
      <3> QED BY <3>1, <2>2
    <2> QED BY <2>2, <2>3, <2>4
  <1>3. \/ \E p \in UpTo(Names, MaxSegments), rec \in BOOLEAN : r = Normalize("path", p, rec)
        \/ \E p \in UpTo(Names \cup Wild, MaxSegments) : r = Normalize("glob", p, FALSE)
    BY DEF Reserved, Normalize
  <1> QED BY <1>1, <1>2, <1>3

\* The fixed prefix of a pattern is as long as its segments before the first
\* wildcard (_glob_fixed_prefix).
LEMMA ResPrefix ==
    ASSUME NEW p \in Seq(Segments)
    PROVE  \E k \in 0 .. Len(p) :
              /\ GlobFixedPrefix(p) = SubSeq(p, 1, k)
              /\ \A i \in 1 .. k : p[i] \notin Wild
  <1>0. Len(p) \in Nat
    OBVIOUS
  <1>1. PICK fixed : fixed = {k \in 0 .. Len(p) : \A i \in 1 .. k : p[i] \notin Wild}
    OBVIOUS
  <1>2. 0 \in fixed /\ fixed \subseteq 0 .. Len(p)
    BY <1>0, <1>1
  <1>3. PICK m \in fixed : \A j \in fixed : j <= m
    BY <1>0, <1>2, ResGreatest
  <1>4. PICK k : k = CHOOSE c \in fixed : \A j \in fixed : j <= c
    OBVIOUS
  <1>5. k \in fixed
    BY <1>3, <1>4
  <1>6. GlobFixedPrefix(p) = SubSeq(p, 1, k)
    BY <1>1, <1>4 DEF GlobFixedPrefix
  <1> QED BY <1>5, <1>6, <1>1

\* A path that fnmatch lets through begins with the fixed prefix: a wildcard
\* takes segments only after the first one.
LEMMA ResMatchBegins ==
    ASSUME NEW path \in Seq(Names), NEW p \in Seq(Segments), NEW k \in 0 .. Len(p),
           \A i \in 1 .. k : p[i] \notin Wild, path # << >>, FnMatch(path, p)
    PROVE  k <= Len(path) /\ \A i \in 1 .. k : path[i] = p[i]
  <1>0. Len(path) \in Nat /\ Len(p) \in Nat /\ k \in Nat
    OBVIOUS
  <1>1. PICK cut \in [0 .. Len(p) -> 0 .. Len(path)] :
           /\ cut[0] = 0
           /\ \A i \in 1 .. Len(p) :
                 IF p[i] \in Wild THEN path[cut[i]] \in Class[p[i]]
                 ELSE cut[i] = cut[i - 1] + 1 /\ path[cut[i]] = p[i]
    BY DEF FnMatch
  <1>2. ASSUME NEW i \in 1 .. k PROVE cut[i] = cut[i - 1] + 1 /\ path[cut[i]] = p[i]
    <2>1. i \in 1 .. Len(p) /\ p[i] \notin Wild
      BY <1>0
    <2> QED BY <2>1, <1>1
  <1>o. PICK off : off = {i \in 0 .. k : cut[i] # i}
    OBVIOUS
  <1>3. off = {}
    <2>1. SUFFICES ASSUME off # {} PROVE FALSE
      OBVIOUS
    <2>2. off \subseteq Nat
      BY <1>0, <1>o
    <2>3. PICK m \in off : \A y \in off : m <= y
      BY <2>1, <2>2, ResLeast
    <2>4. m \in 0 .. k /\ cut[m] # m
      BY <2>3, <1>o
    <2>5. \A y \in off : m <= y
      BY <2>3
    <2>6. m # 0
      BY <2>4, <1>1
    <2>7. m - 1 \in 0 .. k /\ m - 1 \notin off /\ m \in 1 .. k
      BY <2>4, <2>5, <2>6, <1>0
    <2>8. cut[m - 1] = m - 1
      BY <2>7, <1>o
    <2>9. cut[m] = cut[m - 1] + 1
      BY <2>7, <1>2
    <2> QED BY <2>4, <2>7, <2>8, <2>9
  <1>4. \A i \in 0 .. k : cut[i] = i
    BY <1>3, <1>o
  <1>5. cut[k] \in 0 .. Len(path) /\ cut[k] = k
    BY <1>0, <1>1, <1>4
  <1>6. ASSUME NEW i \in 1 .. k PROVE path[i] = p[i]
    BY <1>2, <1>4, <1>0
  <1> QED BY <1>5, <1>6, <1>0

\* q is the beginning of s, segment by segment.
Begins(s, q) == Len(q) <= Len(s) /\ \A i \in 1 .. Len(q) : s[i] = q[i]

\* Two beginnings of one path begin with each other.
LEMMA ResBothBegin ==
    ASSUME NEW s \in Seq(Names), NEW p \in Seq(Names), NEW q \in Seq(Names),
           Begins(s, p), Begins(s, q), Len(q) <= Len(p)
    PROVE  Begins(p, q)
  <1>1. Len(p) \in Nat /\ Len(q) \in Nat
    OBVIOUS
  <1>2. ASSUME NEW i \in 1 .. Len(q) PROVE p[i] = q[i]
    <2>1. i \in 1 .. Len(p)
      BY <1>1
    <2> QED BY <2>1 DEF Begins
  <1> QED BY <1>2 DEF Begins

\* A whole directory is a beginning of the string: str.startswith accepts it.
LEMMA ResBeginsStarts ==
    ASSUME NEW p \in Seq(Names), NEW q \in Seq(Names), Begins(p, q)
    PROVE  StartsWith(p, q)
  <1>1. Len(p) \in Nat /\ Len(q) \in Nat /\ (q # << >> => Len(q) # 0)
    OBVIOUS
  <1>2. ASSUME q # << >> PROVE <<p[Len(q)], q[Len(q)]>> \in Starts
    <2>1. Len(q) \in 1 .. Len(q)
      BY <1>1, <1>2
    <2>2. p[Len(q)] = q[Len(q)] /\ q[Len(q)] \in Names
      BY <2>1 DEF Begins
    <2> QED BY <2>2, ReservationAssumption
  <1>3. ASSUME NEW i \in 1 .. (Len(q) - 1) PROVE p[i] = q[i]
    <2>1. i \in 1 .. Len(q)
      BY <1>1
    <2> QED BY <2>1 DEF Begins
  <1> QED BY <1>1, <1>2, <1>3 DEF StartsWith, Begins

\* A path lies below a directory when it begins with it and is longer.
LEMMA ResBeginsBelow ==
    ASSUME NEW p \in Seq(Names), NEW q \in Seq(Names)
    PROVE  Below(p, q) <=> Begins(p, q) /\ Len(p) > Len(q)
  <1>1. Len(p) \in Nat /\ Len(q) \in Nat
    OBVIOUS
  <1>2. ASSUME Len(q) <= Len(p)
        PROVE  /\ SubSeq(p, 1, Len(q)) \in Seq(Names) /\ Len(SubSeq(p, 1, Len(q))) = Len(q)
               /\ \A i \in 1 .. Len(q) : SubSeq(p, 1, Len(q))[i] = p[i]
    BY <1>1, <1>2
  <1>3. ASSUME Below(p, q) PROVE Begins(p, q) /\ Len(p) > Len(q)
    BY <1>1, <1>2, <1>3 DEF Below, Begins
  <1>4. ASSUME Begins(p, q), Len(p) > Len(q) PROVE Below(p, q)
    <2>1. \A i \in 1 .. Len(q) : SubSeq(p, 1, Len(q))[i] = q[i]
      BY <1>1, <1>2, <1>4 DEF Begins
    <2>2. SubSeq(p, 1, Len(q)) = q
      BY <1>1, <1>2, <1>4, <2>1 DEF Begins
    <2> QED BY <1>4, <2>2 DEF Below
  <1> QED BY <1>3, <1>4

\* A path that a glob covers begins with the fixed prefix of the glob.
LEMMA ResGlobBegins ==
    ASSUME NEW s \in Seq(Names), NEW pat \in Seq(Segments), FnMatch(s, pat)
    PROVE  /\ GlobFixedPrefix(pat) \in Seq(Names)
           /\ Begins(s, GlobFixedPrefix(pat))
           /\ s = << >> => GlobFixedPrefix(pat) = << >>
  <1>0. Len(pat) \in Nat
    OBVIOUS
  <1>1. PICK k \in 0 .. Len(pat) : /\ GlobFixedPrefix(pat) = SubSeq(pat, 1, k)
                                   /\ \A i \in 1 .. k : pat[i] \notin Wild
    BY ResPrefix
  <1>2. PICK q : q = GlobFixedPrefix(pat)
    OBVIOUS
  <1>3. q \in Seq(Segments) /\ Len(q) = k /\ \A i \in 1 .. k : q[i] = pat[i]
    BY <1>0, <1>1, <1>2
  <1>4. q \in Seq(Names)
    <2>1. ASSUME NEW i \in 1 .. k PROVE q[i] \in Names
      <3>1. q[i] \in Segments /\ q[i] \notin Wild
        BY <1>1, <1>3
      <3> QED BY <3>1 DEF Segments
    <2> QED BY <1>3, <2>1
  <1>5. CASE s # << >>
    <2>1. k <= Len(s) /\ \A i \in 1 .. k : s[i] = pat[i]
      BY <1>1, <1>5, ResMatchBegins
    <2> QED BY <2>1, <1>2, <1>3, <1>4, <1>5 DEF Begins
  <1>6. CASE s = << >>
    <2>1. Len(pat) = 1 /\ pat[1] \in Wild
      BY <1>6, ReservationAssumption DEF FnMatch
    <2>2. k = 0
      BY <2>1, <1>1
    <2>3. q = << >>
      BY <2>2, <1>3
    <2>4. Len(q) = 0 /\ Len(s) = 0
      BY <2>2, <1>3, <1>6
    <2>5. Begins(s, q)
      BY <2>4 DEF Begins
    <2> QED BY <2>3, <2>5, <1>2, <1>4
  <1> QED BY <1>5, <1>6

\* The test for two paths is complete.
LEMMA ResPathPath ==
    ASSUME NEW l \in Reserved, NEW r \in Reserved, l.kind = "path", r.kind = "path",
           NEW s \in Seq(Names), CoversPath(l, s), CoversPath(r, s)
    PROVE  PathsOverlap(l, r)
  <1>0. PICK p : p = l.pattern
    OBVIOUS
  <1>1. PICK q : q = r.pattern
    OBVIOUS
  <1>2. p \in Seq(Names) /\ q \in Seq(Names) /\ Len(p) \in Nat /\ Len(q) \in Nat
    <2>1. p \in Seq(Names) /\ q \in Seq(Names)
      BY <1>0, <1>1, ResReserved
    <2> QED BY <2>1
  <1>3. s = p \/ (l.recursive /\ Below(s, p))
    BY <1>0 DEF CoversPath
  <1>4. s = q \/ (r.recursive /\ Below(s, q))
    BY <1>1 DEF CoversPath
  <1>5. CASE s = p
    BY <1>5, <1>0 DEF PathsOverlap
  <1>6. CASE s = q
    BY <1>6, <1>1 DEF PathsOverlap
  <1>7. CASE l.recursive /\ Below(s, p) /\ r.recursive /\ Below(s, q)
    <2>1. Begins(s, p) /\ Begins(s, q)
      BY <1>2, <1>7, ResBeginsBelow
    <2>2. CASE Len(p) < Len(q)
      <3>1. Begins(q, p)
        BY <2>1, <2>2, <1>2, ResBothBegin
      <3>2. Below(q, p)
        BY <3>1, <2>2, <1>2, ResBeginsBelow
      <3> QED BY <3>2, <1>0, <1>1, <1>7 DEF PathsOverlap, CoversPath
    <2>3. CASE Len(q) < Len(p)
      <3>1. Begins(p, q)
        BY <2>1, <2>3, <1>2, ResBothBegin
      <3>2. Below(p, q)
        BY <3>1, <2>3, <1>2, ResBeginsBelow
      <3> QED BY <3>2, <1>0, <1>1, <1>7 DEF PathsOverlap, CoversPath
    <2>4. CASE Len(q) = Len(p)
      <3>1. Begins(p, q)
        BY <2>1, <2>4, <1>2, ResBothBegin
      <3>2. p = q
        BY <3>1, <2>4, <1>2 DEF Begins
      <3> QED BY <3>2, <1>0, <1>1 DEF PathsOverlap, CoversPath
    <2> QED BY <2>2, <2>3, <2>4, <1>2
  <1> QED BY <1>3, <1>4, <1>5, <1>6, <1>7

\* The test for two globs is complete: what both cover begins with both of
\* their fixed prefixes.
LEMMA ResGlobGlob ==
    ASSUME NEW l \in Reserved, NEW r \in Reserved, l.kind = "glob", r.kind = "glob",
           NEW s \in Seq(Names), CoversPath(l, s), CoversPath(r, s)
    PROVE  GlobsOverlap(l, r)
  <1>1. FnMatch(s, l.pattern) /\ FnMatch(s, r.pattern)
    BY DEF CoversPath
  <1>2. l.pattern \in Seq(Segments) /\ r.pattern \in Seq(Segments)
    BY ResReserved
  <1>3. PICK p : p = GlobFixedPrefix(l.pattern)
    OBVIOUS
  <1>4. PICK q : q = GlobFixedPrefix(r.pattern)
    OBVIOUS
  <1>5. p \in Seq(Names) /\ Begins(s, p)
    BY <1>1, <1>2, <1>3, ResGlobBegins
  <1>6. q \in Seq(Names) /\ Begins(s, q)
    BY <1>1, <1>2, <1>4, ResGlobBegins
  <1>7. Len(p) \in Nat /\ Len(q) \in Nat
    BY <1>5, <1>6
  <1>8. CASE Len(q) <= Len(p)
    <2>1. StartsWith(p, q)
      BY <1>5, <1>6, <1>8, ResBothBegin, ResBeginsStarts
    <2> QED BY <2>1, <1>3, <1>4 DEF GlobsOverlap
  <1>9. CASE Len(p) <= Len(q)
    <2>1. StartsWith(q, p)
      BY <1>5, <1>6, <1>9, ResBothBegin, ResBeginsStarts
    <2> QED BY <2>1, <1>3, <1>4 DEF GlobsOverlap
  <1> QED BY <1>7, <1>8, <1>9

\* The test for a path and a glob is complete but for its gap.
LEMMA ResPathGlob ==
    ASSUME NEW l \in Reserved, NEW r \in Reserved, l.kind = "path", r.kind = "glob", ~Gap(l, r),
           NEW s \in Seq(Names), CoversPath(l, s), CoversPath(r, s)
    PROVE  PathOverlapsGlob(l, r)
  <1>1. FnMatch(s, r.pattern)
    BY DEF CoversPath
  <1>2. l.pattern \in Seq(Names) /\ r.pattern \in Seq(Segments)
    BY ResReserved
  <1>3. PICK p : p = l.pattern
    OBVIOUS
  <1>4. PICK q : q = GlobFixedPrefix(r.pattern)
    OBVIOUS
  <1>5. q \in Seq(Names) /\ Begins(s, q) /\ p \in Seq(Names)
    BY <1>1, <1>2, <1>3, <1>4, ResGlobBegins
  <1>6. Len(p) \in Nat /\ Len(q) \in Nat
    BY <1>5
  <1>7. CASE s = p
    BY <1>7, <1>1, <1>3 DEF PathOverlapsGlob
  <1>8. CASE l.recursive /\ Below(s, p)
    <2>1. p # << >> /\ q # << >>
      BY <1>3, <1>4, <1>8 DEF Gap
    <2>2. Begins(s, p)
      BY <1>5, <1>8, ResBeginsBelow
    <2>3. CASE Len(q) <= Len(p)
      <3>1. StartsWith(p, q)
        BY <1>5, <2>2, <2>3, ResBothBegin, ResBeginsStarts
      <3> QED BY <3>1, <2>1, <1>3, <1>4 DEF PathOverlapsGlob
    <2>4. CASE Len(p) < Len(q)
      <3>1. Begins(q, p)
        BY <1>5, <1>6, <2>2, <2>4, ResBothBegin
      <3>2. Below(q, p)
        BY <3>1, <1>5, <1>6, <2>4, ResBeginsBelow
      <3> QED BY <3>2, <2>1, <1>3, <1>4 DEF PathOverlapsGlob
    <2> QED BY <2>3, <2>4, <1>6
  <1>9. s = p \/ (l.recursive /\ Below(s, p))
    BY <1>3 DEF CoversPath
  <1> QED BY <1>7, <1>8, <1>9

\* reservations_overlap does not ask who came first: its verdict on (l, r) is
\* its verdict on (r, l), for every pair of reservations.
THEOREM OverlapTestSymmetric ==
    ASSUME NEW l \in Reserved, NEW r \in Reserved
    PROVE  ReservationsOverlap(l, r) <=> ReservationsOverlap(r, l)
  <1>1. l.kind \in {"path", "glob"} /\ r.kind \in {"path", "glob"}
    BY ResReserved
  <1>2. PathsOverlap(l, r) <=> PathsOverlap(r, l)
    BY DEF PathsOverlap
  <1>3. GlobsOverlap(l, r) <=> GlobsOverlap(r, l)
    BY DEF GlobsOverlap
  <1>4. CASE l.kind = "path" /\ r.kind = "path"
    BY <1>2, <1>4 DEF ReservationsOverlap
  <1>5. CASE l.kind = "path" /\ r.kind = "glob"
    BY <1>5 DEF ReservationsOverlap
  <1>6. CASE l.kind = "glob" /\ r.kind = "path"
    BY <1>6 DEF ReservationsOverlap
  <1>7. CASE l.kind = "glob" /\ r.kind = "glob"
    BY <1>3, <1>7 DEF ReservationsOverlap
  <1> QED BY <1>1, <1>4, <1>5, <1>6, <1>7

\* reservations_overlap finds every pair of reservations that share a path, for
\* any names, wildcards and lengths, but for the one gap: a recursive path
\* beside a glob, where the path is "." or the glob has no fixed directory.
THEOREM OverlapTestComplete ==
    ASSUME NEW l \in Reserved, NEW r \in Reserved, Shared(l, r), ~Gap(l, r), ~Gap(r, l)
    PROVE  ReservationsOverlap(l, r)
  <1>1. l.kind \in {"path", "glob"} /\ r.kind \in {"path", "glob"}
    BY ResReserved
  <1>2. PICK s \in Paths : CoversPath(l, s) /\ CoversPath(r, s)
    BY DEF Shared
  <1>3. s \in Seq(Names)
    <2>1. MaxSegments + 1 \in Nat
      BY ReservationAssumption
    <2> QED BY <2>1, <1>2, ResSequence DEF Paths
  <1>4. CASE l.kind = "path" /\ r.kind = "path"
    <2>1. PathsOverlap(l, r)
      BY <1>2, <1>3, <1>4, ResPathPath
    <2> QED BY <2>1, <1>4 DEF ReservationsOverlap
  <1>5. CASE l.kind = "path" /\ r.kind = "glob"
    <2>1. PathOverlapsGlob(l, r)
      BY <1>2, <1>3, <1>5, ResPathGlob
    <2> QED BY <2>1, <1>5 DEF ReservationsOverlap
  <1>6. CASE l.kind = "glob" /\ r.kind = "path"
    <2>1. PathOverlapsGlob(r, l)
      BY <1>2, <1>3, <1>6, ResPathGlob
    <2> QED BY <2>1, <1>6 DEF ReservationsOverlap
  <1>7. CASE l.kind = "glob" /\ r.kind = "glob"
    <2>1. GlobsOverlap(l, r)
      BY <1>2, <1>3, <1>7, ResGlobGlob
    <2> QED BY <2>1, <1>7 DEF ReservationsOverlap
  <1> QED BY <1>1, <1>4, <1>5, <1>6, <1>7

\* The ledger: only normalized reservations are held, and acquire_lease has
\* found no two of them to overlap.
ResInv ==
    /\ held \subseteq Reserved
    /\ \A l, r \in held : l # r => ~ReservationsOverlap(l, r)

\* No lease is held at the start.
LEMMA ResInvInit == ResInit => ResInv
  BY DEF ResInit, ResInv

\* Acquire compares the new reservation with every held one, and the verdict
\* is symmetric; Release only takes away.
LEMMA ResInvStep == ResInv /\ [ResNext]_held => ResInv'
  <1> SUFFICES ASSUME ResInv, [ResNext]_held PROVE ResInv'
    OBVIOUS
  <1>0. held \subseteq Reserved /\ \A l, r \in held : l # r => ~ReservationsOverlap(l, r)
    BY DEF ResInv
  <1>1. CASE UNCHANGED held
    <2>1. held' = held
      BY <1>1
    <2> QED BY <1>0, <2>1 DEF ResInv
  <1>2. ASSUME NEW q \in Reserved, Acquire(q) PROVE ResInv'
    <2>1. held' = held \cup {q} /\ \A r \in held : ~ReservationsOverlap(q, r)
      BY <1>2 DEF Acquire
    <2>2. \A r \in held : ~ReservationsOverlap(r, q)
      BY <1>0, <2>1, OverlapTestSymmetric
    <2>3. PICK H : H = held \cup {q}
      OBVIOUS
    <2>4. \A l, r \in H : l # r => ~ReservationsOverlap(l, r)
      BY <1>0, <2>1, <2>2, <2>3
    <2>5. H \subseteq Reserved /\ held' = H
      BY <1>0, <2>1, <2>3
    <2> QED BY <2>4, <2>5 DEF ResInv
  <1>3. ASSUME NEW q \in Reserved, Release(q) PROVE ResInv'
    <2>1. PICK H : H = held \ {q}
      OBVIOUS
    <2>2. held' = H /\ H \subseteq held
      BY <1>3, <2>1 DEF Release
    <2>3. H \subseteq Reserved /\ \A l, r \in H : l # r => ~ReservationsOverlap(l, r)
      BY <1>0, <2>2
    <2> QED BY <2>2, <2>3 DEF ResInv
  <1> QED BY <1>1, <1>2, <1>3 DEF ResNext

\* What the run checks: symmetry, and no shared path outside the gap.
LEMMA ResInvSound == ResInv => ReservationsSound
  <1> SUFFICES ASSUME ResInv PROVE ReservationsSound
    OBVIOUS
  <1>0. held \subseteq Reserved /\ \A l, r \in held : l # r => ~ReservationsOverlap(l, r)
    BY DEF ResInv
  <1>1. SharedOnlyAtGaps
    <2> SUFFICES ASSUME NEW l \in held, NEW r \in held, l # r, Shared(l, r), ~Gap(l, r), ~Gap(r, l)
                 PROVE  FALSE
      BY DEF SharedOnlyAtGaps
    <2>1. l \in Reserved /\ r \in Reserved
      BY <1>0
    <2>2. ReservationsOverlap(l, r)
      BY <2>1, OverlapTestComplete
    <2> QED BY <1>0, <2>2
  <1>2. OverlapSymmetric
    <2>1. \A l \in held, r \in Reserved : ReservationsOverlap(l, r) <=> ReservationsOverlap(r, l)
      BY <1>0, OverlapTestSymmetric
    <2> QED BY <2>1 DEF OverlapSymmetric
  <1> QED BY <1>1, <1>2 DEF ReservationsSound

\* acquire_lease keeps the active leases disjoint outside the gap of its test,
\* for any names, wildcards, lengths of patterns and number of leases.
THEOREM ReservationsCorrect == ResSpec => []ReservationsSound
  <1>1. ResSpec => []ResInv
    BY ResInvInit, ResInvStep, PTL DEF ResSpec
  <1> QED BY <1>1, ResInvSound, PTL

-----------------------------------------------------------------------------
(* The components side by side                                             *)

\* The components keep to their types while they run side by side: the step of
\* one is a stuttering step of the others.
THEOREM FederationTypesCorrect == FederationSpec => []FederationTypesOK
  <1> DEFINE Inv == GaIInv /\ UsInv /\ RegInv /\ RgInv /\ LcInv /\ UcInv /\ CgInv
             all == <<focus, held, gaVars, usVars, regVars, rgVars, lcVars, ucVars, cgVars>>
  <1>1. FederationInit => Inv
    BY GaInitInv, UsInitInv, RegInvInit, RgInitInv, LcInvInit, UcInitInv, CgInitInv DEF FederationInit
  <1>2. ASSUME Inv, [FederationNext]_all PROVE Inv'
    <2>1. /\ [GaNext]_gaVars /\ [UsNext]_usVars /\ [RegNext]_regVars /\ [RgNext]_rgVars
          /\ [LcNext]_lcVars /\ [UcNext]_ucVars /\ [CgNext]_cgVars
      BY <1>2 DEF FederationNext, CgNext
    <2>2. GaIInv'
      BY <1>2, <2>1, GaTypeStep, GaSafeStep DEF GaIInv
    <2>3. UsInv' /\ RgInv' /\ UcInv' /\ CgInv'
      BY <1>2, <2>1, UsStepInv, RgStepInv, UcStepInv, CgStepInv
    <2>4. RegInv' /\ LcInv'
      BY <1>2, <2>1, RegInvNext, LcInvNext
    <2> QED
      BY <2>2, <2>3, <2>4
  <1>3. Inv => FederationTypesOK
    BY DEF GaIInv, UsInv, RegInv, RgInv, LcInv, UcInv, CgInv, FederationTypesOK
  <1> QED
    BY <1>1, <1>2, <1>3, PTL DEF FederationSpec

\* A behaviour of the federation is a behaviour of each of its components.
LEMMA FederationImplements ==
    FederationSpec => /\ ResSpec /\ GaSpec /\ UsSpec /\ RegSpec
                      /\ RgSpec /\ LcSpec /\ UcSpec /\ CgSpec
  <1>1. FederationInit => /\ ResInit /\ GaInit /\ UsInit /\ RegInit
                          /\ RgInit /\ LcInit /\ UcInit /\ CgInit
    BY DEF FederationInit
  <1>2. [FederationNext]_<<focus, held, gaVars, usVars, regVars, rgVars, lcVars, ucVars, cgVars>> =>
          /\ [ResNext]_held /\ [GaNext]_gaVars /\ [UsNext]_usVars /\ [RegNext]_regVars
          /\ [RgNext]_rgVars /\ [LcNext]_lcVars /\ [UcNext]_ucVars /\ [CgNext]_cgVars
    BY DEF FederationNext, CgNext
  <1> QED
    BY <1>1, <1>2, PTL DEF FederationSpec, ResSpec, GaSpec, UsSpec, RegSpec, RgSpec, LcSpec, UcSpec, CgSpec

\* Everything the run Federation checks, for any servers, capabilities,
\* requests, sessions and paths (mcp_upstream.py, mcp_federation_registry.py
\* and the modules around them).
THEOREM FederationCorrect ==
    FederationSpec => /\ [](FederationTypesOK /\ ReservationsSound /\ UpstreamSound)
                      /\ [](RegistrySound /\ HeldRootsWereReviewed /\ GenerationsSound)
                      /\ CredentialsSound /\ ImplementsGuardedAction /\ AcknowledgedIsMirrored
  BY FederationImplements, FederationTypesCorrect, ReservationsCorrect, UpstreamServersCorrect,
     RootGrantsCorrect, UpstreamCredentialsCorrect, CatalogueGenerationsCorrect, FederationRegistryCorrect,
     FederatedActionsRefineGuardedAction, LocalCatalogueCorrect, PTL
=============================================================================
