---------------------------- MODULE ChatContexts ----------------------------
(***************************************************************************)
(* Chat contexts and their short codes (ChatContextService).  An operation *)
(* looks an alias up, waits for the lock of its context and goes on with   *)
(* the row as first loaded: the ORM's identity map does not refresh it.    *)
(* Codes expire, rest in quarantine and may be given out again.  A context *)
(* may be bound to one conversation, kept as a keyed digest.               *)
(***************************************************************************)
EXTENDS Naturals, FiniteSets

CONSTANTS
    CcContexts, CcOwners, CcCodes, CcSessions,
    NoCode,
    CcTTL, CcQuarantine, CcRenew,   \* lease, quarantine and renewal threshold, in ticks
    MaxCcGen, MaxCcTime,            \* bounds on rotations and on the clock
    MaxKeys                         \* bound on digest key versions

ASSUME ChatContextsAssumption ==
    /\ {CcTTL, CcQuarantine, CcRenew, MaxCcGen, MaxCcTime, MaxKeys} \subseteq Nat
    /\ CcRenew < CcTTL /\ MaxKeys > 0 /\ NoCode \notin CcCodes

VARIABLES
    ccOwner,        \* owner of each context; never changes
    ccGen,          \* ChatContext.generation; 0 before the context exists
    ccAlias,        \* ChatContextAlias per context and generation
    ccBound,        \* the key version its conversation digest was made with; 0 is unbound
    ccKey,          \* the key version in use by the process that serves a session
    ccOver,         \* history: sessions that another's binding overtook
    ccLate,         \* history: contexts bound by a session that had been overtaken
    ccNow,
    ccTx

bindVars == <<ccBound, ccKey, ccOver, ccLate>>
ccVars == <<ccOwner, ccGen, ccAlias, bindVars, ccNow, ccTx>>

Gens == 1..MaxCcGen
Times == 0..(MaxCcTime + CcTTL + CcQuarantine)
AliasRow == [code : CcCodes \cup {NoCode}, status : {"none", "active", "quarantined", "released"},
             exp : Times, until : Times, replaced : BOOLEAN]
NoAlias == [code |-> NoCode, status |-> "none", exp |-> 0, until |-> 0, replaced |-> FALSE]
CcIdle == [op |-> "idle"]

CcTypeOK ==
    /\ ccOwner \in [CcContexts -> CcOwners] /\ ccGen \in [CcContexts -> 0..MaxCcGen]
    /\ ccAlias \in [CcContexts -> [Gens -> AliasRow]]
    /\ ccBound \in [CcContexts -> 0..MaxKeys] /\ ccKey \in [CcSessions -> 1..MaxKeys]
    /\ ccOver \subseteq CcSessions /\ ccLate \subseteq CcContexts /\ ccNow \in 0..MaxCcTime

CcInit ==
    /\ ccOwner \in [CcContexts -> CcOwners]
    /\ ccGen = [c \in CcContexts |-> 0]
    /\ ccAlias = [c \in CcContexts |-> [g \in Gens |-> NoAlias]]
    /\ ccBound = [c \in CcContexts |-> 0] /\ ccKey = [s \in CcSessions |-> 1]
    /\ ccOver = {} /\ ccLate = {} /\ ccNow = 0
    /\ ccTx = [s \in CcSessions |-> CcIdle]

LiveStatus == {"active", "quarantined"}
CcBegin(s, t) == ccTx[s] = CcIdle /\ ccTx' = [ccTx EXCEPT ![s] = t]
CcEnd(s) == ccTx' = [ccTx EXCEPT ![s] = CcIdle]

\* _reconcile_alias: an expired alias rests, then is released.
Released(a) == IF a.status = "quarantined" /\ a.until <= ccNow THEN [a EXCEPT !.status = "released"] ELSE a
ReconcileAlias(a) ==
    Released(IF a.status = "active" /\ a.exp <= ccNow
             THEN [a EXCEPT !.status = "quarantined", !.until = a.exp + CcQuarantine] ELSE a)

\* _renew_alias.
RenewAlias(a, force) ==
    IF force \/ a.exp <= ccNow + CcRenew THEN [a EXCEPT !.exp = IF ccNow + CcTTL > @ THEN ccNow + CcTTL ELSE @] ELSE a

\* A flush writes the columns that differ from the values loaded.
Flush(row, loaded, new) == [f \in DOMAIN row |-> IF new[f] # loaded[f] THEN new[f] ELSE row[f]]

\* _reconcile_code_reservations on the table A.
ReconcileCode(A, k) ==
    [c \in CcContexts |-> [g \in Gens |-> IF A[c][g].code = k THEN ReconcileAlias(A[c][g]) ELSE A[c][g]]]
Reserved(A, k) == \E c \in CcContexts, g \in Gens : A[c][g].code = k /\ A[c][g].status \in LiveStatus
Known(A, owner, k) == \E c \in CcContexts, g \in Gens : ccOwner[c] = owner /\ A[c][g].code = k

\* _allocate_alias under the generation n the session sees: a code the owner
\* never had and nobody holds, and an insert that the unique indexes admit.
AllocateAlias(A, c, n, k) ==
    LET R == ReconcileCode(A, k) IN
    /\ n + 1 \in Gens /\ R[c][n + 1].status = "none"
    /\ ~Known(R, ccOwner[c], k) /\ ~Reserved(R, k)
    /\ \A g \in Gens : R[c][g].status # "active"
    /\ ccAlias' = [R EXCEPT ![c][n + 1] =
         [code |-> k, status |-> "active", exp |-> ccNow + CcTTL, until |-> 0, replaced |-> FALSE]]
    /\ ccGen' = [ccGen EXCEPT ![c] = n + 1]

\* The unique indexes: a code live once, one active alias per context.
IndexesAdmit(A) ==
    /\ \A c, d \in CcContexts : \A g, h \in Gens :
         A[c][g].status \in LiveStatus /\ A[d][h].status \in LiveStatus /\ A[c][g].code = A[d][h].code
            => c = d /\ g = h
    /\ \A c \in CcContexts : \A g, h \in Gens :
         A[c][g].status = "active" /\ A[c][h].status = "active" => g = h

-----------------------------------------------------------------------------
\* start_context and create_provisional of a new context.
CreateContext(c) ==
    /\ ccGen[c] = 0 /\ \E k \in CcCodes : AllocateAlias(ccAlias, c, 0, k)
    /\ UNCHANGED <<ccOwner, bindVars, ccNow, ccTx>>

\* The same nonce again, or a conversation lease: the context, then its
\* newest alias, as the session loads them.
EnsureRead(s, c) ==
    /\ ccGen[c] > 0
    /\ CcBegin(s, [op |-> "refresh", ctx |-> c, gen |-> ccGen[c], seen |-> ccGen[c], row |-> NoAlias, force |-> FALSE])
    /\ UNCHANGED <<ccOwner, ccGen, ccAlias, bindVars, ccNow>>

ResolveRead(s, c, g) ==
    /\ ccAlias[c][g].status # "none"
    /\ CcBegin(s, [op |-> "resolve", ctx |-> c, gen |-> g, row |-> ccAlias[c][g]])
    /\ UNCHANGED <<ccOwner, ccGen, ccAlias, bindVars, ccNow>>

\* resolve_alias once it has the lock; an expired alias is committed too.
ResolveLocked(s) ==
    LET t == ccTx[s]
        a == ReconcileAlias(t.row) IN
    /\ t.op = "resolve" /\ CcEnd(s)
    /\ ccAlias' = [ccAlias EXCEPT ![t.ctx][t.gen] =
         Flush(@, t.row, IF a.status = "active" THEN RenewAlias(a, FALSE) ELSE a)]
    /\ IndexesAdmit(ccAlias')
    /\ UNCHANGED <<ccOwner, ccGen, bindVars, ccNow>>

RefreshRead(s, c, g) ==
    /\ ccAlias[c][g].status # "none"
    /\ CcBegin(s, [op |-> "refresh", ctx |-> c, gen |-> g, seen |-> 0, row |-> ccAlias[c][g], force |-> TRUE])
    /\ UNCHANGED <<ccOwner, ccGen, ccAlias, bindVars, ccNow>>

\* What the session of t takes for the alias and the context's generation:
\* the copies it loaded, or the rows now.
PreviousGen(t) == IF t.seen > 0 THEN ccGen[t.ctx] ELSE t.gen
PreviousRow(t) == IF t.row = NoAlias THEN ccAlias[t.ctx][PreviousGen(t)] ELSE t.row
SeenGen(t) == IF t.seen > 0 THEN t.seen ELSE ccGen[t.ctx]

\* Mutant: an alias that was rotated away may come back.
CanReactivateOld(A, t, p) ==
    /\ ~\E c \in CcContexts, g \in Gens : /\ <<c, g>> # <<t.ctx, PreviousGen(t)>>
                                         /\ A[c][g].code = p.code /\ A[c][g].status \in LiveStatus
    /\ \A g \in Gens \ {PreviousGen(t)} : A[t.ctx][g].status # "active"

CanReactivate(A, t, p) ==
    /\ ~\E c \in CcContexts, g \in Gens : /\ <<c, g>> # <<t.ctx, PreviousGen(t)>>
                                         /\ A[c][g].code = p.code /\ A[c][g].status \in LiveStatus
    /\ PreviousGen(t) = SeenGen(t) /\ ~p.replaced
    /\ \A g \in Gens \ {PreviousGen(t)} : A[t.ctx][g].status # "active"

\* refresh_alias once it has the lock.  previous is the object loaded first,
\* also where the query for the active alias finds that row.
RefreshLocked(s) ==
    LET t == ccTx[s]
        c == t.ctx
        g == PreviousGen(t)
        prev == ReconcileAlias(PreviousRow(t))
        mine(new) == Flush(ccAlias[c][g], PreviousRow(t), new)
        other == {h \in Gens \ {g} : ccAlias[c][h].status = "active"}
        cur(h) == ReconcileAlias(ccAlias[c][h])
        alive == {h \in other : cur(h).status = "active"}
        B == [ccAlias EXCEPT ![c] = [h \in Gens |-> IF h = g THEN mine(prev) ELSE IF h \in other THEN cur(h) ELSE @[h]]]
        D == ReconcileCode(B, prev.code) IN
    /\ t.op = "refresh" /\ CcEnd(s)
    /\ \/ /\ ccAlias[c][g].status = "active" /\ prev.status = "active"
          /\ ccAlias' = [ccAlias EXCEPT ![c][g] = mine(RenewAlias(prev, t.force))]
          /\ UNCHANGED ccGen
       \/ \E h \in alive :
             /\ ccAlias' = [B EXCEPT ![c][h] = RenewAlias(cur(h), t.force)]
             /\ UNCHANGED ccGen
       \/ /\ ~(ccAlias[c][g].status = "active" /\ prev.status = "active") /\ alive = {}
          /\ IF prev.status \in {"quarantined", "released"} /\ CanReactivate(D, t, prev)
             THEN /\ ccAlias' = [D EXCEPT ![c][g] =
                        [@ EXCEPT !.status = "active", !.exp = ccNow + CcTTL, !.until = 0]]
                  /\ UNCHANGED ccGen
             ELSE \E k \in CcCodes :
                     AllocateAlias([D EXCEPT ![c][g].replaced = TRUE], c, SeenGen(t), k)
    /\ IndexesAdmit(ccAlias')
    /\ UNCHANGED <<ccOwner, bindVars, ccNow>>

\* Attempts exhausted, or a conflict: everything is rolled back.
Abort(s) ==
    /\ ccTx[s].op # "idle" /\ CcEnd(s)
    /\ UNCHANGED <<ccOwner, ccGen, ccAlias, bindVars, ccNow>>

-----------------------------------------------------------------------------
(* The conversation: there is one, so a bound context is bound to it. *)

\* bind_conversation compares with the digest of every bound context, each
\* under its own key version.
BoundToOther(c) == \E d \in CcContexts \ {c} : ccOwner[d] = ccOwner[c] /\ ccBound[d] > 0

BindRead(s, c) ==
    /\ ccGen[c] > 0 /\ ccBound[c] = 0 /\ ~BoundToOther(c)
    /\ \A x \in CcSessions : ccTx[x].op = "bind" => ccTx[x].ctx # c
    /\ CcBegin(s, [op |-> "bind", ctx |-> c, key |-> ccKey[s]])
    /\ ccOver' = ccOver \ {s}
    /\ UNCHANGED <<ccOwner, ccGen, ccAlias, ccBound, ccKey, ccLate, ccNow>>

\* The digest is unique per owner.
BindCommit(s) ==
    LET t == ccTx[s] IN
    /\ t.op = "bind" /\ CcEnd(s)
    /\ ~\E d \in CcContexts \ {t.ctx} : ccOwner[d] = ccOwner[t.ctx] /\ ccBound[d] = t.key
    /\ ccBound' = [ccBound EXCEPT ![t.ctx] = t.key]
    /\ ccOver' = ccOver \cup {x \in CcSessions \ {s} : ccTx[x].op = "bind"}
    /\ ccLate' = IF s \in ccOver THEN ccLate \cup {t.ctx} ELSE ccLate
    /\ UNCHANGED <<ccOwner, ccGen, ccAlias, ccKey, ccNow>>

\* The process that serves s restarts with another key version; the others go
\* on with theirs.
RotateKey(s) ==
    /\ \E k \in 1..MaxKeys \ {ccKey[s]} : ccKey' = [ccKey EXCEPT ![s] = k]
    /\ CcEnd(s)
    /\ UNCHANGED <<ccOwner, ccGen, ccAlias, ccBound, ccOver, ccLate, ccNow>>

CcTick == ccNow < MaxCcTime /\ ccNow' = ccNow + 1 /\ UNCHANGED <<ccOwner, ccGen, ccAlias, bindVars, ccTx>>

CodeNext ==
    \/ CcTick
    \/ \E c \in CcContexts : CreateContext(c)
    \/ \E s \in CcSessions :
         \/ ResolveLocked(s) \/ RefreshLocked(s) \/ Abort(s)
         \/ \E c \in CcContexts :
              \/ EnsureRead(s, c)
              \/ \E g \in Gens : ResolveRead(s, c, g) \/ RefreshRead(s, c, g)

BindNext ==
    \/ \E c \in CcContexts : CreateContext(c)
    \/ \E s \in CcSessions, c \in CcContexts : BindRead(s, c)
    \/ \E s \in CcSessions : BindCommit(s) \/ RotateKey(s) \/ Abort(s)

CcNext == CodeNext \/ BindNext

CcSpec == CcInit /\ [][CcNext]_ccVars

-----------------------------------------------------------------------------
\* An active code is the newest its context was given, even when operations
\* go on with aliases that others have rotated or revived meanwhile.
ActiveCodeIsNewest ==
    \A c \in CcContexts, g \in Gens : ccAlias[c][g].status = "active" => g = ccGen[c]

\* A conversation finds one context of its owner, whatever key versions the
\* replicas use and change to; unless two bindings really overlapped, on
\* replicas with different versions, whose digests the unique index lets pass.
ConversationUnambiguous ==
    \A c, d \in CcContexts :
        ccOwner[c] = ccOwner[d] /\ ccBound[c] > 0 /\ ccBound[d] > 0 /\ c # d
            => ccBound[c] # ccBound[d] /\ {c, d} \cap ccLate # {}

\* One code leads to one context, and so does one conversation.
ChatContextsSound == ActiveCodeIsNewest /\ ConversationUnambiguous
=============================================================================
