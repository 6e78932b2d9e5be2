--------------------------- MODULE SessionsProofs ---------------------------
(***************************************************************************)
(* Proofs about users and their sessions, for any number of contexts,      *)
(* codes, clients, sockets, messages and database sessions.  Each section  *)
(* finds the inductive invariant of one component and proves what the run  *)
(* Sessions checks of it; the last one composes their types with those of  *)
(* the permits.                                                            *)
(***************************************************************************)
EXTENDS MCSessions, AutonomyPermitsProofs, FiniteSetTheorems, TLAPS

-----------------------------------------------------------------------------
(* Chat contexts and their fingerprints (ChatContexts)                     *)

\* An alias whose expiry leaves room for its quarantine on the bounded clock.
GoodAlias == [code : CcCodes \cup {NoCode}, status : {"none", "active", "quarantined", "released"},
              exp : 0..(MaxCcTime + CcTTL), until : Times, replaced : BOOLEAN]

\* A flush writes known values of the columns.
LEMMA FlushRow ==
  ASSUME NEW row \in GoodAlias, NEW loaded \in GoodAlias, NEW new \in GoodAlias, NEW r, r = Flush(row, loaded, new)
  PROVE  r \in GoodAlias /\ r.status = IF new.status # loaded.status THEN new.status ELSE row.status
  BY DEF Flush, GoodAlias

(* Renewing an alias keeps its status and its well-formedness (renew).       *)
LEMMA RenewRow ==
  ASSUME NEW a \in GoodAlias, NEW force \in BOOLEAN, ccNow \in 0..MaxCcTime, NEW r, r = RenewAlias(a, force)
  PROVE  r \in GoodAlias /\ r.status = a.status
  <1>1. {CcTTL, MaxCcTime, CcRenew} \subseteq Nat
    BY ChatContextsAssumption
  <1>2. PICK x \in 0..(MaxCcTime + CcTTL) : x = IF ccNow + CcTTL > a.exp THEN ccNow + CcTTL ELSE a.exp
    BY <1>1 DEF GoodAlias
  <1>3. r = a \/ r = [a EXCEPT !.exp = x]
    BY <1>2 DEF RenewAlias, GoodAlias
  <1> QED
    BY <1>2, <1>3 DEF GoodAlias

(* Reconciling an alias only ever quarantines or releases it.                *)
LEMMA ReconcileRow ==
  ASSUME NEW a \in GoodAlias, NEW r, r = ReconcileAlias(a)
  PROVE  /\ r \in GoodAlias
         /\ r.status = a.status \/ (a.status # "none" /\ r.status \in {"quarantined", "released"})
  <1>1. {CcTTL, MaxCcTime, CcQuarantine} \subseteq Nat
    BY ChatContextsAssumption
  <1>2. PICK u \in Times : u = a.exp + CcQuarantine
    BY <1>1 DEF GoodAlias, Times
  <1>3. PICK b : b = IF a.status = "active" /\ a.exp <= ccNow THEN [a EXCEPT !.status = "quarantined", !.until = u] ELSE a
    OBVIOUS
  <1>4. b \in GoodAlias /\ (b.status = a.status \/ (a.status # "none" /\ b.status = "quarantined"))
    BY <1>2, <1>3 DEF GoodAlias
  <1>5. r = b \/ (b.status = "quarantined" /\ r = [b EXCEPT !.status = "released"])
    BY <1>2, <1>3 DEF ReconcileAlias, Released
  <1> QED
    BY <1>4, <1>5 DEF GoodAlias

AliasTable == [CcContexts -> [Gens -> GoodAlias]]

CcTxState ==
    {CcIdle}
    \cup [op : {"refresh"}, ctx : CcContexts, gen : Gens, seen : 0..MaxCcGen, row : GoodAlias, force : BOOLEAN]
    \cup [op : {"resolve"}, ctx : CcContexts, gen : Gens, row : GoodAlias]
    \cup [op : {"bind"}, ctx : CcContexts, key : 1..MaxKeys]

\* The aliases of a context are its generations so far.
GensFilled == \A c \in CcContexts, g \in Gens : ccAlias[c][g].status = "none" <=> g > ccGen[c]

\* What a session has loaded is a generation that exists.
CcLoaded ==
    \A s \in CcSessions : ccTx[s].op \in {"refresh", "resolve"} =>
       /\ ccTx[s].gen <= ccGen[ccTx[s].ctx]
       /\ ccTx[s].op = "refresh" => ccTx[s].seen <= ccGen[ccTx[s].ctx]

\* A binding in flight that no other overtook is still the owner's first.
CcBinding ==
    \A s \in CcSessions : ccTx[s].op = "bind" /\ s \notin ccOver =>
       \A d \in CcContexts \ {ccTx[s].ctx} : ccOwner[d] = ccOwner[ccTx[s].ctx] => ccBound[d] = 0

CcInv ==
    /\ CcTypeOK /\ ccAlias \in AliasTable /\ ccTx \in [CcSessions -> CcTxState]
    /\ GensFilled /\ CcLoaded /\ CcBinding /\ ActiveCodeIsNewest /\ ConversationUnambiguous

\* The table A has the aliases of ccAlias, and none is active that was not.
Calmer(A) ==
    \A c \in CcContexts, g \in Gens :
       /\ A[c][g].status = "none" <=> ccAlias[c][g].status = "none"
       /\ A[c][g].status = "active" => ccAlias[c][g].status = "active"

\* The fields of what a session has loaded.
LEMMA CcTxFields ==
  ASSUME NEW t \in CcTxState
  PROVE  /\ t.op \in {"refresh", "resolve", "bind"} => t.ctx \in CcContexts
         /\ t.op \in {"refresh", "resolve"} => t.gen \in Gens /\ t.row \in GoodAlias
         /\ t.op = "refresh" => t.seen \in 0..MaxCcGen /\ t.force \in BOOLEAN
         /\ t.op = "bind" => t.key \in 1..MaxKeys
  BY DEF CcTxState, CcIdle

(* The idle session is one of the session states.                            *)
LEMMA CcIdleState == CcIdle \in CcTxState /\ CcIdle.op = "idle"
  BY DEF CcTxState, CcIdle

(* The time limits are numbers.                                              *)
LEMMA CcNumbers ==
  /\ CcTTL \in Nat /\ CcQuarantine \in Nat /\ CcRenew \in Nat /\ MaxCcGen \in Nat /\ MaxCcTime \in Nat
  /\ MaxKeys \in Nat \ {0}
  BY ChatContextsAssumption

\* Good aliases are aliases.
LEMMA GoodIsAlias ==
  /\ GoodAlias \subseteq AliasRow /\ NoAlias \in GoodAlias /\ NoAlias.status = "none"
  /\ \A A \in AliasTable : A \in [CcContexts -> [Gens -> AliasRow]]
  <1>1. 0..(MaxCcTime + CcTTL) \subseteq Times /\ 0 \in 0..(MaxCcTime + CcTTL) /\ 0 \in Times
    BY CcNumbers DEF Times
  <1>2. GoodAlias \subseteq AliasRow /\ NoAlias \in GoodAlias /\ NoAlias.status = "none"
    BY <1>1 DEF GoodAlias, AliasRow, NoAlias
  <1> QED
    BY <1>2 DEF AliasTable

\* One alias of the table is rewritten.
LEMMA CalmRow ==
  ASSUME NEW A \in AliasTable, Calmer(A), NEW c \in CcContexts, NEW g \in Gens, NEW row \in GoodAlias,
         row.status = "none" <=> A[c][g].status = "none",
         row.status = "active" => A[c][g].status = "active",
         NEW A2, A2 = [A EXCEPT ![c][g] = row]
  PROVE  A2 \in AliasTable /\ Calmer(A2)
  BY DEF AliasTable, Calmer

(* Reconciling the aliases of a code creates none and activates none.        *)
LEMMA CalmReconciled ==
  ASSUME NEW A \in AliasTable, Calmer(A), NEW k, NEW A2, A2 = ReconcileCode(A, k)
  PROVE  A2 \in AliasTable /\ Calmer(A2)
  <1>1. ASSUME NEW c \in CcContexts, NEW g \in Gens
        PROVE  /\ A2[c][g] \in GoodAlias
               /\ A2[c][g].status = "none" <=> A[c][g].status = "none"
               /\ A2[c][g].status = "active" => A[c][g].status = "active"
    <2>1. PICK a \in GoodAlias : a = A[c][g]
      BY DEF AliasTable
    <2>2. PICK r : r = ReconcileAlias(a)
      OBVIOUS
    <2>3. r \in GoodAlias /\ (r.status = a.status \/ (a.status # "none" /\ r.status \in {"quarantined", "released"}))
      BY <2>1, <2>2, ReconcileRow
    <2>4. A2[c][g] = a \/ A2[c][g] = r
      BY <2>1, <2>2 DEF ReconcileCode
    <2> QED
      BY <2>1, <2>3, <2>4
  <1>2. A2 = [c \in CcContexts |-> [g \in Gens |-> A2[c][g]]]
    BY DEF ReconcileCode
  <1>3. A2 \in AliasTable
    BY <1>1, <1>2 DEF AliasTable
  <1> QED
    BY <1>1, <1>3 DEF Calmer

\* A calmer table keeps the newest alias the only active one.
LEMMA CalmKeeps ==
  ASSUME ccAlias' \in AliasTable, Calmer(ccAlias'), ccGen' = ccGen, GensFilled, ActiveCodeIsNewest
  PROVE  GensFilled' /\ ActiveCodeIsNewest'
  BY DEF Calmer, GensFilled, ActiveCodeIsNewest

\* A new alias is the newest: a stale generation meets the unique index.
LEMMA AllocatedNewest ==
  ASSUME NEW A \in AliasTable, Calmer(A), NEW c \in CcContexts, NEW n \in Nat, n <= ccGen[c], NEW k \in CcCodes,
         ccGen \in [CcContexts -> 0..MaxCcGen], ccNow \in 0..MaxCcTime, GensFilled, AllocateAlias(A, c, n, k)
  PROVE  /\ ccAlias' \in AliasTable /\ ccGen' \in [CcContexts -> 0..MaxCcGen]
         /\ \A d \in CcContexts : ccGen[d] <= ccGen'[d]
         /\ GensFilled' /\ (ActiveCodeIsNewest => ActiveCodeIsNewest')
  <1>1. PICK R : R = ReconcileCode(A, k)
    OBVIOUS
  <1>2. R \in AliasTable /\ Calmer(R)
    BY <1>1, CalmReconciled
  <1>3. PICK row : row = [code |-> k, status |-> "active", exp |-> ccNow + CcTTL, until |-> 0, replaced |-> FALSE]
    OBVIOUS
  <1>4. ccNow + CcTTL \in 0..(MaxCcTime + CcTTL) /\ 0 \in Times
    BY CcNumbers DEF Times
  <1>5. row \in GoodAlias /\ row.status = "active"
    BY <1>3, <1>4 DEF GoodAlias
  <1>6. /\ n + 1 \in Gens /\ R[c][n + 1].status = "none" /\ \A g \in Gens : R[c][g].status # "active"
        /\ ccAlias' = [R EXCEPT ![c][n + 1] = row] /\ ccGen' = [ccGen EXCEPT ![c] = n + 1]
    BY <1>1, <1>3 DEF AllocateAlias
  <1>7. n + 1 > ccGen[c]
    BY <1>2, <1>6 DEF Calmer, GensFilled
  <1>8. ccGen[c] \in Nat /\ n = ccGen[c]
    BY <1>7, CcNumbers
  <1>9. ccAlias' \in AliasTable
    BY <1>2, <1>5, <1>6 DEF AliasTable
  <1>10. ccGen' \in [CcContexts -> 0..MaxCcGen] /\ \A d \in CcContexts : ccGen[d] <= ccGen'[d]
    BY <1>6, <1>8, CcNumbers DEF Gens
  <1>11. ASSUME NEW d \in CcContexts, NEW g \in Gens
         PROVE  /\ ccAlias'[d][g].status = "none" <=> g > ccGen'[d]
                /\ ActiveCodeIsNewest /\ ccAlias'[d][g].status = "active" => g = ccGen'[d]
    <2>1. CASE d # c
      BY <1>2, <1>6, <2>1 DEF AliasTable, Calmer, GensFilled, ActiveCodeIsNewest
    <2>2. CASE d = c /\ g = n + 1
      BY <1>2, <1>5, <1>6, <2>2, <1>8 DEF AliasTable
    <2>3. CASE d = c /\ g # n + 1
      <3>1. ccAlias'[d][g] = R[c][g] /\ ccGen'[c] = n + 1
        BY <1>2, <1>6, <2>3 DEF AliasTable
      <3>2. R[c][g].status = "none" <=> g > ccGen[c]
        BY <1>2 DEF Calmer, GensFilled
      <3>3. g \in Nat
        BY CcNumbers DEF Gens
      <3>4. g > ccGen[c] <=> g > n + 1
        BY <1>8, <2>3, <3>3
      <3> QED
        BY <1>6, <2>3, <3>1, <3>2, <3>4
    <2> QED
      BY <2>1, <2>2, <2>3
  <1> QED
    BY <1>9, <1>10, <1>11 DEF GensFilled, ActiveCodeIsNewest

(* Without contexts and aliases the invariant holds.                         *)
LEMMA CcInitInv == CcInit => CcInv
  <1> SUFFICES ASSUME CcInit PROVE CcInv
    OBVIOUS
  <1>1. /\ ccAlias \in AliasTable /\ ccGen \in [CcContexts -> 0..MaxCcGen]
        /\ \A c \in CcContexts, g \in Gens : ccAlias[c][g].status = "none" /\ ccGen[c] = 0 /\ g > 0
    BY GoodIsAlias, CcNumbers DEF CcInit, AliasTable, Gens
  <1>2. ccTx \in [CcSessions -> CcTxState] /\ \A s \in CcSessions : ccTx[s].op = "idle"
    BY CcIdleState DEF CcInit
  <1>3. /\ ccBound \in [CcContexts -> 0..MaxKeys] /\ ccKey \in [CcSessions -> 1..MaxKeys]
        /\ ccOver \subseteq CcSessions /\ ccLate \subseteq CcContexts /\ ccNow \in 0..MaxCcTime
    BY CcNumbers DEF CcInit
  <1>4. CcTypeOK
    BY <1>1, <1>3, GoodIsAlias DEF CcInit, CcTypeOK
  <1>5. GensFilled /\ CcLoaded /\ CcBinding /\ ActiveCodeIsNewest
    BY <1>1, <1>2 DEF GensFilled, CcLoaded, CcBinding, ActiveCodeIsNewest
  <1>6. ConversationUnambiguous
    BY DEF CcInit, ConversationUnambiguous
  <1> QED
    BY <1>1, <1>2, <1>4, <1>5, <1>6 DEF CcInv

\* The alias that refresh_alias takes for the previous one, and what it flushes
\* of it, leave the table calm.
LEMMA PreviousCalm ==
  ASSUME ccAlias \in AliasTable, ccGen \in [CcContexts -> 0..MaxCcGen], ccNow \in 0..MaxCcTime, GensFilled,
         NEW t \in CcTxState, t.op = "refresh", t.gen <= ccGen[t.ctx], t.seen <= ccGen[t.ctx]
  PROVE  /\ PreviousGen(t) \in Gens /\ PreviousGen(t) <= ccGen[t.ctx] /\ PreviousRow(t) \in GoodAlias
         /\ ccAlias[t.ctx][PreviousGen(t)].status # "none"
         /\ SeenGen(t) \in Nat /\ SeenGen(t) <= ccGen[t.ctx]
         /\ PreviousGen(t) = SeenGen(t) => PreviousGen(t) = ccGen[t.ctx]
  <1>1. t.ctx \in CcContexts /\ t.gen \in Gens /\ t.row \in GoodAlias /\ t.seen \in 0..MaxCcGen
    BY CcTxFields
  <1>2. PICK m \in 0..MaxCcGen : m = ccGen[t.ctx]
    BY <1>1
  <1>3. PreviousGen(t) \in Gens /\ PreviousGen(t) <= m
    BY <1>1, <1>2, CcNumbers DEF PreviousGen, Gens
  <1>4. ccAlias[t.ctx][PreviousGen(t)] \in GoodAlias
    BY <1>1, <1>3 DEF AliasTable
  <1>5. PreviousRow(t) \in GoodAlias
    BY <1>1, <1>4 DEF PreviousRow
  <1>6. ccAlias[t.ctx][PreviousGen(t)].status # "none"
    <2>1. PICK g \in Gens : g = PreviousGen(t)
      BY <1>3
    <2>2. g \in Nat /\ ~(g > m)
      BY <1>2, <1>3, <2>1, CcNumbers DEF Gens
    <2>3. ccAlias[t.ctx][g].status = "none" <=> g > ccGen[t.ctx]
      BY <1>1 DEF GensFilled
    <2> QED
      BY <1>2, <2>1, <2>2, <2>3
  <1>7. /\ SeenGen(t) \in Nat /\ SeenGen(t) <= m
        /\ PreviousGen(t) = SeenGen(t) => PreviousGen(t) = m
    BY <1>1, <1>2, CcNumbers DEF SeenGen, PreviousGen, Gens
  <1> QED
    BY <1>2, <1>3, <1>5, <1>6, <1>7

\* The flush of a reconciled and perhaps renewed copy never revives an alias.
LEMMA FlushedCalm ==
  ASSUME NEW row \in GoodAlias, row.status # "none", NEW loaded \in GoodAlias, NEW a, a = ReconcileAlias(loaded),
         NEW new \in GoodAlias, new.status = a.status, NEW r, r = Flush(row, loaded, new)
  PROVE  r \in GoodAlias /\ r.status # "none" /\ (r.status = "active" => row.status = "active")
  <1>1. a.status = loaded.status \/ a.status \in {"quarantined", "released"}
    BY ReconcileRow
  <1>2. r \in GoodAlias /\ r.status = IF new.status # loaded.status THEN new.status ELSE row.status
    BY FlushRow
  <1> QED
    BY <1>1, <1>2

\* What refresh_alias does to the aliases of its context.
LEMMA RefreshedNewest ==
  ASSUME CcInv, NEW s \in CcSessions, RefreshLocked(s)
  PROVE  /\ ccAlias' \in AliasTable /\ ccGen' \in [CcContexts -> 0..MaxCcGen]
         /\ \A d \in CcContexts : ccGen[d] <= ccGen'[d]
         /\ GensFilled' /\ ActiveCodeIsNewest'
  <1>t. /\ ccAlias \in AliasTable /\ ccGen \in [CcContexts -> 0..MaxCcGen] /\ ccNow \in 0..MaxCcTime
        /\ ccTx \in [CcSessions -> CcTxState] /\ GensFilled /\ ActiveCodeIsNewest
    BY DEF CcInv, CcTypeOK
  <1>n. \A d \in CcContexts : ccGen[d] <= ccGen[d]
    BY <1>t, CcNumbers
  <1>1. PICK t \in CcTxState : t = ccTx[s]
    BY <1>t
  <1>2. t.op = "refresh" /\ t.gen <= ccGen[t.ctx] /\ t.seen <= ccGen[t.ctx]
    BY <1>1 DEF RefreshLocked, CcInv, CcLoaded
  <1>3. PICK c \in CcContexts : c = t.ctx
    BY <1>1, <1>2, CcTxFields
  <1>4. PICK g \in Gens : g = PreviousGen(t)
    BY <1>t, <1>1, <1>2, PreviousCalm
  <1>5. PICK loaded \in GoodAlias : loaded = PreviousRow(t)
    BY <1>t, <1>1, <1>2, PreviousCalm
  <1>6. /\ ccAlias[c][g].status # "none" /\ SeenGen(t) \in Nat /\ SeenGen(t) <= ccGen[c]
        /\ g = SeenGen(t) => g = ccGen[c]
    BY <1>t, <1>1, <1>2, <1>3, <1>4, PreviousCalm
  <1>7. PICK prev : prev = ReconcileAlias(loaded)
    OBVIOUS
  <1>8. prev \in GoodAlias
    BY <1>5, <1>7, ReconcileRow
  <1>9. PICK row \in GoodAlias : row = ccAlias[c][g]
    BY <1>t, <1>3, <1>4 DEF AliasTable
  <1>f. t.force \in BOOLEAN
    BY <1>1, <1>2, CcTxFields
  <1>c. Calmer(ccAlias)
    BY DEF Calmer
  <1> DEFINE mine(new) == Flush(ccAlias[c][g], loaded, new)
             other == {h \in Gens \ {g} : ccAlias[c][h].status = "active"}
             cur(h) == ReconcileAlias(ccAlias[c][h])
             alive == {h \in other : cur(h).status = "active"}
             B == [ccAlias EXCEPT ![c] =
                     [h \in Gens |-> IF h = g THEN mine(prev) ELSE IF h \in other THEN cur(h) ELSE ccAlias[c][h]]]
             D == ReconcileCode(B, prev.code)
  <1>10. mine(prev) \in GoodAlias /\ mine(prev).status # "none" /\ (mine(prev).status = "active" => row.status = "active")
    BY <1>5, <1>6, <1>7, <1>8, <1>9, FlushedCalm
  <1>11. ASSUME NEW h \in Gens
         PROVE  /\ cur(h) \in GoodAlias
                /\ cur(h).status = "none" <=> ccAlias[c][h].status = "none"
                /\ cur(h).status = "active" => ccAlias[c][h].status = "active"
    <2>1. PICK a \in GoodAlias : a = ccAlias[c][h]
      BY <1>t, <1>3 DEF AliasTable
    <2>2. PICK r : r = ReconcileAlias(a)
      OBVIOUS
    <2>3. r \in GoodAlias /\ (r.status = a.status \/ (a.status # "none" /\ r.status \in {"quarantined", "released"}))
      BY <2>1, <2>2, ReconcileRow
    <2> QED
      BY <2>1, <2>2, <2>3
  <1> HIDE DEF mine, cur
  <1>12. B \in AliasTable /\ Calmer(B)
    <2>1. PICK m : m = mine(prev)
      OBVIOUS
    <2>2. PICK f : f = [h \in Gens |-> IF h = g THEN m ELSE IF h \in other THEN cur(h) ELSE ccAlias[c][h]]
      OBVIOUS
    <2>3. ASSUME NEW h \in Gens
          PROVE  /\ f[h] \in GoodAlias
                 /\ f[h].status = "none" <=> ccAlias[c][h].status = "none"
                 /\ f[h].status = "active" => ccAlias[c][h].status = "active"
      <3>1. CASE h = g
        BY <1>6, <1>9, <1>10, <2>1, <2>2, <3>1
      <3>2. CASE h # g /\ h \in other
        BY <1>11, <2>2, <3>2
      <3>3. CASE h # g /\ h \notin other
        BY <1>t, <1>3, <2>2, <3>3 DEF AliasTable
      <3> QED
        BY <3>1, <3>2, <3>3
    <2>4. f \in [Gens -> GoodAlias]
      BY <2>2, <2>3
    <2>5. B = [ccAlias EXCEPT ![c] = f]
      BY <2>1, <2>2
    <2> HIDE DEF B
    <2> QED
      BY <1>t, <1>3, <2>3, <2>4, <2>5 DEF AliasTable, Calmer
  <1>13. D \in AliasTable /\ Calmer(D)
    BY <1>12, CalmReconciled
  <1>b. ASSUME ccAlias' \in AliasTable, Calmer(ccAlias'), UNCHANGED ccGen
        PROVE  /\ ccAlias' \in AliasTable /\ ccGen' \in [CcContexts -> 0..MaxCcGen]
               /\ \A d \in CcContexts : ccGen[d] <= ccGen'[d]
               /\ GensFilled' /\ ActiveCodeIsNewest'
    BY <1>t, <1>n, <1>b, CalmKeeps
  \* The alias is active: it is renewed.
  <1>14. CASE ccAlias' = [ccAlias EXCEPT ![c][g] = mine(RenewAlias(prev, t.force))] /\ UNCHANGED ccGen
    <2>1. PICK new : new = RenewAlias(prev, t.force)
      OBVIOUS
    <2>2. new \in GoodAlias /\ new.status = prev.status
      BY <1>t, <1>8, <1>f, <2>1, RenewRow
    <2>3. PICK m : m = mine(new)
      OBVIOUS
    <2>4. m \in GoodAlias /\ m.status # "none" /\ (m.status = "active" => row.status = "active")
      BY <1>5, <1>6, <1>7, <1>9, <2>2, <2>3, FlushedCalm DEF mine
    <2>5. ccAlias' = [ccAlias EXCEPT ![c][g] = m]
      BY <1>14, <2>1, <2>3
    <2>6. ccAlias' \in AliasTable /\ Calmer(ccAlias')
      BY <1>t, <1>c, <1>3, <1>4, <1>6, <1>9, <2>4, <2>5, CalmRow
    <2> QED
      BY <1>b, <1>14, <2>6
  \* Another alias of the context is alive: that one is renewed.
  <1>15. ASSUME NEW h \in alive, ccAlias' = [B EXCEPT ![c][h] = RenewAlias(cur(h), t.force)], UNCHANGED ccGen
         PROVE  /\ ccAlias' \in AliasTable /\ ccGen' \in [CcContexts -> 0..MaxCcGen]
                /\ \A d \in CcContexts : ccGen[d] <= ccGen'[d]
                /\ GensFilled' /\ ActiveCodeIsNewest'
    <2>1. h \in Gens /\ h # g /\ cur(h).status = "active" /\ ccAlias[c][h].status = "active" /\ cur(h) \in GoodAlias
      BY <1>11, <1>15
    <2>2. PICK new : new = RenewAlias(cur(h), t.force)
      OBVIOUS
    <2>3. new \in GoodAlias /\ new.status = "active"
      BY <1>t, <1>f, <2>1, <2>2, RenewRow
    <2>4. B[c][h] = cur(h)
      BY <1>t, <1>3, <1>15, <2>1 DEF AliasTable
    <2> HIDE DEF B
    <2>5. ccAlias' \in AliasTable /\ Calmer(ccAlias')
      BY <1>3, <1>12, <1>15, <2>1, <2>2, <2>3, <2>4, CalmRow
    <2> QED
      BY <1>b, <1>15, <2>5
  <1> HIDE DEF B, D
  \* No other is: the previous alias comes back if it is the newest.
  <1>16. CASE /\ CanReactivate(D, t, prev)
              /\ ccAlias' = [D EXCEPT ![c][g] = [D[c][g] EXCEPT !.status = "active", !.exp = ccNow + CcTTL, !.until = 0]]
              /\ UNCHANGED ccGen
    <2>1. g = ccGen[c] /\ \A h \in Gens \ {g} : D[c][h].status # "active"
      BY <1>3, <1>4, <1>6, <1>16 DEF CanReactivate
    <2>2. PICK e \in 0..(MaxCcTime + CcTTL) : e = ccNow + CcTTL
      BY <1>t, CcNumbers
    <2>z. 0 \in Times
      BY CcNumbers DEF Times
    <2>3. PICK d \in GoodAlias : d = D[c][g]
      BY <1>3, <1>4, <1>13 DEF AliasTable
    <2>4. PICK new : new = [d EXCEPT !.status = "active", !.exp = e, !.until = 0]
      OBVIOUS
    <2>5. new \in GoodAlias /\ new.status = "active"
      BY <2>2, <2>3, <2>4, <2>z DEF GoodAlias
    <2>6. ccAlias' = [D EXCEPT ![c][g] = new]
      BY <1>16, <2>2, <2>3, <2>4
    <2>7. ccAlias' \in AliasTable
      BY <1>3, <1>4, <1>13, <2>5, <2>6 DEF AliasTable
    <2>8. ASSUME NEW x \in CcContexts, NEW h \in Gens
          PROVE  /\ ccAlias'[x][h].status = "none" <=> h > ccGen[x]
                 /\ ccAlias'[x][h].status = "active" => h = ccGen[x]
      <3>1. CASE x = c /\ h = g
        <4>1. ccAlias'[x][h] = new
          BY <1>3, <1>4, <1>13, <2>6, <3>1 DEF AliasTable
        <4>2. ~(h > ccGen[x])
          BY <1>t, <1>3, <2>1, <3>1, CcNumbers
        <4> QED
          BY <2>1, <2>5, <3>1, <4>1, <4>2
      <3>2. CASE x # c \/ h # g
        <4>1. ccAlias'[x][h] = D[x][h]
          BY <1>3, <1>4, <1>13, <2>6, <3>2 DEF AliasTable
        <4>2. D[x][h].status = "none" <=> h > ccGen[x]
          BY <1>t, <1>13 DEF Calmer, GensFilled
        <4>3. D[x][h].status = "active" => h = ccGen[x]
          BY <1>t, <1>13 DEF Calmer, ActiveCodeIsNewest
        <4> QED
          BY <4>1, <4>2, <4>3
      <3> QED
        BY <3>1, <3>2
    <2> QED
      BY <1>t, <1>n, <1>16, <2>7, <2>8 DEF GensFilled, ActiveCodeIsNewest
  \* Otherwise it is replaced and the context gets a new alias.
  <1>17. ASSUME NEW k \in CcCodes, AllocateAlias([D EXCEPT ![c][g].replaced = TRUE], c, SeenGen(t), k)
         PROVE  /\ ccAlias' \in AliasTable /\ ccGen' \in [CcContexts -> 0..MaxCcGen]
                /\ \A d \in CcContexts : ccGen[d] <= ccGen'[d]
                /\ GensFilled' /\ ActiveCodeIsNewest'
    <2>1. PICK d \in GoodAlias : d = D[c][g]
      BY <1>3, <1>4, <1>13 DEF AliasTable
    <2>2. PICK new : new = [d EXCEPT !.replaced = TRUE]
      OBVIOUS
    <2>3. new \in GoodAlias /\ new.status = d.status
      BY <2>1, <2>2 DEF GoodAlias
    <2>4. PICK E : E = [D EXCEPT ![c][g].replaced = TRUE]
      OBVIOUS
    <2>5. E = [D EXCEPT ![c][g] = new]
      BY <1>3, <1>4, <1>13, <2>1, <2>2, <2>4 DEF AliasTable
    <2>6. E \in AliasTable /\ Calmer(E)
      BY <1>3, <1>4, <1>13, <2>1, <2>3, <2>5, CalmRow
    <2>7. PICK n \in Nat : n = SeenGen(t) /\ n <= ccGen[c]
      BY <1>6
    <2> QED
      BY <1>t, <1>3, <1>17, <2>4, <2>6, <2>7, AllocatedNewest
  <1> QED
    BY <1>1, <1>3, <1>4, <1>5, <1>7, <1>14, <1>15, <1>16, <1>17 DEF RefreshLocked, mine, cur, B, D

\* Only a session moves.
LEMMA CcSessionMoves ==
  ASSUME CcInv, NEW s \in CcSessions, NEW t \in CcTxState, ccTx' = [ccTx EXCEPT ![s] = t],
         UNCHANGED <<ccOwner, ccGen, ccAlias, ccBound, ccLate, ccNow>>,
         ccKey' \in [CcSessions -> 1..MaxKeys], ccOver' \subseteq CcSessions, ccOver \ {s} \subseteq ccOver',
         t.op \in {"refresh", "resolve"} => t.gen <= ccGen[t.ctx],
         t.op = "refresh" => t.seen <= ccGen[t.ctx],
         t.op = "bind" => \A d \in CcContexts \ {t.ctx} : ccOwner[d] = ccOwner[t.ctx] => ccBound[d] = 0
  PROVE  CcInv'
  <1>t. CcTypeOK /\ ccAlias \in AliasTable /\ ccTx \in [CcSessions -> CcTxState] /\ GensFilled /\ CcLoaded
        /\ CcBinding /\ ActiveCodeIsNewest /\ ConversationUnambiguous
    BY DEF CcInv
  <1>1. ccTx' \in [CcSessions -> CcTxState] /\ ccTx'[s] = t /\ \A x \in CcSessions : x # s => ccTx'[x] = ccTx[x]
    BY <1>t
  <1>2. CcTypeOK' /\ ccAlias' \in AliasTable
    BY <1>t DEF CcTypeOK
  <1>3. GensFilled' /\ ActiveCodeIsNewest' /\ ConversationUnambiguous'
    BY <1>t DEF GensFilled, ActiveCodeIsNewest, ConversationUnambiguous
  <1>4. CcLoaded'
    BY <1>t, <1>1 DEF CcLoaded
  <1>5. CcBinding'
    BY <1>t, <1>1 DEF CcBinding
  <1> QED
    BY <1>1, <1>2, <1>3, <1>4, <1>5 DEF CcInv

\* A session loads an alias, and the bindings stay as they are.
LEMMA CcLoads ==
  ASSUME CcInv, NEW s \in CcSessions, NEW t \in CcTxState, ccTx' = [ccTx EXCEPT ![s] = t],
         UNCHANGED <<ccOwner, ccGen, ccAlias, bindVars, ccNow>>,
         t.op \in {"refresh", "resolve"}, t.gen <= ccGen[t.ctx],
         t.op = "refresh" => t.seen <= ccGen[t.ctx]
  PROVE  CcInv'
  <1>1. ccKey \in [CcSessions -> 1..MaxKeys] /\ ccOver \subseteq CcSessions
    BY DEF CcInv, CcTypeOK
  <1>2. UNCHANGED <<ccBound, ccKey, ccOver, ccLate>>
    BY DEF bindVars
  <1> QED
    BY <1>1, <1>2, CcSessionMoves

\* Only the aliases of a context move, and a session may end.
LEMMA CcAliasesMove ==
  ASSUME CcInv, ccAlias' \in AliasTable, ccGen' \in [CcContexts -> 0..MaxCcGen],
         \A d \in CcContexts : ccGen[d] <= ccGen'[d], GensFilled', ActiveCodeIsNewest',
         UNCHANGED <<ccOwner, bindVars, ccNow>>,
         ccTx' = ccTx \/ \E s \in CcSessions : ccTx' = [ccTx EXCEPT ![s] = CcIdle]
  PROVE  CcInv'
  <1>t. CcTypeOK /\ ccAlias \in AliasTable /\ ccTx \in [CcSessions -> CcTxState] /\ CcLoaded
        /\ CcBinding /\ ConversationUnambiguous
    BY DEF CcInv
  <1>1. ccTx' \in [CcSessions -> CcTxState] /\ \A x \in CcSessions : ccTx'[x] = ccTx[x] \/ ccTx'[x].op = "idle"
    BY <1>t, CcIdleState
  <1>2. CcTypeOK'
    BY <1>t, GoodIsAlias DEF CcTypeOK, bindVars
  <1>3. ConversationUnambiguous' /\ CcBinding'
    BY <1>t, <1>1 DEF ConversationUnambiguous, CcBinding, bindVars
  <1>4. ASSUME NEW x \in CcSessions, ccTx'[x].op \in {"refresh", "resolve"}
        PROVE  /\ ccTx'[x].gen <= ccGen'[ccTx'[x].ctx]
               /\ ccTx'[x].op = "refresh" => ccTx'[x].seen <= ccGen'[ccTx'[x].ctx]
    <2>1. PICK t \in CcTxState : t = ccTx[x] /\ t = ccTx'[x]
      BY <1>t, <1>1, <1>4
    <2>2. t.ctx \in CcContexts /\ t.gen \in Gens /\ (t.op = "refresh" => t.seen \in 0..MaxCcGen)
      BY <1>4, <2>1, CcTxFields
    <2>3. t.gen <= ccGen[t.ctx] /\ (t.op = "refresh" => t.seen <= ccGen[t.ctx])
      BY <1>t, <1>4, <2>1 DEF CcLoaded
    <2>4. ccGen[t.ctx] \in Nat /\ ccGen'[t.ctx] \in Nat /\ ccGen[t.ctx] <= ccGen'[t.ctx] /\ t.gen \in Nat
      BY <1>t, <2>2, CcNumbers DEF CcTypeOK, Gens
    <2>5. t.gen <= ccGen'[t.ctx]
      BY <2>3, <2>4
    <2>6. t.op = "refresh" => t.seen <= ccGen'[t.ctx]
      BY <2>2, <2>3, <2>4, CcNumbers
    <2> QED
      BY <2>1, <2>5, <2>6
  <1>5. CcLoaded'
    BY <1>4 DEF CcLoaded
  <1> QED
    BY <1>1, <1>2, <1>3, <1>5 DEF CcInv

(* Every step of registering, renewing, reconciling and releasing keeps the  *)
(* invariant.                                                                *)
LEMMA CcStepInv == CcInv /\ [CcNext]_ccVars => CcInv'
  <1> SUFFICES ASSUME CcInv, [CcNext]_ccVars PROVE CcInv'
    OBVIOUS
  <1>t. /\ ccOwner \in [CcContexts -> CcOwners] /\ ccGen \in [CcContexts -> 0..MaxCcGen] /\ ccAlias \in AliasTable
        /\ ccBound \in [CcContexts -> 0..MaxKeys] /\ ccKey \in [CcSessions -> 1..MaxKeys]
        /\ ccOver \subseteq CcSessions /\ ccLate \subseteq CcContexts /\ ccNow \in 0..MaxCcTime
        /\ ccTx \in [CcSessions -> CcTxState]
    BY DEF CcInv, CcTypeOK
  <1>0. GensFilled /\ CcLoaded /\ CcBinding /\ ActiveCodeIsNewest /\ ConversationUnambiguous
    BY DEF CcInv
  <1>c. Calmer(ccAlias)
    BY DEF Calmer
  <1>n. \A d \in CcContexts : ccGen[d] \in Nat /\ ccGen[d] <= ccGen[d]
    BY <1>t, CcNumbers
  <1>1. CASE CcTick
    <2>1. ccNow' \in 0..MaxCcTime /\ UNCHANGED <<ccOwner, ccGen, ccAlias, bindVars, ccTx>>
      BY <1>t, <1>1, CcNumbers DEF CcTick
    <2> QED
      BY <1>t, <1>0, <2>1 DEF bindVars, CcInv, CcTypeOK, GensFilled, CcLoaded, CcBinding, ActiveCodeIsNewest, ConversationUnambiguous
  <1>2. ASSUME NEW s \in CcSessions, RotateKey(s) PROVE CcInv'
    <2>1. PICK k \in 1..MaxKeys : ccKey' = [ccKey EXCEPT ![s] = k]
      BY <1>2 DEF RotateKey
    <2>2. ccKey' \in [CcSessions -> 1..MaxKeys]
      BY <1>t, <2>1
    <2>3. /\ ccTx' = [ccTx EXCEPT ![s] = CcIdle]
          /\ UNCHANGED <<ccOwner, ccGen, ccAlias, ccBound, ccOver, ccLate, ccNow>>
      BY <1>2 DEF RotateKey, CcEnd
    <2> QED
      BY <1>t, <2>2, <2>3, CcIdleState, CcSessionMoves
  <1>3. ASSUME NEW c \in CcContexts, CreateContext(c) PROVE CcInv'
    <2>1. PICK k \in CcCodes : AllocateAlias(ccAlias, c, 0, k)
      BY <1>3 DEF CreateContext
    <2>2. PICK n \in Nat : n = 0 /\ n <= ccGen[c]
      BY <1>n
    <2>3. UNCHANGED <<ccOwner, bindVars, ccNow, ccTx>>
      BY <1>3 DEF CreateContext
    <2>4. /\ ccAlias' \in AliasTable /\ ccGen' \in [CcContexts -> 0..MaxCcGen]
          /\ \A d \in CcContexts : ccGen[d] <= ccGen'[d]
          /\ GensFilled' /\ ActiveCodeIsNewest'
      BY <1>t, <1>0, <1>c, <2>1, <2>2, AllocatedNewest
    <2> QED
      BY <2>3, <2>4, CcAliasesMove
  <1>4. ASSUME NEW s \in CcSessions, NEW c \in CcContexts, EnsureRead(s, c) PROVE CcInv'
    <2>1. PICK n \in Gens : n = ccGen[c]
      BY <1>t, <1>4, CcNumbers DEF EnsureRead, Gens
    <2>2. PICK t : t = [op |-> "refresh", ctx |-> c, gen |-> n, seen |-> n, row |-> NoAlias, force |-> FALSE]
      OBVIOUS
    <2>3. t \in CcTxState /\ t.op = "refresh" /\ t.ctx = c /\ t.gen = n /\ t.seen = n
      BY <2>1, <2>2, GoodIsAlias, CcNumbers DEF CcTxState, Gens
    <2>4. n <= ccGen[c]
      BY <1>n, <2>1
    <2>5. ccTx' = [ccTx EXCEPT ![s] = t] /\ UNCHANGED <<ccOwner, ccGen, ccAlias, bindVars, ccNow>>
      BY <1>4, <2>1, <2>2 DEF EnsureRead, CcBegin
    <2> QED
      BY <2>1, <2>3, <2>4, <2>5, CcLoads
  <1>g. ASSUME NEW c \in CcContexts, NEW g \in Gens, ccAlias[c][g].status # "none"
        PROVE  ccAlias[c][g] \in GoodAlias /\ g <= ccGen[c]
    <2>1. ~(g > ccGen[c]) /\ g \in Nat
      BY <1>0, <1>g, CcNumbers DEF GensFilled, Gens
    <2> QED
      BY <1>t, <1>n, <2>1 DEF AliasTable
  <1>5. ASSUME NEW s \in CcSessions, NEW c \in CcContexts, NEW g \in Gens, ResolveRead(s, c, g) PROVE CcInv'
    <2>1. PICK row \in GoodAlias : row = ccAlias[c][g] /\ g <= ccGen[c]
      BY <1>g, <1>5 DEF ResolveRead
    <2>2. PICK t : t = [op |-> "resolve", ctx |-> c, gen |-> g, row |-> row]
      OBVIOUS
    <2>3. t \in CcTxState /\ t.op = "resolve" /\ t.ctx = c /\ t.gen = g
      BY <2>1, <2>2 DEF CcTxState
    <2>4. ccTx' = [ccTx EXCEPT ![s] = t] /\ UNCHANGED <<ccOwner, ccGen, ccAlias, bindVars, ccNow>>
      BY <1>5, <2>1, <2>2 DEF ResolveRead, CcBegin
    <2> QED
      BY <2>1, <2>3, <2>4, CcLoads
  <1>6. ASSUME NEW s \in CcSessions, NEW c \in CcContexts, NEW g \in Gens, RefreshRead(s, c, g) PROVE CcInv'
    <2>1. PICK row \in GoodAlias : row = ccAlias[c][g] /\ g <= ccGen[c]
      BY <1>g, <1>6 DEF RefreshRead
    <2>2. PICK t : t = [op |-> "refresh", ctx |-> c, gen |-> g, seen |-> 0, row |-> row, force |-> TRUE]
      OBVIOUS
    <2>3. t \in CcTxState /\ t.op = "refresh" /\ t.ctx = c /\ t.gen = g /\ t.seen = 0
      BY <2>1, <2>2, CcNumbers DEF CcTxState
    <2>4. ccTx' = [ccTx EXCEPT ![s] = t] /\ UNCHANGED <<ccOwner, ccGen, ccAlias, bindVars, ccNow>>
      BY <1>6, <2>1, <2>2 DEF RefreshRead, CcBegin
    <2>5. 0 <= ccGen[c]
      BY <1>n
    <2> QED
      BY <2>1, <2>3, <2>4, <2>5, CcLoads
  <1>7. ASSUME NEW s \in CcSessions, ResolveLocked(s) PROVE CcInv'
    <2>1. PICK t \in CcTxState : t = ccTx[s]
      BY <1>t
    <2>2. t.op = "resolve" /\ t.gen <= ccGen[t.ctx]
      BY <1>0, <1>7, <2>1 DEF ResolveLocked, CcLoaded
    <2>3. PICK c \in CcContexts, g \in Gens, loaded \in GoodAlias : c = t.ctx /\ g = t.gen /\ loaded = t.row
      BY <2>1, <2>2, CcTxFields
    <2>4. PICK row \in GoodAlias : row = ccAlias[c][g]
      BY <1>t, <2>3 DEF AliasTable
    <2>5. row.status # "none"
      <3>1. g \in Nat /\ g <= ccGen[c] /\ ccGen[c] \in Nat
        BY <1>n, <2>2, <2>3, CcNumbers DEF Gens
      <3>2. ~(g > ccGen[c])
        BY <3>1
      <3> QED
        BY <1>0, <2>3, <2>4, <3>2 DEF GensFilled
    <2>6. PICK a : a = ReconcileAlias(loaded)
      OBVIOUS
    <2>7. a \in GoodAlias
      BY <2>3, <2>6, ReconcileRow
    <2>8. PICK renewed : renewed = RenewAlias(a, FALSE)
      OBVIOUS
    <2>9. renewed \in GoodAlias /\ renewed.status = a.status
      BY <1>t, <2>7, <2>8, RenewRow
    <2>10. PICK new : new = IF a.status = "active" THEN renewed ELSE a
      OBVIOUS
    <2>11. new \in GoodAlias /\ new.status = a.status
      BY <2>7, <2>9, <2>10
    <2>12. PICK r : r = Flush(row, loaded, new)
      OBVIOUS
    <2>13. r \in GoodAlias /\ r.status # "none" /\ (r.status = "active" => row.status = "active")
      BY <2>3, <2>4, <2>5, <2>6, <2>11, <2>12, FlushedCalm
    <2>14. /\ ccAlias' = [ccAlias EXCEPT ![c][g] = r] /\ ccTx' = [ccTx EXCEPT ![s] = CcIdle]
           /\ UNCHANGED <<ccOwner, ccGen, bindVars, ccNow>>
      BY <1>7, <1>t, <2>1, <2>3, <2>4, <2>6, <2>8, <2>10, <2>12 DEF ResolveLocked, CcEnd, AliasTable
    <2>15. ccAlias' \in AliasTable /\ Calmer(ccAlias')
      BY <1>t, <1>c, <2>3, <2>4, <2>5, <2>13, <2>14, CalmRow
    <2>16. GensFilled' /\ ActiveCodeIsNewest'
      BY <1>0, <2>14, <2>15, CalmKeeps
    <2> QED
      BY <1>t, <1>n, <2>14, <2>15, <2>16, CcAliasesMove
  <1>8. ASSUME NEW s \in CcSessions, RefreshLocked(s) PROVE CcInv'
    <2>1. ccTx' = [ccTx EXCEPT ![s] = CcIdle] /\ UNCHANGED <<ccOwner, bindVars, ccNow>>
      BY <1>8 DEF RefreshLocked, CcEnd
    <2>2. /\ ccAlias' \in AliasTable /\ ccGen' \in [CcContexts -> 0..MaxCcGen]
          /\ \A d \in CcContexts : ccGen[d] <= ccGen'[d]
          /\ GensFilled' /\ ActiveCodeIsNewest'
      BY <1>8, RefreshedNewest
    <2> QED
      BY <2>1, <2>2, CcAliasesMove
  <1>9. ASSUME NEW s \in CcSessions, Abort(s) PROVE CcInv'
    BY <1>t, <1>9, CcIdleState, CcSessionMoves DEF Abort, CcEnd, bindVars
  <1>10. ASSUME NEW s \in CcSessions, NEW c \in CcContexts, BindRead(s, c) PROVE CcInv'
    <2>1. PICK t : t = [op |-> "bind", ctx |-> c, key |-> ccKey[s]]
      OBVIOUS
    <2>2. t \in CcTxState /\ t.op = "bind" /\ t.ctx = c
      BY <1>t, <2>1 DEF CcTxState
    <2>3. \A d \in CcContexts \ {c} : ccOwner[d] = ccOwner[c] => ccBound[d] = 0
      <3>1. \A d \in CcContexts : ccBound[d] \in Nat
        BY <1>t, CcNumbers
      <3> QED
        BY <1>10, <3>1 DEF BindRead, BoundToOther
    <2>4. /\ ccTx' = [ccTx EXCEPT ![s] = t] /\ ccOver' = ccOver \ {s}
          /\ UNCHANGED <<ccOwner, ccGen, ccAlias, ccBound, ccKey, ccLate, ccNow>>
      BY <1>10, <2>1 DEF BindRead, CcBegin
    <2> QED
      BY <1>t, <2>2, <2>3, <2>4, CcSessionMoves
  <1>11. ASSUME NEW s \in CcSessions, BindCommit(s) PROVE CcInv'
    <2>1. PICK t \in CcTxState : t = ccTx[s]
      BY <1>t
    <2>2. t.op = "bind"
      BY <1>11, <2>1 DEF BindCommit
    <2>3. PICK c \in CcContexts, k \in 1..MaxKeys : c = t.ctx /\ k = t.key
      BY <2>1, <2>2, CcTxFields
    <2>4. /\ ccBound' = [ccBound EXCEPT ![c] = k] /\ ccTx' = [ccTx EXCEPT ![s] = CcIdle]
          /\ ccOver' = ccOver \cup {x \in CcSessions \ {s} : ccTx[x].op = "bind"}
          /\ ccLate' = IF s \in ccOver THEN ccLate \cup {c} ELSE ccLate
          /\ UNCHANGED <<ccOwner, ccGen, ccAlias, ccKey, ccNow>>
      BY <1>11, <2>1, <2>2, <2>3 DEF BindCommit, CcEnd
    <2>5. /\ s \notin ccOver => \A d \in CcContexts \ {c} : ccOwner[d] = ccOwner[c] => ccBound[d] = 0
          /\ \A d \in CcContexts \ {c} : ccOwner[d] = ccOwner[c] => ccBound[d] # k
      BY <1>0, <1>11, <2>1, <2>2, <2>3 DEF BindCommit, CcBinding
    <2>6. /\ ccBound' \in [CcContexts -> 0..MaxKeys] /\ ccOver' \subseteq CcSessions /\ ccLate' \subseteq CcContexts
          /\ ccBound'[c] = k /\ \A d \in CcContexts : d # c => ccBound'[d] = ccBound[d]
      BY <1>t, <2>4, CcNumbers
    <2>7. ccTx' \in [CcSessions -> CcTxState] /\ \A x \in CcSessions : ccTx'[x] = ccTx[x] \/ ccTx'[x].op = "idle"
      BY <1>t, <2>4, CcIdleState
    <2>8. CcTypeOK' /\ ccAlias' \in AliasTable
      BY <1>t, <2>4, <2>6, GoodIsAlias DEF CcTypeOK
    <2>9. GensFilled' /\ ActiveCodeIsNewest'
      BY <1>0, <2>4 DEF GensFilled, ActiveCodeIsNewest
    <2>10. CcLoaded'
      BY <1>0, <2>4, <2>7 DEF CcLoaded
    <2>11. CcBinding'
      <3>1. \A x \in CcSessions : ccTx'[x].op = "bind" => x \in ccOver'
        BY <1>t, <2>4, <2>7, CcIdleState
      <3> QED
        BY <3>1 DEF CcBinding
    <2>12. ConversationUnambiguous'
      <3>1. ASSUME NEW d \in CcContexts, NEW e \in CcContexts, d # e, ccOwner[d] = ccOwner[e],
                   ccBound'[d] > 0, ccBound'[e] > 0
            PROVE  ccBound'[d] # ccBound'[e] /\ (d \in ccLate' \/ e \in ccLate')
        <4>1. CASE d # c /\ e # c
          BY <1>0, <2>4, <2>6, <3>1, <4>1 DEF ConversationUnambiguous
        <4>2. CASE d = c
          <5>1. ccBound[e] > 0 /\ ccBound'[e] = ccBound[e] /\ ccBound[e] # 0
            BY <1>t, <2>6, <3>1, <4>2, CcNumbers
          <5> QED
            BY <2>4, <2>5, <2>6, <3>1, <4>2, <5>1
        <4>3. CASE e = c
          <5>1. ccBound[d] > 0 /\ ccBound'[d] = ccBound[d] /\ ccBound[d] # 0
            BY <1>t, <2>6, <3>1, <4>3, CcNumbers
          <5> QED
            BY <2>4, <2>5, <2>6, <3>1, <4>3, <5>1
        <4> QED
          BY <4>1, <4>2, <4>3
      <3> QED
        BY <2>4, <3>1 DEF ConversationUnambiguous
    <2> QED
      BY <2>7, <2>8, <2>9, <2>10, <2>11, <2>12 DEF CcInv
  <1>12. CASE UNCHANGED ccVars
    BY <1>t, <1>0, <1>12 DEF ccVars, bindVars, CcInv, CcTypeOK, GensFilled, CcLoaded, CcBinding, ActiveCodeIsNewest, ConversationUnambiguous
  <1> QED
    BY <1>1, <1>2, <1>3, <1>4, <1>5, <1>6, <1>7, <1>8, <1>9, <1>10, <1>11, <1>12 DEF CcNext, CodeNext, BindNext

\* The active code of a chat is the newest its context was given, although
\* sessions go on with aliases loaded before they had the lock; a conversation
\* of an owner is bound to one context, unless bindings under different key
\* versions overlapped (refresh_alias, bind_conversation).
THEOREM ChatContextsCorrect == CcSpec => []ChatContextsSound
  <1>1. CcInv => ChatContextsSound
    BY DEF CcInv, ChatContextsSound
  <1> QED
    BY <1>1, CcInitInv, CcStepInv, PTL DEF CcSpec

-----------------------------------------------------------------------------
(* Lineage of the connectors (OAuthLineage)                                *)

OaTxState == {OaIdle} \cup [op : {"token"}, code : OaCodes, client : OaClients, row : ClientRow]

\* A code that a request has loaded was issued.
OaCodesIssued == \A s \in OaSessions : oaTx[s].op = "token" => oaCode[oaTx[s].code].state # "none"

OaHolders == {c \in OaClients : oaClient[c].mode # "off"}

\* Before the first operator change there is no policy, after it one holder.
OaOneHolder ==
    /\ oaOps = 0 => OaHolders = {}
    /\ oaOps = 1 => \E c \in OaClients : OaHolders = {c}

\* One process serves one token request at a time and on the current row.
OaSerial ==
    oaReplicas = 1 =>
      /\ \A s, x \in OaSessions : oaTx[s].op = "token" /\ oaTx[x].op = "token" => s = x
      /\ \A s \in OaSessions : oaTx[s].op = "token" =>
            /\ oaTx[s].row.mode = oaClient[oaTx[s].client].mode
            /\ oaTx[s].row.gen = oaClient[oaTx[s].client].gen

\* A token of the current generation carries the current mode, and none is of
\* a later generation.
OaTokensBehind ==
    oaReplicas = 1 =>
      \A tk \in oaTokens : /\ tk.gen <= oaClient[tk.client].gen
                           /\ tk.gen = oaClient[tk.client].gen => tk.mode = oaClient[tk.client].mode

OaInv == OaTypeOK /\ oaTx \in [OaSessions -> OaTxState] /\ OaCodesIssued /\ OaOneHolder /\ OaSerial /\ OaTokensBehind

\* The fields of what a token request has loaded.
LEMMA OaTxFields ==
  ASSUME NEW t \in OaTxState, t.op = "token"
  PROVE  t.code \in OaCodes /\ t.client \in OaClients /\ t.row \in ClientRow
  BY DEF OaTxState, OaIdle

(* The idle session is one of the session states.                            *)
LEMMA OaIdleState == OaIdle \in OaTxState /\ OaIdle.op = "idle"
  BY DEF OaTxState, OaIdle

(* Without codes and tokens the invariant holds.                             *)
LEMMA OaInitInv == OaInit => OaInv
  <1> SUFFICES ASSUME OaInit PROVE OaInv
    OBVIOUS
  <1>1. [known |-> FALSE, mode |-> "off", gen |-> 1] \in ClientRow
    BY OAuthLineageAssumption DEF ClientRow, Modes
  <1>2. oaClient \in [OaClients -> ClientRow] /\ \A c \in OaClients : oaClient[c].mode = "off"
    BY <1>1 DEF OaInit
  <1>3. oaTx \in [OaSessions -> OaTxState] /\ \A s \in OaSessions : oaTx[s].op = "idle"
    BY OaIdleState DEF OaInit
  <1>4. OaTypeOK
    BY <1>2, OAuthLineageAssumption DEF OaInit, OaTypeOK
  <1>5. OaCodesIssued /\ OaSerial /\ OaTokensBehind
    BY <1>3 DEF OaInit, OaCodesIssued, OaSerial, OaTokensBehind
  <1>6. OaOneHolder
    BY <1>2 DEF OaInit, OaOneHolder, OaHolders
  <1> QED
    BY <1>3, <1>4, <1>5, <1>6 DEF OaInv

\* What a step does to a code is to issue, expire or consume it.
LEMMA OaCodeMoves ==
  ASSUME DOMAIN oaCode = OaCodes, \A k \in OaCodes : oaCode[k].state = "none" \/ oaCode[k] \in CodeRow,
         NEW j \in OaCodes, NEW row \in CodeRow, row.state # "none", oaCode' = [oaCode EXCEPT ![j] = row]
  PROVE  /\ DOMAIN oaCode' = OaCodes /\ \A k \in OaCodes : oaCode'[k].state = "none" \/ oaCode'[k] \in CodeRow
         /\ \A k \in OaCodes : oaCode[k].state # "none" => oaCode'[k].state # "none"
  OBVIOUS

\* A row marked as known keeps its policy.
LEMMA OaKnown ==
  ASSUME oaClient \in [OaClients -> ClientRow], NEW c \in OaClients, oaClient' = [oaClient EXCEPT ![c].known = TRUE]
  PROVE  /\ oaClient' \in [OaClients -> ClientRow]
         /\ \A d \in OaClients : oaClient'[d].mode = oaClient[d].mode /\ oaClient'[d].gen = oaClient[d].gen
  BY DEF ClientRow

\* Every step keeps the lineage.
LEMMA OaStepInv == OaInv /\ [OaNext]_oaVars => OaInv'
  <1> SUFFICES ASSUME OaInv, [OaNext]_oaVars PROVE OaInv'
    OBVIOUS
  <1>t. /\ oaReplicas \in {1, 2} /\ oaClient \in [OaClients -> ClientRow]
        /\ oaTokens \subseteq Token /\ oaOps \in 0..MaxOperator /\ oaTx \in [OaSessions -> OaTxState]
    BY DEF OaInv, OaTypeOK
  <1>c. DOMAIN oaCode = OaCodes /\ \A k \in OaCodes : oaCode[k].state = "none" \/ oaCode[k] \in CodeRow
    BY DEF OaInv, OaTypeOK
  <1>0. OaCodesIssued /\ OaOneHolder /\ OaSerial /\ OaTokensBehind
    BY DEF OaInv
  <1>k. \A tk \in oaTokens : tk.client \in OaClients
    BY <1>t DEF Token
  \* Steps that leave the policies, the tokens and the requests alone.
  <1>q. ASSUME \A d \in OaClients : oaClient'[d].mode = oaClient[d].mode /\ oaClient'[d].gen = oaClient[d].gen,
               UNCHANGED <<oaReplicas, oaTokens, oaOps, oaTx>>
        PROVE  OaOneHolder' /\ OaSerial' /\ OaTokensBehind'
    <2>1. OaHolders' = OaHolders
      BY <1>q DEF OaHolders
    <2>2. OaSerial'
      BY <1>t, <1>0, <1>q, OaTxFields DEF OaSerial
    <2> QED
      BY <1>0, <1>k, <1>q, <2>1, <2>2 DEF OaOneHolder, OaTokensBehind
  <1>1. ASSUME NEW c \in OaClients, RegisterClient(c) PROVE OaInv'
    <2>1. oaClient' = [oaClient EXCEPT ![c].known = TRUE] /\ UNCHANGED <<oaReplicas, oaCode, oaTokens, oaOps, oaTx>>
      BY <1>1 DEF RegisterClient
    <2>2. OaOneHolder' /\ OaSerial' /\ OaTokensBehind' /\ oaClient' \in [OaClients -> ClientRow]
      BY <1>t, <1>q, <2>1, OaKnown
    <2>3. OaCodesIssued'
      BY <1>0, <2>1 DEF OaCodesIssued
    <2> QED
      BY <1>t, <1>c, <2>1, <2>2, <2>3 DEF OaInv, OaTypeOK
  <1>2. ASSUME NEW k \in OaCodes, NEW c \in OaClients, Authorize(k, c) PROVE OaInv'
    <2>1. PICK row : row = [client |-> c, state |-> "issued"]
      OBVIOUS
    <2>2. row \in CodeRow /\ row.state # "none"
      BY <2>1 DEF CodeRow
    <2>3. /\ oaClient' = [oaClient EXCEPT ![c].known = TRUE] /\ oaCode' = [oaCode EXCEPT ![k] = row]
          /\ UNCHANGED <<oaReplicas, oaTokens, oaOps, oaTx>>
      BY <1>2, <2>1 DEF Authorize
    <2>4. OaOneHolder' /\ OaSerial' /\ OaTokensBehind' /\ oaClient' \in [OaClients -> ClientRow]
      BY <1>t, <1>q, <2>3, OaKnown
    <2>5. /\ DOMAIN oaCode' = OaCodes /\ \A j \in OaCodes : oaCode'[j].state = "none" \/ oaCode'[j] \in CodeRow
          /\ \A j \in OaCodes : oaCode[j].state # "none" => oaCode'[j].state # "none"
      BY <1>c, <2>2, <2>3, OaCodeMoves
    <2>6. OaCodesIssued'
      BY <1>t, <1>0, <2>3, <2>5, OaTxFields DEF OaCodesIssued
    <2> QED
      BY <1>t, <2>3, <2>4, <2>5, <2>6 DEF OaInv, OaTypeOK
  <1>3. ASSUME NEW k \in OaCodes, CodeExpires(k) PROVE OaInv'
    <2>0. PICK old \in CodeRow : old = oaCode[k]
      BY <1>c, <1>3 DEF CodeExpires
    <2>1. PICK row : row = [old EXCEPT !.state = "expired"]
      OBVIOUS
    <2>2. row \in CodeRow /\ row.state # "none"
      BY <2>0, <2>1 DEF CodeRow
    <2>3. oaCode' = [oaCode EXCEPT ![k] = row] /\ UNCHANGED <<oaReplicas, oaClient, oaTokens, oaOps, oaTx>>
      BY <1>3, <1>c, <2>0, <2>1 DEF CodeExpires
    <2>4. OaOneHolder' /\ OaSerial' /\ OaTokensBehind'
      BY <1>q, <2>3
    <2>5. /\ DOMAIN oaCode' = OaCodes /\ \A j \in OaCodes : oaCode'[j].state = "none" \/ oaCode'[j] \in CodeRow
          /\ \A j \in OaCodes : oaCode[j].state # "none" => oaCode'[j].state # "none"
      BY <1>c, <2>2, <2>3, OaCodeMoves
    <2>6. OaCodesIssued'
      BY <1>t, <1>0, <2>3, <2>5, OaTxFields DEF OaCodesIssued
    <2> QED
      BY <1>t, <2>3, <2>4, <2>5, <2>6 DEF OaInv, OaTypeOK
  <1>4. ASSUME NEW s \in OaSessions, NEW k \in OaCodes, TokenRead(s, k) PROVE OaInv'
    <2>0. PICK c : c = oaCode[k].client
      OBVIOUS
    <2>1. c \in OaClients /\ oaClient[c] \in ClientRow /\ oaCode[k].state = "issued"
      BY <1>t, <1>c, <1>4, <2>0 DEF TokenRead, CodeRow
    <2>2. PICK t : t = [op |-> "token", code |-> k, client |-> c, row |-> oaClient[c]]
      OBVIOUS
    <2>3. t \in OaTxState /\ t.op = "token" /\ t.code = k /\ t.client = c /\ t.row = oaClient[c]
      BY <2>1, <2>2 DEF OaTxState
    <2>4. /\ oaTx' = [oaTx EXCEPT ![s] = t] /\ UNCHANGED <<oaReplicas, oaClient, oaCode, oaTokens, oaOps>>
          /\ oaReplicas = 1 => \A x \in OaSessions : oaTx[x] = OaIdle
      BY <1>4, <2>0, <2>2 DEF TokenRead
    <2>5. oaTx' \in [OaSessions -> OaTxState] /\ OaCodesIssued'
      BY <1>t, <1>0, <2>1, <2>3, <2>4 DEF OaCodesIssued
    <2>6. OaSerial'
      BY <1>t, <1>0, <2>3, <2>4, OaIdleState DEF OaSerial
    <2>7. OaOneHolder' /\ OaTokensBehind'
      BY <1>0, <2>4 DEF OaOneHolder, OaHolders, OaTokensBehind
    <2> QED
      BY <1>t, <1>c, <2>4, <2>5, <2>6, <2>7 DEF OaInv, OaTypeOK
  <1>5. ASSUME NEW s \in OaSessions, TokenAmbiguous(s) PROVE OaInv'
    <2>1. oaTx' = [oaTx EXCEPT ![s] = OaIdle] /\ UNCHANGED <<oaReplicas, oaClient, oaCode, oaTokens, oaOps>>
      BY <1>5 DEF TokenAmbiguous
    <2>2. oaTx' \in [OaSessions -> OaTxState] /\ OaCodesIssued' /\ OaSerial'
      BY <1>t, <1>0, <2>1, OaIdleState DEF OaCodesIssued, OaSerial
    <2>3. OaOneHolder' /\ OaTokensBehind'
      BY <1>0, <2>1 DEF OaOneHolder, OaHolders, OaTokensBehind
    <2> QED
      BY <1>t, <1>c, <2>1, <2>2, <2>3 DEF OaInv, OaTypeOK
  <1>6. ASSUME NEW s \in OaSessions, TokenCommit(s) PROVE OaInv'
    <2>0. PICK t \in OaTxState : t = oaTx[s]
      BY <1>t
    <2>1. t.op = "token" /\ t.code \in OaCodes /\ t.client \in OaClients /\ t.row \in ClientRow
      BY <1>6, <2>0, OaTxFields DEF TokenCommit
    <2>2. oaTx' = [oaTx EXCEPT ![s] = OaIdle] /\ UNCHANGED <<oaReplicas, oaOps>>
      BY <1>6 DEF TokenCommit
    <2>3. /\ oaTx' \in [OaSessions -> OaTxState] /\ oaTx'[s].op = "idle"
          /\ \A x \in OaSessions : x # s => oaTx'[x] = oaTx[x]
      BY <1>t, <2>2, OaIdleState
    <2>4. PICK code \in CodeRow : code = oaCode[t.code]
      BY <1>0, <1>c, <2>0, <2>1 DEF OaCodesIssued
    <2>5. PICK row : row = [code EXCEPT !.state = "consumed"]
      OBVIOUS
    <2>6. row \in CodeRow /\ row.state # "none"
      BY <2>4, <2>5 DEF CodeRow
    <2>7. oaCode' = [oaCode EXCEPT ![t.code] = row]
      BY <1>6, <1>c, <2>0, <2>1, <2>4, <2>5 DEF TokenCommit
    <2>8. /\ DOMAIN oaCode' = OaCodes /\ \A j \in OaCodes : oaCode'[j].state = "none" \/ oaCode'[j] \in CodeRow
          /\ \A j \in OaCodes : oaCode[j].state # "none" => oaCode'[j].state # "none"
      BY <1>c, <2>1, <2>6, <2>7, OaCodeMoves
    <2>9. OaCodesIssued'
      BY <1>t, <1>0, <2>3, <2>8, OaTxFields DEF OaCodesIssued
    <2>a. oaReplicas = 1 => \A x \in OaSessions : oaTx'[x].op # "token"
      BY <1>0, <2>0, <2>1, <2>3 DEF OaSerial
    <2>b. OaSerial'
      BY <2>2, <2>a DEF OaSerial
    <2>10. CASE /\ oaTokens' = oaTokens \cup {[client |-> t.client, mode |-> t.row.mode, gen |-> t.row.gen]}
                /\ UNCHANGED oaClient
      <3>1. PICK tk : tk = [client |-> t.client, mode |-> t.row.mode, gen |-> t.row.gen]
        OBVIOUS
      <3>2. tk \in Token /\ tk.client = t.client /\ tk.mode = t.row.mode /\ tk.gen = t.row.gen
        BY <2>1, <3>1 DEF Token, ClientRow
      <3>3. oaReplicas = 1 => tk.mode = oaClient[tk.client].mode /\ tk.gen = oaClient[tk.client].gen
        BY <1>0, <2>0, <2>1, <3>2 DEF OaSerial
      <3>4. tk.gen \in Nat
        BY <3>2 DEF Token
      <3>5. oaTokens' \subseteq Token /\ OaTokensBehind'
        BY <1>t, <1>0, <2>2, <2>10, <3>1, <3>2, <3>3, <3>4 DEF OaTokensBehind
      <3>6. OaOneHolder'
        BY <1>0, <2>2, <2>10 DEF OaOneHolder, OaHolders
      <3> QED
        BY <1>t, <2>2, <2>3, <2>8, <2>9, <2>b, <2>10, <3>5, <3>6 DEF OaInv, OaTypeOK
    <2>11. ASSUME NEW d \in Consulted(t), NEW new, new = [t.row EXCEPT !.mode = oaClient[d].mode, !.gen = @ + 1],
                  new.gen <= MaxOaGen, oaClient[d].gen < MaxOaGen,
                  oaClient' = [oaClient EXCEPT ![t.client] = new, ![d] = HandedOver(d)],
                  oaTokens' = oaTokens \cup {[client |-> t.client, mode |-> new.mode, gen |-> new.gen]}
           PROVE  OaInv'
      <3>1. d \in OaClients /\ d # t.client /\ oaClient[d].mode # "off"
        BY <2>11 DEF Consulted, Predecessors
      <3>2. PICK old \in ClientRow : old = oaClient[d]
        BY <1>t, <3>1
      <3>a. MaxOaGen \in Nat
        BY OAuthLineageAssumption
      <3>b. t.row.gen \in 1..MaxOaGen /\ old.gen \in 1..MaxOaGen /\ old.mode \in Modes
        BY <2>1, <3>2 DEF ClientRow
      <3>c. PICK g \in Nat : g = t.row.gen + 1
        BY <3>a, <3>b
      <3>d. new = [t.row EXCEPT !.mode = old.mode, !.gen = g]
        BY <2>11, <3>2, <3>c
      <3>e. new.gen = g
        BY <2>1, <3>d DEF ClientRow
      <3>f. g \in 1..MaxOaGen
        BY <2>11, <3>a, <3>b, <3>c, <3>e
      <3>3. new \in ClientRow /\ new.mode = old.mode /\ new.gen = g
        BY <2>1, <3>b, <3>d, <3>f DEF ClientRow
      <3>4. PICK left : left = HandedOver(d)
        OBVIOUS
      <3>g. PICK h \in 1..MaxOaGen : h = old.gen + 1
        BY <2>11, <3>2, <3>a, <3>b
      <3>h. left = [old EXCEPT !.mode = "off", !.gen = h] /\ "off" \in Modes
        BY <3>2, <3>4, <3>g DEF HandedOver, Modes
      <3>5. left \in ClientRow /\ left.mode = "off" /\ left.gen = h
        BY <3>2, <3>g, <3>h DEF ClientRow
      <3>6. /\ oaClient' \in [OaClients -> ClientRow] /\ oaClient'[t.client] = new /\ oaClient'[d] = left
            /\ \A c \in OaClients \ {t.client, d} : oaClient'[c] = oaClient[c]
        BY <1>t, <2>1, <2>11, <3>1, <3>3, <3>4, <3>5
      <3>7. OaOneHolder'
        <4>1. oaOps # 0
          BY <1>0, <3>1 DEF OaOneHolder, OaHolders
        <4>2. ASSUME oaOps = 1 PROVE OaHolders' = {t.client}
          <5>1. OaHolders = {d}
            BY <1>0, <3>1, <4>2 DEF OaOneHolder, OaHolders
          <5>2. \A c \in OaClients : oaClient'[c].mode # "off" <=> c = t.client
            BY <2>1, <3>1, <3>2, <3>3, <3>5, <3>6, <5>1 DEF OaHolders
          <5> QED
            BY <2>1, <5>2 DEF OaHolders
        <4> QED
          BY <2>1, <2>2, <4>1, <4>2 DEF OaOneHolder
      <3>8. PICK tk : tk = [client |-> t.client, mode |-> new.mode, gen |-> new.gen]
        OBVIOUS
      <3>9. tk \in Token /\ tk.client = t.client /\ tk.mode = new.mode /\ tk.gen = new.gen /\ tk.gen \in Nat
        BY <2>1, <3>3, <3>8 DEF Token, ClientRow
      <3>10. oaTokens' \subseteq Token
        BY <1>t, <2>11, <3>8, <3>9
      <3>11. ASSUME oaReplicas = 1, NEW x \in oaTokens'
             PROVE  /\ x.gen <= oaClient'[x.client].gen
                    /\ x.gen = oaClient'[x.client].gen => x.mode = oaClient'[x.client].mode
        <4>0. t.row.gen = oaClient[t.client].gen /\ oaClient[t.client].gen \in Nat /\ old.gen \in Nat
          BY <1>t, <1>0, <2>0, <2>1, <3>2, <3>11 DEF OaSerial, ClientRow
        <4>1. CASE x = tk
          BY <3>6, <3>9, <4>1
        <4>2. CASE x \in oaTokens
          <5>1. x.client \in OaClients /\ x.gen \in Nat /\ x.gen <= oaClient[x.client].gen
            BY <1>t, <1>0, <3>11, <4>2 DEF Token, OaTokensBehind
          <5>2. CASE x.client = t.client
            BY <3>3, <3>c, <3>6, <4>0, <5>1, <5>2
          <5>3. CASE x.client = d
            BY <3>2, <3>5, <3>g, <3>6, <4>0, <5>1, <5>3
          <5>4. CASE x.client \notin {t.client, d}
            BY <1>0, <3>6, <3>11, <4>2, <5>1, <5>4 DEF OaTokensBehind
          <5> QED
            BY <5>2, <5>3, <5>4
        <4> QED
          BY <2>11, <3>8, <3>11, <4>1, <4>2
      <3>12. OaTokensBehind'
        BY <2>2, <3>11 DEF OaTokensBehind
      <3> QED
        BY <1>t, <2>2, <2>3, <2>8, <2>9, <2>b, <3>6, <3>7, <3>10, <3>12 DEF OaInv, OaTypeOK
    <2> QED
      BY <1>6, <2>0, <2>10, <2>11 DEF TokenCommit
  <1>7. ASSUME NEW c \in OaClients, NEW m \in Modes, UpdateProfile(c, m) PROVE OaInv'
    <2>0. PICK old \in ClientRow : old = oaClient[c]
      BY <1>t
    <2>a. MaxOaGen \in Nat /\ MaxOperator \in Nat /\ old.gen < MaxOaGen /\ old.gen \in 1..MaxOaGen
      BY <1>7, <2>0, OAuthLineageAssumption DEF UpdateProfile, ClientRow
    <2>b. PICK g \in 1..MaxOaGen : g = old.gen + 1
      BY <2>a
    <2>1. PICK row : row = [old EXCEPT !.mode = m, !.gen = g]
      OBVIOUS
    <2>2. row \in ClientRow /\ row.mode = m /\ row.gen = g
      BY <1>7, <2>0, <2>1, <2>b DEF ClientRow
    <2>c. oaClient' = [oaClient EXCEPT ![c] = row]
      <3>1. oaClient' = [oaClient EXCEPT ![c].mode = m, ![c].gen = oaClient[c].gen + 1]
        BY <1>7, <1>t DEF UpdateProfile, ClientRow
      <3> QED
        BY <1>t, <2>0, <2>1, <2>b, <3>1 DEF ClientRow
    <2>d. oaOps' = oaOps + 1 /\ oaOps < MaxOperator
      BY <1>7 DEF UpdateProfile
    <2>e. oaOps' \in 0..MaxOperator
      BY <1>t, <2>a, <2>d
    <2>3. /\ oaClient' = [oaClient EXCEPT ![c] = row] /\ oaOps' = oaOps + 1 /\ oaOps' \in 0..MaxOperator
          /\ oaReplicas = 1 => \A x \in OaSessions : oaTx[x] = OaIdle
          /\ UNCHANGED <<oaReplicas, oaCode, oaTokens, oaTx>>
      BY <1>7, <2>c, <2>d, <2>e DEF UpdateProfile
    <2>4. /\ oaClient' \in [OaClients -> ClientRow] /\ oaClient'[c] = row
          /\ \A d \in OaClients \ {c} : oaClient'[d] = oaClient[d]
      BY <1>t, <2>2, <2>3
    <2>5. OaOneHolder'
      <3>1. oaOps' # 0
        BY <1>t, <2>3
      <3>2. ASSUME oaOps' = 1 PROVE OaHolders' = {c}
        <4>1. oaOps = 0
          BY <1>t, <2>3, <3>2
        <4>2. OaHolders = {}
          BY <1>0, <4>1 DEF OaOneHolder
        <4>3. old.mode = "off" /\ m # "off"
          BY <1>7, <2>0, <4>2 DEF OaHolders, UpdateProfile
        <4> QED
          BY <2>2, <2>4, <4>2, <4>3 DEF OaHolders
      <3> QED
        BY <3>1, <3>2 DEF OaOneHolder
    <2>6. OaSerial' /\ OaCodesIssued'
      BY <1>0, <2>3, OaIdleState DEF OaSerial, OaCodesIssued
    <2>7. OaTokensBehind'
      <3>1. ASSUME oaReplicas = 1, NEW x \in oaTokens
            PROVE  /\ x.gen <= oaClient'[x.client].gen
                   /\ x.gen = oaClient'[x.client].gen => x.mode = oaClient'[x.client].mode
        <4>1. /\ x.client \in OaClients /\ x.gen \in Nat /\ x.gen <= oaClient[x.client].gen /\ old.gen \in Nat
              /\ x.gen = oaClient[x.client].gen => x.mode = oaClient[x.client].mode
          BY <1>t, <1>0, <2>0, <3>1 DEF Token, OaTokensBehind, ClientRow
        <4>2. CASE x.client = c
          BY <2>0, <2>2, <2>b, <2>4, <4>1, <4>2
        <4>3. CASE x.client # c
          BY <2>4, <4>1, <4>3
        <4> QED
          BY <4>2, <4>3
      <3> QED
        BY <2>3, <3>1 DEF OaTokensBehind
    <2> QED
      BY <1>t, <1>c, <2>3, <2>4, <2>5, <2>6, <2>7 DEF OaInv, OaTypeOK
  <1>8. CASE UNCHANGED oaVars
    BY <1>t, <1>c, <1>0, <1>8 DEF oaVars, OaInv, OaTypeOK, OaCodesIssued, OaOneHolder, OaHolders, OaSerial, OaTokensBehind
  <1> QED
    BY <1>1, <1>2, <1>3, <1>4, <1>5, <1>6, <1>7, <1>8 DEF OaNext

\* The chat-context policy of a connector is held once after one operator
\* change, however often clients reconnect, on one replica or two; and a token
\* that one replica accepts carries the mode its client has now.
THEOREM LineageCorrect == OaSpec => []LineageSound
  <1>1. ASSUME OaInv PROVE PolicyHeldOnce
    <2>1. ASSUME oaOps = 1 PROVE Cardinality(OaHolders) = 1
      <3>1. PICK c \in OaClients : OaHolders = {c}
        BY <1>1, <2>1 DEF OaInv, OaOneHolder
      <3> QED
        BY <3>1, FS_Singleton
    <2> QED
      BY <2>1 DEF PolicyHeldOnce, OaHolders
  <1>2. OaInv => AcceptedTokenIsCurrent
    BY DEF OaInv, OaTokensBehind, AcceptedTokenIsCurrent, Accepted
  <1>3. OaInv => LineageSound
    BY <1>1, <1>2 DEF LineageSound
  <1> QED
    BY <1>3, OaInitInv, OaStepInv, PTL DEF OaSpec

-----------------------------------------------------------------------------
(* Routes of the realtime relay (RealtimeRoutes)                           *)

RtLive == {"accepted", "listed", "routed", "open"}

\* An event has its row with the key of the processed message; only then is it
\* pending, in a backlog, on its way to a socket, written or acknowledged.
RtRowsBySeen ==
    /\ \A n \in RtMsgs : n \in rtSeen => rtRows[n] = 1
    /\ \A n \in RtMsgs : n \notin rtSeen => rtRows[n] = 0 /\ rtStatus[n] # "pending"

RtWrittenSeen ==
    /\ \A k \in RtConns : rtSent[k] \subseteq rtSeen /\ rtBacklog[k] \subseteq rtSeen
    /\ \A h \in RtHandlers : rtHandler[h].stage \in {"list", "send"} => rtHandler[h].msg \in rtSeen
    /\ rtAcked \subseteq rtSeen

\* A live socket is in the hub, and an open one has sent its backlog.
RtInHub ==
    \A k \in RtConns : /\ rtConn[k] \in RtLive => k \in rtHub
                       /\ rtConn[k] = "open" => rtBacklog[k] = {}

\* The handler h has yet to write the event n to the socket k.
Owes(h, k, n) ==
    /\ rtHandler[h].stage \in {"list", "send"} /\ rtHandler[h].msg = n
    /\ rtHandler[h].stage = "send" => k \in rtHandler[h].todo

\* A pending event is written to a socket that has read its backlog, waits in
\* the backlog, was left out of it at the limit, or is owed by a handler.
RtCovered ==
    \A k \in RtConns, n \in RtMsgs : rtConn[k] \in {"routed", "open"} /\ n \in Pending =>
        \/ n \in rtSent[k] \/ n \in rtBacklog[k] \/ n \in rtLeft[k]
        \/ \E h \in RtHandlers : Owes(h, k, n)

RtInv == RtTypeOK /\ RtRowsBySeen /\ RtWrittenSeen /\ RtInHub /\ RtCovered /\ AcknowledgedNotReplayed

\* The fields of a delivery in flight.
LEMMA RtWorkFields ==
  ASSUME NEW t \in RtWork
  PROVE  /\ t.stage \in {"insert", "list", "send"} => t.msg \in RtMsgs
         /\ t.stage = "send" => t.todo \in SUBSET RtConns /\ t.delivered \in BOOLEAN
         /\ t.stage \in {"idle", "insert", "list", "send"}
  BY DEF RtWork, RtIdle

(* No route exists at first.                                                 *)
LEMMA RtInitInv == RtInit => RtInv
  <1> SUFFICES ASSUME RtInit PROVE RtInv
    OBVIOUS
  <1>1. RtTypeOK
    BY DEF RtInit, RtTypeOK, RtStages, RtWork
  <1>2. RtRowsBySeen /\ RtWrittenSeen /\ RtInHub /\ RtCovered /\ AcknowledgedNotReplayed
    BY DEF RtInit, RtRowsBySeen, RtWrittenSeen, RtInHub, RtLive, RtCovered, AcknowledgedNotReplayed, RtIdle, Pending
  <1> QED
    BY <1>1, <1>2 DEF RtInv

\* A socket keeps what it is owed, has been sent or has still to send.
LEMMA RtStepInv == RtInv /\ [RtNext]_rtVars => RtInv'
  <1> SUFFICES ASSUME RtInv, [RtNext]_rtVars PROVE RtInv'
    OBVIOUS
  <1>t. /\ rtConn \in [RtConns -> RtStages]
        /\ rtHub \subseteq RtConns /\ rtRoute \subseteq RtConns
        /\ rtBacklog \in [RtConns -> SUBSET RtMsgs] /\ rtLeft \in [RtConns -> SUBSET RtMsgs]
        /\ rtSent \in [RtConns -> SUBSET RtMsgs]
        /\ rtRows \in [RtMsgs -> Nat]
        /\ rtStatus \in [RtMsgs -> {"none", "pending", "delivered", "acknowledged"}]
        /\ rtExpired \subseteq RtMsgs /\ rtSeen \subseteq RtMsgs /\ rtAcked \subseteq RtMsgs
        /\ rtHandler \in [RtHandlers -> RtWork]
    BY DEF RtInv, RtTypeOK
  <1>0. RtRowsBySeen /\ RtWrittenSeen /\ RtInHub /\ RtCovered /\ AcknowledgedNotReplayed
    BY DEF RtInv
  <1>1. ASSUME NEW k \in RtConns, Connect(k) PROVE RtInv'
    <2>1. RtTypeOK'
      BY <1>t, <1>1 DEF Connect, Registered, RtTypeOK, RtStages
    <2>2. RtRowsBySeen' /\ RtWrittenSeen' /\ AcknowledgedNotReplayed'
      BY <1>0, <1>1 DEF Connect, RtRowsBySeen, RtWrittenSeen, AcknowledgedNotReplayed
    <2>3. RtInHub' /\ RtCovered'
      BY <1>t, <1>0, <1>1 DEF Connect, Registered, RtInHub, RtLive, RtCovered, Owes, Pending
    <2> QED
      BY <2>1, <2>2, <2>3 DEF RtInv
  <1>a. ASSUME NEW k \in RtConns, RegisterRoute(k) PROVE RtInv'
    <2>1. RtTypeOK'
      BY <1>t, <1>a DEF RegisterRoute, RtTypeOK, RtStages
    <2>2. RtRowsBySeen' /\ RtWrittenSeen' /\ AcknowledgedNotReplayed'
      BY <1>0, <1>a DEF RegisterRoute, RtRowsBySeen, RtWrittenSeen, AcknowledgedNotReplayed
    <2>3. RtInHub' /\ RtCovered'
      BY <1>t, <1>0, <1>a DEF RegisterRoute, RtInHub, RtLive, RtCovered, Owes, Pending
    <2> QED
      BY <2>1, <2>2, <2>3 DEF RtInv
  <1>b. ASSUME NEW n \in RtMsgs, NotificationExpires(n) PROVE RtInv'
    <2>1. RtTypeOK'
      BY <1>t, <1>b DEF NotificationExpires, RtTypeOK
    <2>2. RtRowsBySeen' /\ RtWrittenSeen' /\ AcknowledgedNotReplayed'
      BY <1>0, <1>b DEF NotificationExpires, RtRowsBySeen, RtWrittenSeen, AcknowledgedNotReplayed
    <2>3. RtInHub' /\ RtCovered'
      BY <1>t, <1>0, <1>b DEF NotificationExpires, RtInHub, RtLive, RtCovered, Owes, Pending
    <2> QED
      BY <2>1, <2>2, <2>3 DEF RtInv
  <1>2. ASSUME NEW k \in RtConns, ReadBacklog(k) PROVE RtInv'
    <2>0. PICK taken \in SUBSET Pending : /\ rtBacklog' = [rtBacklog EXCEPT ![k] = taken]
                                          /\ rtLeft' = [rtLeft EXCEPT ![k] = Pending \ taken]
      BY <1>2 DEF ReadBacklog
    <2>a. /\ rtConn[k] = "listed" /\ rtConn' = [rtConn EXCEPT ![k] = "routed"]
          /\ UNCHANGED <<rtHub, rtRoute, rtSent, rtRows, rtStatus, rtExpired, rtSeen, rtHandler, rtAcked>>
      BY <1>2 DEF ReadBacklog
    <2>b. taken \subseteq RtMsgs /\ Pending \ taken \subseteq RtMsgs /\ taken \subseteq rtSeen
      BY <1>0, <2>0 DEF Pending, RtRowsBySeen
    <2>1. RtTypeOK'
      BY <1>t, <2>0, <2>a, <2>b DEF RtTypeOK, RtStages
    <2>2. RtRowsBySeen' /\ RtWrittenSeen' /\ AcknowledgedNotReplayed'
      BY <1>t, <1>0, <2>0, <2>a, <2>b DEF RtRowsBySeen, RtWrittenSeen, AcknowledgedNotReplayed
    <2>3. RtInHub'
      BY <1>t, <1>0, <2>0, <2>a DEF RtInHub, RtLive
    <2>5. ASSUME NEW x \in RtConns, NEW n \in RtMsgs, rtConn'[x] \in {"routed", "open"}, (n \in Pending)'
          PROVE  n \in rtSent'[x] \/ n \in rtBacklog'[x] \/ n \in rtLeft'[x] \/ \E h \in RtHandlers : Owes(h, x, n)'
      <3>0. n \in Pending
        BY <2>5, <2>a DEF Pending
      <3>1. CASE x = k
        BY <1>t, <2>0, <3>0, <3>1
      <3>2. CASE x # k
        <4>1. rtConn[x] \in {"routed", "open"} /\ rtBacklog'[x] = rtBacklog[x] /\ rtLeft'[x] = rtLeft[x] /\ rtSent' = rtSent /\ rtHandler' = rtHandler
          BY <1>t, <2>0, <2>a, <2>5, <3>2
        <4> QED
          BY <1>0, <3>0, <4>1 DEF RtCovered, Owes
      <3> QED
        BY <3>1, <3>2
    <2>6. RtCovered'
      BY <2>5 DEF RtCovered
    <2> QED
      BY <2>1, <2>2, <2>3, <2>6 DEF RtInv
  <1>3. ASSUME NEW k \in RtConns, SendBacklog(k) PROVE RtInv'
    <2>1. CASE rtBacklog[k] = {}
      <3>1. rtConn' = [rtConn EXCEPT ![k] = "open"] /\ rtConn[k] = "routed"
            /\ UNCHANGED <<rtBacklog, rtSent, rtHub, rtRoute, rtRows, rtStatus, rtExpired, rtSeen, rtHandler, rtAcked, rtLeft>>
        BY <1>3, <2>1 DEF SendBacklog
      <3>2. RtTypeOK'
        BY <1>t, <3>1 DEF RtTypeOK, RtStages
      <3>3. RtRowsBySeen' /\ RtWrittenSeen' /\ AcknowledgedNotReplayed'
        BY <1>0, <3>1 DEF RtRowsBySeen, RtWrittenSeen, AcknowledgedNotReplayed
      <3>4. RtInHub' /\ RtCovered'
        BY <1>t, <1>0, <2>1, <3>1 DEF RtInHub, RtLive, RtCovered, Owes, Pending
      <3> QED
        BY <3>2, <3>3, <3>4 DEF RtInv
    <2>2. CASE rtBacklog[k] # {}
      <3>0. PICK n \in rtBacklog[k] : /\ rtBacklog' = [rtBacklog EXCEPT ![k] = @ \ {n}]
                                      /\ rtSent' = [rtSent EXCEPT ![k] = @ \cup {n}]
                                      /\ UNCHANGED rtConn
        BY <1>3, <2>2 DEF SendBacklog
      <3>1. rtConn[k] = "routed" /\ UNCHANGED <<rtHub, rtRoute, rtRows, rtStatus, rtExpired, rtSeen, rtHandler, rtAcked, rtLeft>>
        BY <1>3 DEF SendBacklog
      <3>2. RtTypeOK'
        BY <1>t, <3>0, <3>1 DEF RtTypeOK, RtStages
      <3>3. RtRowsBySeen' /\ RtWrittenSeen' /\ AcknowledgedNotReplayed'
        BY <1>t, <1>0, <3>0, <3>1 DEF RtRowsBySeen, RtWrittenSeen, AcknowledgedNotReplayed
      <3>4. RtInHub' /\ RtCovered'
        BY <1>t, <1>0, <3>0, <3>1 DEF RtInHub, RtLive, RtCovered, Owes, Pending
      <3> QED
        BY <3>2, <3>3, <3>4 DEF RtInv
    <2> QED
      BY <2>1, <2>2
  <1>4. ASSUME NEW k \in RtConns, NEW n \in RtMsgs, RtAcknowledge(k, n) PROVE RtInv'
    <2>1. RtTypeOK'
      BY <1>t, <1>4 DEF RtAcknowledge, RtTypeOK
    <2>2. RtRowsBySeen' /\ RtWrittenSeen' /\ AcknowledgedNotReplayed'
      BY <1>t, <1>0, <1>4 DEF RtAcknowledge, RtRowsBySeen, RtWrittenSeen, AcknowledgedNotReplayed
    <2>3. RtInHub' /\ RtCovered'
      BY <1>t, <1>0, <1>4 DEF RtAcknowledge, RtInHub, RtLive, RtCovered, Owes, Pending
    <2> QED
      BY <2>1, <2>2, <2>3 DEF RtInv
  <1>5. ASSUME NEW k \in RtConns, RouteBeats(k) \/ RouteExpires(k) PROVE RtInv'
    <2>1. RtTypeOK'
      BY <1>t, <1>5 DEF RouteBeats, RouteExpires, RtTypeOK
    <2>2. RtRowsBySeen' /\ RtWrittenSeen' /\ AcknowledgedNotReplayed' /\ RtInHub' /\ RtCovered'
      BY <1>0, <1>5 DEF RouteBeats, RouteExpires, RtRowsBySeen, RtWrittenSeen, AcknowledgedNotReplayed,
           RtInHub, RtCovered, Owes, Pending
    <2> QED
      BY <2>1, <2>2 DEF RtInv
  <1>6. ASSUME NEW k \in RtConns, Disconnect(k) PROVE RtInv'
    <2>0. /\ rtConn' = [rtConn EXCEPT ![k] = "closed"] /\ rtBacklog' = [rtBacklog EXCEPT ![k] = {}]
          /\ rtHub' \in {rtHub, rtHub \ {k}} /\ rtRoute' \in {rtRoute, rtRoute \ {k}}
          /\ UNCHANGED <<rtSent, rtRows, rtStatus, rtExpired, rtSeen, rtHandler, rtAcked, rtLeft>>
      BY <1>6 DEF Disconnect, Unregistered, RouteOffline
    <2>1. RtTypeOK'
      BY <1>t, <2>0 DEF RtTypeOK, RtStages
    <2>2. RtRowsBySeen' /\ RtWrittenSeen' /\ AcknowledgedNotReplayed'
      BY <1>t, <1>0, <2>0 DEF RtRowsBySeen, RtWrittenSeen, AcknowledgedNotReplayed
    <2>3. RtInHub' /\ RtCovered'
      BY <1>t, <1>0, <2>0 DEF RtInHub, RtLive, RtCovered, Owes, Pending
    <2> QED
      BY <2>1, <2>2, <2>3 DEF RtInv
  <1>7. ASSUME NEW h \in RtHandlers, NEW n \in RtMsgs, OnBrokerEvent(h, n) PROVE RtInv'
    <2>0. [stage |-> "insert", msg |-> n] \in RtWork
      BY DEF RtWork
    <2>1. RtTypeOK'
      BY <1>t, <1>7, <2>0 DEF OnBrokerEvent, RtTypeOK
    <2>2. RtRowsBySeen' /\ RtWrittenSeen' /\ AcknowledgedNotReplayed' /\ RtInHub'
      BY <1>t, <1>0, <1>7 DEF OnBrokerEvent, RtRowsBySeen, RtWrittenSeen, AcknowledgedNotReplayed, RtInHub
    <2>3. RtCovered'
      BY <1>t, <1>0, <1>7 DEF OnBrokerEvent, RtCovered, Owes, Pending, RtIdle
    <2> QED
      BY <2>1, <2>2, <2>3 DEF RtInv
  <1>8. ASSUME NEW h \in RtHandlers, PersistEvent(h) PROVE RtInv'
    <2>0. PICK t \in RtWork : t = rtHandler[h]
      BY <1>t
    <2>a. PICK n \in RtMsgs : n = t.msg
      BY <1>8, <2>0, RtWorkFields DEF PersistEvent
    <2>1. CASE n \in rtSeen
      <3>1. /\ rtHandler[h].stage = "insert" /\ rtHandler' = [rtHandler EXCEPT ![h] = RtIdle]
            /\ UNCHANGED <<rtSeen, rtRows, rtStatus, rtExpired, rtConn, rtHub, rtRoute, rtBacklog, rtSent, rtAcked, rtLeft>>
        BY <1>8, <2>0, <2>a, <2>1 DEF PersistEvent, FirstOfEvent
      <3>2. RtTypeOK'
        BY <1>t, <3>1 DEF RtTypeOK, RtWork
      <3>3. RtRowsBySeen' /\ RtWrittenSeen' /\ AcknowledgedNotReplayed' /\ RtInHub'
        BY <1>t, <1>0, <3>1 DEF RtRowsBySeen, RtWrittenSeen, AcknowledgedNotReplayed, RtInHub, RtIdle
      <3>4. RtCovered'
        BY <1>t, <1>0, <3>1 DEF RtCovered, Owes, Pending, RtIdle
      <3> QED
        BY <3>2, <3>3, <3>4 DEF RtInv
    <2>2. CASE n \notin rtSeen
      <3>0. PICK w : w = [t EXCEPT !.stage = "list"]
        OBVIOUS
      <3>1. /\ t.stage = "insert" /\ rtHandler' = [rtHandler EXCEPT ![h] = w]
            /\ rtSeen' = rtSeen \cup {n} /\ rtRows' = [rtRows EXCEPT ![n] = @ + 1]
            /\ rtStatus' = [rtStatus EXCEPT ![n] = "pending"]
            /\ UNCHANGED <<rtConn, rtHub, rtRoute, rtBacklog, rtSent, rtExpired, rtAcked, rtLeft>>
        BY <1>8, <2>0, <2>a, <2>2, <3>0 DEF PersistEvent, FirstOfEvent
      <3>2. t \in [stage : {"insert", "list"}, msg : RtMsgs]
        BY <2>0, <3>1 DEF RtWork, RtIdle
      <3>3. w \in RtWork /\ w.stage = "list" /\ w.msg = n
        BY <2>a, <3>0, <3>2 DEF RtWork
      <3>4. RtTypeOK'
        BY <1>t, <3>1, <3>3 DEF RtTypeOK
      <3>5. RtRowsBySeen'
        BY <1>t, <1>0, <2>2, <3>1 DEF RtRowsBySeen
      <3>6. RtWrittenSeen' /\ AcknowledgedNotReplayed' /\ RtInHub'
        BY <1>t, <1>0, <2>2, <3>1, <3>3 DEF RtWrittenSeen, AcknowledgedNotReplayed, RtInHub
      <3>7. ASSUME NEW k \in RtConns, NEW m \in RtMsgs, rtConn'[k] \in {"routed", "open"}, (m \in Pending)'
            PROVE  m \in rtSent'[k] \/ m \in rtBacklog'[k] \/ m \in rtLeft'[k] \/ \E x \in RtHandlers : Owes(x, k, m)'
        <4>1. CASE m = n
          BY <1>t, <3>1, <3>3, <4>1 DEF Owes
        <4>2. CASE m # n
          BY <1>t, <1>0, <2>0, <3>1, <3>7, <4>2 DEF RtCovered, Owes, Pending
        <4> QED
          BY <4>1, <4>2
      <3>8. RtCovered'
        BY <3>7 DEF RtCovered
      <3> QED
        BY <3>4, <3>5, <3>6, <3>8 DEF RtInv
    <2> QED
      BY <2>1, <2>2
  <1>9. ASSUME NEW h \in RtHandlers, HubList(h) PROVE RtInv'
    <2>0. PICK t \in RtWork : t = rtHandler[h]
      BY <1>t
    <2>a. PICK n \in RtMsgs : n = t.msg
      BY <1>9, <2>0, RtWorkFields DEF HubList
    <2>1. PICK w : w = [stage |-> "send", msg |-> n, todo |-> rtHub, delivered |-> FALSE]
      OBVIOUS
    <2>2. w \in RtWork /\ w.stage = "send" /\ w.msg = n /\ w.todo = rtHub
      BY <1>t, <2>1 DEF RtWork
    <2>3. /\ rtHandler[h].stage = "list" /\ rtHandler' = [rtHandler EXCEPT ![h] = w]
          /\ UNCHANGED <<rtSeen, rtRows, rtStatus, rtExpired, rtConn, rtHub, rtRoute, rtBacklog, rtSent, rtAcked, rtLeft>>
      BY <1>9, <2>0, <2>a, <2>1 DEF HubList
    <2>4. RtTypeOK'
      BY <1>t, <2>2, <2>3 DEF RtTypeOK
    <2>5. RtRowsBySeen' /\ RtWrittenSeen' /\ AcknowledgedNotReplayed' /\ RtInHub'
      BY <1>t, <1>0, <2>0, <2>a, <2>2, <2>3 DEF RtRowsBySeen, RtWrittenSeen, AcknowledgedNotReplayed, RtInHub
    <2>6. RtCovered'
      BY <1>t, <1>0, <2>0, <2>a, <2>2, <2>3 DEF RtCovered, Owes, Pending, RtInHub, RtLive
    <2> QED
      BY <2>4, <2>5, <2>6 DEF RtInv
  <1>10. ASSUME NEW h \in RtHandlers, NEW k \in RtConns, HubSend(h, k) PROVE RtInv'
    <2>0. PICK t \in RtWork : t = rtHandler[h]
      BY <1>t
    <2>b. t.stage = "send" /\ k \in t.todo
      BY <1>10, <2>0 DEF HubSend
    <2>a. PICK n \in RtMsgs : n = t.msg
      BY <2>b, RtWorkFields
    <2>c. t \in [stage : {"send"}, msg : RtMsgs, todo : SUBSET RtConns, delivered : BOOLEAN] /\ n \in rtSeen
      BY <1>0, <2>0, <2>a, <2>b DEF RtWork, RtIdle, RtWrittenSeen
    <2>1. CASE rtConn[k] = "closed"
      <3>1. PICK w : w = [t EXCEPT !.todo = @ \ {k}]
        OBVIOUS
      <3>2. w \in RtWork /\ w.stage = "send" /\ w.msg = n /\ w.todo = t.todo \ {k}
        BY <2>a, <2>c, <3>1 DEF RtWork
      <3>3. /\ rtHandler' = [rtHandler EXCEPT ![h] = w] /\ rtHub' = rtHub \ {k}
            /\ UNCHANGED <<rtSeen, rtRows, rtStatus, rtExpired, rtConn, rtRoute, rtBacklog, rtSent, rtAcked, rtLeft>>
        BY <1>10, <2>0, <2>1, <3>1 DEF HubSend, Unregistered
      <3>4. RtTypeOK'
        BY <1>t, <3>2, <3>3 DEF RtTypeOK
      <3>5. RtRowsBySeen' /\ RtWrittenSeen' /\ AcknowledgedNotReplayed'
        BY <1>t, <1>0, <2>c, <3>2, <3>3 DEF RtRowsBySeen, RtWrittenSeen, AcknowledgedNotReplayed
      <3>6. RtInHub'
        BY <1>t, <1>0, <2>1, <3>3 DEF RtInHub, RtLive
      <3>7. RtCovered'
        BY <1>t, <1>0, <2>0, <2>1, <2>a, <2>b, <3>2, <3>3 DEF RtCovered, Owes, Pending
      <3> QED
        BY <3>4, <3>5, <3>6, <3>7 DEF RtInv
    <2>2. CASE rtConn[k] # "closed"
      <3>1. PICK w : w = [t EXCEPT !.todo = @ \ {k}, !.delivered = TRUE]
        OBVIOUS
      <3>2. w \in RtWork /\ w.stage = "send" /\ w.msg = n /\ w.todo = t.todo \ {k}
        BY <2>a, <2>c, <3>1 DEF RtWork
      <3>3. /\ rtHandler' = [rtHandler EXCEPT ![h] = w] /\ rtSent' = [rtSent EXCEPT ![k] = @ \cup {n}]
            /\ UNCHANGED <<rtSeen, rtRows, rtStatus, rtExpired, rtConn, rtRoute, rtBacklog, rtHub, rtAcked, rtLeft>>
        BY <1>10, <1>t, <2>0, <2>2, <2>a, <3>1 DEF HubSend
      <3>4. RtTypeOK'
        BY <1>t, <3>2, <3>3 DEF RtTypeOK
      <3>5. RtRowsBySeen' /\ RtWrittenSeen' /\ AcknowledgedNotReplayed'
        BY <1>t, <1>0, <2>c, <3>2, <3>3 DEF RtRowsBySeen, RtWrittenSeen, AcknowledgedNotReplayed
      <3>6. RtInHub'
        BY <1>t, <1>0, <3>3 DEF RtInHub, RtLive
      <3>7. RtCovered'
        <4>2. Pending' = Pending
          BY <3>3 DEF Pending
        <4> QED
          BY <1>t, <1>0, <2>0, <2>a, <2>b, <3>2, <3>3, <4>2 DEF RtCovered, Owes
      <3> QED
        BY <3>4, <3>5, <3>6, <3>7 DEF RtInv
    <2> QED
      BY <2>1, <2>2
  <1>11. ASSUME NEW h \in RtHandlers, RecordDelivery(h) PROVE RtInv'
    <2>0. PICK t \in RtWork : t = rtHandler[h]
      BY <1>t
    <2>b. t.stage = "send" /\ t.todo = {}
      BY <1>11, <2>0 DEF RecordDelivery
    <2>a. PICK n \in RtMsgs : n = t.msg
      BY <2>b, RtWorkFields
    <2>1. /\ rtStatus' = rtStatus \/ rtStatus' = [rtStatus EXCEPT ![n] = "delivered"]
          /\ rtHandler' = [rtHandler EXCEPT ![h] = RtIdle]
          /\ UNCHANGED <<rtConn, rtHub, rtRoute, rtBacklog, rtSent, rtRows, rtExpired, rtSeen, rtAcked, rtLeft>>
      BY <1>11, <1>t, <2>0, <2>a DEF RecordDelivery, RecordedStatus
    <2>2. RtTypeOK'
      BY <1>t, <2>1 DEF RtTypeOK, RtWork
    <2>3. RtRowsBySeen' /\ RtWrittenSeen' /\ AcknowledgedNotReplayed' /\ RtInHub'
      BY <1>t, <1>0, <2>1 DEF RtRowsBySeen, RtWrittenSeen, AcknowledgedNotReplayed, RtInHub, RtIdle
    <2>4. RtCovered'
      BY <1>t, <1>0, <2>0, <2>b, <2>1 DEF RtCovered, Owes, Pending, RtIdle
    <2> QED
      BY <2>2, <2>3, <2>4 DEF RtInv
  <1>12. CASE UNCHANGED rtVars
    BY <1>t, <1>0, <1>12 DEF rtVars, RtInv, RtTypeOK, RtRowsBySeen, RtWrittenSeen, AcknowledgedNotReplayed, RtInHub,
         RtCovered, Owes, Pending
  <1> QED
    BY <1>1, <1>a, <1>b, <1>2, <1>3, <1>4, <1>5, <1>6, <1>7, <1>8, <1>9, <1>10, <1>11, <1>12 DEF RtNext

\* One notification per event although the broker delivers twice at the same
\* time, none missed between the backlog and the live delivery, and none
\* replayed after its acknowledgement.
THEOREM RealtimeCorrect == RtSpec => []RealtimeSound
  <1>1. RtInv => OneNotificationPerEvent
    BY DEF RtInv, RtRowsBySeen, RtTypeOK, OneNotificationPerEvent
  <1>2. RtInv => NothingMissed
    <2> SUFFICES ASSUME RtInv, NEW k \in RtConns, NEW n \in Pending, rtConn[k] = "open",
                        ~\E h \in RtHandlers : rtHandler[h].stage \in {"list", "send"} /\ rtHandler[h].msg = n
                 PROVE  n \in rtSent[k] \cup rtLeft[k]
      BY DEF NothingMissed
    <2>1. rtBacklog[k] = {} /\ n \in RtMsgs
      BY DEF RtInv, RtInHub, Pending
    <2> QED
      BY <2>1 DEF RtInv, RtCovered, Owes
  <1>3. RtInv => RealtimeSound
    BY <1>1, <1>2 DEF RtInv, RealtimeSound
  <1> QED
    BY <1>3, RtInitInv, RtStepInv, PTL DEF RtSpec

-----------------------------------------------------------------------------
(* Command sessions and their monitors (CommandSessions)                   *)

CsTxState ==
    {CsIdle}
    \cup [op : {"append"}, line : 1..(MaxLines + 1)]
    \cup [op : {"written"}, line : 1..MaxLines, at : 1..MaxLines]
    \cup [op : {"finish"}, loaded : SessionStatus, status : Terminal, told : {"same", "no", "yes"}]
    \cup [op : {"terminate", "snapshot", "drop", "tail"}, loaded : SessionStatus]

\* No number exceeds the length of the file by more than one, and a written
\* line is in the file.
CsCounted ==
    /\ csRow.lines <= Len(csFile) /\ Len(csFile) <= MaxLines
    /\ \A a \in CsActors : csTx[a].op = "append" => csTx[a].line <= Len(csFile) + 1
    /\ \A a \in CsActors : csTx[a].op = "written" => csTx[a].line <= Len(csFile)
    /\ \A a \in CsActors : csTx[a].op = "written" => csTx[a].at <= Len(csFile) /\ csFile[csTx[a].at] = csTx[a].line

\* The number before the next one, in the row or loaded by an append, is in
\* the file.
InFile(n) == n = 0 \/ \E j \in 1..Len(csFile) : csFile[j] = n

CsBefore ==
    /\ InFile(csRow.lines)
    /\ \A a \in CsActors : csTx[a].op = "append" => InFile(csTx[a].line - 1)

\* An append that overlapped with none wrote the last line of the file.
CsAlone ==
    /\ \A a, b \in CsActors : a # b /\ csTx[a].op \in AppendOps /\ csTx[b].op \in AppendOps => a \in csOver
    /\ \A a \in CsActors : csTx[a].op = "written" /\ a \notin csOver => csTx[a].at = Len(csFile)

\* Nothing that is still to be written or counted falls behind a sure line.
CsSureBound ==
    \A i \in csSure :
        /\ i <= Len(csFile) /\ csFile[i] <= csRow.lines
        /\ \A a \in CsActors : csTx[a].op \in AppendOps => csFile[i] < csTx[a].line

CsLines == CsCounted /\ CsBefore /\ CsAlone /\ CsSureBound /\ LinesNumberedOnce /\ NoLineSkipped

\* Only a client's sessions are revived or dropped, from before their end.
CsRevivers ==
    \A a \in CsActors :
        /\ csTx[a].op \in {"snapshot", "drop"} => csOrigin = "thin_client" /\ csTx[a].loaded \notin Ended
        /\ csTx[a].op = "finish" /\ csTx[a].status = "lost" => csOrigin = "thin_client"

\* Once the end of a local command was read, it stays ended.
CsEndSeen ==
    csOrigin = "server" =>
      \A a \in CsActors :
         (csTx[a].op = "tail" /\ csTx[a].loaded \in Terminal) \/ (csTx[a].op = "finish" /\ csTx[a].told = "yes")
           => csRow.status \in Terminal

CsInv == CsTypeOK /\ csTx \in [CsActors -> CsTxState] /\ CsLines /\ CsRevivers /\ CsEndSeen /\ EndIsTold

\* The fields of what a thread or request has read.
LEMMA CsTxFields ==
  ASSUME NEW t \in CsTxState
  PROVE  /\ t.op = "append" => t.line \in 1..(MaxLines + 1)
         /\ t.op = "written" => t.line \in 1..MaxLines /\ t.at \in 1..MaxLines
         /\ t.op = "finish" => /\ t.status \in Terminal /\ t.loaded \in SessionStatus
                               /\ t.told \in {"same", "no", "yes"}
         /\ t.op \in {"terminate", "snapshot", "drop", "tail"} => t.loaded \in SessionStatus
  BY DEF CsTxState, CsIdle

\* A line of the file is a number.
LEMMA CsFileElem ==
  ASSUME NEW S, NEW f \in Seq(S), NEW i \in 1..Len(f)
  PROVE  f[i] \in S
  OBVIOUS

\* The idle handler is one of the handler states.
LEMMA CsIdleState == CsIdle \in CsTxState /\ CsIdle.op = "idle"
  BY DEF CsTxState, CsIdle

(* No command session runs at first.                                         *)
LEMMA CsInitInv == CsInit => CsInv
  <1> SUFFICES ASSUME CsInit PROVE CsInv
    OBVIOUS
  <1>1. csRow \in SessionRow /\ csRow.lines = 0 /\ csRow.told = "no"
    BY CommandSessionsAssumption DEF CsInit, SessionRow, SessionStatus
  <1>2. csTx \in [CsActors -> CsTxState] /\ \A a \in CsActors : csTx[a].op = "idle"
    BY CsIdleState DEF CsInit
  <1>3. csFile \in Seq(1..MaxLines) /\ Len(csFile) = 0 /\ DOMAIN csFile = {} /\ csSure = {} /\ csOver = {}
    BY DEF CsInit
  <1>4. CsTypeOK
    BY <1>1, <1>3 DEF CsInit, CsTypeOK
  <1>5. CsRevivers /\ CsEndSeen /\ EndIsTold
    BY <1>1, <1>2 DEF CsRevivers, CsEndSeen, EndIsTold
  <1>6. CsCounted /\ CsBefore /\ CsAlone /\ CsSureBound
    BY <1>1, <1>2, <1>3, CommandSessionsAssumption DEF CsCounted, CsBefore, InFile, CsAlone, CsSureBound, AppendOps
  <1>7. LinesNumberedOnce /\ NoLineSkipped
    BY <1>3 DEF LinesNumberedOnce, NoLineSkipped
  <1> QED
    BY <1>2, <1>4, <1>5, <1>6, <1>7 DEF CsInv, CsLines

\* A handler that is not appending comes or goes, and the row keeps its count.
LEMMA CsLinesKept ==
  ASSUME CsLines, csTx \in [CsActors -> CsTxState], NEW a \in CsActors, NEW t \in CsTxState,
         csTx' = [csTx EXCEPT ![a] = t], t.op \notin AppendOps,
         csRow'.lines = csRow.lines, UNCHANGED lineVars
  PROVE  CsLines'
  <1>0. CsCounted /\ CsBefore /\ CsAlone /\ CsSureBound /\ LinesNumberedOnce /\ NoLineSkipped
    BY DEF CsLines
  <1>1. UNCHANGED <<csFile, csOver, csSure>>
    BY DEF lineVars
  <1>2. csTx'[a] = t /\ \A b \in CsActors : b # a => csTx'[b] = csTx[b]
    OBVIOUS
  <1>3. \A b \in CsActors : csTx'[b].op \in AppendOps => csTx'[b] = csTx[b]
    BY <1>2
  <1>4. CsCounted'
    BY <1>0, <1>1, <1>3 DEF CsCounted, AppendOps
  <1>5. CsBefore'
    BY <1>0, <1>1, <1>3 DEF CsBefore, InFile, AppendOps
  <1>6. CsAlone' /\ CsSureBound'
    BY <1>0, <1>1, <1>3 DEF CsAlone, CsSureBound, AppendOps
  <1>7. LinesNumberedOnce' /\ NoLineSkipped'
    BY <1>0, <1>1 DEF LinesNumberedOnce, NoLineSkipped
  <1> QED
    BY <1>4, <1>5, <1>6, <1>7 DEF CsLines

\* An append loads the count.
LEMMA CsLinesRead ==
  ASSUME CsInv, NEW a \in CsActors, AppendRead(a)
  PROVE  CsLines' /\ csTx' \in [CsActors -> CsTxState]
  <1>t. csRow \in SessionRow /\ csFile \in Seq(1..MaxLines) /\ csTx \in [CsActors -> CsTxState]
        /\ CsCounted /\ CsBefore /\ CsAlone /\ CsSureBound /\ LinesNumberedOnce /\ NoLineSkipped
    BY DEF CsInv, CsTypeOK, CsLines
  <1>n. Len(csFile) \in Nat /\ csRow.lines \in Nat /\ MaxLines \in Nat
    BY <1>t, CommandSessionsAssumption DEF SessionRow
  <1>0. PICK n \in Nat : n = csRow.lines + 1
    BY <1>n
  <1>1. n <= Len(csFile) + 1 /\ Len(csFile) < MaxLines /\ n \in 1..(MaxLines + 1) /\ n - 1 = csRow.lines
    BY <1>t, <1>n, <1>0 DEF AppendRead, CsCounted
  <1>2. PICK t : t = [op |-> "append", line |-> n]
    OBVIOUS
  <1>3. t \in CsTxState /\ t.op = "append" /\ t.line = n
    BY <1>1, <1>2 DEF CsTxState
  <1>4. csTx' = [csTx EXCEPT ![a] = t] /\ csTx[a] = CsIdle /\ UNCHANGED <<csRow, csFile, csSure>>
    BY <1>0, <1>2 DEF AppendRead, CsBegin
  <1>5. csTx'[a] = t /\ \A b \in CsActors : b # a => csTx'[b] = csTx[b]
    BY <1>t, <1>4
  <1>6. csTx' \in [CsActors -> CsTxState]
    BY <1>t, <1>3, <1>4
  <1>7. CsCounted'
    BY <1>t, <1>1, <1>3, <1>4, <1>5 DEF CsCounted
  <1>8. CsBefore'
    BY <1>t, <1>1, <1>3, <1>4, <1>5 DEF CsBefore, InFile
  <1>9. CsAlone'
    <2>1. PICK others : others = {b \in CsActors : csTx[b].op \in AppendOps}
      OBVIOUS
    <2>2. csOver' = IF others = {} THEN csOver \ {a} ELSE csOver \cup others \cup {a}
      BY <2>1 DEF AppendRead
    <2>3. a \notin others
      BY <1>4, <2>1, CsIdleState DEF AppendOps
    <2>4. CASE others = {}
      BY <1>t, <1>3, <1>4, <1>5, <2>1, <2>2, <2>4 DEF CsAlone, AppendOps
    <2>5. CASE others # {}
      BY <1>t, <1>3, <1>4, <1>5, <2>1, <2>2, <2>5 DEF CsAlone, AppendOps
    <2> QED
      BY <2>4, <2>5
  <1>10. CsSureBound'
    <2>1. ASSUME NEW i \in csSure PROVE csFile[i] < n
      <3>1. csFile[i] <= csRow.lines /\ i <= Len(csFile) /\ i \in 1..MaxLines
        BY <1>t, <2>1 DEF CsSureBound, CsInv, CsTypeOK
      <3>2. csFile[i] \in Nat
        BY <1>t, <1>n, <3>1
      <3> QED
        BY <1>n, <1>0, <3>1, <3>2
    <2> QED
      BY <1>t, <1>3, <1>4, <1>5, <2>1 DEF CsSureBound
  <1>11. LinesNumberedOnce' /\ NoLineSkipped'
    BY <1>t, <1>4 DEF LinesNumberedOnce, NoLineSkipped
  <1> QED
    BY <1>6, <1>7, <1>8, <1>9, <1>10, <1>11 DEF CsLines

\* A line is written to the file.
LEMMA CsLinesWrite ==
  ASSUME CsInv, NEW a \in CsActors, AppendWrite(a)
  PROVE  CsLines' /\ csTx' \in [CsActors -> CsTxState] /\ csFile' \in Seq(1..MaxLines)
  <1>t. csRow \in SessionRow /\ csFile \in Seq(1..MaxLines) /\ csTx \in [CsActors -> CsTxState]
        /\ CsCounted /\ CsBefore /\ CsAlone /\ CsSureBound /\ LinesNumberedOnce /\ NoLineSkipped
        /\ csSure \subseteq 1..MaxLines
    BY DEF CsInv, CsTypeOK, CsLines
  <1>n. Len(csFile) \in Nat /\ csRow.lines \in Nat /\ MaxLines \in Nat
    BY <1>t, CommandSessionsAssumption DEF SessionRow
  <1>0. PICK n \in Nat : n = csTx[a].line /\ n >= 1
    BY <1>t, <1>n, CsTxFields DEF AppendWrite
  <1>p. PICK p \in Nat : p = Len(csFile) + 1
    BY <1>n
  <1>1. n <= p /\ Len(csFile) < MaxLines /\ n \in 1..MaxLines /\ p \in 1..MaxLines
    BY <1>t, <1>n, <1>0, <1>p DEF AppendWrite, CsCounted
  <1>2. PICK t : t = [op |-> "written", line |-> n, at |-> p]
    OBVIOUS
  <1>3. t \in CsTxState /\ t.op = "written" /\ t.line = n /\ t.at = p
    BY <1>1, <1>2 DEF CsTxState
  <1>4. /\ csTx' = [csTx EXCEPT ![a] = t] /\ csTx[a].op = "append" /\ csFile' = Append(csFile, n)
        /\ UNCHANGED <<csRow, csOver, csSure>>
    BY <1>0, <1>p, <1>2 DEF AppendWrite
  <1>5. csTx'[a] = t /\ \A b \in CsActors : b # a => csTx'[b] = csTx[b]
    BY <1>t, <1>4
  <1>6. csTx' \in [CsActors -> CsTxState]
    BY <1>t, <1>3, <1>4
  <1>7. /\ csFile' \in Seq(1..MaxLines) /\ Len(csFile') = p /\ csFile'[p] = n
        /\ \A j \in 1..Len(csFile) : csFile'[j] = csFile[j]
        /\ DOMAIN csFile = 1..Len(csFile) /\ DOMAIN csFile' = 1..p
    BY <1>t, <1>n, <1>p, <1>1, <1>4
  <1>8. CsCounted'
    <2>1. csRow'.lines <= Len(csFile') /\ Len(csFile') <= MaxLines
      BY <1>t, <1>n, <1>p, <1>1, <1>4, <1>7 DEF CsCounted
    <2>2. ASSUME NEW b \in CsActors, csTx'[b].op = "append" PROVE csTx'[b].line <= Len(csFile') + 1
      <3>1. b # a /\ csTx'[b] = csTx[b] /\ csTx[b].op = "append"
        BY <1>3, <1>5, <2>2
      <3>2. csTx[b].line <= Len(csFile) + 1 /\ csTx[b].line \in Nat
        BY <1>t, <1>n, <3>1, CsTxFields DEF CsCounted
      <3> QED
        BY <1>n, <1>p, <1>7, <3>1, <3>2
    <2>3. ASSUME NEW b \in CsActors, csTx'[b].op = "written"
          PROVE  /\ csTx'[b].line <= Len(csFile')
                 /\ csTx'[b].at <= Len(csFile') /\ csFile'[csTx'[b].at] = csTx'[b].line
      <3>1. CASE b = a
        BY <1>1, <1>3, <1>5, <1>7, <1>p, <3>1
      <3>2. CASE b # a
        <4>1. PICK k \in 1..MaxLines : k = csTx[b].at /\ csTx'[b] = csTx[b] /\ csTx[b].op = "written"
          BY <1>t, <1>5, <2>3, <3>2, CsTxFields
        <4>2. /\ k <= Len(csFile) /\ csFile[k] = csTx[b].line
              /\ csTx[b].line <= Len(csFile) /\ csTx[b].line \in 1..MaxLines
          BY <1>t, <4>1, CsTxFields DEF CsCounted
        <4>3. k \in 1..Len(csFile)
          BY <1>n, <4>2
        <4> QED
          BY <1>n, <1>p, <1>7, <4>1, <4>2, <4>3
      <3> QED
        BY <3>1, <3>2
    <2> QED
      BY <2>1, <2>2, <2>3 DEF CsCounted
  <1>i. ASSUME NEW m, InFile(m) PROVE InFile(m)'
    <2>1. \A j \in 1..Len(csFile) : j \in 1..Len(csFile') /\ csFile'[j] = csFile[j]
      BY <1>n, <1>p, <1>7
    <2> QED
      BY <1>i, <2>1 DEF InFile
  <1>9. CsBefore'
    <2>1. InFile(csRow.lines)'
      BY <1>t, <1>i, <1>4 DEF CsBefore
    <2>2. ASSUME NEW b \in CsActors, csTx'[b].op = "append" PROVE InFile(csTx[b].line - 1)'
      <3>1. csTx'[b] = csTx[b]
        BY <1>3, <1>5, <2>2
      <3>2. PICK m : m = csTx[b].line - 1
        OBVIOUS
      <3>3. InFile(m)'
        BY <1>t, <1>i, <2>2, <3>1, <3>2 DEF CsBefore
      <3> QED
        BY <3>1, <3>2, <3>3 DEF InFile
    <2> QED
      BY <2>1, <2>2 DEF CsBefore
  <1>10. CsAlone'
    <2>1. \A b \in CsActors : csTx'[b].op \in AppendOps <=> csTx[b].op \in AppendOps
      BY <1>3, <1>4, <1>5 DEF AppendOps
    <2>2. ASSUME NEW b \in CsActors, csTx'[b].op = "written", b \notin csOver PROVE csTx'[b].at = p
      <3>1. CASE b = a
        BY <1>3, <1>5, <3>1
      <3>2. CASE b # a
        BY <1>t, <1>4, <1>5, <2>2, <3>2 DEF CsAlone, AppendOps
      <3> QED
        BY <3>1, <3>2
    <2> QED
      BY <1>t, <1>4, <1>7, <2>1, <2>2 DEF CsAlone
  <1>11. ASSUME NEW i \in csSure
         PROVE  /\ i \in 1..Len(csFile) /\ csFile'[i] = csFile[i] /\ csFile[i] < n /\ csFile[i] \in Nat
                /\ csFile[i] <= csRow.lines
                /\ \A b \in CsActors : csTx[b].op \in AppendOps => csFile[i] < csTx[b].line
    <2>1. /\ i \in 1..MaxLines /\ i <= Len(csFile) /\ csFile[i] <= csRow.lines
          /\ \A b \in CsActors : csTx[b].op \in AppendOps => csFile[i] < csTx[b].line
      BY <1>t, <1>11 DEF CsSureBound
    <2>2. i \in 1..Len(csFile)
      BY <1>n, <2>1
    <2>3. csFile[i] \in 1..MaxLines
      BY <1>t, <2>2, CsFileElem
    <2> QED
      BY <1>0, <1>4, <1>7, <2>1, <2>2, <2>3 DEF AppendOps
  <1>12. CsSureBound'
    <2>1. \A b \in CsActors : csTx'[b].op \in AppendOps => csTx'[b].line = csTx[b].line /\ csTx[b].op \in AppendOps
      BY <1>0, <1>3, <1>4, <1>5 DEF AppendOps
    <2>2. ASSUME NEW i \in csSure PROVE i <= Len(csFile')
      BY <1>n, <1>p, <1>7, <1>11
    <2> QED
      BY <1>4, <1>11, <2>1, <2>2 DEF CsSureBound
  <1>13. LinesNumberedOnce'
    <2>1. ASSUME NEW i \in csSure, NEW j \in 1..p, i < j PROVE csFile'[i] < csFile'[j]
      <3>1. CASE j = p
        BY <1>7, <1>11, <3>1
      <3>2. CASE j # p
        <4>1. j \in 1..Len(csFile)
          BY <1>n, <1>p, <3>2
        <4> QED
          BY <1>t, <1>7, <1>11, <2>1, <4>1 DEF LinesNumberedOnce
      <3> QED
        BY <3>1, <3>2
    <2> QED
      BY <1>4, <1>7, <2>1 DEF LinesNumberedOnce
  <1>14. NoLineSkipped'
    <2>1. ASSUME NEW i \in 1..p PROVE csFile'[i] = 1 \/ \E j \in 1..(i - 1) : csFile'[j] + 1 = csFile'[i]
      <3>1. CASE i = p
        <4>1. InFile(n - 1)
          BY <1>t, <1>0, <1>4 DEF CsBefore
        <4>2. CASE n - 1 = 0
          BY <1>0, <1>7, <3>1, <4>2
        <4>3. CASE \E j \in 1..Len(csFile) : csFile[j] = n - 1
          <5>1. PICK j \in 1..Len(csFile) : csFile[j] = n - 1
            BY <4>3
          <5>2. j \in 1..(i - 1) /\ csFile'[j] + 1 = n
            BY <1>n, <1>p, <1>0, <1>7, <3>1, <5>1
          <5> QED
            BY <1>7, <3>1, <5>2
        <4> QED
          BY <4>1, <4>2, <4>3 DEF InFile
      <3>2. CASE i # p
        <4>1. i \in 1..Len(csFile) /\ \A j \in 1..(i - 1) : j \in 1..Len(csFile)
          BY <1>n, <1>p, <3>2
        <4> QED
          BY <1>t, <1>7, <4>1 DEF NoLineSkipped
      <3> QED
        BY <3>1, <3>2
    <2> QED
      BY <1>7, <2>1 DEF NoLineSkipped
  <1> QED
    BY <1>6, <1>7, <1>8, <1>9, <1>10, <1>12, <1>13, <1>14 DEF CsLines

\* The count of a line is committed.
LEMMA CsLinesCommit ==
  ASSUME CsInv, NEW a \in CsActors, AppendCommit(a)
  PROVE  CsLines' /\ csTx' \in [CsActors -> CsTxState] /\ csSure' \subseteq 1..MaxLines /\ csRow' \in SessionRow
  <1>t. csRow \in SessionRow /\ csFile \in Seq(1..MaxLines) /\ csTx \in [CsActors -> CsTxState]
        /\ CsCounted /\ CsBefore /\ CsAlone /\ CsSureBound /\ LinesNumberedOnce /\ NoLineSkipped
        /\ csSure \subseteq 1..MaxLines
    BY DEF CsInv, CsTypeOK, CsLines
  <1>n. Len(csFile) \in Nat /\ csRow.lines \in Nat /\ MaxLines \in Nat
    BY <1>t, CommandSessionsAssumption DEF SessionRow
  <1>a. csTx[a].op = "written" /\ csTx' = [csTx EXCEPT ![a] = CsIdle] /\ UNCHANGED <<csFile, csOver>>
    BY DEF AppendCommit, Appended, CsEnd
  <1>0. PICK n \in 1..MaxLines, p \in 1..MaxLines : n = csTx[a].line /\ p = csTx[a].at
    BY <1>t, <1>a, CsTxFields
  <1>1. csRow' = [csRow EXCEPT !.lines = n] /\ csSure' = IF a \in csOver THEN csSure ELSE csSure \cup {p}
    BY <1>0 DEF AppendCommit, Appended
  <1>2. csRow' \in SessionRow /\ csRow'.lines = n
    <2>1. PICK row \in SessionRow : row = csRow
      BY <1>t
    <2>2. PICK m \in 0..MaxLines : m = n
      BY <1>0, <1>n
    <2>3. csRow' = [row EXCEPT !.lines = m]
      BY <1>1, <2>1, <2>2
    <2> QED
      BY <2>1, <2>2, <2>3 DEF SessionRow
  <1>3. p <= Len(csFile) /\ csFile[p] = n /\ p \in 1..Len(csFile)
    <2>1. p <= Len(csFile) /\ csFile[p] = n
      BY <1>t, <1>a, <1>0 DEF CsCounted
    <2> QED
      BY <1>n, <2>1
  <1>4. csTx'[a].op = "idle" /\ \A b \in CsActors : b # a => csTx'[b] = csTx[b]
    BY <1>t, <1>a, CsIdleState
  <1>5. csTx' \in [CsActors -> CsTxState] /\ csSure' \subseteq 1..MaxLines
    BY <1>t, <1>a, <1>0, <1>1, CsIdleState
  <1>6. n <= Len(csFile)
    BY <1>t, <1>a, <1>0 DEF CsCounted
  <1>7. \A b \in CsActors : csTx'[b].op \in AppendOps => b # a /\ csTx'[b] = csTx[b]
    BY <1>4 DEF AppendOps
  <1>8. CsCounted'
    BY <1>t, <1>a, <1>2, <1>6, <1>7 DEF CsCounted, AppendOps
  <1>9. CsBefore'
    <2>1. InFile(csRow.lines)'
      BY <1>a, <1>2, <1>3 DEF InFile
    <2> QED
      BY <1>t, <1>a, <1>7, <2>1 DEF CsBefore, InFile, AppendOps
  <1>10. CsAlone'
    BY <1>t, <1>a, <1>7 DEF CsAlone, AppendOps
  <1>11. ASSUME NEW i \in csSure' PROVE /\ i <= Len(csFile) /\ csFile[i] <= n
                                        /\ \A b \in CsActors : csTx'[b].op \in AppendOps => csFile[i] < csTx'[b].line
                                        /\ \A j \in DOMAIN csFile : i < j => csFile[i] < csFile[j]
    <2>1. CASE i \in csSure
      <3>1. i <= Len(csFile) /\ csFile[i] < n
            /\ \A b \in CsActors : csTx'[b].op \in AppendOps => csFile[i] < csTx'[b].line
        BY <1>t, <1>a, <1>0, <1>7, <2>1 DEF CsSureBound, AppendOps
      <3>a. i \in 1..MaxLines
        BY <1>t, <2>1
      <3>2. i \in 1..Len(csFile)
        BY <1>n, <3>a, <3>1
      <3>3. csFile[i] \in 1..MaxLines
        BY <1>t, <3>2, CsFileElem
      <3> QED
        BY <1>t, <2>1, <3>1, <3>3 DEF LinesNumberedOnce
    <2>2. CASE i \notin csSure
      <3>1. i = p /\ a \notin csOver
        BY <1>1, <1>11, <2>2
      <3>2. p = Len(csFile)
        BY <1>t, <1>a, <1>0, <3>1 DEF CsAlone
      <3>3. \A b \in CsActors : csTx'[b].op \notin AppendOps
        BY <1>t, <1>a, <1>7, <3>1 DEF CsAlone, AppendOps
      <3>4. \A j \in DOMAIN csFile : ~(i < j)
        BY <1>t, <1>n, <3>1, <3>2
      <3> QED
        BY <1>n, <1>3, <3>1, <3>3, <3>4
    <2> QED
      BY <2>1, <2>2
  <1>12. CsSureBound' /\ LinesNumberedOnce' /\ NoLineSkipped'
    BY <1>t, <1>a, <1>2, <1>11 DEF CsSureBound, LinesNumberedOnce, NoLineSkipped
  <1> QED
    BY <1>2, <1>5, <1>8, <1>9, <1>10, <1>12 DEF CsLines

\* What a step other than an append writes of the row: a status and a report.
\* For a local command neither undoes an end, and a report comes after it.
CsWrites(st, u) ==
    /\ csRow' = [csRow EXCEPT !.status = st, !.told = u]
    /\ csOrigin = "server" => /\ csRow.status \in Terminal => st \in Terminal
                              /\ u = "yes" => st \in Terminal

\* The step of an actor whose loaded state becomes t keeps the invariant.
LEMMA CsActorStep ==
  ASSUME CsInv, NEW a \in CsActors, NEW t \in CsTxState, csTx' = [csTx EXCEPT ![a] = t], t.op \notin AppendOps,
         UNCHANGED <<csOrigin, lineVars>>,
         csProc' \in {"none", "running", "exited"}, csWorker' \in {"none", "loop", "error", "last", "done"},
         NEW st \in SessionStatus, NEW u \in {"no", "yes"}, CsWrites(st, u),
         t.op \in {"snapshot", "drop"} => csOrigin = "thin_client" /\ t.loaded \notin Ended,
         t.op = "finish" /\ t.status = "lost" => csOrigin = "thin_client",
         csOrigin = "server" /\ t.op = "tail" /\ t.loaded \in Terminal => st \in Terminal,
         csOrigin = "server" /\ t.op = "finish" /\ t.told = "yes" => st \in Terminal
  PROVE  CsInv'
  <1>t. /\ CsTypeOK /\ csRow \in SessionRow /\ csTx \in [CsActors -> CsTxState]
        /\ CsLines /\ CsRevivers /\ CsEndSeen /\ EndIsTold
    BY DEF CsInv, CsTypeOK
  <1>1. csRow' \in SessionRow /\ csRow'.status = st /\ csRow'.lines = csRow.lines /\ csRow'.told = u
    <2>1. PICK row \in SessionRow : row = csRow
      BY <1>t
    <2>2. csRow' = [row EXCEPT !.status = st, !.told = u]
      BY <2>1 DEF CsWrites
    <2> QED
      BY <2>1, <2>2 DEF SessionRow
  <1>2. csTx' \in [CsActors -> CsTxState] /\ csTx'[a] = t /\ \A b \in CsActors : b # a => csTx'[b] = csTx[b]
    BY <1>t
  <1>3. CsLines'
    BY <1>t, <1>1, CsLinesKept
  <1>4. CsTypeOK'
    BY <1>t, <1>1 DEF CsTypeOK, lineVars
  <1>5. CsRevivers'
    BY <1>t, <1>2 DEF CsRevivers
  <1>6. CsEndSeen'
    BY <1>t, <1>1, <1>2 DEF CsEndSeen, CsWrites
  <1>7. EndIsTold'
    BY <1>1 DEF EndIsTold, CsWrites
  <1> QED
    BY <1>2, <1>3, <1>4, <1>5, <1>6, <1>7 DEF CsInv

\* A step of no actor that starts or ends the process, or creates the session.
LEMMA CsProcessStep ==
  ASSUME CsInv, CreateSession \/ StartProcess \/ ProcessExits
  PROVE  CsInv'
  <1>t. /\ csOrigin \in {"server", "thin_client"} /\ csRow \in SessionRow /\ csTx \in [CsActors -> CsTxState]
        /\ csProc \in {"none", "running", "exited"} /\ csWorker \in {"none", "loop", "error", "last", "done"}
        /\ csFile \in Seq(1..MaxLines) /\ csOver \subseteq CsActors /\ csSure \subseteq 1..MaxLines
        /\ CsLines /\ CsRevivers /\ CsEndSeen /\ EndIsTold
    BY DEF CsInv, CsTypeOK
  <1>0. UNCHANGED <<csOrigin, csTx, csFile, csOver, csSure>>
    BY DEF CreateSession, StartProcess, ProcessExits, lineVars
  <1>1. csProc' \in {"none", "running", "exited"} /\ csWorker' \in {"none", "loop", "error", "last", "done"}
    BY <1>t DEF CreateSession, StartProcess, ProcessExits
  <1>2. /\ csRow' \in SessionRow /\ csRow'.lines = csRow.lines /\ csRow'.told = csRow.told
        /\ csRow'.status = csRow.status \/ (csRow.status = "none" /\ csRow'.status = "running")
    BY <1>t DEF CreateSession, StartProcess, ProcessExits, SessionRow, SessionStatus
  <1>3. CsTypeOK'
    BY <1>t, <1>0, <1>1, <1>2 DEF CsTypeOK
  <1>4. CsLines'
    <2>0. CsCounted /\ CsBefore /\ CsAlone /\ CsSureBound /\ LinesNumberedOnce /\ NoLineSkipped
      BY <1>t DEF CsLines
    <2>1. CsCounted' /\ CsSureBound' /\ CsAlone'
      BY <1>0, <1>2, <2>0 DEF CsCounted, CsSureBound, CsAlone
    <2>2. CsBefore' /\ LinesNumberedOnce' /\ NoLineSkipped'
      BY <1>0, <1>2, <2>0 DEF CsBefore, InFile, LinesNumberedOnce, NoLineSkipped
    <2> QED
      BY <2>1, <2>2 DEF CsLines
  <1>5. CsRevivers' /\ CsEndSeen' /\ EndIsTold'
    BY <1>t, <1>0, <1>2 DEF CsRevivers, CsEndSeen, EndIsTold, Terminal, Ended
  <1> QED
    BY <1>t, <1>0, <1>3, <1>4, <1>5 DEF CsInv

(* Every step of the handlers and monitors keeps the invariant.              *)
LEMMA CsStepInv == CsInv /\ [CsNext]_csVars => CsInv'
  <1> SUFFICES ASSUME CsInv, [CsNext]_csVars PROVE CsInv'
    OBVIOUS
  <1>t. /\ csOrigin \in {"server", "thin_client"} /\ csRow \in SessionRow
        /\ csProc \in {"none", "running", "exited"} /\ csWorker \in {"none", "loop", "error", "last", "done"}
        /\ csTx \in [CsActors -> CsTxState] /\ csFile \in Seq(1..MaxLines)
        /\ csOver \subseteq CsActors /\ csSure \subseteq 1..MaxLines
    BY DEF CsInv, CsTypeOK
  <1>0. CsRevivers /\ CsEndSeen /\ EndIsTold
    BY DEF CsInv
  <1>s. PICK s \in SessionStatus, v \in {"no", "yes"} : s = csRow.status /\ v = csRow.told
    BY <1>t DEF SessionRow
  <1>k. ASSUME csRow' = csRow PROVE CsWrites(s, v)
    <2>1. csRow' = [csRow EXCEPT !.status = s, !.told = v]
      BY <1>t, <1>s, <1>k DEF SessionRow
    <2> QED
      BY <1>0, <1>s, <2>1 DEF CsWrites, EndIsTold
  <1>1. ASSUME CreateSession \/ StartProcess \/ ProcessExits PROVE CsInv'
    BY <1>1, CsProcessStep
  <1>2. ASSUME NEW a \in CsActors, AppendRead(a) PROVE CsInv'
    <2>1. csTx[a] = CsIdle /\ UNCHANGED <<csOrigin, csRow, csFile, csProc, csWorker, csSure>> /\ csOver' \subseteq CsActors
      BY <1>t, <1>2 DEF AppendRead, CsBegin
    <2>2. \A b \in CsActors : csTx'[b] = csTx[b] \/ csTx'[b].op = "append"
      BY <1>t, <1>2 DEF AppendRead, CsBegin
    <2>3. CsTypeOK' /\ CsRevivers' /\ CsEndSeen' /\ EndIsTold'
      BY <1>t, <1>0, <2>1, <2>2 DEF CsTypeOK, CsRevivers, CsEndSeen, EndIsTold
    <2> QED
      BY <1>2, <2>3, CsLinesRead DEF CsInv
  <1>3. ASSUME NEW a \in CsActors, AppendWrite(a) PROVE CsInv'
    <2>1. UNCHANGED <<csOrigin, csRow, csProc, csWorker, csSure, csOver>>
      BY <1>3 DEF AppendWrite
    <2>2. \A b \in CsActors : csTx'[b] = csTx[b] \/ csTx'[b].op = "written"
      BY <1>t, <1>3 DEF AppendWrite
    <2>3. CsTypeOK' /\ CsRevivers' /\ CsEndSeen' /\ EndIsTold'
      BY <1>t, <1>0, <1>3, <2>1, <2>2, CsLinesWrite DEF CsTypeOK, CsRevivers, CsEndSeen, EndIsTold
    <2> QED
      BY <1>3, <2>3, CsLinesWrite DEF CsInv
  <1>4. ASSUME NEW a \in CsActors, AppendCommit(a) PROVE CsInv'
    <2>1. UNCHANGED <<csOrigin, csFile, csProc, csOver>> /\ csWorker' \in {"none", "loop", "error", "last", "done"}
      BY <1>t, <1>4 DEF AppendCommit, Appended
    <2>2. \A b \in CsActors : csTx'[b] = csTx[b] \/ csTx'[b].op = "idle"
      BY <1>t, <1>4, CsIdleState DEF AppendCommit, Appended, CsEnd
    <2>3. csRow'.status = csRow.status /\ csRow'.told = csRow.told
      BY <1>t, <1>4 DEF AppendCommit, SessionRow
    <2>4. CsTypeOK' /\ CsRevivers' /\ CsEndSeen' /\ EndIsTold'
      BY <1>t, <1>0, <1>4, <2>1, <2>2, <2>3, CsLinesCommit DEF CsTypeOK, CsRevivers, CsEndSeen, EndIsTold
    <2> QED
      BY <1>4, <2>4, CsLinesCommit DEF CsInv
  <1>5. ASSUME NEW a \in CsActors, AppendFails(a) \/ FinishFails(a) PROVE CsInv'
    <2>1. csTx' = [csTx EXCEPT ![a] = CsIdle] /\ UNCHANGED <<csOrigin, csRow, csProc, lineVars>>
      BY <1>5 DEF AppendFails, FinishFails, CsEnd
    <2>2. csWorker' \in {"none", "loop", "error", "last", "done"}
      BY <1>t, <1>5 DEF AppendFails, FinishFails, WorkerFails
    <2> QED
      BY <1>t, <1>s, <1>k, <2>1, <2>2, CsIdleState, CsActorStep DEF AppendOps
  <1>6. ASSUME NEW a \in CsActors, NEW st \in Ended, NEW told \in {"same", "no", "yes"}, FinishRead(a, st, told) PROVE CsInv'
    <2>1. PICK t : t = [op |-> "finish", loaded |-> s, status |-> st, told |-> told]
      OBVIOUS
    <2>2. t \in CsTxState /\ t.op = "finish" /\ t.status # "lost" /\ t.told = told
      BY <1>s, <1>6, <2>1 DEF CsTxState, Terminal, Ended
    <2>3. csTx' = [csTx EXCEPT ![a] = t] /\ UNCHANGED <<csOrigin, csRow, csProc, csWorker, lineVars>>
      BY <1>s, <1>6, <2>1 DEF FinishRead, CsBegin
    <2>4. csOrigin = "server" /\ told = "yes" => s \in Terminal
      BY <1>0, <1>s, <1>6 DEF FinishRead, EndIsTold
    <2> QED
      BY <1>t, <1>s, <1>k, <2>2, <2>3, <2>4, CsActorStep DEF AppendOps
  <1>7. ASSUME NEW a \in CsActors, FinishCommit(a) PROVE CsInv'
    <2>1. PICK t \in CsTxState : t = csTx[a]
      BY <1>t
    <2>2. t.op = "finish" /\ t.status \in Terminal /\ t.told \in {"same", "no", "yes"}
      BY <1>7, <2>1, CsTxFields DEF FinishCommit
    <2>3. PICK st : st = FinishedStatus(t)
      OBVIOUS
    <2>4. PICK u : u = FinishedTold(t)
      OBVIOUS
    <2>5. /\ st \in SessionStatus /\ (csRow.status \in Terminal => st \in Terminal) /\ u \in {"no", "yes"}
          /\ u = csRow.told \/ u = t.told
      BY <1>s, <2>2, <2>3, <2>4 DEF FinishedStatus, FinishedTold, SessionStatus
    <2>6. csOrigin = "server" /\ u = "yes" => csRow.status \in Terminal
      BY <1>0, <2>1, <2>2, <2>5 DEF CsEndSeen, EndIsTold
    <2>7. csRow' = [csRow EXCEPT !.status = st, !.told = u] /\ csTx' = [csTx EXCEPT ![a] = CsIdle]
          /\ UNCHANGED <<csOrigin, csProc, lineVars>> /\ csWorker' \in {"none", "loop", "error", "last", "done"}
      BY <1>t, <1>7, <2>1, <2>3, <2>4 DEF FinishCommit, CsEnd
    <2>8. CsWrites(st, u)
      BY <2>5, <2>6, <2>7 DEF CsWrites
    <2> QED
      BY <1>t, <2>5, <2>7, <2>8, CsIdleState, CsActorStep DEF AppendOps
  <1>8. ASSUME NEW a \in CsActors, TerminateAsk(a) \/ SnapshotRead(a) \/ DropRead(a) \/ TailRead(a) PROVE CsInv'
    <2>0. PICK op \in {"terminate", "snapshot", "drop", "tail"} :
            /\ csTx' = [csTx EXCEPT ![a] = [op |-> op, loaded |-> s]]
            /\ UNCHANGED <<csOrigin, csRow, csProc, csWorker, lineVars>>
            /\ op \in {"snapshot", "drop"} => csOrigin = "thin_client" /\ s \in {"running", "disconnecting", "lost"}
      BY <1>s, <1>8 DEF TerminateAsk, SnapshotRead, DropRead, TailRead, CsBegin, Revivable
    <2>1. PICK t : t = [op |-> op, loaded |-> s]
      OBVIOUS
    <2>2. t \in CsTxState /\ t.op = op /\ t.loaded = s
      BY <1>s, <2>1 DEF CsTxState
    <2>3. op \in {"snapshot", "drop"} => csOrigin = "thin_client" /\ s \notin Ended
      BY <2>0 DEF Ended
    <2> QED
      BY <1>t, <1>s, <1>k, <2>0, <2>1, <2>2, <2>3, CsActorStep DEF AppendOps
  <1>9. ASSUME NEW a \in CsActors, TerminateLost(a) PROVE CsInv'
    <2>1. PICK t : t = [op |-> "finish", loaded |-> s, status |-> "lost", told |-> v]
      OBVIOUS
    <2>2. t \in CsTxState /\ t.op = "finish"
      BY <1>s, <2>1 DEF CsTxState, Terminal
    <2>3. csTx' = [csTx EXCEPT ![a] = t] /\ UNCHANGED <<csOrigin, csRow, csProc, csWorker, lineVars>> /\ csOrigin = "thin_client"
      BY <1>s, <1>9, <2>1 DEF TerminateLost
    <2> QED
      BY <1>t, <1>s, <1>k, <2>2, <2>3, CsActorStep DEF AppendOps
  <1>10. ASSUME NEW a \in CsActors, TerminateDone(a) PROVE CsInv'
    <2>1. /\ csTx' = [csTx EXCEPT ![a] = CsIdle] /\ UNCHANGED <<csOrigin, csWorker, lineVars>>
          /\ csProc' \in {"none", "running", "exited"}
          /\ csRow' = csRow \/ csRow' = [csRow EXCEPT !.status = "terminated"]
      BY <1>t, <1>10 DEF TerminateDone, CsEnd
    <2>2. CASE csRow' = csRow
      BY <1>t, <1>s, <1>k, <2>1, <2>2, CsIdleState, CsActorStep DEF AppendOps
    <2>3. CASE csRow' = [csRow EXCEPT !.status = "terminated"]
      <3>1. CsWrites("terminated", v)
        BY <1>t, <1>s, <2>3 DEF CsWrites, SessionRow, Terminal, Ended
      <3>2. "terminated" \in SessionStatus
        BY DEF SessionStatus, Terminal, Ended
      <3> QED
        BY <1>t, <1>s, <2>1, <3>1, <3>2, CsIdleState, CsActorStep DEF AppendOps
    <2> QED
      BY <2>1, <2>2, <2>3
  <1>11. ASSUME NEW a \in CsActors, Snapshot(a) \/ Drop(a) PROVE CsInv'
    <2>0. csOrigin = "thin_client"
      BY <1>0, <1>11 DEF Snapshot, Drop, CsRevivers
    <2>1. /\ csTx' = [csTx EXCEPT ![a] = CsIdle] /\ UNCHANGED <<csOrigin, csProc, csWorker, lineVars>>
          /\ csRow' = csRow \/ \E st \in {"running", "disconnecting"} : csRow' = [csRow EXCEPT !.status = st]
      BY <1>11 DEF Snapshot, Drop, CsEnd
    <2>2. CASE csRow' = csRow
      BY <1>t, <1>s, <1>k, <2>1, <2>2, CsIdleState, CsActorStep DEF AppendOps
    <2>3. CASE \E st \in {"running", "disconnecting"} : csRow' = [csRow EXCEPT !.status = st]
      <3>1. PICK st \in {"running", "disconnecting"} : csRow' = [csRow EXCEPT !.status = st]
        BY <2>3
      <3>2. CsWrites(st, v) /\ st \in SessionStatus
        BY <1>t, <1>s, <2>0, <3>1 DEF CsWrites, SessionRow, SessionStatus
      <3> QED
        BY <1>t, <1>s, <2>0, <2>1, <3>2, CsIdleState, CsActorStep DEF AppendOps
    <2> QED
      BY <2>1, <2>2, <2>3
  <1>12. ASSUME NEW a \in CsActors, TailCommit(a) PROVE CsInv'
    <2>1. /\ csTx' = [csTx EXCEPT ![a] = CsIdle] /\ UNCHANGED <<csOrigin, csProc, csWorker, lineVars>>
          /\ csRow' = csRow \/ (csRow' = [csRow EXCEPT !.told = "yes"] /\ csTx[a].op = "tail" /\ csTx[a].loaded \in Terminal)
      BY <1>12 DEF TailCommit, CsEnd
    <2>2. CASE csRow' = csRow
      BY <1>t, <1>s, <1>k, <2>1, <2>2, CsIdleState, CsActorStep DEF AppendOps
    <2>3. CASE csRow' = [csRow EXCEPT !.told = "yes"] /\ csTx[a].op = "tail" /\ csTx[a].loaded \in Terminal
      <3>1. csOrigin = "server" => csRow.status \in Terminal
        BY <1>0, <2>3 DEF CsEndSeen
      <3>2. csRow' = [csRow EXCEPT !.status = s, !.told = "yes"]
        BY <1>t, <1>s, <2>3 DEF SessionRow
      <3>3. CsWrites(s, "yes")
        BY <1>s, <3>1, <3>2 DEF CsWrites
      <3> QED
        BY <1>t, <1>s, <2>1, <3>3, CsIdleState, CsActorStep DEF AppendOps
    <2> QED
      BY <2>1, <2>2, <2>3
  <1>13. CASE UNCHANGED csVars
    <2>0. CsCounted /\ CsBefore /\ CsAlone /\ CsSureBound /\ LinesNumberedOnce /\ NoLineSkipped
      BY DEF CsInv, CsLines
    <2>1. UNCHANGED <<csOrigin, csRow, csFile, csProc, csWorker, csTx, csOver, csSure>>
      BY <1>13 DEF csVars
    <2>2. CsLines'
      BY <2>0, <2>1 DEF CsLines, CsCounted, CsBefore, InFile, CsAlone, CsSureBound, LinesNumberedOnce, NoLineSkipped
    <2>3. CsTypeOK' /\ CsRevivers' /\ CsEndSeen' /\ EndIsTold'
      BY <1>t, <1>0, <2>1 DEF CsTypeOK, CsRevivers, CsEndSeen, EndIsTold
    <2> QED
      BY <1>t, <2>1, <2>2, <2>3 DEF CsInv
  <1> QED
    BY <1>1, <1>2, <1>3, <1>4, <1>5, <1>6, <1>7, <1>8, <1>9, <1>10, <1>11, <1>12, <1>13 DEF CsNext

\* Nothing else that is written late brings a session that has ended back.
LEMMA CsEndedStep ==
  ASSUME CsInv, CsNext, csRow.status \in Ended, csRow'.status \notin Terminal
  PROVE  \E a \in CsActors : /\ csTx[a].op \in {"snapshot", "drop"} /\ csTx'[a] = CsIdle
                             /\ csTx[a].loaded \notin Ended
  <1>t. csRow \in SessionRow /\ csRow.status \in Terminal /\ csTx \in [CsActors -> CsTxState] /\ CsRevivers
    BY DEF CsInv, CsTypeOK, Terminal
  <1>1. csRow' # csRow /\ csRow.status # "none"
    BY <1>t DEF Terminal, Ended
  <1>2. ~(CreateSession \/ StartProcess \/ ProcessExits)
    BY <1>1 DEF CreateSession, StartProcess, ProcessExits
  <1>3. ASSUME NEW a \in CsActors, AppendRead(a) \/ AppendWrite(a) \/ AppendFails(a) \/ FinishFails(a)
                 \/ TerminateAsk(a) \/ TerminateLost(a) \/ SnapshotRead(a) \/ DropRead(a) \/ TailRead(a)
        PROVE  FALSE
    BY <1>1, <1>3 DEF AppendRead, AppendWrite, AppendFails, FinishFails, TerminateAsk, TerminateLost, SnapshotRead,
         DropRead, TailRead
  <1>4. ASSUME NEW a \in CsActors, NEW st \in Ended, NEW told \in {"same", "no", "yes"}, FinishRead(a, st, told)
        PROVE  FALSE
    BY <1>1, <1>4 DEF FinishRead
  <1>5. ASSUME NEW a \in CsActors, AppendCommit(a) \/ TailCommit(a) \/ TerminateDone(a) PROVE FALSE
    BY <1>t, <1>5 DEF AppendCommit, TailCommit, TerminateDone, SessionRow, Terminal, Ended
  <1>6. ASSUME NEW a \in CsActors, FinishCommit(a) PROVE FALSE
    <2>1. PICK t \in CsTxState : t = csTx[a]
      BY <1>t
    <2>2. t.status \in Terminal
      BY <1>6, <2>1, CsTxFields DEF FinishCommit
    <2>3. csRow'.status = FinishedStatus(t)
      BY <1>t, <1>6, <2>1 DEF FinishCommit, SessionRow
    <2> QED
      BY <1>t, <2>2, <2>3 DEF FinishedStatus
  <1>7. ASSUME NEW a \in CsActors, Snapshot(a) \/ Drop(a)
        PROVE  csTx[a].op \in {"snapshot", "drop"} /\ csTx'[a] = CsIdle /\ csTx[a].loaded \notin Ended
    BY <1>t, <1>7 DEF Snapshot, Drop, CsEnd, CsRevivers
  <1> QED
    BY <1>2, <1>3, <1>4, <1>5, <1>6, <1>7 DEF CsNext

\* However the worker, the connections of a client, callers and reports
\* overlap and fail, the output has no gap and is numbered once where appends
\* do not overlap or fail, an end is told, and only a handler that had loaded
\* the session before its end brings it back (MonitoringService).
THEOREM CommandSessionsCorrect == CsSpec => CommandSessionsSound
  <1>1. CsInv => LinesNumberedOnce /\ NoLineSkipped /\ EndIsTold
    BY DEF CsInv, CsLines
  <1>2. CsInit => CsInv
    BY CsInitInv
  <1>3. CsInv /\ [CsNext]_csVars => CsInv'
    BY CsStepInv
  <1>4. CsInv /\ [CsNext]_csVars =>
          [csRow.status \in Ended /\ csRow'.status \notin Terminal =>
             \E a \in CsActors : /\ csTx[a].op \in {"snapshot", "drop"} /\ csTx'[a] = CsIdle
                                 /\ csTx[a].loaded \notin Ended]_csVars
    BY CsEndedStep
  <1> QED
    BY <1>1, <1>2, <1>3, <1>4, PTL DEF CsSpec, CommandSessionsSound, EndedStaysEnded

-----------------------------------------------------------------------------
(* The components side by side                                             *)

\* Permits, command sessions, chat contexts, OAuth rows and realtime routes
\* keep to their types while they run side by side: the step of one is a
\* stuttering step of the others.
THEOREM SessionTypesCorrect == SessionsSpec => []SessionTypesOK
  <1> DEFINE Inv == TypeOK /\ CsInv /\ CcInv /\ OaInv /\ RtInv
             all == <<focus, vars, csVars, ccVars, oaVars, rtVars>>
  <1>1. SessionsInit => Inv
    BY TypeInit, CsInitInv, CcInitInv, OaInitInv, RtInitInv DEF SessionsInit
  <1>2. ASSUME Inv, [SessionsNext]_all PROVE Inv'
    <2>1. [Next]_vars /\ [CsNext]_csVars /\ [CcNext]_ccVars /\ [OaNext]_oaVars /\ [RtNext]_rtVars
      BY <1>2 DEF SessionsNext, CcNext
    <2> QED
      BY <1>2, <2>1, TypeStep, CsStepInv, CcStepInv, OaStepInv, RtStepInv
  <1>3. Inv => SessionTypesOK
    BY DEF CsInv, CcInv, OaInv, RtInv, SessionTypesOK
  <1> QED
    BY <1>1, <1>2, <1>3, PTL DEF SessionsSpec

\* A behaviour of the sessions is a behaviour of each component.
LEMMA SessionsImplement == SessionsSpec => Spec /\ CsSpec /\ CcSpec /\ OaSpec /\ RtSpec
  <1>1. SessionsInit => Init /\ CsInit /\ CcInit /\ OaInit /\ RtInit
    BY DEF SessionsInit
  <1>2. [SessionsNext]_<<focus, vars, csVars, ccVars, oaVars, rtVars>> =>
          [Next]_vars /\ [CsNext]_csVars /\ [CcNext]_ccVars /\ [OaNext]_oaVars /\ [RtNext]_rtVars
    BY DEF SessionsNext, CcNext
  <1> QED
    BY <1>1, <1>2, PTL DEF SessionsSpec, Spec, CsSpec, CcSpec, OaSpec, RtSpec

\* Everything the run Sessions checks, for any users, clients, contexts,
\* codes and sockets, and what the permits run checks of every permit.
THEOREM SessionsCorrect ==
    SessionsSpec => /\ [](SessionTypesOK /\ PermitBackedByQuorum /\ SingleUse)
                    /\ [](ChatContextsSound /\ LineageSound /\ RealtimeSound)
                    /\ PermitHistory /\ CommandSessionsSound
  BY SessionsImplement, SessionTypesCorrect, ConsentCorrect, SingleUseCorrect, CommandSessionsCorrect,
     ChatContextsCorrect, LineageCorrect, RealtimeCorrect, PermitHistoryCorrect, PTL
=============================================================================
