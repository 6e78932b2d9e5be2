---------------------------- MODULE ClientsProofs ----------------------------
(***************************************************************************)
(* Proofs about what runs on behalf of a client, for any number of         *)
(* connections, calls, workspaces, work items, requests and limits.  Each  *)
(* section finds the inductive invariant of one component and proves what  *)
(* the run Clients checks of it; the last one composes them.               *)
(***************************************************************************)
EXTENDS MCClients, FiniteSetTheorems, SequenceTheorems, WellFoundedInduction, TLAPS


-----------------------------------------------------------------------------
(* Thin clients and their connections (ThinClients)                        *)

TcListOK ==
    /\ \A i, j \in DOMAIN tcList : tcList[i] = tcList[j] => i = j
    /\ \A k \in TcConns : tcConn[k].phase = "new" => k \notin Listed

\* What is true of one request at any time: nothing was sent before its task
\* ran, and it waits on a listed connection only.  A write whose future
\* says "lost" stays unsent because its socket is dead, or was cut in its send;
\* one that is recorded as lost is over, and was cut or never sent.
TcReqOK(r) ==
    /\ tcReq[r].phase = "idle" => ~tcReq[r].pending
    /\ tcReq[r].phase \in {"idle", "queued"} => tcFrame[r] = "none"
    /\ tcReq[r].phase = "queued" => tcReq[r].conn \in TcConns
    /\ tcReq[r].phase = "waiting" => tcReq[r].dispatched
    /\ tcReq[r].kind = "write" /\ tcReq[r].future = "lost" =>
          /\ tcReq[r].phase \in {"sending", "waiting"} => tcReq[r].cut
          /\ tcReq[r].phase = "queued" => ~tcConn[tcReq[r].conn].alive
    /\ tcReq[r].kind = "write" /\ tcInv[r] = "lost" =>
          tcReq[r].phase = "done" /\ (tcFrame[r] = "none" \/ tcReq[r].cut)
    /\ tcReq[r].pending => tcReq[r].conn \in Listed

TcRows == OneRuntimeOnline /\ OfflineServerHasNoRuntime

TcInv == TcTypeOK /\ TcListOK /\ TcRows /\ OfflineMeansNoneConnected /\ \A r \in TcReqs : TcReqOK(r)

\* The list has the connections of its entries.
LEMMA TcListedIn == tcList \in Seq(TcConns) => Listed \subseteq TcConns
  BY DEF Listed

\* Taking one connection out of the list keeps the others, each once.
LEMMA TcWithout ==
    ASSUME tcList \in Seq(TcConns), \A i, j \in DOMAIN tcList : tcList[i] = tcList[j] => i = j,
           NEW k \in TcConns, NEW new, new = Without(k)
    PROVE  /\ new \in Seq(TcConns) /\ \A i, j \in DOMAIN new : new[i] = new[j] => i = j
           /\ {new[i] : i \in DOMAIN new} = Listed \ {k}
  <1>1. CASE k \notin Listed
    BY <1>1 DEF Without, Listed
  <1>2. CASE k \in Listed
    <2>1. \E i \in DOMAIN tcList : tcList[i] = k
      BY <1>2 DEF Listed
    <2>2. PICK i : i = CHOOSE j \in DOMAIN tcList : tcList[j] = k
      OBVIOUS
    <2>3. i \in DOMAIN tcList /\ tcList[i] = k
      BY <2>1, <2>2
    <2>4. PICK n \in Nat : n = Len(tcList) /\ DOMAIN tcList = 1 .. n /\ i \in 1 .. n
      BY <2>3
    <2>5. PICK lo, hi : lo = SubSeq(tcList, 1, i - 1) /\ hi = SubSeq(tcList, i + 1, n)
      OBVIOUS
    <2>6. /\ lo \in Seq(TcConns) /\ Len(lo) = i - 1 /\ \A j \in 1 .. i - 1 : lo[j] = tcList[j]
      BY <2>4, <2>5
    <2>7. /\ hi \in Seq(TcConns) /\ Len(hi) = n - i /\ \A j \in 1 .. n - i : hi[j] = tcList[i + j]
      BY <2>4, <2>5
    <2>8. new = lo \o hi
      BY <1>2, <2>2, <2>4, <2>5 DEF Without
    <2>9. /\ new \in Seq(TcConns) /\ Len(new) = n - 1
          /\ \A j \in 1 .. n - 1 : new[j] = IF j < i THEN tcList[j] ELSE tcList[j + 1]
      BY <2>4, <2>6, <2>7, <2>8
    <2>10. DOMAIN new = 1 .. n - 1
      BY <2>9
    <2>11. \A a, b \in DOMAIN new : new[a] = new[b] => a = b
      <3> SUFFICES ASSUME NEW a \in 1 .. n - 1, NEW b \in 1 .. n - 1, new[a] = new[b] PROVE a = b
        BY <2>10
      <3>1. PICK c \in 1 .. n : c = IF a < i THEN a ELSE a + 1
        BY <2>4
      <3>2. PICK d \in 1 .. n : d = IF b < i THEN b ELSE b + 1
        BY <2>4
      <3>3. tcList[c] = tcList[d]
        BY <3>1, <3>2, <2>9
      <3>4. c = d
        BY <3>1, <3>2, <3>3, <2>4
      <3> QED BY <3>1, <3>2, <3>4, <2>4
    <2>12. ASSUME NEW a \in 1 .. n - 1 PROVE new[a] \in Listed \ {k}
      <3>1. PICK c \in 1 .. n : c = (IF a < i THEN a ELSE a + 1) /\ c # i
        BY <2>4
      <3>2. new[a] = tcList[c]
        BY <3>1, <2>9
      <3> QED BY <3>1, <3>2, <2>3, <2>4 DEF Listed
    <2>13. ASSUME NEW x \in Listed, x # k PROVE \E a \in 1 .. n - 1 : new[a] = x
      <3>1. PICK c \in 1 .. n : tcList[c] = x /\ c # i
        BY <2>3, <2>4, <2>13 DEF Listed
      <3>2. PICK a \in 1 .. n - 1 : a = IF c < i THEN c ELSE c - 1
        BY <3>1, <2>4
      <3>3. new[a] = tcList[c]
        BY <3>1, <3>2, <2>4, <2>9
      <3> QED BY <3>1, <3>2, <3>3
    <2>14. {new[a] : a \in DOMAIN new} = Listed \ {k}
      BY <2>10, <2>12, <2>13
    <2> QED BY <2>9, <2>11, <2>14
  <1> QED BY <1>1, <1>2

\* What _fail_pending_for_connection leaves of a request.
LEMMA TcFailed ==
    ASSUME TcTypeOK, NEW ks, NEW r \in TcReqs, NEW q, q = FailPending(ks)[r]
    PROVE  /\ q \in ReqRow /\ q.phase = tcReq[r].phase /\ q.kind = tcReq[r].kind /\ q.conn = tcReq[r].conn
           /\ q.dispatched = tcReq[r].dispatched /\ (tcReq[r].cut => q.cut)
           /\ q.pending => tcReq[r].pending /\ tcReq[r].conn \notin ks
           /\ q.future # tcReq[r].future => /\ tcReq[r].conn \in ks /\ (q.phase = "sending" => q.cut)
                                            /\ q.future = "lost" => ~(tcReq[r].dispatched /\ tcReq[r].kind = "write")
  <1>0. PICK old \in ReqRow : old = tcReq[r]
    BY DEF TcTypeOK
  <1>1. CASE old.pending /\ old.conn \in ks
    <2>1. PICK f \in {"none", "answer", "lost", "unknown"} :
             f = IF old.future # "none" THEN old.future ELSE IF UnknownIfInterrupted(old) THEN "unknown" ELSE "lost"
      BY <1>0 DEF ReqRow
    <2>c. PICK cut \in BOOLEAN : cut = IF Sending(old) THEN TRUE ELSE old.cut
      BY <1>0 DEF ReqRow
    <2>2. q = [old EXCEPT !.pending = FALSE, !.cut = cut, !.future = f]
      BY <1>0, <1>1, <2>1, <2>c DEF FailPending
    <2>3. /\ q \in ReqRow /\ q.phase = old.phase /\ q.kind = old.kind /\ q.conn = old.conn
          /\ q.dispatched = old.dispatched /\ q.pending = FALSE /\ q.cut = cut /\ q.future = f
      BY <1>0, <2>1, <2>c, <2>2 DEF ReqRow
    <2> QED BY <1>0, <1>1, <2>1, <2>c, <2>3 DEF UnknownIfInterrupted, Sending
  <1>2. CASE ~(old.pending /\ old.conn \in ks)
    <2>1. q = old
      BY <1>0, <1>2 DEF FailPending
    <2> QED BY <2>1, <1>0, <1>2
  <1> QED BY <1>1, <1>2

\* Connections ks go, with their sockets: the requests stay sound.
LEMMA TcFailPending ==
    ASSUME TcInv, NEW ks, tcReq' = FailPending(ks), tcFrame' = tcFrame, Listed \ ks \subseteq Listed',
           \A c \in TcConns : c \in ks \/ ~tcConn[c].alive => ~tcConn'[c].alive,
           \A r \in TcReqs : tcInv'[r] = tcInv[r] \/ (tcReq[r].kind = "write" => tcInv'[r] = "unknown")
    PROVE  tcReq' \in [TcReqs -> ReqRow] /\ \A r \in TcReqs : TcReqOK(r)'
  <1>t. TcTypeOK
    BY DEF TcInv
  <1>1. ASSUME NEW r \in TcReqs PROVE tcReq'[r] \in ReqRow /\ TcReqOK(r)'
    <2>1. PICK q : q = FailPending(ks)[r]
      OBVIOUS
    <2>2. /\ q \in ReqRow /\ q.phase = tcReq[r].phase /\ q.kind = tcReq[r].kind /\ q.conn = tcReq[r].conn
          /\ q.dispatched = tcReq[r].dispatched /\ (tcReq[r].cut => q.cut)
          /\ q.pending => tcReq[r].pending /\ tcReq[r].conn \notin ks
          /\ q.future # tcReq[r].future => /\ tcReq[r].conn \in ks /\ (q.phase = "sending" => q.cut)
                                           /\ q.future = "lost" => ~(tcReq[r].dispatched /\ tcReq[r].kind = "write")
      BY <2>1, <1>t, TcFailed
    <2>3. tcReq'[r] = q
      BY <2>1
    <2>4. TcReqOK(r)
      BY DEF TcInv
    <2>5. q.kind = "write" /\ q.future = "lost" /\ q.phase \in {"sending", "waiting"} => q.cut
      BY <2>2, <2>4 DEF TcReqOK
    <2>6. q.kind = "write" /\ q.future = "lost" /\ q.phase = "queued" => ~tcConn'[q.conn].alive
      BY <2>2, <2>4 DEF TcReqOK
    <2>7. q.kind = "write" /\ tcInv'[r] = "lost" => q.phase = "done" /\ (tcFrame'[r] = "none" \/ q.cut)
      BY <2>2, <2>4 DEF TcReqOK
    <2>8. q.pending => q.conn \in Listed'
      BY <2>2, <2>4 DEF TcReqOK
    <2>9. /\ (q.phase = "idle" => ~q.pending) /\ (q.phase \in {"idle", "queued"} => tcFrame'[r] = "none")
          /\ (q.phase = "queued" => q.conn \in TcConns) /\ (q.phase = "waiting" => q.dispatched)
      BY <2>2, <2>4 DEF TcReqOK
    <2> QED BY <2>2, <2>3, <2>5, <2>6, <2>7, <2>8, <2>9 DEF TcReqOK
  <1>2. tcReq' = [r \in TcReqs |-> tcReq'[r]]
    BY DEF FailPending
  <1> QED BY <1>1, <1>2

\* Nothing happens to the requests and no connection goes.
LEMMA TcReqsSame ==
    ASSUME TcInv, tcReq' = tcReq, tcFrame' = tcFrame, tcInv' = tcInv, Listed \subseteq Listed',
           \A c \in TcConns : ~tcConn[c].alive => ~tcConn'[c].alive
    PROVE  \A r \in TcReqs : TcReqOK(r)'
  <1> SUFFICES ASSUME NEW r \in TcReqs PROVE TcReqOK(r)'
    OBVIOUS
  <1>1. TcReqOK(r)
    BY DEF TcInv
  <1> QED BY <1>1 DEF TcReqOK

\* One request moves, no connection does.
LEMMA TcOneReq ==
    ASSUME TcInv, NEW r \in TcReqs, NEW q \in ReqRow, tcReq' = [tcReq EXCEPT ![r] = q],
           UNCHANGED <<tcClient, tcList, tcConn, tcRow, tcServer, tcRestarts>>,
           tcFrame' \in [TcReqs -> {"none", "sent", "ran", "answered"}],
           tcInv' \in [TcReqs -> {"none", "running", "answered", "lost", "unknown"}],
           \A s \in TcReqs : s # r => tcFrame'[s] = tcFrame[s] /\ tcInv'[s] = tcInv[s],
           tcReq'[r] = q => TcReqOK(r)'
    PROVE  TcInv'
  <1>1. /\ tcReq' \in [TcReqs -> ReqRow] /\ tcReq'[r] = q
        /\ \A s \in TcReqs : s # r => tcReq'[s] = tcReq[s]
    BY DEF TcInv, TcTypeOK
  <1>2. TcTypeOK'
    BY <1>1 DEF TcInv, TcTypeOK
  <1>3. Listed' = Listed
    BY DEF Listed
  <1>4. ASSUME NEW s \in TcReqs PROVE TcReqOK(s)'
    <2>1. CASE s = r
      BY <2>1, <1>1
    <2>2. CASE s # r
      BY <2>2, <1>1, <1>3 DEF TcInv, TcReqOK
    <2> QED BY <2>1, <2>2
  <1> QED BY <1>2, <1>3, <1>4 DEF TcInv, TcListOK, TcRows, OneRuntimeOnline, OfflineServerHasNoRuntime, OfflineMeansNoneConnected

\* No client, no connection and no request at first.
LEMMA TcInitInv == TcInit => TcInv
  <1> SUFFICES ASSUME TcInit PROVE TcInv
    OBVIOUS
  <1>1. TcTypeOK
    <2>1. [phase |-> "new", alive |-> TRUE, stale |-> FALSE, runtime |-> FALSE] \in ConnRow
      BY DEF ConnRow
    <2>2. [phase |-> "idle", kind |-> "legacy", conn |-> NoConn, pending |-> FALSE, dispatched |-> FALSE,
           cut |-> FALSE, future |-> "none"] \in ReqRow
      BY DEF ReqRow
    <2>3. tcList \in Seq(TcConns) /\ tcRestarts \in 0 .. MaxRestarts
      BY ThinClientsAssumption DEF TcInit
    <2> QED BY <2>1, <2>2, <2>3 DEF TcInit, TcTypeOK, RuntimeRow
  <1>2. Listed = {}
    BY DEF TcInit, Listed
  <1>3. TcListOK
    BY <1>2 DEF TcInit, TcListOK
  <1>4. ASSUME NEW r \in TcReqs PROVE TcReqOK(r)
    BY DEF TcInit, TcReqOK
  <1> QED BY <1>1, <1>3, <1>4 DEF TcInv, TcInit, TcRows, OneRuntimeOnline, OfflineServerHasNoRuntime, OfflineMeansNoneConnected

\* A connection's handler moves on without touching list, rows or requests.
LEMMA TcConnMoves ==
    ASSUME TcInv, NEW k \in TcConns, NEW x \in ConnRow, tcConn' = [tcConn EXCEPT ![k] = x],
           UNCHANGED <<tcClient, tcList, tcRow, tcServer, tcReq, tcFrame, tcInv, tcRestarts>>,
           x.phase # "new", ~tcConn[k].alive => ~x.alive,
           k \in Listed /\ tcClient = "offline" => x.stale \/ x.phase \in {"registering", "leaked"}
    PROVE  TcInv'
  <1>1. /\ tcConn' \in [TcConns -> ConnRow] /\ tcConn'[k] = x
        /\ \A c \in TcConns : c # k => tcConn'[c] = tcConn[c]
    BY DEF TcInv, TcTypeOK
  <1>2. Listed' = Listed /\ Listed \subseteq TcConns
    BY TcListedIn DEF Listed, TcInv, TcTypeOK
  <1>3. TcTypeOK' /\ TcListOK' /\ TcRows'
    BY <1>1, <1>2 DEF TcInv, TcTypeOK, TcListOK, TcRows, OneRuntimeOnline, OfflineServerHasNoRuntime
  <1>4. OfflineMeansNoneConnected'
    BY <1>1, <1>2 DEF TcInv, OfflineMeansNoneConnected
  <1>5. \A r \in TcReqs : TcReqOK(r)'
    BY <1>1, <1>2, TcReqsSame
  <1> QED BY <1>3, <1>4, <1>5 DEF TcInv

\* Enrolment, connections and rows keep the invariant.
LEMMA TcConnStep ==
    ASSUME TcInv,
           \/ RegisterThinClient \/ DeleteThinClient \/ GatewayRestart
           \/ \E k \in TcConns :
                \/ Accept(k) \/ Hello(k) \/ SocketDies(k) \/ NegotiateRuntime(k) \/ PersistRuntime(k)
                \/ Heartbeat(k) \/ Disconnected(k)
                \/ \E st \in {"online", "degraded", "offline", "failed", "restarting"} : ServerStatus(k, st)
    PROVE  TcInv'
  <1>t. TcTypeOK
    BY DEF TcInv
  <1>h. TcListOK /\ TcRows /\ OfflineMeansNoneConnected /\ \A r \in TcReqs : TcReqOK(r)
    BY DEF TcInv
  <1>l. Listed \subseteq TcConns
    BY <1>t, TcListedIn DEF TcTypeOK
  <1>c. \A k \in TcConns : tcConn[k] \in ConnRow
    BY <1>t DEF TcTypeOK
  <1>1. ASSUME tcClient' = "online", UNCHANGED <<tcList, tcConn, tcRow, tcServer, tcReq, tcFrame, tcInv, tcRestarts>>
        PROVE  TcInv'
    <2>1. TcTypeOK' /\ Listed' = Listed
      BY <1>1, <1>t DEF TcTypeOK, Listed
    <2>2. \A r \in TcReqs : TcReqOK(r)'
      BY <1>1, <2>1, TcReqsSame
    <2> QED BY <1>1, <2>1, <2>2, <1>h DEF TcInv, TcListOK, TcRows, OneRuntimeOnline, OfflineServerHasNoRuntime, OfflineMeansNoneConnected
  <1>2. ASSUME NEW k \in TcConns, Accept(k) PROVE TcInv'
    <2>1. /\ tcConn[k].phase = "new" /\ tcClient' = "online" /\ tcList' = Append(tcList, k)
          /\ UNCHANGED <<tcRow, tcServer, tcReq, tcFrame, tcInv, tcRestarts>>
      BY <1>2 DEF Accept
    <2>2. PICK old \in ConnRow : old = tcConn[k]
      BY <1>c
    <2>3. PICK x : x = [old EXCEPT !.phase = "hello"]
      OBVIOUS
    <2>4. x \in ConnRow /\ x.phase = "hello" /\ x.alive = old.alive
      BY <2>2, <2>3 DEF ConnRow
    <2>5. tcConn' = [tcConn EXCEPT ![k] = x]
      BY <1>2, <2>2, <2>3 DEF Accept
    <2>6. /\ tcConn' \in [TcConns -> ConnRow] /\ tcConn'[k] = x
          /\ \A c \in TcConns : c # k => tcConn'[c] = tcConn[c]
      BY <2>4, <2>5, <1>t DEF TcTypeOK
    <2>7. k \notin Listed
      BY <2>1, <1>h DEF TcListOK
    <2>8. PICK n \in Nat : n = Len(tcList) /\ DOMAIN tcList = 1 .. n
      BY <1>t DEF TcTypeOK
    <2>9. /\ tcList' \in Seq(TcConns) /\ DOMAIN tcList' = 1 .. n + 1 /\ tcList'[n + 1] = k
          /\ \A i \in 1 .. n : tcList'[i] = tcList[i]
      BY <2>1, <2>8, <1>t DEF TcTypeOK
    <2>10. Listed' = Listed \cup {k}
      BY <2>8, <2>9 DEF Listed
    <2>11. \A i, j \in DOMAIN tcList' : tcList'[i] = tcList'[j] => i = j
      <3> SUFFICES ASSUME NEW i \in 1 .. n + 1, NEW j \in 1 .. n + 1, tcList'[i] = tcList'[j] PROVE i = j
        BY <2>9
      <3>1. \A a \in 1 .. n : tcList[a] # k
        BY <2>7, <2>8 DEF Listed
      <3>2. i \in 1 .. n \/ i = n + 1
        BY <2>8
      <3>3. j \in 1 .. n \/ j = n + 1
        BY <2>8
      <3>4. \A a, b \in 1 .. n : tcList[a] = tcList[b] => a = b
        BY <2>8, <1>h DEF TcListOK
      <3> QED BY <3>1, <3>2, <3>3, <3>4, <2>9
    <2>12. TcListOK'
      BY <2>4, <2>6, <2>10, <2>11, <1>h DEF TcListOK
    <2>13. TcTypeOK'
      BY <2>1, <2>6, <2>9, <1>t DEF TcTypeOK
    <2>14. \A r \in TcReqs : TcReqOK(r)'
      BY <2>1, <2>2, <2>4, <2>6, <2>10, TcReqsSame
    <2> QED BY <2>1, <2>12, <2>13, <2>14, <1>h DEF TcInv, TcRows, OneRuntimeOnline, OfflineServerHasNoRuntime, OfflineMeansNoneConnected
  <1>3. ASSUME NEW k \in TcConns, Hello(k) PROVE TcInv'
    <2>2. PICK old \in ConnRow : old = tcConn[k]
      BY <1>c
    <2>3. PICK ph, x : /\ ph \in {"open", "leaked"} /\ ph = (IF old.alive THEN "open" ELSE "leaked")
                       /\ x = [old EXCEPT !.phase = ph]
      OBVIOUS
    <2>4. x \in ConnRow /\ x.phase = ph /\ x.alive = old.alive /\ x.stale = old.stale
      BY <2>2, <2>3 DEF ConnRow
    <2>5. /\ tcConn' = [tcConn EXCEPT ![k] = x] /\ old.phase = "hello"
          /\ UNCHANGED <<tcClient, tcList, tcRow, tcServer, tcReq, tcFrame, tcInv, tcRestarts>>
      BY <1>3, <2>2, <2>3 DEF Hello
    <2>6. k \in Listed /\ tcClient = "offline" => x.stale
      BY <2>2, <2>4, <2>5, <1>h DEF OfflineMeansNoneConnected
    <2> QED BY <2>2, <2>3, <2>4, <2>5, <2>6, TcConnMoves
  <1>4. ASSUME NEW k \in TcConns, SocketDies(k) PROVE TcInv'
    <2>2. PICK old \in ConnRow : old = tcConn[k]
      BY <1>c
    <2>3. PICK x : x = [old EXCEPT !.alive = FALSE]
      OBVIOUS
    <2>4. x \in ConnRow /\ x.phase = old.phase /\ x.alive = FALSE /\ x.stale = old.stale
      BY <2>2, <2>3 DEF ConnRow
    <2>5. /\ tcConn' = [tcConn EXCEPT ![k] = x] /\ old.phase \in {"hello", "open", "registering"}
          /\ UNCHANGED <<tcClient, tcList, tcRow, tcServer, tcReq, tcFrame, tcInv, tcRestarts>>
      BY <1>4, <2>2, <2>3 DEF SocketDies
    <2>6. k \in Listed /\ tcClient = "offline" => x.stale \/ x.phase \in {"registering", "leaked"}
      BY <2>2, <2>4, <2>5, <1>h DEF OfflineMeansNoneConnected
    <2> QED BY <2>2, <2>3, <2>4, <2>5, <2>6, TcConnMoves
  <1>5. ASSUME NEW k \in TcConns, NegotiateRuntime(k) PROVE TcInv'
    <2>1. PICK old : old = {c \in Listed \ {k} : tcConn[c].runtime}
      OBVIOUS
    <2>2. /\ tcConn[k].phase = "open" /\ tcReq' = FailPending(old)
          /\ tcConn' = [c \in TcConns |->
               CASE c = k -> [tcConn[c] EXCEPT !.phase = "registering", !.runtime = TRUE, !.stale = FALSE]
                 [] c \in old -> [tcConn[c] EXCEPT !.stale = TRUE, !.alive = FALSE]
                 [] OTHER -> tcConn[c]]
          /\ UNCHANGED <<tcClient, tcList, tcRow, tcServer, tcFrame, tcInv, tcRestarts>>
      BY <1>5, <2>1 DEF NegotiateRuntime
    <2>3. ASSUME NEW c \in TcConns
          PROVE  /\ tcConn'[c] \in ConnRow /\ (~tcConn[c].alive \/ c \in old => ~tcConn'[c].alive)
                 /\ c = k => tcConn'[c].phase = "registering"
                 /\ c # k => /\ tcConn'[c].phase = tcConn[c].phase
                             /\ tcConn[c].stale => tcConn'[c].stale
      <3>0. PICK was \in ConnRow : was = tcConn[c]
        BY <1>c
      <3>1. CASE c = k
        <4>2. k \notin old
          BY <2>1
        <4>1. tcConn'[c] = [was EXCEPT !.phase = "registering", !.runtime = TRUE, !.stale = FALSE]
          BY <3>0, <3>1, <4>2, <2>2
        <4> QED BY <4>1, <4>2, <3>0, <3>1 DEF ConnRow
      <3>2. CASE c # k /\ c \in old
        <4>1. tcConn'[c] = [was EXCEPT !.stale = TRUE, !.alive = FALSE]
          BY <3>0, <3>2, <2>2
        <4> QED BY <4>1, <3>0, <3>2 DEF ConnRow
      <3>3. CASE c # k /\ c \notin old
        <4>1. tcConn'[c] = was
          BY <3>0, <3>3, <2>2
        <4> QED BY <4>1, <3>0, <3>3
      <3> QED BY <3>1, <3>2, <3>3
    <2>4. Listed' = Listed
      BY <2>2 DEF Listed
    <2>5. tcReq' \in [TcReqs -> ReqRow] /\ \A r \in TcReqs : TcReqOK(r)'
      BY <2>2, <2>3, <2>4, TcFailPending
    <2>6. tcConn' \in [TcConns -> ConnRow]
      BY <2>2, <2>3
    <2>7. TcTypeOK'
      BY <2>2, <2>5, <2>6, <1>t DEF TcTypeOK
    <2>8. TcListOK'
      BY <2>2, <2>3, <2>4, <1>h DEF TcListOK
    <2>9. OfflineMeansNoneConnected'
      BY <2>2, <2>3, <2>4, <1>l, <1>h DEF OfflineMeansNoneConnected
    <2> QED BY <2>2, <2>5, <2>7, <2>8, <2>9, <1>h DEF TcInv, TcRows, OneRuntimeOnline, OfflineServerHasNoRuntime
  <1>6. ASSUME NEW k \in TcConns, PersistRuntime(k) PROVE TcInv'
    <2>2. PICK old \in ConnRow : old = tcConn[k]
      BY <1>c
    <2>3. PICK x : x = [old EXCEPT !.phase = "open"]
      OBVIOUS
    <2>4. x \in ConnRow /\ x.phase = "open" /\ x.alive = old.alive /\ x.stale = old.stale
      BY <2>2, <2>3 DEF ConnRow
    <2>5. /\ tcConn' = [tcConn EXCEPT ![k] = x] /\ old.phase = "registering"
          /\ UNCHANGED <<tcList, tcReq, tcFrame, tcInv, tcRestarts>>
      BY <1>6, <2>2, <2>3 DEF PersistRuntime
    <2>6. CASE tcClient = "absent"
      <3>1. UNCHANGED <<tcClient, tcRow, tcServer>>
        BY <1>6, <2>6 DEF PersistRuntime
      <3> QED BY <3>1, <2>2, <2>4, <2>5, <2>6, TcConnMoves
    <2>7. CASE tcClient # "absent"
      <3>1. tcClient' = "online" /\ tcRow' = RowsAfter(k) /\ tcServer' = "discovering"
        BY <1>6, <2>7 DEF PersistRuntime
      <3>2. tcRow' \in [TcConns -> RuntimeRow] /\ \A c \in TcConns : tcRow'[c] = "online" => c = k
        BY <3>1, <1>t DEF RowsAfter, TcTypeOK, RuntimeRow
      <3>3. /\ tcConn' \in [TcConns -> ConnRow] /\ tcConn'[k] = x
            /\ \A c \in TcConns : c # k => tcConn'[c] = tcConn[c]
        BY <2>4, <2>5, <1>t DEF TcTypeOK
      <3>4. Listed' = Listed
        BY <2>5 DEF Listed
      <3>5. TcTypeOK'
        BY <3>1, <3>2, <3>3, <2>5, <1>t DEF TcTypeOK
      <3>6. TcListOK'
        BY <2>4, <2>5, <3>3, <3>4, <1>h DEF TcListOK
      <3>7. \A r \in TcReqs : TcReqOK(r)'
        BY <2>2, <2>4, <2>5, <3>3, <3>4, TcReqsSame
      <3>8. TcRows' /\ OfflineMeansNoneConnected'
        BY <3>1, <3>2 DEF TcRows, OneRuntimeOnline, OfflineServerHasNoRuntime, OfflineMeansNoneConnected
      <3> QED BY <3>5, <3>6, <3>7, <3>8 DEF TcInv
    <2> QED BY <2>6, <2>7
  <1>7. ASSUME NEW k \in TcConns, NEW st \in {"online", "degraded", "offline", "failed", "restarting"}, ServerStatus(k, st)
        PROVE  TcInv'
    <2>1. PICK y \in {"online", "offline", "failed", "restarting"} : y = IF st = "degraded" THEN "online" ELSE st
      OBVIOUS
    <2>2. /\ tcRow[k] = "online" /\ tcRow' = [tcRow EXCEPT ![k] = y]
          /\ tcServer' = (IF st = "failed" THEN "degraded" ELSE st)
          /\ UNCHANGED <<tcClient, tcList, tcConn, tcReq, tcFrame, tcInv, tcRestarts>>
      BY <1>7, <2>1 DEF ServerStatus
    <2>3. /\ tcRow' \in [TcConns -> RuntimeRow] /\ tcRow'[k] = y
          /\ \A c \in TcConns : c # k => tcRow'[c] = tcRow[c]
      BY <2>1, <2>2, <1>t DEF TcTypeOK, RuntimeRow
    <2>4. \A c \in TcConns : tcRow'[c] = "online" => c = k
      BY <2>2, <2>3, <1>h DEF TcRows, OneRuntimeOnline
    <2>5. tcServer' = "offline" => y = "offline"
      BY <2>1, <2>2
    <2>6. TcRows'
      BY <2>3, <2>4, <2>5 DEF TcRows, OneRuntimeOnline, OfflineServerHasNoRuntime
    <2>7. TcTypeOK' /\ Listed' = Listed
      BY <2>2, <2>3, <1>t DEF TcTypeOK, Listed
    <2>8. \A r \in TcReqs : TcReqOK(r)'
      BY <2>2, <2>7, TcReqsSame
    <2> QED BY <2>2, <2>6, <2>7, <2>8, <1>h DEF TcInv, TcListOK, OfflineMeansNoneConnected
  <1>8. ASSUME NEW k \in TcConns, Disconnected(k) PROVE TcInv'
    <2>2. PICK old \in ConnRow : old = tcConn[k]
      BY <1>c
    <2>3. PICK x : x = [old EXCEPT !.phase = "closed"]
      OBVIOUS
    <2>4. x \in ConnRow /\ x.phase = "closed" /\ x.alive = old.alive /\ x.stale = old.stale
      BY <2>2, <2>3 DEF ConnRow
    <2>5. /\ tcConn' = [tcConn EXCEPT ![k] = x] /\ ~old.alive
          /\ tcRow' = [tcRow EXCEPT ![k] = IF LostRow(k) /\ tcConn[k].runtime THEN "offline" ELSE tcRow[k]]
          /\ UNCHANGED <<tcFrame, tcRestarts>>
          /\ tcList' = Without(k) /\ tcReq' = FailPending({k})
          /\ tcClient' = (IF k \in Listed /\ ~IsConnected(Without(k), tcConn) /\ tcClient # "absent"
                          THEN "offline" ELSE tcClient)
      BY <1>8, <2>2, <2>3 DEF Disconnected, Unregister
    <2>6. \/ tcConn[k].runtime /\ MarkServer(k) /\ tcInv' = LostCalls(k)
          \/ ~tcConn[k].runtime /\ tcServer' = tcServer /\ tcInv' = tcInv
      BY <1>8 DEF Disconnected
    <2>7. /\ tcConn' \in [TcConns -> ConnRow] /\ tcConn'[k] = x
          /\ \A c \in TcConns : c # k => tcConn'[c] = tcConn[c]
      BY <2>4, <2>5, <1>t DEF TcTypeOK
    <2>8. /\ tcList' \in Seq(TcConns) /\ \A i, j \in DOMAIN tcList' : tcList'[i] = tcList'[j] => i = j
          /\ Listed' = Listed \ {k}
      <3>1. PICK new : new = Without(k)
        OBVIOUS
      <3>2. tcList \in Seq(TcConns) /\ \A i, j \in DOMAIN tcList : tcList[i] = tcList[j] => i = j
        BY <1>t, <1>h DEF TcTypeOK, TcListOK
      <3>3. /\ new \in Seq(TcConns) /\ \A i, j \in DOMAIN new : new[i] = new[j] => i = j
            /\ {new[i] : i \in DOMAIN new} = Listed \ {k}
        BY <3>1, <3>2, TcWithout
      <3>4. tcList' = new
        BY <3>1, <2>5
      <3>5. Listed' = {new[i] : i \in DOMAIN new}
        BY <3>4 DEF Listed
      <3> QED BY <3>3, <3>4, <3>5
    <2>9. /\ tcInv' \in [TcReqs -> {"none", "running", "answered", "lost", "unknown"}]
          /\ \A r \in TcReqs : tcInv'[r] = tcInv[r] \/ (tcReq[r].kind = "write" => tcInv'[r] = "unknown")
      BY <2>6, <1>t DEF LostCalls, TcTypeOK
    <2>10. tcReq' \in [TcReqs -> ReqRow] /\ \A r \in TcReqs : TcReqOK(r)'
      <3>1. \A c \in TcConns : c \in {k} \/ ~tcConn[c].alive => ~tcConn'[c].alive
        BY <2>2, <2>4, <2>5, <2>7
      <3>2. PICK ks : ks = {k}
        OBVIOUS
      <3>3. tcReq' = FailPending(ks) /\ Listed \ ks \subseteq Listed'
        BY <3>2, <2>5, <2>8
      <3> QED BY <3>1, <3>2, <3>3, <2>5, <2>9, TcFailPending
    <2>11. /\ tcRow' \in [TcConns -> RuntimeRow] /\ \A c \in TcConns : c # k => tcRow'[c] = tcRow[c]
           /\ tcRow'[k] = IF LostRow(k) /\ tcConn[k].runtime THEN "offline" ELSE tcRow[k]
      BY <2>5, <1>t DEF TcTypeOK, RuntimeRow
    <2>12. TcRows'
      <3>1. \A c \in TcConns : tcRow'[c] = "online" => tcRow[c] = "online"
        BY <2>11
      <3>2. OneRuntimeOnline'
        BY <3>1, <1>h DEF TcRows, OneRuntimeOnline
      <3>3. CASE tcServer' = tcServer
        BY <3>1, <3>2, <3>3, <1>h DEF TcRows, OfflineServerHasNoRuntime
      <3>4. CASE tcConn[k].runtime /\ LostRow(k) /\ \A c \in TcConns \ {k} : tcRow[c] # "online"
        BY <3>2, <3>4, <2>11 DEF TcRows, OfflineServerHasNoRuntime
      <3> QED BY <3>3, <3>4, <2>6 DEF MarkServer
    <2>13. tcServer' \in {"none", "discovering", "online", "degraded", "offline", "restarting"}
           /\ tcClient' \in {"absent", "offline", "online"}
      BY <2>5, <2>6, <1>t DEF MarkServer, TcTypeOK
    <2>14. TcTypeOK'
      BY <2>5, <2>7, <2>8, <2>9, <2>10, <2>11, <2>13, <1>t DEF TcTypeOK
    <2>15. TcListOK'
      BY <2>4, <2>7, <2>8, <1>h DEF TcListOK
    <2>16. OfflineMeansNoneConnected'
      <3>1. CASE tcClient' = tcClient
        BY <3>1, <2>7, <2>8, <1>l, <1>h DEF OfflineMeansNoneConnected
      <3>2. CASE ~IsConnected(Without(k), tcConn)
        <4>1. \A i \in DOMAIN tcList' : tcConn[tcList'[i]].stale
          BY <3>2, <2>5 DEF IsConnected
        <4>2. \A c \in Listed' : tcConn[c].stale
          BY <4>1 DEF Listed
        <4> QED BY <4>2, <2>7, <2>8, <1>l DEF OfflineMeansNoneConnected
      <3> QED BY <3>1, <3>2, <2>5
    <2> QED BY <2>10, <2>12, <2>14, <2>15, <2>16 DEF TcInv
  <1>9. ASSUME DeleteThinClient PROVE TcInv'
    <2>1. /\ tcClient' = "absent" /\ tcList' = <<>> /\ tcReq' = FailPending(Listed)
          /\ tcConn' = [c \in TcConns |-> IF c \in Listed THEN [tcConn[c] EXCEPT !.alive = FALSE] ELSE tcConn[c]]
          /\ UNCHANGED <<tcRow, tcServer, tcFrame, tcInv, tcRestarts>>
      BY <1>9 DEF DeleteThinClient
    <2>2. ASSUME NEW c \in TcConns
          PROVE  tcConn'[c] \in ConnRow /\ (~tcConn[c].alive \/ c \in Listed => ~tcConn'[c].alive)
      <3>0. PICK was \in ConnRow : was = tcConn[c]
        BY <1>c
      <3>1. PICK x : x = [was EXCEPT !.alive = FALSE]
        OBVIOUS
      <3>2. x \in ConnRow /\ ~x.alive
        BY <3>0, <3>1 DEF ConnRow
      <3> QED BY <3>0, <3>1, <3>2, <2>1
    <2>3. Listed' = {} /\ tcList' \in Seq(TcConns) /\ DOMAIN tcList' = {}
      BY <2>1 DEF Listed
    <2>4. tcReq' \in [TcReqs -> ReqRow] /\ \A r \in TcReqs : TcReqOK(r)'
      BY <2>1, <2>2, <2>3, TcFailPending
    <2>5. tcConn' \in [TcConns -> ConnRow]
      BY <2>1, <2>2
    <2>6. TcTypeOK'
      BY <2>1, <2>3, <2>4, <2>5, <1>t DEF TcTypeOK
    <2> QED BY <2>1, <2>3, <2>4, <2>6, <1>h DEF TcInv, TcListOK, TcRows, OneRuntimeOnline, OfflineServerHasNoRuntime, OfflineMeansNoneConnected
  <1>10. ASSUME GatewayRestart PROVE TcInv'
    <2>1. /\ tcRestarts < MaxRestarts /\ tcRestarts' = tcRestarts + 1 /\ tcList' = <<>>
          /\ tcConn' = [c \in TcConns |-> IF tcConn[c].phase = "new" THEN tcConn[c]
                                          ELSE [tcConn[c] EXCEPT !.phase = "closed", !.alive = FALSE]]
          /\ tcReq' = [r \in TcReqs |-> IF tcReq[r].phase = "idle" THEN tcReq[r]
                                        ELSE [tcReq[r] EXCEPT !.phase = "done", !.pending = FALSE]]
          /\ UNCHANGED <<tcClient, tcRow, tcServer, tcFrame, tcInv>>
      BY <1>10 DEF GatewayRestart
    <2>2. tcRestarts' \in 0 .. MaxRestarts
      <3>1. tcRestarts \in 0 .. MaxRestarts
        BY <1>t DEF TcTypeOK
      <3>2. tcRestarts < MaxRestarts /\ tcRestarts' = tcRestarts + 1
        BY <2>1
      <3> QED BY <3>1, <3>2, ThinClientsAssumption
    <2>3. Listed' = {} /\ tcList' \in Seq(TcConns) /\ DOMAIN tcList' = {}
      <3>1. tcList' = <<>>
        BY <2>1
      <3> QED BY <3>1 DEF Listed
    <2>4. ASSUME NEW c \in TcConns PROVE tcConn'[c] \in ConnRow
      <3>0. PICK was \in ConnRow : was = tcConn[c]
        BY <1>c
      <3>1. PICK x : x = [was EXCEPT !.phase = "closed", !.alive = FALSE]
        OBVIOUS
      <3>2. x \in ConnRow
        BY <3>0, <3>1 DEF ConnRow
      <3> QED BY <3>0, <3>1, <3>2, <2>1
    <2>5. ASSUME NEW r \in TcReqs PROVE tcReq'[r] \in ReqRow /\ TcReqOK(r)'
      <3>0. PICK was \in ReqRow : was = tcReq[r]
        BY <1>t DEF TcTypeOK
      <3>h. TcReqOK(r)
        BY <1>h
      <3>1. CASE was.phase = "idle"
        <4>1. tcReq'[r] = was
          BY <3>0, <3>1, <2>1
        <4> QED BY <4>1, <3>0, <3>1, <3>h, <2>1, <2>3 DEF TcReqOK
      <3>2. CASE was.phase # "idle"
        <4>1. PICK x : x = [was EXCEPT !.phase = "done", !.pending = FALSE]
          OBVIOUS
        <4>2. x \in ReqRow /\ x.phase = "done" /\ x.pending = FALSE /\ x.kind = was.kind /\ x.cut = was.cut
          BY <3>0, <4>1 DEF ReqRow
        <4>3. tcReq'[r] = x
          BY <3>0, <3>2, <4>1, <2>1
        <4> QED BY <4>2, <4>3, <3>0, <3>h, <2>1 DEF TcReqOK
      <3> QED BY <3>1, <3>2
    <2>6. tcConn' \in [TcConns -> ConnRow] /\ tcReq' \in [TcReqs -> ReqRow]
      BY <2>1, <2>4, <2>5
    <2>7. TcTypeOK'
      BY <2>1, <2>2, <2>3, <2>6, <1>t DEF TcTypeOK
    <2> QED BY <2>1, <2>3, <2>5, <2>7, <1>h DEF TcInv, TcListOK, TcRows, OneRuntimeOnline, OfflineServerHasNoRuntime, OfflineMeansNoneConnected
  <1>11. ASSUME NEW k \in TcConns, Heartbeat(k) PROVE TcInv'
    BY <1>11, <1>1 DEF Heartbeat
  <1>12. CASE RegisterThinClient
    BY <1>12, <1>1 DEF RegisterThinClient
  <1> QED BY <1>2, <1>3, <1>4, <1>5, <1>6, <1>7, <1>8, <1>9, <1>10, <1>11, <1>12

\* The requests keep the invariant.
LEMMA TcReqStep ==
    ASSUME TcInv, NEW r \in TcReqs,
           \/ Request(r) \/ Send(r) \/ SendReturns(r) \/ SendFails(r) \/ RequestTimeout(r)
           \/ Settle(r) \/ CancelRequest(r) \/ ClientRuns(r)
           \/ \E k \in TcConns : \/ \E kind \in {"write", "read"} : RequestMcp(r, k, kind)
                                 \/ RequestMcpResource(r, k) \/ RequestMcpCapability(r, k)
                                 \/ Answer(r, k)
    PROVE  TcInv'
  <1>t. TcTypeOK
    BY DEF TcInv
  <1>f. /\ tcFrame \in [TcReqs -> {"none", "sent", "ran", "answered"}]
        /\ tcInv \in [TcReqs -> {"none", "running", "answered", "lost", "unknown"}]
    BY <1>t DEF TcTypeOK
  <1>h. TcReqOK(r)
    BY DEF TcInv
  <1>l. Listed \subseteq TcConns
    BY <1>t, TcListedIn DEF TcTypeOK
  <1>0. PICK old \in ReqRow : old = tcReq[r]
    BY <1>t DEF TcTypeOK
  <1>1. ASSUME NEW k \in Listed, NEW kind \in {"legacy", "write", "read"}, Queue(r, k, kind),
               (tcInv' = tcInv /\ kind # "write") \/ tcInv' = [tcInv EXCEPT ![r] = "running"]
        PROVE  TcInv'
    <2>1. PICK q : q = [phase |-> "queued", kind |-> kind, conn |-> k, pending |-> TRUE,
                      dispatched |-> FALSE, cut |-> FALSE, future |-> "none"]
      OBVIOUS
    <2>2. /\ q \in ReqRow /\ q.phase = "queued" /\ q.kind = kind /\ q.conn = k /\ q.pending = TRUE
          /\ q.dispatched = FALSE /\ q.future = "none"
      BY <2>1, <1>1, <1>l DEF ReqRow
    <2>3. /\ old.phase = "idle" /\ tcReq' = [tcReq EXCEPT ![r] = q]
          /\ UNCHANGED <<tcClient, tcList, tcConn, tcRow, tcServer, tcFrame, tcRestarts>>
      BY <1>1, <1>0, <2>1 DEF Queue
    <2>4. /\ tcInv' \in [TcReqs -> {"none", "running", "answered", "lost", "unknown"}]
          /\ kind = "write" => tcInv'[r] # "lost"
          /\ \A s \in TcReqs : s # r => tcInv'[s] = tcInv[s]
      BY <1>1, <1>f
    <2>5. Listed' = Listed /\ tcFrame'[r] = "none"
      BY <2>3, <1>0, <1>h DEF Listed, TcReqOK
    <2>6. tcReq'[r] = q => TcReqOK(r)'
      BY <2>2, <2>4, <2>5, <1>1, <1>l DEF TcReqOK
    <2> QED BY <2>2, <2>3, <2>4, <2>6, <1>f, TcOneReq
  <1>2. CASE Request(r)
    <2>1. tcList[Len(tcList)] \in Listed
      BY <1>2, <1>t DEF Request, TcTypeOK, Listed
    <2> QED BY <1>1, <1>2, <2>1 DEF Request
  <1>3. ASSUME NEW k \in TcConns, NEW kind \in {"write", "read"}, RequestMcp(r, k, kind) PROVE TcInv'
    BY <1>1, <1>3 DEF RequestMcp, ActiveConn
  <1>4. ASSUME NEW k \in TcConns, RequestMcpResource(r, k) \/ RequestMcpCapability(r, k) PROVE TcInv'
    BY <1>1, <1>4 DEF RequestMcpResource, RequestMcpCapability, ActiveConn
  <1>5. CASE Send(r)
    <2>1. PICK q : q = [old EXCEPT !.phase = "sending"]
      OBVIOUS
    <2>2. /\ q \in ReqRow /\ q.phase = "sending" /\ q.kind = old.kind /\ q.conn = old.conn
          /\ q.pending = old.pending /\ q.future = old.future
      BY <2>1, <1>0 DEF ReqRow
    <2>3. /\ old.phase = "queued" /\ tcConn[old.conn].alive /\ tcReq' = [tcReq EXCEPT ![r] = q]
          /\ tcFrame' = [tcFrame EXCEPT ![r] = "sent"]
          /\ UNCHANGED <<tcClient, tcList, tcConn, tcRow, tcServer, tcInv, tcRestarts>>
      BY <1>5, <1>0, <2>1 DEF Send
    <2>4. /\ tcFrame' \in [TcReqs -> {"none", "sent", "ran", "answered"}]
          /\ \A s \in TcReqs : s # r => tcFrame'[s] = tcFrame[s]
      BY <2>3, <1>f
    <2>5. ~(old.kind = "write" /\ old.future = "lost") /\ ~(old.kind = "write" /\ tcInv[r] = "lost")
      BY <2>3, <1>0, <1>h DEF TcReqOK
    <2>6. Listed' = Listed /\ (old.pending => old.conn \in Listed)
      BY <2>3, <1>0, <1>h DEF Listed, TcReqOK
    <2>7. tcReq'[r] = q => TcReqOK(r)'
      BY <2>2, <2>3, <2>5, <2>6 DEF TcReqOK
    <2> QED BY <2>2, <2>3, <2>4, <2>7, <1>f, TcOneReq
  <1>6. CASE SendReturns(r)
    <2>1. PICK q : q = [old EXCEPT !.phase = "waiting", !.dispatched = TRUE]
      OBVIOUS
    <2>2. /\ q \in ReqRow /\ q.phase = "waiting" /\ q.kind = old.kind /\ q.conn = old.conn
          /\ q.pending = old.pending /\ q.dispatched = TRUE /\ q.future = old.future /\ q.cut = old.cut
      BY <2>1, <1>0 DEF ReqRow
    <2>3. /\ tcReq' = [tcReq EXCEPT ![r] = q] /\ old.phase = "sending"
          /\ UNCHANGED <<tcClient, tcList, tcConn, tcRow, tcServer, tcFrame, tcInv, tcRestarts>>
      BY <1>6, <1>0, <2>1 DEF SendReturns
    <2>4. /\ old.kind = "write" /\ old.future = "lost" => old.cut
          /\ ~(old.kind = "write" /\ tcInv[r] = "lost")
      BY <2>3, <1>0, <1>h DEF TcReqOK
    <2>5. Listed' = Listed /\ (old.pending => old.conn \in Listed)
      BY <2>3, <1>0, <1>h DEF Listed, TcReqOK
    <2>6. tcReq'[r] = q => TcReqOK(r)'
      BY <2>2, <2>3, <2>4, <2>5 DEF TcReqOK
    <2> QED BY <2>2, <2>3, <2>6, <1>f, TcOneReq
  <1>7. ASSUME NEW p \in BOOLEAN, p => old.pending, NEW out \in {"answered", "lost", "unknown"}, FinishInvocation(r, p, out),
               out = "lost" /\ old.kind = "write" => tcFrame[r] = "none" \/ old.cut \/ old.phase = "sending",
               old.kind = "write" => tcInv[r] # "lost"
        PROVE  TcInv'
    <2>0. PICK cut \in BOOLEAN : cut = IF Sending(old) THEN TRUE ELSE old.cut
      BY <1>0 DEF ReqRow
    <2>1. PICK q : q = [old EXCEPT !.phase = "done", !.pending = p, !.cut = cut]
      OBVIOUS
    <2>2. /\ q \in ReqRow /\ q.phase = "done" /\ q.kind = old.kind /\ q.conn = old.conn /\ q.pending = p
          /\ q.cut = cut
      BY <2>0, <2>1, <1>0, <1>7 DEF ReqRow
    <2>c. out = "lost" /\ old.kind = "write" => tcFrame[r] = "none" \/ q.cut
      BY <2>0, <2>2, <1>7 DEF Sending
    <2>3. /\ tcReq' = [tcReq EXCEPT ![r] = q]
          /\ tcInv' = (IF tcInv[r] = "none" THEN tcInv ELSE [tcInv EXCEPT ![r] = out])
          /\ UNCHANGED <<tcClient, tcList, tcConn, tcRow, tcServer, tcFrame, tcRestarts>>
      BY <1>7, <1>0, <2>0, <2>1 DEF FinishInvocation
    <2>4. /\ tcInv' \in [TcReqs -> {"none", "running", "answered", "lost", "unknown"}]
          /\ \A s \in TcReqs : s # r => tcInv'[s] = tcInv[s]
          /\ tcInv'[r] = "lost" => out = "lost" \/ tcInv[r] = "lost"
      BY <2>3, <1>f
    <2>5. Listed' = Listed /\ (old.pending => old.conn \in Listed)
      BY <2>3, <1>0, <1>h DEF Listed, TcReqOK
    <2>6. tcReq'[r] = q => TcReqOK(r)'
      BY <2>2, <2>3, <2>4, <2>5, <2>c, <1>7 DEF TcReqOK
    <2> QED BY <2>2, <2>3, <2>4, <2>6, <1>f, TcOneReq
  <1>8. CASE SendFails(r)
    <2>1. PICK p \in {FALSE} \cup {x \in {old.pending} : old.kind # "legacy"} : FinishInvocation(r, p, "lost")
      BY <1>8, <1>0 DEF SendFails
    <2>2. p \in BOOLEAN /\ (p => old.pending)
      BY <2>1, <1>0 DEF ReqRow
    <2>3. (tcFrame[r] = "none" \/ old.phase = "sending") /\ (old.kind = "write" => tcInv[r] # "lost")
      BY <1>8, <1>0, <1>h DEF SendFails, TcReqOK
    <2> QED BY <2>1, <2>2, <2>3, <1>7
  <1>9. CASE RequestTimeout(r)
    <2>1. old.phase = "waiting" /\ FinishInvocation(r, FALSE, TimeoutOutcome(old)) /\ old.dispatched
      BY <1>9, <1>0, <1>h DEF RequestTimeout, TcReqOK
    <2>2. TimeoutOutcome(old) \in {"lost", "unknown"} /\ (old.kind = "write" => TimeoutOutcome(old) = "unknown")
      BY <2>1 DEF TimeoutOutcome, UnknownIfInterrupted
    <2>3. old.kind = "write" => tcInv[r] # "lost"
      BY <2>1, <1>0, <1>h DEF TcReqOK
    <2> QED BY <2>1, <2>2, <2>3, <1>7
  <1>10. CASE Settle(r)
    <2>1. PICK out : out = IF old.future = "answer" THEN "answered" ELSE old.future
      OBVIOUS
    <2>2. old.phase = "waiting" /\ FinishInvocation(r, FALSE, out) /\ old.future # "none"
      BY <1>10, <1>0, <2>1 DEF Settle
    <2>3. /\ out \in {"answered", "lost", "unknown"}
          /\ old.kind = "write" => tcInv[r] # "lost" /\ (out = "lost" => old.cut)
      BY <2>1, <2>2, <1>0, <1>h DEF ReqRow, TcReqOK
    <2> QED BY <2>2, <2>3, <1>7
  <1>11. CASE CancelRequest(r)
    <2>1. PICK q : q = [old EXCEPT !.phase = "done"]
      OBVIOUS
    <2>2. /\ q \in ReqRow /\ q.phase = "done" /\ q.kind = old.kind /\ q.conn = old.conn /\ q.pending = old.pending
      BY <2>1, <1>0 DEF ReqRow
    <2>3. /\ tcReq' = [tcReq EXCEPT ![r] = q] /\ old.phase \in {"queued", "sending", "waiting"}
          /\ UNCHANGED <<tcClient, tcList, tcConn, tcRow, tcServer, tcFrame, tcInv, tcRestarts>>
      BY <1>11, <1>0, <2>1 DEF CancelRequest
    <2>5. Listed' = Listed /\ (old.pending => old.conn \in Listed) /\ ~(old.kind = "write" /\ tcInv[r] = "lost")
      BY <2>3, <1>0, <1>h DEF Listed, TcReqOK
    <2>6. tcReq'[r] = q => TcReqOK(r)'
      BY <2>2, <2>3, <2>5 DEF TcReqOK
    <2> QED BY <2>2, <2>3, <2>6, <1>f, TcOneReq
  \* The client runs a request that was sent, or answers one that ran.
  <1>12. ASSUME NEW fr \in {"ran", "answered"}, NEW q \in ReqRow, tcFrame[r] \in {"sent", "ran"},
                tcFrame' = [tcFrame EXCEPT ![r] = fr], tcReq' = [tcReq EXCEPT ![r] = q],
                UNCHANGED <<tcClient, tcList, tcConn, tcRow, tcServer, tcInv, tcRestarts>>,
                q.phase = old.phase, q.kind = old.kind, q.conn = old.conn, q.dispatched = old.dispatched,
                q.cut = old.cut, q.pending => old.pending, q.future # old.future => q.future = "answer"
         PROVE  TcInv'
    <2>1. /\ tcFrame' \in [TcReqs -> {"none", "sent", "ran", "answered"}]
          /\ \A s \in TcReqs : s # r => tcFrame'[s] = tcFrame[s]
      BY <1>12, <1>f
    <2>2. /\ old.phase \notin {"idle", "queued"} /\ (old.phase = "waiting" => old.dispatched)
          /\ old.kind = "write" /\ old.future = "lost" => (old.phase \in {"sending", "waiting"} => old.cut)
          /\ old.kind = "write" /\ tcInv[r] = "lost" => old.phase = "done" /\ old.cut
      BY <1>12, <1>0, <1>h DEF TcReqOK
    <2>3. Listed' = Listed /\ (old.pending => old.conn \in Listed)
      BY <1>12, <1>0, <1>h DEF Listed, TcReqOK
    <2>4. tcReq'[r] = q => TcReqOK(r)'
      BY <2>2, <2>3, <1>12 DEF TcReqOK
    <2> QED BY <2>1, <2>4, <1>12, <1>f, TcOneReq
  <1>13. CASE ClientRuns(r)
    <2>1. /\ tcFrame[r] = "sent" /\ tcFrame' = [tcFrame EXCEPT ![r] = "ran"]
          /\ UNCHANGED <<tcClient, tcList, tcConn, tcRow, tcServer, tcReq, tcInv, tcRestarts>>
      BY <1>13 DEF ClientRuns
    <2>2. tcReq' = [tcReq EXCEPT ![r] = old]
      BY <2>1, <1>0, <1>t DEF TcTypeOK
    <2> QED BY <2>1, <2>2, <1>0, <1>12
  <1>14. ASSUME NEW k \in TcConns, Answer(r, k) PROVE TcInv'
    <2>1. /\ tcFrame[r] = "ran" /\ tcFrame' = [tcFrame EXCEPT ![r] = "answered"]
          /\ UNCHANGED <<tcClient, tcList, tcConn, tcRow, tcServer, tcInv, tcRestarts>>
      BY <1>14 DEF Answer
    <2>2. PICK f \in {"none", "answer", "lost", "unknown"} : f = IF old.future = "none" THEN "answer" ELSE old.future
      BY <1>0 DEF ReqRow
    <2>3. PICK q : q = [old EXCEPT !.pending = FALSE, !.future = f]
      OBVIOUS
    <2>4. /\ q \in ReqRow /\ q.phase = old.phase /\ q.kind = old.kind /\ q.conn = old.conn
          /\ q.pending = FALSE /\ q.dispatched = old.dispatched /\ q.cut = old.cut /\ q.future = f
      BY <2>2, <2>3, <1>0 DEF ReqRow
    <2>5. tcReq' = tcReq \/ tcReq' = [tcReq EXCEPT ![r] = q]
      BY <1>14, <1>0, <2>2, <2>3 DEF Answer
    <2>6. CASE tcReq' = tcReq
      <3>1. tcReq' = [tcReq EXCEPT ![r] = old]
        BY <2>6, <1>0, <1>t DEF TcTypeOK
      <3> QED BY <3>1, <2>1, <1>0, <1>12
    <2>7. CASE tcReq' = [tcReq EXCEPT ![r] = q]
      BY <2>1, <2>2, <2>4, <2>7, <1>12
    <2> QED BY <2>5, <2>6, <2>7
  <1> QED BY <1>2, <1>3, <1>4, <1>5, <1>6, <1>8, <1>9, <1>10, <1>11, <1>13, <1>14

\* Every step keeps the invariant.
LEMMA TcStepInv == TcInv /\ [TcNext]_tcVars => TcInv'
  <1> SUFFICES ASSUME TcInv, [TcNext]_tcVars PROVE TcInv'
    OBVIOUS
  <1>1. CASE UNCHANGED tcVars
    <2>1. Listed' = Listed
      BY <1>1 DEF tcVars, Listed
    <2> QED BY <1>1, <2>1 DEF TcInv, tcVars, TcTypeOK, TcListOK, TcRows, OneRuntimeOnline, OfflineServerHasNoRuntime,
                              OfflineMeansNoneConnected, TcReqOK
  <1>2. CASE TcNext
    BY <1>2, TcConnStep, TcReqStep DEF TcNext
  <1> QED BY <1>1, <1>2

\* The invariant gives what connections, rows and requests promise.
LEMMA TcInvSound == TcInv => TcTypeOK /\ ThinClientsSound
  BY DEF TcInv, TcRows, TcReqOK, ThinClientsSound, PendingOnListedConnection, LostWriteDidNotRun

(* For any connections and requests of a client (ThinClientConnectionManager), *)
(* also where a send suspends after its frame is out: rows, status and sockets *)
(* agree, no request waits on a connection that is gone, and a write recorded  *)
(* as lost did not run unless it was cut while its send was suspended.         *)
THEOREM ThinClientsCorrect == TcSpec => []ThinClientsSound
  BY TcInitInv, TcStepInv, TcInvSound, PTL DEF TcSpec

-----------------------------------------------------------------------------
(* Tool calls that change files (ToolCalls)                                *)

TkRequest == [place : Places, expect : TkContent \cup {NoHash}]
TkWriteRow == [call : TkCalls, before : TkContent]

\* What is true of one call at any time: before its handler starts there is no
\* trace of it, up to its end no change row and no success, and every answer,
\* every change row and every success rests on a write that happened.
TkHolds(c) ==
    /\ tkStep[c] = "idle" => c \notin tkWire /\ (\A w \in tkWrites : w.call # c) /\ ~tkReply[c].ok
    /\ tkStep[c] # "over" => tkRow[c] # "success" /\ (\A r \in tkChanges : r.call # c)
    /\ tkStep[c] = "writing" => tkCall[c].place = "server"
    /\ tkStep[c] \in {"checking", "sending", "waiting"} => tkCall[c].place = "client"
    /\ c \in tkWire => tkCall[c].place = "client"
    /\ tkReply[c].ok => \E w \in tkWrites : w.call = c /\ tkReply[c].before \in {w.before, NoHash}
    /\ \A r \in tkChanges : r.call = c =>
          /\ \E w \in tkWrites : w.call = c /\ r.before \in {w.before, NoHash}
          /\ Guarded(c) => r.before # NoHash
    /\ tkRow[c] = "success" => \E r \in tkChanges : r.call = c
    /\ \A w \in tkWrites : w.call = c /\ tkCall[c].place = "server" /\ Guarded(c)
          => w.before = tkCall[c].expect

TkInv == TkTypeOK /\ \A c \in TkCalls : TkHolds(c)

\* No call was made and nothing was written at first.
LEMMA TkInitInv == TkInit => TkInv
  <1> SUFFICES ASSUME TkInit PROVE TkInv
    OBVIOUS
  <1>1. TkTypeOK
    BY TkAssumption DEF TkInit, TkTypeOK, Places, TkContent, Replies, NoReply, ChangeRow
  <1>2. ASSUME NEW c \in TkCalls PROVE TkHolds(c)
    BY DEF TkInit, TkHolds, NoReply
  <1> QED BY <1>1, <1>2 DEF TkInv

\* A step of one call's handler, or of the client on its behalf, writes only
\* rows of that call: the other calls stay as they were.
LEMMA TkOneMoves ==
    ASSUME TkInv, NEW c \in TkCalls, TkTypeOK', TkHolds(c)',
           \A d \in TkCalls : d # c => /\ tkRow'[d] = tkRow[d] /\ tkCall'[d] = tkCall[d]
                                       /\ tkStep'[d] = tkStep[d] /\ tkReply'[d] = tkReply[d]
                                       /\ d \in tkWire' <=> d \in tkWire,
           tkWrites \subseteq tkWrites', \A w \in tkWrites' : w \in tkWrites \/ w.call = c,
           tkChanges \subseteq tkChanges', \A r \in tkChanges' : r \in tkChanges \/ r.call = c
    PROVE  TkInv'
  <1>1. ASSUME NEW d \in TkCalls, d # c PROVE TkHolds(d)'
    <2>1. TkHolds(d)
      BY DEF TkInv
    <2>2. /\ tkRow'[d] = tkRow[d] /\ tkCall'[d] = tkCall[d] /\ tkStep'[d] = tkStep[d]
          /\ tkReply'[d] = tkReply[d] /\ d \in tkWire' <=> d \in tkWire
      BY <1>1
    <2>3. /\ \A w \in tkWrites' : w.call = d => w \in tkWrites
          /\ \A r \in tkChanges' : r.call = d => r \in tkChanges
      BY <1>1
    <2>4. Guarded(d)' <=> Guarded(d)
      BY <2>2 DEF Guarded
    <2> QED BY <2>1, <2>2, <2>3, <2>4 DEF TkHolds
  <1> QED BY <1>1 DEF TkInv

\* Every step keeps the invariant.
LEMMA TkStepInv == TkInv /\ [TkNext]_tkVars => TkInv'
  <1> SUFFICES ASSUME TkInv, [TkNext]_tkVars PROVE TkInv'
    OBVIOUS
  <1>t. /\ tkRow \in [TkCalls -> {"none", "running", "success", "error"}]
        /\ tkCall \in [TkCalls -> TkRequest]
        /\ tkStep \in [TkCalls -> {"idle", "writing", "checking", "sending", "waiting", "over"}]
        /\ tkFile \in [Places -> TkContent] /\ tkWire \subseteq TkCalls
        /\ tkReply \in [TkCalls -> Replies] /\ tkWrites \subseteq TkWriteRow
        /\ tkChanges \subseteq ChangeRow /\ tkCrashes \in 0 .. MaxTkCrashes
    BY DEF TkInv, TkTypeOK, TkRequest, TkWriteRow
  <1>h. \A c \in TkCalls : TkHolds(c)
    BY DEF TkInv
  <1>u. CASE UNCHANGED tkVars
    BY <1>u DEF TkInv, tkVars, TkTypeOK, TkHolds, Guarded
  <1>1. ASSUME NEW c \in TkCalls, CreateToolCall(c) PROVE TkInv'
    <2>1. PICK p \in Places, e \in TkContent \cup {NoHash}, q \in TkRequest, s \in {"writing", "checking", "sending"} :
             /\ q = [place |-> p, expect |-> e] /\ tkCall' = [tkCall EXCEPT ![c] = q]
             /\ tkStep' = [tkStep EXCEPT ![c] = s]
             /\ s = "writing" <=> p = "server"
      BY <1>1 DEF CreateToolCall, Places, TkRequest
    <2>2. /\ tkRow' = [tkRow EXCEPT ![c] = "running"] /\ tkStep[c] = "idle"
          /\ UNCHANGED <<tkFile, tkWire, tkReply, tkWrites, tkChanges, tkCrashes>>
      BY <1>1 DEF CreateToolCall
    <2>3. TkTypeOK'
      BY <2>1, <2>2, <1>t DEF TkTypeOK, TkRequest, TkWriteRow
    <2>4. tkCall'[c] = q /\ tkStep'[c] = s /\ tkRow'[c] = "running"
      BY <2>1, <2>2, <1>t
    <2>5. q.place = p /\ (s # "writing" => p = "client")
      BY <2>1 DEF Places
    <2>6. TkHolds(c)'
      BY <2>1, <2>2, <2>4, <2>5, <1>h DEF TkHolds
    <2> QED BY <2>1, <2>2, <2>3, <2>6, <1>t, TkOneMoves
  <1>2. ASSUME NEW c \in TkCalls, tkStep[c] # "idle", FinishToolCall(c, "error"),
               UNCHANGED <<tkCall, tkFile, tkWire, tkReply, tkWrites, tkChanges, tkCrashes>>
        PROVE  TkInv'
    <2>1. tkRow' = [tkRow EXCEPT ![c] = "error"] /\ tkStep' = [tkStep EXCEPT ![c] = "over"]
      BY <1>2 DEF FinishToolCall
    <2>3. TkTypeOK'
      BY <1>2, <2>1, <1>t DEF TkTypeOK, TkRequest, TkWriteRow
    <2>4. tkRow'[c] = "error" /\ tkStep'[c] = "over"
      BY <2>1, <1>t
    <2>5. TkHolds(c)'
      BY <1>2, <2>4, <1>h DEF TkHolds, Guarded
    <2> QED BY <1>2, <2>1, <2>3, <2>5, <1>t, TkOneMoves
  <1>3. ASSUME NEW c \in TkCalls, RefuseCall(c) \/ Declined(c) \/ Unproven(c) \/ WriteLost(c) PROVE TkInv'
    BY <1>3, <1>2 DEF RefuseCall, Declined, Unproven, WriteLost, Waiting, LostStatus
  <1>w. ASSUME NEW c \in TkCalls, NEW p \in Places, Write(c, p),
               tkStep[c] # "idle", tkCall[c].place = p, UNCHANGED <<tkCall, tkCrashes>>,
               p = "server" => Expected(c)
        PROVE  /\ tkFile' \in [Places -> TkContent] /\ tkWrites' \subseteq TkWriteRow
               /\ tkWrites \subseteq tkWrites' /\ (\A w \in tkWrites' : w \in tkWrites \/ w.call = c)
               /\ \E w \in tkWrites' : w.call = c /\ w.before = tkFile[p]
               /\ \A w \in tkWrites' : w.call = c /\ tkCall[c].place = "server" /\ Guarded(c)
                                        => w.before = tkCall[c].expect
    <2>1. PICK x \in TkWriteRow : x = [call |-> c, before |-> tkFile[p]]
      BY <1>t DEF TkWriteRow, Places
    <2>2. tkWrites' = tkWrites \cup {x} /\ tkFile' = [tkFile EXCEPT ![p] = c]
      BY <1>w, <2>1 DEF Write
    <2>3. x.call = c /\ x.before = tkFile[p]
      BY <2>1
    <2>4. tkFile' \in [Places -> TkContent]
      BY <2>2, <1>t DEF TkContent
    <2>5. p = "server" /\ Guarded(c) => tkFile[p] = tkCall[c].expect
      BY <1>w DEF Expected
    <2>6. \A w \in tkWrites : w.call = c /\ tkCall[c].place = "server" /\ Guarded(c)
                                => w.before = tkCall[c].expect
      BY <1>h DEF TkHolds
    <2> QED BY <2>2, <2>3, <2>4, <2>5, <2>6, <1>t, <1>w
  <1>4. ASSUME NEW c \in TkCalls, ServerWrite(c) PROVE TkInv'
    <2>0. tkCall[c].place = "server" /\ tkStep[c] = "writing"
      BY <1>4, <1>h DEF ServerWrite, TkHolds
    <2>1. /\ tkRow' = [tkRow EXCEPT ![c] = "success"] /\ tkStep' = [tkStep EXCEPT ![c] = "over"]
          /\ UNCHANGED <<tkCall, tkWire, tkReply, tkCrashes>>
          /\ Write(c, "server") /\ Expected(c)
      BY <1>4 DEF ServerWrite, FinishToolCall
    <2>2. /\ tkFile' \in [Places -> TkContent] /\ tkWrites' \subseteq TkWriteRow
          /\ tkWrites \subseteq tkWrites' /\ (\A w \in tkWrites' : w \in tkWrites \/ w.call = c)
          /\ \E w \in tkWrites' : w.call = c /\ w.before = tkFile["server"]
          /\ \A w \in tkWrites' : w.call = c /\ tkCall[c].place = "server" /\ Guarded(c)
                                   => w.before = tkCall[c].expect
      BY <2>0, <2>1, <1>w DEF Places
    <2>3. PICK b \in TkContent : b = tkFile["server"]
      BY <1>t DEF Places
    <2>4. PICK x \in ChangeRow : x = [call |-> c, before |-> b]
      BY <2>3 DEF ChangeRow
    <2>5. tkChanges' = tkChanges \cup {x} /\ x.call = c /\ x.before = b
      BY <1>4, <2>3, <2>4 DEF ServerWrite, PersistFileChange
    <2>6. b # NoHash
      BY <2>3, TkAssumption DEF TkContent
    <2>7. tkRow'[c] = "success" /\ tkStep'[c] = "over" /\ (Guarded(c)' <=> Guarded(c))
      BY <2>1, <1>t DEF Guarded
    <2>8. TkTypeOK'
      BY <2>1, <2>2, <2>5, <1>t DEF TkTypeOK, TkRequest, TkWriteRow
    <2>9. \A r \in tkChanges' : r.call = c => r = x
      BY <2>0, <2>5, <1>h DEF TkHolds
    <2>10. TkHolds(c)'
      <3>1. /\ tkStep'[c] # "idle" /\ ~(tkStep'[c] # "over")
            /\ c \in tkWire' => tkCall'[c].place = "client"
            /\ tkReply'[c].ok => \E w \in tkWrites' : w.call = c /\ tkReply'[c].before \in {w.before, NoHash}
        BY <2>1, <2>2, <2>7, <1>h DEF TkHolds
      <3>2. /\ \A r \in tkChanges' : r.call = c =>
                  /\ \E w \in tkWrites' : w.call = c /\ r.before \in {w.before, NoHash}
                  /\ r.before # NoHash
            /\ \E r \in tkChanges' : r.call = c
        BY <2>2, <2>3, <2>5, <2>6, <2>9
      <3>3. \A w \in tkWrites' : w.call = c /\ tkCall'[c].place = "server" /\ Guarded(c)'
                 => w.before = tkCall'[c].expect
        BY <2>1, <2>2, <2>7
      <3> QED BY <3>1, <3>2, <3>3, <2>7 DEF TkHolds
    <2> QED BY <2>1, <2>2, <2>5, <2>8, <2>10, <1>t, TkOneMoves
  <1>5. ASSUME NEW c \in TkCalls, ServerWriteUnrecorded(c) PROVE TkInv'
    <2>0. tkCall[c].place = "server" /\ tkStep[c] = "writing"
      BY <1>5, <1>h DEF ServerWriteUnrecorded, TkHolds
    <2>1. /\ tkStep' = [tkStep EXCEPT ![c] = "over"]
          /\ UNCHANGED <<tkRow, tkCall, tkWire, tkReply, tkChanges, tkCrashes>>
          /\ Write(c, "server") /\ Expected(c)
      BY <1>5 DEF ServerWriteUnrecorded
    <2>2. /\ tkFile' \in [Places -> TkContent] /\ tkWrites' \subseteq TkWriteRow
          /\ tkWrites \subseteq tkWrites' /\ (\A w \in tkWrites' : w \in tkWrites \/ w.call = c)
          /\ \A w \in tkWrites' : w.call = c /\ tkCall[c].place = "server" /\ Guarded(c)
                                   => w.before = tkCall[c].expect
      BY <2>0, <2>1, <1>w DEF Places
    <2>3. tkStep'[c] = "over" /\ (Guarded(c)' <=> Guarded(c))
      BY <2>1, <1>t DEF Guarded
    <2>4. TkTypeOK'
      BY <2>1, <2>2, <1>t DEF TkTypeOK, TkRequest, TkWriteRow
    <2>5. TkHolds(c)'
      BY <2>0, <2>1, <2>2, <2>3, <1>h DEF TkHolds
    <2> QED BY <2>1, <2>2, <2>4, <2>5, <1>t, TkOneMoves
  <1>6. ASSUME NEW c \in TkCalls, ClientState(c) PROVE TkInv'
    <2>1. /\ tkStep' = [tkStep EXCEPT ![c] = "sending"] /\ tkStep[c] = "checking"
          /\ UNCHANGED <<tkRow, tkCall, tkFile, tkWire, tkReply, tkWrites, tkChanges, tkCrashes>>
      BY <1>6 DEF ClientState
    <2>2. TkTypeOK' /\ tkStep'[c] = "sending"
      BY <2>1, <1>t DEF TkTypeOK, TkRequest, TkWriteRow
    <2>3. TkHolds(c)'
      BY <2>1, <2>2, <1>h DEF TkHolds, Guarded
    <2> QED BY <2>1, <2>2, <2>3, <1>t, TkOneMoves
  <1>7. ASSUME NEW c \in TkCalls, SendWrite(c) PROVE TkInv'
    <2>1. /\ tkStep' = [tkStep EXCEPT ![c] = "waiting"] /\ tkStep[c] = "sending"
          /\ tkWire' = tkWire \cup {c}
          /\ UNCHANGED <<tkRow, tkCall, tkFile, tkReply, tkWrites, tkChanges, tkCrashes>>
      BY <1>7 DEF SendWrite
    <2>2. TkTypeOK' /\ tkStep'[c] = "waiting"
      BY <2>1, <1>t DEF TkTypeOK, TkRequest, TkWriteRow
    <2>3. TkHolds(c)'
      BY <2>1, <2>2, <1>h DEF TkHolds, Guarded
    <2> QED BY <2>1, <2>2, <2>3, <1>t, TkOneMoves
  <1>8. ASSUME NEW c \in TkCalls, ClientWrites(c) PROVE TkInv'
    <2>0. tkCall[c].place = "client" /\ tkStep[c] # "idle" /\ c \in tkWire
      BY <1>8, <1>h DEF ClientWrites, TkHolds
    <2>1. /\ tkWire' = tkWire \ {c} /\ UNCHANGED <<tkRow, tkCall, tkStep, tkChanges, tkCrashes>>
          /\ Write(c, "client")
      BY <1>8 DEF ClientWrites
    <2>2. /\ tkFile' \in [Places -> TkContent] /\ tkWrites' \subseteq TkWriteRow
          /\ tkWrites \subseteq tkWrites' /\ (\A w \in tkWrites' : w \in tkWrites \/ w.call = c)
          /\ \E w \in tkWrites' : w.call = c /\ w.before = tkFile["client"]
      BY <2>0, <2>1, <1>w DEF Places
    <2>3. PICK b \in TkContent : b = tkFile["client"]
      BY <1>t DEF Places
    <2>4. PICK h \in {b, NoHash}, y \in Replies : y = [ok |-> TRUE, before |-> h] /\ tkReply' = [tkReply EXCEPT ![c] = y]
      BY <1>8, <2>3 DEF ClientWrites, Replies
    <2>5. tkReply'[c] = y /\ y.before = h /\ (Guarded(c)' <=> Guarded(c))
      BY <2>1, <2>4, <1>t DEF Guarded
    <2>6. TkTypeOK'
      BY <2>1, <2>2, <2>4, <1>t DEF TkTypeOK, TkRequest, TkWriteRow
    <2>7. \E w \in tkWrites' : w.call = c /\ tkReply'[c].before \in {w.before, NoHash}
      BY <2>2, <2>3, <2>4, <2>5
    <2>8. TkHolds(c)'
      BY <2>0, <2>1, <2>2, <2>5, <2>7, <1>h DEF TkHolds
    <2> QED BY <2>1, <2>2, <2>4, <2>6, <2>8, <1>t, TkOneMoves
  <1>9. ASSUME NEW c \in TkCalls, ClientDeclines(c) PROVE TkInv'
    <2>1. /\ tkWire' = tkWire \ {c} /\ tkReply' = [tkReply EXCEPT ![c] = NoReply]
          /\ UNCHANGED <<tkRow, tkCall, tkStep, tkFile, tkWrites, tkChanges, tkCrashes>>
      BY <1>9 DEF ClientDeclines
    <2>2. NoReply \in Replies /\ ~NoReply.ok
      BY DEF NoReply, Replies
    <2>3. TkTypeOK' /\ tkReply'[c] = NoReply
      BY <2>1, <2>2, <1>t DEF TkTypeOK, TkRequest, TkWriteRow
    <2>4. TkHolds(c)'
      BY <2>1, <2>2, <2>3, <1>h DEF TkHolds, Guarded
    <2> QED BY <2>1, <2>3, <2>4, <1>t, TkOneMoves
  <1>10. ASSUME NEW c \in TkCalls, WriteAnswered(c) PROVE TkInv'
    <2>1. /\ tkRow' = [tkRow EXCEPT ![c] = "success"] /\ tkStep' = [tkStep EXCEPT ![c] = "over"]
          /\ UNCHANGED <<tkCall, tkFile, tkWire, tkReply, tkWrites, tkCrashes>>
          /\ tkStep[c] = "waiting" /\ tkReply[c].ok /\ (Guarded(c) => tkReply[c].before # NoHash)
      BY <1>10 DEF WriteAnswered, FinishToolCall, Waiting, HashesMissing
    <2>3. PICK b \in TkContent \cup {NoHash} : b = tkReply[c].before
      BY <1>t DEF Replies
    <2>4. PICK x \in ChangeRow : x = [call |-> c, before |-> b]
      BY <2>3 DEF ChangeRow
    <2>5. tkChanges' = tkChanges \cup {x} /\ x.call = c /\ x.before = b
      BY <1>10, <2>3, <2>4 DEF WriteAnswered, PersistFileChange
    <2>7. tkRow'[c] = "success" /\ tkStep'[c] = "over" /\ (Guarded(c)' <=> Guarded(c))
      BY <2>1, <1>t DEF Guarded
    <2>8. TkTypeOK'
      BY <2>1, <2>5, <1>t DEF TkTypeOK, TkRequest, TkWriteRow
    <2>9. \A r \in tkChanges' : r.call = c => r = x
      BY <2>1, <2>5, <1>h DEF TkHolds
    <2>10. \E w \in tkWrites' : w.call = c /\ b \in {w.before, NoHash}
      BY <2>1, <2>3, <1>h DEF TkHolds
    <2>11. TkHolds(c)'
      <3>1. /\ \A r \in tkChanges' : r.call = c =>
                  /\ \E w \in tkWrites' : w.call = c /\ r.before \in {w.before, NoHash}
                  /\ Guarded(c)' => r.before # NoHash
            /\ \E r \in tkChanges' : r.call = c
        BY <2>1, <2>3, <2>5, <2>7, <2>9, <2>10
      <3> QED BY <3>1, <2>1, <2>7, <1>h DEF TkHolds
    <2> QED BY <2>1, <2>5, <2>8, <2>11, <1>t, TkOneMoves
  <1>11. CASE TkCrash
    <2>1. /\ tkStep' = [c \in TkCalls |-> IF tkStep[c] = "idle" THEN "idle" ELSE "over"]
          /\ tkCrashes < MaxTkCrashes /\ tkCrashes' = tkCrashes + 1
          /\ UNCHANGED <<tkRow, tkCall, tkFile, tkWire, tkReply, tkWrites, tkChanges>>
      BY <1>11 DEF TkCrash
    <2>2. tkCrashes' \in 0 .. MaxTkCrashes
      BY <2>1, <1>t, TkAssumption
    <2>3. TkTypeOK'
      BY <2>1, <2>2, <1>t DEF TkTypeOK, TkRequest, TkWriteRow
    <2>4. ASSUME NEW c \in TkCalls PROVE TkHolds(c)'
      <3>1. tkStep'[c] = (IF tkStep[c] = "idle" THEN "idle" ELSE "over")
        BY <2>1
      <3> QED BY <3>1, <2>1, <1>h DEF TkHolds, Guarded
    <2> QED BY <2>3, <2>4 DEF TkInv
  <1> QED BY <1>u, <1>1, <1>3, <1>4, <1>5, <1>6, <1>7, <1>8, <1>9, <1>10, <1>11 DEF TkNext

\* The invariant gives the three properties of the change rows.
LEMMA TkInvSound == TkInv => ToolCallsSound
  <1> SUFFICES ASSUME TkInv PROVE ToolCallsSound
    OBVIOUS
  <1>1. ChangesWereWritten
    <2>1. \A r \in tkChanges : r.call \in TkCalls
      BY DEF TkInv, TkTypeOK, ChangeRow
    <2> QED BY <2>1 DEF ChangesWereWritten, TkInv, TkHolds
  <1>2. SuccessIsRecorded
    BY DEF SuccessIsRecorded, TkInv, TkHolds, Changed
  <1>3. ServerGuardKept
    BY DEF ServerGuardKept, TkInv, TkHolds
  <1> QED BY <1>1, <1>2, <1>3 DEF ToolCallsSound

(* For any number of calls, crashes and lost answers: a change row documents *)
(* a write that took place with the content it replaced, a success has its  *)
(* row, and a guarded write on the server replaced what it expected.        *)
THEOREM ToolCallsCorrect == TkSpec => []ToolCallsSound
  BY TkInitInv, TkStepInv, TkInvSound, PTL DEF TkSpec

-----------------------------------------------------------------------------
(* Docker workspaces (DockerWorkspaces)                                    *)

DkTaskType == [op : DkOps \cup {"none"}, ws : Spaces \cup {NoSpace}, src : Spaces \cup {NoSpace},
               step : {"idle", "docker", "commit"}]

\* What a handler may rely on between its steps: a new workspace is nobody
\* else's, and after docker the container is as the handler left it, except
\* where handlers overlap.
DkHolds(h) ==
    LET t == dkTask[h] IN
    t.step # "idle" =>
        /\ t.op \in DkOps /\ t.ws \in Spaces
        /\ t.op \in {"create", "clone"} =>
              /\ dkRow[t.ws] = "none" /\ (\A g \in DkTasks : g \in AtWork(t.ws) => g = h)
              /\ t.step = "docker" => dkBox[t.ws] = "none"
              /\ t.step = "commit" => dkBox[t.ws] = "running"
        /\ t.op \notin {"create", "clone"} => dkRow[t.ws] # "none"
        /\ t.op = "delete" /\ t.step = "commit" => dkBox[t.ws] = "gone"

\* A workspace without overlaps: one handler at most, and the row is the
\* container, but for what the handler between docker and its commit will write.
DkClear(w) ==
    w \notin dkBlurred =>
        /\ \A g, h \in AtWork(w) : g = h
        /\ Stands(w) =>
              /\ \A h \in AtWork(w) : dkTask[h].step = "commit" /\ dkTask[h].op \in {"start", "stop"} =>
                                         dkBox[w] = RowStatus(dkTask[h].op)
              /\ (\A h \in AtWork(w) : dkTask[h].step = "docker" \/ dkTask[h].op = "rename") =>
                    dkRow[w] = dkBox[w]

DkInv ==
    /\ DkTypeOK /\ NoOrphanContainer
    /\ \A h \in DkTasks : DkHolds(h)
    /\ \A w \in Spaces : DkClear(w)

\* No workspace exists and no handler is at work at first.
LEMMA DkInitInv == DkInit => DkInv
  <1> SUFFICES ASSUME DkInit PROVE DkInv
    OBVIOUS
  <1>1. DkTypeOK
    BY DEF DkInit, DkTypeOK, IdleTask, DkOps
  <1>2. \A h \in DkTasks : dkTask[h].step = "idle"
    BY DEF DkInit, IdleTask
  <1>3. \A h \in DkTasks : DkHolds(h)
    BY <1>2 DEF DkHolds
  <1>4. \A w \in Spaces : DkClear(w) /\ ~Stands(w)
    BY <1>2 DEF DkInit, DkClear, AtWork, Stands
  <1> QED BY <1>1, <1>3, <1>4 DEF DkInv, NoOrphanContainer, DkInit, Stands

\* The handler h moves to t and the others stay where they were.
LEMMA DkMove ==
    ASSUME DkTypeOK, NEW h \in DkTasks, NEW t \in DkTaskType, dkTask' = [dkTask EXCEPT ![h] = t]
    PROVE  /\ dkTask' \in [DkTasks -> DkTaskType] /\ dkTask'[h] = t
           /\ \A g \in DkTasks : g # h => dkTask'[g] = dkTask[g]
  BY DEF DkTypeOK, DkTaskType

\* One step on the row, the box or the handler of a workspace w that only the
\* handler h touches: the other workspaces and their handlers stay sound.
LEMMA DkOthers ==
    ASSUME DkInv, NEW h \in DkTasks, NEW w \in Spaces, NEW t \in DkTaskType,
           dkTask' = [dkTask EXCEPT ![h] = t],
           dkTask[h].step = "idle" \/ dkTask[h].ws = w, t.step = "idle" \/ t.ws = w,
           \A v \in Spaces : v # w => /\ dkRow'[v] = dkRow[v] /\ dkBox'[v] = dkBox[v]
                                      /\ v \in dkBlurred' <=> v \in dkBlurred
    PROVE  /\ \A v \in Spaces : v # w => /\ AtWork(v)' = AtWork(v) /\ DkClear(v)' /\ h \notin AtWork(v)
                                         /\ (dkRow'[v] = "deleted" => dkBox'[v] = "gone")
                                         /\ (Stands(v)' => dkBox'[v] # "none")
           /\ \A g \in DkTasks : g # h /\ dkTask[g].ws # w => DkHolds(g)'
  <1>m. /\ dkTask' \in [DkTasks -> DkTaskType] /\ dkTask'[h] = t
        /\ \A g \in DkTasks : g # h => dkTask'[g] = dkTask[g]
    BY DkMove DEF DkInv
  <1>1. ASSUME NEW v \in Spaces, v # w PROVE AtWork(v)' = AtWork(v) /\ h \notin AtWork(v)
    BY <1>1, <1>m DEF AtWork
  <1>2. ASSUME NEW v \in Spaces, v # w PROVE DkClear(v)'
    <2>1. DkClear(v) /\ AtWork(v)' = AtWork(v) /\ \A g \in AtWork(v) : dkTask'[g] = dkTask[g]
      BY <1>1, <1>2, <1>m DEF DkInv, AtWork
    <2>2. dkRow'[v] = dkRow[v] /\ dkBox'[v] = dkBox[v] /\ (v \in dkBlurred' <=> v \in dkBlurred)
      BY <1>2
    <2> QED BY <2>1, <2>2 DEF DkClear, Stands
  <1>3. ASSUME NEW g \in DkTasks, g # h, dkTask[g].ws # w PROVE DkHolds(g)'
    <2>1. DkHolds(g) /\ dkTask'[g] = dkTask[g]
      BY <1>3, <1>m DEF DkInv
    <2>2. dkTask[g].step # "idle" => dkTask[g].ws \in Spaces
      BY <2>1 DEF DkHolds
    <2> QED BY <2>1, <2>2, <1>1, <1>3 DEF DkHolds
  <1>4. ASSUME NEW v \in Spaces, v # w
        PROVE  (dkRow'[v] = "deleted" => dkBox'[v] = "gone") /\ (Stands(v)' => dkBox'[v] # "none")
    BY <1>4 DEF DkInv, NoOrphanContainer, Stands
  <1> QED BY <1>1, <1>2, <1>3, <1>4

\* The invariant after a step on workspace w by handler h.
LEMMA DkStepOn ==
    ASSUME DkInv, NEW h \in DkTasks, NEW w \in Spaces, NEW t \in DkTaskType,
           dkTask' = [dkTask EXCEPT ![h] = t],
           dkTask[h].step = "idle" \/ dkTask[h].ws = w, t.step = "idle" \/ t.ws = w,
           \A v \in Spaces : v # w => /\ dkRow'[v] = dkRow[v] /\ dkBox'[v] = dkBox[v]
                                      /\ v \in dkBlurred' <=> v \in dkBlurred,
           dkRow' \in [Spaces -> {"none", "running", "stopped", "deleted"}],
           dkBox' \in [Spaces -> {"none", "running", "stopped", "gone"}],
           dkBlurred' \subseteq Spaces,
           dkRow'[w] = "deleted" => dkBox'[w] = "gone", Stands(w)' => dkBox'[w] # "none",
           DkClear(w)', \A g \in DkTasks : g = h \/ dkTask[g].ws = w => DkHolds(g)'
    PROVE  DkInv'
  <1>1. /\ \A v \in Spaces : v # w => /\ DkClear(v)' /\ (dkRow'[v] = "deleted" => dkBox'[v] = "gone")
                                      /\ (Stands(v)' => dkBox'[v] # "none")
        /\ \A g \in DkTasks : g # h /\ dkTask[g].ws # w => DkHolds(g)'
    <2>1. /\ \A v \in Spaces : v # w => /\ AtWork(v)' = AtWork(v) /\ DkClear(v)' /\ h \notin AtWork(v)
                                        /\ (dkRow'[v] = "deleted" => dkBox'[v] = "gone")
                                        /\ (Stands(v)' => dkBox'[v] # "none")
          /\ \A g \in DkTasks : g # h /\ dkTask[g].ws # w => DkHolds(g)'
      BY DkOthers
    <2> QED BY <2>1
  <1>2. dkTask' \in [DkTasks -> DkTaskType]
    BY DkMove DEF DkInv
  <1>3. DkTypeOK'
    BY <1>2 DEF DkTypeOK, DkTaskType
  <1>4. NoOrphanContainer'
    BY <1>1 DEF NoOrphanContainer
  <1> QED BY <1>1, <1>3, <1>4 DEF DkInv

\* Every step of a handler keeps the invariant.
LEMMA DkStepInv == DkInv /\ [DkNext]_dkVars => DkInv'
  <1> SUFFICES ASSUME DkInv, [DkNext]_dkVars PROVE DkInv'
    OBVIOUS
  <1>t. DkTypeOK /\ NoOrphanContainer
    BY DEF DkInv
  <1>i. IdleTask \in DkTaskType /\ IdleTask.step = "idle"
    BY DEF IdleTask, DkTaskType
  <1>u. CASE UNCHANGED dkVars
    BY <1>u DEF DkInv, dkVars, DkTypeOK, NoOrphanContainer, DkHolds, DkClear, Stands, AtWork
  <1>1. ASSUME NEW h \in DkTasks, NEW op \in DkOps, NEW w \in Spaces, NEW s \in Spaces \cup {NoSpace}, TakeUp(h, op, w, s)
        PROVE  DkInv'
    <2>1. PICK t \in DkTaskType : t = [op |-> op, ws |-> w, src |-> s, step |-> "docker"]
      BY DEF DkTaskType
    <2>2. dkTask' = [dkTask EXCEPT ![h] = t] /\ dkTask[h].step = "idle" /\ dkRow' = dkRow /\ dkBox' = dkBox
          /\ dkBlurred' = IF AtWork(w) = {} THEN dkBlurred ELSE dkBlurred \cup {w}
      BY <1>1, <2>1 DEF TakeUp
    <2>3. dkTask'[h] = t /\ \A g \in DkTasks : g # h => dkTask'[g] = dkTask[g]
      BY <2>2, <1>t, DkMove
    <2>4. AtWork(w)' = AtWork(w) \cup {h} /\ h \notin AtWork(w)
      BY <2>1, <2>2, <2>3 DEF AtWork
    <2>5. CASE op \in {"create", "clone"}
      <3>1. dkRow[w] = "none" /\ AtWork(w) = {} /\ dkBox[w] = "none"
        BY <2>5, <1>1 DEF TakeUp
      <3>2. DkHolds(h)'
        <4>1. t.step = "docker" /\ t.op = op /\ t.ws = w
          BY <2>1
        <4>2. \A g \in DkTasks : g \in AtWork(w)' => g = h
          BY <2>4, <3>1
        <4> QED BY <4>1, <4>2, <2>2, <2>3, <2>5, <3>1 DEF DkHolds
      <3>3. ASSUME NEW g \in DkTasks, g # h, dkTask[g].ws = w PROVE DkHolds(g)'
        BY <3>3, <3>1, <2>3 DEF AtWork, DkHolds
      <3>4. DkClear(w)'
        BY <2>2, <2>4, <3>1 DEF DkClear, Stands
      <3> QED BY <2>1, <2>2, <3>1, <3>2, <3>3, <3>4, <1>t, DkStepOn DEF DkTypeOK, NoOrphanContainer, Stands
    <2>6. CASE op \notin {"create", "clone"}
      <3>1. Stands(w)
        BY <2>6, <1>1 DEF TakeUp
      <3>2. DkHolds(h)'
        BY <2>1, <2>2, <2>3, <2>6, <3>1 DEF DkHolds, Stands
      <3>3. ASSUME NEW g \in DkTasks, g # h, dkTask[g].ws = w PROVE DkHolds(g)'
        <4>1. DkHolds(g) /\ dkTask'[g] = dkTask[g]
          BY <3>3, <2>3 DEF DkInv
        <4>2. dkTask[g].step # "idle" => dkTask[g].op \notin {"create", "clone"}
          BY <4>1, <3>1, <3>3 DEF DkHolds, Stands
        <4> QED BY <4>1, <4>2, <2>2 DEF DkHolds
      <3>4. DkClear(w)'
        <4>1. CASE AtWork(w) # {}
          BY <4>1, <2>2 DEF DkClear
        <4>2. CASE AtWork(w) = {}
          <5>1. w \notin dkBlurred => dkRow[w] = dkBox[w]
            BY <4>2, <3>1 DEF DkInv, DkClear
          <5>2. AtWork(w)' = {h} /\ dkTask'[h].step = "docker"
            BY <4>2, <2>1, <2>3, <2>4
          <5> QED BY <5>1, <5>2, <4>2, <2>2 DEF DkClear
        <4> QED BY <4>1, <4>2
      <3> QED BY <2>1, <2>2, <3>1, <3>2, <3>3, <3>4, <1>t, DkStepOn DEF DkTypeOK, NoOrphanContainer, Stands
    <2> QED BY <2>5, <2>6
  <1>2. ASSUME NEW h \in DkTasks, Docker(h) PROVE DkInv'
    <2>h. DkHolds(h) /\ dkTask[h] \in DkTaskType /\ dkTask[h].step = "docker"
      BY <1>2, <1>t DEF DkInv, DkTypeOK, DkTaskType, Docker
    <2>0. PICK w \in Spaces, op \in DkOps : w = dkTask[h].ws /\ op = dkTask[h].op
      BY <2>h DEF DkHolds
    <2>k. PICK old \in DkTaskType : old = dkTask[h]
      BY <2>h
    <2>1. PICK t \in DkTaskType : /\ t = [old EXCEPT !.step = "commit"]
                                  /\ t.op = op /\ t.ws = w /\ t.step = "commit"
      <3>1. PICK t : t = [old EXCEPT !.step = "commit"]
        OBVIOUS
      <3>2. t \in DkTaskType /\ t.op = old.op /\ t.ws = old.ws /\ t.step = "commit"
        BY <3>1, <2>k DEF DkTaskType
      <3> QED BY <3>1, <3>2, <2>0, <2>k
    <2>2. dkTask' = [dkTask EXCEPT ![h] = t] /\ dkRow' = dkRow /\ dkBlurred' = dkBlurred
      BY <1>2, <2>1, <2>k DEF Docker
    <2>3. dkTask'[h] = t /\ \A g \in DkTasks : g # h => dkTask'[g] = dkTask[g]
      BY <2>2, <1>t, DkMove
    <2>4. AtWork(w)' = AtWork(w) /\ h \in AtWork(w)
      BY <2>h, <2>0, <2>1, <2>3 DEF AtWork
    <2>5. /\ op \in {"create", "clone", "start"} => dkBox' = [dkBox EXCEPT ![w] = "running"]
          /\ op = "stop" => dkBox' = [dkBox EXCEPT ![w] = "stopped"]
          /\ op = "rename" => dkBox' = dkBox
          /\ op = "delete" => dkBox' = [dkBox EXCEPT ![w] = "gone"]
      BY <1>2, <2>0 DEF Docker, Effect
    <2>6. op \in {"start", "stop", "rename"} => dkBox[w] \in {"running", "stopped"}
      BY <1>2, <2>0 DEF Docker, Possible, Exists
    <2>7. /\ dkBox' \in [Spaces -> {"none", "running", "stopped", "gone"}]
          /\ \A v \in Spaces : v # w => dkBox'[v] = dkBox[v]
          /\ dkBox'[w] # "none" /\ (op \in {"create", "clone", "start"} => dkBox'[w] = "running")
          /\ (op = "stop" => dkBox'[w] = "stopped") /\ (op = "rename" => dkBox'[w] = dkBox[w])
          /\ (op = "delete" => dkBox'[w] = "gone")
      BY <2>0, <2>5, <2>6, <1>t DEF DkTypeOK, DkOps
    <2>8. dkBox[w] = "gone" /\ op \notin {"create", "clone"} => dkBox'[w] = "gone"
      BY <2>0, <2>6, <2>7 DEF DkOps
    <2>9. op \in {"create", "clone"} => dkRow[w] = "none" /\ \A g \in AtWork(w) : g = h
      BY <2>h, <2>0 DEF DkHolds, AtWork
    <2>10. DkHolds(h)'
      BY <2>h, <2>0, <2>1, <2>2, <2>3, <2>4, <2>7 DEF DkHolds
    <2>11. ASSUME NEW g \in DkTasks, g # h, dkTask[g].ws = w PROVE DkHolds(g)'
      <3>1. DkHolds(g) /\ dkTask'[g] = dkTask[g]
        BY <2>11, <2>3 DEF DkInv
      <3>2. dkTask[g].step # "idle" => dkTask[g].op \notin {"create", "clone"} /\ op \notin {"create", "clone"}
        BY <3>1, <2>4, <2>9, <2>11 DEF DkHolds, AtWork
      <3> QED BY <3>1, <3>2, <2>2, <2>8, <2>11 DEF DkHolds
    <2>12. DkClear(w)'
      <3> SUFFICES ASSUME w \notin dkBlurred PROVE DkClear(w)'
        BY <2>2 DEF DkClear
      <3>1. DkClear(w) /\ \A g \in AtWork(w) : g = h
        BY <2>4 DEF DkInv, DkClear
      <3>2. op \in {"start", "stop"} => dkBox'[w] = RowStatus(op)
        BY <2>7 DEF RowStatus
      <3>3. op = "rename" /\ Stands(w) => dkRow[w] = dkBox[w]
        BY <3>1, <2>h DEF DkClear
      <3>4. /\ \A g \in AtWork(w)' : g = h /\ dkTask'[g] = t
            /\ h \in AtWork(w)' /\ Stands(w)' = Stands(w)
        BY <3>1, <2>2, <2>3, <2>4 DEF Stands
      <3>5. (\A g \in AtWork(w)' : dkTask'[g].step = "docker" \/ dkTask'[g].op = "rename") /\ Stands(w)
            => dkRow'[w] = dkBox'[w]
        BY <3>3, <3>4, <2>1, <2>2, <2>7
      <3>6. \A g \in AtWork(w)' : dkTask'[g].op \in {"start", "stop"} => dkBox'[w] = RowStatus(dkTask'[g].op)
        BY <3>2, <3>4, <2>1
      <3> QED BY <3>4, <3>5, <3>6 DEF DkClear
    <2>13. (dkRow'[w] = "deleted" => dkBox'[w] = "gone") /\ (Stands(w)' => dkBox'[w] # "none")
      BY <2>2, <2>7, <2>8, <2>9, <1>t DEF NoOrphanContainer
    <2> QED BY <2>0, <2>1, <2>2, <2>7, <2>10, <2>11, <2>12, <2>13, <1>t, DkStepOn DEF DkTypeOK
  <1>3. ASSUME NEW h \in DkTasks, DockerFails(h) PROVE DkInv'
    <2>h. DkHolds(h) /\ dkTask[h].step = "docker"
      BY <1>3 DEF DkInv, DockerFails
    <2>0. PICK w \in Spaces : w = dkTask[h].ws
      BY <2>h DEF DkHolds
    <2>2. dkTask' = [dkTask EXCEPT ![h] = IdleTask] /\ dkRow' = dkRow /\ dkBlurred' = dkBlurred /\ dkBox' = dkBox
      BY <1>3 DEF DockerFails, AfterFailedDocker
    <2>3. dkTask'[h] = IdleTask /\ \A g \in DkTasks : g # h => dkTask'[g] = dkTask[g]
      BY <2>2, <1>t, <1>i, DkMove
    <2>4. AtWork(w)' = AtWork(w) \ {h} /\ h \in AtWork(w)
      BY <2>h, <2>0, <2>3, <1>i DEF AtWork
    <2>10. DkHolds(h)'
      BY <2>3, <1>i DEF DkHolds
    <2>11. ASSUME NEW g \in DkTasks, g # h, dkTask[g].ws = w PROVE DkHolds(g)'
      <3>1. DkHolds(g) /\ dkTask'[g] = dkTask[g]
        BY <2>11, <2>3 DEF DkInv
      <3> QED BY <3>1, <2>2, <2>4, <2>11 DEF DkHolds
    <2>12. DkClear(w)'
      <3>1. DkClear(w)
        BY DEF DkInv
      <3> QED BY <3>1, <2>h, <2>2, <2>3, <2>4 DEF DkClear, Stands
    <2>13. (dkRow'[w] = "deleted" => dkBox'[w] = "gone") /\ (Stands(w)' => dkBox'[w] # "none")
      BY <2>2, <1>t DEF NoOrphanContainer, Stands
    <2> QED BY <2>0, <2>2, <2>10, <2>11, <2>12, <2>13, <1>t, <1>i, DkStepOn DEF DkTypeOK
  <1>4. ASSUME NEW h \in DkTasks, Interrupted(h) PROVE DkInv'
    <2>h. DkHolds(h) /\ dkTask[h].step # "idle"
      BY <1>4 DEF DkInv, Interrupted
    <2>0. PICK w \in Spaces, op \in DkOps : w = dkTask[h].ws /\ op = dkTask[h].op
      BY <2>h DEF DkHolds
    <2>2. dkTask' = [dkTask EXCEPT ![h] = IdleTask] /\ dkRow' = dkRow /\ dkBlurred' = dkBlurred \cup {w}
      BY <1>4, <2>0 DEF Interrupted
    <2>3. dkTask'[h] = IdleTask /\ \A g \in DkTasks : g # h => dkTask'[g] = dkTask[g]
      BY <2>2, <1>t, <1>i, DkMove
    <2>4. AtWork(w)' = AtWork(w) \ {h} /\ h \in AtWork(w)
      BY <2>h, <2>0, <2>3, <1>i DEF AtWork
    <2>5. \/ dkBox' = dkBox
          \/ op \in {"create", "clone"} /\ dkBox' = [dkBox EXCEPT ![w] = "running"]
          \/ /\ op \in {"start", "stop"} /\ dkBox[w] \in {"running", "stopped"}
             /\ dkBox' = [dkBox EXCEPT ![w] = "running"] \/ dkBox' = [dkBox EXCEPT ![w] = "stopped"]
          \/ op = "delete" /\ dkBox' = [dkBox EXCEPT ![w] = "gone"]
      BY <1>4, <2>0 DEF Interrupted, Effect, Possible, Exists, DkOps
    <2>9. op \in {"create", "clone"} => dkRow[w] = "none" /\ \A g \in AtWork(w) : g = h
      BY <2>h, <2>0 DEF DkHolds, AtWork
    <2>7. /\ dkBox' \in [Spaces -> {"none", "running", "stopped", "gone"}]
          /\ \A v \in Spaces : v # w => dkBox'[v] = dkBox[v]
          /\ dkBox[w] # "none" => dkBox'[w] # "none"
          /\ dkBox[w] = "gone" /\ op \notin {"create", "clone"} => dkBox'[w] = "gone"
      BY <2>0, <2>5, <1>t DEF DkTypeOK, DkOps
    <2>10. DkHolds(h)'
      BY <2>3, <1>i DEF DkHolds
    <2>11. ASSUME NEW g \in DkTasks, g # h, dkTask[g].ws = w PROVE DkHolds(g)'
      <3>1. DkHolds(g) /\ dkTask'[g] = dkTask[g]
        BY <2>11, <2>3 DEF DkInv
      <3>2. dkTask[g].step # "idle" => dkTask[g].op \notin {"create", "clone"} /\ op \notin {"create", "clone"}
        BY <3>1, <2>4, <2>9, <2>11 DEF DkHolds, AtWork
      <3> QED BY <3>1, <3>2, <2>2, <2>7, <2>11 DEF DkHolds
    <2>12. DkClear(w)'
      BY <2>2 DEF DkClear
    <2>13. (dkRow'[w] = "deleted" => dkBox'[w] = "gone") /\ (Stands(w)' => dkBox'[w] # "none")
      BY <2>2, <2>7, <2>9, <1>t DEF NoOrphanContainer, Stands
    <2>14. \A v \in Spaces : v # w => (v \in dkBlurred' <=> v \in dkBlurred)
      BY <2>2
    <2> QED BY <2>0, <2>2, <2>7, <2>10, <2>11, <2>12, <2>13, <2>14, <1>t, <1>i, DkStepOn DEF DkTypeOK
  <1>5. ASSUME NEW h \in DkTasks, Commit(h) PROVE DkInv'
    <2>h. DkHolds(h) /\ dkTask[h].step = "commit"
      BY <1>5 DEF DkInv, Commit
    <2>0. PICK w \in Spaces, op \in DkOps : w = dkTask[h].ws /\ op = dkTask[h].op
      BY <2>h DEF DkHolds
    <2>2. dkTask' = [dkTask EXCEPT ![h] = IdleTask] /\ dkBox' = dkBox /\ dkBlurred' = dkBlurred
      BY <1>5 DEF Commit
    <2>3. dkTask'[h] = IdleTask /\ \A g \in DkTasks : g # h => dkTask'[g] = dkTask[g]
      BY <2>2, <1>t, <1>i, DkMove
    <2>4. AtWork(w)' = AtWork(w) \ {h} /\ h \in AtWork(w)
      BY <2>h, <2>0, <2>3, <1>i DEF AtWork
    <2>5. /\ op \in {"create", "clone"} => dkRow' = [dkRow EXCEPT ![w] = "running"]
          /\ op \in {"start", "stop"} /\ Stands(w) => dkRow' = [dkRow EXCEPT ![w] = RowStatus(op)]
          /\ op = "delete" => dkRow' = [dkRow EXCEPT ![w] = "deleted"]
          /\ op = "rename" \/ (op \in {"start", "stop"} /\ ~Stands(w)) => dkRow' = dkRow
      BY <1>5, <2>0 DEF Commit, RowStatus, DkOps
    <2>6. RowStatus(op) \in {"running", "stopped"}
      BY DEF RowStatus
    <2>7. /\ dkRow' \in [Spaces -> {"none", "running", "stopped", "deleted"}]
          /\ \A v \in Spaces : v # w => dkRow'[v] = dkRow[v]
          /\ op \in {"create", "clone"} => dkRow'[w] = "running"
          /\ op \in {"start", "stop"} /\ Stands(w) => dkRow'[w] = RowStatus(op)
          /\ op = "delete" => dkRow'[w] = "deleted"
          /\ op = "rename" \/ (op \in {"start", "stop"} /\ ~Stands(w)) => dkRow'[w] = dkRow[w]
      <3>1. \A x \in {"none", "running", "stopped", "deleted"} : dkRow' = [dkRow EXCEPT ![w] = x] =>
                /\ dkRow' \in [Spaces -> {"none", "running", "stopped", "deleted"}]
                /\ dkRow'[w] = x /\ \A v \in Spaces : v # w => dkRow'[v] = dkRow[v]
        BY <1>t DEF DkTypeOK
      <3>2. RowStatus(op) \in {"none", "running", "stopped", "deleted"}
        BY <2>6
      <3> QED BY <3>1, <3>2, <2>0, <2>5, <1>t DEF DkTypeOK, DkOps
    <2>8. /\ op \in {"create", "clone"} => /\ dkBox[w] = "running" /\ \A g \in AtWork(w) : g = h
          /\ op \notin {"create", "clone"} => dkRow[w] # "none"
          /\ op = "delete" => dkBox[w] = "gone"
      BY <2>h, <2>0 DEF DkHolds, AtWork
    <2>9. dkRow'[w] # "none"
      BY <2>0, <2>6, <2>7, <2>8 DEF DkOps
    <2>10. DkHolds(h)'
      BY <2>3, <1>i DEF DkHolds
    <2>11. ASSUME NEW g \in DkTasks, g # h, dkTask[g].ws = w PROVE DkHolds(g)'
      <3>1. DkHolds(g) /\ dkTask'[g] = dkTask[g]
        BY <2>11, <2>3 DEF DkInv
      <3>2. dkTask[g].step # "idle" => dkTask[g].op \notin {"create", "clone"}
        BY <3>1, <2>4, <2>11 DEF DkHolds, AtWork
      <3> QED BY <3>1, <3>2, <2>2, <2>9, <2>11 DEF DkHolds
    <2>12. DkClear(w)'
      <3> SUFFICES ASSUME w \notin dkBlurred PROVE DkClear(w)'
        BY <2>2 DEF DkClear
      <3>1. DkClear(w) /\ \A g \in AtWork(w) : g = h
        BY <2>4 DEF DkInv, DkClear
      <3>2. AtWork(w)' = {}
        BY <3>1, <2>4
      <3>3. Stands(w)' => dkRow'[w] = dkBox[w]
        <4>1. CASE op \in {"create", "clone"}
          BY <4>1, <2>7, <2>8
        <4>2. CASE op \in {"start", "stop"}
          BY <4>2, <2>h, <2>0, <2>4, <2>7, <3>1 DEF DkClear, Stands
        <4>3. CASE op = "delete"
          BY <4>3, <2>7 DEF Stands
        <4>4. CASE op = "rename"
          BY <4>4, <2>h, <2>0, <2>7, <3>1 DEF DkClear, Stands
        <4> QED BY <4>1, <4>2, <4>3, <4>4, <2>0 DEF DkOps
      <3> QED BY <3>2, <3>3, <2>2 DEF DkClear
    <2>13. (dkRow'[w] = "deleted" => dkBox'[w] = "gone") /\ (Stands(w)' => dkBox'[w] # "none")
      <3>1. CASE op \in {"create", "clone"}
        BY <3>1, <2>2, <2>7, <2>8
      <3>2. CASE op \in {"start", "stop"} /\ Stands(w)
        BY <3>2, <2>2, <2>6, <2>7, <1>t DEF NoOrphanContainer
      <3>3. CASE op = "delete"
        BY <3>3, <2>2, <2>7, <2>8 DEF Stands
      <3>4. CASE op = "rename" \/ (op \in {"start", "stop"} /\ ~Stands(w))
        BY <3>4, <2>2, <2>7, <1>t DEF NoOrphanContainer, Stands
      <3> QED BY <3>1, <3>2, <3>3, <3>4, <2>0 DEF DkOps
    <2> QED BY <2>0, <2>2, <2>7, <2>10, <2>11, <2>12, <2>13, <1>t, <1>i, DkStepOn DEF DkTypeOK
  <1> QED BY <1>u, <1>1, <1>2, <1>3, <1>4, <1>5 DEF DkNext

(* For any workspaces and handlers on any replicas: a deleted workspace      *)
(* leaves no container, a listed one once had its container, and the listed *)
(* status is the container's where handlers neither overlapped nor died.    *)
THEOREM WorkspacesCorrect == DkSpec => []WorkspacesSound
  <1>1. DkInv => WorkspacesSound
    BY DEF DkInv, WorkspacesSound, StatusFollowsContainer, DkClear
  <1> QED BY <1>1, DkInitInv, DkStepInv, PTL DEF DkSpec

-----------------------------------------------------------------------------
(* The Task Progress view (TaskProgress)                                   *)

\* A set of numbers up to a bound has its greatest one.
LEMMA TpGreatest ==
    ASSUME NEW n \in Nat, NEW T, T \subseteq 0 .. n, T # {}
    PROVE  Max(T) \in T /\ \A y \in T : y <= Max(T)
  <1>0. \A x \in T : x \in Nat /\ x <= n /\ n - x \in Nat
    OBVIOUS
  <1>1. PICK D : D = {n - x : x \in T}
    OBVIOUS
  <1>2. D \subseteq Nat /\ D # {}
    BY <1>0, <1>1
  <1>3. PICK d \in D : \A e \in D : ~(<<e, d>> \in OpToRel(<, Nat))
    BY <1>2, WFMin, NatLessThanWellFounded
  <1>4. d \in D /\ \A e \in D : ~(e < d)
    BY <1>2, <1>3 DEF OpToRel
  <1>5. PICK m \in T : d = n - m
    BY <1>1, <1>4
  <1>6. \A y \in T : m >= y
    <2> SUFFICES ASSUME NEW y \in T PROVE m >= y
      OBVIOUS
    <2>1. n - y \in D
      BY <1>1
    <2>2. ~(n - y < d) /\ n - y \in Int /\ d \in Int
      BY <2>1, <1>0, <1>2, <1>4
    <2> QED BY <2>2, <1>0, <1>5
  <1>7. Max(T) \in T /\ \A y \in T : Max(T) >= y
    BY <1>5, <1>6 DEF Max
  <1>8. \A y \in T : y \in Nat /\ Max(T) \in Nat
    BY <1>0, <1>7
  <1> QED BY <1>7, <1>8

TpStatuses == ItemStatuses \cup {"delivered", "unknown", "completed", "pending", "approved", "running", "exited", "absent"}
TpRowType == [status : TpStatuses, at : Nat]
TpSnap(rows) ==
    /\ rows \in [Rows -> TpRowType]
    /\ \A r \in Rows : rows[r].status \in RowStatuses(r) \cup {"absent"} /\ rows[r].at <= MaxTpStamp

\* A set of rows that was read from the room, now or earlier: rows do not
\* disappear.
TpBehind(rows) ==
    TpSnap(rows) /\ \A r \in Rows : rows[r].status # "absent" => tpRows[r].status # "absent"

\* What a reader has so far; while no commit has come in between, the tables
\* it has read are the room's.
TpReads(c) ==
    LET t == tpReader[c] IN
    /\ TpBehind(t.rows) /\ t.begun \in Nat /\ t.begun <= tpCommits
    /\ t.step \in 0 .. 5
    /\ t.begun = tpCommits => \A j \in 1 .. 4 : j < t.step => \A r \in Tables[j] : t.rows[r] = tpRows[r]

TpReaderType == [step : 0 .. 5, rows : [Rows -> TpRowType], begun : Nat, again : BOOLEAN]

TpInv ==
    /\ tpCommits \in 0 .. MaxTpWrites /\ TpSnap(tpRows)
    /\ tpReader \in [Callers -> TpReaderType] /\ \A c \in Callers : TpReads(c)
    /\ TpBehind(tpShown)
    /\ tpSeq \in Nat /\ (tpSeq = SequenceOf(tpShown) \/ tpSeq = 0)
    /\ tpRefused \subseteq Nat /\ (\A b \in tpRefused : b <= tpCommits) /\ CurrentSnapshotShown

\* The four tables hold every row of the room, each once.
LEMMA TpTables ==
    /\ Len(Tables) = 4 /\ Tables[1] = TpItems /\ Tables[2] = {"command"}
    /\ Tables[3] = {"approval"} /\ Tables[4] = {"session"}
    /\ "command" \in Rows /\ "approval" \in Rows /\ "session" \in Rows
    /\ \A r \in Rows : \E j \in 1 .. 4 : r \in Tables[j]
  <1>1. /\ Len(Tables) = 4 /\ Tables[1] = TpItems /\ Tables[2] = {"command"}
        /\ Tables[3] = {"approval"} /\ Tables[4] = {"session"}
    BY DEF Tables
  <1>2. \A r \in Rows : r \in Tables[1] \/ r \in Tables[2] \/ r \in Tables[3] \/ r \in Tables[4]
    BY <1>1 DEF Rows, Others
  <1> QED BY <1>1, <1>2 DEF Rows, Others

\* The statuses a row may have.
LEMMA TpRowStatuses ==
    /\ \A r \in TpItems : RowStatuses(r) = ItemStatuses
    /\ RowStatuses("command") = {"delivered", "unknown", "completed"}
    /\ RowStatuses("approval") = {"pending", "approved"}
    /\ RowStatuses("session") = {"running", "exited"}
    /\ \A r \in Rows : RowStatuses(r) \subseteq TpStatuses \ {"absent"}
  <1>1. "command" \notin TpItems /\ "approval" \notin TpItems /\ "session" \notin TpItems
    BY TpAssumption
  <1>2. \A r \in TpItems : r # "command" /\ r # "approval" /\ r # "session"
    BY <1>1
  <1>3. \A r \in TpItems : RowStatuses(r) = ItemStatuses
    BY <1>2 DEF RowStatuses
  <1>4. /\ RowStatuses("command") = {"delivered", "unknown", "completed"}
        /\ RowStatuses("approval") = {"pending", "approved"}
        /\ RowStatuses("session") = {"running", "exited"}
    BY <1>1 DEF RowStatuses
  <1>5. "absent" \notin ItemStatuses
    BY DEF ItemStatuses
  <1> QED BY <1>3, <1>4, <1>5 DEF Rows, Others, TpStatuses

\* The parts of a snapshot's number: the latest time m and the n rows it shows.
TpParted(s, m, n) ==
    /\ m = LatestTimestamp(s) /\ (\A r \in Rows : s[r].at <= m) /\ (\E r \in Rows : s[r].at = m)
    /\ n = EntityCount(s) /\ SequenceOf(s) = m * 1000 + (IF n <= 999 THEN n ELSE 999)

\* The number of a snapshot is a number, and the number of a snapshot that is
\* behind another is not higher.
LEMMA TpNumber ==
    ASSUME NEW rows, TpSnap(rows)
    PROVE  /\ SequenceOf(rows) \in Nat
           /\ \A older : /\ TpSnap(older)
                         /\ \A r \in Rows : /\ older[r].at <= rows[r].at
                                            /\ older[r].status # "absent" => rows[r].status # "absent"
                         => SequenceOf(older) <= SequenceOf(rows)
  <1>t. MaxTpStamp \in Nat
    BY TpAssumption
  <1>f. IsFiniteSet(Rows)
    <2>1. IsFiniteSet({"command"}) /\ IsFiniteSet({"approval"}) /\ IsFiniteSet({"session"})
      BY FS_Singleton
    <2>2. IsFiniteSet({"command"} \cup {"approval"})
      BY <2>1, FS_Union
    <2>3. IsFiniteSet(({"command"} \cup {"approval"}) \cup {"session"})
      BY <2>1, <2>2, FS_Union
    <2>4. IsFiniteSet(TpItems \cup (({"command"} \cup {"approval"}) \cup {"session"}))
      BY <2>3, TpAssumption, FS_Union
    <2>5. Rows = TpItems \cup (({"command"} \cup {"approval"}) \cup {"session"})
      BY DEF Rows, Others
    <2> QED BY <2>4, <2>5
  \* The parts of the number of any snapshot.
  <1>1. ASSUME NEW s, TpSnap(s)
        PROVE  \E m \in 0 .. MaxTpStamp, n \in Nat : TpParted(s, m, n)
    <2>1. PICK T : T = {s[r].at : r \in Rows}
      OBVIOUS
    <2>2. T \subseteq 0 .. MaxTpStamp
      <3>1. \A r \in Rows : s[r].at \in Nat /\ s[r].at <= MaxTpStamp
        BY <1>1 DEF TpSnap, TpRowType
      <3> QED BY <2>1, <3>1
    <2>3. T # {}
      <3>1. "command" \in Rows
        BY DEF Rows, Others
      <3>2. s["command"].at \in T
        BY <2>1, <3>1
      <3> QED BY <3>2
    <2>4. PICK m \in T : m = Max(T) /\ \A y \in T : y <= m
      BY <1>t, <2>2, <2>3, TpGreatest
    <2>5. LatestTimestamp(s) = m /\ m \in 0 .. MaxTpStamp
      BY <2>1, <2>2, <2>4 DEF LatestTimestamp
    <2>6. PICK n \in Nat : n = EntityCount(s)
      <3>1. {r \in Rows : s[r].status # "absent"} \in SUBSET Rows
        OBVIOUS
      <3>2. IsFiniteSet({r \in Rows : s[r].status # "absent"})
        BY <1>f, <3>1, FS_Subset
      <3>3. Cardinality({r \in Rows : s[r].status # "absent"}) \in Nat
        BY <3>2, FS_CardinalityType
      <3> QED BY <3>3 DEF EntityCount
    <2>7. Min({n, 999}) = IF n <= 999 THEN n ELSE 999
      <3>1. PICK k : k = IF n <= 999 THEN n ELSE 999
        OBVIOUS
      <3>2. k \in {n, 999} /\ \A y \in {n, 999} : k <= y
        BY <3>1, <2>6
      <3>3. \A x \in {n, 999} : (\A y \in {n, 999} : x <= y) => x = k
        BY <3>1, <2>6
      <3> QED BY <3>1, <3>2, <3>3 DEF Min
    <2>8. SequenceOf(s) = m * 1000 + (IF n <= 999 THEN n ELSE 999)
      BY <2>5, <2>6, <2>7 DEF SequenceOf
    <2>9. \A r \in Rows : s[r].at <= m
      BY <2>1, <2>4
    <2>10. \E r \in Rows : s[r].at = m
      BY <2>1, <2>4
    <2>11. m \in 0 .. MaxTpStamp /\ n \in Nat /\ m = LatestTimestamp(s) /\ n = EntityCount(s)
      BY <2>5, <2>6
    <2>12. m \in 0 .. MaxTpStamp /\ n \in Nat
      BY <2>11
    <2>13. TpParted(s, m, n)
      BY <2>8, <2>9, <2>10, <2>11 DEF TpParted
    <2> QED BY <2>12, <2>13
  <1>2. SequenceOf(rows) \in Nat
    <2>1. PICK m \in 0 .. MaxTpStamp, n \in Nat : TpParted(rows, m, n)
      BY <1>1
    <2>2. m \in Nat /\ n \in Nat
      BY <2>1
    <2>3. SequenceOf(rows) = m * 1000 + (IF n <= 999 THEN n ELSE 999)
      BY <2>1 DEF TpParted
    <2> QED BY <2>2, <2>3
  <1>3. ASSUME NEW older, TpSnap(older),
               \A r \in Rows : /\ older[r].at <= rows[r].at
                               /\ older[r].status # "absent" => rows[r].status # "absent"
        PROVE  SequenceOf(older) <= SequenceOf(rows)
    <2>a. PICK m1 \in 0 .. MaxTpStamp, n1 \in Nat : TpParted(older, m1, n1)
      BY <1>1, <1>3
    <2>b. PICK m2 \in 0 .. MaxTpStamp, n2 \in Nat : TpParted(rows, m2, n2)
      BY <1>1
    <2>1. /\ \E r \in Rows : older[r].at = m1
          /\ n1 = EntityCount(older) /\ SequenceOf(older) = m1 * 1000 + (IF n1 <= 999 THEN n1 ELSE 999)
      BY <2>a DEF TpParted
    <2>2. /\ \A r \in Rows : rows[r].at <= m2
          /\ n2 = EntityCount(rows) /\ SequenceOf(rows) = m2 * 1000 + (IF n2 <= 999 THEN n2 ELSE 999)
      BY <2>b DEF TpParted
    <2>3. m1 <= m2
      <3>1. PICK r \in Rows : older[r].at = m1
        BY <2>1
      <3>2. older[r].at <= rows[r].at /\ rows[r].at <= m2 /\ rows[r].at \in Nat
        BY <1>3, <2>2 DEF TpSnap, TpRowType
      <3> QED BY <3>1, <3>2
    <2>4. n1 <= n2
      <3>1. PICK A, B : A = {r \in Rows : older[r].status # "absent"} /\ B = {r \in Rows : rows[r].status # "absent"}
        OBVIOUS
      <3>2. A \in SUBSET B /\ B \in SUBSET Rows
        BY <3>1, <1>3
      <3>3. IsFiniteSet(B)
        BY <3>2, <1>f, FS_Subset
      <3>4. Cardinality(A) <= Cardinality(B)
        BY <3>2, <3>3, FS_Subset
      <3> QED BY <3>1, <3>4, <2>1, <2>2 DEF EntityCount
    <2>5. m1 \in Nat /\ m2 \in Nat
      BY <2>a, <2>b
    <2>6. n1 \in Nat /\ n2 \in Nat
      BY <2>a, <2>b
    <2>7. /\ SequenceOf(older) = m1 * 1000 + (IF n1 <= 999 THEN n1 ELSE 999)
          /\ SequenceOf(rows) = m2 * 1000 + (IF n2 <= 999 THEN n2 ELSE 999)
      BY <2>1, <2>2
    <2> QED BY <2>3, <2>4, <2>5, <2>6, <2>7
  <1> QED BY <1>2, <1>3

\* Whatever rows a room has: a final status hides no work, and an outcome is
\* shown as unknown exactly when a command blocks for that reason.
LEMMA TpHonest ==
    ASSUME NEW rows, TpSnap(rows)
    PROVE  /\ RunStatus(rows) \in Final =>
                 /\ StatusesOf(rows) \subseteq {"completed", "failed", "cancelled"}
                 /\ Blockers(rows) \subseteq {"approval"}
           /\ RunStatus(rows) = "succeeded" =>
                 CurrentStage(rows) = "none" /\ Resolved(rows) = Stages(rows) /\ Stages(rows) # {}
           /\ RunStatus(rows) = "unknown" <=> "command" \in Blockers(rows)
  <1>1. StatusesOf(rows) \subseteq ItemStatuses
    BY TpRowStatuses DEF StatusesOf, TpSnap, Rows
  <1>2. \A i \in TpItems : rows[i].status # "absent" => rows[i].status \in StatusesOf(rows)
    BY DEF StatusesOf
  <1>3. PICK s : s = StatusesOf(rows)
    OBVIOUS
  <1>4. Unsettled(rows) => RunStatus(rows) = "unknown"
    BY DEF RunStatus
  <1>5. "command" \in Blockers(rows) <=> Unsettled(rows)
    <2>1. "command" \notin TpItems
      BY TpAssumption
    <2> QED BY <2>1 DEF Blockers
  <1>6. ~Unsettled(rows) => RunStatus(rows) # "unknown"
    BY DEF RunStatus
  <1>7. RunStatus(rows) = "succeeded" => s = {"completed"} /\ ~Unsettled(rows)
    BY <1>3, <1>4 DEF RunStatus
  <1>8. RunStatus(rows) = "cancelled" => s = {"cancelled"} /\ ~Unsettled(rows)
    BY <1>3, <1>4 DEF RunStatus
  <1>9. RunStatus(rows) = "failed" => /\ s \cap {"open", "in_progress", "review"} = {} /\ "blocked" \notin s
                                      /\ ~Unsettled(rows)
    BY <1>3, <1>4 DEF RunStatus
  <1>10. RunStatus(rows) # "rolled_back"
    BY DEF RunStatus
  <1>11. RunStatus(rows) \in Final => s \subseteq {"completed", "failed", "cancelled"} /\ ~Unsettled(rows)
    BY <1>1, <1>3, <1>7, <1>8, <1>9, <1>10 DEF Final, ItemStatuses
  <1>12. s \subseteq {"completed", "failed", "cancelled"} /\ ~Unsettled(rows) => Blockers(rows) \subseteq {"approval"}
    BY <1>2, <1>3 DEF Blockers
  <1>13. s = {"completed"} => CurrentStage(rows) = "none" /\ Resolved(rows) = Stages(rows) /\ Stages(rows) # {}
    <2> SUFFICES ASSUME s = {"completed"} PROVE CurrentStage(rows) = "none" /\ Resolved(rows) = Stages(rows) /\ Stages(rows) # {}
      OBVIOUS
    <2>1. CurrentStage(rows) = "none"
      BY <1>3 DEF CurrentStage
    <2>2. \A i \in TpItems : rows[i].status # "absent" => rows[i].status = "completed"
      BY <1>2, <1>3
    <2>3. \E i \in TpItems : rows[i].status = "completed"
      BY <1>3 DEF StatusesOf
    <2> QED BY <2>1, <2>2, <2>3 DEF Resolved, Stages
  <1> QED BY <1>3, <1>4, <1>5, <1>6, <1>7, <1>11, <1>12, <1>13

\* An empty room is the state of any view at first.
LEMMA TpNothing ==
    /\ TpSnap(Nothing) /\ \A r \in Rows : Nothing[r] = AbsentRow
    /\ AbsentRow.at = 0 /\ AbsentRow.status = "absent" /\ TpBehind(Nothing)
  <1>0. MaxTpStamp \in Nat
    BY TpAssumption
  <1>1. AbsentRow \in TpRowType /\ AbsentRow.at = 0 /\ AbsentRow.status = "absent"
    BY DEF AbsentRow, TpRowType, TpStatuses
  <1>2. TpSnap(Nothing) /\ \A r \in Rows : Nothing[r] = AbsentRow
    BY <1>0, <1>1 DEF Nothing, TpSnap
  <1> QED BY <1>1, <1>2 DEF TpBehind

\* A set of rows that is behind the room stays so when a row is written: the
\* written row is not absent.
LEMMA TpRoomWritten ==
    ASSUME TpInv, NEW q \in Rows, NEW st \in RowStatuses(q), NEW at \in 1 .. MaxTpStamp, TpCommit(q, st, at)
    PROVE  /\ tpCommits' \in 0 .. MaxTpWrites /\ tpCommits' = tpCommits + 1 /\ TpSnap(tpRows)'
           /\ \A rows : TpBehind(rows) => TpBehind(rows)'
  <1>0. /\ tpCommits \in Nat /\ tpCommits' = tpCommits + 1 /\ tpCommits < MaxTpWrites /\ MaxTpWrites \in Nat /\ MaxTpStamp \in Nat
        /\ tpRows' = [tpRows EXCEPT ![q] = [status |-> st, at |-> at]]
    BY TpAssumption DEF TpInv, TpCommit
  <1>1. /\ tpRows \in [Rows -> TpRowType]
        /\ \A r \in Rows : tpRows[r].status \in RowStatuses(r) \cup {"absent"} /\ tpRows[r].at <= MaxTpStamp
    BY DEF TpInv, TpSnap
  <1>2. st \in TpStatuses /\ st # "absent"
    BY TpRowStatuses
  <1>3. PICK row : row = [status |-> st, at |-> at]
    OBVIOUS
  <1>4. row \in TpRowType /\ row.status = st /\ row.at = at /\ at <= MaxTpStamp
    BY <1>0, <1>2, <1>3 DEF TpRowType
  <1>5. tpRows' \in [Rows -> TpRowType]
    BY <1>0, <1>1, <1>3, <1>4
  <1>6. \A r \in Rows : tpRows'[r] = IF r = q THEN row ELSE tpRows[r]
    BY <1>0, <1>1, <1>3
  <1>8. \A r \in Rows : tpRows'[r].status \in RowStatuses(r) \cup {"absent"} /\ tpRows'[r].at <= MaxTpStamp
    BY <1>1, <1>4, <1>6
  <1>9. \A r \in Rows : tpRows[r].status # "absent" => tpRows'[r].status # "absent"
    BY <1>2, <1>4, <1>6
  <1>10. TpSnap(tpRows)'
    BY <1>5, <1>8 DEF TpSnap
  <1>11. \A rows : TpBehind(rows) => TpBehind(rows)'
    BY <1>9 DEF TpBehind, TpSnap
  <1>12. tpCommits' \in 0 .. MaxTpWrites
    BY <1>0
  <1> QED BY <1>0, <1>10, <1>11, <1>12

\* A reader at rest has read nothing.
LEMMA TpResting ==
    /\ Resting \in TpReaderType /\ Resting.step = 0 /\ Resting.rows = Nothing
    /\ Resting.begun = 0 /\ Resting.again = FALSE /\ TpBehind(Nothing)
  <1>1. TpBehind(Nothing) /\ Nothing \in [Rows -> TpRowType]
    BY TpNothing DEF TpSnap
  <1> QED BY <1>1 DEF Resting, TpReaderType

\* A reader that begins has read nothing yet.
LEMMA TpBegins ==
    ASSUME NEW b \in Nat, NEW t,
           \/ t = [Resting EXCEPT !.step = 1, !.begun = b]
           \/ t = [Resting EXCEPT !.step = 1, !.begun = b, !.again = TRUE]
    PROVE  t \in TpReaderType /\ t.rows = Nothing /\ t.begun = b /\ t.step = 1
  <1>1. Nothing \in [Rows -> TpRowType]
    <2>1. AbsentRow \in TpRowType
      BY DEF AbsentRow, TpRowType, TpStatuses
    <2> QED BY <2>1 DEF Nothing
  <1>2. \/ t = [step |-> 1, rows |-> Nothing, begun |-> b, again |-> FALSE]
        \/ t = [step |-> 1, rows |-> Nothing, begun |-> b, again |-> TRUE]
    BY DEF Resting
  <1>3. t.rows = Nothing /\ t.begun = b /\ t.step = 1 /\ 1 \in 0 .. 5
    BY <1>2
  <1>4. PICK g \in BOOLEAN : t = [step |-> 1, rows |-> Nothing, begun |-> b, again |-> g]
    BY <1>2
  <1>5. t \in TpReaderType
    BY <1>1, <1>3, <1>4 DEF TpReaderType
  <1> QED BY <1>3, <1>5

\* An empty room, readers at rest and an empty view.
LEMMA TpInitInv == TpInit => TpInv
  <1> SUFFICES ASSUME TpInit PROVE TpInv
    OBVIOUS
  <1>1. tpCommits = 0 /\ tpRows = Nothing /\ tpShown = Nothing /\ tpSeq = 0 /\ tpRefused = {}
        /\ tpReader = [c \in Callers |-> Resting]
    BY DEF TpInit
  <1>2. tpCommits \in Nat /\ tpCommits \in 0 .. MaxTpWrites
    BY <1>1, TpAssumption
  <1>3. TpSnap(tpRows)
    BY <1>1, TpNothing
  <1>4. /\ Resting \in TpReaderType /\ Resting.step = 0 /\ Resting.rows = Nothing
        /\ Resting.begun = 0 /\ Resting.again = FALSE /\ TpBehind(Nothing)
    BY TpResting
  <1>5. tpReader \in [Callers -> TpReaderType]
    BY <1>1, <1>4
  <1>6. \A c \in Callers : TpReads(c)
    BY <1>1, <1>2, <1>4 DEF TpReads
  <1> QED BY <1>1, <1>2, <1>3, <1>4, <1>5, <1>6 DEF TpInv, CurrentSnapshotShown

\* A reader moves while the room stays as it is.
LEMMA TpReaderMoves ==
    ASSUME TpInv, UNCHANGED <<tpRows, tpCommits>>, NEW c \in Callers, NEW t \in TpReaderType,
           tpReader' = [tpReader EXCEPT ![c] = t],
           TpBehind(t.rows), t.begun <= tpCommits,
           t.begun = tpCommits => \A j \in 1 .. 4 : j < t.step => \A r \in Tables[j] : t.rows[r] = tpRows[r]
    PROVE  /\ tpCommits' \in 0 .. MaxTpWrites /\ TpSnap(tpRows)'
           /\ tpReader' \in [Callers -> TpReaderType] /\ \A d \in Callers : TpReads(d)'
           /\ \A rows : TpBehind(rows) => TpBehind(rows)'
  <1>1. tpCommits' = tpCommits /\ tpRows' = tpRows
    OBVIOUS
  <1>2. tpReader \in [Callers -> TpReaderType] /\ tpCommits \in 0 .. MaxTpWrites /\ TpSnap(tpRows)
    BY DEF TpInv
  <1>3. tpReader' \in [Callers -> TpReaderType]
    BY <1>2
  <1>4. \A rows : (TpBehind(rows) => TpBehind(rows)') /\ (TpSnap(rows) => TpSnap(rows)')
    BY <1>1 DEF TpBehind, TpSnap
  <1>5. TpSnap(tpRows)'
    BY <1>1, <1>2 DEF TpSnap
  <1>6. ASSUME NEW d \in Callers PROVE TpReads(d)'
    <2>1. CASE d = c
      <3>1. tpReader'[d] = t
        BY <1>2, <2>1
      <3>2. t.begun \in Nat /\ t.step \in 0 .. 5
        BY DEF TpReaderType
      <3>3. TpBehind(t.rows)'
        BY <1>1 DEF TpBehind, TpSnap
      <3> QED BY <1>1, <3>1, <3>2, <3>3 DEF TpReads
    <2>2. CASE d # c
      <3>1. tpReader'[d] = tpReader[d]
        BY <1>2, <2>2
      <3>2. TpReads(d)
        BY DEF TpInv
      <3>3. TpBehind(tpReader[d].rows)'
        BY <1>1, <3>1, <3>2 DEF TpBehind, TpSnap, TpReads
      <3> QED BY <1>1, <3>1, <3>2, <3>3 DEF TpReads
    <2> QED BY <2>1, <2>2
  <1> QED BY <1>1, <1>2, <1>3, <1>4, <1>5, <1>6

\* What the readers and the widget have stays behind a room that is written.
LEMMA TpWritten ==
    ASSUME TpInv, NEW q \in Rows, NEW st \in RowStatuses(q), NEW at \in 1 .. MaxTpStamp, TpCommit(q, st, at),
           UNCHANGED <<tpShown, tpSeq, tpRefused>>
    PROVE  /\ tpCommits' \in 0 .. MaxTpWrites /\ TpSnap(tpRows)' /\ TpBehind(tpShown)'
           /\ tpSeq' \in Nat /\ (tpSeq' = SequenceOf(tpShown)' \/ tpSeq' = 0)
           /\ tpRefused' \subseteq Nat /\ (\A b \in tpRefused' : b <= tpCommits') /\ CurrentSnapshotShown'
           /\ \A c \in Callers : \A rs : rs = tpReader[c].rows => TpBehind(rs)'
           /\ \A c \in Callers : tpReader[c].begun < tpCommits'
  <1>1. /\ tpCommits' \in 0 .. MaxTpWrites /\ TpSnap(tpRows)' /\ tpCommits' = tpCommits + 1
        /\ \A rows : TpBehind(rows) => TpBehind(rows)'
    BY TpRoomWritten
  <1>2. tpShown' = tpShown /\ tpSeq' = tpSeq /\ tpRefused' = tpRefused /\ tpCommits \in Nat
    BY DEF TpInv
  <1>3. TpBehind(tpShown)'
    <2>1. PICK sh : sh = tpShown
      OBVIOUS
    <2>2. TpBehind(sh)
      BY <2>1 DEF TpInv
    <2>3. TpBehind(sh)'
      BY <1>1, <2>2
    <2> QED BY <1>2, <2>1, <2>3 DEF TpBehind, TpSnap
  <1>4. tpSeq' \in Nat /\ (tpSeq' = SequenceOf(tpShown)' \/ tpSeq' = 0)
    BY <1>2 DEF TpInv, SequenceOf, LatestTimestamp, EntityCount
  <1>5. tpRefused' \subseteq Nat /\ (\A b \in tpRefused' : b <= tpCommits') /\ CurrentSnapshotShown'
    <2>1. tpRefused \subseteq Nat /\ \A b \in tpRefused : b <= tpCommits
      BY DEF TpInv
    <2>2. \A b \in tpRefused' : b \in Nat /\ b < tpCommits'
      BY <1>1, <1>2, <2>1
    <2>3. tpCommits' \notin tpRefused'
      BY <1>1, <1>2, <2>2
    <2> QED BY <1>1, <1>2, <2>1, <2>2, <2>3 DEF CurrentSnapshotShown
  <1>6. ASSUME NEW c \in Callers, NEW rs, rs = tpReader[c].rows
        PROVE  TpBehind(rs)' /\ tpReader[c].begun < tpCommits'
    <2>2. TpBehind(rs) /\ tpReader[c].begun \in Nat /\ tpReader[c].begun <= tpCommits
      BY <1>6 DEF TpInv, TpReads
    <2> QED BY <1>1, <1>2, <2>2
  <1> QED BY <1>1, <1>3, <1>4, <1>5, <1>6

\* Every step keeps the invariant.
LEMMA TpStepInv == TpInv /\ [TpNext]_tpVars => TpInv'
  <1> SUFFICES ASSUME TpInv, [TpNext]_tpVars PROVE TpInv'
    OBVIOUS
  <1>t. /\ tpCommits \in Nat /\ tpCommits \in 0 .. MaxTpWrites /\ TpSnap(tpRows)
        /\ tpReader \in [Callers -> TpReaderType] /\ TpBehind(tpShown)
        /\ tpSeq \in Nat /\ (tpSeq = SequenceOf(tpShown) \/ tpSeq = 0)
        /\ tpRefused \subseteq Nat /\ (\A b \in tpRefused : b <= tpCommits) /\ CurrentSnapshotShown
    BY DEF TpInv
  <1>r. \A c \in Callers : TpReads(c)
    BY DEF TpInv
  <1>z. /\ Resting \in TpReaderType /\ Resting.step = 0 /\ Resting.rows = Nothing
        /\ Resting.begun = 0 /\ Resting.again = FALSE /\ TpBehind(Nothing)
    BY TpResting
  \* The widget shows what it showed.
  <1>w. ASSUME UNCHANGED <<tpRows, tpCommits, tpShown, tpSeq, tpRefused>>
        PROVE  /\ TpBehind(tpShown)' /\ tpSeq' \in Nat /\ (tpSeq' = SequenceOf(tpShown)' \/ tpSeq' = 0)
               /\ tpRefused' \subseteq Nat /\ (\A b \in tpRefused' : b <= tpCommits') /\ CurrentSnapshotShown'
    <2>1. TpBehind(tpShown)'
      BY <1>t, <1>w DEF TpBehind, TpSnap
    <2>2. tpSeq' = SequenceOf(tpShown)' \/ tpSeq' = 0
      BY <1>t, <1>w DEF SequenceOf, LatestTimestamp, EntityCount
    <2>3. CurrentSnapshotShown'
      BY <1>t, <1>w DEF CurrentSnapshotShown
    <2> QED BY <1>t, <1>w, <2>1, <2>2, <2>3
  <1>1. ASSUME NEW r \in Rows, NEW at \in 1 .. MaxTpStamp, NEW st \in RowStatuses(r), TpWrite(r, st, at) PROVE TpInv'
    <2>1. /\ TpCommit(r, st, at) /\ tpReader' = tpReader
          /\ UNCHANGED <<tpShown, tpSeq, tpRefused>>
      BY <1>1 DEF TpWrite
    <2>2. /\ tpCommits' \in 0 .. MaxTpWrites /\ TpSnap(tpRows)' /\ TpBehind(tpShown)'
          /\ tpSeq' \in Nat /\ (tpSeq' = SequenceOf(tpShown)' \/ tpSeq' = 0)
          /\ tpRefused' \subseteq Nat /\ (\A b \in tpRefused' : b <= tpCommits') /\ CurrentSnapshotShown'
          /\ \A c \in Callers : \A rs : rs = tpReader[c].rows => TpBehind(rs)'
          /\ \A c \in Callers : tpReader[c].begun < tpCommits'
      BY <2>1, TpWritten
    <2>3. ASSUME NEW c \in Callers PROVE TpReads(c)'
      <3>1. PICK t : t = tpReader[c]
        OBVIOUS
      <3>2. TpBehind(t.rows)' /\ t.begun < tpCommits' /\ t.begun \in Nat /\ t.step \in 0 .. 5
        BY <2>2, <3>1, <1>t DEF TpReaderType
      <3>3. tpReader'[c] = t
        BY <2>1, <3>1
      <3>4. t.begun <= tpCommits' /\ t.begun # tpCommits'
        BY <2>2, <3>2
      <3> QED BY <3>2, <3>3, <3>4 DEF TpReads
    <2> QED BY <1>t, <2>1, <2>2, <2>3 DEF TpInv
  <1>2. ASSUME NEW c \in Callers, TpCall(c) PROVE TpInv'
    <2>1. PICK t : t = [Resting EXCEPT !.step = 1, !.begun = tpCommits]
      OBVIOUS
    <2>2. /\ tpReader' = [tpReader EXCEPT ![c] = t]
          /\ UNCHANGED <<tpRows, tpCommits, tpShown, tpSeq, tpRefused>>
      BY <1>2, <2>1 DEF TpCall
    <2>3. t \in TpReaderType /\ t.rows = Nothing /\ t.begun = tpCommits /\ t.step = 1
      BY <2>1, <1>t, TpBegins
    <2>4. /\ tpCommits' \in 0 .. MaxTpWrites /\ TpSnap(tpRows)'
          /\ tpReader' \in [Callers -> TpReaderType] /\ \A d \in Callers : TpReads(d)'
      <3>1. TpBehind(t.rows) /\ t.begun <= tpCommits /\ \A j \in 1 .. 4 : ~(j < t.step)
        BY <2>3, <1>z, <1>t
      <3> QED BY <2>2, <2>3, <3>1, TpReaderMoves
    <2> QED BY <1>w, <2>2, <2>4 DEF TpInv
  <1>3. ASSUME NEW c \in Callers, TpQuery(c) PROVE TpInv'
    <2>1. PICK o : o = tpReader[c]
      OBVIOUS
    <2>2. o \in TpReaderType /\ TpReads(c)
      BY <1>t, <1>r, <2>1
    <2>3. o.step \in 1 .. 4
      BY <1>3, <2>1, TpTables DEF TpQuery
    <2>4. PICK read : read = [r \in Rows |-> IF r \in Tables[o.step] THEN tpRows[r] ELSE o.rows[r]]
      OBVIOUS
    <2>5. PICK t : t = [o EXCEPT !.rows = read, !.step = o.step + 1]
      OBVIOUS
    <2>6. /\ tpReader' = [tpReader EXCEPT ![c] = t]
          /\ UNCHANGED <<tpRows, tpCommits, tpShown, tpSeq, tpRefused>>
      BY <1>3, <1>t, <2>1, <2>4, <2>5 DEF TpQuery
    <2>7. read \in [Rows -> TpRowType]
      BY <2>2, <2>4, <1>t DEF TpReaderType, TpSnap
    <2>8. t \in TpReaderType /\ t.rows = read /\ t.begun = o.begun /\ t.step = o.step + 1
      <3>1. t.rows = read /\ t.begun = o.begun /\ t.step = o.step + 1 /\ t.again = o.again
        BY <2>2, <2>5 DEF TpReaderType
      <3>2. o.step + 1 \in 0 .. 5
        BY <2>3
      <3>3. t = [step |-> o.step + 1, rows |-> read, begun |-> o.begun, again |-> o.again]
        BY <2>2, <2>5 DEF TpReaderType
      <3>4. o.begun \in Nat /\ o.again \in BOOLEAN
        BY <2>2 DEF TpReaderType
      <3> QED BY <2>7, <3>1, <3>2, <3>3, <3>4 DEF TpReaderType
    <2>9. TpBehind(t.rows)
      <3>1. TpBehind(o.rows)
        BY <2>1, <2>2 DEF TpReads
      <3>2. \A r \in Rows : read[r] = tpRows[r] \/ read[r] = o.rows[r]
        BY <2>4
      <3>4. \A r \in Rows : read[r].status \in RowStatuses(r) \cup {"absent"} /\ read[r].at <= MaxTpStamp
        BY <3>1, <3>2, <1>t DEF TpBehind, TpSnap
      <3>5. \A r \in Rows : read[r].status # "absent" => tpRows[r].status # "absent"
        BY <3>1, <3>2 DEF TpBehind
      <3>6. TpSnap(read)
        BY <2>7, <3>4 DEF TpSnap
      <3>7. TpBehind(read)
        BY <3>5, <3>6 DEF TpBehind
      <3> QED BY <2>8, <3>7
    <2>10. t.begun <= tpCommits
      BY <2>1, <2>2, <2>8 DEF TpReads
    <2>11. ASSUME t.begun = tpCommits, NEW j \in 1 .. 4, j < t.step, NEW r \in Tables[j]
           PROVE  t.rows[r] = tpRows[r]
      <3>1. r \in Rows
        <4>1. j = 1 \/ j = 2 \/ j = 3 \/ j = 4
          OBVIOUS
        <4> QED BY <2>11, <4>1, TpTables DEF Rows, Others
      <3>2. CASE j = o.step
        BY <2>4, <2>8, <2>11, <3>1, <3>2
      <3>3. CASE j # o.step
        <4>1. j < o.step
          BY <2>3, <2>8, <2>11, <3>3
        <4>2. o.rows[r] = tpRows[r]
          BY <2>1, <2>2, <2>8, <2>11, <4>1 DEF TpReads
        <4> QED BY <2>4, <2>8, <3>1, <4>2
      <3> QED BY <3>2, <3>3
    <2>12. /\ tpCommits' \in 0 .. MaxTpWrites /\ TpSnap(tpRows)'
           /\ tpReader' \in [Callers -> TpReaderType] /\ \A d \in Callers : TpReads(d)'
      BY <2>6, <2>8, <2>9, <2>10, <2>11, TpReaderMoves
    <2> QED BY <1>w, <2>6, <2>12 DEF TpInv
  \* A reader that is put back to rest
  <1>q. ASSUME NEW c \in Callers, UNCHANGED <<tpRows, tpCommits>>, tpReader' = [tpReader EXCEPT ![c] = Resting]
        PROVE  /\ tpCommits' \in 0 .. MaxTpWrites /\ TpSnap(tpRows)'
               /\ tpReader' \in [Callers -> TpReaderType] /\ \A d \in Callers : TpReads(d)'
    <2>1. PICK t : t = Resting
      OBVIOUS
    <2>2. t \in TpReaderType /\ TpBehind(t.rows) /\ t.begun <= tpCommits /\ \A j \in 1 .. 4 : ~(j < t.step)
      BY <2>1, <1>z, <1>t
    <2>3. tpReader' = [tpReader EXCEPT ![c] = t]
      BY <1>q, <2>1
    <2> QED BY <1>q, <2>2, <2>3, TpReaderMoves
  <1>4. ASSUME NEW c \in Callers, TpLost(c) PROVE TpInv'
    <2>1. /\ tpReader' = [tpReader EXCEPT ![c] = Resting]
          /\ UNCHANGED <<tpRows, tpCommits, tpShown, tpSeq, tpRefused>>
      BY <1>4 DEF TpLost
    <2> QED BY <1>q, <1>w, <2>1 DEF TpInv
  <1>5. ASSUME NEW c \in Callers, TpArrives(c) PROVE TpInv'
    <2>1. PICK o : o = tpReader[c]
      OBVIOUS
    <2>2. PICK n : n = SequenceOf(o.rows)
      OBVIOUS
    <2>3. /\ o.step = 5
          /\ IF n >= tpSeq THEN tpShown' = o.rows /\ tpSeq' = n ELSE UNCHANGED <<tpShown, tpSeq>>
          /\ tpRefused' = IF n >= tpSeq \/ o.rows = tpShown THEN {} ELSE {o.begun}
          /\ tpReader' = [tpReader EXCEPT ![c] = Resting]
          /\ UNCHANGED <<tpRows, tpCommits>>
      BY <1>5, <2>1, <2>2, TpTables DEF TpArrives, Projected, Accepts
    <2>4. TpBehind(o.rows) /\ o.begun \in Nat /\ o.begun <= tpCommits
      BY <1>r, <2>1 DEF TpReads
    <2>5. n \in Nat
      BY <2>2, <2>4, TpNumber DEF TpBehind
    <2>6. /\ tpCommits' \in 0 .. MaxTpWrites /\ TpSnap(tpRows)'
          /\ tpReader' \in [Callers -> TpReaderType] /\ \A d \in Callers : TpReads(d)'
      BY <1>q, <2>3
    \* A snapshot that nothing has been committed behind is not refused where
    \* no row's stamp is older than the one shown.
    <2>7. ASSUME o.begun = tpCommits, \A r \in Rows : ~(tpRows[r].at < tpShown[r].at)
          PROVE  n >= tpSeq
      <3>1. \A j \in 1 .. 4 : \A r \in Tables[j] : o.rows[r] = tpRows[r]
        <4>1. \A j \in 1 .. 4 : j < o.step
          BY <2>3
        <4> QED BY <1>r, <2>1, <2>7, <4>1 DEF TpReads
      <3>2. \A r \in Rows : o.rows[r] = tpRows[r]
        BY <3>1, TpTables
      <3>3. TpSnap(o.rows) /\ TpSnap(tpShown)
        BY <1>t, <2>4 DEF TpBehind
      <3>4. \A r \in Rows : /\ tpShown[r].at <= o.rows[r].at
                            /\ tpShown[r].status # "absent" => o.rows[r].status # "absent"
        <4>1. \A r \in Rows : tpRows[r].at \in Nat /\ tpShown[r].at \in Nat
          BY <1>t DEF TpBehind, TpSnap, TpRowType
        <4> QED BY <1>t, <2>7, <3>2, <4>1 DEF TpBehind
      <3>5. SequenceOf(tpShown) <= n /\ SequenceOf(tpShown) \in Nat
        <4>1. PICK sh, rs : sh = tpShown /\ rs = o.rows
          OBVIOUS
        <4>2. TpSnap(sh) /\ TpSnap(rs)
          BY <3>3, <4>1
        <4>3. \A r \in Rows : /\ sh[r].at <= rs[r].at
                              /\ sh[r].status # "absent" => rs[r].status # "absent"
          BY <3>4, <4>1
        <4>4. SequenceOf(sh) <= SequenceOf(rs)
          BY <4>2, <4>3, TpNumber
        <4>5. SequenceOf(sh) \in Nat
          BY <4>2, TpNumber
        <4> QED BY <2>2, <4>1, <4>4, <4>5
      <3> QED BY <1>t, <2>5, <3>5
    <2>8. CASE n >= tpSeq
      <3>1. tpShown' = o.rows /\ tpSeq' = n /\ tpRefused' = {}
        BY <2>3, <2>8
      <3>2. TpBehind(tpShown)'
        BY <2>3, <2>4, <3>1 DEF TpBehind, TpSnap
      <3>3. tpSeq' = SequenceOf(tpShown)'
        BY <2>2, <3>1 DEF SequenceOf, LatestTimestamp, EntityCount
      <3>4. CurrentSnapshotShown'
        BY <3>1 DEF CurrentSnapshotShown
      <3> QED BY <2>5, <2>6, <3>1, <3>2, <3>3, <3>4 DEF TpInv
    <2>9. CASE ~(n >= tpSeq)
      <3>1. UNCHANGED <<tpShown, tpSeq>> /\ tpRefused' \subseteq {o.begun}
        BY <2>3, <2>9
      <3>2. o.begun = tpCommits => \E r \in Rows : tpRows[r].at < tpShown[r].at
        BY <2>7, <2>9
      <3>3. TpBehind(tpShown)'
        BY <1>t, <2>3, <3>1 DEF TpBehind, TpSnap
      <3>4. tpSeq' \in Nat /\ (tpSeq' = SequenceOf(tpShown)' \/ tpSeq' = 0)
        BY <1>t, <3>1 DEF SequenceOf, LatestTimestamp, EntityCount
      <3>5. tpRefused' \subseteq Nat /\ \A b \in tpRefused' : b <= tpCommits'
        BY <2>3, <2>4, <3>1
      <3>6. CurrentSnapshotShown'
        <4>1. tpCommits' \in tpRefused' => o.begun = tpCommits
          BY <2>3, <3>1
        <4> QED BY <2>3, <3>1, <3>2, <4>1 DEF CurrentSnapshotShown
      <3> QED BY <2>6, <3>3, <3>4, <3>5, <3>6 DEF TpInv
    <2> QED BY <2>8, <2>9
  <1>6. CASE TpCancel
    <2>1. PICK t : t = [Resting EXCEPT !.step = 1, !.begun = tpCommits', !.again = TRUE]
      OBVIOUS
    <2>2. /\ "cancel" \in Callers /\ tpReader' = [tpReader EXCEPT !["cancel"] = t]
          /\ UNCHANGED <<tpShown, tpSeq, tpRefused>>
      BY <1>6, <2>1 DEF TpCancel
    <2>3. CASE UNCHANGED <<tpCommits, tpRows>>
      <3>1. t \in TpReaderType /\ t.rows = Nothing /\ t.begun = tpCommits /\ t.step = 1
        <4>1. t = [Resting EXCEPT !.step = 1, !.begun = tpCommits, !.again = TRUE]
          BY <2>1, <2>3
        <4> QED BY <4>1, <1>t, TpBegins
      <3>2. /\ tpCommits' \in 0 .. MaxTpWrites /\ TpSnap(tpRows)'
            /\ tpReader' \in [Callers -> TpReaderType] /\ \A d \in Callers : TpReads(d)'
        <4>1. TpBehind(t.rows) /\ t.begun <= tpCommits /\ \A j \in 1 .. 4 : ~(j < t.step)
          BY <3>1, <1>z, <1>t
        <4> QED BY <2>2, <2>3, <3>1, <4>1, TpReaderMoves
      <3> QED BY <1>w, <2>2, <2>3, <3>2 DEF TpInv
    <2>4. CASE ~UNCHANGED <<tpCommits, tpRows>>
      <3>1. PICK at \in 1 .. MaxTpStamp : TpCommit("session", "exited", at)
        BY <1>6, <2>4 DEF TpCancel
      <3>2. "session" \in Rows /\ "exited" \in RowStatuses("session")
        BY TpTables, TpRowStatuses
      <3>3. /\ tpCommits' \in 0 .. MaxTpWrites /\ TpSnap(tpRows)' /\ TpBehind(tpShown)'
            /\ tpSeq' \in Nat /\ (tpSeq' = SequenceOf(tpShown)' \/ tpSeq' = 0)
            /\ tpRefused' \subseteq Nat /\ (\A b \in tpRefused' : b <= tpCommits') /\ CurrentSnapshotShown'
            /\ \A c \in Callers : \A rs : rs = tpReader[c].rows => TpBehind(rs)'
            /\ \A c \in Callers : tpReader[c].begun < tpCommits'
        BY <2>2, <3>1, <3>2, TpWritten
      <3>4. tpCommits' \in Nat
        BY <3>3
      <3>5. t \in TpReaderType /\ t.rows = Nothing /\ t.begun = tpCommits' /\ t.step = 1
        BY <2>1, <3>4, TpBegins
      <3>6. TpBehind(Nothing)'
        <4>1. PICK no : no = Nothing
          OBVIOUS
        <4>2. TpBehind(no)'
          BY <1>z, <3>1, <3>2, <4>1, TpRoomWritten
        <4> QED BY <4>1, <4>2
      <3>7. ASSUME NEW c \in Callers PROVE TpReads(c)'
        <4>1. CASE c = "cancel"
          <5>1. tpReader'[c] = t
            BY <1>t, <2>2, <4>1
          <5>2. TpBehind(t.rows)'
            BY <3>5, <3>6
          <5>3. \A j \in 1 .. 4 : ~(j < t.step)
            BY <3>5
          <5> QED BY <3>4, <3>5, <5>1, <5>2, <5>3 DEF TpReads
        <4>2. CASE c # "cancel"
          <5>1. PICK o : o = tpReader[c]
            OBVIOUS
          <5>2. TpBehind(o.rows)' /\ o.begun < tpCommits' /\ o.begun \in Nat /\ o.step \in 0 .. 5
            BY <3>3, <5>1, <1>t DEF TpReaderType
          <5>3. tpReader'[c] = o
            BY <1>t, <2>2, <4>2, <5>1
          <5>4. o.begun <= tpCommits' /\ o.begun # tpCommits'
            BY <3>4, <5>2
          <5> QED BY <5>2, <5>3, <5>4 DEF TpReads
        <4> QED BY <4>1, <4>2
      <3>8. tpReader' \in [Callers -> TpReaderType]
        BY <1>t, <2>2, <3>5
      <3> QED BY <3>3, <3>7, <3>8 DEF TpInv
    <2> QED BY <2>3, <2>4
  <1>7. CASE UNCHANGED tpVars
    <2>1. /\ UNCHANGED <<tpRows, tpCommits, tpShown, tpSeq, tpRefused>> /\ tpReader' = tpReader
      BY <1>7 DEF tpVars
    <2>2. \A c \in Callers : TpReads(c)'
      BY <1>r, <2>1 DEF TpReads, TpBehind, TpSnap
    <2>3. TpSnap(tpRows)'
      BY <1>t, <2>1 DEF TpSnap
    <2> QED BY <1>t, <1>w, <2>1, <2>2, <2>3 DEF TpInv
  <1> QED BY <1>1, <1>2, <1>3, <1>4, <1>5, <1>6, <1>7 DEF TpNext

\* From the invariant: the types, and what the view shows is sound.
LEMMA TpInvSound == TpInv => ProgressSound /\ TpTypeOK
  <1> SUFFICES ASSUME TpInv PROVE ProgressSound /\ TpTypeOK
    OBVIOUS
  <1>1. TpSnap(tpRows) /\ TpSnap(tpShown) /\ tpCommits \in 0 .. MaxTpWrites
    BY DEF TpInv, TpBehind
  <1>2. FinalStatusIsHonest
    BY <1>1, TpHonest DEF FinalStatusIsHonest
  <1>3. CurrentSnapshotShown
    BY DEF TpInv
  <1>4. \A rows : TpSnap(rows) => TpRowsOK(rows)
    BY DEF TpSnap, TpRowsOK, TpRowType
  <1>5. \A c \in Callers : TpRowsOK(tpReader[c].rows) /\ tpReader[c].step \in 0 .. Len(Tables) + 1
    <2> SUFFICES ASSUME NEW c \in Callers
                 PROVE  TpRowsOK(tpReader[c].rows) /\ tpReader[c].step \in 0 .. Len(Tables) + 1
      OBVIOUS
    <2>1. TpSnap(tpReader[c].rows) /\ tpReader[c].step \in 0 .. 5
      BY DEF TpInv, TpReads, TpBehind
    <2>2. Len(Tables) = 4
      BY TpTables
    <2> QED BY <1>4, <2>1, <2>2
  <1>6. tpSeq \in Nat /\ tpRefused \subseteq 0 .. MaxTpWrites
    <2>1. tpSeq \in Nat /\ MaxTpWrites \in Nat /\ tpCommits \in Nat /\ tpCommits <= MaxTpWrites
      BY TpAssumption DEF TpInv
    <2>2. \A b \in tpRefused : b \in Nat /\ b <= tpCommits
      BY DEF TpInv
    <2> QED BY <2>1, <2>2
  <1> QED BY <1>1, <1>2, <1>3, <1>4, <1>5, <1>6 DEF ProgressSound, TpTypeOK

\* The Task Progress view (task_progress.py, acceptSnapshot of the widget): a
\* snapshot begun after the last commit is refused for its number only when
\* the stamp of a shown row went back, in whatever order answers arrive, and a
\* final status hides no work.
THEOREM ProgressCorrect == TpSpec => []ProgressSound
  <1>1. TpInit => TpInv
    BY TpInitInv
  <1>2. TpInv /\ [TpNext]_tpVars => TpInv'
    BY TpStepInv
  <1>3. TpInv => ProgressSound
    BY TpInvSound
  <1> QED BY <1>1, <1>2, <1>3, PTL DEF TpSpec

-----------------------------------------------------------------------------
(* Readiness of the process (Readiness)                                    *)

RdProbeType == [step : {"idle", "probing", "answered"}, valid : BOOLEAN, ready : BOOLEAN, since : 0 .. RdMaxTime]

\* Times of the past, and how old a check may be while its snapshot is on the
\* way and when it is the snapshot.
RdTimes ==
    /\ rdPhase = "starting" => rdStep <= 7
    /\ rdVerified <= rdNow /\ rdCache["readiness"] <= rdNow
    /\ Stamping => rdVerified # -1 /\ rdNow - rdVerified <= RdLag
    /\ rdCache["readiness"] # -1 => rdVerified # -1 /\ rdCache["readiness"] - rdVerified <= RdLag

\* What a /ready handler carries over its wait for the database.
RdCarries(h) ==
    /\ rdProbe[h].since <= rdNow
    /\ rdProbe[h].step = "probing" /\ rdProbe[h].valid =>
          /\ rdStep = 8 /\ rdVerified # -1
          /\ rdProbe[h].since - rdVerified <= RdMaxStale + RdLag
          /\ rdNow - rdProbe[h].since <= RdProbeTime
    /\ rdProbe[h].step = "answered" /\ rdProbe[h].ready =>
          /\ rdStep = 8
          /\ rdVerified # -1 /\ rdNow - rdVerified <= RdMaxStale + RdProbeTime + RdLag

\* What runs, part by part: each needs the one started before it, and the
\* finally block has passed the parts it has stopped.
RdChain(up) ==
    /\ "research" \in up => "metrics" \in up
    /\ "metrics" \in up => "readiness" \in up
    /\ "readiness" \in up => "runtime" \in up

RdRuns ==
    /\ RdChain(rdUp) /\ rdUp \subseteq Parts
    /\ "research" \in rdUp => rdStep >= 8
    /\ "metrics" \in rdUp => rdStep >= 7
    /\ "readiness" \in rdUp => rdStep >= 6
    /\ "runtime" \in rdUp => rdStep >= 5 \/ rdPhase = "failed"
    /\ rdPhase = "starting" => /\ rdStop = 0 /\ (rdStep >= 7 => "metrics" \in rdUp)
                               /\ (rdStep >= 6 => "readiness" \in rdUp) /\ (rdStep >= 5 => "runtime" \in rdUp)
    /\ rdPhase \in {"ready", "stopped"} => rdStep = 8
    /\ rdPhase = "stopped" => rdUp = {} /\ rdStop = 7
    /\ rdStop \in 2 .. 6 => "research" \notin rdUp
    /\ rdStop \in 3 .. 6 => "metrics" \notin rdUp
    /\ rdStop \in 4 .. 6 => "readiness" \notin rdUp
    /\ rdStop = 6 => "runtime" \notin rdUp \/ rdPhase = "failed"

RdInv == RdTypeOK /\ RdTimes /\ RdRuns /\ \A h \in RdProbes : RdCarries(h)

\* The seven steps of the start and the six of the end.
LEMMA RdOrders ==
    /\ Len(Starts) = 7 /\ Starts[1] = "schema" /\ Starts[2] = "cold_history" /\ Starts[3] = "seed"
    /\ Starts[4] = "runtime" /\ Starts[5] = "readiness" /\ Starts[6] = "metrics" /\ Starts[7] = "research"
    /\ Len(StopOrder) = 6 /\ Over = 7
    /\ StopOrder[1] = "research" /\ StopOrder[2] = "metrics" /\ StopOrder[3] = "readiness"
    /\ StopOrder[4] = "manager" /\ StopOrder[5] = "runtime" /\ StopOrder[6] = "history"
  <1>1. /\ StopOrder[1] = "research" /\ StopOrder[2] = "metrics" /\ StopOrder[3] = "readiness"
        /\ StopOrder[4] = "manager" /\ StopOrder[5] = "runtime" /\ StopOrder[6] = "history" /\ Len(StopOrder) = 6
    BY DEF StopOrder
  <1>2. /\ Len(Starts) = 7 /\ Starts[1] = "schema" /\ Starts[2] = "cold_history" /\ Starts[3] = "seed"
        /\ Starts[4] = "runtime" /\ Starts[5] = "readiness" /\ Starts[6] = "metrics" /\ Starts[7] = "research"
    BY DEF Starts
  <1> QED BY <1>1, <1>2 DEF Over

\* The started flags, by the step the start has reached.
LEMMA RdFlags ==
    ASSUME rdStep \in 1 .. 8
    PROVE  /\ "research" \in Started <=> rdStep >= 8
           /\ "metrics" \in Started <=> rdStep >= 7
           /\ "readiness" \in Started <=> rdStep >= 6
           /\ "runtime" \in Started <=> rdStep >= 5
  <1>1. \A i \in 1 .. rdStep - 1 : i \in {1, 2, 3, 4, 5, 6, 7} /\ i < rdStep
    OBVIOUS
  <1>2. \A i \in {1, 2, 3, 4, 5, 6, 7} : i < rdStep => i \in 1 .. rdStep - 1
    OBVIOUS
  <1>3. \A x : x \in Started <=> \E i \in 1 .. rdStep - 1 : Starts[i] = x
    BY DEF Started
  <1>4. \A x : x \in Started <=> \E i \in {1, 2, 3, 4, 5, 6, 7} : i < rdStep /\ Starts[i] = x
    BY <1>1, <1>2, <1>3
  <1> QED BY <1>4, RdOrders

\* The process starts with nothing verified and nobody asking.
LEMMA RdInitInv == RdInit => RdInv
  <1> SUFFICES ASSUME RdInit PROVE RdInv
    OBVIOUS
  <1>1. NoProbe \in RdProbeType /\ NoProbe.step = "idle" /\ NoProbe.since = 0
    BY RdAssumption DEF NoProbe, RdProbeType
  <1>2. RdTypeOK
    BY <1>1, RdAssumption, RdOrders DEF RdInit, RdTypeOK, RdProbeType, Caches
  <1>3. RdTimes
    BY RdOrders DEF RdInit, RdTimes, Stamping, Caches
  <1>4. ASSUME NEW h \in RdProbes PROVE RdCarries(h)
    BY <1>1 DEF RdInit, RdCarries
  <1>5. RdRuns
    BY DEF RdInit, RdRuns, RdChain
  <1> QED BY <1>2, <1>3, <1>4, <1>5 DEF RdInv

\* Every step keeps the invariant.
LEMMA RdStepInv == RdInv /\ [RdNext]_rdVars => RdInv'
  <1> SUFFICES ASSUME RdInv, [RdNext]_rdVars PROVE RdInv'
    OBVIOUS
  <1>t. /\ rdPhase \in {"starting", "ready", "failed", "stopped"} /\ rdStop \in 0 .. 7
        /\ rdStep \in 1 .. 8 /\ rdUp \subseteq Parts /\ rdSchema \in BOOLEAN
        /\ rdCache \in [Caches -> -1 .. RdMaxTime]
        /\ rdThread \in [Caches -> {"idle", "reading", "done"}]
        /\ rdVerified \in -1 .. RdMaxTime /\ rdProbe \in [RdProbes -> RdProbeType]
        /\ rdNow \in 0 .. RdMaxTime
    BY RdOrders DEF RdInv, RdTypeOK, RdProbeType
  <1>n. /\ rdNow \in Int /\ rdVerified \in Int /\ RdMaxStale \in Int /\ RdLag \in Int /\ RdProbeTime \in Int
        /\ rdCache["readiness"] \in Int /\ "readiness" \in Caches /\ 0 <= rdNow /\ rdNow <= RdMaxTime
        /\ rdStep \in Int /\ RdMaxTime \in Int /\ 0 <= RdMaxStale /\ 0 <= RdLag /\ 0 <= RdProbeTime
    BY <1>t, RdAssumption DEF Caches
  <1>p. \A h \in RdProbes : rdProbe[h] \in RdProbeType /\ rdProbe[h].since \in Int
    BY <1>t, RdAssumption DEF RdProbeType
  <1>h. RdTimes /\ RdRuns /\ \A h \in RdProbes : RdCarries(h)
    BY DEF RdInv
  <1>ty. RdTypeOK' <=> /\ rdPhase' \in {"starting", "ready", "failed", "stopped"} /\ rdStop' \in 0 .. 7
                       /\ rdStep' \in 1 .. 8 /\ rdUp' \subseteq Parts /\ rdSchema' \in BOOLEAN
                       /\ rdCache' \in [Caches -> -1 .. RdMaxTime]
                       /\ rdThread' \in [Caches -> {"idle", "reading", "done"}]
                       /\ rdVerified' \in -1 .. RdMaxTime /\ rdProbe' \in [RdProbes -> RdProbeType]
                       /\ rdNow' \in 0 .. RdMaxTime
    BY RdOrders DEF RdTypeOK, RdProbeType
  \* A handler that stays put is not hurt by what only moves forward.
  <1>c. ASSUME rdProbe' = rdProbe, rdNow' = rdNow, rdVerified' = rdVerified \/ rdVerified' = rdNow,
               rdStep = 8 => rdStep' = 8
        PROVE  \A h \in RdProbes : RdCarries(h)'
    BY <1>c, <1>h, <1>n, <1>p DEF RdCarries
  \* What runs is not touched by a step of a cache, of a handler or of the clock.
  <1>q. ASSUME UNCHANGED <<rdPhase, rdStep, rdStop, rdUp>> PROVE RdRuns'
    BY <1>q, <1>h DEF RdRuns
  <1>u. CASE UNCHANGED rdVars
    BY <1>u DEF RdInv, rdVars, RdTypeOK, RdTimes, Stamping, RdRuns, RdCarries
  <1>1. CASE StartStep
    <2>1. /\ rdPhase = "starting" /\ rdStep <= 7 /\ rdStep' = rdStep + 1
          /\ (rdPhase' = IF rdStep = 7 THEN "ready" ELSE rdPhase)
          /\ UNCHANGED <<rdStop, rdSchema, rdThread, rdProbe, rdNow>>
      BY <1>1, RdOrders DEF StartStep
    <2>2. PICK s : s = Starts[rdStep]
      OBVIOUS
    <2>3. /\ (rdUp' = IF s \in Parts THEN rdUp \cup {s} ELSE rdUp)
          /\ (rdVerified' = IF s = "schema" THEN rdNow ELSE rdVerified)
          /\ (rdCache' = IF s = "seed" THEN [rdCache EXCEPT !["readiness"] = rdNow] ELSE rdCache)
      BY <1>1, <2>2 DEF StartStep
    <2>4. rdStep \in 1 .. 7 /\ rdStep' \in 2 .. 8
      BY <2>1, <1>t
    <2>5. RdTypeOK'
      BY <1>ty, <1>t, <1>n, <2>1, <2>3, <2>4
    <2>6. rdVerified' = rdVerified \/ rdVerified' = rdNow
      BY <2>3
    <2>7. \A h \in RdProbes : RdCarries(h)'
      BY <2>1, <2>6, <1>c, <1>n
    <2>8. s = "schema" <=> rdStep = 1
      BY <2>2, <2>4, RdOrders
    <2>9. s = "seed" <=> rdStep = 3
      BY <2>2, <2>4, RdOrders
    <2>10. rdPhase' = "starting" /\ Starts[rdStep'] \in {"cold_history", "seed"} => rdStep' = 2 \/ rdStep' = 3
      <3>1. PICK n \in 2 .. 8 : n = rdStep'
        BY <2>4
      <3>2. n = 2 \/ n = 3 \/ n = 4 \/ n = 5 \/ n = 6 \/ n = 7 \/ n = 8
        BY <3>1
      <3>3. rdPhase' = "starting" => n # 8
        BY <3>1, <2>1, <2>4
      <3> QED BY <3>1, <3>2, <3>3, RdOrders
    <2>11. rdStep \in {2, 3} => Stamping
      BY <2>1, RdOrders DEF Stamping
    <2>12. Stamping' => rdVerified' # -1 /\ rdNow' - rdVerified' <= RdLag
      <3>1. CASE rdThread["readiness"] = "done"
        BY <3>1, <2>1, <2>3, <1>h, <1>n DEF Stamping, RdTimes
      <3>2. CASE rdThread["readiness"] # "done" /\ rdStep = 1
        BY <3>2, <2>1, <2>3, <2>8, <1>n
      <3>3. CASE rdThread["readiness"] # "done" /\ rdStep = 2
        BY <3>3, <2>1, <2>3, <2>8, <2>11, <1>h, <1>n DEF RdTimes
      <3>4. CASE rdThread["readiness"] # "done" /\ rdStep \notin {1, 2}
        BY <3>4, <2>1, <2>4, <2>10, <1>n DEF Stamping
      <3> QED BY <3>1, <3>2, <3>3, <3>4
    <2>13. rdCache'["readiness"] <= rdNow /\ rdVerified' <= rdNow
           /\ (rdCache'["readiness"] # -1 => rdVerified' # -1 /\ rdCache'["readiness"] - rdVerified' <= RdLag)
      <3>1. CASE rdStep = 3
        BY <3>1, <2>3, <2>8, <2>9, <2>11, <1>h, <1>n, <1>t DEF RdTimes
      <3>2. CASE rdStep # 3
        BY <3>2, <2>3, <2>9, <1>h, <1>n DEF RdTimes
      <3> QED BY <3>1, <3>2
    <2>14. RdTimes'
      <3>1. rdPhase' = "starting" => rdStep' <= 7
        BY <2>1, <2>4
      <3> QED BY <3>1, <2>1, <2>12, <2>13 DEF RdTimes
    <2>15. RdRuns'
      <3>1. /\ rdStep <= 3 => rdUp' = rdUp
            /\ rdStep = 4 => rdUp' = rdUp \cup {"runtime"}
            /\ rdStep = 5 => rdUp' = rdUp \cup {"readiness"}
            /\ rdStep = 6 => rdUp' = rdUp \cup {"metrics"}
            /\ rdStep = 7 => rdUp' = rdUp \cup {"research"}
        <4>1. rdStep <= 3 => s \notin Parts
          BY <2>2, <2>4, RdOrders DEF Parts
        <4> QED BY <4>1, <2>2, <2>3, <2>4, RdOrders DEF Parts
      <3>2. rdUp' \subseteq Parts
        BY <2>3, <1>t
      <3> QED BY <3>1, <3>2, <2>1, <2>4, <1>h DEF RdRuns, RdChain
    <2> QED BY <2>5, <2>7, <2>14, <2>15 DEF RdInv
  <1>2. CASE StartFails \/ Shutdown
    <2>1. /\ rdPhase' \in {"failed", "ready"} /\ (rdPhase' = "ready" => rdPhase = "ready") /\ rdStop' = 1
          /\ rdPhase \in {"starting", "ready"} /\ UNCHANGED <<rdStep, rdSchema, rdCache, rdThread, rdVerified, rdProbe, rdNow>>
          /\ (rdUp' = rdUp \/ (rdUp' = rdUp \cup {"runtime"} /\ Starts[rdStep] = "runtime" /\ rdPhase' = "failed"))
      BY <1>2 DEF StartFails, Shutdown
    <2>p. rdUp' \subseteq Parts
      BY <1>t, <2>1 DEF Parts
    <2>2. RdTypeOK'
      <3>1. rdStop' \in 0 .. 7 /\ rdPhase' \in {"starting", "ready", "failed", "stopped"}
        BY <2>1
      <3> QED BY <1>ty, <1>t, <2>1, <2>p, <3>1
    <2>3. \A h \in RdProbes : RdCarries(h)'
      BY <2>1, <1>c
    <2>4. RdTimes'
      BY <2>1, <1>h DEF RdTimes, Stamping
    <2>5. RdRuns'
      <3>1. RdChain(rdUp')
        BY <2>1, <1>h DEF RdRuns, RdChain
      <3>2. /\ rdStop' = 1 /\ rdStep' = rdStep /\ rdPhase' # "starting" /\ rdPhase' # "stopped"
            /\ (rdPhase' = "ready" => rdStep = 8)
        BY <2>1, <1>h DEF RdRuns
      <3>3. /\ "research" \in rdUp' => rdStep >= 8
            /\ "metrics" \in rdUp' => rdStep >= 7
            /\ "readiness" \in rdUp' => rdStep >= 6
            /\ "runtime" \in rdUp' => rdStep >= 5 \/ rdPhase' = "failed"
        BY <2>1, <1>h DEF RdRuns
      <3> QED BY <2>p, <3>1, <3>2, <3>3 DEF RdRuns
    <2> QED BY <2>2, <2>3, <2>4, <2>5 DEF RdInv
  <1>3. CASE StopPart \/ StopFails
    <2>1. /\ rdStop \in 1 .. 6 /\ UNCHANGED <<rdStep, rdSchema, rdCache, rdThread, rdVerified, rdProbe, rdNow>>
          /\ rdUp' \subseteq rdUp /\ rdStop' \in 1 .. 7
      BY <1>3, RdOrders DEF StopPart, StopFails
    <2>2. rdPhase # "starting"
      BY <2>1, <1>h DEF RdRuns
    <2>3. /\ rdPhase' = rdPhase \/ (rdPhase' = "stopped" /\ rdPhase # "failed" /\ StopPart /\ rdStop = 6)
      BY <1>3, <2>1, RdOrders DEF StopPart, StopFails
    <2>4. RdTypeOK'
      BY <1>ty, <1>t, <2>1, <2>3
    <2>5. \A h \in RdProbes : RdCarries(h)'
      BY <2>1, <1>c
    <2>6. RdTimes'
      BY <2>1, <2>2, <2>3, <1>h DEF RdTimes, Stamping
    <2>7. PICK s : s = StopOrder[rdStop]
      OBVIOUS
    <2>8. /\ s = "research" <=> rdStop = 1
          /\ s = "metrics" <=> rdStop = 2
          /\ s = "readiness" <=> rdStop = 3
          /\ s = "runtime" <=> rdStop = 5
      <3>1. PICK n \in 1 .. 6 : n = rdStop
        BY <2>1
      <3>2. n = 1 \/ n = 2 \/ n = 3 \/ n = 4 \/ n = 5 \/ n = 6
        OBVIOUS
      <3> QED BY <2>7, <3>1, <3>2, RdOrders
    \* Only the part whose turn it is leaves.
    <2>9. \A p : p \in rdUp /\ p # s => p \in rdUp'
      BY <1>3, <2>7 DEF StopPart, StopFails
    <2>10. RdChain(rdUp')
      BY <2>1, <2>8, <2>9, <1>h, <1>n DEF RdChain, RdRuns
    <2>11. CASE StopPart
      <3>1. rdStop' = rdStop + 1 /\ (s \in Started => s \notin rdUp')
        BY <2>7, <2>11 DEF StopPart
      <3>2. /\ "research" \in rdUp => "research" \in Started
            /\ "metrics" \in rdUp => "metrics" \in Started
            /\ "readiness" \in rdUp => "readiness" \in Started
            /\ "runtime" \in rdUp => "runtime" \in Started \/ rdPhase = "failed"
        BY <1>h, <1>t, RdFlags DEF RdRuns
      <3>3. /\ rdStop' \in 2 .. 6 => "research" \notin rdUp'
            /\ rdStop' \in 3 .. 6 => "metrics" \notin rdUp'
            /\ rdStop' \in 4 .. 6 => "readiness" \notin rdUp'
            /\ rdStop' = 6 => "runtime" \notin rdUp' \/ rdPhase = "failed"
        BY <2>1, <2>8, <3>1, <3>2, <1>h DEF RdRuns
      <3>4. rdPhase' = "stopped" /\ rdPhase # "stopped" => rdUp' = {} /\ rdStop' = 7
        BY <2>1, <2>3, <3>1, <1>h, <1>n DEF RdRuns, Parts
      <3>5. rdPhase # "stopped"
        BY <2>1, <1>h, <1>n DEF RdRuns
      <3>6. rdPhase' \in {"ready", "stopped"} => rdStep = 8
        BY <2>2, <2>3, <1>h, <1>t DEF RdRuns
      <3>7. /\ "research" \in rdUp' => rdStep >= 8
            /\ "metrics" \in rdUp' => rdStep >= 7
            /\ "readiness" \in rdUp' => rdStep >= 6
            /\ "runtime" \in rdUp' => rdStep >= 5 \/ rdPhase' = "failed"
        BY <2>1, <2>3, <1>h DEF RdRuns
      <3>8. rdUp' \subseteq Parts /\ rdPhase' # "starting" /\ rdStep' = rdStep
        BY <2>1, <2>2, <2>3, <1>t
      <3>9. /\ rdStop' = 6 => "runtime" \notin rdUp' \/ rdPhase' = "failed"
            /\ rdPhase' = "stopped" => rdUp' = {} /\ rdStop' = 7
        BY <2>3, <3>3, <3>4, <3>5
      <3>10. RdRuns'
        BY <2>10, <3>3, <3>6, <3>7, <3>8, <3>9 DEF RdRuns
      <3> QED BY <2>4, <2>5, <2>6, <3>10 DEF RdInv
    <2>12. CASE StopFails
      <3>1. rdStop' = 7 /\ rdPhase' = rdPhase
        BY <2>12, RdOrders DEF StopFails
      <3>2. rdPhase # "stopped"
        BY <2>1, <1>h, <1>n DEF RdRuns
      <3>3. RdRuns'
        BY <2>1, <2>2, <2>10, <3>1, <3>2, <1>h DEF RdRuns
      <3> QED BY <2>4, <2>5, <2>6, <3>3 DEF RdInv
    <2> QED BY <1>3, <2>11, <2>12
  <1>5. ASSUME NEW k \in Caches, RefreshBegins(k) PROVE RdInv'
    <2>1. /\ rdThread' = [rdThread EXCEPT ![k] = "reading"]
          /\ UNCHANGED <<rdPhase, rdStep, rdStop, rdUp, rdSchema, rdCache, rdVerified, rdProbe, rdNow>>
      BY <1>5 DEF RefreshBegins
    <2>2. RdTypeOK'
      BY <1>ty, <1>t, <2>1
    <2>3. \A h \in RdProbes : RdCarries(h)'
      BY <2>1, <1>c
    <2>4. Stamping' => Stamping
      BY <2>1, <1>t, <1>n DEF Stamping
    <2>5. RdTimes'
      BY <2>1, <2>4, <1>h DEF RdTimes
    <2>q. RdRuns'
      BY <2>1, <1>q
    <2> QED BY <2>q, <2>2, <2>3, <2>5 DEF RdInv
  <1>6. ASSUME NEW k \in Caches, RefreshFails(k) PROVE RdInv'
    <2>1. /\ rdThread' = [rdThread EXCEPT ![k] = "idle"]
          /\ UNCHANGED <<rdPhase, rdStep, rdStop, rdUp, rdSchema, rdCache, rdVerified, rdProbe, rdNow>>
      BY <1>6 DEF RefreshFails, AfterRefreshFailure
    <2>2. RdTypeOK'
      BY <1>ty, <1>t, <2>1
    <2>3. \A h \in RdProbes : RdCarries(h)'
      BY <2>1, <1>c
    <2>4. Stamping' => Stamping
      BY <2>1, <1>t, <1>n DEF Stamping
    <2>5. RdTimes'
      BY <2>1, <2>4, <1>h DEF RdTimes
    <2>q. RdRuns'
      BY <2>1, <1>q
    <2> QED BY <2>q, <2>2, <2>3, <2>5 DEF RdInv
  <1>7. ASSUME NEW k \in Caches, RefreshSucceeds(k) PROVE RdInv'
    <2>1. /\ rdThread' = [rdThread EXCEPT ![k] = "idle"] /\ rdCache' = [rdCache EXCEPT ![k] = rdNow]
          /\ (k = "readiness" => rdThread["readiness"] = "done")
          /\ UNCHANGED <<rdPhase, rdStep, rdStop, rdUp, rdSchema, rdVerified, rdProbe, rdNow>>
      BY <1>7 DEF RefreshSucceeds
    <2>2. RdTypeOK'
      BY <1>ty, <1>t, <1>n, <2>1
    <2>3. \A h \in RdProbes : RdCarries(h)'
      BY <2>1, <1>c
    <2>4. Stamping' => Stamping
      BY <2>1, <1>t, <1>n DEF Stamping
    <2>5. CASE k = "readiness"
      <3>1. Stamping /\ rdCache'["readiness"] = rdNow
        BY <2>1, <2>5, <1>n, <1>t DEF Stamping
      <3>2. RdTimes'
        BY <3>1, <2>1, <2>4, <1>h, <1>n DEF RdTimes
      <3>3. RdRuns'
        BY <2>1, <1>q
      <3> QED BY <2>2, <2>3, <3>2, <3>3 DEF RdInv
    <2>6. CASE k # "readiness"
      <3>1. rdCache'["readiness"] = rdCache["readiness"]
        BY <2>1, <2>6, <1>n, <1>t
      <3>2. RdTimes'
        BY <3>1, <2>1, <2>4, <1>h DEF RdTimes
      <3>3. RdRuns'
        BY <2>1, <1>q
      <3> QED BY <2>2, <2>3, <3>2, <3>3 DEF RdInv
    <2> QED BY <2>5, <2>6
  <1>8. CASE SchemaValidated
    <2>1. /\ rdThread' = [rdThread EXCEPT !["readiness"] = "done"] /\ rdVerified' = rdNow
          /\ UNCHANGED <<rdPhase, rdStep, rdStop, rdUp, rdSchema, rdCache, rdProbe, rdNow>>
      BY <1>8 DEF SchemaValidated
    <2>2. RdTypeOK'
      BY <1>ty, <1>t, <1>n, <2>1
    <2>3. \A h \in RdProbes : RdCarries(h)'
      BY <2>1, <1>c
    <2>5. RdTimes'
      BY <2>1, <1>h, <1>n DEF RdTimes
    <2>q. RdRuns'
      BY <2>1, <1>q
    <2> QED BY <2>q, <2>2, <2>3, <2>5 DEF RdInv
  <1>9. CASE SchemaChanges
    <2>1. /\ rdSchema' = ~rdSchema
          /\ UNCHANGED <<rdPhase, rdStep, rdStop, rdUp, rdCache, rdThread, rdVerified, rdProbe, rdNow>>
      BY <1>9 DEF SchemaChanges
    <2>s. rdSchema' \in BOOLEAN
      BY <2>1
    <2>2. RdTypeOK'
      BY <1>ty, <1>t, <2>1, <2>s
    <2>3. \A h \in RdProbes : RdCarries(h)'
      BY <2>1, <1>c
    <2>5. RdTimes'
      BY <2>1, <1>h DEF RdTimes, Stamping
    <2>q. RdRuns'
      BY <2>1, <1>q
    <2> QED BY <2>q, <2>2, <2>3, <2>5 DEF RdInv
  <1>10. CASE RdTick
    <2>1. /\ rdNow < RdMaxTime /\ (Stamping => rdNow - rdVerified < RdLag) /\ rdNow' = rdNow + 1
          /\ UNCHANGED <<rdPhase, rdStep, rdStop, rdUp, rdSchema, rdCache, rdThread, rdVerified, rdProbe>>
          /\ \A h \in RdProbes : /\ rdProbe[h].step # "answered"
                                 /\ rdProbe[h].step = "idle" \/ rdNow - rdProbe[h].since < RdProbeTime
      BY <1>10 DEF RdTick
    <2>2. RdTypeOK'
      <3>1. rdNow' \in 0 .. RdMaxTime
        BY <2>1, <1>n
      <3> QED BY <1>ty, <1>t, <2>1, <3>1
    <2>3. ASSUME NEW h \in RdProbes PROVE RdCarries(h)'
      BY <2>1, <1>h, <1>n, <1>p DEF RdCarries
    <2>5. RdTimes'
      <3>1. Stamping' => Stamping
        BY <2>1 DEF Stamping
      <3> QED BY <3>1, <2>1, <1>h, <1>n DEF RdTimes
    <2>q. RdRuns'
      BY <2>1, <1>q
    <2> QED BY <2>q, <2>2, <2>3, <2>5 DEF RdInv
  \* A step of one handler.
  <1>k. ASSUME NEW h \in RdProbes, NEW x \in RdProbeType, rdProbe' = [rdProbe EXCEPT ![h] = x],
               UNCHANGED <<rdPhase, rdStep, rdStop, rdUp, rdSchema, rdCache, rdThread, rdVerified, rdNow>>,
               rdProbe'[h] = x => RdCarries(h)'
        PROVE  RdInv'
    <2>1. rdProbe' \in [RdProbes -> RdProbeType] /\ rdProbe'[h] = x
          /\ \A g \in RdProbes : g # h => rdProbe'[g] = rdProbe[g]
      BY <1>k, <1>t
    <2>2. RdTypeOK'
      BY <1>ty, <1>t, <1>k, <2>1
    <2>3. ASSUME NEW g \in RdProbes PROVE RdCarries(g)'
      BY <2>1, <1>k, <1>h DEF RdCarries
    <2>4. RdTimes'
      BY <1>k, <1>h DEF RdTimes, Stamping
    <2>5. RdRuns'
      BY <1>k, <1>q
    <2> QED BY <2>2, <2>3, <2>4, <2>5 DEF RdInv
  <1>11. ASSUME NEW h \in RdProbes, ProbeBegins(h) PROVE RdInv'
    <2>1. PICK v \in BOOLEAN : v <=> Valid
      OBVIOUS
    <2>e. v = Valid
      BY <2>1, Zenon DEF Valid, Stale
    <2>2. PICK x : x = [step |-> "probing", valid |-> v, ready |-> FALSE, since |-> rdNow]
      OBVIOUS
    <2>3. x \in RdProbeType /\ x.step = "probing" /\ x.valid = v /\ x.since = rdNow
      BY <2>1, <2>2, <1>t DEF RdProbeType
    <2>4. /\ rdProbe' = [rdProbe EXCEPT ![h] = x]
          /\ UNCHANGED <<rdPhase, rdStep, rdStop, rdUp, rdSchema, rdCache, rdThread, rdVerified, rdNow>>
      BY <1>11, <2>e, <2>2 DEF ProbeBegins
    <2>5. v => /\ rdStep = 8 /\ rdVerified # -1 /\ rdNow - rdVerified <= RdMaxStale + RdLag
      <3> SUFFICES ASSUME v PROVE /\ rdStep = 8 /\ rdVerified # -1
                                  /\ rdNow - rdVerified <= RdMaxStale + RdLag
        OBVIOUS
      <3>1. rdPhase = "ready" /\ rdCache["readiness"] # -1 /\ ~(rdNow - rdCache["readiness"] > RdMaxStale)
        BY <2>1 DEF Valid, Stale
      <3>2. rdStep = 8
        BY <3>1, <1>h DEF RdRuns
      <3> QED BY <3>1, <3>2, <1>h, <1>n DEF RdTimes
    <2>6. rdProbe'[h] = x => RdCarries(h)'
      BY <2>3, <2>4, <2>5, <1>n DEF RdCarries
    <2> QED BY <2>3, <2>4, <2>6, <1>k
  <1>12. ASSUME NEW h \in RdProbes, NEW b \in BOOLEAN, ProbeEnds(h, b) PROVE RdInv'
    <2>0. PICK old \in RdProbeType : old = rdProbe[h]
      BY <1>p
    <2>1. PICK a \in BOOLEAN : a = (b /\ old.valid)
      BY <2>0 DEF RdProbeType
    <2>2. PICK x : x = [old EXCEPT !.step = "answered", !.ready = a, !.since = rdNow]
      OBVIOUS
    <2>3. x \in RdProbeType /\ x.step = "answered" /\ x.ready = a /\ x.since = rdNow
      BY <2>1, <2>2, <1>t DEF RdProbeType
    <2>4. /\ rdProbe' = [rdProbe EXCEPT ![h] = x] /\ old.step = "probing"
          /\ UNCHANGED <<rdPhase, rdStep, rdStop, rdUp, rdSchema, rdCache, rdThread, rdVerified, rdNow>>
      BY <1>12, <2>0, <2>1, <2>2 DEF ProbeEnds, ReadyAnswer
    <2>5. a => /\ rdStep = 8 /\ rdVerified # -1
               /\ rdNow - rdVerified <= RdMaxStale + RdProbeTime + RdLag
      <3> SUFFICES ASSUME a PROVE /\ rdStep = 8 /\ rdVerified # -1
                                  /\ rdNow - rdVerified <= RdMaxStale + RdProbeTime + RdLag
        OBVIOUS
      <3>1. old.valid
        BY <2>1
      <3>2. /\ rdStep = 8 /\ rdVerified # -1
            /\ rdProbe[h].since - rdVerified <= RdMaxStale + RdLag
            /\ rdNow - rdProbe[h].since <= RdProbeTime
        BY <3>1, <2>0, <2>4, <1>h DEF RdCarries
      <3> QED BY <3>2, <1>n, <1>p
    <2>6. rdProbe'[h] = x => RdCarries(h)'
      BY <2>3, <2>4, <2>5, <1>n DEF RdCarries
    <2> QED BY <2>2, <2>3, <2>4, <2>6, <1>k
  <1>13. ASSUME NEW h \in RdProbes, ProbeForgotten(h) PROVE RdInv'
    <2>1. /\ rdProbe' = [rdProbe EXCEPT ![h] = NoProbe]
          /\ UNCHANGED <<rdPhase, rdStep, rdStop, rdUp, rdSchema, rdCache, rdThread, rdVerified, rdNow>>
      BY <1>13 DEF ProbeForgotten
    <2>2. NoProbe \in RdProbeType /\ NoProbe.step = "idle" /\ NoProbe.since = 0
      BY RdAssumption DEF NoProbe, RdProbeType
    <2>3. rdProbe'[h] = NoProbe => RdCarries(h)'
      BY <2>1, <2>2, <1>n DEF RdCarries
    <2> QED BY <2>1, <2>2, <2>3, <1>k
  <1> QED BY <1>u, <1>1, <1>2, <1>3, <1>5, <1>6, <1>7, <1>8, <1>9, <1>10, <1>11, <1>12, <1>13 DEF RdNext

\* The invariant gives what an answer of /ready promises.
LEMMA RdInvSound == RdInv => ReadinessSound
  <1> SUFFICES ASSUME RdInv PROVE ReadinessSound
    OBVIOUS
  <1>1. ReadyWasVerified
    BY RdOrders DEF RdInv, RdCarries, ReadyWasVerified
  <1>2. StoppedIsTrue
    BY DEF RdInv, RdRuns, StoppedIsTrue
  <1>3. ASSUME NEW i \in 1 .. Len(Starts), NEW j \in 1 .. Len(Starts), i < j, Starts[i] \in Parts, Starts[j] \in rdUp
        PROVE  Starts[i] \in rdUp
    <2>1. i \in {4, 5, 6, 7}
      <3>1. i = 1 \/ i = 2 \/ i = 3 \/ i = 4 \/ i = 5 \/ i = 6 \/ i = 7
        BY RdOrders
      <3> QED BY <1>3, <3>1, RdOrders DEF Parts
    <2>2. j \in {5, 6, 7}
      BY <1>3, <2>1, RdOrders
    <2>3. RdChain(rdUp)
      BY DEF RdInv, RdRuns
    <2>4. CASE i = 4
      BY <1>3, <2>2, <2>3, <2>4, RdOrders DEF RdChain
    <2>5. CASE i = 5
      <3>1. j # 5
        BY <1>3, <2>5
      <3> QED BY <1>3, <2>2, <2>3, <2>5, <3>1, RdOrders DEF RdChain
    <2>6. CASE i = 6 \/ i = 7
      <3>1. i = 6 /\ j = 7
        BY <1>3, <2>2, <2>6
      <3> QED BY <1>3, <2>3, <3>1, RdOrders DEF RdChain
    <2> QED BY <2>1, <2>4, <2>5, <2>6
  <1> QED BY <1>1, <1>2, <1>3 DEF ReadinessSound, BaseRuns

(* For any limits and any number of requests: "ready" is answered only by a  *)
(* process that started completely and checked its schema no longer ago than *)
(* the three limits allow, what runs has what it was started on, and a       *)
(* process that says it has stopped runs nothing, whichever step raises.     *)
THEOREM ReadinessCorrect == RdSpec => []ReadinessSound
  BY RdInitInv, RdStepInv, RdInvSound, PTL DEF RdSpec

-----------------------------------------------------------------------------
(* Research notes (ResearchNotes)                                          *)

RnText == RnAllKeys \cup {Hand}
RnTags == {{}} \cup {{k} : k \in RnKeys}
RnDocType == [title : RnAllKeys, tags : RnTags, body : Seq(RnText)]
RnPartType == Seq(RnText) \cup RnTags \cup RnAllKeys \cup {Nobody}
RnRequestType == [op : RnOps \cup {"none", "create"}, wants : RnPartType, expected : RnPartType]
RnCallType == [key : RnAllKeys \cup {Nobody}, seen : RnDocType \cup {NoNote},
               step : {"idle", "recheck", "write", "replace"}, disturbed : BOOLEAN]

RnShape ==
    /\ rnFile \in RnDocType \cup {NoNote} /\ rnLock \in RnProcs \cup {Nobody}
    /\ rnRequest \in [RnAllKeys -> RnRequestType]
    /\ rnRequest[NewNote].op = "create"
    /\ \A k \in RnKeys : /\ rnRequest[k].op # "create"
                         /\ rnRequest[k].op = "none" => rnRequest[k] = Unasked
                         /\ rnRequest[k].op \in {"content", "append"} => rnRequest[k].expected \in Seq(RnText)
                         /\ rnRequest[k].op = "content" => rnRequest[k].wants \in Seq(RnText)
                         /\ rnRequest[k].op = "tags" => rnRequest[k].wants \in RnTags
                         /\ rnRequest[k].op = "title" => rnRequest[k].wants \in RnAllKeys
    /\ rnPast \subseteq Seq(RnText)
    /\ rnSent \in [RnAllKeys -> 0 .. MaxSends] /\ rnTimes \in [RnAllKeys -> Nat]
    /\ rnCall \in [RnProcs -> RnCallType]
    /\ rnSaves \in 0 .. MaxSaves
    /\ rnFile = NoNote =>
          rnKept = {} /\ rnTimes[NewNote] = 0 /\ \A k \in RnKeys : rnRequest[k].op = "none"

\* A body is at most as long as the texts of the requests and the saves allow;
\* it holds no text twice and none of a request that has not been made.
RnShort(b) == Len(b) <= Cardinality(ToSet(b) \ {Hand}) + rnSaves
RnKnown(b) == EachOnce(b) /\ \A k \in RnKeys : k \in ToSet(b) => rnRequest[k].op # "none"

RnBodies ==
    /\ rnFile # NoNote => RnShort(rnFile.body) /\ RnKnown(rnFile.body) /\ rnKept \subseteq ToSet(rnFile.body)
    /\ \A k \in RnKeys : rnRequest[k].op \in {"content", "append"} =>
          RnShort(rnRequest[k].expected) /\ RnKnown(rnRequest[k].expected) /\ k \notin ToSet(rnRequest[k].expected)
    /\ \A k \in RnKeys : rnRequest[k].op = "content" => RnShort(rnRequest[k].wants) /\ RnKnown(rnRequest[k].wants)
    /\ \A b \in rnPast : RnShort(b) /\ RnKnown(b)

\* A call that has entered holds the lock; what it means to write rests on
\* the file, unless the editor saved, and on what its caller expects.
RnHolds(p) ==
    LET t == rnCall[p] IN
    /\ t.step # "idle" =>
          /\ rnLock = p /\ t.key \in RnAllKeys /\ rnRequest[t.key].op # "none"
          /\ t.step = "recheck" => rnRequest[t.key].op = "append"
          /\ rnRequest[t.key].op = "create" => rnFile = NoNote
          /\ rnRequest[t.key].op # "create" => t.seen # NoNote
          /\ rnRequest[t.key].op = "append" /\ rnTimes[t.key] >= 1 => t.key \in rnTaken
    /\ t.step \in {"write", "replace"} =>
          /\ t.seen = rnFile \/ t.disturbed
          /\ t.seen # NoNote => RnShort(t.seen.body) /\ RnKnown(t.seen.body) /\ rnKept \subseteq ToSet(t.seen.body)
          /\ rnRequest[t.key].op \in {"content", "append"} => t.seen.body = rnRequest[t.key].expected

\* A request that has reached the file stands in it or was taken away.
RnOnce ==
    /\ rnTimes[NewNote] <= 1
    /\ \A k \in RnKeys : rnRequest[k].op = "none" => rnTimes[k] = 0
    /\ \A k \in RnKeys : rnRequest[k].op = "append" /\ rnTimes[k] >= 1 => k \in rnKept \cup rnTaken
    /\ \A k \in RnKeys : rnRequest[k].op = "append" /\ rnTimes[k] > 1 => k \in rnTaken

\* Temporary files: those of dead processes and that of the call that writes.
RnReplacing == \E p \in RnProcs : rnCall[p].step = "replace"
RnTempsOK ==
    /\ rnTemps \in Nat /\ rnCrashes \in 0 .. MaxRnCrashes
    /\ RnReplacing => rnTemps >= 1 /\ rnTemps <= rnCrashes + 1
    /\ ~RnReplacing => rnTemps <= rnCrashes

RnInv == RnShape /\ RnBodies /\ (\A p \in RnProcs : RnHolds(p)) /\ RnOnce /\ RnTempsOK

\* Appending a text.
LEMMA RnAppended ==
    ASSUME NEW b \in Seq(RnText), NEW e \in RnText
    PROVE  /\ Append(b, e) \in Seq(RnText) /\ Append(b, e) # << >> /\ Len(Append(b, e)) = Len(b) + 1
           /\ Last(Append(b, e)) = e /\ ToSet(Append(b, e)) = ToSet(b) \cup {e}
  <1>1. PICK c : c = Append(b, e)
    OBVIOUS
  <1>2. /\ c \in Seq(RnText) /\ c # << >> /\ Len(c) = Len(b) + 1 /\ c[Len(b) + 1] = e
        /\ \A i \in 1 .. Len(b) : c[i] = b[i]
    BY <1>1, AppendProperties
  <1>3. DOMAIN c = 1 .. Len(b) + 1 /\ DOMAIN b = 1 .. Len(b) /\ Len(b) \in Nat
    BY <1>2
  <1>4. \A i \in DOMAIN c : i \in DOMAIN b \/ i = Len(b) + 1
    BY <1>3
  <1>5. ToSet(c) = ToSet(b) \cup {e}
    <2>1. ToSet(c) \subseteq ToSet(b) \cup {e}
      BY <1>2, <1>3, <1>4 DEF ToSet
    <2>2. ToSet(b) \subseteq ToSet(c)
      <3>1. \A i \in DOMAIN b : i \in DOMAIN c /\ c[i] = b[i]
        BY <1>2, <1>3
      <3> QED BY <3>1 DEF ToSet
    <2>3. e \in ToSet(c)
      <3>1. Len(b) + 1 \in DOMAIN c
        BY <1>3
      <3> QED BY <1>2, <3>1 DEF ToSet
    <2> QED BY <2>1, <2>2, <2>3
  <1> QED BY <1>1, <1>2, <1>5 DEF Last

\* Taking the last text away.
LEMMA RnShortened ==
    ASSUME NEW b \in Seq(RnText), b # << >>
    PROVE  /\ Front(b) \in Seq(RnText) /\ Len(Front(b)) = Len(b) - 1
           /\ ToSet(Front(b)) \subseteq ToSet(b) /\ ToSet(b) \subseteq ToSet(Front(b)) \cup {Last(b)}
  <1>1. PICK c : c = Front(b)
    OBVIOUS
  <1>2. Len(b) \in Nat /\ Len(b) >= 1 /\ DOMAIN b = 1 .. Len(b) /\ \A i \in 1 .. Len(b) : b[i] \in RnText
    BY EmptySeq
  <1>3. PICK n \in Nat : n = Len(b) - 1
    <2>1. PICK m \in Nat : m = Len(b)
      BY <1>2
    <2>2. m - 1 \in Nat
      BY <1>2, <2>1
    <2> QED BY <2>1, <2>2
  <1>4. \A i \in 1 .. n : b[i] \in RnText
    BY <1>2, <1>3
  <1>5. c = SubSeq(b, 1, n)
    BY <1>1, <1>3 DEF Front
  <1>6. /\ SubSeq(b, 1, n) \in Seq(RnText)
        /\ Len(SubSeq(b, 1, n)) = IF 1 <= n THEN n - 1 + 1 ELSE 0
        /\ \A i \in 1 .. n - 1 + 1 : SubSeq(b, 1, n)[i] = b[1 + i - 1]
    BY <1>4, SubSeqProperties
  <1>7. c \in Seq(RnText) /\ Len(c) = n /\ \A i \in 1 .. n : c[i] = b[i]
    BY <1>5, <1>6, <1>3
  <1>8. DOMAIN c = 1 .. n
    BY <1>7
  <1>9. ToSet(c) \subseteq ToSet(b)
    <2>1. \A i \in DOMAIN c : i \in DOMAIN b /\ c[i] = b[i]
      BY <1>2, <1>3, <1>7, <1>8
    <2> QED BY <2>1 DEF ToSet
  <1>10. ToSet(b) \subseteq ToSet(c) \cup {Last(b)}
    <2>1. \A i \in DOMAIN b : (i \in DOMAIN c /\ c[i] = b[i]) \/ i = Len(b)
      BY <1>2, <1>3, <1>7, <1>8
    <2> QED BY <2>1 DEF ToSet, Last
  <1> QED BY <1>1, <1>3, <1>7, <1>9, <1>10

\* The texts of requests in a body are finitely many.
LEMMA RnFinite ==
    ASSUME NEW b \in Seq(RnText)
    PROVE  /\ IsFiniteSet(ToSet(b) \ {Hand}) /\ Cardinality(ToSet(b) \ {Hand}) \in Nat
           /\ Cardinality(ToSet(b) \ {Hand}) <= 1 + Cardinality(RnKeys)
  <1>1. ToSet(b) \ {Hand} \subseteq RnAllKeys
    BY DEF ToSet, RnText
  <1>2. IsFiniteSet(RnKeys)
    BY RnAssumption
  <1>3. /\ IsFiniteSet(RnKeys \cup {NewNote})
        /\ Cardinality(RnKeys \cup {NewNote}) = IF NewNote \in RnKeys THEN Cardinality(RnKeys) ELSE Cardinality(RnKeys) + 1
    BY <1>2, FS_AddElement
  <1>4. Cardinality(RnKeys) \in Nat
    BY <1>2, FS_CardinalityType
  <1>5. IsFiniteSet(RnAllKeys) /\ Cardinality(RnAllKeys) <= 1 + Cardinality(RnKeys) /\ Cardinality(RnAllKeys) \in Nat
    BY <1>3, <1>4 DEF RnAllKeys
  <1>6. PICK S \in SUBSET RnAllKeys : S = ToSet(b) \ {Hand}
    BY <1>1
  <1>7. IsFiniteSet(S) /\ Cardinality(S) <= Cardinality(RnAllKeys)
    BY <1>5, FS_Subset
  <1>8. Cardinality(S) \in Nat
    BY <1>7, FS_CardinalityType
  <1> QED BY <1>4, <1>5, <1>6, <1>7, <1>8

\* A body of bounded length stays one: a request's new text makes it longer
\* by one and adds a text, and a save of the editor is counted.
LEMMA RnBounded ==
    ASSUME NEW b \in Seq(RnText), NEW n \in Nat, Len(b) <= Cardinality(ToSet(b) \ {Hand}) + n
    PROVE  /\ \A k \in RnAllKeys : k \notin ToSet(b) =>
                 Len(Append(b, k)) <= Cardinality(ToSet(Append(b, k)) \ {Hand}) + n
           /\ Len(Append(b, Hand)) <= Cardinality(ToSet(Append(b, Hand)) \ {Hand}) + (n + 1)
           /\ b # << >> => Len(Front(b)) <= Cardinality(ToSet(Front(b)) \ {Hand}) + (n + 1)
  <1>0. /\ IsFiniteSet(ToSet(b) \ {Hand}) /\ Cardinality(ToSet(b) \ {Hand}) \in Nat /\ Len(b) \in Nat
        /\ Hand \notin RnAllKeys
    <2>1. IsFiniteSet(ToSet(b) \ {Hand}) /\ Cardinality(ToSet(b) \ {Hand}) \in Nat
      BY RnFinite
    <2>2. Hand \notin RnAllKeys
      BY RnAssumption DEF Hand, RnAllKeys
    <2> QED BY <2>1, <2>2
  <1>1. PICK S : S = ToSet(b) \ {Hand}
    OBVIOUS
  <1>2. ASSUME NEW k \in RnAllKeys, k \notin ToSet(b)
        PROVE  Len(Append(b, k)) <= Cardinality(ToSet(Append(b, k)) \ {Hand}) + n
    <2>1. k \in RnText
      BY DEF RnText
    <2>2. Len(Append(b, k)) = Len(b) + 1 /\ ToSet(Append(b, k)) = ToSet(b) \cup {k}
      BY <2>1, RnAppended
    <2>3. ToSet(Append(b, k)) \ {Hand} = S \cup {k} /\ k \notin S
      BY <1>0, <1>1, <1>2, <2>2
    <2>4. Cardinality(S \cup {k}) = Cardinality(S) + 1
      BY <1>0, <1>1, <2>3, FS_AddElement
    <2>5. Cardinality(ToSet(Append(b, k)) \ {Hand}) = Cardinality(S) + 1
      BY <2>3, <2>4
    <2> QED BY <1>0, <1>1, <2>2, <2>5
  <1>3. Len(Append(b, Hand)) <= Cardinality(ToSet(Append(b, Hand)) \ {Hand}) + (n + 1)
    <2>1. Hand \in RnText
      BY DEF RnText
    <2>2. Len(Append(b, Hand)) = Len(b) + 1 /\ ToSet(Append(b, Hand)) = ToSet(b) \cup {Hand}
      BY <2>1, RnAppended
    <2>3. ToSet(Append(b, Hand)) \ {Hand} = S
      BY <1>1, <2>2
    <2>4. Cardinality(ToSet(Append(b, Hand)) \ {Hand}) = Cardinality(S)
      BY <2>3
    <2> QED BY <1>0, <1>1, <2>2, <2>4
  <1>4. ASSUME b # << >>
        PROVE  Len(Front(b)) <= Cardinality(ToSet(Front(b)) \ {Hand}) + (n + 1)
    <2>1. PICK c : c = Front(b)
      OBVIOUS
    <2>2. c \in Seq(RnText) /\ Len(c) = Len(b) - 1 /\ ToSet(b) \subseteq ToSet(c) \cup {Last(b)}
      BY <1>4, <2>1, RnShortened
    <2>3. PICK T : T = ToSet(c) \ {Hand}
      OBVIOUS
    <2>4. IsFiniteSet(T) /\ Cardinality(T) \in Nat
      BY <2>2, <2>3, RnFinite
    <2>5. IsFiniteSet(T \cup {Last(b)}) /\ Cardinality(T \cup {Last(b)}) <= Cardinality(T) + 1
      <3>1. /\ IsFiniteSet(T \cup {Last(b)})
            /\ Cardinality(T \cup {Last(b)}) = IF Last(b) \in T THEN Cardinality(T) ELSE Cardinality(T) + 1
        BY <2>4, FS_AddElement
      <3> QED BY <2>4, <3>1
    <2>6. S \in SUBSET (T \cup {Last(b)})
      BY <1>1, <2>2, <2>3
    <2>7. Cardinality(S) <= Cardinality(T \cup {Last(b)})
      BY <2>5, <2>6, FS_Subset
    <2>8. Cardinality(S) \in Nat /\ Cardinality(T \cup {Last(b)}) \in Nat
      BY <1>0, <1>1, <2>5, FS_CardinalityType
    <2>9. Len(c) <= Cardinality(T) + (n + 1)
      BY <1>0, <1>1, <2>2, <2>4, <2>5, <2>7, <2>8
    <2> QED BY <2>1, <2>3, <2>9
  <1> QED BY <1>2, <1>3, <1>4

\* A body that has each text once keeps that.
LEMMA RnEachOnce ==
    ASSUME NEW b \in Seq(RnText), EachOnce(b)
    PROVE  /\ \A e \in RnText : e \notin ToSet(b) \/ e = Hand => EachOnce(Append(b, e))
           /\ b # << >> => EachOnce(Front(b))
  <1>1. PICK n \in Nat : n = Len(b) /\ DOMAIN b = 1 .. n
    OBVIOUS
  <1>2. ASSUME NEW e \in RnText, e \notin ToSet(b) \/ e = Hand PROVE EachOnce(Append(b, e))
    <2>1. PICK c : c = Append(b, e)
      OBVIOUS
    <2>2. /\ c \in Seq(RnText) /\ Len(c) = n + 1 /\ c[n + 1] = e /\ \A i \in 1 .. n : c[i] = b[i]
      BY <1>1, <2>1, AppendProperties
    <2>3. DOMAIN c = 1 .. n + 1
      BY <2>2
    <2> SUFFICES ASSUME NEW i \in 1 .. n + 1, NEW j \in 1 .. n + 1, c[i] = c[j], c[i] # Hand PROVE i = j
      BY <2>1, <2>3 DEF EachOnce
    <2>4. \A m \in 1 .. n + 1 : m \in 1 .. n \/ m = n + 1
      BY <1>1
    <2>5. \A m \in 1 .. n : b[m] \in ToSet(b)
      BY <1>1 DEF ToSet
    <2>6. \A l, m \in 1 .. n : b[l] = b[m] /\ b[l] # Hand => l = m
      BY <1>1 DEF EachOnce
    <2> QED BY <1>2, <2>2, <2>4, <2>5, <2>6
  <1>3. ASSUME b # << >> PROVE EachOnce(Front(b))
    <2>1. PICK m \in Nat : m = n - 1
      BY <1>1, <1>3, EmptySeq
    <2>2. PICK c : c = Front(b)
      OBVIOUS
    <2>3. c = [i \in 1 .. m |-> b[i]]
      BY <1>1, <2>1, <2>2 DEF Front
    <2>4. \A i \in 1 .. m : i \in 1 .. n
      BY <1>1, <2>1
    <2> QED BY <1>1, <2>2, <2>3, <2>4 DEF EachOnce
  <1> QED BY <1>2, <1>3

\* A body with one text.
LEMMA RnSingle ==
    ASSUME NEW k \in RnAllKeys, NEW n \in Nat
    PROVE  /\ <<k>> \in Seq(RnText) /\ EachOnce(<<k>>) /\ ToSet(<<k>>) = {k}
           /\ Len(<<k>>) <= Cardinality(ToSet(<<k>>) \ {Hand}) + n
  <1>1. k # Hand /\ k \in RnText
    BY RnAssumption DEF Hand, RnAllKeys, RnText
  <1>2. <<k>> \in Seq(RnText) /\ EachOnce(<<k>>) /\ Len(<<k>>) = 1
    BY <1>1 DEF EachOnce
  <1>3. ToSet(<<k>>) = {k}
    BY DEF ToSet
  <1>4. ToSet(<<k>>) \ {Hand} = {k}
    BY <1>1, <1>3
  <1>5. Cardinality({k}) = 1
    BY FS_Singleton
  <1>6. Cardinality(ToSet(<<k>>) \ {Hand}) = 1
    BY <1>4, <1>5
  <1> QED BY <1>2, <1>3, <1>6

\* What stands for nothing is told from what is something.
LEMMA RnDistinct ==
    /\ NoNote \notin RnDocType /\ Nobody \notin Seq(RnText) /\ Nobody \notin RnProcs
    /\ NewNote \in RnAllKeys /\ RnKeys \subseteq RnAllKeys /\ NewNote \notin RnKeys
    /\ IdleCall \in RnCallType /\ IdleCall.step = "idle"
    /\ Unasked \in RnRequestType /\ Unasked.op = "none"
    /\ MaxSends \in Nat /\ MaxSaves \in Nat /\ MaxRnCrashes \in Nat
  <1>1. RnTags \subseteq SUBSET RnKeys
    BY DEF RnTags
  <1>2. RnDocType \subseteq [title : RnKeys \cup {NewNote}, tags : SUBSET RnKeys,
                             body : Seq(RnKeys \cup {NewNote, "hand"})]
    <2>1. RnText = RnKeys \cup {NewNote, "hand"}
      BY DEF RnText, RnAllKeys, Hand
    <2> QED BY <1>1, <2>1 DEF RnDocType, RnAllKeys
  <1>3. NoNote \notin RnDocType
    BY <1>2, RnAssumption
  <1>4. Nobody \notin Seq(RnText)
    <2>1. RnText = RnKeys \cup {NewNote, "hand"}
      BY DEF RnText, RnAllKeys, Hand
    <2> QED BY <2>1, RnAssumption
  <1>5. IdleCall \in RnCallType /\ IdleCall.step = "idle"
    BY DEF IdleCall, RnCallType
  <1>6. Unasked \in RnRequestType /\ Unasked.op = "none"
    BY DEF Unasked, RnRequestType, RnPartType
  <1> QED BY <1>3, <1>4, <1>5, <1>6, RnAssumption DEF RnAllKeys

\* There is no note, no call and no request but its creation.
LEMMA RnInitInv == RnInit => RnInv
  <1> SUFFICES ASSUME RnInit PROVE RnInv
    OBVIOUS
  <1>1. /\ rnFile = NoNote /\ rnTemps = 0 /\ rnLock = Nobody /\ rnPast = {} /\ rnKept = {} /\ rnSaves = 0 /\ rnCrashes = 0
        /\ rnRequest = [k \in RnAllKeys |-> IF k = NewNote THEN Creation ELSE Unasked]
        /\ rnSent = [k \in RnAllKeys |-> 0] /\ rnTimes = [k \in RnAllKeys |-> 0]
        /\ rnCall = [p \in RnProcs |-> IdleCall]
    BY DEF RnInit
  <1>2. Creation \in RnRequestType /\ Creation.op = "create"
    BY DEF Creation, RnRequestType, RnPartType
  <1>3. rnRequest \in [RnAllKeys -> RnRequestType]
    BY <1>1, <1>2, RnDistinct
  <1>4. rnRequest[NewNote].op = "create"
    BY <1>1, <1>2, RnDistinct
  <1>5. \A k \in RnKeys : rnRequest[k] = Unasked /\ rnRequest[k].op = "none"
    BY <1>1, RnDistinct
  <1>6. rnSent \in [RnAllKeys -> 0 .. MaxSends] /\ rnTimes \in [RnAllKeys -> Nat]
    BY <1>1, RnDistinct
  <1>7. rnTimes[NewNote] = 0 /\ \A k \in RnKeys : rnTimes[k] = 0
    BY <1>1, RnDistinct
  <1>8. rnCall \in [RnProcs -> RnCallType] /\ \A p \in RnProcs : rnCall[p].step = "idle"
    BY <1>1, RnDistinct
  <1>9. RnShape
    BY <1>1, <1>3, <1>4, <1>5, <1>6, <1>7, <1>8, RnDistinct DEF RnShape
  <1>10. RnBodies
    BY <1>1, <1>5 DEF RnBodies
  <1>11. \A p \in RnProcs : RnHolds(p)
    BY <1>8 DEF RnHolds
  <1>12. RnOnce
    BY <1>1, <1>5, <1>7 DEF RnOnce
  <1>13. RnTempsOK
    BY <1>1, <1>8, RnDistinct DEF RnTempsOK, RnReplacing
  <1> QED BY <1>9, <1>10, <1>11, <1>12, <1>13 DEF RnInv

\* A call that leaves was the only one under way.
LEMMA RnLeft ==
    ASSUME RnShape, \A q \in RnProcs : RnHolds(q), NEW p \in RnProcs, rnCall[p].step # "idle", Leave(p)
    PROVE  /\ rnLock' = Nobody /\ rnCall' \in [RnProcs -> RnCallType]
           /\ \A q \in RnProcs : rnCall'[q].step = "idle" /\ RnHolds(q)'
  <1>1. rnLock' = Nobody /\ rnCall' = [rnCall EXCEPT ![p] = IdleCall]
    BY DEF Leave
  <1>2. rnCall \in [RnProcs -> RnCallType]
    BY DEF RnShape
  <1>3. rnCall' \in [RnProcs -> RnCallType]
    BY <1>1, <1>2, RnDistinct
  <1>4. \A q \in RnProcs : q # p => rnCall[q].step = "idle"
    BY DEF RnHolds
  <1>5. \A q \in RnProcs : rnCall'[q].step = "idle"
    BY <1>1, <1>2, <1>4, RnDistinct
  <1> QED BY <1>1, <1>3, <1>5 DEF RnHolds

\* A new request rests on the note as it is.
LEMMA RnAskInv ==
    ASSUME RnInv, NEW k \in RnKeys, NEW o \in RnOps, Ask(k, o)
    PROVE  RnInv'
  <1>1. PICK v \in Wanted(k, o), e \in {Part(rnFile, o)} \cup (IF o = "title" THEN {Nobody} ELSE {}) :
            rnRequest' = [rnRequest EXCEPT ![k] = [op |-> o, wants |-> v, expected |-> e]]
    BY DEF Ask
  <1>2. /\ rnFile # NoNote /\ rnRequest[k] = Unasked
        /\ UNCHANGED <<rnFile, rnTemps, rnLock, rnSent, rnCall, rnTimes, rnPast, rnKept, rnTaken, rnSaves, rnCrashes>>
    BY DEF Ask
  <1>s. RnShape
    BY DEF RnInv
  <1>3. rnFile \in RnDocType /\ rnRequest \in [RnAllKeys -> RnRequestType] /\ k \in RnAllKeys
    BY <1>2, <1>s, RnDistinct DEF RnShape
  <1>4. rnFile.body \in Seq(RnText) /\ rnFile.tags \in RnTags /\ rnFile.title \in RnAllKeys
    BY <1>3 DEF RnDocType
  <1>5. /\ o \in {"content", "append"} => e = rnFile.body
        /\ e \in RnPartType
    <2>1. CASE o \in {"content", "append"}
      BY <1>1, <1>4, <2>1 DEF Part, RnPartType
    <2>2. CASE o = "tags"
      BY <1>1, <1>4, <2>2 DEF Part, RnPartType
    <2>3. CASE o = "title"
      BY <1>1, <1>4, <2>3 DEF Part, RnPartType
    <2> QED BY <2>1, <2>2, <2>3 DEF RnOps
  <1>v. /\ o = "content" => v \in rnPast \/ v = <<k>>
        /\ o = "content" => v \in Seq(RnText)
        /\ o = "tags" => v \in RnTags
        /\ o = "title" => v \in RnAllKeys
        /\ v \in RnPartType
    <2>0. <<k>> \in Seq(RnText) /\ rnPast \subseteq Seq(RnText)
      BY <1>3, <1>s, RnSingle DEF RnShape
    <2>1. CASE o = "content"
      BY <1>1, <2>0, <2>1 DEF Wanted, RnPartType
    <2>2. CASE o = "tags"
      BY <1>1, <2>2 DEF Wanted, RnPartType, RnTags
    <2>3. CASE o = "title"
      BY <1>1, <1>3, <2>3, RnDistinct DEF Wanted, RnPartType
    <2>4. CASE o = "append"
      BY <1>1, <2>4 DEF Wanted, RnPartType
    <2> QED BY <2>1, <2>2, <2>3, <2>4 DEF RnOps
  <1>6. PICK w : w = [op |-> o, wants |-> v, expected |-> e]
    OBVIOUS
  <1>7. w \in RnRequestType /\ w.op = o /\ w.wants = v /\ w.expected = e
    BY <1>5, <1>6, <1>v DEF RnRequestType
  <1>8. rnRequest' \in [RnAllKeys -> RnRequestType] /\ rnRequest'[k] = w
        /\ \A j \in RnAllKeys : j # k => rnRequest'[j] = rnRequest[j]
    BY <1>1, <1>3, <1>6, <1>7
  <1>9. o # "none" /\ o # "create" /\ NewNote # k /\ NewNote \in RnAllKeys /\ rnRequest[k].op = "none"
    BY <1>2, RnDistinct DEF RnOps
  <1>10. \A j \in RnKeys : j \in RnAllKeys
    BY RnDistinct
  <1>11. RnShape'
    <2>1. rnRequest'[NewNote].op = "create"
      BY <1>8, <1>9, <1>s DEF RnShape
    <2>2. ASSUME NEW j \in RnKeys
          PROVE  /\ rnRequest'[j].op # "create"
                 /\ rnRequest'[j].op = "none" => rnRequest'[j] = Unasked
                 /\ rnRequest'[j].op \in {"content", "append"} => rnRequest'[j].expected \in Seq(RnText)
                 /\ rnRequest'[j].op = "content" => rnRequest'[j].wants \in Seq(RnText)
                 /\ rnRequest'[j].op = "tags" => rnRequest'[j].wants \in RnTags
                 /\ rnRequest'[j].op = "title" => rnRequest'[j].wants \in RnAllKeys
      <3>1. CASE j = k
        BY <1>4, <1>5, <1>7, <1>8, <1>9, <1>v, <3>1
      <3>2. CASE j # k
        BY <1>8, <1>10, <1>s, <3>2 DEF RnShape
      <3> QED BY <3>1, <3>2
    <2> QED BY <1>2, <1>8, <1>s, <2>1, <2>2 DEF RnShape
  \* A request that was made stays made.
  <1>12. \A j \in RnKeys : rnRequest[j].op # "none" => rnRequest'[j].op # "none"
    BY <1>7, <1>8, <1>9, <1>10
  <1>13. \A b : (RnKnown(b) => RnKnown(b)') /\ (RnShort(b) => RnShort(b)')
    BY <1>2, <1>12 DEF RnKnown, RnShort
  <1>14. RnShort(rnFile.body) /\ RnKnown(rnFile.body) /\ rnKept \subseteq ToSet(rnFile.body)
    BY <1>2 DEF RnInv, RnBodies
  <1>15. RnBodies'
    <2>1. PICK b : b = rnFile.body
      OBVIOUS
    <2>2. RnShort(b)' /\ RnKnown(b)' /\ k \notin ToSet(b)
      BY <1>9, <1>13, <1>14, <2>1 DEF RnKnown
    <2>3. RnShort(rnFile.body)' /\ RnKnown(rnFile.body)' /\ rnKept' \subseteq ToSet(rnFile'.body)
      BY <1>2, <1>14, <2>1, <2>2 DEF RnShort, RnKnown
    <2>4. ASSUME NEW j \in RnKeys, rnRequest'[j].op \in {"content", "append"}
          PROVE  RnShort(rnRequest[j].expected)' /\ RnKnown(rnRequest[j].expected)' /\ j \notin ToSet(rnRequest'[j].expected)
      <3>1. PICK x : x = rnRequest'[j].expected
        OBVIOUS
      <3>2. RnShort(x)' /\ RnKnown(x)' /\ j \notin ToSet(x)
        <4>1. CASE j = k
          <5>1. x = b
            BY <1>5, <1>7, <1>8, <2>1, <2>4, <3>1, <4>1
          <5> QED BY <2>2, <4>1, <5>1
        <4>2. CASE j # k
          <5>1. rnRequest'[j] = rnRequest[j]
            BY <1>8, <1>10, <4>2
          <5>2. RnShort(x) /\ RnKnown(x) /\ j \notin ToSet(x)
            BY <2>4, <3>1, <5>1 DEF RnInv, RnBodies
          <5> QED BY <1>13, <5>2
        <4> QED BY <4>1, <4>2
      <3> QED BY <3>1, <3>2 DEF RnShort, RnKnown
    <2>5. \A x \in rnPast : RnShort(x)' /\ RnKnown(x)'
      BY <1>13 DEF RnInv, RnBodies
    <2>6. ASSUME NEW j \in RnKeys, rnRequest'[j].op = "content"
          PROVE  RnShort(rnRequest[j].wants)' /\ RnKnown(rnRequest[j].wants)'
      <3>1. PICK x : x = rnRequest'[j].wants
        OBVIOUS
      <3>2. RnShort(x)' /\ RnKnown(x)'
        <4>1. CASE j = k /\ v \in rnPast
          BY <1>7, <1>8, <2>5, <3>1, <4>1
        <4>2. CASE j = k /\ v = <<k>>
          <5>1. x = <<k>> /\ rnSaves' \in Nat
            BY <1>2, <1>7, <1>8, <1>s, <3>1, <4>2 DEF RnShape
          <5>2. EachOnce(<<k>>) /\ ToSet(<<k>>) = {k} /\ Len(<<k>>) <= Cardinality(ToSet(<<k>>) \ {Hand}) + rnSaves'
            BY <1>3, <5>1, RnSingle
          <5>3. rnRequest'[k].op # "none"
            BY <1>7, <1>8, <1>9
          <5> QED BY <5>1, <5>2, <5>3 DEF RnShort, RnKnown
        <4>3. CASE j # k
          <5>1. rnRequest'[j] = rnRequest[j]
            BY <1>8, <1>10, <4>3
          <5>2. RnShort(x) /\ RnKnown(x)
            BY <2>6, <3>1, <5>1 DEF RnInv, RnBodies
          <5> QED BY <1>13, <5>2
        <4>4. j = k => v \in rnPast \/ v = <<k>>
          BY <1>7, <1>8, <1>v, <2>6
        <4> QED BY <4>1, <4>2, <4>3, <4>4
      <3> QED BY <3>1, <3>2 DEF RnShort, RnKnown
    <2>7. \A x \in rnPast' : RnShort(x)' /\ RnKnown(x)'
      BY <1>2, <2>5
    <2> QED BY <2>3, <2>4, <2>6, <2>7 DEF RnBodies
  <1>16. ASSUME NEW p \in RnProcs PROVE RnHolds(p)'
    <2>1. PICK t : t = rnCall[p]
      OBVIOUS
    <2>2. rnCall'[p] = t
      BY <1>2, <2>1
    <2>3. RnHolds(p)
      BY DEF RnInv
    <2>4. CASE t.step = "idle"
      BY <2>2, <2>4 DEF RnHolds
    <2>5. CASE t.step # "idle"
      <3>1. t.key \in RnAllKeys /\ rnRequest[t.key].op # "none"
        BY <2>1, <2>3, <2>5 DEF RnHolds
      <3>2. rnRequest'[t.key] = rnRequest[t.key]
        BY <1>8, <1>9, <3>1
      <3>3. PICK sb : sb = t.seen.body
        OBVIOUS
      <3>4. t.step \in {"write", "replace"} /\ t.seen # NoNote =>
               RnShort(sb)' /\ RnKnown(sb)' /\ rnKept' \subseteq ToSet(sb)
        BY <1>2, <1>13, <2>1, <2>3, <3>3 DEF RnHolds
      <3>5. t.step \in {"write", "replace"} /\ t.seen # NoNote =>
               RnShort(t.seen.body)' /\ RnKnown(t.seen.body)' /\ rnKept' \subseteq ToSet(t.seen.body)
        BY <3>3, <3>4 DEF RnShort, RnKnown
      <3>6. /\ rnLock' = p /\ t.key \in RnAllKeys /\ rnRequest'[t.key].op # "none"
            /\ t.step = "recheck" => rnRequest'[t.key].op = "append"
            /\ rnRequest'[t.key].op = "create" => rnFile' = NoNote
            /\ rnRequest'[t.key].op # "create" => t.seen # NoNote
            /\ rnRequest'[t.key].op = "append" /\ rnTimes'[t.key] >= 1 => t.key \in rnTaken'
        BY <1>2, <2>1, <2>3, <2>5, <3>2 DEF RnHolds
      <3>7. t.step \in {"write", "replace"} =>
              /\ t.seen = rnFile' \/ t.disturbed
              /\ rnRequest'[t.key].op \in {"content", "append"} => t.seen.body = rnRequest'[t.key].expected
        BY <1>2, <2>1, <2>3, <3>2 DEF RnHolds
      <3> QED BY <2>2, <3>5, <3>6, <3>7 DEF RnHolds, RnShort, RnKnown
    <2> QED BY <2>4, <2>5
  <1>17. RnOnce'
    <2>1. RnOnce
      BY DEF RnInv
    <2>2. rnTimes[k] = 0
      BY <1>9, <2>1 DEF RnOnce
    <2>3. \A j \in RnKeys : rnRequest'[j].op # rnRequest[j].op => j = k
      BY <1>8, <1>10
    <2> QED BY <1>2, <2>1, <2>2, <2>3 DEF RnOnce
  <1>18. RnTempsOK'
    BY <1>2 DEF RnInv, RnTempsOK, RnReplacing
  <1> QED BY <1>11, <1>15, <1>16, <1>17, <1>18 DEF RnInv

\* A caller enters: the only call under way, with the file as it is.
LEMMA RnEnterInv ==
    ASSUME RnInv, NEW p \in RnProcs, NEW k \in RnAllKeys, Enter(p, k)
    PROVE  RnInv'
  <1>1. /\ rnCall[p].step = "idle" /\ rnRequest[k] # Unasked /\ rnSent[k] < MaxSends /\ rnLock = Nobody
        /\ rnSent' = [rnSent EXCEPT ![k] = @ + 1]
        /\ UNCHANGED <<rnFile, rnTemps, rnRequest, rnTimes, rnPast, rnKept, rnTaken, rnSaves, rnCrashes>>
    BY DEF Enter, FlockFree
  <1>s. RnShape /\ RnBodies /\ RnOnce /\ RnTempsOK
    BY DEF RnInv
  <1>2. rnSent' \in [RnAllKeys -> 0 .. MaxSends]
    <2>1. rnSent \in [RnAllKeys -> 0 .. MaxSends] /\ MaxSends \in Nat
      BY <1>s, RnDistinct DEF RnShape
    <2>2. rnSent[k] + 1 \in 0 .. MaxSends
      BY <1>1, <2>1
    <2> QED BY <1>1, <2>1, <2>2
  <1>3. RnBodies' /\ RnOnce'
    BY <1>1, <1>s DEF RnBodies, RnOnce, RnShort, RnKnown
  <1>4. \A q \in RnProcs : rnCall[q].step = "idle"
    <2>1. \A q \in RnProcs : RnHolds(q)
      BY DEF RnInv
    <2> QED BY <1>1, <2>1, RnDistinct DEF RnHolds
  <1>5. rnCall \in [RnProcs -> RnCallType]
    BY <1>s DEF RnShape
  <1>6. CASE UNCHANGED <<rnLock, rnCall>>
    <2>1. RnShape'
      BY <1>1, <1>2, <1>6, <1>s DEF RnShape
    <2>2. \A q \in RnProcs : RnHolds(q)'
      BY <1>4, <1>6 DEF RnHolds
    <2>3. RnTempsOK'
      BY <1>1, <1>6, <1>s DEF RnTempsOK, RnReplacing
    <2> QED BY <1>3, <2>1, <2>2, <2>3 DEF RnInv
  <1>7. CASE ~UNCHANGED <<rnLock, rnCall>>
    <2>1. ~Already(k, rnFile) /\ ~Conflicts(k, rnFile)
      BY <1>7 DEF Enter
    <2>2. PICK o : o = rnRequest[k].op
      OBVIOUS
    <2>3. PICK t : t = [key |-> k, seen |-> rnFile, disturbed |-> FALSE,
                        step |-> IF o = "append" THEN "recheck" ELSE "write"]
      OBVIOUS
    <2>4. rnLock' = p /\ rnCall' = [rnCall EXCEPT ![p] = t]
      BY <1>7, <2>2, <2>3 DEF Enter
    <2>5. /\ t.key = k /\ t.seen = rnFile /\ t.disturbed = FALSE
          /\ t.step = IF o = "append" THEN "recheck" ELSE "write"
      BY <2>3
    <2>6. t \in RnCallType
      <3>1. rnFile \in RnDocType \cup {NoNote}
        BY <1>s DEF RnShape
      <3> QED BY <2>3, <3>1 DEF RnCallType
    <2>7. rnCall' \in [RnProcs -> RnCallType] /\ rnCall'[p] = t
          /\ \A q \in RnProcs : q # p => rnCall'[q] = rnCall[q]
      BY <1>5, <2>4, <2>6
    <2>8. RnShape'
      BY <1>1, <1>2, <1>s, <2>4, <2>7 DEF RnShape
    <2>9. k = NewNote \/ k \in RnKeys
      BY DEF RnAllKeys
    <2>10. o # "none"
      BY <1>1, <1>s, <2>2, <2>9 DEF RnShape
    <2>11. o = "create" => rnFile = NoNote
      BY <2>1, <2>2 DEF Conflicts
    <2>12. o # "create" => rnFile # NoNote
      BY <1>s, <2>2, <2>9, <2>10 DEF RnShape
    <2>13. o \in {"content", "append"} => rnFile.body = rnRequest[k].expected
      <3> SUFFICES ASSUME o \in {"content", "append"} PROVE rnFile.body = rnRequest[k].expected
        OBVIOUS
      <3>1. rnRequest[k].expected \in Seq(RnText)
        BY <1>s, <2>2, <2>9 DEF RnShape
      <3>2. rnRequest[k].expected # Nobody
        BY <3>1, RnDistinct
      <3>3. Part(rnFile, rnRequest[k].op) = rnRequest[k].expected
        BY <2>1, <2>2, <3>2 DEF Conflicts
      <3>4. Part(rnFile, rnRequest[k].op) = rnFile.body
        BY <2>2 DEF Part
      <3> QED BY <3>3, <3>4
    <2>t. o = "append" /\ rnTimes[k] >= 1 => k \in rnTaken
      <3> SUFFICES ASSUME o = "append", rnTimes[k] >= 1 PROVE k \in rnTaken
        OBVIOUS
      <3>1. k \in RnKeys /\ rnFile # NoNote
        BY <1>s, <2>2, <2>9, <2>12 DEF RnShape
      <3>2. k \in rnKept \cup rnTaken
        BY <1>s, <2>2, <3>1 DEF RnOnce
      <3>3. ~Contains(rnFile.body, k)
        BY <2>1, <2>2, <3>1 DEF Already
      <3>4. k \notin ToSet(rnFile.body)
        BY <3>3 DEF Contains, ToSet
      <3>5. rnKept \subseteq ToSet(rnFile.body)
        BY <1>s, <3>1 DEF RnBodies
      <3> QED BY <3>2, <3>4, <3>5
    <2>14. ASSUME NEW q \in RnProcs PROVE RnHolds(q)'
      <3>1. CASE q # p
        BY <1>4, <2>7, <3>1 DEF RnHolds
      <3>2. CASE q = p
        <4>1. rnFile # NoNote => RnShort(rnFile.body)' /\ RnKnown(rnFile.body)' /\ rnKept' \subseteq ToSet(rnFile.body)
          BY <1>1, <1>3 DEF RnBodies
        <4>2. t.step # "idle" /\ t.step # "replace" /\ (t.step = "recheck" => o = "append")
          BY <2>5
        <4>3. rnRequest'[k].op = o /\ rnFile' = rnFile /\ rnRequest' = rnRequest
          BY <1>1, <2>2
        <4> QED BY <1>1, <2>2, <2>4, <2>5, <2>7, <2>10, <2>11, <2>12, <2>13, <2>t, <3>2, <4>1, <4>2, <4>3
                DEF RnHolds, RnShort, RnKnown
      <3> QED BY <3>1, <3>2
    <2>15. RnTempsOK'
      <3>1. \A q \in RnProcs : rnCall'[q].step # "replace" /\ rnCall[q].step # "replace"
        BY <1>4, <2>5, <2>7
      <3> QED BY <1>1, <1>s, <3>1 DEF RnTempsOK, RnReplacing
    <2> QED BY <1>3, <2>8, <2>14, <2>15 DEF RnInv
  <1> QED BY <1>6, <1>7

\* The second reading of append: refused, or the file as it is.
LEMMA RnRecheckInv ==
    ASSUME RnInv, NEW p \in RnProcs, Recheck(p)
    PROVE  RnInv'
  <1>1. /\ rnCall[p].step = "recheck"
        /\ UNCHANGED <<rnFile, rnTemps, rnRequest, rnSent, rnTimes, rnPast, rnKept, rnTaken, rnSaves, rnCrashes>>
    BY DEF Recheck
  <1>s. RnShape /\ RnBodies /\ RnOnce /\ RnTempsOK
    BY DEF RnInv
  <1>h. \A q \in RnProcs : RnHolds(q)
    BY DEF RnInv
  <1>3. RnBodies' /\ RnOnce'
    BY <1>1, <1>s DEF RnBodies, RnOnce, RnShort, RnKnown
  <1>4. \A q \in RnProcs : q # p => rnCall[q].step = "idle"
    BY <1>1, <1>h DEF RnHolds
  <1>5. rnCall \in [RnProcs -> RnCallType]
    BY <1>s DEF RnShape
  <1>n. ~RnReplacing
    BY <1>1, <1>4 DEF RnReplacing
  <1>6. PICK k : k = rnCall[p].key
    OBVIOUS
  <1>7. CASE rnFile.body # rnRequest[k].expected
    <2>1. Leave(p)
      BY <1>6, <1>7 DEF Recheck
    <2>2. /\ rnLock' = Nobody /\ rnCall' \in [RnProcs -> RnCallType]
          /\ \A q \in RnProcs : rnCall'[q].step = "idle" /\ RnHolds(q)'
      BY <1>1, <1>s, <1>h, <2>1, RnLeft
    <2>3. RnShape'
      BY <1>1, <1>s, <2>2 DEF RnShape
    <2>4. RnTempsOK'
      BY <1>1, <1>s, <1>n, <2>2 DEF RnTempsOK, RnReplacing
    <2> QED BY <1>3, <2>2, <2>3, <2>4 DEF RnInv
  <1>8. CASE rnFile.body = rnRequest[k].expected
    <2>1. PICK t : t = [rnCall[p] EXCEPT !.seen = rnFile, !.step = "write", !.disturbed = FALSE]
      OBVIOUS
    <2>2. rnLock' = rnLock /\ rnCall' = [rnCall EXCEPT ![p] = t]
      BY <1>5, <1>6, <1>8, <2>1 DEF Recheck
    <2>3. rnCall[p] \in RnCallType
      BY <1>5
    <2>4. t.key = k /\ t.seen = rnFile /\ t.step = "write" /\ t.disturbed = FALSE
      BY <1>6, <2>1, <2>3 DEF RnCallType
    <2>5. t \in RnCallType
      <3>1. rnFile \in RnDocType \cup {NoNote}
        BY <1>s DEF RnShape
      <3> QED BY <2>1, <2>3, <3>1 DEF RnCallType
    <2>6. rnCall' \in [RnProcs -> RnCallType] /\ rnCall'[p] = t
          /\ \A q \in RnProcs : q # p => rnCall'[q] = rnCall[q]
      BY <1>5, <2>2, <2>5
    <2>7. RnShape'
      BY <1>1, <1>s, <2>2, <2>6 DEF RnShape
    <2>8. /\ rnLock = p /\ k \in RnAllKeys /\ rnRequest[k].op = "append"
          /\ rnTimes[k] >= 1 => k \in rnTaken
      BY <1>1, <1>6, <1>h DEF RnHolds
    <2>9. rnFile # NoNote
      <3>1. k = NewNote \/ k \in RnKeys
        BY <2>8 DEF RnAllKeys
      <3> QED BY <1>s, <2>8, <3>1 DEF RnShape
    <2>10. ASSUME NEW q \in RnProcs PROVE RnHolds(q)'
      <3>1. CASE q # p
        BY <1>4, <2>6, <3>1 DEF RnHolds
      <3>2. CASE q = p
        <4>1. RnShort(rnFile.body)' /\ RnKnown(rnFile.body)' /\ rnKept' \subseteq ToSet(rnFile.body)
          BY <1>1, <1>3, <2>9 DEF RnBodies
        <4>2. rnRequest' = rnRequest /\ rnFile' = rnFile /\ rnTimes' = rnTimes /\ rnTaken' = rnTaken
          BY <1>1
        <4> QED BY <1>8, <2>2, <2>4, <2>6, <2>8, <2>9, <3>2, <4>1, <4>2 DEF RnHolds, RnShort, RnKnown
      <3> QED BY <3>1, <3>2
    <2>11. RnTempsOK'
      <3>1. \A q \in RnProcs : rnCall'[q].step # "replace"
        BY <1>4, <2>4, <2>6
      <3> QED BY <1>1, <1>s, <1>n, <3>1 DEF RnTempsOK, RnReplacing
    <2> QED BY <1>3, <2>7, <2>10, <2>11 DEF RnInv
  <1> QED BY <1>7, <1>8

\* The temporary file is written.
LEMMA RnWriteTempInv ==
    ASSUME RnInv, NEW p \in RnProcs, WriteTemp(p)
    PROVE  RnInv'
  <1>1. /\ rnCall[p].step = "write" /\ rnTemps' = rnTemps + 1
        /\ rnCall' = [rnCall EXCEPT ![p].step = "replace"]
        /\ UNCHANGED <<rnFile, rnLock, rnRequest, rnSent, rnTimes, rnPast, rnKept, rnTaken, rnSaves, rnCrashes>>
    BY DEF WriteTemp
  <1>s. RnShape /\ RnBodies /\ RnOnce /\ RnTempsOK
    BY DEF RnInv
  <1>h. \A q \in RnProcs : RnHolds(q)
    BY DEF RnInv
  <1>3. RnBodies' /\ RnOnce'
    BY <1>1, <1>s DEF RnBodies, RnOnce, RnShort, RnKnown
  <1>4. \A q \in RnProcs : q # p => rnCall[q].step = "idle"
    BY <1>1, <1>h DEF RnHolds
  <1>5. rnCall \in [RnProcs -> RnCallType]
    BY <1>s DEF RnShape
  <1>n. ~RnReplacing
    BY <1>1, <1>4 DEF RnReplacing
  <1>6. PICK s : s = rnCall[p]
    OBVIOUS
  <1>7. PICK t : t = [s EXCEPT !.step = "replace"]
    OBVIOUS
  <1>8. s \in RnCallType
    BY <1>5, <1>6
  <1>9. t \in RnCallType /\ t.step = "replace" /\ t.key = s.key /\ t.seen = s.seen /\ t.disturbed = s.disturbed
    BY <1>7, <1>8 DEF RnCallType
  <1>10. rnCall' \in [RnProcs -> RnCallType] /\ rnCall'[p] = t
         /\ \A q \in RnProcs : q # p => rnCall'[q] = rnCall[q]
    <2>1. rnCall' = [rnCall EXCEPT ![p] = t]
      BY <1>1, <1>5, <1>6, <1>7
    <2> QED BY <1>5, <1>9, <2>1
  <1>11. RnShape'
    BY <1>1, <1>s, <1>10 DEF RnShape
  <1>12. ASSUME NEW q \in RnProcs PROVE RnHolds(q)'
    <2>1. CASE q # p
      BY <1>4, <1>10, <2>1 DEF RnHolds
    <2>2. CASE q = p
      <3>1. RnHolds(p) /\ s.step = "write"
        BY <1>1, <1>6, <1>h
      <3>2. rnRequest' = rnRequest /\ rnFile' = rnFile /\ rnLock' = rnLock /\ rnKept' = rnKept /\ rnSaves' = rnSaves
            /\ rnTimes' = rnTimes /\ rnTaken' = rnTaken
        BY <1>1
      <3> QED BY <1>6, <1>9, <1>10, <2>2, <3>1, <3>2 DEF RnHolds, RnShort, RnKnown
    <2> QED BY <2>1, <2>2
  <1>13. RnTempsOK'
    <2>1. RnReplacing'
      BY <1>9, <1>10 DEF RnReplacing
    <2>2. rnTemps \in Nat /\ rnTemps <= rnCrashes /\ rnCrashes \in 0 .. MaxRnCrashes
      BY <1>s, <1>n DEF RnTempsOK
    <2> QED BY <1>1, <2>1, <2>2 DEF RnTempsOK
  <1> QED BY <1>3, <1>11, <1>12, <1>13 DEF RnInv

\* A process dies: its lock is free, its temporary file stays.
LEMMA RnCrashInv ==
    ASSUME RnInv, NEW p \in RnProcs, RnCrash(p)
    PROVE  RnInv'
  <1>1. /\ rnCall[p].step # "idle" /\ rnCrashes < MaxRnCrashes /\ rnCrashes' = rnCrashes + 1 /\ Leave(p)
        /\ UNCHANGED <<rnFile, rnTemps, rnRequest, rnSent, rnTimes, rnPast, rnKept, rnTaken, rnSaves>>
    BY DEF RnCrash
  <1>s. RnShape /\ RnBodies /\ RnOnce /\ RnTempsOK
    BY DEF RnInv
  <1>h. \A q \in RnProcs : RnHolds(q)
    BY DEF RnInv
  <1>2. /\ rnLock' = Nobody /\ rnCall' \in [RnProcs -> RnCallType]
        /\ \A q \in RnProcs : rnCall'[q].step = "idle" /\ RnHolds(q)'
    BY <1>1, <1>s, <1>h, RnLeft
  <1>3. RnBodies' /\ RnOnce'
    BY <1>1, <1>s DEF RnBodies, RnOnce, RnShort, RnKnown
  <1>4. RnShape'
    BY <1>1, <1>s, <1>2 DEF RnShape
  <1>5. RnTempsOK'
    <2>1. ~RnReplacing'
      BY <1>2 DEF RnReplacing
    <2>2. rnTemps \in Nat /\ rnTemps <= rnCrashes + 1 /\ rnCrashes \in 0 .. MaxRnCrashes /\ MaxRnCrashes \in Nat
      BY <1>s, RnDistinct DEF RnTempsOK
    <2> QED BY <1>1, <2>1, <2>2 DEF RnTempsOK
  <1> QED BY <1>2, <1>3, <1>4, <1>5 DEF RnInv

\* The editor saves: calls under way are disturbed.
LEMMA RnEditorInv ==
    ASSUME RnInv, EditorSave
    PROVE  RnInv'
  <1>1. PICK b \in {Append(rnFile.body, Hand)} \cup (IF rnFile.body = <<>> THEN {} ELSE {Front(rnFile.body)}) :
            /\ rnFile' = [rnFile EXCEPT !.body = b] /\ rnKept' = rnKept \cap ToSet(b)
            /\ rnPast' = rnPast \cup {b} /\ rnTaken' = rnTaken \cup (rnKept \ ToSet(b))
    BY DEF EditorSave, RnRewritten
  <1>2. /\ rnFile # NoNote /\ rnSaves < MaxSaves /\ rnSaves' = rnSaves + 1
        /\ rnCall' = [p \in RnProcs |-> [rnCall[p] EXCEPT !.disturbed = rnCall[p].step # "idle"]]
        /\ UNCHANGED <<rnTemps, rnLock, rnRequest, rnSent, rnTimes, rnCrashes>>
    BY DEF EditorSave
  <1>s. RnShape /\ RnBodies /\ RnOnce /\ RnTempsOK
    BY DEF RnInv
  <1>h. \A q \in RnProcs : RnHolds(q)
    BY DEF RnInv
  <1>t. rnFile \in RnDocType /\ rnCall \in [RnProcs -> RnCallType] /\ rnSaves \in 0 .. MaxSaves /\ rnSaves \in Nat
        /\ MaxSaves \in Nat
    BY <1>2, <1>s, RnDistinct DEF RnShape
  <1>3. PICK c : c = rnFile.body
    OBVIOUS
  <1>4. c \in Seq(RnText) /\ Len(c) <= Cardinality(ToSet(c) \ {Hand}) + rnSaves /\ RnKnown(c) /\ rnKept \subseteq ToSet(c)
    BY <1>2, <1>3, <1>s, <1>t DEF RnBodies, RnShort, RnDocType
  <1>5. b \in Seq(RnText) /\ Len(b) <= Cardinality(ToSet(b) \ {Hand}) + (rnSaves + 1)
        /\ ToSet(b) \subseteq ToSet(c) \cup {Hand} /\ EachOnce(b)
    <2>0. EachOnce(c)
      BY <1>4 DEF RnKnown
    <2>1. CASE b = Append(c, Hand)
      <3>1. Hand \in RnText
        BY DEF RnText
      <3>2. b \in Seq(RnText) /\ ToSet(b) = ToSet(c) \cup {Hand}
        BY <1>4, <2>1, <3>1, RnAppended
      <3>3. Len(b) <= Cardinality(ToSet(b) \ {Hand}) + (rnSaves + 1)
        BY <1>4, <1>t, <2>1, RnBounded
      <3>4. EachOnce(b)
        BY <1>4, <2>0, <2>1, <3>1, RnEachOnce
      <3> QED BY <3>2, <3>3, <3>4
    <2>2. CASE c # << >> /\ b = Front(c)
      <3>1. b \in Seq(RnText) /\ ToSet(b) \subseteq ToSet(c)
        BY <1>4, <2>2, RnShortened
      <3>2. Len(b) <= Cardinality(ToSet(b) \ {Hand}) + (rnSaves + 1)
        BY <1>4, <1>t, <2>2, RnBounded
      <3>3. EachOnce(b)
        BY <1>4, <2>0, <2>2, RnEachOnce
      <3> QED BY <3>1, <3>2, <3>3
    <2> QED BY <1>1, <1>3, <2>1, <2>2
  <1>6. rnFile' \in RnDocType /\ rnFile'.body = b /\ rnFile' # NoNote
    BY <1>1, <1>5, <1>t, RnDistinct DEF RnDocType
  <1>7. rnSaves' \in 0 .. MaxSaves /\ rnSaves' > 0 /\ rnSaves' \in Nat
    BY <1>2, <1>t
  <1>8. \A q \in RnProcs : /\ rnCall'[q] \in RnCallType /\ rnCall'[q].step = rnCall[q].step
                           /\ rnCall'[q].key = rnCall[q].key /\ rnCall'[q].seen = rnCall[q].seen
                           /\ (rnCall[q].step # "idle" => rnCall'[q].disturbed)
    <2> SUFFICES ASSUME NEW q \in RnProcs
                 PROVE  /\ rnCall'[q] \in RnCallType /\ rnCall'[q].step = rnCall[q].step
                        /\ rnCall'[q].key = rnCall[q].key /\ rnCall'[q].seen = rnCall[q].seen
                        /\ (rnCall[q].step # "idle" => rnCall'[q].disturbed)
      OBVIOUS
    <2>1. PICK s, g : s = rnCall[q] /\ g = (s.step # "idle")
      OBVIOUS
    <2>2. s \in RnCallType /\ g \in BOOLEAN
      BY <1>t, <2>1
    <2>3. rnCall'[q] = [s EXCEPT !.disturbed = g]
      BY <1>2, <2>1
    <2>4. /\ [s EXCEPT !.disturbed = g] \in RnCallType /\ [s EXCEPT !.disturbed = g].step = s.step
          /\ [s EXCEPT !.disturbed = g].key = s.key /\ [s EXCEPT !.disturbed = g].seen = s.seen
          /\ [s EXCEPT !.disturbed = g].disturbed = g
      BY <2>2 DEF RnCallType
    <2> QED BY <2>1, <2>3, <2>4
  <1>9. rnCall' \in [RnProcs -> RnCallType]
    BY <1>2, <1>8
  <1>10. RnShape'
    <2>1. rnPast' \subseteq Seq(RnText)
      BY <1>1, <1>5, <1>s DEF RnShape
    <2> QED BY <1>2, <1>6, <1>7, <1>9, <1>s, <2>1 DEF RnShape
  <1>11. \A x \in Seq(RnText) : (RnShort(x) => RnShort(x)') /\ (RnKnown(x) => RnKnown(x)')
    <2> SUFFICES ASSUME NEW x \in Seq(RnText) PROVE (RnShort(x) => RnShort(x)') /\ (RnKnown(x) => RnKnown(x)')
      OBVIOUS
    <2>1. Cardinality(ToSet(x) \ {Hand}) \in Nat
      BY RnFinite
    <2>2. Len(x) \in Nat
      OBVIOUS
    <2> QED BY <1>2, <1>t, <2>1, <2>2 DEF RnShort, RnKnown
  <1>12. Hand \notin RnKeys
    BY RnAssumption DEF Hand
  <1>13. RnBodies'
    <2>1. RnShort(rnFile.body)' /\ RnKnown(rnFile.body)' /\ rnKept' \subseteq ToSet(rnFile'.body)
      <3>1. RnKnown(b)
        BY <1>4, <1>5, <1>12 DEF RnKnown
      <3>2. RnKnown(b)' /\ RnShort(b)'
        BY <1>2, <1>5, <3>1 DEF RnShort, RnKnown
      <3> QED BY <1>1, <1>6, <3>2 DEF RnShort, RnKnown
    <2>2. ASSUME NEW j \in RnKeys, rnRequest[j].op \in {"content", "append"}
          PROVE  RnShort(rnRequest[j].expected)' /\ RnKnown(rnRequest[j].expected)' /\ j \notin ToSet(rnRequest[j].expected)
      <3>1. PICK x : x = rnRequest[j].expected
        OBVIOUS
      <3>2. x \in Seq(RnText) /\ RnShort(x) /\ RnKnown(x) /\ j \notin ToSet(x)
        BY <1>s, <2>2, <3>1 DEF RnShape, RnBodies
      <3>3. RnShort(x)' /\ RnKnown(x)'
        BY <1>11, <3>2
      <3> QED BY <1>2, <3>1, <3>2, <3>3 DEF RnShort, RnKnown
    <2>3. ASSUME NEW j \in RnKeys, rnRequest[j].op = "content"
          PROVE  RnShort(rnRequest[j].wants)' /\ RnKnown(rnRequest[j].wants)'
      <3>1. PICK x : x = rnRequest[j].wants
        OBVIOUS
      <3>2. x \in Seq(RnText) /\ RnShort(x) /\ RnKnown(x)
        BY <1>s, <2>3, <3>1 DEF RnShape, RnBodies
      <3>3. RnShort(x)' /\ RnKnown(x)'
        BY <1>11, <3>2
      <3> QED BY <1>2, <3>1, <3>3 DEF RnShort, RnKnown
    <2>4. ASSUME NEW x \in rnPast' PROVE RnShort(x)' /\ RnKnown(x)'
      <3>1. CASE x \in rnPast
        BY <1>11, <1>s, <3>1 DEF RnShape, RnBodies
      <3>2. CASE x = b
        BY <1>6, <2>1, <3>2 DEF RnShort, RnKnown
      <3> QED BY <1>1, <3>1, <3>2
    <2> QED BY <1>2, <2>1, <2>2, <2>3, <2>4 DEF RnBodies
  <1>14. ASSUME NEW q \in RnProcs PROVE RnHolds(q)'
    <2>1. PICK s, t : s = rnCall[q] /\ t = rnCall'[q]
      OBVIOUS
    <2>2. s \in RnCallType /\ t.step = s.step /\ t.key = s.key /\ t.seen = s.seen /\ (s.step # "idle" => t.disturbed)
      BY <1>8, <1>t, <2>1
    <2>3. CASE s.step = "idle"
      BY <2>1, <2>2, <2>3 DEF RnHolds
    <2>4. CASE s.step # "idle"
      <3>1. /\ rnLock = q /\ s.key \in RnAllKeys /\ rnRequest[s.key].op # "none"
            /\ s.step = "recheck" => rnRequest[s.key].op = "append"
            /\ rnRequest[s.key].op # "create" /\ s.seen # NoNote
            /\ rnRequest[s.key].op = "append" /\ rnTimes[s.key] >= 1 => s.key \in rnTaken
        BY <1>2, <1>h, <2>1, <2>4 DEF RnHolds
      <3>2. s.seen \in RnDocType /\ s.seen.body \in Seq(RnText)
        BY <2>2, <3>1 DEF RnCallType, RnDocType
      <3>3. PICK sb : sb = s.seen.body
        OBVIOUS
      <3>4. s.step \in {"write", "replace"} =>
              /\ RnShort(sb) /\ RnKnown(sb) /\ rnKept \subseteq ToSet(sb)
              /\ rnRequest[s.key].op \in {"content", "append"} => sb = rnRequest[s.key].expected
        BY <1>h, <2>1, <3>1, <3>3 DEF RnHolds
      <3>5. s.step \in {"write", "replace"} =>
              /\ RnShort(sb)' /\ RnKnown(sb)' /\ rnKept' \subseteq ToSet(sb)
        BY <1>1, <1>11, <3>2, <3>3, <3>4
      <3>6. t.step \in {"write", "replace"} =>
              /\ RnShort(t.seen.body)' /\ RnKnown(t.seen.body)' /\ rnKept' \subseteq ToSet(t.seen.body)
              /\ rnRequest'[t.key].op \in {"content", "append"} => t.seen.body = rnRequest'[t.key].expected
        BY <1>2, <2>2, <3>3, <3>4, <3>5 DEF RnShort, RnKnown
      <3>7. /\ rnLock' = q /\ t.key \in RnAllKeys /\ rnRequest'[t.key].op # "none"
            /\ t.step = "recheck" => rnRequest'[t.key].op = "append"
            /\ rnRequest'[t.key].op # "create" /\ t.seen # NoNote /\ t.disturbed
            /\ rnRequest'[t.key].op = "append" /\ rnTimes'[t.key] >= 1 => t.key \in rnTaken'
        BY <1>1, <1>2, <2>2, <2>4, <3>1
      <3> QED BY <2>1, <3>6, <3>7 DEF RnHolds, RnShort, RnKnown
    <2> QED BY <2>3, <2>4
  <1>15. RnOnce'
    BY <1>1, <1>2, <1>s DEF RnOnce
  <1>16. RnTempsOK'
    <2>1. RnReplacing' <=> RnReplacing
      BY <1>8 DEF RnReplacing
    <2> QED BY <1>2, <1>s, <2>1 DEF RnTempsOK
  <1> QED BY <1>10, <1>13, <1>14, <1>15, <1>16 DEF RnInv

\* What a call writes: a note within bounds that has every kept text.
LEMMA RnRenders ==
    ASSUME RnInv, NEW p \in RnProcs, rnCall[p].step = "replace", NEW d, d = Rendered(p),
           NEW k, k = rnCall[p].key, NEW kept,
           rnRequest[k].op = "append" => kept = rnKept \cup {k},
           rnRequest[k].op = "content" => kept = rnKept \cap ToSet(rnRequest[k].wants),
           rnRequest[k].op \notin {"append", "content"} => kept = rnKept
    PROVE  /\ k \in RnAllKeys /\ rnRequest[k].op # "none" /\ d \in RnDocType
           /\ RnShort(d.body) /\ RnKnown(d.body) /\ kept \subseteq ToSet(d.body)
           /\ rnRequest[k].op = "create" => rnFile = NoNote /\ k = NewNote
           /\ rnRequest[k].op # "create" => rnFile # NoNote /\ k # NewNote
           /\ rnRequest[k].op = "content" => d.body = rnRequest[k].wants
           /\ rnRequest[k].op = "append" /\ rnTimes[k] >= 1 => k \in rnTaken
  <1>s. RnShape /\ RnBodies /\ RnOnce
    BY DEF RnInv
  <1>1. PICK o, x, s : o = rnRequest[k].op /\ x = rnRequest[k].expected /\ s = rnCall[p].seen
    OBVIOUS
  <1>2. /\ k \in RnAllKeys /\ o # "none" /\ (o = "create" => rnFile = NoNote) /\ (o # "create" => s # NoNote)
        /\ (o = "append" /\ rnTimes[k] >= 1 => k \in rnTaken)
        /\ s # NoNote => RnShort(s.body) /\ RnKnown(s.body) /\ rnKept \subseteq ToSet(s.body)
        /\ o \in {"content", "append"} => s.body = x
    BY <1>1 DEF RnInv, RnHolds
  <1>3. rnCall \in [RnProcs -> RnCallType] /\ rnSaves \in Nat
    BY <1>s DEF RnShape
  <1>4. s # NoNote => s \in RnDocType /\ s.body \in Seq(RnText)
    BY <1>1, <1>3 DEF RnCallType, RnDocType
  <1>5. k = NewNote \/ k \in RnKeys
    BY <1>2 DEF RnAllKeys
  <1>6. /\ k = NewNote => o = "create"
        /\ k \in RnKeys => o \in RnOps /\ rnFile # NoNote /\ NewNote # k
    <2>1. rnRequest[k] \in RnRequestType
      BY <1>2, <1>s DEF RnShape
    <2>2. o \in RnOps \cup {"none", "create"}
      BY <1>1, <2>1 DEF RnRequestType
    <2> QED BY <1>1, <1>2, <1>s, <2>2, RnDistinct DEF RnShape
  <1>7. d = Desired(k, s)
    BY <1>1 DEF Rendered
  <1>8. /\ <<k>> \in Seq(RnText) /\ EachOnce(<<k>>) /\ ToSet(<<k>>) = {k}
        /\ Len(<<k>>) <= Cardinality(ToSet(<<k>>) \ {Hand}) + rnSaves
    BY <1>2, <1>3, RnSingle
  <1>9. RnShort(<<k>>) /\ RnKnown(<<k>>)
    BY <1>1, <1>2, <1>8 DEF RnShort, RnKnown
  <1>12. CASE o = "create"
    <2>1. d = [title |-> k, tags |-> {}, body |-> <<k>>]
      BY <1>1, <1>7, <1>12 DEF Desired
    <2>2. d.body = <<k>> /\ d \in RnDocType
      BY <1>2, <1>8, <2>1 DEF RnDocType, RnTags
    <2>3. kept = {} /\ k = NewNote /\ rnFile = NoNote
      BY <1>1, <1>2, <1>5, <1>6, <1>12, <1>s DEF RnShape, RnOps
    <2> QED BY <1>1, <1>2, <1>9, <1>12, <2>2, <2>3
  <1>13. CASE o = "content"
    <2>0. PICK w : w = rnRequest[k].wants
      OBVIOUS
    <2>1. d = [s EXCEPT !.body = w]
      BY <1>1, <1>7, <1>13, <2>0 DEF Desired
    <2>2. s \in RnDocType /\ k \in RnKeys
      BY <1>2, <1>4, <1>5, <1>6, <1>13
    <2>3. w \in Seq(RnText) /\ RnShort(w) /\ RnKnown(w)
      BY <1>1, <1>13, <1>s, <2>0, <2>2 DEF RnShape, RnBodies
    <2>4. d.body = w /\ d \in RnDocType
      BY <2>1, <2>2, <2>3 DEF RnDocType
    <2>5. kept = rnKept \cap ToSet(w)
      BY <1>1, <1>13, <2>0
    <2> QED BY <1>1, <1>2, <1>6, <1>13, <2>0, <2>2, <2>3, <2>4, <2>5
  <1>14. CASE o = "append"
    <2>1. PICK b : b = Append(s.body, k)
      OBVIOUS
    <2>2. s \in RnDocType /\ s.body \in Seq(RnText) /\ RnShort(s.body) /\ RnKnown(s.body) /\ rnKept \subseteq ToSet(s.body)
      BY <1>2, <1>4, <1>14
    <2>3. d = [s EXCEPT !.body = b]
      BY <1>1, <1>7, <1>14, <2>1, <2>2 DEF Desired, RnDocType
    <2>4. k \in RnText
      BY <1>2 DEF RnText
    <2>5. b \in Seq(RnText) /\ ToSet(b) = ToSet(s.body) \cup {k}
      BY <2>1, <2>2, <2>4, RnAppended
    <2>6. d.body = b /\ d \in RnDocType
      BY <2>2, <2>3, <2>5 DEF RnDocType
    <2>7. k \notin ToSet(s.body)
      BY <1>1, <1>2, <1>5, <1>6, <1>14, <1>s DEF RnBodies
    <2>8. RnShort(b)
      <3>1. PICK c : c = s.body
        OBVIOUS
      <3>2. c \in Seq(RnText) /\ Len(c) <= Cardinality(ToSet(c) \ {Hand}) + rnSaves /\ k \notin ToSet(c)
        BY <2>2, <2>7, <3>1 DEF RnShort
      <3>3. Len(Append(c, k)) <= Cardinality(ToSet(Append(c, k)) \ {Hand}) + rnSaves
        BY <1>2, <1>3, <3>2, RnBounded
      <3> QED BY <2>1, <3>1, <3>3 DEF RnShort
    <2>9. RnKnown(b)
      <3>1. EachOnce(b)
        BY <2>1, <2>2, <2>4, <2>7, RnEachOnce DEF RnKnown
      <3> QED BY <1>1, <1>2, <2>2, <2>5, <3>1 DEF RnKnown
    <2>10. kept = rnKept \cup {k}
      BY <1>1, <1>14
    <2> QED BY <1>1, <1>2, <1>5, <1>6, <1>14, <2>2, <2>5, <2>6, <2>8, <2>9, <2>10
  <1>15. CASE o \in {"tags", "title"}
    <2>1. k \in RnKeys /\ s # NoNote
      BY <1>2, <1>5, <1>6, <1>15
    <2>2. s \in RnDocType /\ s.body \in Seq(RnText) /\ RnShort(s.body) /\ RnKnown(s.body) /\ rnKept \subseteq ToSet(s.body)
      BY <1>2, <1>4, <2>1
    <2>0. PICK w : w = rnRequest[k].wants
      OBVIOUS
    <2>3. (o = "tags" /\ d = [s EXCEPT !.tags = w]) \/ (o = "title" /\ d = [s EXCEPT !.title = w])
      BY <1>1, <1>7, <1>15, <2>0 DEF Desired
    <2>w. (o = "tags" => w \in RnTags) /\ (o = "title" => w \in RnAllKeys)
      BY <1>1, <1>s, <2>0, <2>1 DEF RnShape
    <2>4. d.body = s.body /\ d \in RnDocType
      BY <2>2, <2>3, <2>w DEF RnDocType
    <2>5. kept = rnKept
      BY <1>1, <1>15
    <2> QED BY <1>1, <1>2, <1>5, <1>6, <1>15, <2>1, <2>2, <2>4, <2>5
  <1> QED BY <1>5, <1>6, <1>12, <1>13, <1>14, <1>15 DEF RnOps

\* The file is replaced.
LEMMA RnReplaceInv ==
    ASSUME RnInv, NEW p \in RnProcs, Replace(p)
    PROVE  RnInv'
  <1>1. PICK d, k, w : d = Rendered(p) /\ k = rnCall[p].key /\ w = rnRequest[k].wants
    OBVIOUS
  <1>2. /\ rnCall[p].step = "replace" /\ rnFile' = d /\ rnTimes' = [rnTimes EXCEPT ![k] = @ + 1]
        /\ rnTemps' = rnTemps - 1 /\ Leave(p)
        /\ UNCHANGED <<rnRequest, rnSent, rnSaves, rnCrashes>>
    BY <1>1 DEF Replace
  <1>e. /\ rnRequest[k].op = "append" =>
              rnKept' = rnKept \cup {k} /\ rnPast' = rnPast \cup {d.body} /\ rnTaken' = rnTaken
        /\ rnRequest[k].op = "content" =>
              rnKept' = rnKept \cap ToSet(w) /\ rnPast' = rnPast \cup {w} /\ rnTaken' = rnTaken \cup (rnKept \ ToSet(w))
        /\ rnRequest[k].op \notin {"append", "content"} =>
              rnKept' = rnKept /\ rnPast' = rnPast \cup {d.body} /\ rnTaken' = rnTaken
    BY <1>1 DEF Replace, RnRewritten
  <1>3. /\ k \in RnAllKeys /\ rnRequest[k].op # "none" /\ d \in RnDocType
        /\ RnShort(d.body) /\ RnKnown(d.body) /\ rnKept' \subseteq ToSet(d.body)
        /\ rnRequest[k].op = "create" => rnFile = NoNote /\ k = NewNote
        /\ rnRequest[k].op # "create" => rnFile # NoNote /\ k # NewNote
        /\ rnRequest[k].op = "content" => d.body = w
        /\ rnRequest[k].op = "append" /\ rnTimes[k] >= 1 => k \in rnTaken
    BY <1>1, <1>2, <1>e, RnRenders
  <1>p. rnPast' = rnPast \cup {d.body}
    BY <1>e, <1>3
  <1>s. RnShape /\ RnBodies /\ RnOnce /\ RnTempsOK
    BY DEF RnInv
  <1>4. /\ rnLock' = Nobody /\ rnCall' \in [RnProcs -> RnCallType]
        /\ \A q \in RnProcs : rnCall'[q].step = "idle" /\ RnHolds(q)'
    <2>1. \A q \in RnProcs : RnHolds(q)
      BY DEF RnInv
    <2>2. rnCall[p].step # "idle"
      BY <1>2
    <2> QED BY <1>2, <1>s, <2>1, <2>2, RnLeft
  <1>5. /\ rnTimes \in [RnAllKeys -> Nat] /\ rnTimes' \in [RnAllKeys -> Nat]
        /\ \A j \in RnAllKeys : rnTimes'[j] = IF j = k THEN rnTimes[k] + 1 ELSE rnTimes[j]
    <2>1. rnTimes \in [RnAllKeys -> Nat]
      BY <1>s DEF RnShape
    <2> QED BY <1>2, <1>3, <2>1
  <1>6. rnFile' # NoNote
    BY <1>2, <1>3, RnDistinct
  <1>7. RnShape'
    <2>1. d.body \in Seq(RnText) /\ rnPast' \subseteq Seq(RnText)
      BY <1>3, <1>p, <1>s DEF RnShape, RnDocType
    <2> QED BY <1>2, <1>3, <1>4, <1>5, <1>6, <1>s, <2>1 DEF RnShape
  <1>8. RnBodies'
    <2>1. RnShort(rnFile.body)' /\ RnKnown(rnFile.body)' /\ rnKept' \subseteq ToSet(rnFile'.body)
      BY <1>2, <1>3 DEF RnShort, RnKnown
    <2>2. \A x \in rnPast' : RnShort(x)' /\ RnKnown(x)'
      BY <1>2, <1>3, <1>p, <1>s DEF RnBodies, RnShort, RnKnown
    <2> QED BY <1>2, <1>s, <2>1, <2>2 DEF RnBodies, RnShort, RnKnown
  <1>9. RnOnce'
    <2>k. NewNote \in RnAllKeys /\ \A j \in RnKeys : j \in RnAllKeys /\ j # NewNote
      BY RnDistinct
    <2>1. rnTimes'[NewNote] <= 1
      <3>1. k = NewNote => rnTimes[NewNote] = 0
        BY <1>3, <1>s DEF RnShape
      <3>2. rnTimes[NewNote] <= 1
        BY <1>s DEF RnOnce
      <3> QED BY <1>5, <2>k, <3>1, <3>2
    <2>2. \A j \in RnKeys : rnRequest[j].op = "none" => rnTimes'[j] = 0
      BY <1>3, <1>5, <1>s, <2>k DEF RnOnce
    <2>3. rnTaken \subseteq rnTaken' /\ rnKept \subseteq rnKept' \cup rnTaken'
      BY <1>e
    <2>4. ASSUME NEW j \in RnKeys, rnRequest[j].op = "append"
          PROVE  /\ rnTimes'[j] >= 1 => j \in rnKept' \cup rnTaken'
                 /\ rnTimes'[j] > 1 => j \in rnTaken'
      <3>1. /\ rnTimes[j] >= 1 => j \in rnKept \cup rnTaken
            /\ rnTimes[j] > 1 => j \in rnTaken
        BY <1>s, <2>4 DEF RnOnce
      <3>2. CASE j # k
        BY <1>5, <2>3, <2>k, <3>1, <3>2
      <3>3. CASE j = k
        <4>1. j \in rnKept'
          BY <1>e, <2>4, <3>3
        <4>2. rnTimes[j] \in Nat /\ rnTimes'[j] = rnTimes[j] + 1
          BY <1>5, <2>k, <3>3
        <4>3. rnTimes[j] >= 1 => j \in rnTaken
          BY <1>3, <2>4, <3>3
        <4> QED BY <2>3, <4>1, <4>2, <4>3
      <3> QED BY <3>2, <3>3
    <2> QED BY <1>2, <2>1, <2>2, <2>4 DEF RnOnce
  <1>10. RnTempsOK'
    <2>1. RnReplacing /\ ~RnReplacing'
      BY <1>2, <1>4 DEF RnReplacing
    <2> QED BY <1>2, <1>s, <2>1 DEF RnTempsOK
  <1> QED BY <1>4, <1>7, <1>8, <1>9, <1>10 DEF RnInv

\* Every step keeps the invariant.
LEMMA RnStepInv == RnInv /\ [RnNext]_rnVars => RnInv'
  <1> SUFFICES ASSUME RnInv, [RnNext]_rnVars PROVE RnInv'
    OBVIOUS
  <1>1. ASSUME NEW k \in RnKeys, NEW o \in RnOps, Ask(k, o) PROVE RnInv'
    BY <1>1, RnAskInv
  <1>2. ASSUME NEW p \in RnProcs, NEW k \in RnAllKeys, Enter(p, k) PROVE RnInv'
    BY <1>2, RnEnterInv
  <1>3. ASSUME NEW p \in RnProcs, Recheck(p) \/ WriteTemp(p) \/ Replace(p) \/ RnCrash(p) PROVE RnInv'
    BY <1>3, RnRecheckInv, RnWriteTempInv, RnReplaceInv, RnCrashInv
  <1>4. CASE EditorSave
    BY <1>4, RnEditorInv
  <1>5. CASE UNCHANGED rnVars
    <2>1. UNCHANGED <<rnFile, rnTemps, rnLock, rnRequest, rnSent, rnCall, rnTimes, rnPast, rnKept, rnTaken, rnSaves, rnCrashes>>
      BY <1>5 DEF rnVars
    <2>2. RnShape'
      BY <2>1 DEF RnInv, RnShape
    <2>3. RnBodies' /\ RnOnce'
      BY <2>1 DEF RnInv, RnBodies, RnOnce, RnShort, RnKnown
    <2>4. \A p \in RnProcs : RnHolds(p)'
      BY <2>1 DEF RnInv, RnHolds, RnShort, RnKnown
    <2>5. RnTempsOK'
      BY <2>1 DEF RnInv, RnTempsOK, RnReplacing
    <2> QED BY <2>2, <2>3, <2>4, <2>5 DEF RnInv
  <1> QED BY <1>1, <1>2, <1>3, <1>4, <1>5 DEF RnNext

\* From the invariant: no write is lost unseen, and the types.
LEMMA RnInvSound == RnInv => NotesSound /\ RnTypeOK
  <1> SUFFICES ASSUME RnInv PROVE NotesSound /\ RnTypeOK
    OBVIOUS
  <1>s. RnShape /\ RnBodies /\ RnOnce /\ RnTempsOK
    BY DEF RnInv
  <1>1. \A p \in RnProcs : rnCall[p].step \in {"write", "replace"} => rnCall[p].seen = rnFile \/ rnCall[p].disturbed
    BY DEF RnInv, RnHolds
  <1>2. rnFile # NoNote => rnKept \subseteq ToSet(rnFile.body) /\ EachOnce(rnFile.body)
    BY <1>s DEF RnBodies, RnKnown
  <1>3. rnTimes[NewNote] <= 1 /\ \A k \in RnKeys : rnRequest[k].op = "append" /\ rnTimes[k] > 1 => k \in rnTaken
    BY <1>s DEF RnOnce
  <1>4. NotesSound
    BY <1>1, <1>2, <1>3 DEF NotesSound
  <1>5. rnFile = NoNote \/ rnFile \in RnDocs
    <2> SUFFICES ASSUME rnFile # NoNote PROVE rnFile \in RnDocs
      OBVIOUS
    <2>1. rnFile \in RnDocType /\ rnSaves \in 0 .. MaxSaves /\ MaxSaves \in Nat
      BY <1>s, RnDistinct DEF RnShape
    <2>2. PICK b : b = rnFile.body
      OBVIOUS
    <2>3. b \in Seq(RnText) /\ Len(b) <= Cardinality(ToSet(b) \ {Hand}) + rnSaves
      BY <1>s, <2>1, <2>2 DEF RnDocType, RnBodies, RnShort
    <2>4. Cardinality(ToSet(b) \ {Hand}) \in Nat /\ Cardinality(ToSet(b) \ {Hand}) <= 1 + Cardinality(RnKeys)
      BY <2>3, RnFinite
    <2>5. Cardinality(RnKeys) \in Nat
      BY RnAssumption, FS_CardinalityType
    <2>6. PICK n \in Nat : n = 1 + Cardinality(RnKeys) + MaxSaves
      BY <2>1, <2>5
    <2>7. Len(b) \in Nat
      BY <2>3
    <2>8. Len(b) \in 0 .. n
      BY <2>1, <2>3, <2>4, <2>5, <2>6, <2>7
    <2>9. b \in [1 .. Len(b) -> RnText]
      BY <2>3
    <2>10. b \in BoundedSeq(RnText, n)
      BY <2>8, <2>9 DEF BoundedSeq, SeqOf
    <2>11. b \in BoundedSeq(RnAllKeys \cup {Hand}, 1 + Cardinality(RnKeys) + MaxSaves)
      BY <2>6, <2>10 DEF RnText
    <2> QED BY <2>1, <2>2, <2>11 DEF RnDocs, RnDocType, RnTags
  <1>6. rnTemps \in 0 .. (MaxRnCrashes + 1)
    <2>1. rnTemps \in Nat /\ rnTemps <= rnCrashes + 1 /\ rnCrashes \in 0 .. MaxRnCrashes /\ MaxRnCrashes \in Nat
      BY <1>s, RnDistinct DEF RnTempsOK
    <2> QED BY <2>1
  <1>7. \A k \in RnKeys : rnRequest[k].op \in RnOps \cup {"none"}
    <2>1. \A k \in RnKeys : k \in RnAllKeys
      BY RnDistinct
    <2> QED BY <1>s, <2>1 DEF RnShape, RnRequestType
  <1>8. \A p \in RnProcs : rnCall[p].key \in RnAllKeys \cup {Nobody}
    BY <1>s DEF RnShape, RnCallType
  <1>9. rnLock \in RnProcs \cup {Nobody} /\ rnSent \in [RnAllKeys -> 0 .. MaxSends]
    BY <1>s DEF RnShape
  <1> QED BY <1>4, <1>5, <1>6, <1>7, <1>8, <1>9 DEF RnTypeOK

-----------------------------------------------------------------------------
(* The prompt registry facade (PromptFacade)                               *)

PfManifestEntry == [value : PfReleases, age : Nat, lag : 0 .. PfTravel, limit : Nat]
PfBundleEntry == [value : PfBundles, age : Nat, lag : 0 .. PfTravel, limit : Nat]
PfCallType == [step : {"idle", "asked", "answered"}, kind : {"none", "manifest", "bundle"},
               id : PfChannels \cup PfBundles \cup {NoEntry}, status : Nat,
               value : PfReleases \cup PfBundles \cup {NoEntry}, lag : 0 .. PfTravel]
PfToldType == [manifest : SUBSET PfBundles, bundle : SUBSET PfBundles]
PfToldAny == pfTold.manifest \cup pfTold.bundle

PfShape ==
    /\ pfRelease \in [PfChannels -> PfReleases \cup {NoEntry}] /\ pfRevoked \subseteq PfBundles
    /\ pfManifest \in [PfChannels -> PfManifestEntry \cup {NoEntry}]
    /\ pfBundle \in [PfBundles -> PfBundleEntry \cup {NoEntry}]
    /\ pfLimit \in [PfBundles -> 0 .. PfMaxStale] /\ pfNewest \in [PfBundles -> Nat]
    /\ pfCall \in [PfCalls -> PfCallType] /\ pfTold \in PfToldType
    /\ PfToldAny \subseteq pfRevoked

\* An entry of either cache is of a release nobody called revoked, and the
\* limit of a bundle is never above that of the last manifest naming it.
PfCachesOK ==
    /\ \A c \in PfChannels : pfManifest[c] # NoEntry => pfManifest[c].value.bundle \notin pfTold.bundle
    /\ \A b \in PfBundles : pfBundle[b] # NoEntry =>
          pfBundle[b].value = b /\ b \notin PfToldAny /\ pfBundle[b].limit <= pfNewest[b]
    /\ \A b \in PfBundles : pfLimit[b] <= pfNewest[b]

\* A call under way knows what it asked about, and a new release or bundle on
\* its way is not one the facade was told is revoked.
PfCarries(h) ==
    /\ pfCall[h].step # "idle" => \/ pfCall[h].kind = "manifest" /\ pfCall[h].id \in PfChannels
                                  \/ pfCall[h].kind = "bundle" /\ pfCall[h].id \in PfBundles
    /\ pfCall[h].step = "answered" /\ pfCall[h].status = 200 =>
          /\ pfCall[h].kind = "manifest" => pfCall[h].value \in PfReleases /\ pfCall[h].value.bundle \notin PfToldAny
          /\ pfCall[h].kind = "bundle" => pfCall[h].id \notin PfToldAny

\* The lock: one call at most.
PfAlone == \A g, h \in PfCalls : pfCall[g].step # "idle" /\ pfCall[h].step # "idle" => g = h

PfInv == PfShape /\ PfCachesOK /\ (\A h \in PfCalls : PfCarries(h)) /\ PfAlone /\ ~pfLate

\* A call that is not under way.
LEMMA PfIdle == IdlePf \in PfCallType /\ IdlePf.step = "idle"
  BY PfAssumption DEF IdlePf, PfCallType

\* The smaller of two numbers.
LEMMA PfLeast ==
    ASSUME NEW m \in Nat, NEW n \in Nat
    PROVE  Least(m, n) \in 0 .. n /\ Least(m, n) <= m
  BY DEF Least

\* The caches are empty and nobody calls at first.
LEMMA PfInitInv == PfInit => PfInv
  <1> SUFFICES ASSUME PfInit PROVE PfInv
    OBVIOUS
  <1>1. PfShape
    <2>1. pfTold \in PfToldType /\ PfToldAny = {}
      BY DEF PfInit, PfToldType, PfToldAny
    <2> QED BY <2>1, PfIdle, PfAssumption DEF PfInit, PfShape
  <1>2. PfCachesOK
    BY DEF PfInit, PfCachesOK
  <1>3. \A h \in PfCalls : PfCarries(h)
    BY PfIdle DEF PfInit, PfCarries
  <1> QED BY <1>1, <1>2, <1>3, PfIdle DEF PfInv, PfAlone, PfInit

\* What is served is recent enough when the word was under way no longer than
\* an answer may be, and the entry is fresh, new, or allowed to be stale.
LEMMA PfServed ==
    ASSUME NEW e, e.age \in Nat, e.lag \in 0 .. PfTravel, e.limit \in Nat, NEW stale \in BOOLEAN,
           ~pfLate, Serve(e, stale),
           ~stale => e.age = 0 \/ e.age < PfFresh, stale => e.age <= Least(e.limit, PfMaxStale)
    PROVE  ~pfLate'
  <1>1. Least(e.limit, PfMaxStale) \in Nat
    BY PfAssumption, PfLeast
  <1>2. CASE stale
    <2>1. pfLate' = (pfLate \/ e.age + e.lag > PfTravel + Least(e.limit, PfMaxStale))
      BY <1>2 DEF Serve
    <2>2. ~(e.age + e.lag > PfTravel + Least(e.limit, PfMaxStale))
      BY <1>1, <1>2, PfAssumption
    <2> QED BY <2>1, <2>2
  <1>3. CASE ~stale
    <2>0. PICK n \in Nat : n = IF PfFresh = 0 THEN 0 ELSE PfFresh - 1
      BY PfAssumption
    <2>1. pfLate' = (pfLate \/ e.age + e.lag > PfTravel + n)
      BY <1>3, <2>0 DEF Serve
    <2>2. ~(e.age + e.lag > PfTravel + n)
      BY <1>3, <2>0, PfAssumption
    <2> QED BY <2>1, <2>2
  <1> QED BY <1>2, <1>3

\* One call moves while the others are idle or it is not under way itself.
LEMMA PfCallMoves ==
    ASSUME PfInv, NEW h \in PfCalls, NEW x \in PfCallType, pfCall' = [pfCall EXCEPT ![h] = x],
           x.step = "idle" \/ pfCall[h].step # "idle" \/ PfUnlocked,
           PfToldAny' = PfToldAny \/ pfCall[h].step # "idle",
           pfCall'[h] = x => PfCarries(h)'
    PROVE  /\ pfCall' \in [PfCalls -> PfCallType] /\ PfAlone' /\ \A g \in PfCalls : PfCarries(g)'
  <1>1. /\ pfCall' \in [PfCalls -> PfCallType] /\ pfCall'[h] = x
        /\ \A g \in PfCalls : g # h => pfCall'[g] = pfCall[g]
    BY DEF PfInv, PfShape
  <1>2. PfAlone'
    BY <1>1 DEF PfInv, PfAlone, PfUnlocked
  <1>3. ASSUME NEW g \in PfCalls PROVE PfCarries(g)'
    <2>1. CASE g = h
      BY <2>1, <1>1
    <2>2. CASE g # h /\ PfToldAny' = PfToldAny
      BY <2>2, <1>1 DEF PfInv, PfCarries
    <2>3. CASE g # h /\ pfCall[h].step # "idle"
      <3>1. pfCall[g].step = "idle"
        BY <2>3 DEF PfInv, PfAlone
      <3> QED BY <3>1, <2>3, <1>1 DEF PfCarries
    <2> QED BY <2>1, <2>2, <2>3
  <1> QED BY <1>1, <1>2, <1>3

\* A call ends.
LEMMA PfCallEnds ==
    ASSUME PfInv, NEW h \in PfCalls, Done(h), pfCall[h].step # "idle"
    PROVE  /\ pfCall' \in [PfCalls -> PfCallType] /\ PfAlone' /\ \A g \in PfCalls : PfCarries(g)'
  <1>1. pfCall' = [pfCall EXCEPT ![h] = IdlePf]
    BY DEF Done
  <1>2. pfCall'[h] = IdlePf => PfCarries(h)'
    BY PfIdle DEF PfCarries
  <1> QED BY <1>1, <1>2, PfIdle, PfCallMoves

\* Every step of a call, of the registry or of time keeps the invariant.
LEMMA PfStepInv == PfInv /\ [PfNext]_pfVars => PfInv'
  <1> SUFFICES ASSUME PfInv, [PfNext]_pfVars PROVE PfInv'
    OBVIOUS
  <1>t. PfShape
    BY DEF PfInv
  <1>h. PfCachesOK /\ (\A h \in PfCalls : PfCarries(h)) /\ PfAlone /\ ~pfLate
    BY DEF PfInv
  <1>m. \A c \in PfChannels : pfManifest[c] # NoEntry => pfManifest[c] \in PfManifestEntry
    BY <1>t DEF PfShape
  <1>b. \A b \in PfBundles : pfBundle[b] # NoEntry => pfBundle[b] \in PfBundleEntry
    BY <1>t DEF PfShape
  <1>c. \A h \in PfCalls : pfCall[h] \in PfCallType
    BY <1>t DEF PfShape
  <1>e. \A e : e \in PfManifestEntry \/ e \in PfBundleEntry => e.age \in Nat /\ e.lag \in 0 .. PfTravel /\ e.limit \in Nat
    BY DEF PfManifestEntry, PfBundleEntry
  <1>u. CASE UNCHANGED pfVars
    BY <1>u DEF PfInv, pfVars, PfShape, PfToldAny, PfCachesOK, PfCarries, PfAlone
  \* A call begins.
  <1>1. ASSUME NEW h \in PfCalls, NEW kind \in {"manifest", "bundle"}, NEW i, Begin(h, kind, i),
               kind = "manifest" => i \in PfChannels, kind = "bundle" => i \in PfBundles
        PROVE  PfInv'
    <2>1. /\ pfCall[h].step = "idle" /\ PfUnlocked
          /\ UNCHANGED <<pfRelease, pfRevoked, pfChanges, pfManifest, pfBundle, pfLimit, pfTold, pfNewest>>
      BY <1>1 DEF Begin, pfRegistry
    <2>2. PICK e : e = Cached(kind, i)
      OBVIOUS
    <2>3. e # NoEntry => e \in PfManifestEntry \/ e \in PfBundleEntry
      BY <1>1, <2>2, <1>m, <1>b DEF Cached
    <2>4. CASE IsFresh(e)
      <3>1. Serve(e, FALSE) /\ pfCall' = pfCall
        BY <1>1, <2>2, <2>4 DEF Begin
      <3>2. e # NoEntry /\ e.age < PfFresh
        BY <2>4 DEF IsFresh
      <3>3. ~pfLate'
        BY <3>1, <3>2, <2>3, <1>e, <1>h, PfServed
      <3> QED BY <2>1, <3>1, <3>3, <1>t, <1>h DEF PfInv, PfShape, PfToldAny, PfCachesOK, PfCarries, PfAlone
    <2>5. CASE ~IsFresh(e)
      <3>1. PICK v \in PfReleases \cup PfBundles \cup {NoEntry} : v = IF e = NoEntry THEN NoEntry ELSE e.value
        BY <2>3 DEF PfManifestEntry, PfBundleEntry
      <3>2. PICK x : x = [IdlePf EXCEPT !.step = "asked", !.kind = kind, !.id = i, !.value = v]
        OBVIOUS
      <3>3. x \in PfCallType /\ x.step = "asked" /\ x.kind = kind /\ x.id = i
        BY <3>1, <3>2, <1>1, PfIdle DEF PfCallType
      <3>4. pfCall' = [pfCall EXCEPT ![h] = x] /\ pfLate' = pfLate
        BY <1>1, <2>2, <2>5, <3>1, <3>2 DEF Begin
      <3>5. pfCall'[h] = x => PfCarries(h)'
        BY <3>3, <1>1 DEF PfCarries
      <3>6. PfToldAny' = PfToldAny
        BY <2>1 DEF PfToldAny
      <3>7. pfCall' \in [PfCalls -> PfCallType] /\ PfAlone' /\ \A g \in PfCalls : PfCarries(g)'
        BY <2>1, <3>3, <3>4, <3>5, <3>6, PfCallMoves
      <3> QED BY <2>1, <3>4, <3>6, <3>7, <1>t, <1>h DEF PfInv, PfShape, PfCachesOK
    <2> QED BY <2>4, <2>5
  <1>2. ASSUME NEW h \in PfCalls, Respond(h) PROVE PfInv'
    <2>1. /\ pfCall[h].step = "asked" /\ pfLate' = pfLate
          /\ UNCHANGED <<pfRelease, pfRevoked, pfChanges, pfManifest, pfBundle, pfLimit, pfTold, pfNewest>>
      BY <1>2 DEF Respond, pfRegistry
    <2>2. PICK old \in PfCallType : old = pfCall[h]
      BY <1>c
    <2>r. PICK s \in {Down, Refused, Verdict(pfCall[h].kind, pfCall[h].id, pfCall[h].value)} \cup Unknown(pfCall[h].kind) :
             pfCall' = [pfCall EXCEPT ![h].step = "answered", ![h].status = s,
                           ![h].value = IF s = 200 THEN Current(pfCall[h].kind, pfCall[h].id) ELSE @]
      BY <1>2, Zenon DEF Respond
    <2>3. /\ s \in {Down, Refused, Verdict(old.kind, old.id, old.value)} \cup Unknown(old.kind)
          /\ pfCall' = [pfCall EXCEPT ![h].step = "answered", ![h].status = s,
                           ![h].value = IF s = 200 THEN Current(old.kind, old.id) ELSE @]
      BY <2>2, <2>r, Zenon
    <2>4. s \in {200, 304, 404, 410, 500, 502} /\ s \in Nat
      BY <2>3 DEF Verdict, Down, Refused, Unknown
    <2>5. s = 200 => Current(old.kind, old.id) # NoEntry /\ ~Revoked(old.kind, old.id)
      BY <2>3 DEF Verdict, Down, Refused, Unknown
    <2>6. \/ old.kind = "manifest" /\ old.id \in PfChannels
          \/ old.kind = "bundle" /\ old.id \in PfBundles
      BY <2>1, <2>2, <1>h DEF PfCarries
    <2>7. PICK v : v = IF s = 200 THEN Current(old.kind, old.id) ELSE old.value
      OBVIOUS
    <2>8. /\ v \in PfReleases \cup PfBundles \cup {NoEntry}
          /\ s = 200 /\ old.kind = "manifest" => v \in PfReleases /\ v.bundle \notin pfRevoked
          /\ s = 200 /\ old.kind = "bundle" => old.id \notin pfRevoked
      <3>1. CASE s # 200
        BY <3>1, <2>2, <2>7 DEF PfCallType
      <3>2. CASE s = 200 /\ old.kind = "manifest"
        BY <3>2, <2>5, <2>6, <2>7, <1>t DEF Current, Revoked, PfShape
      <3>3. CASE s = 200 /\ old.kind # "manifest"
        BY <3>3, <2>5, <2>6, <2>7 DEF Current, Revoked
      <3> QED BY <3>1, <3>2, <3>3
    <2>9. PICK x : x = [old EXCEPT !.step = "answered", !.status = s, !.value = v]
      OBVIOUS
    <2>10. /\ x \in PfCallType /\ x.step = "answered" /\ x.status = s /\ x.value = v
           /\ x.kind = old.kind /\ x.id = old.id
      BY <2>2, <2>4, <2>8, <2>9 DEF PfCallType
    <2>11. pfCall' = [pfCall EXCEPT ![h] = x]
      BY <2>2, <2>3, <2>7, <2>9
    <2>12. PfToldAny' = PfToldAny /\ PfToldAny \subseteq pfRevoked
      BY <2>1, <1>t DEF PfToldAny, PfShape
    <2>13. pfCall'[h] = x => PfCarries(h)'
      <3> SUFFICES ASSUME pfCall'[h] = x PROVE PfCarries(h)'
        OBVIOUS
      <3>1. s = 200 => /\ old.kind = "manifest" => v \in PfReleases /\ v.bundle \notin PfToldAny'
                       /\ old.kind = "bundle" => old.id \notin PfToldAny'
        BY <2>8, <2>12
      <3> QED BY <3>1, <2>6, <2>10 DEF PfCarries
    <2>14. pfCall' \in [PfCalls -> PfCallType] /\ PfAlone' /\ \A g \in PfCalls : PfCarries(g)'
      BY <2>1, <2>10, <2>11, <2>12, <2>13, PfCallMoves
    <2> QED BY <2>1, <2>12, <2>14, <1>t, <1>h DEF PfInv, PfShape, PfCachesOK
  <1>3. ASSUME NEW h \in PfCalls, Answered(h, "manifest", {200}), StoreManifest(h), UNCHANGED <<pfRegistry, pfTold>>
        PROVE  PfInv'
    <2>1. pfCall[h].step = "answered" /\ pfCall[h].kind = "manifest" /\ pfCall[h].status = 200 /\ Done(h)
      BY <1>3 DEF Answered
    <2>2. PICK c \in PfChannels, r \in PfReleases, lag \in 0 .. PfTravel :
             c = pfCall[h].id /\ r = pfCall[h].value /\ lag = pfCall[h].lag /\ r.bundle \notin PfToldAny
      BY <2>1, <1>c, <1>h DEF PfCarries, PfCallType
    <2>3. PICK a \in PfBundles : a = r.bundle
      BY <2>2 DEF PfReleases
    <2>4. r.limit \in Nat
      BY <2>2, PfAssumption DEF PfReleases
    <2>5. PICK bd \in 0 .. PfMaxStale : bd = Least(r.limit, PfMaxStale)
      BY <2>4, PfLeast, PfAssumption
    <2>6. PICK e : e = Entry(r, lag, bd)
      OBVIOUS
    <2>7. e \in PfManifestEntry /\ e.value = r /\ e.age = 0 /\ e.lag = lag /\ e.limit = bd
      BY <2>2, <2>5, <2>6, PfAssumption DEF Entry, PfManifestEntry
    <2>8. PICK left : left = IF pfManifest[c] # NoEntry /\ pfManifest[c].value.bundle # r.bundle
                             THEN {pfManifest[c].value.bundle} ELSE {}
      OBVIOUS
    <2>9. a \notin left
      BY <2>3, <2>8
    <2>10. PICK lim : lim = Limited(a, bd)
      OBVIOUS
    <2>11. /\ pfManifest' = [pfManifest EXCEPT ![c] = e]
           /\ pfBundle' = [b \in PfBundles |-> IF b \in left THEN NoEntry ELSE lim[b]]
           /\ pfLimit' = [b \in PfBundles |-> CASE b = a -> bd [] b \in left -> 0 [] OTHER -> pfLimit[b]]
           /\ pfNewest' = [pfNewest EXCEPT ![a] = bd]
           /\ Serve(e, FALSE)
      BY <1>3, <2>2, <2>3, <2>5, <2>6, <2>8, <2>10 DEF StoreManifest
    <2>12. ASSUME NEW b \in PfBundles
           PROVE  /\ b # a => lim[b] = pfBundle[b]
                  /\ b = a => \/ lim[b] = NoEntry /\ pfBundle[b] = NoEntry
                              \/ /\ pfBundle[b] # NoEntry /\ lim[b] \in PfBundleEntry /\ lim[b].limit = bd
                                 /\ lim[b].value = pfBundle[b].value
      <3>1. lim = [pfBundle EXCEPT ![a] = IF pfBundle[a] = NoEntry THEN pfBundle[a] ELSE [pfBundle[a] EXCEPT !.limit = bd]]
        BY <2>10 DEF Limited
      <3>2. lim[b] = IF b = a THEN IF pfBundle[a] = NoEntry THEN NoEntry ELSE [pfBundle[a] EXCEPT !.limit = bd]
                     ELSE pfBundle[b]
        BY <3>1, <1>t DEF PfShape
      <3>3. CASE b = a /\ pfBundle[a] # NoEntry
        <4>1. PICK old \in PfBundleEntry : old = pfBundle[a]
          BY <3>3, <1>b
        <4>2. PICK new : new = [old EXCEPT !.limit = bd]
          OBVIOUS
        <4>3. new \in PfBundleEntry /\ new.limit = bd /\ new.value = old.value
          BY <4>1, <4>2, <2>5, PfAssumption DEF PfBundleEntry
        <4>4. lim[b] = new
          BY <3>2, <3>3, <4>1, <4>2
        <4> QED BY <4>1, <4>3, <4>4, <3>3
      <3> QED BY <3>2, <3>3
    <2>13. \A b \in PfBundles : /\ pfBundle'[b] = (IF b \in left THEN NoEntry ELSE lim[b])
                                /\ pfLimit'[b] = (IF b = a THEN bd ELSE IF b \in left THEN 0 ELSE pfLimit[b])
                                /\ pfNewest'[b] = (IF b = a THEN bd ELSE pfNewest[b])
      BY <2>9, <2>11, <1>t DEF PfShape
    <2>14. PfToldAny' = PfToldAny /\ pfTold' = pfTold /\ pfRelease' = pfRelease /\ pfRevoked' = pfRevoked
      BY <1>3 DEF PfToldAny, pfRegistry
    <2>15. pfCall' \in [PfCalls -> PfCallType] /\ PfAlone' /\ \A g \in PfCalls : PfCarries(g)'
      BY <2>1, PfCallEnds
    <2>16. PfShape'
      <3>1. pfManifest' \in [PfChannels -> PfManifestEntry \cup {NoEntry}]
        BY <2>7, <2>11, <1>t DEF PfShape
      <3>2. pfBundle' \in [PfBundles -> PfBundleEntry \cup {NoEntry}]
        <4>1. \A b \in PfBundles : lim[b] \in PfBundleEntry \cup {NoEntry}
          BY <2>12, <1>t DEF PfShape
        <4> QED BY <4>1, <2>11
      <3>3. pfLimit' \in [PfBundles -> 0 .. PfMaxStale]
        <4>1. 0 \in 0 .. PfMaxStale /\ \A b \in PfBundles : pfLimit[b] \in 0 .. PfMaxStale
          BY <1>t, PfAssumption DEF PfShape
        <4>2. \A b \in PfBundles : pfLimit'[b] \in 0 .. PfMaxStale
          BY <4>1, <2>5, <2>13
        <4> QED BY <4>2, <2>11
      <3>4. pfNewest' \in [PfBundles -> Nat]
        BY <2>5, <2>11, <1>t, PfAssumption DEF PfShape
      <3> QED BY <3>1, <3>2, <3>3, <3>4, <2>14, <2>15, <1>t DEF PfShape
    <2>17. PfCachesOK'
      <3>1. ASSUME NEW d \in PfChannels, pfManifest'[d] # NoEntry PROVE pfManifest'[d].value.bundle \notin pfTold'.bundle
        <4>1. CASE d = c
          <5>1. pfManifest'[d] = e
            BY <4>1, <2>11, <1>t DEF PfShape
          <5> QED BY <5>1, <2>2, <2>7, <2>14 DEF PfToldAny
        <4>2. CASE d # c
          BY <4>2, <3>1, <2>11, <2>14, <1>t, <1>h DEF PfShape, PfCachesOK
        <4> QED BY <4>1, <4>2
      <3>2. ASSUME NEW b \in PfBundles, pfBundle'[b] # NoEntry
            PROVE  pfBundle'[b].value = b /\ b \notin PfToldAny' /\ pfBundle'[b].limit <= pfNewest'[b]
        <4>0. b \notin left /\ pfBundle'[b] = lim[b] /\ lim[b] # NoEntry
          BY <3>2, <2>13
        <4>1. CASE b # a
          BY <4>0, <4>1, <2>12, <2>13, <2>14, <1>h DEF PfCachesOK
        <4>2. CASE b = a
          <5>1. pfBundle[b] # NoEntry /\ lim[b].limit = bd /\ lim[b].value = pfBundle[b].value
            BY <4>0, <4>2, <2>12
          <5>2. pfBundle[b].value = b /\ b \notin PfToldAny
            BY <5>1, <1>h DEF PfCachesOK
          <5>3. pfNewest'[b] = bd /\ bd <= bd
            BY <4>2, <2>5, <2>13, PfAssumption
          <5> QED BY <5>1, <5>2, <5>3, <4>0, <2>14
        <4> QED BY <4>1, <4>2
      <3>3. ASSUME NEW b \in PfBundles PROVE pfLimit'[b] <= pfNewest'[b]
        <4>1. pfLimit[b] <= pfNewest[b] /\ pfNewest[b] \in Nat /\ bd \in Nat
          BY <1>h, <1>t, <2>5, PfAssumption DEF PfCachesOK, PfShape
        <4>2. CASE b = a
          BY <4>1, <4>2, <2>13
        <4>3. CASE b # a
          BY <4>1, <4>3, <2>13
        <4> QED BY <4>2, <4>3
      <3> QED BY <3>1, <3>2, <3>3 DEF PfCachesOK
    <2>18. ~pfLate'
      BY <2>7, <2>11, <1>e, <1>h, PfServed
    <2> QED BY <2>15, <2>16, <2>17, <2>18 DEF PfInv
  \* One entry of the bundles' cache is written.
  <1>w. ASSUME NEW h \in PfCalls, Done(h), pfCall[h].step # "idle", NEW b \in PfBundles, NEW e \in PfBundleEntry,
               e.value = b, b \notin PfToldAny, e.limit <= pfNewest[b], ~pfLate',
               pfBundle' = [pfBundle EXCEPT ![b] = e],
               UNCHANGED <<pfRelease, pfRevoked, pfTold, pfManifest, pfLimit, pfNewest>>
        PROVE  PfInv'
    <2>1. pfCall' \in [PfCalls -> PfCallType] /\ PfAlone' /\ \A g \in PfCalls : PfCarries(g)'
      BY <1>w, PfCallEnds
    <2>2. PfToldAny' = PfToldAny
      BY <1>w DEF PfToldAny
    <2>3. PfShape'
      BY <2>1, <2>2, <1>w, <1>t DEF PfShape
    <2>4. pfBundle'[b] = e /\ \A d \in PfBundles : d # b => pfBundle'[d] = pfBundle[d]
      BY <1>w, <1>t DEF PfShape
    <2>5. PfCachesOK'
      BY <2>2, <2>4, <1>w, <1>h DEF PfCachesOK
    <2> QED BY <2>1, <2>3, <2>5, <1>w DEF PfInv
  <1>4. ASSUME NEW h \in PfCalls, Answered(h, "bundle", {200}), StoreBundle(h), UNCHANGED <<pfRegistry, pfTold>>
        PROVE  PfInv'
    <2>1. pfCall[h].step = "answered" /\ pfCall[h].kind = "bundle" /\ pfCall[h].status = 200 /\ Done(h)
      BY <1>4 DEF Answered
    <2>2. PICK b \in PfBundles, lag \in 0 .. PfTravel : b = pfCall[h].id /\ lag = pfCall[h].lag /\ b \notin PfToldAny
      BY <2>1, <1>c, <1>h DEF PfCarries, PfCallType
    <2>3. PICK n \in Nat : n = pfLimit[b] /\ n <= pfNewest[b]
      BY <2>2, <1>t, <1>h, PfAssumption DEF PfShape, PfCachesOK
    <2>6. PICK e : e = Entry(b, lag, n)
      OBVIOUS
    <2>7. e \in PfBundleEntry /\ e.value = b /\ e.age = 0 /\ e.lag = lag /\ e.limit = n
      BY <2>2, <2>3, <2>6 DEF Entry, PfBundleEntry
    <2>8. pfBundle' = [pfBundle EXCEPT ![b] = e] /\ Serve(e, FALSE) /\ UNCHANGED <<pfManifest, pfLimit, pfNewest>>
      BY <1>4, <2>2, <2>3, <2>6 DEF StoreBundle
    <2>9. ~pfLate'
      BY <2>7, <2>8, <1>e, <1>h, PfServed
    <2>10. UNCHANGED <<pfRelease, pfRevoked, pfTold, pfManifest, pfLimit, pfNewest>>
      BY <1>4, <2>8 DEF pfRegistry
    <2>11. pfCall[h].step # "idle" /\ e.limit <= pfNewest[b]
      BY <2>1, <2>3, <2>7
    <2> QED BY <2>1, <2>2, <2>7, <2>8, <2>9, <2>10, <2>11, <1>w
  <1>5. ASSUME NEW h \in PfCalls, SameBundle(h) PROVE PfInv'
    <2>1. /\ pfCall[h].step = "answered" /\ pfCall[h].kind = "bundle" /\ Done(h)
          /\ UNCHANGED <<pfRelease, pfRevoked, pfTold, pfManifest, pfLimit, pfNewest>>
      BY <1>5 DEF SameBundle, Answered, pfRegistry
    <2>2. PICK b \in PfBundles, lag \in 0 .. PfTravel : b = pfCall[h].id /\ lag = pfCall[h].lag
      BY <2>1, <1>c, <1>h DEF PfCarries, PfCallType
    <2>3. PICK n \in Nat : n = pfLimit[b] /\ n <= pfNewest[b]
      BY <2>2, <1>t, <1>h, PfAssumption DEF PfShape, PfCachesOK
    <2>4. pfBundle[b] # NoEntry
      BY <1>5, <2>2 DEF SameBundle
    <2>5. PICK old \in PfBundleEntry : old = pfBundle[b] /\ old.value = b /\ b \notin PfToldAny
      BY <2>2, <2>4, <1>b, <1>h DEF PfCachesOK
    <2>6. PICK re, e : re = [old EXCEPT !.age = 0, !.lag = lag] /\ e = [re EXCEPT !.limit = n]
      OBVIOUS
    <2>7. re \in PfBundleEntry /\ re.value = b /\ re.age = 0 /\ re.lag = lag /\ re.limit = old.limit
      BY <2>2, <2>5, <2>6 DEF PfBundleEntry
    <2>8. e \in PfBundleEntry /\ e.value = b /\ e.limit = n
      BY <2>3, <2>6, <2>7 DEF PfBundleEntry
    <2>9. pfBundle' = [pfBundle EXCEPT ![b] = e] /\ Serve(re, FALSE)
      BY <1>5, <2>2, <2>3, <2>5, <2>6 DEF SameBundle, Renewed
    <2>10. ~pfLate'
      BY <2>7, <2>9, <1>e, <1>h, PfServed
    <2> QED BY <2>1, <2>2, <2>3, <2>5, <2>8, <2>9, <2>10, <1>w
  <1>6. ASSUME NEW h \in PfCalls, SameManifest(h) PROVE PfInv'
    <2>1. /\ pfCall[h].step = "answered" /\ pfCall[h].kind = "manifest" /\ Done(h)
          /\ UNCHANGED <<pfRelease, pfRevoked, pfTold, pfBundle, pfLimit, pfNewest>>
      BY <1>6 DEF SameManifest, Answered, pfRegistry
    <2>2. PICK c \in PfChannels, lag \in 0 .. PfTravel : c = pfCall[h].id /\ lag = pfCall[h].lag
      BY <2>1, <1>c, <1>h DEF PfCarries, PfCallType
    <2>4. pfManifest[c] # NoEntry
      BY <1>6, <2>2 DEF SameManifest
    <2>5. PICK old \in PfManifestEntry : old = pfManifest[c] /\ old.value.bundle \notin pfTold.bundle
      BY <2>2, <2>4, <1>m, <1>h DEF PfCachesOK
    <2>6. PICK re : re = [old EXCEPT !.age = 0, !.lag = lag]
      OBVIOUS
    <2>7. re \in PfManifestEntry /\ re.value = old.value /\ re.age = 0 /\ re.lag = lag /\ re.limit = old.limit
      BY <2>2, <2>5, <2>6 DEF PfManifestEntry
    <2>9. pfManifest' = [pfManifest EXCEPT ![c] = re] /\ Serve(re, FALSE)
      BY <1>6, <2>2, <2>5, <2>6 DEF SameManifest, Renewed
    <2>10. ~pfLate'
      BY <2>7, <2>9, <1>e, <1>h, PfServed
    <2>11. pfCall' \in [PfCalls -> PfCallType] /\ PfAlone' /\ \A g \in PfCalls : PfCarries(g)'
      BY <2>1, PfCallEnds
    <2>12. PfToldAny' = PfToldAny
      BY <2>1 DEF PfToldAny
    <2>13. PfShape'
      BY <2>1, <2>7, <2>9, <2>11, <2>12, <1>t DEF PfShape
    <2>14. pfManifest'[c] = re /\ \A d \in PfChannels : d # c => pfManifest'[d] = pfManifest[d]
      BY <2>9, <1>t DEF PfShape
    <2>15. PfCachesOK'
      BY <2>1, <2>5, <2>7, <2>12, <2>14, <1>h DEF PfCachesOK
    <2> QED BY <2>10, <2>11, <2>13, <2>15 DEF PfInv
  <1>7. ASSUME NEW h \in PfCalls, ReceiveRevoked(h) PROVE PfInv'
    <2>1. /\ pfCall[h].step = "answered" /\ Done(h) /\ pfLate' = pfLate
          /\ UNCHANGED <<pfRelease, pfRevoked, pfNewest>>
      BY <1>7 DEF ReceiveRevoked, Answered, pfRegistry
    <2>2. PICK kind, i : /\ kind \in {"manifest", "bundle"} /\ kind = pfCall[h].kind /\ i = pfCall[h].id
                         /\ kind = "manifest" => i \in PfChannels
                         /\ kind = "bundle" => i \in PfBundles
      BY <2>1, <1>h DEF PfCarries
    <2>3. PICK gone, left : gone = GoneBundles(kind, i) /\ left = GoneChannels(kind, i)
      OBVIOUS
    <2>4. /\ pfManifest' = [c \in PfChannels |-> IF c \in left THEN NoEntry ELSE pfManifest[c]]
          /\ pfBundle' = [b \in PfBundles |-> IF b \in gone THEN NoEntry ELSE pfBundle[b]]
          /\ pfLimit' = [b \in PfBundles |-> IF b \in gone THEN 0 ELSE pfLimit[b]]
          /\ pfTold' = [pfTold EXCEPT ![kind] = pfTold[kind] \cup (gone \cap pfRevoked)]
      BY <1>7, <2>2, <2>3 DEF ReceiveRevoked
    <2>5. pfTold.manifest \subseteq PfBundles /\ pfTold.bundle \subseteq PfBundles /\ pfTold \in PfToldType
      BY <1>t DEF PfShape, PfToldType
    <2>6. PICK told \in PfToldType : told = pfTold
      BY <2>5
    <2>g. gone \cap pfRevoked \subseteq PfBundles
      BY <1>t DEF PfShape
    <2>7. /\ pfTold' \in PfToldType
          /\ kind = "manifest" => pfTold'.manifest = pfTold.manifest \cup (gone \cap pfRevoked) /\ pfTold'.bundle = pfTold.bundle
          /\ kind = "bundle" => pfTold'.bundle = pfTold.bundle \cup (gone \cap pfRevoked) /\ pfTold'.manifest = pfTold.manifest
      <3>1. CASE kind = "manifest"
        <4>1. pfTold' = [told EXCEPT !.manifest = told.manifest \cup (gone \cap pfRevoked)]
          BY <3>1, <2>4, <2>6
        <4> QED BY <4>1, <3>1, <2>5, <2>6, <2>g DEF PfToldType
      <3>2. CASE kind = "bundle"
        <4>1. pfTold' = [told EXCEPT !.bundle = told.bundle \cup (gone \cap pfRevoked)]
          BY <3>2, <2>4, <2>6
        <4> QED BY <4>1, <3>2, <2>5, <2>6, <2>g DEF PfToldType
      <3> QED BY <3>1, <3>2, <2>2
    <2>8. PfToldAny' = PfToldAny \cup (gone \cap pfRevoked)
      BY <2>7, <2>2 DEF PfToldAny
    <2>9. pfCall' \in [PfCalls -> PfCallType] /\ PfAlone' /\ \A g \in PfCalls : PfCarries(g)'
      BY <2>1, PfCallEnds
    <2>10. PfShape'
      <3>1. pfManifest' \in [PfChannels -> PfManifestEntry \cup {NoEntry}]
        BY <2>4, <1>t DEF PfShape
      <3>2. pfBundle' \in [PfBundles -> PfBundleEntry \cup {NoEntry}]
        BY <2>4, <1>t DEF PfShape
      <3>3. pfLimit' \in [PfBundles -> 0 .. PfMaxStale]
        <4>1. 0 \in 0 .. PfMaxStale /\ \A b \in PfBundles : pfLimit[b] \in 0 .. PfMaxStale
          BY <1>t, PfAssumption DEF PfShape
        <4> QED BY <4>1, <2>4
      <3>4. PfToldAny' \subseteq pfRevoked'
        BY <2>1, <2>8, <1>t DEF PfShape
      <3> QED BY <3>1, <3>2, <3>3, <3>4, <2>1, <2>7, <2>9, <1>t DEF PfShape
    <2>11. PfCachesOK'
      <3>1. ASSUME NEW c \in PfChannels, pfManifest'[c] # NoEntry PROVE pfManifest'[c].value.bundle \notin pfTold'.bundle
        <4>1. c \notin left /\ pfManifest'[c] = pfManifest[c] /\ pfManifest[c] # NoEntry
          BY <3>1, <2>4
        <4>2. pfManifest[c].value.bundle \notin pfTold.bundle
          BY <4>1, <1>h DEF PfCachesOK
        <4>3. CASE kind = "manifest"
          BY <4>1, <4>2, <4>3, <2>7
        <4>4. CASE kind = "bundle"
          <5>1. gone = {i} /\ pfManifest[c].value.bundle # i
            BY <4>1, <4>4, <2>3 DEF GoneBundles, GoneChannels, Names
          <5> QED BY <5>1, <4>1, <4>2, <4>4, <2>7
        <4> QED BY <4>3, <4>4, <2>2
      <3>2. ASSUME NEW b \in PfBundles, pfBundle'[b] # NoEntry
            PROVE  pfBundle'[b].value = b /\ b \notin PfToldAny' /\ pfBundle'[b].limit <= pfNewest'[b]
        BY <3>2, <2>1, <2>4, <2>8, <1>h DEF PfCachesOK
      <3>3. ASSUME NEW b \in PfBundles PROVE pfLimit'[b] <= pfNewest'[b]
        BY <2>1, <2>4, <1>h, <1>t DEF PfCachesOK, PfShape
      <3> QED BY <3>1, <3>2, <3>3 DEF PfCachesOK
    <2> QED BY <2>1, <2>9, <2>10, <2>11, <1>h DEF PfInv
  <1>8. ASSUME NEW h \in PfCalls, ReceiveMissing(h) PROVE PfInv'
    <2>1. /\ pfCall[h].step = "answered" /\ Done(h) /\ pfLate' = pfLate
          /\ pfManifest' = [pfManifest EXCEPT ![pfCall[h].id] = NoEntry]
          /\ UNCHANGED <<pfRelease, pfRevoked, pfBundle, pfLimit, pfTold, pfNewest>>
      BY <1>8 DEF ReceiveMissing, Answered, pfRegistry
    <2>2. pfCall' \in [PfCalls -> PfCallType] /\ PfAlone' /\ \A g \in PfCalls : PfCarries(g)'
      BY <2>1, PfCallEnds
    <2>3. PfToldAny' = PfToldAny
      BY <2>1 DEF PfToldAny
    <2>4. /\ pfManifest' \in [PfChannels -> PfManifestEntry \cup {NoEntry}]
          /\ \A c \in PfChannels : pfManifest'[c] # NoEntry => pfManifest'[c] = pfManifest[c]
      BY <2>1, <1>t DEF PfShape
    <2>5. PfShape' /\ PfCachesOK'
      BY <2>1, <2>2, <2>3, <2>4, <1>t, <1>h DEF PfShape, PfCachesOK
    <2> QED BY <2>1, <2>2, <2>5, <1>h DEF PfInv
  <1>9. ASSUME NEW h \in PfCalls, ReceiveFailure(h) PROVE PfInv'
    <2>1. /\ pfCall[h].step = "answered" /\ Done(h)
          /\ UNCHANGED <<pfRelease, pfRevoked, pfManifest, pfBundle, pfLimit, pfTold, pfNewest>>
      BY <1>9 DEF ReceiveFailure, Answered, pfRegistry
    <2>2. pfCall' \in [PfCalls -> PfCallType] /\ PfAlone' /\ \A g \in PfCalls : PfCarries(g)'
      BY <2>1, PfCallEnds
    <2>3. PfToldAny' = PfToldAny
      BY <2>1 DEF PfToldAny
    <2>4. PfShape' /\ PfCachesOK'
      BY <2>1, <2>2, <2>3, <1>t, <1>h DEF PfShape, PfCachesOK
    <2>5. ~pfLate'
      <3>1. PICK e : e = Cached(pfCall[h].kind, pfCall[h].id)
        OBVIOUS
      <3>2. e # NoEntry => e \in PfManifestEntry \/ e \in PfBundleEntry
        BY <3>1, <2>1, <1>m, <1>b, <1>h DEF Cached, PfCarries
      <3>3. (CanServeStale(e) /\ Serve(e, TRUE)) \/ pfLate' = pfLate
        BY <1>9, <3>1 DEF ReceiveFailure
      <3>4. CASE CanServeStale(e) /\ Serve(e, TRUE)
        <4>1. e # NoEntry /\ e.age <= Least(e.limit, PfMaxStale)
          BY <3>4 DEF CanServeStale
        <4> QED BY <4>1, <3>2, <3>4, <1>e, <1>h, PfServed
      <3> QED BY <3>3, <3>4, <1>h
    <2> QED BY <2>2, <2>4, <2>5 DEF PfInv
  <1>10. ASSUME NEW c \in PfChannels, NEW r \in PfReleases \cup {NoEntry}, MoveChannel(c, r) PROVE PfInv'
    <2>1. /\ pfRelease' = [pfRelease EXCEPT ![c] = r]
          /\ UNCHANGED <<pfRevoked, pfManifest, pfBundle, pfLimit, pfCall, pfLate, pfTold, pfNewest>>
      BY <1>10 DEF MoveChannel
    <2>2. pfRelease' \in [PfChannels -> PfReleases \cup {NoEntry}]
      BY <2>1, <1>t DEF PfShape
    <2>3. PfShape' /\ PfCachesOK' /\ PfAlone' /\ ~pfLate'
      BY <2>1, <2>2, <1>t, <1>h DEF PfShape, PfCachesOK, PfAlone, PfToldAny
    <2>4. \A h \in PfCalls : PfCarries(h)'
      BY <2>1, <1>h DEF PfCarries, PfToldAny
    <2> QED BY <2>3, <2>4 DEF PfInv
  <1>11. ASSUME NEW b \in PfBundles, RevokeRelease(b) PROVE PfInv'
    <2>1. /\ pfRevoked' = pfRevoked \cup {b}
          /\ UNCHANGED <<pfRelease, pfManifest, pfBundle, pfLimit, pfCall, pfLate, pfTold, pfNewest>>
      BY <1>11 DEF RevokeRelease
    <2>3. PfShape' /\ PfCachesOK' /\ PfAlone' /\ ~pfLate'
      BY <2>1, <1>t, <1>h DEF PfShape, PfCachesOK, PfAlone, PfToldAny
    <2>4. \A h \in PfCalls : PfCarries(h)'
      BY <2>1, <1>h DEF PfCarries, PfToldAny
    <2> QED BY <2>3, <2>4 DEF PfInv
  <1>12. CASE PfTick
    <2>1. /\ \A h \in PfCalls : pfCall[h].step = "answered" => pfCall[h].lag < PfTravel
          /\ pfCall' = [h \in PfCalls |-> IF pfCall[h].step = "answered"
                                          THEN [pfCall[h] EXCEPT !.lag = pfCall[h].lag + 1] ELSE pfCall[h]]
          /\ pfManifest' = [c \in PfChannels |-> Older(pfManifest[c])]
          /\ pfBundle' = [b \in PfBundles |-> Older(pfBundle[b])]
          /\ UNCHANGED <<pfRelease, pfRevoked, pfLimit, pfLate, pfTold, pfNewest>>
      BY <1>12 DEF PfTick, pfRegistry
    <2>2. ASSUME NEW h \in PfCalls
          PROVE  /\ pfCall'[h] \in PfCallType /\ pfCall'[h].step = pfCall[h].step /\ pfCall'[h].kind = pfCall[h].kind
                 /\ pfCall'[h].id = pfCall[h].id /\ pfCall'[h].status = pfCall[h].status
                 /\ pfCall'[h].value = pfCall[h].value
      <3>0. PICK old \in PfCallType : old = pfCall[h]
        BY <1>c
      <3>1. CASE old.step = "answered"
        <4>1. PICK n \in 0 .. PfTravel : n = old.lag + 1
          BY <3>0, <3>1, <2>1, PfAssumption DEF PfCallType
        <4>2. PICK x : x = [old EXCEPT !.lag = n]
          OBVIOUS
        <4>3. /\ x \in PfCallType /\ x.step = old.step /\ x.kind = old.kind /\ x.id = old.id
              /\ x.status = old.status /\ x.value = old.value
          BY <3>0, <4>1, <4>2 DEF PfCallType
        <4>4. pfCall'[h] = x
          BY <3>0, <3>1, <4>1, <4>2, <2>1
        <4> QED BY <4>3, <4>4, <3>0
      <3>2. CASE old.step # "answered"
        BY <3>0, <3>2, <2>1
      <3> QED BY <3>1, <3>2
    <2>o. ASSUME NEW e \in PfManifestEntry \cup PfBundleEntry
          PROVE  /\ e # NoEntry => Older(e).value = e.value /\ Older(e).limit = e.limit
                 /\ e \in PfManifestEntry => Older(e) \in PfManifestEntry
                 /\ e \in PfBundleEntry => Older(e) \in PfBundleEntry
      <3>1. CASE e = NoEntry
        BY <3>1 DEF Older
      <3>2. CASE e # NoEntry
        <4>1. PICK n \in Nat : n = Least(e.age + 1, PfOld)
          BY <1>e, PfAssumption DEF Least
        <4>2. PICK x : x = [e EXCEPT !.age = n]
          OBVIOUS
        <4>3. Older(e) = x
          BY <3>2, <4>1, <4>2 DEF Older
        <4>4. CASE e \in PfManifestEntry
          BY <4>1, <4>2, <4>3, <4>4 DEF PfManifestEntry, PfBundleEntry
        <4>5. CASE e \in PfBundleEntry
          BY <4>1, <4>2, <4>3, <4>5 DEF PfManifestEntry, PfBundleEntry
        <4> QED BY <4>4, <4>5
      <3> QED BY <3>1, <3>2
    <2>3. Older(NoEntry) = NoEntry
      BY DEF Older
    <2>4. \A c \in PfChannels : /\ pfManifest'[c] \in PfManifestEntry \cup {NoEntry}
                                /\ pfManifest'[c] # NoEntry => /\ pfManifest[c] # NoEntry
                                                               /\ pfManifest'[c].value = pfManifest[c].value
      BY <2>1, <2>o, <2>3, <1>m
    <2>5. \A b \in PfBundles : /\ pfBundle'[b] \in PfBundleEntry \cup {NoEntry}
                               /\ pfBundle'[b] # NoEntry => /\ pfBundle[b] # NoEntry
                                                            /\ pfBundle'[b].value = pfBundle[b].value
                                                            /\ pfBundle'[b].limit = pfBundle[b].limit
      BY <2>1, <2>o, <2>3, <1>b
    <2>6. PfToldAny' = PfToldAny
      BY <2>1 DEF PfToldAny
    <2>7. PfShape'
      <3>1. pfCall' \in [PfCalls -> PfCallType]
        BY <2>1, <2>2
      <3>2. pfManifest' \in [PfChannels -> PfManifestEntry \cup {NoEntry}]
        BY <2>1, <2>4
      <3>3. pfBundle' \in [PfBundles -> PfBundleEntry \cup {NoEntry}]
        BY <2>1, <2>5
      <3> QED BY <3>1, <3>2, <3>3, <2>1, <2>6, <1>t DEF PfShape
    <2>8. PfCachesOK'
      BY <2>1, <2>4, <2>5, <2>6, <1>h DEF PfCachesOK
    <2>9. PfAlone'
      BY <2>2, <1>h DEF PfAlone
    <2>10. ASSUME NEW h \in PfCalls PROVE PfCarries(h)'
      BY <2>2, <2>6, <1>h DEF PfCarries
    <2> QED BY <2>1, <2>7, <2>8, <2>9, <2>10, <1>h DEF PfInv
  <1>13. ASSUME NEW h \in PfCalls, ReceiveNew(h) PROVE PfInv'
    BY <1>13, <1>3, <1>4 DEF ReceiveNew
  <1> QED BY <1>u, <1>1, <1>2, <1>5, <1>6, <1>7, <1>8, <1>9, <1>10, <1>11, <1>12, <1>13 DEF PfNext

\* The invariant gives the promises of the facade, and its types.
LEMMA PfInvSound == PfInv => FacadeSound /\ PfTypeOK
  <1> SUFFICES ASSUME PfInv PROVE FacadeSound /\ PfTypeOK
    OBVIOUS
  <1>1. FacadeSound
    <2>1. \A b \in pfTold.manifest \cup pfTold.bundle : b \in PfBundles
      BY DEF PfInv, PfShape, PfToldType
    <2> QED BY <2>1 DEF PfInv, PfCachesOK, FacadeSound, PfToldAny
  <1>2. PfTypeOK
    <2>1. \A c \in PfChannels : pfManifest[c] = NoEntry \/ pfManifest[c].value.bundle \in PfBundles
      BY DEF PfInv, PfShape, PfManifestEntry, PfReleases
    <2> QED BY <2>1 DEF PfInv, PfShape, PfCachesOK, PfTypeOK
  <1> QED BY <1>1, <1>2

-----------------------------------------------------------------------------
(* The components side by side                                             *)

\* A step of the composition is a step or a stuttering step of each
\* component.
LEMMA ClientsMove ==
    ASSUME [ClientsNext]_<<focus, tcVars, tkVars, dkVars, tpVars, rdVars, rnVars, pfVars>>
    PROVE  /\ [TcNext]_tcVars /\ [TkNext]_tkVars /\ [DkNext]_dkVars /\ [TpNext]_tpVars
           /\ [RdNext]_rdVars /\ [RnNext]_rnVars /\ [PfNext]_pfVars
  BY DEF ClientsNext

\* Files change as their callers are told (routers/mcp.py with the file
\* tools, obsidian_research_provider.py): a recorded change was written, and
\* a note loses no write that nobody saw, for any calls, requests and deaths.
THEOREM FilesCorrect == ClientsSpec => []FilesSound
  <1> DEFINE Inv == TkInv /\ RnInv
  <1>1. ClientsInit => Inv
    BY TkInitInv, RnInitInv DEF ClientsInit
  <1>2. ASSUME Inv, [ClientsNext]_<<focus, tcVars, tkVars, dkVars, tpVars, rdVars, rnVars, pfVars>> PROVE Inv'
    BY <1>2, ClientsMove, TkStepInv, RnStepInv
  <1>3. Inv => FilesSound
    BY TkInvSound, RnInvSound DEF FilesSound
  <1> QED
    BY <1>1, <1>2, <1>3, PTL DEF ClientsSpec

\* What is remembered is answered only as long as it may count (the readiness
\* cache of main.py, prompt_registry_facade.py), for any limits and delays.
THEOREM CachesCorrect == ClientsSpec => []CachesSound
  <1> DEFINE Inv == RdInv /\ PfInv
  <1>1. ClientsInit => Inv
    BY RdInitInv, PfInitInv DEF ClientsInit
  <1>2. ASSUME Inv, [ClientsNext]_<<focus, tcVars, tkVars, dkVars, tpVars, rdVars, rnVars, pfVars>> PROVE Inv'
    BY <1>2, ClientsMove, RdStepInv, PfStepInv
  <1>3. Inv => CachesSound
    BY RdInvSound, PfInvSound DEF CachesSound
  <1> QED
    BY <1>1, <1>2, <1>3, PTL DEF ClientsSpec

\* The rows of all seven components keep to their types while the components
\* run side by side.
THEOREM ClientTypesCorrect == ClientsSpec => []ClientTypesOK
  <1> DEFINE Inv == TcInv /\ TkInv /\ DkInv /\ TpInv /\ RdInv /\ RnInv /\ PfInv
  <1>1. ClientsInit => Inv
    BY TcInitInv, TkInitInv, DkInitInv, TpInitInv, RdInitInv, RnInitInv, PfInitInv DEF ClientsInit
  <1>2. ASSUME Inv, [ClientsNext]_<<focus, tcVars, tkVars, dkVars, tpVars, rdVars, rnVars, pfVars>> PROVE Inv'
    BY <1>2, ClientsMove, TcStepInv, TkStepInv, DkStepInv, TpStepInv, RdStepInv, RnStepInv, PfStepInv
  <1>3. Inv => ClientTypesOK
    <2>1. TkInv /\ DkInv /\ RdInv => TkTypeOK /\ DkTypeOK /\ RdTypeOK
      BY DEF TkInv, DkInv, RdInv
    <2> QED BY <2>1, TcInvSound, TpInvSound, RnInvSound, PfInvSound DEF ClientTypesOK
  <1> QED
    BY <1>1, <1>2, <1>3, PTL DEF ClientsSpec

\* A behaviour of the clients is one of the connections, of the workspaces and
\* of the view.
LEMMA ClientsImplement == ClientsSpec => TcSpec /\ DkSpec /\ TpSpec
  <1>1. ClientsInit => TcInit /\ DkInit /\ TpInit
    BY DEF ClientsInit
  <1> QED
    BY <1>1, ClientsMove, PTL DEF ClientsSpec, TcSpec, DkSpec, TpSpec

\* Everything the run Clients checks, for any connections, calls, workspaces,
\* items and requests.
THEOREM ClientsCorrect ==
    ClientsSpec => /\ [](ClientTypesOK /\ ThinClientsSound /\ FilesSound /\ WorkspacesSound)
                   /\ [](ProgressSound /\ CachesSound)
  BY ClientsImplement, ClientTypesCorrect, ThinClientsCorrect, FilesCorrect, WorkspacesCorrect,
     ProgressCorrect, CachesCorrect, PTL
=============================================================================
