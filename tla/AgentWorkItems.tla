--------------------------- MODULE AgentWorkItems ---------------------------
(***************************************************************************)
(* Work items of a room: agents claim and update them, the assignment      *)
(* cycle proposes and applies assignments, operators force or revoke them. *)
(* Claims, updates and applications are UPDATEs guarded by the version;    *)
(* everything else is read and written back by the ORM.                    *)
(***************************************************************************)
EXTENDS Integers, FiniteSets

CONSTANTS
    Items,          \* work items
    ItemDeps,       \* ItemDeps[i]: the dependencies item i is created with
    Workers,        \* agents
    Suits,          \* Suits[i]: agents with the capabilities and labels of i
    NoWorker,       \* a NULL assignee
    NoItem,         \* a NULL current_work_item_id
    WorkSessions,   \* database sessions
    Assignments,    \* assignment ids
    AgentStates,    \* <<status, in the room>> that agents report
    MaxParallel,    \* max_parallel_assignments of the policy
    MaxItemVersion, \* bound: versions of an item
    MaxPolicyGen    \* bound: generations of the policy

ASSUME WorkItemsAssumption ==
    /\ NoWorker \notin Workers /\ NoItem \notin Items
    /\ ItemDeps \in [Items -> SUBSET Items]
    /\ Suits \in [Items -> SUBSET Workers]
    /\ AgentStates \subseteq {"active", "busy", "idle", "offline"} \X BOOLEAN
    /\ MaxParallel \in Nat /\ MaxItemVersion \in Nat \ {0} /\ MaxPolicyGen \in Nat \ {0}

VARIABLES
    item,           \* item[i]: the row of the work item
    worker,         \* worker[a]: the row of the agent
    asg,            \* asg[x]: the row of the assignment
    polGen,         \* generation of the (enabled) policy
    workTx,         \* workTx[s]: what an open session has read
    everDone        \* history: items that have been completed at some time

workVars == <<item, worker, asg, polGen, workTx, everDone>>

ItemFinal == {"cancelled", "completed", "failed"}

ItemRow == [status : {"absent", "open", "in_progress", "blocked", "review"} \cup ItemFinal,
            who : Workers \cup {NoWorker}, ver : 0..MaxItemVersion]

WorkerRow == [status : {"active", "busy", "idle", "offline"}, room : BOOLEAN,
              item : Items \cup {NoItem}]

\* key is the idempotency key: the cycle's (generation and version), or none.
AsgRow == [status : {"absent", "proposed", "assigned", "revoked"}, item : Items \cup {NoItem},
           who : Workers \cup {NoWorker}, gen : Nat, ver : Nat, forced : BOOLEAN]

NoAsg == [status |-> "absent", item |-> NoItem, who |-> NoWorker, gen |-> 0, ver |-> 0,
          forced |-> FALSE]

WorkIdle == [op |-> "idle"]

WorkInit ==
    /\ item = [i \in Items |-> [status |-> "absent", who |-> NoWorker, ver |-> 0]]
    /\ worker = [a \in Workers |-> [status |-> "active", room |-> TRUE, item |-> NoItem]]
    /\ asg = [x \in Assignments |-> NoAsg]
    /\ polGen = 1
    /\ workTx = [s \in WorkSessions |-> WorkIdle]
    /\ everDone = {}

\* Ids are uuids: one that a session is about to insert is not taken again.
FreshAsg(x) == asg[x] = NoAsg /\ \A s \in WorkSessions :
                   workTx[s].op = "applying" => workTx[s].x # x

\* Bound: an item whose version may still grow.
Growing(i) == item[i].ver < MaxItemVersion

WorkBegin(s, tx) == workTx[s] = WorkIdle /\ workTx' = [workTx EXCEPT ![s] = tx]
WorkEnd(s) == workTx' = [workTx EXCEPT ![s] = WorkIdle]

\* create_work_item: the dependencies must exist in the room.
CreateWorkItem(i) ==
    /\ item[i].status = "absent"
    /\ \A d \in ItemDeps[i] : item[d].status # "absent"
    /\ item' = [item EXCEPT ![i] = [@ EXCEPT !.status = "open", !.ver = 1]]
    /\ UNCHANGED <<worker, asg, polGen, workTx, everDone>>

\* register_agent, heartbeat_agent, join_room, unregister_agent and
\* _expire_stale_agents write the status and the room, never the item.
AgentReport(a, st, room) ==
    /\ worker' = [worker EXCEPT ![a] = [@ EXCEPT !.status = st, !.room = room]]
    /\ UNCHANGED <<item, asg, polGen, workTx, everDone>>

\* _dependencies_ready: all dependencies are completed now.
DependenciesReady(i) == \A d \in ItemDeps[i] : item[d].status = "completed"

\* _eligible_agents; the score that orders them is left out.
EligibleAgents(i) ==
    {a \in Suits[i] : /\ worker[a].room
                      /\ worker[a].status \in {"active", "idle"}
                      /\ worker[a].item = NoItem}

(* claim_work_item. Mutant: the dependencies are not looked at. *)
ClaimReadAnyDeps(s, a, i) ==
    /\ item[i].status # "absent" /\ Growing(i)
    /\ worker[a].room
    /\ WorkBegin(s, [op |-> "claim", a |-> a, i |-> i, ver |-> item[i].ver])
    /\ UNCHANGED <<item, worker, asg, polGen, everDone>>

ClaimRead(s, a, i) ==
    /\ item[i].status # "absent" /\ Growing(i)
    /\ worker[a].room
    /\ DependenciesReady(i)
    /\ WorkBegin(s, [op |-> "claim", a |-> a, i |-> i, ver |-> item[i].ver])
    /\ UNCHANGED <<item, worker, asg, polGen, everDone>>

\* The WHERE clause of the UPDATEs that claim and apply make.
ItemFree(i, ver) == item[i].status = "open" /\ item[i].who = NoWorker /\ item[i].ver = ver

\* The UPDATE, and the agent's row with it.
TakeItem(i, a, ver) ==
    /\ item' = [item EXCEPT ![i] = [status |-> "in_progress", who |-> a, ver |-> ver + 1]]
    /\ worker' = [worker EXCEPT ![a] = [@ EXCEPT !.item = i, !.status = "busy"]]

ClaimCommit(s) ==
    /\ workTx[s].op = "claim"
    /\ LET t == workTx[s] IN
       IF ItemFree(t.i, t.ver) THEN TakeItem(t.i, t.a, t.ver)
       ELSE UNCHANGED <<item, worker>>     \* the UPDATE matched no row: 409
    /\ WorkEnd(s)
    /\ UNCHANGED <<asg, polGen, everDone>>

(* update_work_item *)
UpdateRead(s, a, i, st) ==
    /\ item[i].who = a /\ worker[a].room /\ Growing(i)
    /\ WorkBegin(s, [op |-> "update", a |-> a, i |-> i, st |-> st, ver |-> item[i].ver])
    /\ UNCHANGED <<item, worker, asg, polGen, everDone>>

UpdateCommit(s) ==
    /\ workTx[s].op = "update"
    /\ LET t == workTx[s] IN
       IF item[t.i].who = t.a /\ item[t.i].ver = t.ver
       THEN /\ item' = [item EXCEPT ![t.i] = [@ EXCEPT !.status = t.st, !.ver = t.ver + 1]]
            /\ worker' = IF t.st \notin ItemFinal THEN worker
                         ELSE [worker EXCEPT ![t.a] = [@ EXCEPT !.item = NoItem,
                                                                !.status = "active"]]
            /\ everDone' = IF t.st = "completed" THEN everDone \cup {t.i} ELSE everDone
       ELSE UNCHANGED <<item, worker, everDone>>
    /\ WorkEnd(s)
    /\ UNCHANGED <<asg, polGen>>

-----------------------------------------------------------------------------
(* run_assignment_cycle, one open item of its list *)
ActiveCount == Cardinality({i \in Items : item[i].status = "in_progress"})

Existing(i) == {x \in Assignments : asg[x].item = i /\ asg[x].status \in {"proposed", "assigned"}}

\* The checks up to the candidate. One free place is enough for one item;
\* a propose-only policy ignores the capacity.
ProposeRead(s, i, a, auto) ==
    /\ auto => ActiveCount < MaxParallel
    /\ item[i].status = "open" /\ item[i].who = NoWorker /\ Growing(i)
    /\ DependenciesReady(i)
    /\ Existing(i) = {}
    /\ a \in EligibleAgents(i)
    /\ WorkBegin(s, [op |-> "propose", i |-> i, a |-> a, gen |-> polGen, ver |-> item[i].ver,
                     auto |-> auto])
    /\ UNCHANGED <<item, worker, asg, polGen, everDone>>

\* The unique key (generation, item, version) lets one proposal through; in
\* automatic mode the same session goes on to apply it.
ProposeCommit(s, x) ==
    /\ workTx[s].op = "propose"
    /\ FreshAsg(x)
    /\ LET t == workTx[s] IN
       IF \E y \in Assignments : /\ ~asg[y].forced /\ asg[y].item = t.i
                                 /\ asg[y].gen = t.gen /\ asg[y].ver = t.ver
       THEN asg' = asg /\ WorkEnd(s)       \* IntegrityError ends the cycle
       ELSE /\ asg' = [asg EXCEPT ![x] = [status |-> "proposed", item |-> t.i, who |-> t.a,
                                          gen |-> t.gen, ver |-> t.ver, forced |-> FALSE]]
            /\ workTx' = [workTx EXCEPT ![s] = IF t.auto THEN [op |-> "apply", x |-> x]
                                               ELSE WorkIdle]
    /\ UNCHANGED <<item, worker, polGen, everDone>>

\* apply_assignment asks for an assignment a propose-only policy left.
ApplyRequest(s, x) ==
    /\ asg[x].status = "proposed"
    /\ WorkBegin(s, [op |-> "apply", x |-> x])
    /\ UNCHANGED <<item, worker, asg, polGen, everDone>>

\* The checks of _apply_assignment_record for an assignment row.
Applicable(row) ==
    /\ row.status = "proposed"
    /\ row.gen = polGen
    /\ DependenciesReady(row.item)
    /\ row.who \in EligibleAgents(row.item)

ApplyRead(s) ==
    /\ workTx[s].op = "apply"
    /\ LET x == workTx[s].x IN
       workTx' = [workTx EXCEPT ![s] = IF Applicable(asg[x])
                     THEN [op |-> "applying", x |-> x, row |-> asg[x]] ELSE WorkIdle]
    /\ UNCHANGED <<item, worker, asg, polGen, everDone>>

\* force_assign inserts its assignment and applies it in one transaction.
ForceRead(s, x, i, a) ==
    /\ FreshAsg(x)
    /\ item[i].status # "absent" /\ Growing(i)
    /\ LET row == [status |-> "proposed", item |-> i, who |-> a, gen |-> polGen,
                   ver |-> item[i].ver, forced |-> TRUE] IN
       /\ Applicable(row)
       /\ WorkBegin(s, [op |-> "applying", x |-> x, row |-> row])
    /\ UNCHANGED <<item, worker, asg, polGen, everDone>>

ApplyCommit(s) ==
    /\ workTx[s].op = "applying"
    /\ LET t == workTx[s] IN
       IF ItemFree(t.row.item, t.row.ver)
       THEN /\ TakeItem(t.row.item, t.row.who, t.row.ver)
            /\ asg' = [asg EXCEPT ![t.x] = IF t.row.forced THEN [t.row EXCEPT !.status = "assigned"]
                                           ELSE [@ EXCEPT !.status = "assigned"]]
       ELSE UNCHANGED <<item, worker, asg>>   \* no row matched: rolled back
    /\ WorkEnd(s)
    /\ UNCHANGED <<polGen, everDone>>

(* apply_override, revoke_assignment *)
RevokeRead(s, x) ==
    /\ asg[x] # NoAsg /\ Growing(asg[x].item)
    /\ WorkBegin(s, [op |-> "revoke", x |-> x, was |-> asg[x].status,
                     row |-> item[asg[x].item], own |-> worker[asg[x].who]])
    /\ UNCHANGED <<item, worker, asg, polGen, everDone>>

\* The columns revoke_assignment writes over the item it has read.
Reopen(row) == [row EXCEPT !.status = "open", !.who = NoWorker, !.ver = @ + 1]

RevokeCommit(s) ==
    /\ workTx[s].op = "revoke"
    /\ LET t == workTx[s]
           i == asg[t.x].item
           a == asg[t.x].who IN
       /\ IF t.was = "assigned" /\ t.row.who = a /\ t.row.status = "in_progress"
          THEN /\ item' = [item EXCEPT ![i] = Reopen(t.row)]
               /\ worker' = IF t.own.item # i THEN worker
                            ELSE [worker EXCEPT ![a].item = NoItem,
                                    ![a].status = IF t.own.status = "active" THEN @ ELSE "active"]
          ELSE UNCHANGED <<item, worker>>
       /\ asg' = IF t.was = "revoked" THEN asg ELSE [asg EXCEPT ![t.x].status = "revoked"]
    /\ WorkEnd(s)
    /\ UNCHANGED <<polGen, everDone>>

WorkUpdatePolicy ==
    /\ polGen < MaxPolicyGen
    /\ polGen' = polGen + 1
    /\ UNCHANGED <<item, worker, asg, workTx, everDone>>

WorkNext ==
    \/ \E i \in Items : CreateWorkItem(i)
    \/ \E a \in Workers, r \in AgentStates : AgentReport(a, r[1], r[2])
    \/ \E s \in WorkSessions :
         \/ \E a \in Workers, i \in Items :
              \/ ClaimRead(s, a, i)
              \/ \E st \in {"in_progress", "completed", "failed"} : UpdateRead(s, a, i, st)
              \/ \E auto \in BOOLEAN : ProposeRead(s, i, a, auto)
              \/ \E x \in Assignments : ForceRead(s, x, i, a)
         \/ \E x \in Assignments : ProposeCommit(s, x) \/ ApplyRequest(s, x) \/ RevokeRead(s, x)
         \/ ClaimCommit(s) \/ UpdateCommit(s) \/ ApplyRead(s) \/ ApplyCommit(s) \/ RevokeCommit(s)
    \/ WorkUpdatePolicy

WorkSpec == WorkInit /\ [][WorkNext]_workVars

-----------------------------------------------------------------------------
WorkTypeOK ==
    /\ item \in [Items -> ItemRow]
    /\ worker \in [Workers -> WorkerRow]
    /\ asg \in [Assignments -> AsgRow]
    /\ polGen \in 1..MaxPolicyGen
    /\ everDone \subseteq Items

\* An item is open exactly while it has no assignee: a claim, an update, an
\* application and a revocation that race never leave a half of that.
OpenIffUnassigned ==
    \A i \in Items : item[i].status # "absent" => (item[i].status = "open" <=> item[i].who = NoWorker)

\* An item that has left "open" had all its dependencies completed before.
StartedAfterDependencies ==
    \A i \in Items : item[i].status \notin {"absent", "open"} => ItemDeps[i] \subseteq everDone

\* Nobody takes over the item of another agent: an assignee is only ever
\* removed, and then by a revocation.
NoItemStolen ==
    [][\A i \in Items : item[i].who # NoWorker => item'[i].who \in {item[i].who, NoWorker}]_workVars

\* The three together: claims, assignments, overrides and reopenings of two
\* sessions leave no item without or with two workers, and none early.
WorkItemsSound == [](OpenIffUnassigned /\ StartedAfterDependencies) /\ NoItemStolen
=============================================================================
