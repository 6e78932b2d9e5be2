---------------------------- MODULE ColdHistory ----------------------------
(***************************************************************************)
(* The cold history of the outbox: terminal events are exported to a batch *)
(* file, the batch is imported by the history store, and the offload       *)
(* script deletes the hot rows once the store's manifest and receipt match *)
(* the file and the rows still match it.  Administrators rehydrate an      *)
(* archived event into the hot table and replay it, while the publisher    *)
(* and readers go on.  (scripts/export_outbox_history_batch.py,            *)
(* upload_outbox_history_batch.py, delete_outbox_history_batch.py,         *)
(* routers/outbox.py, cold_history.py)                                     *)
(***************************************************************************)
EXTENDS Naturals, FiniteSets

CONSTANTS
    ChEvents,       \* outbox events
    ChBatches,      \* batch ids
    ChRuns,         \* runs of the offload script, and the audit ids they draw
    ChAdmins,       \* requests of administrators
    ChReaders,      \* requests for one event
    MaxReplays      \* bound on the replays of one event

ASSUME ChAssumption == MaxReplays \in Nat \ {0}

VARIABLES
    chHot,          \* the OutboxEvent rows with their attempts
    chFile,         \* the batch files and manifests of the operator
    chStore,        \* the batches the history store holds
    chAudits,       \* the offload audits of each batch
    chEvidence,     \* the evidence file of each batch
    chRun,          \* the runs of the offload script
    chAdmin,        \* the administrators' requests
    chReader,       \* the readers' requests
    chLatest        \* history: the last content written to each event

chVars == <<chHot, chFile, chStore, chAudits, chEvidence, chRun, chAdmin, chReader, chLatest>>

\* replays counts replay_count, tries attempt_count, rows the attempt rows.
ChRow == [replays : 0..MaxReplays, terminal : BOOLEAN,
          tries : Nat, rows : Nat]
ChNone == [terminal |-> FALSE]
ChFirst == [replays |-> 0, terminal |-> TRUE, tries |-> 1, rows |-> 1]
Absent(e) == chHot[e] = ChNone
NoBatch == [stage |-> "none"]
NoEvidence == [status |-> "none"]

ChInit ==
    /\ chHot = [e \in ChEvents |-> ChFirst]
    /\ chFile = [b \in ChBatches |-> NoBatch]
    /\ chStore = [b \in ChBatches |-> NoBatch]
    /\ chAudits = [b \in ChBatches |-> {}]
    /\ chEvidence = [b \in ChBatches |-> NoEvidence]
    /\ chRun = [o \in ChRuns |-> [stage |-> "idle"]]
    /\ chAdmin = [a \in ChAdmins |-> [op |-> "idle"]]
    /\ chReader = [g \in ChReaders |-> [op |-> "idle"]]
    /\ chLatest = [e \in ChEvents |-> ChFirst]

\* Rows under FOR UPDATE by a run that is about to delete them.
Locked(e) == \E o \in ChRuns : chRun[o].stage = "deleting" /\ e \in chRun[o].locked

--------------------------------------------------------------------------
(* Export and upload.                                                      *)

\* export_batch, the query over the events: the terminal ones before a date
\* and after a cursor, up to a limit.  A batch id is used once.
ExportEvents(b) ==
    /\ chFile[b] = NoBatch
    /\ \E S \in (SUBSET {e \in ChEvents : chHot[e].terminal}) \ {{}} :
          chFile' = [chFile EXCEPT ![b] =
              [stage |-> "events", rows |-> [e \in S |-> chHot[e]]]]
    /\ UNCHANGED <<chHot, chStore, chAudits, chEvidence, chRun, chAdmin, chReader, chLatest>>

\* export_batch, the attempts, by a later query, and the manifest.
ExportAttempts(b) ==
    /\ chFile[b].stage = "events"
    /\ chFile' = [chFile EXCEPT ![b] =
           [stage |-> "manifest",
            rows |-> [e \in DOMAIN chFile[b].rows |->
                [chFile[b].rows[e] EXCEPT !.rows = IF Absent(e) THEN 0 ELSE chHot[e].rows]]]]
    /\ UNCHANGED <<chHot, chStore, chAudits, chEvidence, chRun, chAdmin, chReader, chLatest>>

\* upload_batch: the batch is durable whether or not the answer arrives.
Upload(b) ==
    /\ chFile[b].stage = "manifest" /\ chStore[b] = NoBatch
    /\ chStore' = [chStore EXCEPT ![b] = chFile[b]]
    /\ UNCHANGED <<chHot, chFile, chAudits, chEvidence, chRun, chAdmin, chReader, chLatest>>

--------------------------------------------------------------------------
(* The offload script.                                                     *)

\* fetch_remote_binding, verify_receipt: the store holds exactly this batch.
Bound(b) == chStore[b] = chFile[b]

\* main, up to the transaction.
OffloadBegin(o, b) ==
    /\ chRun[o].stage = "idle"
    /\ chFile[b].stage = "manifest" /\ Bound(b)
    /\ chRun' = [chRun EXCEPT ![o] = [stage |-> "bound", batch |-> b]]
    /\ UNCHANGED <<chHot, chFile, chStore, chAudits, chEvidence, chAdmin, chReader, chLatest>>

BatchEvents(b) == DOMAIN chFile[b].rows
HotEvents(b) == {e \in BatchEvents(b) : ~Absent(e)}

\* All rows are there, and events and attempts are as archived.
Matches(b) == \A e \in BatchEvents(b) : chHot[e] = chFile[b].rows[e]

\* _existing_offload_audits
NeverOffloaded(b) == chAudits[b] = {}

\* Plausible bug: the rows are read without FOR UPDATE.
LocksNone(b) == {}

\* _load_locked_events, _load_locked_attempts
Locks(b) == BatchEvents(b)

\* _evidence_payload, before the deletes.
PreparedEvidence(o) == [status |-> "prepared", audit |-> o]

\* validate_and_offload, execute: rows locked and compared, evidence "prepared".
OffloadPrepare(o) ==
    /\ chRun[o].stage = "bound"
    /\ LET b == chRun[o].batch
       IN  /\ HotEvents(b) # {} /\ \A e \in HotEvents(b) : ~Locked(e)
           /\ Matches(b) /\ NeverOffloaded(b)
           /\ chEvidence' = [chEvidence EXCEPT ![b] = PreparedEvidence(o)]
           /\ chRun' = [chRun EXCEPT ![o] =
                  [stage |-> "deleting", batch |-> b, locked |-> Locks(b)]]
    /\ UNCHANGED <<chHot, chFile, chStore, chAudits, chAdmin, chReader, chLatest>>

\* The deletes and the audit event are one commit.
OffloadCommit(o) ==
    /\ chRun[o].stage = "deleting"
    /\ LET b == chRun[o].batch
       IN  /\ chHot' = [e \in ChEvents |-> IF e \in BatchEvents(b) THEN ChNone ELSE chHot[e]]
           /\ chAudits' = [chAudits EXCEPT ![b] = @ \cup {o}]
           /\ chRun' = [chRun EXCEPT ![o] = [stage |-> "committed", batch |-> b]]
    /\ UNCHANGED <<chFile, chStore, chEvidence, chAdmin, chReader, chLatest>>

\* The evidence "offloaded", after the commit.
OffloadEvidence(o) ==
    /\ chRun[o].stage = "committed"
    /\ chEvidence' = [chEvidence EXCEPT ![chRun[o].batch] = [status |-> "offloaded", audit |-> o]]
    /\ chRun' = [chRun EXCEPT ![o] = [stage |-> "done"]]
    /\ UNCHANGED <<chHot, chFile, chStore, chAudits, chAdmin, chReader, chLatest>>

\* The audits a batch without hot rows can be reconciled with.
ReconciledAudit(b) == IF Cardinality(chAudits[b]) = 1 THEN chAudits[b] ELSE {}

\* No hot rows: an earlier run committed, and its audit is found.
OffloadReconcile(o) ==
    /\ chRun[o].stage = "bound"
    /\ LET b == chRun[o].batch
       IN  /\ HotEvents(b) = {}
           /\ \E id \in ReconciledAudit(b) :
                 chEvidence' = [chEvidence EXCEPT ![b] = [status |-> "reconciled", audit |-> id]]
    /\ chRun' = [chRun EXCEPT ![o] = [stage |-> "done"]]
    /\ UNCHANGED <<chHot, chFile, chStore, chAudits, chAdmin, chReader, chLatest>>

\* A check fails, a lock times out or the script dies: the transaction is lost.
OffloadFails(o) ==
    /\ chRun[o].stage \in {"bound", "deleting", "committed"}
    /\ chRun' = [chRun EXCEPT ![o] = [stage |-> "done"]]
    /\ UNCHANGED <<chHot, chFile, chStore, chAudits, chEvidence, chAdmin, chReader, chLatest>>

--------------------------------------------------------------------------
(* Administrators, the publisher, readers.                                 *)

\* The copies the store can answer with (it may hold the event in two batches).
Archived(e) == {chStore[b].rows[e] : b \in {c \in ChBatches :
                   chStore[c] # NoBatch /\ e \in DOMAIN chStore[c].rows}}

Leave(a) == chAdmin' = [chAdmin EXCEPT ![a] = [op |-> "idle"]]

\* rehydrate_outbox_event, up to the insert: the bundle is fetched.
RehydrateRead(a, e) ==
    /\ chAdmin[a].op = "idle" /\ Absent(e)
    /\ \E row \in Archived(e) :
          chAdmin' = [chAdmin EXCEPT ![a] = [op |-> "rehydrate", event |-> e, row |-> row]]
    /\ UNCHANGED <<chHot, chFile, chStore, chAudits, chEvidence, chRun, chReader, chLatest>>

\* Event, attempts and audit event are inserted, or the insert conflicts.
RehydrateCommit(a) ==
    /\ chAdmin[a].op = "rehydrate"
    /\ LET e == chAdmin[a].event
       IN  chHot' = [chHot EXCEPT ![e] = IF Absent(e) THEN chAdmin[a].row ELSE @]
    /\ Leave(a)
    /\ UNCHANGED <<chFile, chStore, chAudits, chEvidence, chRun, chReader, chLatest>>

\* replay_outbox_event, the read: an event that is only archived is refused.
ColdReplayRead(a, e) ==
    /\ chAdmin[a].op = "idle"
    /\ chHot[e].terminal /\ chHot[e].replays < MaxReplays
    /\ chAdmin' = [chAdmin EXCEPT ![a] =
           [op |-> "replay", event |-> e, replays |-> chHot[e].replays]]
    /\ UNCHANGED <<chHot, chFile, chStore, chAudits, chEvidence, chRun, chReader, chLatest>>

\* The update waits for the row's lock and fails if the row is gone by then.
ColdReplayCommit(a) ==
    /\ chAdmin[a].op = "replay"
    /\ LET e == chAdmin[a].event
           row == [chHot[e] EXCEPT !.terminal = FALSE, !.replays = chAdmin[a].replays + 1]
       IN  IF Absent(e) THEN UNCHANGED <<chHot, chLatest>>
           ELSE /\ ~Locked(e)
                /\ chHot' = [chHot EXCEPT ![e] = row]
                /\ chLatest' = [chLatest EXCEPT ![e] = row]
    /\ Leave(a)
    /\ UNCHANGED <<chFile, chStore, chAudits, chEvidence, chRun, chReader>>

\* The publisher delivers a pending event again (Outbox has the detail).
PublishAgain(e) ==
    /\ ~Absent(e) /\ ~chHot[e].terminal /\ ~Locked(e)
    /\ LET row == [chHot[e] EXCEPT !.terminal = TRUE, !.tries = @ + 1, !.rows = @ + 1]
       IN  /\ chHot' = [chHot EXCEPT ![e] = row]
           /\ chLatest' = [chLatest EXCEPT ![e] = row]
    /\ UNCHANGED <<chFile, chStore, chAudits, chEvidence, chRun, chAdmin, chReader>>

\* get_outbox_event, list_outbox_attempts: the hot table first.
GetHot(g, e) ==
    /\ chReader[g].op = "idle"
    /\ chReader' = [chReader EXCEPT ![g] =
           IF Absent(e) THEN [op |-> "cold", event |-> e] ELSE [op |-> "found"]]
    /\ UNCHANGED <<chHot, chFile, chStore, chAudits, chEvidence, chRun, chAdmin, chLatest>>

\* ColdHistoryClient.get_event; an unavailable store is an error of its own.
GetCold(g) ==
    /\ chReader[g].op = "cold"
    /\ chReader' = [chReader EXCEPT ![g] =
           [op |-> IF Archived(chReader[g].event) = {} THEN "missing" ELSE "found"]]
    /\ UNCHANGED <<chHot, chFile, chStore, chAudits, chEvidence, chRun, chAdmin, chLatest>>

--------------------------------------------------------------------------
ChNext ==
    \/ \E b \in ChBatches : ExportEvents(b) \/ ExportAttempts(b) \/ Upload(b)
    \/ \E o \in ChRuns : \/ \E b \in ChBatches : OffloadBegin(o, b)
                         \/ OffloadPrepare(o) \/ OffloadCommit(o) \/ OffloadEvidence(o)
                         \/ OffloadReconcile(o) \/ OffloadFails(o)
    \/ \E a \in ChAdmins : \/ \E e \in ChEvents : RehydrateRead(a, e) \/ ColdReplayRead(a, e)
                           \/ RehydrateCommit(a) \/ ColdReplayCommit(a)
    \/ \E e \in ChEvents : PublishAgain(e)
    \/ \E g \in ChReaders : (\E e \in ChEvents : GetHot(g, e)) \/ GetCold(g)

ChSpec == ChInit /\ [][ChNext]_chVars

--------------------------------------------------------------------------
\* Types of the rows, batches, evidence and requests.
ChTypeOK ==
    LET Kept(batch) == /\ batch.stage \in {"events", "manifest"}
                       /\ DOMAIN batch.rows \subseteq ChEvents
                       /\ \A e \in DOMAIN batch.rows : batch.rows[e] \in ChRow
    IN  /\ \A e \in ChEvents : chLatest[e] \in ChRow /\ (Absent(e) \/ chHot[e] \in ChRow)
        /\ \A b \in ChBatches :
              /\ chFile[b] = NoBatch \/ Kept(chFile[b])
              /\ chStore[b] = NoBatch \/ Kept(chStore[b])
              /\ chAudits[b] \subseteq ChRuns
              /\ chEvidence[b] \in {NoEvidence} \cup
                    [status : {"prepared", "offloaded", "reconciled"}, audit : ChRuns]
        /\ \A o \in ChRuns : chRun[o].stage \in {"idle", "bound", "deleting", "committed", "done"}

\* The last content written to an event is in the hot table, or in a batch the
\* store holds and an offload audit names: no order of exports, offloads,
\* crashes of the script, replays and rehydrations loses a delivery record.
NothingLost ==
    \A e \in ChEvents :
       \/ chHot[e] = chLatest[e]
       \/ \E b \in ChBatches : /\ chAudits[b] # {} /\ chStore[b] # NoBatch
                               /\ e \in DOMAIN chStore[b].rows
                               /\ chStore[b].rows[e] = chLatest[e]

\* A batch has at most one offload audit, which reconciliation relies on, also
\* when a batch is rehydrated and offloaded again.
OneAuditPerBatch == \A b \in ChBatches : Cardinality(chAudits[b]) <= 1

\* Evidence that says offloaded or reconciled names the committed audit,
\* whatever crashed between the evidence files and the commit.
EvidenceNamesAudit ==
    \A b \in ChBatches :
       chEvidence[b].status \in {"offloaded", "reconciled"} =>
           chEvidence[b].audit \in chAudits[b]

\* Looking in the hot table first and then in the store, a reader finds every
\* event, also one that is offloaded or rehydrated between the two reads.
NeverMissing == \A g \in ChReaders : chReader[g].op # "missing"

\* Offload, crash, reconciliation, rehydration and replay in any order: no
\* event is lost or unreadable, and the evidence names the one audit row.
ColdHistorySound == NothingLost /\ OneAuditPerBatch /\ EvidenceNamesAudit /\ NeverMissing
=============================================================================
