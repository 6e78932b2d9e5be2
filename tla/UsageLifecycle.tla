--------------------------- MODULE UsageLifecycle ---------------------------
(***************************************************************************)
(* The accounting life cycle of one host task: usage_accounting.py (start),*)
(* usage_tool_lifecycle.py (tool calls, the seal of the tool phase) and    *)
(* usage_final_lifecycle.py (completion, abandonment).                     *)
(*                                                                         *)
(* Every operation has the same shape.  It checks the rows of the task,    *)
(* hands one event (a completion with usage: two) to the LUP service and   *)
(* waits, and only then inserts its row, whose key turns a second insert   *)
(* into a read of the first.  The ids of the events are derived from the   *)
(* task, so an operation repeated after a crash publishes the same id.     *)
(* LUP is external: it stores an event under its id once, answers a replay *)
(* of the same event as a duplicate and rejects another event of that id.  *)
(***************************************************************************)
EXTENDS Sequences, Naturals

CONSTANTS
    UlCallbacks,    \* callback ids of tool calls
    UlVariants,     \* request bodies that differ (times, usage, reason)
    UlTasks         \* concurrent requests

ASSUME UlAssumption ==
    /\ UlVariants # {}
    /\ UlCallbacks \cap {"start", "seal", "final", "terminal", "none"} = {}

VARIABLES
    ulRow,          \* the rows: LupTaskStart, LupToolCall, LupToolPhaseSeal, LupTaskTerminal
    ulLup,          \* the events LUP has accepted, by id
    ulTask          \* requests in flight: events still to publish, row to insert

ulVars == <<ulRow, ulLup, ulTask>>

UlIds == {"start", "seal", "final", "terminal"} \cup UlCallbacks
UlNone == [what |-> "none"]
Event == [what : {"start", "observation", "seal", "complete", "abandon"},
          cause : UlIds \cup {"none"}, variant : UlVariants]
\* A tool call that reports no usage has a row and no event.
Silent == [what : {"silent"}, variant : UlVariants]
UlRequest == [key : UlIds, row : Event \cup Silent,
              events : Seq(UlIds \X Event)]

UlInit ==
    /\ ulRow = [i \in UlIds |-> UlNone]
    /\ ulLup = [i \in UlIds |-> UlNone]
    /\ ulTask = [t \in UlTasks |-> UlNone]

Recorded(i) == ulRow[i] # UlNone

Mk(what, cause, v) == [what |-> what, cause |-> cause, variant |-> v]

\* The request of task t that inserts row under key after publishing events.
Enter(t, key, row, events) ==
    /\ ulTask[t] = UlNone
    /\ ulTask' = [ulTask EXCEPT ![t] = [key |-> key, row |-> row, events |-> events]]
    /\ UNCHANGED <<ulRow, ulLup>>

--------------------------------------------------------------------------
(* The checks of each operation, up to the call of LUP.  A repetition whose *)
(* row exists is answered from it, or refused if its body differs.          *)

\* start_task
StartTask(t, v) ==
    LET e == Mk("start", "none", v)
    IN  /\ ~Recorded("start")
        /\ Enter(t, "start", e, <<<<"start", e>>>>)

Observed == {c \in UlCallbacks : ulRow[c].what = "observation"}

\* The latest observation, by times the host chooses, or the start.
Lineage == IF Observed # {} THEN Observed ELSE {"start"}

\* record_tool_call
RecordToolCall(t, c, v) ==
    /\ Recorded("start") /\ ~Recorded(c)
    /\ ~Recorded("terminal") /\ ~Recorded("seal")
    /\ \/ \E cause \in Lineage :
            LET e == Mk("observation", cause, v) IN Enter(t, c, e, <<<<c, e>>>>)
       \/ Enter(t, c, [what |-> "silent", variant |-> v], <<>>)

\* seal_tool_phase
SealToolPhase(t, v) ==
    /\ Recorded("start") /\ ~Recorded("seal") /\ ~Recorded("terminal")
    /\ \E cause \in Lineage :
         LET e == Mk("seal", cause, v) IN Enter(t, "seal", e, <<<<"seal", e>>>>)

FinalLineage == IF Recorded("seal") THEN {"seal"} ELSE Lineage

\* complete: a task with tool calls must be sealed; a completion that carries
\* usage publishes it as the final observation first.
Complete(t, v) ==
    /\ Recorded("start") /\ ~Recorded("terminal")
    /\ (\E c \in UlCallbacks : Recorded(c)) => Recorded("seal")
    /\ \E cause \in FinalLineage :
         LET f == Mk("observation", cause, v)
             e == Mk("complete", "final", v)
             bare == Mk("complete", cause, v)
         IN  \/ Enter(t, "terminal", e, <<<<"final", f>>, <<"terminal", e>>>>)
             \/ Enter(t, "terminal", bare, <<<<"terminal", bare>>>>)

\* abandon
Abandon(t, v) ==
    /\ Recorded("start") /\ ~Recorded("terminal")
    /\ \E cause \in FinalLineage :
         LET e == Mk("abandon", cause, v)
         IN  Enter(t, "terminal", e, <<<<"terminal", e>>>>)

--------------------------------------------------------------------------
(* Publication and the insert.                                             *)

Busy(t) == ulTask[t] # UlNone
UlDrop(t) == ulTask' = [ulTask EXCEPT ![t] = UlNone]
Next1(t) == Head(ulTask[t].events)

\* What LUP answers, and what it stores: an event can also be lost on the way,
\* or taken in without being accepted durably.
LupAnswers(i, e) ==
    {[status |-> "queued", stored |-> ulLup[i]]}
    \cup IF ulLup[i] = UlNone THEN {[status |-> "accepted", stored |-> e]}
         ELSE IF ulLup[i] = e THEN {[status |-> "duplicate", stored |-> e]}
         ELSE {[status |-> "rejected", stored |-> ulLup[i]]}

\* Plausible bug: any answer but a rejection counts.
DurableAny(answer) == answer.status # "rejected"

\* _DURABLE_RECEIPT_STATUSES
Durable(answer) == answer.status \in {"accepted", "duplicate"}

\* One event is published; an answer that is not durable ends the request.
UlPublish(t) ==
    /\ Busy(t) /\ ulTask[t].events # <<>>
    /\ LET i == Next1(t)[1]  e == Next1(t)[2]
       IN  \E answer \in LupAnswers(i, e) :
              /\ ulLup' = [ulLup EXCEPT ![i] = answer.stored]
              /\ IF Durable(answer)
                 THEN ulTask' = [ulTask EXCEPT ![t].events = Tail(@)]
                 ELSE UlDrop(t)
    /\ UNCHANGED ulRow

\* The row is inserted, or the row that came first is returned or refused.
UlInsert(t) ==
    /\ Busy(t) /\ ulTask[t].events = <<>>
    /\ LET k == ulTask[t].key
       IN  ulRow' = [ulRow EXCEPT ![k] = IF Recorded(k) THEN @ ELSE ulTask[t].row]
    /\ UlDrop(t)
    /\ UNCHANGED ulLup

\* The gateway crashes or the answer is lost: the event may have been stored.
UlCrash(t) ==
    /\ Busy(t)
    /\ IF ulTask[t].events = <<>> THEN UNCHANGED ulLup
       ELSE LET i == Next1(t)[1]  e == Next1(t)[2]
            IN  \E answer \in LupAnswers(i, e) :
                   ulLup' = [ulLup EXCEPT ![i] = answer.stored]
    /\ UlDrop(t)
    /\ UNCHANGED ulRow

--------------------------------------------------------------------------
UlNext ==
    \E t \in UlTasks :
        \/ \E v \in UlVariants :
              \/ StartTask(t, v) \/ SealToolPhase(t, v)
              \/ Complete(t, v) \/ Abandon(t, v)
              \/ \E c \in UlCallbacks : RecordToolCall(t, c, v)
        \/ UlPublish(t) \/ UlInsert(t) \/ UlCrash(t)

UlSpec == UlInit /\ [][UlNext]_ulVars

--------------------------------------------------------------------------
UlTypeOK ==
    /\ ulRow \in [UlIds -> Event \cup Silent \cup {UlNone}]
    /\ ulLup \in [UlIds -> Event \cup {UlNone}]
    /\ \A t \in UlTasks : Busy(t) => ulTask[t] \in UlRequest

(* What the gateway records is what LUP accepted.  Two requests of one     *)
(* task, a completion beside an abandonment, a repetition with another     *)
(* body after a crash: whichever row is kept, LUP holds that very event    *)
(* under its id, so the two systems never disagree on an outcome.          *)
RecordedWasAccepted ==
    \A i \in UlIds : ulRow[i] # UlNone /\ ulRow[i].what # "silent" => ulLup[i] = ulRow[i]

(* No event reaches LUP before its cause: the causation chain of a task    *)
(* (start, observations, seal, final observation, terminal) has no gap,    *)
(* although rows and events are written by different systems and a crash   *)
(* may separate them.                                                      *)
CausesAccepted ==
    \A i \in UlIds : ulLup[i] # UlNone /\ ulLup[i].cause # "none" =>
        ulLup[ulLup[i].cause] # UlNone

\* What the gateway has recorded LUP has accepted, causes before effects.
UsageSound == RecordedWasAccepted /\ CausesAccepted
=============================================================================
