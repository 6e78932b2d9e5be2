---------------------------- MODULE GuardedAction ----------------------------
(***************************************************************************)
(* What the federation broker promises of a prepared write action: nothing *)
(* reaches the upstream server before a permit was claimed for it, it is   *)
(* sent at most once, and its one receipt says succeeded only if it was.   *)
(* FederatedActions implements it.                                         *)
(***************************************************************************)
EXTENDS Naturals

CONSTANT Actions

VARIABLES
    authorised,     \* actions a permit was claimed for
    sent,           \* sent[a]: how often a was sent upstream
    performed,      \* performed[a]: what the upstream server made of it
    verdict         \* verdict[a]: the receipt

Init ==
    /\ authorised = {}
    /\ sent = [a \in Actions |-> 0]
    /\ performed = [a \in Actions |-> "no"]
    /\ verdict = [a \in Actions |-> "none"]

Authorise(a) ==
    /\ a \notin authorised
    /\ authorised' = authorised \cup {a}
    /\ UNCHANGED <<sent, performed, verdict>>

Send(a) ==
    /\ a \in authorised /\ sent[a] = 0
    /\ sent' = [sent EXCEPT ![a] = 1]
    /\ UNCHANGED <<authorised, performed, verdict>>

Perform(a) ==
    /\ sent[a] = 1 /\ performed[a] = "no"
    /\ \E r \in {"ok", "error"} : performed' = [performed EXCEPT ![a] = r]
    /\ UNCHANGED <<authorised, sent, verdict>>

Report(a) ==
    /\ a \in authorised /\ verdict[a] = "none"
    /\ \E v \in {"succeeded", "failed", "unknown"} :
         /\ v = "succeeded" => performed[a] = "ok"
         /\ verdict' = [verdict EXCEPT ![a] = v]
    /\ UNCHANGED <<authorised, sent, performed>>

Next == \E a \in Actions : Authorise(a) \/ Send(a) \/ Perform(a) \/ Report(a)

Spec == Init /\ [][Next]_<<authorised, sent, performed, verdict>>
=============================================================================
