---------------------------- MODULE ResearchNotes ----------------------------
(***************************************************************************)
(* A note of the Obsidian vault under the research provider                *)
(* (obsidian_research_provider.py).  Provider processes serialise their    *)
(* writes with flock on one lock file, check the part of the note they     *)
(* change against what their caller has read, and replace the file by a    *)
(* renamed temporary one.  Callers repeat a request whose answer is lost,  *)
(* processes die anywhere, and the user's editor saves without the lock.   *)
(* A text is named by the request that wrote it first, and stands for its  *)
(* own hash; an update writes a text of its own or brings an earlier one   *)
(* back.                                                                   *)
(***************************************************************************)
EXTENDS Naturals, Sequences, SequencesExt

CONSTANTS
    RnKeys,         \* idempotency keys of the requests on the note
    NewNote,        \* the idempotency key of the note's creation
    RnProcs,        \* provider calls under way
    NoNote, Nobody,
    MaxSends,       \* bound: times a request is sent
    MaxSaves,       \* bound: saves of the editor
    MaxRnCrashes    \* bound: provider processes that die

ASSUME RnAssumption ==
    /\ IsFiniteSet(RnKeys) /\ NewNote \notin RnKeys
    /\ "hand" \notin RnKeys \cup {NewNote} /\ Nobody \notin RnProcs
    /\ Nobody \notin Seq(RnKeys \cup {NewNote, "hand"})
    /\ NoNote \notin [title : RnKeys \cup {NewNote}, tags : SUBSET RnKeys,
                      body : Seq(RnKeys \cup {NewNote, "hand"})]
    /\ MaxSends \in Nat /\ MaxSaves \in Nat /\ MaxRnCrashes \in Nat

RnOps == {"content", "append", "tags", "title"}
Hand == "hand"      \* what the editor types

VARIABLES
    rnFile,         \* the note: title, tags and body; NoNote before its creation
    rnTemps,        \* temporary files that dead processes left in the folder
    rnLock,         \* the holder of the flock, or Nobody
    rnRequest,      \* the caller's request for a key: what it wants and expects to find
    rnSent,         \* times each request was sent
    rnCall,         \* the calls: key, the document read, step
    rnTimes,        \* history: times each request reached the file
    rnPast,         \* history: the bodies the note has had
    rnKept,         \* history: appended texts that nobody has since taken away
    rnTaken,        \* history: appended texts that somebody took away
    rnSaves, rnCrashes

rnVars == <<rnFile, rnTemps, rnLock, rnRequest, rnSent, rnCall, rnTimes, rnPast, rnKept, rnTaken,
            rnSaves, rnCrashes>>

RnAllKeys == RnKeys \cup {NewNote}
IdleCall == [key |-> Nobody, seen |-> NoNote, step |-> "idle", disturbed |-> FALSE]
Unasked == [op |-> "none", wants |-> Nobody, expected |-> Nobody]
Creation == [op |-> "create", wants |-> Nobody, expected |-> Nobody]

RnInit ==
    /\ rnFile = NoNote /\ rnTemps = 0 /\ rnLock = Nobody
    /\ rnRequest = [k \in RnAllKeys |-> IF k = NewNote THEN Creation ELSE Unasked]
    /\ rnSent = [k \in RnAllKeys |-> 0]
    /\ rnCall = [p \in RnProcs |-> IdleCall]
    /\ rnTimes = [k \in RnAllKeys |-> 0]
    /\ rnPast = {} /\ rnKept = {} /\ rnTaken = {} /\ rnSaves = 0 /\ rnCrashes = 0

\* The part of the document that an operation checks and changes
Part(doc, op) ==
    CASE op \in {"content", "append"} -> doc.body
      [] op = "tags"  -> doc.tags
      [] op = "title" -> doc.title

\* What an update may write: something new, or what the note had before.
Wanted(k, op) ==
    CASE op = "content" -> {<<k>>} \cup rnPast
      [] op = "append"  -> {Nobody}
      [] op = "tags"    -> {{k}, {}}
      [] op = "title"   -> {k, NewNote}

\* A caller has read the note and asks for a change of what it has read;
\* only update_title may leave the expectation out.
Ask(k, op) ==
    /\ rnFile # NoNote /\ rnRequest[k] = Unasked
    /\ \E w \in Wanted(k, op), e \in {Part(rnFile, op)} \cup (IF op = "title" THEN {Nobody} ELSE {}) :
         rnRequest' = [rnRequest EXCEPT ![k] = [op |-> op, wants |-> w, expected |-> e]]
    /\ UNCHANGED <<rnFile, rnTemps, rnLock, rnSent, rnCall, rnTimes, rnPast, rnKept, rnTaken, rnSaves, rnCrashes>>

Desired(k, doc) ==
    LET op == rnRequest[k].op
        w  == rnRequest[k].wants IN
    CASE op = "create"  -> [title |-> k, tags |-> {}, body |-> <<k>>]
      [] op = "content" -> [doc EXCEPT !.body = w]
      [] op = "append"  -> [doc EXCEPT !.body = Append(@, k)]
      [] op = "tags"    -> [doc EXCEPT !.tags = w]
      [] op = "title"   -> [doc EXCEPT !.title = w]

\* create answers from an existing note when title and body are the
\* request's; append looks for its marker; the others compare the result.
Already(k, doc) ==
    /\ doc # NoNote
    /\ LET op == rnRequest[k].op IN
       CASE op = "create" -> doc.title = k /\ doc.body = <<k>>
         [] op = "append" -> Contains(doc.body, k)
         [] OTHER -> Part(doc, op) = Part(Desired(k, doc), op)

Conflicts(k, doc) ==
    /\ ~Already(k, doc)
    /\ LET r == rnRequest[k] IN
       \/ r.op = "create" /\ doc # NoNote          \* IDEMPOTENCY_CONFLICT
       \/ r.op # "create" /\ r.expected # Nobody /\ Part(doc, r.op) # r.expected

FlockFree == rnLock = Nobody

\* _write_lock, then the first read of the file: replayed, refused or on
\* towards the write.  The retry of a lost answer enters here as well.
Enter(p, k) ==
    /\ rnCall[p].step = "idle" /\ rnRequest[k] # Unasked /\ rnSent[k] < MaxSends
    /\ FlockFree
    /\ rnSent' = [rnSent EXCEPT ![k] = @ + 1]
    /\ IF Already(k, rnFile) \/ Conflicts(k, rnFile)
       THEN UNCHANGED <<rnLock, rnCall>>
       ELSE /\ rnLock' = p
            /\ rnCall' = [rnCall EXCEPT ![p] = [key |-> k, seen |-> rnFile, disturbed |-> FALSE,
                 step |-> IF rnRequest[k].op = "append" THEN "recheck" ELSE "write"]]
    /\ UNCHANGED <<rnFile, rnTemps, rnRequest, rnTimes, rnPast, rnKept, rnTaken, rnSaves, rnCrashes>>

Leave(p) == rnLock' = Nobody /\ rnCall' = [rnCall EXCEPT ![p] = IdleCall]

\* append goes through _update_content_locked, which reads and compares again
Recheck(p) ==
    /\ rnCall[p].step = "recheck"
    /\ LET k == rnCall[p].key IN
       IF rnFile.body # rnRequest[k].expected
       THEN Leave(p)
       ELSE /\ rnCall' = [rnCall EXCEPT ![p].seen = rnFile, ![p].step = "write", ![p].disturbed = FALSE]
            /\ UNCHANGED rnLock
    /\ UNCHANGED <<rnFile, rnTemps, rnRequest, rnSent, rnTimes, rnPast, rnKept, rnTaken, rnSaves, rnCrashes>>

\* _atomic_write: the new document goes to a temporary file that is synced
WriteTemp(p) ==
    /\ rnCall[p].step = "write"
    /\ rnTemps' = rnTemps + 1
    /\ rnCall' = [rnCall EXCEPT ![p].step = "replace"]
    /\ UNCHANGED <<rnFile, rnLock, rnRequest, rnSent, rnTimes, rnPast, rnKept, rnTaken, rnSaves, rnCrashes>>

\* _render_document keeps the front matter it does not change
Rendered(p) == Desired(rnCall[p].key, rnCall[p].seen)

\* Somebody made b the body of the note.
RnRewritten(b) ==
    /\ rnPast' = rnPast \cup {b}
    /\ rnKept' = rnKept \cap ToSet(b)
    /\ rnTaken' = rnTaken \cup (rnKept \ ToSet(b))

\* os.replace, and the answer read from the new file; the caller may or may
\* not receive it
Replace(p) ==
    /\ rnCall[p].step = "replace"
    /\ LET k == rnCall[p].key IN
       /\ rnFile' = Rendered(p)
       /\ rnTimes' = [rnTimes EXCEPT ![k] = @ + 1]
       /\ IF rnRequest[k].op = "content" THEN RnRewritten(rnRequest[k].wants)
          ELSE /\ rnPast' = rnPast \cup {Rendered(p).body} /\ UNCHANGED rnTaken
               /\ rnKept' = IF rnRequest[k].op = "append" THEN rnKept \cup {k} ELSE rnKept
    /\ rnTemps' = rnTemps - 1
    /\ Leave(p)
    /\ UNCHANGED <<rnRequest, rnSent, rnSaves, rnCrashes>>

\* The process dies: the kernel drops the lock, a temporary file stays.
RnCrash(p) ==
    /\ rnCall[p].step # "idle" /\ rnCrashes < MaxRnCrashes
    /\ rnCrashes' = rnCrashes + 1
    /\ Leave(p)
    /\ UNCHANGED <<rnFile, rnTemps, rnRequest, rnSent, rnTimes, rnPast, rnKept, rnTaken, rnSaves>>

\* Obsidian saves what its user sees, with a line typed or the last one removed
EditorSave ==
    /\ rnFile # NoNote /\ rnSaves < MaxSaves
    /\ rnSaves' = rnSaves + 1
    /\ \E b \in {Append(rnFile.body, Hand)} \cup (IF rnFile.body = <<>> THEN {} ELSE {Front(rnFile.body)}) :
         rnFile' = [rnFile EXCEPT !.body = b] /\ RnRewritten(b)
    /\ rnCall' = [p \in RnProcs |-> [rnCall[p] EXCEPT !.disturbed = rnCall[p].step # "idle"]]
    /\ UNCHANGED <<rnTemps, rnLock, rnRequest, rnSent, rnTimes, rnCrashes>>

RnNext ==
    \/ \E k \in RnKeys, op \in RnOps : Ask(k, op)
    \/ \E p \in RnProcs, k \in RnAllKeys : Enter(p, k)
    \/ \E p \in RnProcs : Recheck(p) \/ WriteTemp(p) \/ Replace(p) \/ RnCrash(p)
    \/ EditorSave
-----------------------------------------------------------------------------
RnDocs == [title : RnAllKeys, tags : {{}} \cup {{k} : k \in RnKeys},
           body : BoundedSeq(RnAllKeys \cup {Hand}, 1 + Cardinality(RnKeys) + MaxSaves)]

RnTypeOK ==
    /\ rnFile = NoNote \/ rnFile \in RnDocs
    /\ rnTemps \in 0..(MaxRnCrashes + 1)
    /\ rnLock \in RnProcs \cup {Nobody}
    /\ \A k \in RnKeys : rnRequest[k].op \in RnOps \cup {"none"}
    /\ rnSent \in [RnAllKeys -> 0..MaxSends]
    /\ \A p \in RnProcs : rnCall[p].key \in RnAllKeys \cup {Nobody}

\* No text of a request stands in a body twice.
EachOnce(b) == \A i, j \in DOMAIN b : b[i] = b[j] /\ b[i] # Hand => i = j

\* Research notes.  While a process holds what it has read and means to
\* replace the file, the file is still what it read, unless the user's
\* editor saved in between: the lock and the second reading of append leave
\* no other way to lose a write.  A text that a provider appended stays in
\* the note until an update of the content or the user takes it away,
\* whatever renames, tags, repetitions and deaths happen meanwhile.  The note
\* is created once, and a repeated append reaches the file again only after
\* its text was taken away; however updates bring earlier bodies back, no
\* text stands in the note twice.
NotesSound ==
    /\ \A p \in RnProcs :
         rnCall[p].step \in {"write", "replace"} => rnCall[p].seen = rnFile \/ rnCall[p].disturbed
    /\ rnFile # NoNote => rnKept \subseteq ToSet(rnFile.body) /\ EachOnce(rnFile.body)
    /\ rnTimes[NewNote] <= 1
    /\ \A k \in RnKeys : rnRequest[k].op = "append" /\ rnTimes[k] > 1 => k \in rnTaken
=============================================================================
