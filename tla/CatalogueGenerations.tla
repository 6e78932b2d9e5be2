------------------------ MODULE CatalogueGenerations ------------------------
(***************************************************************************)
(* The two generation histories of the MCP catalogue of one owner.         *)
(*                                                                         *)
(*  - The projection (mcp_presentation.py): the tools of the enabled       *)
(*    native exposures are frozen into a candidate generation, which is    *)
(*    published, superseded, rolled back to and verified.  A handler reads  *)
(*    the generations and commits later, with no lock and no constraint on *)
(*    active rows; the ORM writes a column only if the handler changed it. *)
(*  - The search index (mcp_catalog_retrieval.py): embeddings of the       *)
(*    current revisions are built and activated under advisory locks of    *)
(*    the database, by any replica.                                        *)
(*                                                                         *)
(* A catalogue is abstracted to its content hash; the checks on single     *)
(* tools (trust, classification, schema, name collisions) to whether the   *)
(* catalogue can be frozen.                                                *)
(***************************************************************************)
EXTENDS Naturals, FiniteSets

CONSTANTS
    CgHashes,       \* content hashes of the catalogue
    CgGens,         \* ids of generation rows, of either history
    CgBuilders      \* concurrent requests, of either history

VARIABLES
    cgLive,         \* the catalogue: its hash, and whether it can be frozen
    pjGen,          \* McpProjectionGeneration rows
    pjTask,         \* requests on the projection, with what they read
    ixGen,          \* McpCatalogIndexGeneration rows
    ixTask          \* index requests, with the lock they hold and what they read

pjVars == <<pjGen, pjTask>>
ixVars == <<ixGen, ixTask>>
cgVars == <<cgLive, pjVars, ixVars>>

\* Besides its columns a row keeps two facts about its history: whether the
\* verification it has was made since it was last published, and whether
\* another request was under way when it was last published or verified.
Projection == [status : {"none", "candidate", "active", "superseded"},
               refresh : {"not_required", "pending", "verified"},
               since : BOOLEAN, raced : BOOLEAN]
NoProjection == [status |-> "none", refresh |-> "not_required", since |-> FALSE, raced |-> FALSE]
\* A request has been overtaken if another one committed since it read.
Operator == {[op |-> "idle"]}
            \cup [op : {"serve"}, target : CgGens, seen : Projection, current : SUBSET CgGens,
                  overtaken : BOOLEAN]
            \cup [op : {"verify"}, target : CgGens, seen : Projection, overtaken : BOOLEAN]
IndexRow == [status : {"none", "ready", "active", "retired"}, hash : CgHashes]
Builder == {[op |-> "idle"]}
           \cup [op : {"build"}, hash : CgHashes]
           \cup [op : {"activate"}, target : CgGens, current : SUBSET CgGens]

CgInit ==
    \E h \in CgHashes :
        /\ cgLive = [hash |-> h, sound |-> TRUE]
        /\ pjGen = [g \in CgGens |-> NoProjection]
        /\ pjTask = [b \in CgBuilders |-> [op |-> "idle"]]
        /\ ixGen = [g \in CgGens |-> [status |-> "none", hash |-> h]]
        /\ ixTask = [b \in CgBuilders |-> [op |-> "idle"]]

\* Refreshes, reviews and exposures change the catalogue (FederationRegistry).
CatalogueChanges ==
    /\ \E h \in CgHashes, sound \in BOOLEAN :
          cgLive' = [hash |-> h, sound |-> sound]
    /\ UNCHANGED <<pjVars, ixVars>>

--------------------------------------------------------------------------
(* The projection.                                                         *)

Served == {g \in CgGens : pjGen[g].status = "active"}

\* active_generation: one_or_none, an error for every handler if there are two.
Unambiguous == \A g, h \in Served : g = h

\* create_candidate_generation
CreateCandidate(g) ==
    /\ Unambiguous /\ cgLive.sound
    /\ pjGen[g].status = "none"
    /\ pjGen' = [pjGen EXCEPT ![g] = [NoProjection EXCEPT !.status = "candidate"]]
    /\ UNCHANGED <<cgLive, pjTask, ixVars>>

\* Plausible bug: the generation served so far is not superseded.
ReplacesNone(g) == {}

\* The generation that gives way to g.
Replaces(g) == Served \ {g}

\* publish_generation of a candidate, and rollback_generation of a superseded
\* generation or of the one that is active, up to their commits.
ServeRead(b, g) ==
    /\ pjTask[b].op = "idle"
    /\ pjGen[g].status \in {"candidate", "superseded", "active"} /\ Unambiguous
    /\ pjTask' = [pjTask EXCEPT ![b] =
           [op |-> "serve", target |-> g, seen |-> pjGen[g], current |-> Replaces(g), overtaken |-> FALSE]]
    /\ UNCHANGED <<cgLive, pjGen, ixVars>>

\* record_projection_verification: the operator observed the schema hash of the
\* active generation, with the evidence its kind asks for.
VerifyRead(b, g) ==
    /\ pjTask[b].op = "idle"
    /\ pjGen[g].status = "active"
    /\ pjTask' = [pjTask EXCEPT ![b] =
           [op |-> "verify", target |-> g, seen |-> pjGen[g], overtaken |-> FALSE]]
    /\ UNCHANGED <<cgLive, pjGen, ixVars>>

\* A column that the handler found as it would set it is not written.
Flushed(seen, new, now) == IF seen = new THEN now ELSE new

\* Another request is under way, or has committed since b read.
Overlapped(b) ==
    pjTask[b].overtaken \/ \E c \in CgBuilders \ {b} : pjTask[c].op # "idle"

CommitTask(b) ==
    pjTask' = [c \in CgBuilders |->
                  IF c = b THEN [op |-> "idle"]
                  ELSE IF pjTask[c].op = "idle" THEN pjTask[c]
                  ELSE [pjTask[c] EXCEPT !.overtaken = TRUE]]

\* The generation served so far gives way; the new one has to be seen by
\* ChatGPT again.
ServeCommit(b) ==
    LET k == pjTask[b]
    IN  /\ k.op = "serve"
        /\ pjGen' = [g \in CgGens |->
               IF g = k.target
               THEN [pjGen[g] EXCEPT !.status = Flushed(k.seen.status, "active", @),
                                     !.refresh = Flushed(k.seen.refresh, "pending", @),
                                     !.since = FALSE, !.raced = Overlapped(b)]
               ELSE IF g \in k.current THEN [pjGen[g] EXCEPT !.status = "superseded"]
               ELSE pjGen[g]]
        /\ CommitTask(b)
        /\ UNCHANGED <<cgLive, ixVars>>

VerifyCommit(b) ==
    LET k == pjTask[b]
    IN  /\ k.op = "verify"
        /\ pjGen' = [pjGen EXCEPT ![k.target] =
               [pjGen[k.target] EXCEPT !.refresh = Flushed(k.seen.refresh, "verified", @),
                                       !.since = ~k.overtaken,
                                       !.raced = pjGen[k.target].raced \/ Overlapped(b)]]
        /\ CommitTask(b)
        /\ UNCHANGED <<cgLive, ixVars>>

\* The request fails, or its process ends.
PjAborts(b) ==
    /\ pjTask[b].op # "idle"
    /\ pjTask' = [pjTask EXCEPT ![b] = [op |-> "idle"]]
    /\ UNCHANGED <<cgLive, pjGen, ixVars>>

PjNext ==
    \/ \E g \in CgGens : CreateCandidate(g)
    \/ \E b \in CgBuilders :
         \/ ServeCommit(b) \/ VerifyCommit(b) \/ PjAborts(b)
         \/ \E g \in CgGens : ServeRead(b, g) \/ VerifyRead(b, g)

--------------------------------------------------------------------------
(* The search index.                                                       *)

Idle(b) == ixTask' = [ixTask EXCEPT ![b] = [op |-> "idle"]]
Holds(op) == \E b \in CgBuilders : ixTask[b].op = op

\* pg_advisory_xact_lock of the catalogue's scope and model, until the commit.
BuildLock == ~Holds("build")

\* build_index_generation up to the embedding of its documents: a generation of
\* the same catalogue that is ready or active is returned instead.
BuildRead(b) ==
    /\ ixTask[b].op = "idle" /\ BuildLock
    /\ ~\E g \in CgGens : /\ ixGen[g].status \in {"ready", "active"}
                          /\ ixGen[g].hash = cgLive.hash
    /\ ixTask' = [ixTask EXCEPT ![b] = [op |-> "build", hash |-> cgLive.hash]]
    /\ UNCHANGED <<cgLive, pjVars, ixGen>>

BuildCommit(b) ==
    /\ ixTask[b].op = "build"
    /\ \E g \in CgGens :
         /\ ixGen[g].status = "none"
         /\ ixGen' = [ixGen EXCEPT ![g] =
                [status |-> "ready", hash |-> ixTask[b].hash]]
    /\ Idle(b)
    /\ UNCHANGED <<cgLive, pjVars>>

\* The embedding provider fails or returns the wrong number or size of vectors.
BuildFails(b) ==
    /\ ixTask[b].op = "build"
    /\ Idle(b)
    /\ UNCHANGED <<cgLive, pjVars, ixGen>>

\* activate_index_generation and rollback_index_generation, under the owner's
\* activation lock; a request that names an old version changes nothing.
ActivateRead(b, g) ==
    /\ ixTask[b].op = "idle" /\ ~Holds("activate")
    /\ ixGen[g].status \in {"ready", "retired"}
    /\ ixTask' = [ixTask EXCEPT ![b] =
           [op |-> "activate", target |-> g,
            current |-> {h \in CgGens : ixGen[h].status = "active"}]]
    /\ UNCHANGED <<cgLive, pjVars, ixGen>>

\* The partial unique index of the active row of an owner.
OneActive(G) == Cardinality({g \in CgGens : G[g].status = "active"}) <= 1

Activated(k) ==
    [g \in CgGens |->
        IF g = k.target THEN [ixGen[g] EXCEPT !.status = "active"]
        ELSE IF g \in k.current THEN [ixGen[g] EXCEPT !.status = "retired"]
        ELSE ixGen[g]]

ActivateCommit(b) ==
    /\ ixTask[b].op = "activate"
    /\ LET G == Activated(ixTask[b]) IN ixGen' = IF OneActive(G) THEN G ELSE ixGen
    /\ Idle(b)
    /\ UNCHANGED <<cgLive, pjVars>>

IxNext ==
    \E b \in CgBuilders :
        \/ BuildRead(b) \/ BuildCommit(b) \/ BuildFails(b) \/ ActivateCommit(b)
        \/ \E g \in CgGens : ActivateRead(b, g)

--------------------------------------------------------------------------
CgNext == CatalogueChanges \/ PjNext \/ IxNext

CgSpec == CgInit /\ [][CgNext]_cgVars

--------------------------------------------------------------------------
CgTypeOK ==
    /\ cgLive \in [hash : CgHashes, sound : BOOLEAN]
    /\ pjGen \in [CgGens -> Projection]
    /\ pjTask \in [CgBuilders -> Operator]
    /\ ixGen \in [CgGens -> IndexRow]
    /\ ixTask \in [CgBuilders -> Builder]

(* Two generations are active only if each of them was published while     *)
(* another request was under way.  (With two, active_generation fails and  *)
(* with it every listing, publication and rollback of the profile: nothing *)
(* in the code repairs it.)                                                *)
OneGenerationServed ==
    \A g, h \in Served : g # h => pjGen[g].raced /\ pjGen[h].raced

(* Once a generation has been published there is always one to serve,      *)
(* however publications and rollbacks overlap: two that supersede each     *)
(* other's target never leave both superseded.                             *)
SomethingServed == (\E g \in CgGens : pjGen[g].status = "superseded") => Served # {}

(* A generation counts as verified by ChatGPT only if that was observed    *)
(* since it was last published, be it in an earlier life or an hour ago,   *)
(* or requests overlapped: a rollback that found it pending does not write *)
(* that column, and a verification may have been read before the rollback. *)
VerifiedSincePublished ==
    \A g \in CgGens : pjGen[g].refresh = "verified" => pjGen[g].since \/ pjGen[g].raced

(* Builders on several replicas never leave two ready indexes of the same  *)
(* catalogue: the one that comes second finds the first one's row.         *)
OneReadyIndexPerCatalogue ==
    \A g, h \in CgGens :
        ixGen[g].status = "ready" /\ ixGen[h].status = "ready"
        /\ ixGen[g].hash = ixGen[h].hash => g = h

\* Overlapping operators never leave nothing to serve, nor, unless they really
\* overlapped, two generations or one verified in an earlier life; builders
\* leave one index of a catalogue.
GenerationsSound ==
    OneGenerationServed /\ SomethingServed /\ VerifiedSincePublished /\ OneReadyIndexPerCatalogue
=============================================================================
