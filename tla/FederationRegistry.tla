------------------------- MODULE FederationRegistry -------------------------
(***************************************************************************)
(* The registry of one upstream MCP server: its capabilities (tools,       *)
(* resources and templates, prompts) as catalogue refreshes found them,    *)
(* one revision per distinct descriptor, the operator's classification and *)
(* exposure of a revision, and the federation policy.  Mutations carry an  *)
(* idempotency key (McpMutationReceipt) and the version they expect; they  *)
(* and the three commits of a refresh read without locks and write later.  *)
(***************************************************************************)
EXTENDS Naturals

CONSTANTS
    Caps,           \* capabilities
    Descriptors,    \* descriptor hashes
    Absent,         \* no descriptor: not listed upstream
    RegKeys,        \* idempotency keys of mutations
    RegSessions,    \* database sessions
    MaxRefreshes    \* bound on the refreshes

ASSUME RegistryAssumption ==
    /\ Absent \notin Descriptors
    /\ MaxRefreshes \in Nat

VARIABLES
    regKind,        \* what each capability is; never changes
    regUp,          \* what the upstream server lists now
    regCap,         \* McpTool / McpCapabilityEntity rows
    regClass,       \* classification of each recorded revision
    regExp,         \* exposure of each revision (projection generation 0)
    regNewest,      \* per capability, the exposure with the latest updated_at
                    \* and the number of exposures written so far
    regPolicy,      \* McpFederationPolicy; generation 0 = no row
    regTaken,       \* history: numbers that followed the ones updates had read
    regReused,      \* history: those that followed for a second time
    regKey,         \* how often the mutation of a key was applied
    regReviewed,    \* revisions an operator has enabled, ever
    regCalled,      \* descriptors that a call's own session listed before it
    regRefreshes, regTx

policyVars == <<regPolicy, regTaken, regReused>>
expVars == <<regExp, regNewest>>
regVars == <<regKind, regUp, regCap, regClass, expVars, policyVars, regKey, regReviewed, regCalled, regRefreshes, regTx>>

RegKinds == {"tool", "resource", "prompt"}
Revisions == Caps \X Descriptors
\* Trust levels, told apart by whether a server with them may be used.
TrustLevels == {"untrusted", "trusted"}
Trusted == {"trusted"}
CapRow == [state : {"absent", "active", "missing"}, cur : Descriptors \cup {Absent}]
ExpRow == [version : Nat, enabled : BOOLEAN, generation : Nat]
RegIdle == [op |-> "idle"]

RegTypeOK ==
    /\ regKind \in [Caps -> RegKinds]
    /\ regUp \in [Caps -> Descriptors \cup {Absent}]
    /\ regCap \in [Caps -> CapRow]
    /\ regClass \in [Revisions -> {"none", "unknown", "read", "write"}]
    /\ regExp \in [Revisions -> ExpRow]
    /\ regNewest \in [Caps -> [cur : Descriptors \cup {Absent}, count : Nat]]
    /\ regPolicy \in [generation : Nat, trust : TrustLevels]
    /\ regTaken \subseteq Nat /\ regReused \subseteq Nat
    /\ regKey \in [RegKeys -> Nat]
    /\ regReviewed \subseteq Revisions /\ regCalled \subseteq Revisions

RegInit ==
    /\ regKind \in [Caps -> RegKinds]
    /\ regUp \in [Caps -> Descriptors]
    /\ regCap = [c \in Caps |-> [state |-> "absent", cur |-> Absent]]
    /\ regClass = [r \in Revisions |-> "none"]
    /\ regExp = [r \in Revisions |-> [version |-> 0, enabled |-> FALSE, generation |-> 0]]
    /\ regPolicy \in {[generation |-> 0, trust |-> "untrusted"],
                      [generation |-> 1, trust |-> "trusted"]}   \* reviewed before
    /\ regNewest = [c \in Caps |-> [cur |-> Absent, count |-> 0]]
    /\ regTaken = {regPolicy.generation} /\ regReused = {}
    /\ regKey = [k \in RegKeys |-> 0]
    /\ regReviewed = {} /\ regCalled = {} /\ regRefreshes = 0
    /\ regTx = [s \in RegSessions |-> RegIdle]

RegBegin(s, t) == regTx[s] = RegIdle /\ regTx' = [regTx EXCEPT ![s] = t]
RegEnd(s) == regTx' = [regTx EXCEPT ![s] = RegIdle]

\* The upstream server changes or drops a descriptor.
Drift(c, d) ==
    /\ d # regUp[c] /\ regRefreshes < MaxRefreshes
    /\ regUp' = [regUp EXCEPT ![c] = d]
    /\ UNCHANGED <<regKind, regCap, regClass, expVars, policyVars, regKey, regReviewed, regCalled, regRefreshes, regTx>>

-----------------------------------------------------------------------------
(* refresh_server: the listing, then one transaction per kind. *)

NextKind(k) == IF k = "tool" THEN "resource" ELSE "prompt"

RefreshList(s) ==
    /\ regRefreshes < MaxRefreshes
    /\ regRefreshes' = regRefreshes + 1
    /\ RegBegin(s, [op |-> "listed", kind |-> "tool", snap |-> regUp])
    /\ UNCHANGED <<regKind, regUp, regCap, regClass, expVars, policyVars, regKey, regReviewed, regCalled>>

RefreshRead(s) ==
    /\ regTx[s].op = "listed"
    /\ regTx' = [regTx EXCEPT ![s] = [op |-> "reconcile", kind |-> @.kind, snap |-> @.snap,
                                      caps |-> regCap, class |-> regClass]]
    /\ UNCHANGED <<regKind, regUp, regCap, regClass, expVars, policyVars, regKey, regReviewed, regCalled, regRefreshes>>

\* A tool whose descriptor was seen before returns to that revision; a
\* resource or a prompt inserts a revision whenever its descriptor differs
\* from the current one.
ToolInserts(t, c) == regKind[c] = "tool" /\ t.class[c, t.snap[c]] = "none"

ResourceInserts(t, c) == regKind[c] = "resource" /\ t.caps[c].cur # t.snap[c]

PromptInserts(t, c) == regKind[c] = "prompt" /\ t.caps[c].cur # t.snap[c]

InsertsRevision(t, c) ==
    t.snap[c] # Absent /\ (ToolInserts(t, c) \/ ResourceInserts(t, c) \/ PromptInserts(t, c))

\* Unique rows: a capability per name, a revision per descriptor.
ReconcileClash(t, k) ==
    \E c \in Caps : /\ regKind[c] = k /\ t.snap[c] # Absent
                    /\ \/ t.caps[c].state = "absent" /\ regCap[c].state # "absent"
                       \/ InsertsRevision(t, c) /\ regClass[c, t.snap[c]] # "none"

\* record_tool_revision for every listed capability; what was active and is
\* not listed is missing.
Reconciled(t, c) ==
    CASE t.snap[c] # Absent -> [state |-> "active", cur |-> t.snap[c]]
      [] t.snap[c] = Absent /\ t.caps[c].state = "active" -> [regCap[c] EXCEPT !.state = "missing"]
      [] OTHER -> regCap[c]

ReconcileCommit(s) ==
    /\ regTx[s].op = "reconcile"
    /\ LET t == regTx[s]
           k == t.kind IN
       IF ReconcileClash(t, k)
       THEN RegEnd(s) /\ UNCHANGED <<regCap, regClass>>
       ELSE /\ regCap' = [c \in Caps |-> IF regKind[c] = k THEN Reconciled(t, c) ELSE regCap[c]]
            /\ regClass' = [r \in Revisions |->
                 IF regKind[r[1]] = k /\ t.snap[r[1]] = r[2] /\ regClass[r] = "none"
                 THEN "unknown" ELSE regClass[r]]
            /\ IF k = "prompt" THEN RegEnd(s)
               ELSE regTx' = [regTx EXCEPT ![s] = [op |-> "listed", kind |-> NextKind(k), snap |-> t.snap]]
    /\ UNCHANGED <<regKind, regUp, expVars, policyVars, regKey, regReviewed, regCalled, regRefreshes>>

\* A crash or a failure between two of the commits.
RefreshAborts(s) ==
    /\ regTx[s].op \in {"listed", "reconcile"}
    /\ RegEnd(s)
    /\ UNCHANGED <<regKind, regUp, regCap, regClass, expVars, policyVars, regKey, regReviewed, regCalled, regRefreshes>>

-----------------------------------------------------------------------------
(* Mutations.  A key that has its receipt is answered from it. *)

ReadMutation(s, k, t) ==
    /\ regKey[k] = 0
    /\ RegBegin(s, t)
    /\ UNCHANGED <<regKind, regUp, regCap, regClass, expVars, policyVars, regKey, regReviewed, regCalled, regRefreshes>>

ClassifyRead(s, k, r, class) ==
    /\ regKind[r[1]] = "tool" /\ regClass[r] # "none"
    /\ ReadMutation(s, k, [op |-> "classify", k |-> k, r |-> r, class |-> class])

\* upsert_exposure and its resource and prompt counterparts: enabling needs a
\* trusted server, and for a tool a classification.
ToolExposable(r) ==
    regKind[r[1]] = "tool" /\ regPolicy.trust \in Trusted /\ regClass[r] # "unknown"

ResourceExposable(r) == regKind[r[1]] = "resource" /\ regPolicy.trust \in Trusted

PromptExposable(r) == regKind[r[1]] = "prompt" /\ regPolicy.trust \in Trusted

ExposeRead(s, k, r, enabled) ==
    /\ regClass[r] # "none"
    /\ enabled => ToolExposable(r) \/ ResourceExposable(r) \/ PromptExposable(r)
    /\ ReadMutation(s, k, [op |-> "expose", k |-> k, r |-> r, version |-> regExp[r].version,
                           enabled |-> enabled, generation |-> regPolicy.generation,
                           count |-> regNewest[r[1]].count])

PolicyRead(s, k, trust) ==
    ReadMutation(s, k, [op |-> "policy", k |-> k, generation |-> regPolicy.generation, trust |-> trust])

\* The receipt of the key is unique; the version expected was compared when
\* the row was read, and only an insert meets a constraint again.
MutationClash(t) ==
    \/ regKey[t.k] > 0
    \/ t.op = "expose" /\ t.version = 0 /\ regExp[t.r].version # 0
    \/ t.op = "policy" /\ t.generation = 0 /\ regPolicy.generation # 0

\* Mutant: a policy update keeps the generation.
PolicyApplySameGeneration(t) == regPolicy' = [generation |-> IF t.generation = 0 THEN 1 ELSE t.generation,
                                              trust |-> t.trust]

PolicyApply(t) == regPolicy' = [generation |-> t.generation + 1, trust |-> t.trust]

\* updated_at is set before the commit: where another exposure of the
\* capability was committed since the read, either may carry the later stamp.
NewestAfter(t) ==
    {t.r[2]} \cup (IF regNewest[t.r[1]].count = t.count THEN {} ELSE {regNewest[t.r[1]].cur})

ExposeApply(t) ==
    /\ regExp' = [regExp EXCEPT ![t.r] =
         [version |-> t.version + 1, enabled |-> t.enabled,
          generation |-> IF regKind[t.r[1]] = "tool" /\ t.version > 0 THEN @.generation ELSE t.generation]]
    /\ regReviewed' = IF t.enabled THEN regReviewed \cup {t.r} ELSE regReviewed
    /\ \E d \in NewestAfter(t) :
         regNewest' = [regNewest EXCEPT ![t.r[1]] = [cur |-> d, count |-> @.count + 1]]

\* History: an update based on the generation before n was committed.
TakeNumber(n) ==
    /\ regTaken' = regTaken \cup {n}
    /\ regReused' = IF n \in regTaken THEN regReused \cup {n} ELSE regReused

MutationCommit(s) ==
    /\ regTx[s].op \in {"classify", "expose", "policy"}
    /\ RegEnd(s)
    /\ LET t == regTx[s] IN
       IF MutationClash(t) THEN UNCHANGED <<regClass, expVars, policyVars, regKey, regReviewed>>
       ELSE /\ regKey' = [regKey EXCEPT ![t.k] = @ + 1]
            /\ CASE t.op = "classify" -> /\ regClass' = [regClass EXCEPT ![t.r] = t.class]
                                         /\ UNCHANGED <<expVars, policyVars, regReviewed>>
                 [] t.op = "expose"   -> ExposeApply(t) /\ UNCHANGED <<regClass, policyVars>>
                 [] t.op = "policy"   -> /\ PolicyApply(t) /\ TakeNumber(t.generation + 1)
                                         /\ UNCHANGED <<regClass, expVars, regReviewed>>
    /\ UNCHANGED <<regKind, regUp, regCap, regCalled, regRefreshes>>

-----------------------------------------------------------------------------
(* Authorisation *)

\* _current_exposure: an enabled exposure of exactly this revision.
ToolExposed(c, d) == regExp[c, d].enabled

\* authorize_tool_revision: the server is trusted, the revision classified.
PolicyAllows(c, d) ==
    regPolicy.generation > 0 /\ regPolicy.trust \in Trusted /\ regClass[c, d] # "unknown"

\* _resolve_authorized.
ToolAuthorised(c, d) ==
    /\ regCap[c] = [state |-> "active", cur |-> d]
    /\ ToolExposed(c, d)
    /\ PolicyAllows(c, d)

\* _authorize_exact_binding: the latest exposure of the entity is that of the
\* current revision, and reviewed under this policy generation.
ExactBinding(c, d) ==
    /\ regCap[c] = [state |-> "active", cur |-> d]
    /\ regExp[c, d].enabled
    /\ regNewest[c].cur = d
    /\ regExp[c, d].generation = regPolicy.generation

\* resolve_public_prompt_binding: the same for a prompt.
PromptBinding(c, d) ==
    /\ regCap[c] = [state |-> "active", cur |-> d]
    /\ regExp[c, d].enabled
    /\ regNewest[c].cur = d
    /\ regExp[c, d].generation = regPolicy.generation

Authorised(c, d) ==
    CASE regKind[c] = "tool" -> ToolAuthorised(c, d)
      [] regKind[c] = "resource" -> ExactBinding(c, d)
      [] regKind[c] = "prompt" -> PromptBinding(c, d)

-----------------------------------------------------------------------------
(* Use: a client picks a name from a listing, and calls it later; the live *)
(* descriptor is looked up in the session the call opens.                  *)

\* search_catalog: current revisions of active tools with an enabled
\* exposure under an active policy, each resolved before it is ranked.
SearchResults == {r \in Revisions : regKind[r[1]] = "tool" /\ ToolAuthorised(r[1], r[2])}

\* public_resource_catalog.
PublicResources == {r \in Revisions : regKind[r[1]] = "resource" /\ ExactBinding(r[1], r[2])}

\* public_prompt_catalog.
PublicPrompts == {r \in Revisions : regKind[r[1]] = "prompt" /\ PromptBinding(r[1], r[2])}

Choose(s, r) ==
    /\ r \in SearchResults \cup PublicResources \cup PublicPrompts
    /\ RegBegin(s, [op |-> "chosen", r |-> r])
    /\ UNCHANGED <<regKind, regUp, regCap, regClass, expVars, policyVars, regKey, regReviewed, regCalled, regRefreshes>>

\* call_read needs a verified read; a resource or a prompt its binding.
CallRead(r) == regKind[r[1]] = "tool" /\ ToolAuthorised(r[1], r[2]) /\ regClass[r] = "read"
ReadResource(r) == regKind[r[1]] = "resource" /\ ExactBinding(r[1], r[2])
GetPrompt(r) == regKind[r[1]] = "prompt" /\ PromptBinding(r[1], r[2])

Resolve(s) ==
    /\ regTx[s].op = "chosen"
    /\ LET r == regTx[s].r IN
       IF CallRead(r) \/ ReadResource(r) \/ GetPrompt(r)
       THEN regTx' = [regTx EXCEPT ![s].op = "session"]
       ELSE RegEnd(s)
    /\ UNCHANGED <<regKind, regUp, regCap, regClass, expVars, policyVars, regKey, regReviewed, regCalled, regRefreshes>>

\* The descriptor the session lists has the hash of the selected revision.
LiveMatches(r) == regUp[r[1]] = r[2]

\* _find_upstream_tool, and the listings of read_exact_resource and
\* get_exact_prompt, in the session of the call.
ListLive(s) ==
    /\ regTx[s].op = "session"
    /\ LET r == regTx[s].r IN
       IF LiveMatches(r)
       THEN regTx' = [regTx EXCEPT ![s] = [op |-> "matched", r |-> r, listed |-> regUp[r[1]]]]
       ELSE RegEnd(s)
    /\ UNCHANGED <<regKind, regUp, regCap, regClass, expVars, policyVars, regKey, regReviewed, regCalled, regRefreshes>>

\* The call itself, in a later exchange: the server may have changed since.
CallLive(s) ==
    /\ regTx[s].op = "matched"
    /\ RegEnd(s)
    /\ regCalled' = regCalled \cup {<<regTx[s].r[1], regTx[s].listed>>}
    /\ UNCHANGED <<regKind, regUp, regCap, regClass, expVars, policyVars, regKey, regReviewed, regRefreshes>>

RegNext ==
    \/ \E c \in Caps, d \in Descriptors \cup {Absent} : Drift(c, d)
    \/ \E s \in RegSessions :
         \/ RefreshList(s) \/ RefreshRead(s) \/ ReconcileCommit(s) \/ RefreshAborts(s)
         \/ MutationCommit(s) \/ Resolve(s) \/ ListLive(s) \/ CallLive(s)
         \/ \E r \in Revisions : Choose(s, r)
         \/ \E k \in RegKeys :
              \/ \E r \in Revisions : \/ \E class \in {"unknown", "read", "write"} : ClassifyRead(s, k, r, class)
                                      \/ \E on \in BOOLEAN : ExposeRead(s, k, r, on)
              \/ \E trust \in TrustLevels : PolicyRead(s, k, trust)

RegSpec == RegInit /\ [][RegNext]_regVars

-----------------------------------------------------------------------------
\* A descriptor nobody reviewed is never usable, however the upstream server
\* changes it back and forth and whichever refreshes and reviews overlap.
UsableWasReviewed == \A r \in Revisions : Authorised(r[1], r[2]) => r \in regReviewed

\* Nothing is usable while the policy does not trust the server, unless two
\* overlapping updates took the generation in force: resources and prompts
\* rely on that number alone, which upsert_policy computes on an unlocked read.
UsableUnderTrust ==
    \A r \in Revisions : Authorised(r[1], r[2]) =>
        regPolicy.trust \in Trusted \/ regPolicy.generation \in regReused

\* A call runs only after its own session listed a descriptor that was
\* reviewed, whatever the upstream server and the operators changed between
\* the client's listing, the check and the call.
CalledAsReviewed == regCalled \subseteq regReviewed

\* A mutation repeated under its key, even at the same time, happens once.
MutationOncePerKey == \A k \in RegKeys : regKey[k] <= 1

\* What a caller may rely on, although nothing is locked: a usable capability
\* was reviewed as it is and under the trust in force, up to a generation taken
\* twice; it is called after its reviewed descriptor was listed; and a mutation
\* runs once per key.
RegistrySound == UsableWasReviewed /\ UsableUnderTrust /\ CalledAsReviewed /\ MutationOncePerKey
=============================================================================
