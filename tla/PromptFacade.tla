---------------------------- MODULE PromptFacade ----------------------------
(***************************************************************************)
(* PromptRegistryFacade (prompt_registry_facade.py): the gateway's cache   *)
(* of release manifests and of the bundles they name.  One lock is held    *)
(* across the request to the registry.  An entry is served without asking  *)
(* while it is fresh, revalidated by its ETag afterwards, and served stale *)
(* while the registry is down, as long as its release allows.  Releases    *)
(* move on and are revoked at the registry meanwhile; entries grow older.  *)
(* A bundle is immutable: its id is its content and its ETag.              *)
(***************************************************************************)
EXTENDS Naturals

CONSTANTS
    PfChannels, PfBundles,
    PfCalls,        \* get_manifest and get_bundle calls under way
    PfLimits,       \* values of a release's max_stale_seconds
    PfFresh,        \* gateway_prompt_registry_revalidate_after_seconds
    PfMaxStale,     \* gateway_prompt_registry_max_stale_seconds
    PfTravel,       \* longest way of an answer, a read timeout
    NoEntry,
    PfOld,          \* bound: an age that counts as old whatever the limits
    PfMaxChanges    \* bound: changes at the registry

ASSUME PfAssumption ==
    /\ PfLimits \subseteq Nat /\ PfFresh \in Nat /\ PfMaxStale \in Nat /\ PfTravel \in Nat
    /\ PfOld \in Nat /\ PfFresh <= PfOld /\ PfMaxStale < PfOld
    /\ NoEntry \notin PfChannels \cup PfBundles /\ NoEntry \notin [bundle : PfBundles, limit : PfLimits]
    /\ NoEntry \notin [value : PfBundles \cup [bundle : PfBundles, limit : PfLimits],
                       age : Nat, lag : Nat, limit : Nat]

VARIABLES
    pfRelease,      \* registry: channel -> release
    pfRevoked,      \* registry: revoked bundles, for good
    pfManifest,     \* _manifest_cache: channel -> entry
    pfBundle,       \* _bundle_cache: bundle -> entry
    pfLimit,        \* _bundle_stale_limits; 0 where the code has no entry
    pfCall,         \* the calls
    pfLate,         \* history: an answer was older than it may be
    pfTold,         \* history: bundles the facade was told are revoked, and how
    pfNewest,       \* history: the limit of the last manifest naming a bundle
    pfChanges

pfVars == <<pfRelease, pfRevoked, pfManifest, pfBundle, pfLimit, pfCall, pfLate,
            pfTold, pfNewest, pfChanges>>
pfRegistry == <<pfRelease, pfRevoked, pfChanges>>

\* age: since validated_at; lag: how long the registry's word was under way,
\* which the code does not know
Entry(x, lag, limit) == [value |-> x, age |-> 0, lag |-> lag, limit |-> limit]
PfReleases == [bundle : PfBundles, limit : PfLimits]
IdlePf == [step |-> "idle", kind |-> "none", id |-> NoEntry, status |-> 0, value |-> NoEntry, lag |-> 0]

PfInit ==
    /\ \E x \in PfReleases \cup {NoEntry} : pfRelease = [c \in PfChannels |-> x]
    /\ pfRevoked = {}
    /\ pfManifest = [c \in PfChannels |-> NoEntry]
    /\ pfBundle = [b \in PfBundles |-> NoEntry]
    /\ pfLimit = [b \in PfBundles |-> 0]
    /\ pfCall = [h \in PfCalls |-> IdlePf]
    /\ pfLate = FALSE
    /\ pfTold = [manifest |-> {}, bundle |-> {}]
    /\ pfNewest = [b \in PfBundles |-> 0]
    /\ pfChanges = 0

Least(a, b) == IF a < b THEN a ELSE b
Cached(kind, id) == IF kind = "manifest" THEN pfManifest[id] ELSE pfBundle[id]
IsFresh(e) == e # NoEntry /\ e.age < PfFresh

CanServeStale(e) ==
    /\ e # NoEntry
    /\ LET allowed == Least(e.limit, PfMaxStale) IN allowed > 0 /\ e.age <= allowed

\* An answer, and whether it is older than it may be: one that was validated
\* by this call has age 0 whatever the interval is.
Serve(e, stale) ==
    pfLate' = (pfLate \/ e.age + e.lag >
                   PfTravel + IF stale THEN Least(e.limit, PfMaxStale)
                              ELSE IF PfFresh = 0 THEN 0 ELSE PfFresh - 1)

\* Plausible bug: the lock is released before the registry is asked.
PfUnlockedAlways == TRUE
PfUnlocked == \A h \in PfCalls : pfCall[h].step = "idle"

\* A call under the lock: a fresh entry answers it, otherwise it asks the
\* registry, with the ETag of what it has.
Begin(h, kind, id) ==
    /\ pfCall[h].step = "idle" /\ PfUnlocked
    /\ LET e == Cached(kind, id) IN
       IF IsFresh(e)
       THEN Serve(e, FALSE) /\ UNCHANGED pfCall
       ELSE /\ pfCall' = [pfCall EXCEPT ![h] = [IdlePf EXCEPT !.step = "asked", !.kind = kind, !.id = id,
                              !.value = IF e = NoEntry THEN NoEntry ELSE e.value]]
            /\ UNCHANGED pfLate
    /\ UNCHANGED <<pfRegistry, pfManifest, pfBundle, pfLimit, pfTold, pfNewest>>

Current(kind, id) == IF kind = "manifest" THEN pfRelease[id] ELSE id
Revoked(kind, id) == (IF kind = "manifest" THEN pfRelease[id].bundle ELSE id) \in pfRevoked

\* The registry's word: 404, 410, 304 for an ETag that still holds, 200
Verdict(kind, id, known) ==
    CASE Current(kind, id) = NoEntry -> 404
      [] Current(kind, id) # NoEntry /\ Revoked(kind, id) -> 410
      [] OTHER -> IF known = Current(kind, id) THEN 304 ELSE 200

Down == 500         \* also a request that does not get through
Refused == 502      \* an answer whose content does not pass the checks, 401, 403

\* The registry may also have no such bundle, or have it no longer.
Unknown(kind) == IF kind = "bundle" THEN {404} ELSE {}

Respond(h) ==
    /\ pfCall[h].step = "asked"
    /\ LET k == pfCall[h].kind  i == pfCall[h].id IN
       \E s \in {Down, Refused, Verdict(k, i, pfCall[h].value)} \cup Unknown(k) :
         pfCall' = [pfCall EXCEPT ![h].step = "answered", ![h].status = s,
                       ![h].value = IF s = 200 THEN Current(k, i) ELSE @]
    /\ UNCHANGED <<pfRegistry, pfManifest, pfBundle, pfLimit, pfLate, pfTold, pfNewest>>

Done(h) == pfCall' = [pfCall EXCEPT ![h] = IdlePf]

\* _validate_manifest also limits the bundle that is already cached
Limited(b, l) == [pfBundle EXCEPT ![b] = IF @ = NoEntry THEN @ ELSE [@ EXCEPT !.limit = l]]

\* _validate_manifest takes the limit over to the bundle the manifest names;
\* get_manifest drops the bundle of the manifest it replaces.
StoreManifest(h) ==
    LET c == pfCall[h].id  r == pfCall[h].value  old == pfManifest[c]
        left == IF old # NoEntry /\ old.value.bundle # r.bundle THEN {old.value.bundle} ELSE {}
        bounded == Least(r.limit, PfMaxStale)
        e == Entry(r, pfCall[h].lag, bounded)
        limited == Limited(r.bundle, bounded)
    IN /\ pfManifest' = [pfManifest EXCEPT ![c] = e]
       /\ pfBundle' = [b \in PfBundles |-> IF b \in left THEN NoEntry ELSE limited[b]]
       /\ pfLimit' = [b \in PfBundles |-> CASE b = r.bundle -> bounded
                                            [] b \in left -> 0
                                            [] OTHER -> pfLimit[b]]
       /\ pfNewest' = [pfNewest EXCEPT ![r.bundle] = bounded]
       /\ Serve(e, FALSE)

StoreBundle(h) ==
    LET b == pfCall[h].id  e == Entry(b, pfCall[h].lag, pfLimit[b]) IN
    /\ pfBundle' = [pfBundle EXCEPT ![b] = e]
    /\ Serve(e, FALSE)
    /\ UNCHANGED <<pfManifest, pfLimit, pfNewest>>

Answered(h, kind, statuses) ==
    /\ pfCall[h].step = "answered" /\ pfCall[h].kind = kind /\ pfCall[h].status \in statuses
    /\ Done(h)

ReceiveNew(h) ==
    /\ \/ Answered(h, "manifest", {200}) /\ StoreManifest(h)
       \/ Answered(h, "bundle", {200}) /\ StoreBundle(h)
    /\ UNCHANGED <<pfRegistry, pfTold>>

\* 304: the entry is as good as new.  An entry that is gone cannot have been
\* asked about, as long as the lock is held.
Renewed(e, h) == [e EXCEPT !.age = 0, !.lag = pfCall[h].lag]

SameManifest(h) ==
    /\ Answered(h, "manifest", {304})
    /\ LET c == pfCall[h].id IN
       /\ pfManifest[c] # NoEntry
       /\ pfManifest' = [pfManifest EXCEPT ![c] = Renewed(@, h)]
       /\ Serve(Renewed(pfManifest[c], h), FALSE)
    /\ UNCHANGED <<pfRegistry, pfBundle, pfLimit, pfTold, pfNewest>>

SameBundle(h) ==
    /\ Answered(h, "bundle", {304})
    /\ LET b == pfCall[h].id IN
       /\ pfBundle[b] # NoEntry
       /\ pfBundle' = [pfBundle EXCEPT ![b] = [Renewed(@, h) EXCEPT !.limit = pfLimit[b]]]
       /\ Serve(Renewed(pfBundle[b], h), FALSE)
    /\ UNCHANGED <<pfRegistry, pfManifest, pfLimit, pfTold, pfNewest>>

\* _purge_channel(purge_bundle=True) drops the bundle of the manifest that is
\* cached, if one is; _purge_bundle drops every manifest naming the bundle.
Names(c, b) == pfManifest[c] # NoEntry /\ pfManifest[c].value.bundle = b
GoneBundles(kind, id) == IF kind = "bundle" THEN {id} ELSE {b \in PfBundles : Names(id, b)}
GoneChannels(kind, id) == IF kind = "manifest" THEN {id} ELSE {c \in PfChannels : Names(c, id)}

\* 410, and 404 for a bundle
ReceiveRevoked(h) ==
    /\ Answered(h, pfCall[h].kind, {410} \cup Unknown(pfCall[h].kind))
    /\ LET kind == pfCall[h].kind
           gone == GoneBundles(kind, pfCall[h].id)
           left == GoneChannels(kind, pfCall[h].id)
       IN /\ pfManifest' = [c \in PfChannels |-> IF c \in left THEN NoEntry ELSE pfManifest[c]]
          /\ pfBundle' = [b \in PfBundles |-> IF b \in gone THEN NoEntry ELSE pfBundle[b]]
          /\ pfLimit' = [b \in PfBundles |-> IF b \in gone THEN 0 ELSE pfLimit[b]]
          /\ pfTold' = [pfTold EXCEPT ![kind] = @ \cup (gone \cap pfRevoked)]
    /\ UNCHANGED <<pfRegistry, pfLate, pfNewest>>

\* 404 for a channel: _purge_channel leaves the bundle
ReceiveMissing(h) ==
    /\ Answered(h, "manifest", {404})
    /\ pfManifest' = [pfManifest EXCEPT ![pfCall[h].id] = NoEntry]
    /\ UNCHANGED <<pfRegistry, pfBundle, pfLimit, pfLate, pfTold, pfNewest>>

\* The registry is down: what is cached is served stale, if it may be.  A
\* refusal is passed on, and the cache stays.
ReceiveFailure(h) ==
    /\ Answered(h, pfCall[h].kind, {Down, Refused})
    /\ LET e == Cached(pfCall[h].kind, pfCall[h].id) IN
       IF pfCall[h].status = Down /\ CanServeStale(e) THEN Serve(e, TRUE) ELSE UNCHANGED pfLate
    /\ UNCHANGED <<pfRegistry, pfManifest, pfBundle, pfLimit, pfTold, pfNewest>>

\* The registry moves a channel to another release, withdraws it, and
\* revokes releases.
MoveChannel(c, r) ==
    /\ pfChanges < PfMaxChanges
    /\ r # NoEntry => r.bundle \notin pfRevoked
    /\ pfRelease' = [pfRelease EXCEPT ![c] = r]
    /\ pfChanges' = pfChanges + 1
    /\ UNCHANGED <<pfRevoked, pfManifest, pfBundle, pfLimit, pfCall, pfLate, pfTold, pfNewest>>

RevokeRelease(b) ==
    /\ pfChanges < PfMaxChanges
    /\ pfRevoked' = pfRevoked \cup {b}
    /\ pfChanges' = pfChanges + 1
    /\ UNCHANGED <<pfRelease, pfManifest, pfBundle, pfLimit, pfCall, pfLate, pfTold, pfNewest>>

\* Time passes; the answer to a call does not take longer than its timeout.
Older(e) == IF e = NoEntry THEN e ELSE [e EXCEPT !.age = Least(@ + 1, PfOld)]
PfTick ==
    /\ \A h \in PfCalls : pfCall[h].step = "answered" => pfCall[h].lag < PfTravel
    /\ pfCall' = [h \in PfCalls |-> IF pfCall[h].step = "answered"
                                    THEN [pfCall[h] EXCEPT !.lag = @ + 1] ELSE pfCall[h]]
    /\ pfManifest' = [c \in PfChannels |-> Older(pfManifest[c])]
    /\ pfBundle' = [b \in PfBundles |-> Older(pfBundle[b])]
    /\ UNCHANGED <<pfRegistry, pfLimit, pfLate, pfTold, pfNewest>>

PfNext ==
    \/ \E h \in PfCalls : \/ \E c \in PfChannels : Begin(h, "manifest", c)
                          \/ \E b \in PfBundles : Begin(h, "bundle", b)
                          \/ Respond(h) \/ ReceiveNew(h) \/ SameManifest(h) \/ SameBundle(h)
                          \/ ReceiveRevoked(h) \/ ReceiveMissing(h) \/ ReceiveFailure(h)
    \/ \E c \in PfChannels, r \in PfReleases \cup {NoEntry} : MoveChannel(c, r)
    \/ \E b \in PfBundles : RevokeRelease(b)
    \/ PfTick
-----------------------------------------------------------------------------
PfTypeOK ==
    /\ pfRevoked \subseteq PfBundles
    /\ \A c \in PfChannels : pfManifest[c] = NoEntry \/ pfManifest[c].value.bundle \in PfBundles
    /\ \A b \in PfBundles : pfBundle[b] = NoEntry \/ pfBundle[b].value = b
    /\ pfLimit \in [PfBundles -> 0..PfMaxStale]

\* Prompt releases.  What is served was the registry's word recently enough:
\* within the revalidation interval, or, while the registry is down, within
\* what both the release and the operator allow, plus one way of an answer.
\* A bundle the facade was told is revoked is out of the cache for good, and
\* so is every manifest naming it if the bundle itself was asked for.  A
\* cached bundle is never served stale for longer than the last manifest
\* that named it allows.
FacadeSound ==
    /\ ~pfLate
    /\ \A b \in pfTold.manifest \cup pfTold.bundle : pfBundle[b] = NoEntry
    /\ \A c \in PfChannels : pfManifest[c] # NoEntry => pfManifest[c].value.bundle \notin pfTold.bundle
    /\ \A b \in PfBundles : pfBundle[b] # NoEntry => pfBundle[b].limit <= pfNewest[b]
=============================================================================
