---------------------------- MODULE MCFederation ----------------------------
(***************************************************************************)
(* Federated servers for TLC: guarded actions, upstream connections, the   *)
(* registry, root grants, a thin client's catalogue, credentials and the   *)
(* published generations; and the matching of path reservations.  As in    *)
(* MCAgents a behaviour moves only the component that focus names.         *)
(***************************************************************************)
EXTENDS Reservations, FederatedActions, UpstreamServers, FederationRegistry,
        RootGrants, LocalCatalogue, UpstreamCredentials, CatalogueGenerations, TLC

CONSTANTS d1, h1, v1, v2

VARIABLE focus

\* "src2" starts with "src" without lying below it; "*" matches everything,
\* "*.py" what ends in a Python file.
NameStarts == {<<n, n>> : n \in Names} \cup {<<"src2", "src">>}
Suffixes   == [w \in Wild |-> IF w = "*" THEN Names ELSE {"a.py"}]

\* One descriptor is changed by sanitation.
SanitizedVersions == [v \in LcVersions |-> IF v = v1 THEN v2 ELSE v]

\* A component that does not move has one initial state; tools and prompts
\* begin under a policy reviewed before, resources also without one.
AtRest ==
    /\ focus # "registry" => regKind = [c \in Caps |-> "tool"] /\ regUp = [c \in Caps |-> d1]
                               /\ regPolicy.generation = 0
    /\ focus = "registry" => regPolicy.generation = 1 \/ \A c \in Caps : regKind[c] = "resource"
    /\ focus # "indexes" => cgLive.hash = h1

FederationInit ==
    /\ focus \in {"reservations", "actions", "upstream", "registry", "roots", "catalogue",
                  "credentials", "generations", "indexes"}
    /\ ResInit /\ GaInit /\ UsInit /\ RegInit /\ RgInit /\ LcInit /\ UcInit /\ CgInit
    /\ AtRest

\* Mutation keys are interchangeable, so new ones are drawn in order.
KeyInUse(k) ==
    \/ regKey[k] > 0
    \/ \E s \in RegSessions : regTx[s].op \in {"classify", "expose", "policy"} /\ regTx[s].k = k

KeysInOrder ==
    \A j, k \in RegKeys : (j < k /\ ~KeyInUse(k) /\ KeyInUse(k)') => KeyInUse(j)'

FederationNext ==
    /\ UNCHANGED focus
    /\ \/ /\ focus = "reservations" /\ ResNext
          /\ UNCHANGED <<gaVars, usVars, regVars, rgVars, lcVars, ucVars, cgVars>>
       \/ /\ focus = "actions" /\ GaNext
          /\ UNCHANGED <<held, usVars, regVars, rgVars, lcVars, ucVars, cgVars>>
       \/ /\ focus = "upstream" /\ UsNext
          /\ UNCHANGED <<held, gaVars, regVars, rgVars, lcVars, ucVars, cgVars>>
       \/ /\ focus = "registry" /\ RegNext /\ KeysInOrder
          /\ UNCHANGED <<held, gaVars, usVars, rgVars, lcVars, ucVars, cgVars>>
       \/ /\ focus = "roots" /\ RgNext
          /\ UNCHANGED <<held, gaVars, usVars, regVars, lcVars, ucVars, cgVars>>
       \/ /\ focus = "catalogue" /\ LcNext
          /\ UNCHANGED <<held, gaVars, usVars, regVars, rgVars, ucVars, cgVars>>
       \/ /\ focus = "credentials" /\ UcNext
          /\ UNCHANGED <<held, gaVars, usVars, regVars, rgVars, lcVars, cgVars>>
       \/ /\ focus = "generations" /\ (CatalogueChanges \/ PjNext)
          /\ cgLive'.hash = cgLive.hash      \* only the indexes look at it
          /\ UNCHANGED <<held, gaVars, usVars, regVars, rgVars, lcVars, ucVars>>
       \/ /\ focus = "indexes" /\ (CatalogueChanges \/ IxNext)
          /\ UNCHANGED <<held, gaVars, usVars, regVars, rgVars, lcVars, ucVars>>

FederationSpec ==
    FederationInit /\ [][FederationNext]_<<focus, held, gaVars, usVars, regVars, rgVars, lcVars,
                                           ucVars, cgVars>>

\* Sessions, tasks, calls and builders are named x1 and x2 in every component.
Interchangeable == Permutations(RegSessions) \cup Permutations(Descriptors)
-----------------------------------------------------------------------------
\* The types of the components.
FederationTypesOK ==
    FedTypeOK /\ UsTypeOK /\ RegTypeOK /\ RgTypeOK /\ LcTypeOK /\ UcTypeOK /\ CgTypeOK
=============================================================================
