----------------------------- MODULE MCSessions -----------------------------
(***************************************************************************)
(* Users and their sessions for TLC: consent to autonomous actions,        *)
(* command sessions, chat contexts, OAuth lineages and realtime routes.    *)
(* As in MCAgents a behaviour moves only the component that focus names.   *)
(***************************************************************************)
EXTENDS MCAutonomyPermits, CommandSessions, ChatContexts, OAuthLineage, RealtimeRoutes

CONSTANTS n1, o1

VARIABLE focus

\* A component that does not move has one initial state; which owner has the
\* first context is a matter of naming.
AtRest ==
    /\ ccOwner[n1] = o1
    /\ focus # "commands" => csOrigin = "server"
    /\ focus \notin {"chats", "bindings"} => ccOwner = [c \in CcContexts |-> o1]
    /\ focus # "oauth" => oaReplicas = 1

SessionsInit ==
    /\ focus \in {"consent", "commands", "chats", "bindings", "oauth", "realtime"}
    /\ Init /\ CsInit /\ CcInit /\ OaInit /\ RtInit
    /\ AtRest

\* OAuth clients and codes are interchangeable, so new ones are drawn in order.
DrawnInOrder ==
    /\ \A c, d \in OaClients : c < d /\ oaClient'[d].known => oaClient'[c].known
    /\ \A j, k \in OaCodes : j < k /\ oaCode'[k].state # "none" => oaCode'[j].state # "none"

SessionsNext ==
    /\ UNCHANGED focus
    /\ \/ focus = "consent" /\ Next /\ UNCHANGED <<csVars, ccVars, oaVars, rtVars>>
       \/ focus = "commands" /\ CsNext /\ UNCHANGED <<vars, ccVars, oaVars, rtVars>>
       \/ focus = "chats" /\ CodeNext /\ UNCHANGED <<vars, csVars, oaVars, rtVars>>
       \/ focus = "bindings" /\ BindNext /\ UNCHANGED <<vars, csVars, oaVars, rtVars>>
       \/ focus = "oauth" /\ OaNext /\ DrawnInOrder /\ UNCHANGED <<vars, csVars, ccVars, rtVars>>
       \/ focus = "realtime" /\ RtNext /\ UNCHANGED <<vars, csVars, ccVars, oaVars>>

SessionsSpec == SessionsInit /\ [][SessionsNext]_<<focus, vars, csVars, ccVars, oaVars, rtVars>>

\* x1 and x2 are the replicas, sessions and handlers, k1 and k2 the codes and
\* messages of every component.
Interchangeable == Permutations(Sessions) \cup Permutations(CcCodes)
-----------------------------------------------------------------------------
\* The rows of every component stay within the columns' types and value sets.
SessionTypesOK == TypeOK /\ CsTypeOK /\ CcTypeOK /\ OaTypeOK /\ RtTypeOK
=============================================================================
