---------------------------- MODULE OAuthLineage ----------------------------
(***************************************************************************)
(* The Gateway's OAuth clients of one user and one connector redirect URI: *)
(* authorization codes, access tokens, and the presentation policy (its    *)
(* chat-context mode) that a re-registered connector inherits from the     *)
(* client it replaces.  A token is accepted while it names the client's    *)
(* current policy generation.                                              *)
(***************************************************************************)
EXTENDS Naturals, FiniteSets

CONSTANTS
    OaClients, OaCodes, OaSessions,
    MaxOaGen, MaxOperator           \* bounds on policy generations and operator changes

ASSUME OAuthLineageAssumption == MaxOaGen \in Nat \ {0} /\ MaxOperator \in Nat

VARIABLES
    oaReplicas,     \* 1 or 2 Gateway processes; with one, a request is served in one go
    oaClient,       \* OAuthClient rows
    oaCode,         \* OAuthCode rows
    oaTokens,       \* access tokens issued
    oaOps,          \* number of operator changes
    oaTx

oaVars == <<oaReplicas, oaClient, oaCode, oaTokens, oaOps, oaTx>>

Modes == {"off", "optional", "required"}
ClientRow == [known : BOOLEAN, mode : Modes, gen : 1..MaxOaGen]
CodeRow == [client : OaClients, state : {"none", "issued", "expired", "consumed"}]
Token == [client : OaClients, mode : Modes, gen : 1..MaxOaGen]
OaIdle == [op |-> "idle"]

OaTypeOK ==
    /\ oaReplicas \in {1, 2} /\ oaClient \in [OaClients -> ClientRow]
    /\ DOMAIN oaCode = OaCodes /\ \A k \in OaCodes : oaCode[k].state = "none" \/ oaCode[k] \in CodeRow
    /\ oaTokens \subseteq Token /\ oaOps \in 0..MaxOperator

OaInit ==
    /\ oaReplicas \in {1, 2}
    /\ oaClient = [c \in OaClients |-> [known |-> FALSE, mode |-> "off", gen |-> 1]]
    /\ oaCode = [k \in OaCodes |-> [state |-> "none"]]
    /\ oaTokens = {} /\ oaOps = 0 /\ oaTx = [s \in OaSessions |-> OaIdle]

\* register_client: a repeated registration merges names and scopes only.
RegisterClient(c) ==
    /\ ~oaClient[c].known
    /\ oaClient' = [oaClient EXCEPT ![c].known = TRUE]
    /\ UNCHANGED <<oaReplicas, oaCode, oaTokens, oaOps, oaTx>>

\* authorize registers an unknown client by itself.
Authorize(k, c) ==
    /\ oaCode[k].state = "none"
    /\ oaClient' = [oaClient EXCEPT ![c].known = TRUE]
    /\ oaCode' = [oaCode EXCEPT ![k] = [client |-> c, state |-> "issued"]]
    /\ UNCHANGED <<oaReplicas, oaTokens, oaOps, oaTx>>

CodeExpires(k) ==
    /\ oaCode[k].state = "issued"
    /\ oaCode' = [oaCode EXCEPT ![k].state = "expired"]
    /\ UNCHANGED <<oaReplicas, oaClient, oaTokens, oaOps, oaTx>>

\* token: the code and its client are loaded and checked ...
TokenRead(s, k) ==
    /\ oaCode[k].state = "issued" /\ oaClient[oaCode[k].client].known /\ oaTx[s] = OaIdle
    /\ oaReplicas = 1 => \A x \in OaSessions : oaTx[x] = OaIdle
    /\ oaTx' = [oaTx EXCEPT ![s] = [op |-> "token", code |-> k, client |-> oaCode[k].client,
                                    row |-> oaClient[oaCode[k].client]]]
    /\ UNCHANGED <<oaReplicas, oaClient, oaCode, oaTokens, oaOps>>

\* chatgpt_connector_policy_predecessors, read under their locks: clients the
\* user has exchanged a code for that still hold a policy.
Predecessors(c) ==
    {d \in OaClients \ {c} :
       /\ oaClient[d].mode # "off"
       /\ \E k \in OaCodes : oaCode[k].state = "consumed" /\ oaCode[k].client = d}

\* The predecessors consulted for a client: only one that never had a policy
\* of its own inherits.
Consulted(t) == IF t.row.mode = "off" /\ t.row.gen = 1 THEN Predecessors(t.client) ELSE {}

\* Mutant: the policy is copied, and stays where it was.
HandedOverCopied(d) == oaClient[d]

HandedOver(d) == [oaClient[d] EXCEPT !.mode = "off", !.gen = @ + 1]

\* ... _inherit_chatgpt_connector_policy, decided on the row as loaded, with
\* the predecessor locked; then the code is consumed and the token issued.
TokenCommit(s) ==
    LET t == oaTx[s]
        c == t.client
        preds == Consulted(t)
        issue(row) == oaTokens' = oaTokens \cup {[client |-> c, mode |-> row.mode, gen |-> row.gen]} IN
    /\ t.op = "token" /\ Cardinality(preds) < 2
    /\ oaTx' = [oaTx EXCEPT ![s] = OaIdle]
    /\ oaCode' = [oaCode EXCEPT ![t.code].state = "consumed"]
    /\ \/ preds = {} /\ issue(t.row) /\ UNCHANGED oaClient
       \/ \E d \in preds :
            LET new == [t.row EXCEPT !.mode = oaClient[d].mode, !.gen = @ + 1] IN
            /\ new.gen <= MaxOaGen /\ oaClient[d].gen < MaxOaGen
            /\ oaClient' = [oaClient EXCEPT ![c] = new, ![d] = HandedOver(d)]
            /\ issue(new)
    /\ UNCHANGED <<oaReplicas, oaOps>>

\* Two predecessors: 409, nothing changes.
TokenAmbiguous(s) ==
    /\ oaTx[s].op = "token" /\ Cardinality(Consulted(oaTx[s])) > 1
    /\ oaTx' = [oaTx EXCEPT ![s] = OaIdle]
    /\ UNCHANGED <<oaReplicas, oaClient, oaCode, oaTokens, oaOps>>

\* update_oauth_client_profile.
UpdateProfile(c, mode) ==
    /\ oaClient[c].known /\ oaClient[c].mode # mode /\ oaClient[c].gen < MaxOaGen
    /\ oaOps < MaxOperator /\ oaOps' = oaOps + 1
    /\ oaReplicas = 1 => \A x \in OaSessions : oaTx[x] = OaIdle
    /\ oaClient' = [oaClient EXCEPT ![c].mode = mode, ![c].gen = @ + 1]
    /\ UNCHANGED <<oaReplicas, oaCode, oaTokens, oaTx>>

OaNext ==
    \/ \E c \in OaClients : RegisterClient(c) \/ \E m \in Modes : UpdateProfile(c, m)
    \/ \E k \in OaCodes : CodeExpires(k) \/ \E c \in OaClients : Authorize(k, c)
    \/ \E s \in OaSessions : TokenCommit(s) \/ TokenAmbiguous(s) \/ \E k \in OaCodes : TokenRead(s, k)

OaSpec == OaInit /\ [][OaNext]_oaVars

-----------------------------------------------------------------------------
\* resolve_presentation_context lets the token in.
Accepted(tk) ==
    /\ tk.gen = oaClient[tk.client].gen
    /\ oaClient[tk.client].mode = "off" /\ oaClient[tk.client].gen = 1 => Predecessors(tk.client) = {}

\* One operator setting is held by exactly one client of the connector:
\* reconnecting clients, on two replicas and at the same time, neither lose
\* the chat-context requirement nor multiply it.
PolicyHeldOnce == oaOps = 1 => Cardinality({c \in OaClients : oaClient[c].mode # "off"}) = 1

\* An accepted token carries the policy its client has now, after any chain
\* of operator changes and inheritances; the mode in its claims is what the
\* request is served under.
AcceptedTokenIsCurrent ==
    oaReplicas = 1 => \A tk \in oaTokens : Accepted(tk) => tk.mode = oaClient[tk.client].mode

\* A lineage has one holder of its policy, and only its tokens are accepted.
LineageSound == PolicyHeldOnce /\ AcceptedTokenIsCurrent
=============================================================================
