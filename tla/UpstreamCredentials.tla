------------------------- MODULE UpstreamCredentials -------------------------
(***************************************************************************)
(* The credentials the gateway presents to one upstream MCP server:        *)
(* mcp_upstream_credentials.py (material entered by the operator, OAuth    *)
(* authorisation) and the credential provider of mcp_upstream.py           *)
(* (headers_for_server, with the refresh of an expired token).             *)
(*                                                                         *)
(* A binding row carries the issuer it is bound to and a secret; the       *)
(* secret carries a stamp of its own.  No request locks the row: each      *)
(* loads it, decides (some after an answer of the identity provider) and   *)
(* commits what it computed from the loaded row, the version included.     *)
(* The ORM writes a column only if its value changed, so a status loaded   *)
(* as active and set to active leaves the row's as it is by then.          *)
(***************************************************************************)
EXTENDS Naturals

CONSTANTS
    UcBindings,     \* ids of McpCredentialBinding rows
    UcFlows,        \* idempotency keys of OAuth authorisations, one flow each
    UcTasks,        \* concurrent requests
    Issuers,        \* authorisation servers
    NoIssuer, NoBinding,
    MaxUcVersion    \* bound on a binding's version

ASSUME UcAssumption == /\ NoIssuer \notin Issuers
                       /\ NoBinding \notin UcBindings
                       /\ MaxUcVersion \in Nat \ {0}

VARIABLES
    ucBinding,      \* the binding rows
    ucServer,       \* McpServer.credential_binding_id
    ucFlow,         \* McpOAuthAuthorizationState rows
    ucRedeemed,     \* codes the identity provider has exchanged
    ucTask,         \* requests in flight, with what they loaded
    ucSent          \* the last token presented upstream

ucVars == <<ucBinding, ucServer, ucFlow, ucRedeemed, ucTask, ucSent>>

Stamps == Issuers \cup {NoIssuer}
\* The material: the issuer it is stamped with and the one its operator or
\* its flow declared, NoIssuer when none was; "empty" is the seed secret of a
\* binding that was never authorised.
Secret == [stamp : Stamps, origin : Stamps, empty : BOOLEAN]
Seed == [stamp |-> NoIssuer, origin |-> NoIssuer, empty |-> TRUE]
Minted(stamp, origin) == [stamp |-> stamp, origin |-> origin, empty |-> FALSE]
BindingRow ==
    [status : {"none", "active", "authorizing", "auth_required", "revoked"},
     issuer : Stamps, secret : Secret, version : 0 .. MaxUcVersion]
FlowRow == [status : {"none", "pending", "completed", "expired"},
            binding : UcBindings \cup {NoBinding}, issuer : Stamps]
NoRow == [status |-> "none", issuer |-> NoIssuer, secret |-> Seed, version |-> 0]

\* A request in flight: the binding it loaded (or will create), the flow and
\* the issuer of an authorisation, the issuer an operator gives.
UcIdle == [op |-> "idle"]
UcTaskState ==
    {UcIdle}
    \cup [op : {"rotate"}, binding : UcBindings, loaded : BindingRow, issuer : Stamps]
    \cup [op : {"revoke", "use"}, binding : UcBindings, loaded : BindingRow]
    \cup [op : {"start"}, flow : UcFlows, issuer : Stamps,
          binding : UcBindings \cup {NoBinding}]
    \cup [op : {"reauthorize"}, flow : UcFlows, issuer : Stamps,
          binding : UcBindings, loaded : BindingRow]
    \cup [op : {"complete"}, flow : UcFlows, issuer : Stamps,
          binding : UcBindings, loaded : BindingRow]

UcInit ==
    /\ ucBinding = [b \in UcBindings |-> NoRow]
    /\ ucServer = NoBinding
    /\ ucFlow = [f \in UcFlows |->
                    [status |-> "none", binding |-> NoBinding, issuer |-> NoIssuer]]
    /\ ucRedeemed = {}
    /\ ucTask = [t \in UcTasks |-> UcIdle]
    /\ ucSent = [origin |-> NoIssuer, issuer |-> NoIssuer]

\* What the unit of work leaves of a column loaded as "loaded" and set to "new".
Written(loaded, new, row) == IF loaded = new THEN row ELSE new

Takes(t, k) == ucTask[t] = UcIdle /\ ucTask' = [ucTask EXCEPT ![t] = k]
Rest(t) == ucTask' = [ucTask EXCEPT ![t] = UcIdle]

--------------------------------------------------------------------------
(* The operator's requests.                                                *)

\* create_credential_material inserts a row; an issuer, when given, stamps it
\* and the material.
CreateMaterial(b, i) ==
    /\ ucBinding[b].status = "none"
    /\ ucBinding' = [ucBinding EXCEPT ![b] =
           [status |-> "active", issuer |-> i, secret |-> Minted(i, i), version |-> 1]]
    /\ UNCHANGED <<ucServer, ucFlow, ucRedeemed, ucTask, ucSent>>

\* update_server points the server at a binding of its owner.
AttachBinding(b) ==
    /\ ucBinding[b].status # "none"
    /\ ucServer' = b
    /\ UNCHANGED <<ucBinding, ucFlow, ucRedeemed, ucTask, ucSent>>

\* Plausible bug: the issuer the binding is bound to is not compared.
RotationAllowedAlways(row, i) == TRUE

\* Material of another issuer than the binding's is refused.
RotationAllowed(row, i) == row.issuer = NoIssuer \/ i \in {NoIssuer, row.issuer}

\* rotate_credential_material: the version the operator expects is compared
\* with the one loaded, not with the one replaced.
RotateRead(t, b, i) ==
    LET row == ucBinding[b]
    IN  /\ row.status # "none" /\ row.version < MaxUcVersion
        /\ RotationAllowed(row, i)
        /\ Takes(t, [op |-> "rotate", binding |-> b, loaded |-> row, issuer |-> i])
        /\ UNCHANGED <<ucBinding, ucServer, ucFlow, ucRedeemed, ucSent>>

\* The metadata is written whole (the rotation key is new), and the issuer
\* with it.  A rotation revives a revoked binding: that is how an operator
\* replaces a withdrawn secret.
RotateCommit(t) ==
    LET k == ucTask[t]
        new == IF k.issuer # NoIssuer THEN k.issuer ELSE k.loaded.issuer
    IN  /\ k.op = "rotate"
        /\ ucBinding' = [ucBinding EXCEPT ![k.binding] =
               [status |-> Written(k.loaded.status, "active", @.status), issuer |-> new,
                secret |-> Minted(new, k.issuer), version |-> k.loaded.version + 1]]
        /\ Rest(t)
        /\ UNCHANGED <<ucServer, ucFlow, ucRedeemed, ucSent>>

\* revoke_credential_material
RevokeRead(t, b) ==
    /\ ucBinding[b].status # "none" /\ ucBinding[b].version < MaxUcVersion
    /\ Takes(t, [op |-> "revoke", binding |-> b, loaded |-> ucBinding[b]])
    /\ UNCHANGED <<ucBinding, ucServer, ucFlow, ucRedeemed, ucSent>>

RevokeCommit(t) ==
    LET k == ucTask[t]
    IN  /\ k.op = "revoke"
        /\ ucBinding' = [ucBinding EXCEPT
               ![k.binding].status = Written(k.loaded.status, "revoked", @),
               ![k.binding].version = k.loaded.version + 1]
        /\ Rest(t)
        /\ UNCHANGED <<ucServer, ucFlow, ucRedeemed, ucSent>>

--------------------------------------------------------------------------
(* OAuth authorisation.                                                    *)

\* start_oauth_authorization until its endpoints are validated.  The issuer is
\* that of the discovery snapshot or of the operator, or none.
StartRead(t, f, i) ==
    /\ ucFlow[f].status = "none"
    /\ Takes(t, [op |-> "start", flow |-> f, issuer |-> i, binding |-> ucServer])
    /\ UNCHANGED <<ucBinding, ucServer, ucFlow, ucRedeemed, ucSent>>

\* The server's binding is authorised again only under its own issuer; another
\* issuer gets a binding of its own.
ReusesBinding(b, i) == b # NoBinding /\ ucBinding[b].issuer = i

\* The server's binding is loaded and found to be the issuer's own.
StartReuses(t) ==
    LET k == ucTask[t]
    IN  /\ k.op = "start" /\ ReusesBinding(k.binding, k.issuer)
        /\ ucTask' = [ucTask EXCEPT ![t] =
               [op |-> "reauthorize", flow |-> k.flow, issuer |-> k.issuer,
                binding |-> k.binding, loaded |-> ucBinding[k.binding]]]
        /\ UNCHANGED <<ucBinding, ucServer, ucFlow, ucRedeemed, ucSent>>

\* The flow is inserted under its idempotency key, which is unique.
FlowStarted(t, b) ==
    /\ ucFlow[ucTask[t].flow].status = "none"
    /\ ucFlow' = [ucFlow EXCEPT ![ucTask[t].flow] =
           [status |-> "pending", binding |-> b, issuer |-> ucTask[t].issuer]]
    /\ Rest(t)

\* The metadata names the discovery and the client's registration: it is
\* written, with the issuer loaded, unless both are those of the last flow.
ReauthorizeCommit(t) ==
    LET k == ucTask[t]  b == k.binding
    IN  /\ k.op = "reauthorize"
        /\ \E i \in {ucBinding[b].issuer, k.loaded.issuer} :
             ucBinding' = [ucBinding EXCEPT
                 ![b].status = Written(k.loaded.status, "authorizing", @),
                 ![b].issuer = i]
        /\ FlowStarted(t, b)
        /\ UNCHANGED <<ucServer, ucRedeemed, ucSent>>

StartCreates(t, b) ==
    LET k == ucTask[t]
    IN  /\ k.op = "start" /\ ~ReusesBinding(k.binding, k.issuer)
        /\ k.binding = NoBinding \/ k.issuer # NoIssuer
        /\ ucBinding[b].status = "none"
        /\ ucBinding' = [ucBinding EXCEPT ![b] =
               [status |-> "authorizing", issuer |-> k.issuer, secret |-> Seed, version |-> 1]]
        /\ ucServer' = b
        /\ FlowStarted(t, b)
        /\ UNCHANGED <<ucRedeemed, ucSent>>

\* The request is refused: stale version, endpoint not allowed, issuer missing
\* for a bound binding, or the key was used meanwhile (unique constraint).
StartRefused(t) ==
    /\ ucTask[t].op \in {"start", "reauthorize"}
    /\ Rest(t)
    /\ UNCHANGED <<ucBinding, ucServer, ucFlow, ucRedeemed, ucSent>>

\* A replayed start whose flow is past its ten minutes marks it expired,
\* a completed one too.
StartReplayExpires(f) ==
    /\ ucFlow[f].status \in {"pending", "completed"}
    /\ ucFlow' = [ucFlow EXCEPT ![f].status = "expired"]
    /\ UNCHANGED <<ucBinding, ucServer, ucRedeemed, ucTask, ucSent>>

\* The issuer complete_oauth_authorization expects: the flow's own, else the
\* one its binding is bound to by now.  (A discovery snapshot in the binding's
\* metadata names the same issuer as the metadata itself.)
ExpectedIssuer(flow, row) == IF flow.issuer # NoIssuer THEN flow.issuer ELSE row.issuer

\* complete_oauth_authorization until the exchange of the code.
CompleteRead(t, f) ==
    LET b == ucFlow[f].binding  i == ExpectedIssuer(ucFlow[f], ucBinding[b])
    IN  /\ ucFlow[f].status = "pending" /\ ucBinding[b].version < MaxUcVersion
        /\ ucBinding[b].issuer \in {NoIssuer, i}
        /\ Takes(t, [op |-> "complete", flow |-> f, issuer |-> i,
                     binding |-> b, loaded |-> ucBinding[b]])
        /\ UNCHANGED <<ucBinding, ucServer, ucFlow, ucRedeemed, ucSent>>

\* The token endpoint of the flow exchanges a code once, and its tokens go
\* into the binding under the expected issuer, whoever issued them: a flow
\* that declared no issuer is not asked for one.
CompleteCommit(t) ==
    LET k == ucTask[t]  b == k.binding
    IN  /\ k.op = "complete" /\ k.flow \notin ucRedeemed
        /\ ucRedeemed' = ucRedeemed \cup {k.flow}
        /\ ucBinding' = [ucBinding EXCEPT
               ![b].secret = Minted(k.issuer, ucFlow[k.flow].issuer),
               ![b].issuer = Written(k.loaded.issuer, k.issuer, @),
               ![b].status = Written(k.loaded.status, "active", @),
               ![b].version = k.loaded.version + 1]
        /\ ucFlow' = [ucFlow EXCEPT ![k.flow].status = "completed"]
        /\ Rest(t)
        /\ UNCHANGED <<ucServer, ucSent>>

\* The exchange fails: refused, or its answer is lost with the code spent.
CompleteFails(t) ==
    /\ ucTask[t].op = "complete"
    /\ ucRedeemed' \in {ucRedeemed, ucRedeemed \cup {ucTask[t].flow}}
    /\ Rest(t)
    /\ UNCHANGED <<ucBinding, ucServer, ucFlow, ucSent>>

--------------------------------------------------------------------------
(* The use of a credential: headers_for_server.                            *)

\* _oauth_headers: both stamps, or neither, and the same.
StampsAgree(row) == row.issuer = row.secret.stamp

\* The binding and its secret are loaded.
UseRead(t) ==
    /\ ucServer # NoBinding
    /\ ucBinding[ucServer].status # "revoked"
    /\ ~ucBinding[ucServer].secret.empty
    /\ Takes(t, [op |-> "use", binding |-> ucServer, loaded |-> ucBinding[ucServer]])
    /\ UNCHANGED <<ucBinding, ucServer, ucFlow, ucRedeemed, ucSent>>

Present(row) == ucSent' = [origin |-> row.secret.origin, issuer |-> row.issuer]

\* An unexpired token is presented at once.
UseToken(t) ==
    /\ ucTask[t].op = "use" /\ StampsAgree(ucTask[t].loaded)
    /\ Present(ucTask[t].loaded)
    /\ Rest(t)
    /\ UNCHANGED <<ucBinding, ucServer, ucFlow, ucRedeemed>>

\* Disagreeing stamps, nothing to refresh with, or the token endpoint refuses:
\* _mark_auth_required.
UseRefused(t) ==
    LET k == ucTask[t]
    IN  /\ k.op = "use"
        /\ ucBinding' = [ucBinding EXCEPT ![k.binding].status =
                             Written(k.loaded.status, "auth_required", @)]
        /\ Rest(t)
        /\ UNCHANGED <<ucServer, ucFlow, ucRedeemed, ucSent>>

\* _refresh_oauth_token: only material that is bound to an issuer is
\* refreshed.  The new token is stored over whatever the row holds by now, and
\* presented.
RefreshCommit(t) ==
    LET k == ucTask[t]  b == k.binding
    IN  /\ k.op = "use" /\ StampsAgree(k.loaded) /\ k.loaded.issuer # NoIssuer
        /\ k.loaded.version < MaxUcVersion
        /\ ucBinding' = [ucBinding EXCEPT
               ![b].secret = k.loaded.secret,
               ![b].status = Written(k.loaded.status, "active", @),
               ![b].version = k.loaded.version + 1]
        /\ Present(k.loaded)
        /\ Rest(t)
        /\ UNCHANGED <<ucServer, ucFlow, ucRedeemed>>

\* The token endpoint does not answer.
RefreshFails(t) ==
    /\ ucTask[t].op = "use"
    /\ Rest(t)
    /\ UNCHANGED <<ucBinding, ucServer, ucFlow, ucRedeemed, ucSent>>

--------------------------------------------------------------------------
UcNext ==
    \/ \E b \in UcBindings : AttachBinding(b) \/ \E i \in Stamps : CreateMaterial(b, i)
    \/ \E f \in UcFlows : StartReplayExpires(f)
    \/ \E t \in UcTasks :
         \/ RotateCommit(t) \/ RevokeCommit(t)
         \/ StartReuses(t) \/ ReauthorizeCommit(t) \/ StartRefused(t)
         \/ CompleteCommit(t) \/ CompleteFails(t)
         \/ UseRead(t) \/ UseToken(t) \/ UseRefused(t) \/ RefreshCommit(t) \/ RefreshFails(t)
         \/ \E b \in UcBindings :
              \/ RevokeRead(t, b) \/ StartCreates(t, b)
              \/ \E i \in Stamps : RotateRead(t, b, i)
         \/ \E f \in UcFlows : CompleteRead(t, f) \/ \E i \in Stamps : StartRead(t, f, i)

UcSpec == UcInit /\ [][UcNext]_ucVars

--------------------------------------------------------------------------
UcTypeOK ==
    /\ ucBinding \in [UcBindings -> BindingRow]
    /\ ucServer \in UcBindings \cup {NoBinding}
    /\ ucFlow \in [UcFlows -> FlowRow]
    /\ ucRedeemed \subseteq UcFlows
    /\ ucTask \in [UcTasks -> UcTaskState]
    /\ ucSent \in [origin : Stamps, issuer : Stamps]

(* A token whose issuer was declared is presented only on a binding of     *)
(* that issuer.  Flows of two issuers, rotations and refreshes of one      *)
(* binding overlap, and each writes a secret, an issuer, or both, computed *)
(* from a row it loaded earlier, so that the row may hold the secret of    *)
(* one and the issuer of the other: headers_for_server does not send it.   *)
(* (Nothing vouches for the tokens of a flow that declared no issuer: they *)
(* take the stamp the binding has when the flow completes.)                *)
TokenSentUnderItsIssuer == ucSent.origin \in {NoIssuer, ucSent.issuer}

(* The request t ends with this step; it had loaded binding b.             *)
Ends(t, b) == /\ ucTask[t].op \in {"rotate", "reauthorize", "complete", "use"}
              /\ ucTask[t].binding = b /\ ucTask'[t] # ucTask[t]

(* The issuer of a binding is pinned: rotate_credential_material and       *)
(* start_oauth_authorization refuse another one.  They compare it with the *)
(* row they loaded and hold no lock, so it can change all the same, but    *)
(* only at the commit of a request that had loaded the binding under       *)
(* another issuer than the one it replaces: no request replaces the issuer *)
(* it has seen.                                                            *)
IssuerPinned ==
    \A b \in UcBindings :
        ucBinding[b].status # "none" /\ ucBinding[b].issuer \notin {NoIssuer, ucBinding'[b].issuer} =>
            \E t \in UcTasks : Ends(t, b) /\ ucTask[t].loaded.issuer # ucBinding[b].issuer

(* A revocation that comes while a request waits with the binding loaded   *)
(* as active survives it, whatever the request stores: only one that found *)
(* the binding in another state brings it back to active.                  *)
RevocationSurvives ==
    \A b \in UcBindings :
        ucBinding[b].status = "revoked" /\ ucBinding'[b].status = "active" =>
            \E t \in UcTasks : Ends(t, b) /\ ucTask[t].loaded.status # "active"

\* Rotations, authorisations and refreshes that overtake each other never
\* send a token to another issuer, replace the issuer they saw, or revive
\* what was revoked meanwhile.
CredentialsSound ==
    []TokenSentUnderItsIssuer /\ [][IssuerPinned /\ RevocationSurvives]_ucVars
=============================================================================
