----------------------------- MODULE MCClients -----------------------------
(***************************************************************************)
(* What runs on behalf of a client, for TLC: thin clients and their        *)
(* connections, tool calls that change files, research notes, docker       *)
(* workspaces, the Task Progress view, cached prompt releases and the      *)
(* readiness of the process.  A behaviour moves only the component that    *)
(* focus names.                                                            *)
(***************************************************************************)
EXTENDS ThinClients, ToolCalls, DockerWorkspaces, TaskProgress, Readiness, ResearchNotes,
        PromptFacade, TLC

VARIABLE focus

ClientsInit ==
    /\ focus \in {"thin clients", "tool calls", "docker", "progress", "readiness", "notes", "prompts"}
    /\ TcInit /\ TkInit /\ DkInit /\ TpInit /\ RdInit /\ RnInit /\ PfInit
    /\ focus # "readiness" => rdSchema
    /\ focus # "prompts" => pfRelease = [c \in PfChannels |-> NoEntry]

ClientsNext ==
    /\ UNCHANGED focus
    /\ \/ focus = "thin clients" /\ TcNext /\ UNCHANGED <<tkVars, dkVars, tpVars, rdVars, rnVars, pfVars>>
       \/ focus = "tool calls" /\ TkNext /\ UNCHANGED <<tcVars, dkVars, tpVars, rdVars, rnVars, pfVars>>
       \/ focus = "docker" /\ DkNext /\ UNCHANGED <<tcVars, tkVars, tpVars, rdVars, rnVars, pfVars>>
       \/ focus = "progress" /\ TpNext /\ UNCHANGED <<tcVars, tkVars, dkVars, rdVars, rnVars, pfVars>>
       \/ focus = "readiness" /\ RdNext /\ UNCHANGED <<tcVars, tkVars, dkVars, tpVars, rnVars, pfVars>>
       \/ focus = "notes" /\ RnNext /\ UNCHANGED <<tcVars, tkVars, dkVars, tpVars, rdVars, pfVars>>
       \/ focus = "prompts" /\ PfNext /\ UNCHANGED <<tcVars, tkVars, dkVars, tpVars, rdVars, rnVars>>

ClientsSpec == ClientsInit /\ [][ClientsNext]_<<focus, tcVars, tkVars, dkVars, tpVars, rdVars, rnVars, pfVars>>

\* k1 and k2 are the connections, calls, workspaces, work items, prompt
\* bundles and the requests on a note.
Interchangeable == Permutations(TcConns)
-----------------------------------------------------------------------------
\* The rows of every component stay within the columns' types and value sets.
ClientTypesOK == TcTypeOK /\ TkTypeOK /\ DkTypeOK /\ TpTypeOK /\ RdTypeOK /\ RnTypeOK /\ PfTypeOK

\* Files that change for a caller, in a working copy (ToolCalls) and in the
\* vault (ResearchNotes): what the caller is told and what is recorded is
\* what happened to the file, and no write loses another one unseen.
FilesSound == ToolCallsSound /\ NotesSound

\* Answers from remembered state: the readiness of the process and prompt
\* releases are reported only as long as what was remembered may count.
CachesSound == ReadinessSound /\ FacadeSound
=============================================================================
