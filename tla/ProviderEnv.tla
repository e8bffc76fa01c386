---------------------------- MODULE ProviderEnv ----------------------------
(***************************************************************************)
(* Requests and the environment variable FINROOT_LLM_PROVIDER.             *)
(*                                                                         *)
(* interface.core.answer() and stream_answer() save the variable and set   *)
(* it to "mock" when the request is a mock one, choose the LLM, build the  *)
(* orchestrator, some of whose tools read the variable, run it,            *)
(* and restore the variable in a `finally`. The variable belongs to the    *)
(* process and all requests share it.                                      *)
(*                                                                         *)
(* Serialized = TRUE is the FastAPI endpoint, where a request runs to its  *)
(* end on the event loop before the next one starts. FALSE is the          *)
(* Streamlit UI, where each session's thread drives its own generator: a   *)
(* request can stop for ever at a yield, or be closed there.               *)
(***************************************************************************)
EXTENDS Naturals

CONSTANTS
    Callers,        \* sessions or clients, each with one request at a time
    Providers,      \* names get_provider() knows, "mock" among them
    Unknown,        \* any other name
    Unset,          \* the variable is not there
    None,           \* not chosen yet
    Configurations, \* what a deployment may set the variable to
    Serialized      \* one request at a time

Settings == Providers \union {Unknown, Unset}

ASSUME ProviderAssumption ==
    /\ "mock" \in Providers
    /\ Unknown \notin Providers /\ Unset \notin Providers /\ Unknown # Unset
    /\ None \notin Settings \union {"offline", "live"}
ASSUME ConfigurationAssumption == Configurations \subseteq Settings
ASSUME SerializedAssumption == Serialized \in BOOLEAN

VARIABLES
    configured,     \* the variable as the deployment set it
    env,            \* os.environ["FINROOT_LLM_PROVIDER"]
    pc,             \* where each caller's request is
    mock,           \* its `mock` argument
    saved,          \* _saved_provider_env
    llm,            \* the provider it has resolved
    tools           \* whether its tools are offline or live

requestVars == <<mock, saved, llm, tools>>
envVars == <<configured, env, pc, requestVars>>

EnvTypeOK ==
    /\ configured \in Settings /\ env \in Settings
    /\ pc \in [Callers -> {"idle", "saved", "entered", "resolved", "built", "finally"}]
    /\ mock \in [Callers -> BOOLEAN]
    /\ saved \in [Callers -> Settings]
    /\ llm \in [Callers -> Providers \union {None}]
    /\ tools \in [Callers -> {"offline", "live", None}]

EnvInit ==
    /\ configured \in Configurations
    /\ env = configured
    /\ pc = [c \in Callers |-> "idle"]
    /\ mock = [c \in Callers |-> FALSE]
    /\ saved = [c \in Callers |-> Unset]
    /\ llm = [c \in Callers |-> None]
    /\ tools = [c \in Callers |-> None]

-----------------------------------------------------------------------------

Move(c, label) == pc' = [pc EXCEPT ![c] = label]

Quiet == \A c \in Callers : pc[c] = "idle"

(* The request arrives; a mock one saves the variable, a live one leaves   *)
(* _saved_provider_env at None, which also stands for a variable not set.  *)
Enter(c, m) ==
    /\ pc[c] = "idle"
    /\ Serialized => Quiet
    /\ mock' = [mock EXCEPT ![c] = m]
    /\ saved' = [saved EXCEPT ![c] = IF m THEN env ELSE Unset]
    /\ llm' = [llm EXCEPT ![c] = None]
    /\ tools' = [tools EXCEPT ![c] = None]
    /\ Move(c, IF m THEN "saved" ELSE "entered")
    /\ UNCHANGED <<configured, env>>

(* Mutant: os.environ.setdefault.                                          *)
SetMockDefault(c) ==
    /\ pc[c] = "saved"
    /\ env' = IF env = Unset THEN "mock" ELSE env
    /\ Move(c, "entered")
    /\ UNCHANGED <<configured, requestVars>>

SetMock(c) ==
    /\ pc[c] = "saved"
    /\ env' = "mock"
    /\ Move(c, "entered")
    /\ UNCHANGED <<configured, requestVars>>

(* get_provider(): the variable, or the mock provider if it is not set.    *)
FromEnv(setting) == IF setting = Unset THEN "mock" ELSE setting

ResolveProvider(c) ==
    /\ pc[c] = "entered"
    /\ LET provider == IF mock[c] THEN "mock" ELSE FromEnv(env)
       IN /\ provider # Unknown
          /\ llm' = [llm EXCEPT ![c] = provider]
    /\ Move(c, "resolved")
    /\ UNCHANGED <<configured, env, mock, saved, tools>>

(* Memory, trail and orchestrator: the fundamentals tool, and the market   *)
(* data tool and simulator the portfolio agent makes for itself, read the  *)
(* variable when they are constructed.                                     *)
BuildOrchestrator(c) ==
    /\ pc[c] = "resolved"
    /\ tools' = [tools EXCEPT ![c] = IF env = "mock" THEN "offline" ELSE "live"]
    /\ Move(c, "built")
    /\ UNCHANGED <<configured, env, mock, saved, llm>>

(* Mutant: an exception inside the try goes past the restoring code.       *)
LeaveTryForGood(c) ==
    /\ pc[c] \in {"entered", "resolved", "built"}
    /\ Move(c, "idle")
    /\ UNCHANGED <<configured, env, requestVars>>

(* The run, the critique and the rest are over; or, at any point inside    *)
(* the try, something raises or the generator is closed.                   *)
LeaveTry(c) ==
    /\ pc[c] \in {"entered", "resolved", "built"}
    /\ Move(c, "finally")
    /\ UNCHANGED <<configured, env, requestVars>>

Restore(c) ==
    /\ pc[c] = "finally"
    /\ env' = saved[c]
    /\ Move(c, "idle")
    /\ UNCHANGED <<configured, requestVars>>

-----------------------------------------------------------------------------

Request(c) ==
    \/ \E m \in BOOLEAN : Enter(c, m)
    \/ SetMock(c)
    \/ ResolveProvider(c)
    \/ BuildOrchestrator(c)
    \/ LeaveTry(c)
    \/ Restore(c)

EnvNext == \E c \in Callers : Request(c)

EnvSpec == EnvInit /\ [][EnvNext]_envVars

-----------------------------------------------------------------------------
(* Properties                                                              *)

(* A mock request builds no live tool, whatever the requests before it did *)
(* to the variable.                                                        *)
MockIsOffline == \A c \in Callers : mock[c] => tools[c] # "live"

(* Between requests the variable is as configured, or gone: it never holds *)
(* a provider nobody configured, after any number of requests that succeed *)
(* or fail.                                                                *)
NothingInvented == Quiet => env \in {configured, Unset}
=============================================================================
