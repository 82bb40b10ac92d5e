----------------------------- MODULE LlmBackend ----------------------------
(***************************************************************************)
(* Which backend a caller gets, from what the process finds in its         *)
(* environment: FORGE_LLM_BACKEND, the API keys and the claude program.    *)
(* Models, latencies and the answers are left out.                         *)
(***************************************************************************)

(* FORGE_LLM_BACKEND; "unset" stands for every other value too.            *)
Switches == {"unset", "api", "claude_code", "static", "none"}

Environments == [switch: Switches, key: BOOLEAN, haikuKey: BOOLEAN, cli: BOOLEAN]

(* The kill switch.                                                        *)
SwitchedOff(env) == env.switch \in {"static", "none"}

ApiBackend(hasKey) == IF hasKey THEN "api" ELSE "nothing"
CliBackend(env) == IF env.cli THEN "cli" ELSE "nothing"

(* resolve_backend: the switch, else the API before the program.           *)
ResolveBackend(env, hasKey) ==
  CASE SwitchedOff(env)           -> "nothing"
    [] env.switch = "api"         -> ApiBackend(hasKey)
    [] env.switch = "claude_code" -> CliBackend(env)
    [] OTHER -> IF hasKey THEN "api" ELSE CliBackend(env)

(* The key of Haiku-specific work.                                         *)
AnyKey(env) == env.haikuKey \/ env.key

(* Mutant: no switch between the API and the program.                      *)
ResolveCheapUnswitched(env) ==
  IF ResolveBackend(env, AnyKey(env)) = "api" THEN "api"
  ELSE IF env.switch # "api" /\ env.cli THEN "cli"
  ELSE ResolveBackend(env, env.key)

(* resolve_cheap_backend: Haiku by the API, the strongest model by the     *)
(* program, else whatever the default resolves to.                         *)
ResolveCheap(env) ==
  IF ResolveBackend(env, AnyKey(env)) = "api" THEN "api"
  ELSE IF SwitchedOff(env) THEN "nothing"
  ELSE IF env.switch # "api" /\ env.cli THEN "cli"
  ELSE ResolveBackend(env, env.key)

(* resolve_role_backend, for drafting and for review.                      *)
ResolveRole(env) ==
  IF SwitchedOff(env) THEN "nothing"
  ELSE IF ResolveBackend(env, env.key) = "api" THEN "api"
  ELSE IF env.switch # "api" /\ env.cli THEN "cli"
  ELSE ResolveCheap(env)
=============================================================================
