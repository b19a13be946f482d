------------------------------- MODULE Config -------------------------------
(***************************************************************************)
(* PydanticConfigAdapter: defaults, overlaid by a YAML file, overlaid by   *)
(* environment variables, loaded when it is made and on reload().  A leaf  *)
(* says where it comes from and what type it has.  InMemoryConfigAdapter   *)
(* is the other kind: its data is set by its user and never reloaded.      *)
(***************************************************************************)
EXTENDS Naturals, Containers

CONSTANTS
  Defaults,  \* CoreSettings
  Files,     \* what the file may hold, as trees
  Envs,      \* the variables, in os.environ's order: sequences of [path, type]
  Valid(_)   \* CoreSettings.model_validate

VARIABLES
  kind,    \* "pydantic" or "memory"
  disk,    \* the file: its tree, in a set, or {} while it is unreadable
  environ,
  config,  \* _config
  asked,   \* what the last typed getter answered
  loaded   \* history: file and variables of the last load that worked

vars == <<kind, disk, environ, config, asked, loaded>>

Types == {"text", "number", "flag"}
Leaves == [from : {"default", "file", "env", "user"}, type : Types]

TypeOK ==
  /\ kind \in {"pydantic", "memory"}
  /\ disk \in {{}} \union {{f} : f \in Files}
  /\ environ \in Envs
  /\ IsTree(config) /\ \A p \in DOMAIN config : config[p] \in Leaves
  /\ asked \in {"none", "default", "error"} \union Types
  /\ loaded.file \in Files /\ loaded.env \in Envs

-----------------------------------------------------------------------------
\* _deep_merge, and _merge of the in-memory adapter.
DeepMerge(base, file) == Overlay(base, file)

\* _coerce_env_value: "1" and "0" are booleans, too.
Coerce(type) == IF type = "digit" THEN "flag" ELSE type

\* _apply_env_overrides, one variable after the other; _set_nested puts
\* dicts where a scalar is in the way.
SetNested(t, var) == SetLeaf(t, var.path, [from |-> "env", type |-> Coerce(var.type)])

EnvOverrides(t, env) ==
  LET overridden[n \in 0..Len(env)] == IF n = 0 THEN t ELSE SetNested(overridden[n - 1], env[n])
  IN  overridden[Len(env)]

Merged(file, env) == EnvOverrides(DeepMerge(Defaults, file), env)

Init ==
  /\ kind \in {"pydantic", "memory"}
  /\ \E f \in Files, e \in Envs :
       /\ disk = {f} /\ environ = e
       /\ config = IF kind = "pydantic" THEN Merged(f, e) ELSE DeepMerge(Defaults, f)
       /\ Valid(config)
       /\ loaded = [file |-> f, env |-> e]
  /\ asked = "none"

\* Others rewrite the file, or set variables in the process.
Change ==
  /\ kind = "pydantic"
  /\ disk' \in {{}} \union {{f} : f \in Files}
  /\ environ' \in Envs
  /\ UNCHANGED <<kind, config, asked, loaded>>

\* reload() holds a lock and does not await in it; _config is assigned last.
Reload ==
  /\ kind = "pydantic"
  /\ \E f \in disk :
       LET new == Merged(f, environ)
       IN  \/ /\ Valid(new)
              /\ config' = new
              /\ loaded' = [file |-> f, env |-> environ]
           \/ ~Valid(new) /\ UNCHANGED <<config, loaded>>
  /\ UNCHANGED <<kind, disk, environ, asked>>

ReloadFails ==
  /\ kind = "pydantic" /\ disk = {}
  /\ UNCHANGED vars

\* set_value of the in-memory adapter, whose reload() does nothing.
SetValue(p) ==
  /\ kind = "memory"
  /\ config' = SetLeaf(config, p, [from |-> "user", type |-> "number"])
  /\ UNCHANGED <<kind, disk, environ, asked, loaded>>

\* _resolve_dotted_key: a leaf, a section, or nothing.
Resolve(p) ==
  IF p \in DOMAIN config THEN config[p].type
  ELSE IF \E q \in DOMAIN config : Begins(p, q) THEN "section" ELSE "missing"

\* get_string, get_number, get_boolean and get_json: the value, the default
\* for what is missing, ValidationError for another type or no default.
Accepts(getter) ==
  CASE getter = "string"  -> Types \union {"section"}
    [] getter = "number"  -> {"number", "flag"}
    [] getter = "boolean" -> {"flag"}
    [] getter = "json"    -> {"number", "flag", "section"}  \* a text is no JSON

Answer(getter, p, hasDefault) ==
  LET value == Resolve(p)
  IN  IF value \in Accepts(getter) THEN (IF value = "section" THEN "text" ELSE value)
      ELSE IF value = "missing" /\ hasDefault THEN "default" ELSE "error"

Ask(getter, p, hasDefault) ==
  /\ asked' = Answer(getter, p, hasDefault)
  /\ UNCHANGED <<kind, disk, environ, config, loaded>>

Paths == UNION {DOMAIN f : f \in Files \union {Defaults}}

Next ==
  \/ Change \/ Reload \/ ReloadFails
  \/ \E p \in Paths :
       \/ SetValue(p)
       \/ \E getter \in {"string", "number", "boolean", "json"}, d \in BOOLEAN : Ask(getter, p, d)

Spec == Init /\ [][Next]_vars

-----------------------------------------------------------------------------
(* Properties *)

\* The variable that decides about p: the last one in whose way p is.
Deciding(p, env) ==
  {i \in DOMAIN env : Conflict(p, env[i].path) /\ \A j \in (i + 1)..Len(env) : ~Conflict(p, env[j].path)}

\* The configuration is that of one file and one environment, those of the
\* last load that worked: a leaf comes from the last variable that touches
\* its path, else from the file, else from the defaults, and whatever a
\* failed reload met is not seen.
Precedence ==
  kind = "pydantic" =>
    \A p \in DOMAIN config :
      LET by == Deciding(p, loaded.env)
          file == loaded.file
      IN  IF \E i \in by : loaded.env[i].path = p THEN config[p].from = "env"
          ELSE IF p \in DOMAIN file THEN config[p] = file[p]
          ELSE /\ p \in DOMAIN Defaults /\ config[p] = Defaults[p]
               /\ \A q \in DOMAIN file : ~Conflict(p, q)

\* Nothing is lost: a default that neither file nor variables are in the way
\* of is there.
DefaultsSurvive ==
  kind = "pydantic" =>
    \A p \in DOMAIN Defaults :
      (\A q \in DOMAIN loaded.file \union {loaded.env[i].path : i \in DOMAIN loaded.env} :
         ~Conflict(p, q)) => p \in DOMAIN config
=============================================================================
