---------------------------- MODULE FeatureFlags ----------------------------
(***************************************************************************)
(* FileFeatureFlagAdapter: flags read from a YAML file that others write,  *)
(* and MemoryFeatureFlagAdapter, whose flags are set by its user.  A flag  *)
(* has the rules "none", "met", "unmet" or, in memory, "unknown", whose    *)
(* operator the adapter does not know; met or not is for a given context.  *)
(* A flag of the file may also be no mapping at all.                       *)
(***************************************************************************)
EXTENDS Naturals

CONSTANTS Keys, Default

Rules == {"none", "met", "unmet"}
Flag(enabled, rules) == [enabled |-> enabled, rules |-> rules]
FileFlags == {Flag(e, r) : e \in BOOLEAN, r \in Rules} \union {Flag(TRUE, "malformed")}
MemoryFlags == {Flag(e, r) : e \in BOOLEAN, r \in Rules \union {"unknown"}}

VARIABLES
  source,   \* "file" or "memory"
  disk,     \* the file: [state |-> absent, broken, list or good, flags |-> ...]
  state,    \* what _flags holds: a dict ("good") or a list, which YAML may be
  flags,    \* _flags
  answer    \* what is_enabled, get_flag_value and get_all_flags last said

vars == <<source, disk, state, flags, answer>>

Dicts(F) == UNION {[K -> F] : K \in SUBSET Keys}
NoFlags == [k \in {} |-> Flag(FALSE, "none")]

TypeOK ==
  /\ source \in {"file", "memory"}
  /\ disk.state \in {"absent", "broken", "list", "good"} /\ disk.flags \in Dicts(FileFlags)
  /\ state \in {"good", "list"}
  /\ flags \in Dicts(FileFlags \union MemoryFlags)
  /\ answer \in [enabled : {"none", "on", "off"}, value : {"none", "value", "default"},
                 all : {"none", "absent", "on", "off"}]

Init ==
  /\ source \in {"file", "memory"}
  /\ disk = [state |-> "absent", flags |-> NoFlags]
  /\ state = "good"
  /\ flags = NoFlags
  /\ answer = [enabled |-> "none", value |-> "none", all |-> "none"]

-----------------------------------------------------------------------------
\* Others write the file; one that is cut short may still be YAML.
WriteFile ==
  /\ source = "file"
  /\ \/ \E s \in {"absent", "broken", "list"} : disk' = [state |-> s, flags |-> NoFlags]
     \/ \E f \in Dicts(FileFlags) : disk' = [state |-> "good", flags |-> f]
  /\ UNCHANGED <<source, state, flags, answer>>

\* _reload_sync, which refresh() calls under a lock: a file that cannot be
\* read or parsed leaves the flags as they are.
Refresh ==
  /\ source = "file"
  /\ IF disk.state = "broken"
     THEN UNCHANGED <<state, flags>>
     ELSE /\ flags' = disk.flags
          /\ state' = IF disk.state = "list" THEN "list" ELSE "good"
  /\ UNCHANGED <<source, disk, answer>>

\* set_flag of the in-memory adapter.
SetFlag(k, f) ==
  /\ source = "memory"
  /\ flags' = [j \in DOMAIN flags \union {k} |-> IF j = k THEN f ELSE flags[j]]
  /\ UNCHANGED <<source, disk, state, answer>>

\* _evaluate_rules: without a context no rule is met; an operator that is
\* not "eq" does not exclude anything.
FileRules(f, hasContext) == f.rules = "none" \/ (hasContext /\ f.rules = "met")

MemoryRules(f, hasContext) ==
  f.rules = "none" \/ (hasContext /\ f.rules \in {"met", "unknown"})

\* is_enabled: what raises, a flag that is no mapping or flags that are
\* none, ends in the default.
FileEnabled(k, hasContext) ==
  IF state = "list" \/ k \notin DOMAIN flags \/ flags[k].rules = "malformed" THEN Default
  ELSE flags[k].enabled /\ FileRules(flags[k], hasContext)

MemoryEnabled(k, hasContext) ==
  IF k \notin DOMAIN flags THEN Default
  ELSE flags[k].enabled /\ MemoryRules(flags[k], hasContext)

Enabled(k, hasContext) ==
  IF source = "file" THEN FileEnabled(k, hasContext) ELSE MemoryEnabled(k, hasContext)

\* get_flag_value: the flag's value if it is there and enabled.
HasValue(k, hasContext) ==
  /\ state = "good" /\ k \in DOMAIN flags /\ flags[k].rules # "malformed"
  /\ Enabled(k, hasContext)

\* get_all_flags: only the flags that are there.
Listed(k, hasContext) ==
  IF state = "list" \/ k \notin DOMAIN flags THEN "absent"
  ELSE IF Enabled(k, hasContext) THEN "on" ELSE "off"

Ask(k, hasContext) ==
  /\ answer' = [enabled |-> IF Enabled(k, hasContext) THEN "on" ELSE "off",
                value   |-> IF HasValue(k, hasContext) THEN "value" ELSE "default",
                all     |-> Listed(k, hasContext)]
  /\ UNCHANGED <<source, disk, state, flags>>

Next ==
  \/ WriteFile \/ Refresh
  \/ \E k \in Keys :
       \/ \E f \in MemoryFlags : SetFlag(k, f)
       \/ \E c \in BOOLEAN : Ask(k, c)

Spec == Init /\ [][Next]_vars

=============================================================================
