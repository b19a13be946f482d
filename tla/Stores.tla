-------------------------------- MODULE Stores --------------------------------
(***************************************************************************)
(* Components that keep what they are given and answer from it, side by    *)
(* side: rows, transactions, objects, versions of an app, secrets in a     *)
(* file and in memory, limits, the double of HTTP, a cache, delegations,   *)
(* licences, settings, flags, texts, the double of the state machine,      *)
(* telemetry, classes and reports of errors.  A behaviour exercises one of *)
(* them, the others stay as they are, so that the state spaces add up and  *)
(* do not multiply.                                                        *)
(***************************************************************************)
EXTENDS Integers, Sequences

CONSTANTS
  Parts,                                            \* the components that are exercised
  Ids, Clients, NoRow, MaxRowWrites,                \* RowVersions
  Tasks, Root, NoSession, MaxScopes, MaxWrites,     \* Transactions
  Callers, MaxUploads, MaxCalls,                    \* ObjectStore
  Apps, Channels, MaxVersion, MaxApplies,           \* Updates
  Procs, Keys, Watched, MaxFileTime, MaxFileWrites, \* SecretFile
  Names, MaxClock, MaxSecrets,                      \* MemorySecrets
  TTL,                                              \* of both caches of secrets
  Limiters, SharedCache, MayLose, WindowTypes,      \* RateLimiter
  Capacity, Rate, Costs, MaxTime, MaxSpent,
  Threshold, MaxRetries, Scripts,                   \* MockHttp
  CacheKeys, MaxSize, CacheTTLs, MaxCacheTime, MaxDepth,  \* MemoryCache
  Delegates, ResourceTypes,                         \* Delegations
  Actions, GrantTTLs, MaxRecords, MaxGrantTime,     \* both adapters of permissions
  Principals, RoleActions, Delegating, NoRole,      \* MemoryDelegations
  Tenants, Tokens, NoToken, Grace, MockTerm, MaxLicenceTime,  \* Licences
  DefaultSettings, SettingFiles, Environments,      \* Config
  ValidSettings(_),
  FlagKeys, FlagDefault,                            \* FeatureFlags
  Locales, Fallback, TextSets, MaxLoads,            \* Translations
  States, Initial, Handled, MoveRules, MaxIter,     \* MemoryStateMachine
  Strategies, NoState, MaxRuns,
  Global, MaxSpans,                                 \* Telemetry
  Modules, ListedModules, Permissive, CatalogKeys,  \* Dependencies
  Packages, DefaultPackages, ModuleVersions, Classless, ClassKeys,
  MaxListed, MaxEntries,
  Errors, Bindings, MaxCallDepth,                   \* ErrorReports
  MaxReports, MaxRaised, MaxLoggers

\* A context variable without a session holds none of the numbers of sessions;
\* a bucket is refilled; no canned sequence is empty; no state is None; 0 stands
\* for no file.
ASSUME StoresOK ==
  /\ {MaxRowWrites, MaxScopes, MaxWrites, MaxUploads, MaxCalls, MaxVersion, MaxApplies,
      MaxFileTime, MaxFileWrites, MaxClock, MaxSecrets, TTL,
      Capacity, Rate, MaxTime, MaxSpent, Threshold, MaxRetries,
      MaxSize, MaxCacheTime, MaxDepth, MaxRecords, MaxGrantTime,
      Grace, MockTerm, MaxLicenceTime, MaxLoads, MaxIter, MaxRuns, MaxSpans,
      MaxListed, MaxEntries, MaxCallDepth, MaxReports, MaxRaised, MaxLoggers} \subseteq Nat
  /\ Rate # 0 /\ Threshold # 0 /\ Costs \subseteq Nat
  /\ CacheTTLs \subseteq Nat /\ GrantTTLs \subseteq Nat
  /\ Tokens \subseteq [notBefore : Nat, expiry : Nat]
  /\ SharedCache \in BOOLEAN /\ WindowTypes \subseteq {"bucket", "window"}
  /\ Scripts \subseteq Seq({"ok", "fatal", "retryable"}) \ {<<>>}
  /\ NoSession \notin Nat
  /\ Keys # {}
  /\ FlagDefault \in BOOLEAN /\ Fallback \in Locales
  /\ Initial \in States /\ NoState \notin States /\ Strategies # {}
  /\ ModuleVersions \subseteq Nat \ {0} /\ 1 \in ModuleVersions
  /\ MaxLoggers # 0

VARIABLES
  part,
  table, copies, scope, stamp, lives,
  active, stack, opened, committed, rolled, repos, work, durable, wrote, meant, born, strayed,
  backend, object, clients, op, ready, file, data, answer, uploads, others, alone, latest, expected,
  remote, rollbackEnabled, releases, current, hash, saved, failNext, release, artifact, applies, before, applied,
  refused,
  secretTime, secretFile, torn, fileCache, rotation, fileWrites, held,
  clock, secrets, secretCache, secretAnswer, writes, ended,
  now, cache, buckets, windows, state, local, spent,
  circuit, failures, forced, script, index, response, streak,
  mtime, store, frames, due, newer,
  casbinTime, base, casbinRoles, casbinRecords, policies, casbinDecision,
  listTime, roles, records, decision, denied,
  jwt, licenceTime, licences, revoked, info, served,
  kind, disk, environ, config, asked, loaded,
  source, flagFile, flagState, flags, flagAnswer,
  yaml, locale, texts, loads, found, history,
  strict, strategy, status, events, outcome, mark, runs,
  otel, context, snapshot, spans, spanStack, activeTrace, logged,
  importing, sourceFiles, modules, resolution, registry, reply, given,
  capturing, calls, flying, captured, total, loggers, logs, raised, counted, left

RV == INSTANCE RowVersions WITH MaxWrites <- MaxRowWrites
TX == INSTANCE Transactions
OS == INSTANCE ObjectStore
UP == INSTANCE Updates WITH Callers <- Apps
SF == INSTANCE SecretFile WITH MaxTime <- MaxFileTime, MaxWrites <- MaxFileWrites,
        time <- secretTime, file <- secretFile, cache <- fileCache, writes <- fileWrites
MS == INSTANCE MemorySecrets WITH MaxTime <- MaxClock, MaxWrites <- MaxSecrets,
        store <- secrets, cache <- secretCache, answer <- secretAnswer
RL == INSTANCE RateLimiter WITH Procs <- Limiters, Shared <- SharedCache, Kinds <- WindowTypes, loaded <- state
MH == INSTANCE MockHttp WITH answer <- response
MC == INSTANCE MemoryCache WITH Keys <- CacheKeys, TTLs <- CacheTTLs, MaxTime <- MaxCacheTime
CD == INSTANCE Delegations WITH Types <- ResourceTypes, TTLs <- GrantTTLs, MaxTime <- MaxGrantTime,
        clock <- casbinTime, roles <- casbinRoles, records <- casbinRecords, decision <- casbinDecision
MD == INSTANCE MemoryDelegations WITH TTLs <- GrantTTLs, MaxTime <- MaxGrantTime,
        clock <- listTime, refused <- denied
LI == INSTANCE Licences WITH MaxTime <- MaxLicenceTime, now <- licenceTime, cache <- licences
CF == INSTANCE Config WITH Defaults <- DefaultSettings, Files <- SettingFiles, Envs <- Environments,
        Valid <- ValidSettings
FF == INSTANCE FeatureFlags WITH Keys <- FlagKeys, Default <- FlagDefault,
        disk <- flagFile, state <- flagState, answer <- flagAnswer
TR == INSTANCE Translations WITH Catalogs <- TextSets
SM == INSTANCE MemoryStateMachine WITH Rules <- MoveRules, ended <- outcome
TE == INSTANCE Telemetry WITH stack <- spanStack, active <- activeTrace, record <- logged
DE == INSTANCE Dependencies WITH Listed <- ListedModules, Keys <- CatalogKeys, Defaults <- DefaultPackages,
        Versions <- ModuleVersions, Named <- ClassKeys, disk <- sourceFiles
ER == INSTANCE ErrorReports WITH Contexts <- Bindings, MaxDepth <- MaxCallDepth, mark <- counted

\* Settings and texts are trees, whose paths are sequences of names; the defaults
\* are valid; what is bound and raised is of the kinds the models know.
ASSUME ContentsOK ==
  /\ \A t \in SettingFiles \union {DefaultSettings} :
       /\ CF!IsTree(t) /\ DOMAIN t \subseteq Seq(STRING)
       /\ \A p \in DOMAIN t : t[p] \in CF!Leaves
  /\ Environments \subseteq Seq([path : Seq(STRING), type : CF!Types \union {"digit"}])
  /\ <<>> \in SettingFiles /\ <<>> \in Environments
  /\ ValidSettings(CF!DeepMerge(DefaultSettings, <<>>))
  /\ \A paths \in TextSets : paths \subseteq Seq(STRING) /\ \A p, q \in paths : TR!Conflict(p, q) => p = q
  /\ Errors \subseteq ER!Kinds
  /\ Bindings \subseteq ER!Context /\ ER!Unbound \in Bindings

RVvars == <<table, copies, scope, stamp, lives>>
TXvars == <<active, stack, opened, committed, rolled, repos, work, durable, wrote, meant, born, strayed>>
OSvars == <<backend, object, clients, op, ready, file, data, answer, uploads, others, alone, latest, expected>>
UPvars == <<remote, rollbackEnabled, releases, current, hash, saved, failNext, release, artifact, applies, before, applied, refused>>
SFvars == <<secretTime, secretFile, torn, fileCache, rotation, fileWrites, held>>
MSvars == <<clock, secrets, secretCache, secretAnswer, writes, ended>>
RLvars == <<now, cache, buckets, windows, state, local, spent>>
MHvars == <<circuit, failures, forced, script, index, response, streak>>
MCvars == <<mtime, store, frames, due, newer>>
CDvars == <<casbinTime, base, casbinRoles, casbinRecords, policies, casbinDecision>>
MDvars == <<listTime, roles, records, decision, denied>>
LIvars == <<jwt, licenceTime, licences, revoked, info, served>>
CFvars == <<kind, disk, environ, config, asked, loaded>>
FFvars == <<source, flagFile, flagState, flags, flagAnswer>>
TRvars == <<yaml, locale, texts, loads, found, history>>
SMvars == <<strict, strategy, status, events, outcome, mark, runs>>
TEvars == <<otel, context, snapshot, spans, spanStack, activeTrace, logged>>
DEvars == <<importing, sourceFiles, modules, resolution, registry, reply, given>>
ERvars == <<capturing, calls, flying, captured, total, loggers, logs, raised, counted, left>>

vars ==
  <<part, RVvars, TXvars, OSvars, UPvars, SFvars, MSvars, RLvars, MHvars, MCvars, CDvars, MDvars, LIvars,
    CFvars, FFvars, TRvars, SMvars, TEvars, DEvars, ERvars>>

\* A component that starts in one of several states does so when it is exercised.
Init ==
  /\ part \in Parts
  /\ part = "objects" \/ backend = "local"
  /\ part = "updates" \/ (remote = FALSE /\ rollbackEnabled = FALSE)
  /\ part = "secrets double" \/ secretAnswer = [name |-> CHOOSE n \in Names : TRUE, value |-> 0]
  /\ part = "casbin" \/ (base = {} /\ casbinRoles = {})
  /\ part = "licences" \/ jwt = FALSE
  /\ part = "config" \/ (kind = "memory" /\ disk = {<<>>} /\ environ = <<>>)
  /\ part = "flags" \/ source = "file"
  /\ part = "translations" \/ (yaml = FALSE /\ locale = Fallback)
  /\ part = "machine double" \/ (strict = FALSE /\ strategy = CHOOSE s \in Strategies : TRUE)
  /\ part = "telemetry" \/ otel = FALSE
  /\ part = "dependencies" \/ importing = TRUE
  /\ part = "errors" \/ (capturing = FALSE /\ loggers = <<ER!Unbound>>)
  /\ RV!Init /\ TX!Init /\ OS!Init /\ UP!Init /\ SF!Init /\ MS!Init /\ RL!Init /\ MH!Init
  /\ MC!Init /\ CD!Init /\ MD!Init /\ LI!Init
  /\ CF!Init /\ FF!Init /\ TR!Init /\ SM!Init /\ TE!Init /\ DE!Init /\ ER!Init

\* The components a behaviour is not about.
Idle(p, v) == part # p => UNCHANGED v

Next ==
  /\ UNCHANGED part
  /\ \/ part = "rows" /\ RV!Next
     \/ part = "transactions" /\ TX!Next
     \/ part = "objects" /\ OS!Next
     \/ part = "updates" /\ UP!Next
     \/ part = "secrets file" /\ SF!Next
     \/ part = "secrets double" /\ MS!Next
     \/ part = "rate limiter" /\ RL!Next
     \/ part = "http double" /\ MH!Next
     \/ part = "cache" /\ MC!Next
     \/ part = "casbin" /\ CD!Next
     \/ part = "permissions double" /\ MD!Next
     \/ part = "licences" /\ LI!Next
     \/ part = "config" /\ CF!Next
     \/ part = "flags" /\ FF!Next
     \/ part = "translations" /\ TR!Next
     \/ part = "machine double" /\ SM!Next
     \/ part = "telemetry" /\ TE!Next
     \/ part = "dependencies" /\ DE!Next
     \/ part = "errors" /\ ER!Next
  /\ Idle("rows", RVvars)
  /\ Idle("transactions", TXvars)
  /\ Idle("objects", OSvars)
  /\ Idle("updates", UPvars)
  /\ Idle("secrets file", SFvars)
  /\ Idle("secrets double", MSvars)
  /\ Idle("rate limiter", RLvars)
  /\ Idle("http double", MHvars)
  /\ Idle("cache", MCvars)
  /\ Idle("casbin", CDvars)
  /\ Idle("permissions double", MDvars)
  /\ Idle("licences", LIvars)
  /\ Idle("config", CFvars)
  /\ Idle("flags", FFvars)
  /\ Idle("translations", TRvars)
  /\ Idle("machine double", SMvars)
  /\ Idle("telemetry", TEvars)
  /\ Idle("dependencies", DEvars)
  /\ Idle("errors", ERvars)

Spec == Init /\ [][Next]_vars

-----------------------------------------------------------------------------
(* Properties: those of the components, stated and explained there.        *)

\* Every component's variables keep their types.
TypesOK ==
  /\ part = "rows" => RV!TypeOK
  /\ part = "transactions" => TX!TypeOK
  /\ part = "objects" => OS!TypeOK
  /\ part = "updates" => UP!TypeOK
  /\ part = "secrets file" => SF!TypeOK
  /\ part = "secrets double" => MS!TypeOK
  /\ part = "rate limiter" => RL!TypeOK
  /\ part = "http double" => MH!TypeOK
  /\ part = "cache" => MC!TypeOK
  /\ part = "casbin" => CD!TypeOK
  /\ part = "permissions double" => MD!TypeOK
  /\ part = "licences" => LI!TypeOK
  /\ part = "config" => CF!TypeOK
  /\ part = "flags" => FF!TypeOK
  /\ part = "translations" => TR!TypeOK
  /\ part = "machine double" => SM!TypeOK
  /\ part = "telemetry" => TE!TypeOK
  /\ part = "dependencies" => DE!TypeOK
  /\ part = "errors" => ER!TypeOK

\* MemoryDatabaseAdapter: a version names one content of a row.
VersionsIdentify == RV!VersionsIdentify

\* SQLAlchemyAdapter: a scope commits all that was written in it, and nothing
\* else, unless a rollback failed on the way out of a transaction.
CommitsItsOwn == TX!CommitsItsOwn

\* The storage adapters: what was uploaded is what is downloaded.
UploadedIsServed == OS!UploadedIsServed

\* The update adapters: a rollback goes back to before the latest update.
RestoresLatest == UP!RestoresLatest

\* Both secrets adapters: no answer is more than one TTL behind the store.
BoundedStaleness == []SF!BoundedStaleness /\ MS!BoundedStaleness

\* What limits calls: TokenBucketAdapter grants no more in any interval than
\* its bucket or window allows, and MockHTTPAdapter's circuit opens only when
\* calls have failed often enough.
LimitsHold == [](RL!BucketLimit /\ RL!WindowLimit) /\ MH!OpensOnFailures

\* MemoryCacheAdapter: an entry that is neither old nor removed is there.
KeepsNewest == MC!KeepsNewest

\* Both permission adapters and both licence adapters: nothing is granted on
\* the strength of what has expired or was revoked, no policy survives its
\* record, and an expired record denies at most once in the in-memory adapter.
GrantsExpire ==
  /\ CD!ExpiredGrantsNothing /\ []CD!PoliciesAreOwned
  /\ MD!ExpiredGrantsNothing /\ []MD!ExpiredDeniesOnce
  /\ LI!ServedIsInTerm

\* Configuration and texts are those of the last good load, in the order of
\* precedence, and later loads take nothing away they do not replace; a class
\* stays what it was when it was first loaded, until the cache is invalidated.
KeepsLastGood ==
  /\ CF!Precedence /\ CF!DefaultsSurvive /\ TR!LoadsAddUp
  /\ DE!OneClass /\ DE!CachedIsLoaded

\* InMemoryStateMachineAdapter: the log of a run is a path along the rules, and
\* is_running stays only after a run that escaped.
DoubleLogIsPath == SM!LogIsPath /\ SM!RunningIsEscaped

\* InMemoryObservabilityAdapter: open spans on the stack are of one trace; the
\* error adapters: what is counted and logged is what happened.
ReportsAreTrue == TE!StackIsOneTrace /\ ER!CountedOnTheWay /\ ER!RecordsClassified
=============================================================================
