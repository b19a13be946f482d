----------------------------- MODULE Dependencies -----------------------------
(***************************************************************************)
(* The dependency managers: ImportlibDependencyAdapter, which imports      *)
(* classes from modules that may be rewritten on disk, and                 *)
(* InMemoryDependencyAdapter, its double.  One namespace of the catalog,   *)
(* one class per module.                                                   *)
(***************************************************************************)
EXTENDS Naturals, Containers

CONSTANTS
  Modules,
  Listed,      \* modules under a prefix of the allowlist
  Permissive,  \* allowlist_mode
  Keys,        \* catalog keys; a key may be spelled like the class of a module
  Packages,
  Defaults,    \* default_packages of the configuration
  Versions,    \* contents of a module's file, beyond 0: no file
  Classless,   \* those versions that do not define the class
  Named,       \* for each module, the key spelled like its class
  MaxListed,   \* bound: catalog entries of the importlib adapter, which only lists them
  MaxEntries   \* bound: catalog entries of its double

VARIABLES
  importing,   \* ImportlibDependencyAdapter, else InMemoryDependencyAdapter
  disk,        \* the files
  modules,     \* sys.modules: the version that was executed, 0 if none
  resolution,  \* _resolution_cache, or _mapping: the version of the class, 0 if none
  registry,    \* _registry: a sequence, as a dict keeps the order of insertion
  reply,       \* the last answer of resolve_class or get_required_packages
  given        \* history: versions of each class given out since the last invalidation

vars == <<importing, disk, modules, resolution, registry, reply, given>>

\* What is registered: <<module, class>>, that with packages, or an object.
Shapes == {"pair", "triple", "object"}
Target == {t \in [shape : Shapes, module : Modules, packages : SUBSET Packages] :
             t.shape # "triple" => t.packages = {}}
Entry == [key : Keys, target : Target]

\* is_known and list_keys
IsKnown(key) == \E i \in DOMAIN registry : registry[i].key = key
ListKeys == [i \in DOMAIN registry |-> registry[i].key]

Reply ==
  [is : {"class"}, version : Versions]
    \union [is : {"packages"}, packages : SUBSET (Packages \union Defaults)]
    \union [is : {"entry"}, target : Target]
    \union [is : {"nothing", "ValidationError", "ModuleNotFoundError", "AttributeError"}]

KeysDiffer == \A i, j \in DOMAIN ListKeys : ListKeys[i] = ListKeys[j] => i = j

TypeOK ==
  /\ importing \in BOOLEAN
  /\ disk \in [Modules -> Versions \union {0}]
  /\ modules \in [Modules -> Versions \union {0}]
  /\ resolution \in [Modules -> Versions \union {0}]
  /\ \A i \in DOMAIN registry : registry[i] \in Entry
  /\ KeysDiffer
  /\ reply \in Reply
  /\ given \in [Modules -> SUBSET Versions]

Nothing == [is |-> "nothing"]
Class(v) == [is |-> "class", version |-> v]

Init ==
  /\ importing \in BOOLEAN
  /\ disk = [m \in Modules |-> 0]
  /\ modules = [m \in Modules |-> 0]
  /\ IF importing THEN resolution = [m \in Modules |-> 0] ELSE resolution \in [Modules -> {0, 1}]
  /\ registry = <<>>
  /\ reply = Nothing
  /\ given = [m \in Modules |-> {}]

-----------------------------------------------------------------------------
IsAllowlisted(m) == Permissive \/ m \in Listed

\* Somebody installs, rewrites or removes a module that may be imported.
Deploy(m, v) ==
  /\ importing /\ IsAllowlisted(m)
  /\ disk' = [disk EXCEPT ![m] = v]
  /\ UNCHANGED <<importing, modules, resolution, registry, reply, given>>

Give(m, v) ==
  /\ reply' = Class(v)
  /\ given' = [given EXCEPT ![m] = @ \union {v}]

\* A class that was resolved is answered from the cache.
ResolveCached(m) ==
  /\ resolution[m] # 0
  /\ Give(m, resolution[m])
  /\ UNCHANGED <<importing, disk, modules, resolution, registry>>

Fail(error) == reply' = [is |-> error] /\ UNCHANGED <<resolution, given>>

\* import_module: a module that was executed once stays in sys.modules, with
\* or without the class, whatever becomes of its file.
Imported(m) == IF modules[m] # 0 THEN modules[m] ELSE disk[m]

\* Only what is allowed is imported; what fails is not cached.
Resolve(m) ==
  /\ importing /\ resolution[m] = 0
  /\ IF ~IsAllowlisted(m) THEN Fail("ValidationError") /\ UNCHANGED modules
     ELSE /\ modules' = [modules EXCEPT ![m] = Imported(m)]
          /\ CASE Imported(m) = 0 -> Fail("ModuleNotFoundError")
               [] Imported(m) \in Classless -> Fail("AttributeError")
               [] OTHER -> /\ resolution' = [resolution EXCEPT ![m] = Imported(m)]
                           /\ Give(m, Imported(m))
  /\ UNCHANGED <<importing, disk, registry>>

\* The double never fails: beyond its mapping it answers the first entry that
\* names the module and has packages, with those packages, or whose key is
\* spelled like the class, with the entry itself.
Matches(e, m) ==
  \/ e.target.shape = "triple" /\ e.target.module = m
  \/ e.key = Named[m]

Found(e, m) ==
  IF e.target.shape = "triple" /\ e.target.module = m
    THEN [is |-> "packages", packages |-> e.target.packages]
    ELSE [is |-> "entry", target |-> e.target]

LookUp(m) ==
  /\ ~importing /\ resolution[m] = 0
  /\ LET matching == {i \in DOMAIN registry : Matches(registry[i], m)}
     IN  reply' = IF matching = {} THEN Nothing ELSE Found(registry[Lowest(matching)], m)
  /\ UNCHANGED <<importing, disk, modules, resolution, registry, given>>

-----------------------------------------------------------------------------
\* register: a key that is known keeps its place.
Register(key, target) ==
  /\ IsKnown(key) \/ Len(registry) < IF importing THEN MaxListed ELSE MaxEntries
  /\ registry' = IF IsKnown(key)
                   THEN [i \in DOMAIN registry |->
                           IF registry[i].key = key THEN [key |-> key, target |-> target] ELSE registry[i]]
                   ELSE Append(registry, [key |-> key, target |-> target])
  /\ UNCHANGED <<importing, disk, modules, resolution, reply, given>>

\* Both adapters take the packages of entries registered with three fields.
Required ==
  UNION {registry[i].target.packages : i \in {j \in DOMAIN registry : registry[j].target.shape = "triple"}}

GetRequiredPackages ==
  /\ reply' = [is |-> "packages", packages |-> Required \union (IF importing THEN Defaults ELSE {})]
  /\ UNCHANGED <<importing, disk, modules, resolution, registry, given>>

\* invalidate_cache of the importlib adapter drops what it resolved, the
\* catalog stays; sys.modules is left as it is.
InvalidateCache ==
  /\ importing
  /\ resolution' = [m \in Modules |-> 0]
  /\ given' = [m \in Modules |-> {}]
  /\ UNCHANGED <<importing, disk, modules, registry, reply>>

\* That of the double drops the catalog and the mapping.
InvalidateAll ==
  /\ ~importing
  /\ resolution' = [m \in Modules |-> 0]
  /\ registry' = <<>>
  /\ given' = [m \in Modules |-> {}]
  /\ UNCHANGED <<importing, disk, modules, reply>>

Next ==
  \/ \E m \in Modules :
       \/ ResolveCached(m) \/ Resolve(m) \/ LookUp(m)
       \/ \E v \in Versions \union {0} : Deploy(m, v)
  \/ \E key \in Keys, target \in Target : Register(key, target)
  \/ GetRequiredPackages \/ InvalidateCache \/ InvalidateAll

Spec == Init /\ [][Next]_vars

-----------------------------------------------------------------------------
(* Properties *)

\* Until the cache is invalidated, callers get one and the same class by one
\* name, however the modules are rewritten and whatever fails in between, so
\* that what is an instance for one of them is an instance for all.
OneClass == \A m \in Modules : \A v, w \in given[m] : v = w

\* What is cached was allowed, was executed, and has the class.
CachedIsLoaded ==
  importing => \A m \in Modules :
    resolution[m] # 0 => IsAllowlisted(m) /\ resolution[m] = modules[m] /\ resolution[m] \notin Classless
=============================================================================
