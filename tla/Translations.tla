---------------------------- MODULE Translations ----------------------------
(***************************************************************************)
(* YamlI18nAdapter and InMemoryI18nAdapter: catalogues of translations per *)
(* locale, into which dicts and files are merged while look-ups go on.  A  *)
(* leaf is the number of the load it came with.                            *)
(***************************************************************************)
EXTENDS Naturals, Containers

CONSTANTS
  Locales, Fallback,
  Catalogs,  \* what is loaded: sets of paths
  MaxLoads   \* bound: loads

VARIABLES
  yaml,      \* the YAML adapter; else the in-memory one
  locale,    \* _locale
  texts,     \* _translations
  loads,     \* loads so far
  found,     \* what the last t() answered: the locale's, the fallback's or none
  history    \* history: per load, locale and paths merged

vars == <<yaml, locale, texts, loads, found, history>>

TypeOK ==
  /\ yaml \in BOOLEAN
  /\ locale \in Locales
  /\ DOMAIN texts \subseteq Locales
  /\ \A l \in DOMAIN texts : IsTree(texts[l])
  /\ loads \in 0..MaxLoads
  /\ found \in {"none", "locale", "fallback", "missing"}
  /\ Len(history) = loads

Init ==
  /\ yaml \in BOOLEAN
  /\ locale \in Locales
  /\ texts = [l \in {} |-> NoTree]
  /\ loads = 0
  /\ found = "none"
  /\ history = <<>>

-----------------------------------------------------------------------------
SetLocale(l) ==
  /\ locale' = l
  /\ UNCHANGED <<yaml, texts, loads, found, history>>

\* _merge_dicts
MergeDicts(base, overlay) == Overlay(base, overlay)

\* Mutant of MergeIntoLocale: the dict replaces the locale's catalogue.
ReplaceLocale(l, overlay) ==
  texts' = [m \in DOMAIN texts \union {l} |-> IF m = l THEN overlay ELSE texts[m]]

\* _merge_into_locale
MergeIntoLocale(l, overlay) ==
  LET old == IF l \in DOMAIN texts THEN texts[l] ELSE NoTree
  IN  texts' = [m \in DOMAIN texts \union {l} |-> IF m = l THEN MergeDicts(old, overlay) ELSE texts[m]]

\* load_translations with a dict, or with a file that holds one.
Load(l, paths) ==
  /\ loads < MaxLoads
  /\ loads' = loads + 1
  /\ MergeIntoLocale(l, [p \in paths |-> loads + 1])
  /\ history' = Append(history, [locale |-> l, paths |-> paths])
  /\ UNCHANGED <<yaml, locale, found>>

\* No file, no mapping, no YAML: the YAML adapter warns, the in-memory one
\* raises for the last of them.  Nothing is merged.
LoadFails == UNCHANGED vars

\* _traverse, which returns sections as well.
Traverse(l, p) == l \in DOMAIN texts /\ \E q \in DOMAIN texts[l] : Begins(p, q)

\* _resolve_key
ResolveKey(p) ==
  IF Traverse(locale, p) THEN "locale" ELSE IF Traverse(Fallback, p) THEN "fallback" ELSE "missing"

T(p) ==
  /\ found' = ResolveKey(p)
  /\ UNCHANGED <<yaml, locale, texts, loads, history>>

Paths == UNION Catalogs

Next ==
  \/ LoadFails
  \/ \E l \in Locales : SetLocale(l) \/ \E paths \in Catalogs : Load(l, paths)
  \/ \E p \in Paths : T(p)

Spec == Init /\ [][Next]_vars

-----------------------------------------------------------------------------
(* Properties *)

\* A text that was loaded is found as loaded until a later load of the same
\* locale brings another in its way; loads of other keys and locales do not
\* disturb it.
LoadsAddUp ==
  \A n \in DOMAIN history :
    LET l == history[n].locale
        later == {m \in (n + 1)..loads : history[m].locale = l}
    IN  \A p \in history[n].paths :
          (\A m \in later : \A q \in history[m].paths : ~Conflict(p, q)) =>
            l \in DOMAIN texts /\ p \in DOMAIN texts[l] /\ texts[l][p] = n
=============================================================================
