------------------------------- MODULE MCStores -------------------------------
(* Constant values for model checking Stores. *)
EXTENDS Stores, TLC

CONSTANTS k1, k2, k3, p1, p2, a1, a2, z1, x1, x2

AllParts ==
  {"cache", "rows", "transactions", "objects", "updates", "config",
   "flags", "translations", "licences", "secrets file", "secrets double", "casbin",
   "permissions double", "rate limiter", "machine double", "http double", "telemetry", "dependencies", "errors"}

WatchedKeys == {<<p1, k1>>}

\* Sequences of canned responses.
Canned == {<<"retryable", "ok">>, <<"retryable", "retryable", "fatal">>}

\* Roles of which one may delegate; claims of a token that is valid at once and
\* of one that is valid later, and of none.
RoleTable == (x1 :> {a1, a2}) @@ (x2 :> {a1})
Signed == {[notBefore |-> 0, expiry |-> 2], [notBefore |-> 4, expiry |-> 5]}
Unsigned == [notBefore |-> 99, expiry |-> 0]

\* What a CoreSettings file may say: nested or not, valid or not, and the
\* environment, whose second variable may be in the way of the first.
Leaf(from, type) == [from |-> from, type |-> type]
DefaultTree == (<<"env">> :> Leaf("default", "text")) @@ (<<"log", "level">> :> Leaf("default", "text"))
FileTrees ==
  { <<>>,
    <<"env">> :> Leaf("file", "number"),
    (<<"log", "level">> :> Leaf("file", "text")) @@ (<<"log", "size">> :> Leaf("file", "number")),
    <<"log">> :> Leaf("file", "flag") }
Variables ==
  { <<>>,
    <<[path |-> <<"log", "level">>, type |-> "digit"]>>,
    <<[path |-> <<"log">>, type |-> "text"], [path |-> <<"log", "size">>, type |-> "number"]>>,
    <<[path |-> <<"log", "size">>, type |-> "number"], [path |-> <<"log">>, type |-> "text"]>> }
EnvIsText(t) == <<"env">> \in DOMAIN t /\ t[<<"env">>].type = "text"

Texts == {{<<"a">>}, {<<"a", "b">>, <<"c">>}, {<<"a", "d">>}}

\* A cycle, and a way out to a state without a handler.
Cycle == {<<a1, a2>>, <<a2, a1>>, <<a2, z1>>}

SpelledLike == (p1 :> k1) @@ (p2 :> k3)
Bound == {[level |-> "", error_type |-> ""], [level |-> "INFO", error_type |-> "AUTH"]}
=============================================================================
