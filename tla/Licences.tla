------------------------------ MODULE Licences ------------------------------
(***************************************************************************)
(* JwtLicenceAdapter, and InMemoryLicenceAdapter with it: a licence per    *)
(* tenant, its term, the grace after it, and revocation.  The clock counts *)
(* half seconds, because jose compares whole ones.                         *)
(***************************************************************************)
EXTENDS Naturals

CONSTANTS
  Tenants,
  Tokens,   \* claims of signed tokens: [notBefore, expiry], in half seconds
  NoToken,  \* no claims
  Grace,    \* grace_period_days
  MockTerm, \* the term of the in-memory adapter's licences
  MaxTime   \* bound: the clock

VARIABLES
  jwt,     \* the JWT adapter; else the in-memory one
  now,
  cache,   \* _cache, _licences
  revoked, \* _revoked
  info,    \* per tenant, the LicenseInfo the last caller holds
  served   \* what the last call of get_license found for which tenant

vars == <<jwt, now, cache, revoked, info, served>>

Claims == Tokens \union {[notBefore |-> 0, expiry |-> t + MockTerm] : t \in 0..MaxTime} \union {NoToken}

TypeOK ==
  /\ jwt \in BOOLEAN
  /\ now \in 0..MaxTime
  /\ cache \in [Tenants -> Claims]
  /\ revoked \subseteq Tenants
  /\ info \in [Tenants -> [claims : Claims, revoked : BOOLEAN]]
  /\ served \in [Tenants -> {"nothing", "licence"}]

Init ==
  /\ jwt \in BOOLEAN
  /\ now = 0
  /\ cache = [t \in Tenants |-> NoToken]
  /\ revoked = {}
  /\ info = [t \in Tenants |-> [claims |-> NoToken, revoked |-> FALSE]]
  /\ served = [t \in Tenants |-> "nothing"]

Tick ==
  /\ now < MaxTime
  /\ now' = now + 1
  /\ UNCHANGED <<jwt, cache, revoked, info, served>>

-----------------------------------------------------------------------------
Second(t) == t - (t % 2)

\* jose: the grace period is the leeway, of nbf as well as of exp.
Accepted(token) ==
  /\ token.notBefore <= Second(now) + Grace
  /\ token.expiry + Grace >= Second(now)

\* _build_info: revocation as it is now, the term as it will be when asked.
BuildInfo(t, claims) == info' = [info EXCEPT ![t] = [claims |-> claims, revoked |-> t \in revoked]]

\* load_license_from_string, and load_license_from_file for a file that can be read.
LoadLicense(t, token) ==
  /\ jwt /\ Accepted(token)
  /\ cache' = [cache EXCEPT ![t] = token]
  /\ BuildInfo(t, token)
  /\ UNCHANGED <<jwt, now, revoked, served>>

\* AuthError, or a file that cannot be read: what was loaded stays.
LoadFails ==
  /\ jwt
  /\ UNCHANGED vars

\* The in-memory adapter takes anything for a year's licence,
LoadMock(t) ==
  /\ ~jwt
  /\ LET claims == [notBefore |-> 0, expiry |-> now + MockTerm]
     IN  cache' = [cache EXCEPT ![t] = claims] /\ BuildInfo(t, claims)
  /\ UNCHANGED <<jwt, now, revoked, served>>

\* and is given claims by tests.
AddLicense(t, token) ==
  /\ ~jwt
  /\ cache' = [cache EXCEPT ![t] = token]
  /\ UNCHANGED <<jwt, now, revoked, info, served>>

\* Mutant of Current: revocation is forgotten.
CurrentRevoked(t) == cache[t] # NoToken /\ now <= cache[t].expiry + Grace

Current(t) == t \notin revoked /\ cache[t] # NoToken /\ now <= cache[t].expiry + Grace

\* get_license; is_feature_enabled and list_enabled_features ask it.
GetLicense(t) ==
  /\ \/ /\ Current(t)
        /\ served' = [served EXCEPT ![t] = "licence"]
        /\ BuildInfo(t, cache[t])
     \/ /\ ~Current(t)
        /\ served' = [served EXCEPT ![t] = "nothing"]
        /\ UNCHANGED info
  /\ UNCHANGED <<jwt, now, cache, revoked>>

\* revoke_license: nothing takes a tenant out again, no later load either.
RevokeLicense(t) ==
  /\ revoked' = revoked \union {t}
  /\ UNCHANGED <<jwt, now, cache, info, served>>

\* LicenseInfo.is_valid and is_grace_period
IsValid(i) == ~i.revoked /\ now <= i.claims.expiry
IsGracePeriod(i) == ~i.revoked /\ i.claims.expiry < now /\ now <= i.claims.expiry + Grace

Next ==
  \/ Tick \/ LoadFails
  \/ \E t \in Tenants :
       \/ LoadMock(t) \/ GetLicense(t) \/ RevokeLicense(t)
       \/ \E token \in Tokens : LoadLicense(t, token) \/ AddLicense(t, token)

Spec == Init /\ [][Next]_vars

-----------------------------------------------------------------------------
(* Properties *)

\* Who is told of a licence holds one that is valid or in its grace period at
\* that moment, and never both; a tenant that was revoked is told of none,
\* whatever is loaded for it later.
ServedIsInTerm ==
  [][\A t \in Tenants : GetLicense(t) /\ served'[t] = "licence" =>
       /\ t \notin revoked
       /\ IsValid(info'[t]) # IsGracePeriod(info'[t])]_vars
=============================================================================
