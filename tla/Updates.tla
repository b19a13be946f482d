------------------------------ MODULE Updates ------------------------------
(***************************************************************************)
(* InMemoryUpdateAdapter and HttpUpdateAdapter for one app: callers check  *)
(* a channel, download the artifact for the platform and apply it, each    *)
(* call on its own and in any order, and roll back.  A version is a        *)
(* number; the release of a version has one artifact, with the version as  *)
(* its URL and its hash.  The HTTP adapter ends at the verified download.  *)
(***************************************************************************)
EXTENDS Naturals

CONSTANTS
  Callers, Channels,
  MaxVersion, \* bound: versions
  MaxApplies  \* bound: apply_update calls

Versions == 1..MaxVersion
Nothing == 0

VARIABLES
  remote,    \* over HTTP: the service is asked, and answers what it likes
  rollbackEnabled,
  releases,  \* per channel: the release on offer
  current,   \* _current_versions[app_id]
  hash,      \* _current_hashes[app_id], absent at first
  saved,     \* _rollback_states[app_id]: version and hash, absent at first
  failNext,  \* _fail_next_apply
  release,   \* per caller: what check_for_updates returned
  artifact,  \* per caller: what download_update returned
  applies,   \* calls of apply_update so far
  before,    \* history: the version when the latest apply_update began
  applied,   \* history: the latest apply_update returned success
  refused    \* history: rollback raised since

vars == <<remote, rollbackEnabled, releases, current, hash, saved, failNext, release,
          artifact, applies, before, applied, refused>>

TypeOK ==
  /\ remote \in BOOLEAN /\ rollbackEnabled \in BOOLEAN
  /\ releases \in [Channels -> Versions \union {Nothing}]
  /\ current \in Nat /\ hash \in Versions \union {Nothing}
  /\ saved.version \in Nat /\ saved.hash \in Versions \union {Nothing}
  /\ failNext \in BOOLEAN
  /\ release \in [Callers -> Versions \union {Nothing}]
  /\ artifact \in [Callers -> Versions \union {Nothing}]
  /\ applies \in 0..MaxApplies /\ before \in Nat
  /\ applied \in BOOLEAN /\ refused \in BOOLEAN

Init ==
  /\ remote \in BOOLEAN /\ rollbackEnabled \in BOOLEAN
  /\ releases = [ch \in Channels |-> Nothing]
  /\ current = 1
  /\ hash = Nothing
  /\ saved = [version |-> Nothing, hash |-> Nothing]
  /\ failNext = FALSE
  /\ release = [c \in Callers |-> Nothing]
  /\ artifact = [c \in Callers |-> Nothing]
  /\ applies = 0
  /\ before = 1
  /\ applied = FALSE /\ refused = FALSE

-----------------------------------------------------------------------------
state == <<current, hash, saved, applies, before, applied, refused>>

\* add_release, or a release at the service.
AddRelease(ch, v) ==
  /\ releases' = [releases EXCEPT ![ch] = v]
  /\ UNCHANGED <<remote, rollbackEnabled, failNext, release, artifact, state>>

\* check_for_updates: a newer release of the channel, or none.
Newer(ch) == IF releases[ch] > current THEN releases[ch] ELSE Nothing

Check(c, ch) ==
  /\ ~remote
  /\ release' = [release EXCEPT ![c] = Newer(ch)]
  /\ UNCHANGED <<remote, rollbackEnabled, releases, failNext, artifact, state>>

\* The service may also answer another status than 200, which is "none".
HttpCheck(c, ch) ==
  /\ remote
  /\ release' \in {[release EXCEPT ![c] = v] : v \in {Newer(ch), Nothing}}
  /\ UNCHANGED <<remote, rollbackEnabled, releases, failNext, artifact, state>>

Download(c) ==
  /\ ~remote /\ release[c] # Nothing
  /\ artifact' = [artifact EXCEPT ![c] = release[c]]
  /\ UNCHANGED <<remote, rollbackEnabled, releases, failNext, release, state>>

\* verify_hash, and verify_signature if the artifact is signed: only the
\* announced bytes pass.
Verified(bytes, announced) == bytes = announced

\* The bytes of any artifact may come back.
HttpDownload(c, bytes) ==
  /\ remote /\ release[c] # Nothing
  /\ Verified(bytes, release[c])
  /\ artifact' = [artifact EXCEPT ![c] = release[c]]
  /\ UNCHANGED <<remote, rollbackEnabled, releases, failNext, release, state>>

FailNextApply ==
  /\ ~remote /\ ~failNext
  /\ failNext' = TRUE
  /\ UNCHANGED <<remote, rollbackEnabled, releases, release, artifact, state>>

\* _resolve_new_version: the release the artifact belongs to while it is
\* still on offer, else the current version's next patch.
NewVersion(a) == IF \E ch \in Channels : releases[ch] = a THEN a ELSE current + 1

\* Mutant of Save: only an apply that succeeds saves it.
SaveLate(a, ok) ==
  saved' = IF ok THEN [version |-> current, hash |-> IF hash = Nothing THEN a ELSE hash] ELSE saved

\* The state to roll back to is saved first.  Before any hash is known the
\* artifact's own is saved.
Save(a, ok) ==
  saved' = [version |-> current, hash |-> IF hash = Nothing THEN a ELSE hash]

\* apply_update of the in-memory adapter; the HTTP adapter's, and its
\* rollback, raise NotImplementedError.
Apply(c) ==
  /\ ~remote /\ artifact[c] # Nothing /\ applies < MaxApplies
  /\ applies' = applies + 1
  /\ before' = current
  /\ applied' = ~failNext
  /\ refused' = FALSE
  /\ failNext' = FALSE
  /\ Save(artifact[c], ~failNext)
  /\ IF failNext /\ rollbackEnabled
     THEN UNCHANGED <<current, hash>>
     ELSE /\ current' = NewVersion(artifact[c])
          /\ hash' = artifact[c]
  /\ UNCHANGED <<remote, rollbackEnabled, releases, release, artifact>>

\* The hash is compared with the one saved before the update, unless the
\* version is that one already.
Accepted == hash = saved.hash \/ current = saved.version

Rollback ==
  /\ saved.version # Nothing
  /\ \/ Accepted /\ current' = saved.version /\ UNCHANGED refused
     \/ ~Accepted /\ refused' = TRUE /\ UNCHANGED current
  /\ UNCHANGED <<remote, rollbackEnabled, releases, hash, saved, failNext, release, artifact,
                 applies, before, applied>>

Next ==
  \/ FailNextApply \/ Rollback
  \/ \E ch \in Channels, v \in Versions : AddRelease(ch, v)
  \/ \E c \in Callers :
       \/ Download(c) \/ Apply(c)
       \/ \E ch \in Channels : Check(c, ch) \/ HttpCheck(c, ch)
       \/ \E bytes \in Versions : HttpDownload(c, bytes)

Spec == Init /\ [][Next]_vars

-----------------------------------------------------------------------------
(* Properties *)

\* The state to roll back to is that of the latest apply_update, successful
\* or not: a rollback that is carried out restores the version that was
\* installed when it began, and never one from before.
RestoresLatest ==
  /\ [](applies > 0 => saved.version = before)
  /\ [][current' # current => applies' # applies \/ current' = before]_vars

\* What the port says of rollback(): it restores the previous version; it
\* is not refused after an update that succeeded.
RollbackWorks == applied => ~refused
=============================================================================
