---------------------------- MODULE ObjectStore ----------------------------
(***************************************************************************)
(* The five adapters of FileStorageManager on one object: the local file   *)
(* system, a dict, S3, GCS and Azure.  A content is the number of the      *)
(* upload it came with.  The services are external: a request is applied   *)
(* or not, and its answer may be lost either way.  No adapter retries.     *)
(***************************************************************************)
EXTENDS Naturals, FiniteSets

CONSTANTS
  Callers,
  MaxUploads, \* bound: uploads
  MaxCalls    \* bound: other calls

NoObject == 0
Contents == 1..MaxUploads
Empty    == MaxUploads + 1  \* a file opened for writing
Torn     == MaxUploads + 2  \* a file that mixes contents or was cut short
Unknown  == MaxUploads + 3

VARIABLES
  backend,
  object,    \* what the store keeps
  clients,   \* S3: how many were created, the last of them kept as _client
  op,        \* per caller: the call it is in
  ready,     \* per caller: it has a client
  file,      \* per caller: the file it writes is the object, not unlinked
  data,      \* per caller: what it uploads
  answer,    \* per caller: what its last call returned or raised
  uploads, others, \* calls so far
  alone,     \* history: no other upload or delete overlapped the caller's
  latest,    \* history: the content of an upload that succeeded alone, until
             \* the next upload or delete begins
  expected   \* history: what a reader must find

calls   == <<op, ready, file, data, answer>>
history == <<alone, latest, expected>>
vars    == <<backend, object, clients, calls, uploads, others, history>>

Cloud == {"s3", "gcs", "azure"}
Backends == Cloud \union {"local", "memory"}
Reads == {"download", "exists", "sign", "list"}
Writers == {"upload", "write", "delete"}
Steps == {"idle", "read"} \union Reads \union Writers

Says(what, n) == [is |-> what, content |-> n]

TypeOK ==
  /\ backend \in Backends
  /\ object \in Contents \union {NoObject, Empty, Torn}
  /\ clients \in 0..(MaxUploads + MaxCalls)
  /\ op \in [Callers -> Steps]
  /\ ready \in [Callers -> BOOLEAN] /\ file \in [Callers -> BOOLEAN]
  /\ data \in [Callers -> Contents \union {NoObject}]
  /\ answer \in [Callers -> [is : {"none", "ok", "yes", "no", "content", "validation",
                                   "permanent", "transient", "raw"},
                             content : 0..Unknown]]
  /\ uploads \in 0..MaxUploads /\ others \in 0..MaxCalls
  /\ alone \in [Callers -> BOOLEAN]
  /\ latest \in Contents \union {Unknown}
  /\ expected \in [Callers -> Contents \union {Unknown}]

Init ==
  /\ backend \in Backends
  /\ object = NoObject
  /\ clients = 0
  /\ op = [c \in Callers |-> "idle"]
  /\ ready = [c \in Callers |-> FALSE] /\ file = [c \in Callers |-> FALSE]
  /\ data = [c \in Callers |-> NoObject]
  /\ answer = [c \in Callers |-> Says("none", 0)]
  /\ uploads = 0 /\ others = 0
  /\ alone = [c \in Callers |-> FALSE]
  /\ latest = Unknown
  /\ expected = [c \in Callers |-> Unknown]

-----------------------------------------------------------------------------
(* A call begins and ends; between, the event loop runs other calls. *)

Writing == {c \in Callers : op[c] \in Writers}

Begin(c, what) ==
  /\ op[c] = "idle"
  /\ op' = [op EXCEPT ![c] = what]
  /\ ready' = [ready EXCEPT ![c] = backend # "s3" \/ clients > 0]
  /\ answer' = [answer EXCEPT ![c] = Says("none", 0)]
  /\ UNCHANGED <<backend, object, clients, file>>

\* An upload or a delete makes everything uncertain until it ends alone.
BeginWriter(c) ==
  /\ alone' = [d \in Callers |-> IF d = c THEN Writing = {} ELSE FALSE]
  /\ latest' = Unknown
  /\ expected' = [d \in Callers |-> Unknown]

BeginUpload(c) ==
  /\ uploads < MaxUploads
  /\ uploads' = uploads + 1
  /\ data' = [data EXCEPT ![c] = uploads + 1]
  /\ BeginWriter(c) /\ Begin(c, "upload")
  /\ UNCHANGED others

BeginDelete(c) ==
  /\ others < MaxCalls
  /\ others' = others + 1
  /\ BeginWriter(c) /\ Begin(c, "delete")
  /\ UNCHANGED <<data, uploads>>

BeginRead(c, what) ==
  /\ others < MaxCalls
  /\ others' = others + 1
  /\ expected' = [expected EXCEPT ![c] = latest]
  /\ Begin(c, what)
  /\ UNCHANGED <<data, uploads, alone, latest>>

End(c, reply) ==
  /\ op' = [op EXCEPT ![c] = "idle"]
  /\ answer' = [answer EXCEPT ![c] = reply]
  /\ latest' = IF op[c] \in {"upload", "write"} /\ reply.is = "ok" /\ alone[c]
               THEN data[c] ELSE latest
  /\ UNCHANGED <<backend, clients, ready, data, uploads, others, alone, expected>>

\* _get_client awaits between its check and its assignment: callers that
\* come meanwhile create clients of their own.
GetClient(c) ==
  /\ op[c] # "idle" /\ ~ready[c]
  /\ clients' = clients + 1
  /\ ready' = [ready EXCEPT ![c] = TRUE]
  /\ UNCHANGED <<backend, object, op, file, data, answer, uploads, others, history>>

GetClientFails(c) ==
  /\ op[c] # "idle" /\ ~ready[c]
  /\ End(c, Says("raw", 0))
  /\ UNCHANGED <<object, file>>

-----------------------------------------------------------------------------
(* The services: what a request may do and answer. *)

\* What a client raises is sorted by its error code: the object is missing,
\* there is no such bucket, access is denied, or the service is in trouble or
\* out of reach.  GCS and Azure know a 404 only.
S3Permanent    == {"missing", "no bucket", "denied"}
GcsPermanent   == {"missing", "no bucket"}
AzurePermanent == {"missing", "no bucket"}
Sorted(permanent, cause) == Says(IF cause \in permanent THEN "permanent" ELSE "transient", 0)

Refused(c, permanent) == \E cause \in {"no bucket", "denied"} : End(c, Sorted(permanent, cause))

\* An upload is made, refused, or left without an answer either way.
PutObject(c, permanent) ==
  \/ object' = data[c] /\ End(c, Says("ok", 0))
  \/ UNCHANGED object /\ Refused(c, permanent)
  \/ object' \in {object, data[c]} /\ End(c, Sorted(permanent, "unreachable"))

S3Upload(c)  == PutObject(c, S3Permanent)
GcsUpload(c) == PutObject(c, GcsPermanent)

\* upload_blob is not told to overwrite, so the service refuses a blob that
\* exists.
AzureUpload(c) ==
  \/ object = NoObject /\ PutObject(c, AzurePermanent)
  \/ /\ object # NoObject /\ UNCHANGED object
     /\ \/ \E cause \in {"exists", "unreachable"} : End(c, Sorted(AzurePermanent, cause))
        \/ Refused(c, AzurePermanent)

Fetch(c, permanent) ==
  \/ object # NoObject /\ End(c, Says("content", object))
  \/ object = NoObject /\ End(c, Sorted(permanent, "missing"))
  \/ Refused(c, permanent)
  \/ End(c, Sorted(permanent, "unreachable"))

S3Download(c)    == Fetch(c, S3Permanent) \/ End(c, Says("raw", 0))  \* body.read()
GcsDownload(c)   == Fetch(c, GcsPermanent)
AzureDownload(c) == Fetch(c, AzurePermanent)

\* Every error is reported and dropped: delete() returns all the same.
S3Delete(c)    == object' \in {object, NoObject} /\ End(c, Says("ok", 0))
GcsDelete(c)   == object' \in {object, NoObject} /\ End(c, Says("ok", 0))
AzureDelete(c) == object' \in {object, NoObject} /\ End(c, Says("ok", 0))

\* An error says "no", too.
Look(c) == \/ object # NoObject /\ End(c, Says("yes", 0))
           \/ End(c, Says("no", 0))
S3Exists(c)    == Look(c)
GcsExists(c)   == Look(c)
AzureExists(c) == Look(c)

\* A URL is signed for whatever key; an error says "none there" of a list.
Sign(c, permanent) ==
  \/ End(c, Says("ok", 0))
  \/ Refused(c, permanent)
  \/ End(c, Sorted(permanent, "unreachable"))
S3Sign(c)    == Sign(c, S3Permanent)
GcsSign(c)   == Sign(c, GcsPermanent)
AzureSign(c) == Sign(c, AzurePermanent)
S3List(c)    == Look(c)
GcsList(c)   == Look(c)
AzureList(c) == Look(c) \/ End(c, Says("raw", 0))  \* pages are fetched outside of the try

Request(c) ==
  /\ op[c] # "idle" /\ ready[c] /\ UNCHANGED file
  /\ \/ /\ backend = "s3"
        /\ \/ op[c] = "upload" /\ S3Upload(c)
           \/ op[c] = "delete" /\ S3Delete(c)
           \/ /\ UNCHANGED object
              /\ \/ op[c] = "download" /\ S3Download(c)
                 \/ op[c] = "exists" /\ S3Exists(c)
                 \/ op[c] = "sign" /\ S3Sign(c)
                 \/ op[c] = "list" /\ S3List(c)
     \/ /\ backend = "gcs"
        /\ \/ op[c] = "upload" /\ GcsUpload(c)
           \/ op[c] = "delete" /\ GcsDelete(c)
           \/ /\ UNCHANGED object
              /\ \/ op[c] = "download" /\ GcsDownload(c)
                 \/ op[c] = "exists" /\ GcsExists(c)
                 \/ op[c] = "sign" /\ GcsSign(c)
                 \/ op[c] = "list" /\ GcsList(c)
     \/ /\ backend = "azure"
        /\ \/ op[c] = "upload" /\ AzureUpload(c)
           \/ op[c] = "delete" /\ AzureDelete(c)
           \/ /\ UNCHANGED object
              /\ \/ op[c] = "download" /\ AzureDownload(c)
                 \/ op[c] = "exists" /\ AzureExists(c)
                 \/ op[c] = "sign" /\ AzureSign(c)
                 \/ op[c] = "list" /\ AzureList(c)

-----------------------------------------------------------------------------
(* The dict: no call awaits. *)

MemoryUpload(c) == op[c] = "upload" /\ object' = data[c] /\ End(c, Says("ok", 0))
MemoryDelete(c) == op[c] = "delete" /\ object' = NoObject /\ End(c, Says("ok", 0))

\* A missing object is a ValidationError for download and sign.
Missing(c, what) == object = NoObject /\ End(c, Says(what, 0))
Found(c, what) == object # NoObject /\ End(c, Says(what, object))

MemoryDownload(c) == op[c] = "download" /\ (Found(c, "content") \/ Missing(c, "validation"))
MemoryExists(c) == op[c] = "exists" /\ (Found(c, "yes") \/ Missing(c, "no"))
MemorySign(c) == op[c] = "sign" /\ (Found(c, "ok") \/ Missing(c, "validation"))
MemoryList(c) == op[c] = "list" /\ (Found(c, "yes") \/ Missing(c, "no"))

Memory(c) ==
  /\ backend = "memory" /\ UNCHANGED file
  /\ \/ MemoryUpload(c) \/ MemoryDelete(c)
     \/ /\ UNCHANGED object
        /\ \/ MemoryDownload(c) \/ MemoryExists(c) \/ MemorySign(c) \/ MemoryList(c)

-----------------------------------------------------------------------------
(* The file system: an upload makes the directory, opens the file, which   *)
(* truncates it, and writes, in three steps; any of them may fail.         *)

LocalOpen(c) ==
  /\ op[c] = "upload"
  /\ \/ /\ object' = Empty
        /\ file' = [file EXCEPT ![c] = TRUE]
        /\ op' = [op EXCEPT ![c] = "write"]
        /\ UNCHANGED <<backend, clients, ready, data, answer, uploads, others, history>>
     \/ UNCHANGED <<object, file>> /\ End(c, Says("permanent", 0))

\* Mutant of LocalWrite: the content is not flushed before upload() returns.
LocalWriteUnflushed(c) ==
  /\ op[c] = "write"
  /\ file' = [file EXCEPT ![c] = FALSE]
  /\ UNCHANGED object
  /\ End(c, Says("ok", 0))

\* Over what another handle has written, of any length; a write that fails
\* leaves part of it.
LocalWrite(c) ==
  /\ op[c] = "write"
  /\ file' = [file EXCEPT ![c] = FALSE]
  /\ \/ /\ object' \in IF ~file[c] THEN {object}
                       ELSE IF object = Empty THEN {data[c]} ELSE {data[c], Torn}
        /\ End(c, Says("ok", 0))
     \/ /\ object' = IF file[c] THEN Torn ELSE object
        /\ End(c, Says("permanent", 0))

\* The check for the file is made before the file is opened.
LocalDownload(c) ==
  /\ UNCHANGED <<object, file>>
  /\ \/ /\ op[c] = "download" /\ object # NoObject
        /\ op' = [op EXCEPT ![c] = "read"]
        /\ UNCHANGED <<backend, clients, ready, data, answer, uploads, others, history>>
     \/ op[c] = "download" /\ Missing(c, "validation")
     \/ op[c] = "read" /\ Found(c, "content")
     \/ op[c] = "read" /\ End(c, Says("permanent", 0))

\* An error of unlink is reported and dropped.
LocalDelete(c) ==
  /\ op[c] = "delete"
  /\ \/ object' = NoObject /\ file' = [d \in Callers |-> FALSE]
     \/ UNCHANGED <<object, file>>
  /\ End(c, Says("ok", 0))

LocalExists(c) == op[c] = "exists" /\ (Found(c, "yes") \/ Missing(c, "no"))
LocalSign(c) == op[c] = "sign" /\ (Found(c, "ok") \/ Missing(c, "validation"))
LocalList(c) == op[c] = "list" /\ (Found(c, "yes") \/ End(c, Says("no", 0)))

Local(c) ==
  /\ backend = "local"
  /\ \/ LocalOpen(c) \/ LocalWrite(c) \/ LocalDownload(c) \/ LocalDelete(c)
     \/ /\ UNCHANGED <<object, file>>
        /\ \/ LocalExists(c) \/ LocalSign(c) \/ LocalList(c)

Next ==
  \E c \in Callers :
    \/ BeginUpload(c) \/ BeginDelete(c) \/ \E what \in Reads : BeginRead(c, what)
    \/ GetClient(c) \/ GetClientFails(c) \/ Request(c)
    \/ Memory(c) \/ Local(c)

Spec == Init /\ [][Next]_vars

-----------------------------------------------------------------------------
(* Properties *)

\* An upload that returned and that no other upload or delete overlapped is
\* what every download gets until the next one begins, or the download
\* raises something else than "missing"; failed uploads are never taken for
\* successful ones.
UploadedIsServed ==
  \A c \in Callers : expected[c] # Unknown =>
    /\ answer[c].is = "content" => answer[c].content = expected[c]
    /\ answer[c].is # "validation"
=============================================================================
