----------------------------- MODULE ObjectStore -----------------------------
(***************************************************************************)
(* The S3 bucket: the backend is its only writer, one immutable object per *)
(* request.  LocalStack keeps nothing across a restart.                    *)
(***************************************************************************)
EXTENDS JobIds

VARIABLES
    objects,    \* the requests whose image is in the bucket
    bucket      \* the bucket exists

storageVars == <<objects, bucket>>

StorageTypeOK ==
    /\ objects \subseteq Requests
    /\ bucket \in BOOLEAN

StorageInit ==
    /\ objects = {}
    /\ bucket = TRUE

(* ensureBucket, which server.ts runs before it listens. *)
EnsureBucket ==
    /\ bucket' = TRUE
    /\ UNCHANGED objects

(* S3Service.putImage; the key is built from the request id. *)
PutObject(r) ==
    /\ bucket
    /\ objects' = objects \cup {r}
    /\ UNCHANGED bucket
=============================================================================
