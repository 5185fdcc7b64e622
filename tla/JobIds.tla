------------------------------- MODULE JobIds -------------------------------
(***************************************************************************)
(* The identities every component shares: an upload is known everywhere by *)
(* the UUID the backend draws for it before anything is persisted, and the *)
(* bytes of its file decide how far it gets.                               *)
(***************************************************************************)

CONSTANTS
    Requests,    \* request ids; randomUUID() never repeats one
    Unreadable,  \* those whose bytes no signature of imageType.ts matches
    Truncated    \* those that carry a signature but do not decode

ASSUME FilesAssumption ==
    /\ Unreadable \subseteq Requests
    /\ Truncated \subseteq Requests
    /\ Unreadable \cap Truncated = {}

(* detectImageType looks at leading bytes only: a truncated image passes. *)
DetectImageType(r) == r \notin Unreadable

(* classify_bytes decodes the whole file: a truncated image raises. *)
Decodes(r) == r \notin Unreadable \cup Truncated
=============================================================================
