------------------------------- MODULE HttpApi -------------------------------
(***************************************************************************)
(* The routes of the backend: what each handler awaits, which failures it  *)
(* answers itself, and what the error handler makes of the rest.  A client *)
(* may leave at any time; its handler goes on.  An await fails because its  *)
(* service is not there, or by a fault of its own, which marks the call.   *)
(* (Which rows and objects exist is left open; UploadHandler.tla has the   *)
(* writes of an upload.)                                                   *)
(***************************************************************************)
EXTENDS BackendLifecycle

(* What an await asks. *)
Asks == [putting |-> "s3", inserting |-> "postgres", publishing |-> "broker",
         marking |-> "postgres", finding |-> "postgres", listing |-> "postgres",
         locating |-> "postgres", fetching |-> "s3", streaming |-> "s3"]

(* A statement needs its tables, a HeadBucket, PUT or GET the bucket. *)
Reachable(s) ==
    /\ s \in up
    /\ s = "postgres" => schema
    /\ s = "s3" => bucket

(* queue.close and pool.end have been called: they refuse what is new, and *)
(* may still bring what was asked before.                                  *)
Closed ==
    IF stage = "closing queue" THEN {"broker"}
    ELSE IF stage = "closing database" THEN {"broker", "postgres"} ELSE {}

Lost(s) == shaken \/ s \in Closed \/ ~Reachable(s)

(* An await rejects since its service is lost, or though nothing is: a     *)
(* message that is nacked, a channel that dies on a healthy connection, no *)
(* connection to be had from the full pool in time, a probe or a statement *)
(* that takes too long, an error of S3 or an object without a body.        *)
Fails(c, s) ==
    \/ Lost(s) /\ UNCHANGED faulted
    \/ faulted' = faulted \cup {c}

Resolves(c, place) == call[c] = place /\ Reachable(Asks[place]) /\ UNCHANGED faulted
Rejects(c, place) == call[c] = place /\ Fails(c, Asks[place])

Await(c, place) ==
    /\ call' = [call EXCEPT ![c] = place]
    /\ UNCHANGED <<gone, probed, bodies>>
-----------------------------------------------------------------------------
(* toResponse and multerStatus: the status of an error. *)
StatusOf == [bad_request |-> 400, not_found |-> 404, unsupported_media_type |-> 415,
             service_unavailable |-> 503, LIMIT_FILE_SIZE |-> 413,
             LIMIT_UNEXPECTED_FILE |-> 400, internal_error |-> 500]

(* res.status(status).json: the handler is done, the connection closed.    *)
Answer(c, status) ==
    /\ call' = [call EXCEPT ![c] =
                   IF status >= 500 /\ c \notin gone THEN "failed" ELSE "answered"]
    /\ gone' = gone \ {c}
    /\ probed' = [probed EXCEPT ![c] = {}]

(* What a handler throws, by way of asyncHandler and errorHandler. *)
Throw(c, error) == Answer(c, StatusOf[error]) /\ UNCHANGED bodies
-----------------------------------------------------------------------------
(* A request comes, on a new connection or one that is kept alive (a server *)
(* that drains still answers those), and a route matches or none does.     *)
Accept(c) ==
    /\ stage \in {"listening", "draining"}
    /\ ~InFlight(c)
    /\ faulted' = faulted \ {c}

GetHealth(c) == Accept(c) /\ Answer(c, 200) /\ UNCHANGED bodies
GetReady(c) == Accept(c) /\ Await(c, "probing")
PostInference(c) == Accept(c) /\ Await(c, "receiving")

(* parseLimit accepts a positive number and clamps it. *)
GetInferences(c) == Accept(c) /\ (Await(c, "listing") \/ Throw(c, "bad_request"))

(* requireUuid, for both routes that have an id. *)
GetInference(c) ==
    Accept(c) /\ (Await(c, "finding") \/ Await(c, "locating") \/ Throw(c, "bad_request"))

NoRouteMatches(c) == Accept(c) /\ Throw(c, "not_found")

(* The client closes the connection, or nginx does. *)
Leave(c) ==
    /\ Connected(c)
    /\ gone' = gone \cup {c}
    /\ UNCHANGED <<call, probed, bodies, faulted>>
-----------------------------------------------------------------------------
(* multer reads the body up to its limits or the end of the connection;    *)
(* then there has to be a file, of a type its first bytes tell.  A body    *)
(* that is broken off, or no multipart at all, is a plain Error: a 500.    *)
ReceiveUpload(c) ==
    /\ call[c] = "receiving"
    /\ \/ UNCHANGED faulted /\ Await(c, "putting")
       \/ \E error \in {"LIMIT_FILE_SIZE", "LIMIT_UNEXPECTED_FILE", "bad_request",
                        "unsupported_media_type"} : UNCHANGED faulted /\ Throw(c, error)
       \/ faulted' = faulted \cup {c} /\ Throw(c, "internal_error")

PutImage(c) == Resolves(c, "putting") /\ Await(c, "inserting")

CreateRequest(c) == Resolves(c, "inserting") /\ Await(c, "publishing")

PublishJob(c) ==
    \/ Resolves(c, "publishing") /\ Answer(c, 202) /\ UNCHANGED bodies
    \/ Rejects(c, "publishing") /\ Await(c, "marking")

MarkFailed(c) == Resolves(c, "marking") /\ Throw(c, "service_unavailable")

FindRequest(c) ==
    /\ Resolves(c, "finding")
    /\ \/ Answer(c, 200) /\ UNCHANGED bodies
       \/ Throw(c, "not_found")

ListRequests(c) == Resolves(c, "listing") /\ Answer(c, 200) /\ UNCHANGED bodies

FindImageLocation(c) ==
    /\ Resolves(c, "locating")
    /\ Await(c, "fetching") \/ Throw(c, "not_found")

(* GetObject; NoSuchKey is a 404, an object without a body rejects (see    *)
(* AwaitRejects).  The pipeline that gets a response whose client has left *)
(* destroys the body at once.                                              *)
GetImage(c) ==
    /\ Resolves(c, "fetching")
    /\ \/ Throw(c, "not_found")
       \/ c \in gone /\ Throw(c, "internal_error")
       \/ /\ c \notin gone
          /\ call' = [call EXCEPT ![c] = "streaming"]
          /\ bodies' = bodies \cup {c}
          /\ UNCHANGED <<gone, probed>>

(* Mutant: pipe, which leaves the body to a response that is gone. *)
PipeImage(c) ==
    /\ call[c] = "streaming"
    /\ \/ /\ UNCHANGED faulted /\ Answer(c, 200)
          /\ bodies' = IF c \in gone THEN bodies ELSE bodies \ {c}
       \/ Fails(c, "s3") /\ Answer(c, 500) /\ bodies' = bodies \ {c}

(* pipeline: it is through, or S3 or the client has gone; each time both   *)
(* streams are destroyed.  An error finds the headers sent: the response   *)
(* is cut.                                                                 *)
StreamImage(c) ==
    /\ call[c] = "streaming"
    /\ bodies' = bodies \ {c}
    /\ \/ UNCHANGED faulted /\ Answer(c, 200)
       \/ c \in gone /\ UNCHANGED faulted /\ Answer(c, 500)
       \/ Fails(c, "s3") /\ Answer(c, 500)

(* The three probes of /health/ready, in the order they come back; a probe *)
(* that fails decides, so it is taken for the last one.                    *)
Probe(c) ==
    /\ call[c] = "probing"
    /\ UNCHANGED bodies
    /\ \E s \in Servers \ probed[c] :
          \/ Fails(c, s) /\ Answer(c, 503)
          \/ /\ Reachable(s) /\ probed[c] \cup {s} = Servers
             /\ Answer(c, 200) /\ UNCHANGED faulted
          \/ /\ Reachable(s) /\ probed[c] \cup {s} # Servers
             /\ probed' = [probed EXCEPT ![c] = @ \cup {s}]
             /\ UNCHANGED <<call, gone, faulted>>

(* Any other await rejects: asyncHandler has it answered. *)
AwaitRejects(c) ==
    \E place \in DOMAIN Asks \ {"publishing", "streaming"} :
        Rejects(c, place) /\ Throw(c, "internal_error")
-----------------------------------------------------------------------------
Request(c) ==
    \/ GetHealth(c) \/ GetReady(c) \/ PostInference(c)
    \/ GetInferences(c) \/ GetInference(c) \/ NoRouteMatches(c)

Upload(c) == ReceiveUpload(c) \/ PutImage(c) \/ CreateRequest(c) \/ PublishJob(c) \/ MarkFailed(c)

Read(c) ==
    \/ FindRequest(c) \/ ListRequests(c)
    \/ FindImageLocation(c) \/ GetImage(c) \/ StreamImage(c)

CallStep(c) ==
    /\ Request(c) \/ Leave(c) \/ Upload(c) \/ Read(c) \/ Probe(c) \/ AwaitRejects(c)
    /\ UNCHANGED <<serverVars, processVars>>
=============================================================================
