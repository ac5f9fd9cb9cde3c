------------------------------ MODULE Requests ------------------------------
(***************************************************************************)
(* HTTP requests: uploads, admission, the worker pool, replies, shutdown.  *)
(* Source: src/server/server.c, wadb_api_reply_limit of api.c and          *)
(* wadb_json_finish of json.c.                                             *)
(*                                                                         *)
(* libmicrohttpd runs one thread, which calls access_request for each part *)
(* of a request, `completed' when the request is over and release_response *)
(* when it is done with the reply; it does none of it to a connection that *)
(* is suspended.  A request for the database is queued and its connection  *)
(* suspended until a worker has the reply.  Event streams are in module    *)
(* Streams.  Sizes are in units.  What runs under server->mutex is one     *)
(* action; wadb_api_dispatch runs without it.                              *)
(***************************************************************************)
EXTENDS Integers, Sequences, FiniteSetsExt

CONSTANTS
  Connection, Worker, NoConnection,
  Route,            \* the routes that clients use
  QueueLimit,       \* QUEUE_LIMIT
  BodyLimit,        \* WADB_HTTP_BODY_LIMIT
  UploadBudget,     \* UPLOAD_BUDGET
  ResponseBudget,   \* RESPONSE_BUDGET
  ReplyLimit,       \* WADB_HTTP_REPLY_LIMIT
  AppendReplyLimit, \* WADB_HTTP_APPEND_REPLY_LIMIT
  Margin            \* the 64 KiB that admission leaves for errors

ASSUME RequestsAssumption ==
  /\ Route \subseteq {"append", "query", "get", "session", "asset"}
  /\ QueueLimit \in Nat \ {0} /\ BodyLimit \in Nat \ {0} /\ UploadBudget \in Nat
  /\ ReplyLimit \in Nat \ {0} /\ AppendReplyLimit \in Nat \ {0}
  /\ ResponseBudget \in Nat /\ Margin \in Nat
  /\ NoConnection \notin Connection

VARIABLES
  phase,                        \* of wadb_server_start and wadb_server_stop
  worker, job,                  \* what each worker does, and for which request
  queue,                        \* queue[queue_head ...], queue_count long
  upload_bytes, response_bytes,
  at,                           \* where the request of a connection is
  route, capacity, length,      \* its path; the buffer and length of its body
  response_charge, reply,       \* its charge and the length of its reply
  held                          \* length of the reply that the library holds

body == <<upload_bytes, capacity, length>>
pool == <<worker, job>>
vars == <<phase, pool, queue, body, response_bytes, at, route, response_charge,
          reply, held>>

-----------------------------------------------------------------------------
\* An error, or the answer of a session: it fits every limit.
Small == 1

\* wadb_api_reply_limit.
Limit(x) == IF x = "append" THEN AppendReplyLimit ELSE ReplyLimit
Post(x) == x \in {"append", "query", "session"}

stopping == phase \notin {"starting", "ready"}
Serving == phase \notin {"closing", "stopped"}

Set(f, c, v) == f' = [f EXCEPT ![c] = v]

\* pthread_cond_broadcast(&s->changed).
Broadcast == worker' = [w \in Worker |->
                          IF worker[w] = "waiting" THEN "running" ELSE worker[w]]

-----------------------------------------------------------------------------
(* send_reply.  A request that was admitted has its charge already; another *)
(* is charged now, or its connection closed (MHD_NO).  The charge then goes *)
(* with the reply to the library.  Without memory for that the connection   *)
(* is closed, and the charge stays with the request; a reply that the       *)
(* library does not take is released at once.                               *)

Room(c, n) == response_charge[c] = 0 => n <= ResponseBudget - response_bytes
Charge(c, n) == IF response_charge[c] = 0 THEN n ELSE response_charge[c]
ChargeNow(c, n) ==
  response_bytes' = response_bytes + Charge(c, n) - response_charge[c]

Close(c) == Set(at, c, "closing")

SendReply(c, n) ==
  \/ /\ Room(c, n) /\ ChargeNow(c, n)
     /\ Set(at, c, "sending") /\ Set(held, c, n) /\ Set(response_charge, c, 0)
  \/ /\ Room(c, n) /\ ChargeNow(c, n)
     /\ Close(c) /\ Set(response_charge, c, Charge(c, n)) /\ UNCHANGED held
  \/ /\ Room(c, n) /\ response_bytes' = response_bytes - response_charge[c]
     /\ Close(c) /\ Set(response_charge, c, 0) /\ UNCHANGED held
  \/ /\ ~Room(c, n)
     /\ Close(c) /\ UNCHANGED <<response_bytes, response_charge, held>>

\* release_response, once the request is over.
ReleaseResponse(c) ==
  /\ held[c] > 0 /\ at[c] = "none"
  /\ response_bytes' = response_bytes - held[c]
  /\ Set(held, c, 0)
  /\ UNCHANGED <<phase, pool, queue, body, at, route, response_charge, reply>>

\* Mutant: only a reply that was sent is refunded, not a charge that was kept.
CompletedForgetsCharge(c) ==
  /\ at[c] \in {"open", "resumed", "sending", "closing"}
  /\ upload_bytes' = upload_bytes - capacity[c]
  /\ Set(at, c, "none") /\ Set(capacity, c, 0) /\ Set(length, c, 0)
  /\ Set(response_charge, c, 0) /\ Set(reply, c, 0) /\ Set(route, c, "none")
  /\ UNCHANGED <<phase, pool, queue, response_bytes, held>>

\* completed: the reply was sent, or the client has gone or timed out.
Completed(c) ==
  /\ at[c] \in {"open", "resumed", "sending", "closing"}
  /\ upload_bytes' = upload_bytes - capacity[c]
  /\ response_bytes' = response_bytes - response_charge[c]
  /\ Set(at, c, "none") /\ Set(capacity, c, 0) /\ Set(length, c, 0)
  /\ Set(response_charge, c, 0) /\ Set(reply, c, 0) /\ Set(route, c, "none")
  /\ UNCHANGED <<phase, pool, queue, held>>

-----------------------------------------------------------------------------
(* reserve_body: a buffer for n units, doubled from one unit upwards.       *)

Atleast(m, n) == IF m < n THEN n ELSE m
Atmost(m, n) == IF m > n THEN n ELSE m
Larger(c) == IF capacity[c] = 0 THEN 1 ELSE 2 * capacity[c]
NewCapacity(c, n) ==
  IF n <= capacity[c] THEN capacity[c] ELSE Atmost(Atleast(Larger(c), n), BodyLimit)

Reservable(c, n) ==
  n <= BodyLimit /\ NewCapacity(c, n) - capacity[c] <= UploadBudget - upload_bytes

ReserveBody(c, n) ==
  /\ upload_bytes' = upload_bytes + NewCapacity(c, n) - capacity[c]
  /\ Set(capacity, c, NewCapacity(c, n)) /\ Set(length, c, n)

-----------------------------------------------------------------------------
(* access_request.                                                          *)

Arrives(c, x) ==
  at[c] = "none" /\ held[c] = 0 /\ Serving /\ Set(route, c, x)

\* The first call, refused: the server is not ready, a header is wrong, there is
\* no session, or no room for the arguments.
Refuse(c, x) ==
  /\ Arrives(c, x)
  /\ SendReply(c, Small)
  /\ UNCHANGED <<phase, pool, queue, body, reply>>

\* Accepted.  The arguments of a GET are its body.
Accept(c, x) ==
  /\ Arrives(c, x) /\ phase = "ready"
  /\ IF Post(x) THEN UNCHANGED body ELSE Reservable(c, 1) /\ ReserveBody(c, 1)
  /\ Set(at, c, "open")
  /\ UNCHANGED <<phase, pool, queue, response_bytes, response_charge, reply, held>>

\* A part of a body.  One that does not fit, or for which the buffer cannot be
\* grown, closes the connection.
Upload(c, n) ==
  LET fits == n <= BodyLimit - length[c] /\ Reservable(c, length[c] + n)
      grows == NewCapacity(c, length[c] + n) # capacity[c]
  IN /\ at[c] = "open" /\ Post(route[c]) /\ Serving
     /\ \/ fits /\ ReserveBody(c, length[c] + n) /\ UNCHANGED at
        \/ (~fits \/ grows) /\ Close(c) /\ UNCHANGED body
     /\ UNCHANGED <<phase, pool, queue, response_bytes, route, response_charge, reply, held>>

\* The last call.  Sessions and assets are answered by this thread; assets are not
\* charged.
AnswerHere(c) ==
  /\ at[c] = "open" /\ Serving
  /\ stopping \/ route[c] \in {"session", "asset"}
  /\ SendReply(c, IF route[c] = "asset" /\ ~stopping THEN 0 ELSE Small)
  /\ UNCHANGED <<phase, pool, queue, body, route, reply>>

ForDatabase(c) ==
  at[c] = "open" /\ ~stopping /\ route[c] \notin {"session", "asset"}

Admissible(c) ==
  /\ Len(queue) < QueueLimit
  /\ Limit(route[c]) + Margin <= ResponseBudget - response_bytes

Overload(c) ==
  /\ ForDatabase(c) /\ ~Admissible(c)
  /\ SendReply(c, Small)
  /\ UNCHANGED <<phase, pool, queue, body, route, reply>>

\* Mutant: the workers are not told.
AdmitQuietly(c) ==
  /\ ForDatabase(c) /\ Admissible(c)
  /\ response_bytes' = response_bytes + Limit(route[c])
  /\ Set(response_charge, c, Limit(route[c]))
  /\ Set(at, c, "suspended")
  /\ queue' = Append(queue, c)
  /\ UNCHANGED <<phase, pool, body, route, reply, held>>

\* Room for the longest reply is reserved before the database is asked.
Admit(c) ==
  /\ ForDatabase(c) /\ Admissible(c)
  /\ response_bytes' = response_bytes + Limit(route[c])
  /\ Set(response_charge, c, Limit(route[c]))
  /\ Set(at, c, "suspended")
  /\ queue' = Append(queue, c) /\ Broadcast
  /\ UNCHANGED <<phase, job, body, route, reply, held>>

\* The call that follows the resumption.
Answer(c) ==
  /\ at[c] = "resumed" /\ Serving
  /\ SendReply(c, reply[c])
  /\ UNCHANGED <<phase, pool, queue, body, route, reply>>

-----------------------------------------------------------------------------
(* worker.                                                                  *)

\* Mutant: workers leave as soon as the server stops, whatever is queued.
WorkerStepHasty(w) ==
  /\ worker[w] = "running"
  /\ worker' = [worker EXCEPT ![w] = IF stopping THEN "exited"
                                     ELSE IF queue = << >> THEN "waiting"
                                     ELSE "dispatching"]
  /\ IF worker'[w] = "dispatching"
     THEN Set(job, w, Head(queue)) /\ queue' = Tail(queue)
     ELSE UNCHANGED <<job, queue>>
  /\ UNCHANGED <<phase, body, response_bytes, at, route, response_charge, reply, held>>

\* Waits for work, takes the head of the queue, or leaves: the queue is empty and
\* the server stops.
WorkerStep(w) ==
  /\ worker[w] = "running"
  /\ worker' = [worker EXCEPT ![w] = IF queue # << >> THEN "dispatching"
                                     ELSE IF stopping THEN "exited" ELSE "waiting"]
  /\ IF queue # << >> THEN Set(job, w, Head(queue)) /\ queue' = Tail(queue)
                      ELSE UNCHANGED <<job, queue>>
  /\ UNCHANGED <<phase, body, response_bytes, at, route, response_charge, reply, held>>

\* wadb_json_finish: a reply over the limit of its endpoint becomes an error; with
\* no memory for either the reply is empty.
FinishLength(c, n) == IF n > Limit(route[c]) THEN Small ELSE n

\* Mutant: the connection is resumed as soon as there is a reply, and the room
\* refunded later.
DispatchResumes(w, n) ==
  /\ worker[w] = "dispatching"
  /\ Set(worker, w, "finishing")
  /\ Set(reply, job[w], FinishLength(job[w], n))
  /\ Set(at, job[w], "resumed")
  /\ UNCHANGED <<phase, job, queue, body, response_bytes, route, response_charge, held>>

\* wadb_api_dispatch.
Dispatch(w, n) ==
  /\ worker[w] = "dispatching"
  /\ Set(worker, w, "finishing")
  /\ Set(reply, job[w], FinishLength(job[w], n))
  /\ UNCHANGED <<phase, job, queue, body, response_bytes, at, route, response_charge, held>>

\* Mutant: the whole charge is refunded, and sending has to ask for room again.
FinishRefundsAll(w) ==
  /\ worker[w] = "finishing"
  /\ Set(worker, w, "running") /\ Set(job, w, NoConnection)
  /\ response_bytes' = response_bytes - response_charge[job[w]]
  /\ Set(response_charge, job[w], 0)
  /\ Set(at, job[w], "resumed")
  /\ UNCHANGED <<phase, queue, body, route, reply, held>>

\* Refunds the room that the reply does not use and resumes the connection.
Finish(w) ==
  /\ worker[w] = "finishing"
  /\ Set(worker, w, "running") /\ Set(job, w, NoConnection)
  /\ response_bytes' = response_bytes - (response_charge[job[w]] - reply[job[w]])
  /\ Set(response_charge, job[w], reply[job[w]])
  /\ Set(at, job[w], "resumed")
  /\ UNCHANGED <<phase, queue, body, route, reply, held>>

-----------------------------------------------------------------------------
(* wadb_server_start, from the start of the listener, and wadb_server_stop. *)

requests == <<queue, body, response_bytes, at, route, response_charge, reply, held>>

StartWorker(w) ==
  /\ phase = "starting" /\ worker[w] = "absent"
  /\ Set(worker, w, "running")
  /\ UNCHANGED <<phase, job, requests>>

Ready ==
  /\ phase = "starting" /\ \A w \in Worker : worker[w] # "absent"
  /\ phase' = "ready"
  /\ UNCHANGED <<pool, requests>>

\* A caller stops the server, or a thread could not be started.
Stop ==
  /\ phase \in {"starting", "ready"}
  /\ phase' = "joining" /\ Broadcast
  /\ UNCHANGED <<job, requests>>

\* The joins; then MHD_stop_daemon ends every request.
StopDaemon ==
  /\ phase = "joining" /\ \A w \in Worker : worker[w] \in {"absent", "exited"}
  /\ phase' = "closing"
  /\ UNCHANGED <<pool, requests>>

Stopped ==
  /\ phase = "closing" /\ \A c \in Connection : at[c] = "none" /\ held[c] = 0
  /\ phase' = "stopped"
  /\ UNCHANGED <<pool, requests>>

-----------------------------------------------------------------------------
Init ==
  /\ phase = "starting"
  /\ worker = [w \in Worker |-> "absent"] /\ job = [w \in Worker |-> NoConnection]
  /\ queue = << >> /\ upload_bytes = 0 /\ response_bytes = 0
  /\ at = [c \in Connection |-> "none"]
  /\ route = at
  /\ capacity = [c \in Connection |-> 0] /\ length = capacity
  /\ response_charge = capacity /\ reply = capacity /\ held = capacity

HttpThread(c) ==
  \/ \E x \in Route : Refuse(c, x) \/ Accept(c, x)
  \/ \E n \in 1 .. BodyLimit : Upload(c, n)
  \/ AnswerHere(c) \/ Overload(c) \/ Admit(c) \/ Answer(c)
  \/ Completed(c) \/ ReleaseResponse(c)

WorkerThread(w) ==
  \/ WorkerStep(w) \/ Finish(w)
  \/ \E n \in 0 .. ReplyLimit + 1 : Dispatch(w, n)

StopThread == StopDaemon \/ Stopped

Next ==
  \/ \E c \in Connection : HttpThread(c)
  \/ \E w \in Worker : WorkerThread(w) \/ StartWorker(w)
  \/ Ready \/ Stop \/ StopThread

Spec == Init /\ [][Next]_vars

\* Threads run, and what the library has been told to send or to close it does.
FairSpec ==
  /\ Spec
  /\ \A w \in Worker : WF_vars(WorkerThread(w))
  /\ \A c \in Connection : WF_vars(Answer(c) \/ Completed(c) \/ ReleaseResponse(c))
  /\ WF_vars(StopThread)

-----------------------------------------------------------------------------
TypeOK ==
  /\ phase \in {"starting", "ready", "joining", "closing", "stopped"}
  /\ worker \in [Worker -> {"absent", "running", "waiting", "dispatching", "finishing",
                            "exited"}]
  /\ job \in [Worker -> Connection \cup {NoConnection}]
  /\ queue \in Seq(Connection)
  /\ at \in [Connection -> {"none", "open", "suspended", "resumed", "sending", "closing"}]
  /\ route \in [Connection -> Route \cup {"none"}]
  /\ upload_bytes \in Int /\ response_bytes \in Int
  /\ capacity \in [Connection -> Nat] /\ length \in [Connection -> Nat]
  /\ response_charge \in [Connection -> Nat] /\ reply \in [Connection -> Nat]
  /\ held \in [Connection -> Nat]

SumOf(f) == MapThenSumSet(LAMBDA c : f[c], Connection)

\* Neither budget is exceeded, so that BUDGET - used never wraps.
BudgetsKept == upload_bytes <= UploadBudget /\ response_bytes <= ResponseBudget

\* Every unit of the two budgets is accounted for by a body, a request or a reply
\* that is alive, whatever clients, workers and failures do in between: nothing is
\* refunded twice or not at all, and the budgets are kept.
BudgetsBalance ==
  /\ upload_bytes = SumOf(capacity)
  /\ response_bytes = SumOf(response_charge) + SumOf(held)
  /\ BudgetsKept

\* When the database has answered there is room for the reply, though other clients
\* took room since: an append that was committed is not turned into an overload
\* ("A successful commit cannot become a retryable overload response", worker).
AnswerHasRoom ==
  \A c \in Connection : at[c] = "resumed" => Room(c, reply[c])

\* A suspended request is in the queue once or in the hands of one worker, and both
\* hold suspended requests only: none is freed under a worker, answered by two, or
\* forgotten ("Suspension guarantees r stays alive", worker).
SuspendedOwned ==
  /\ \A i, j \in 1 .. Len(queue) : queue[i] = queue[j] => i = j
  /\ \A v, w \in Worker : job[v] = job[w] /\ job[v] # NoConnection => v = w
  /\ \A i \in 1 .. Len(queue), w \in Worker : queue[i] # job[w]
  /\ \A c \in Connection : at[c] = "suspended" <=> \/ \E i \in 1 .. Len(queue) : queue[i] = c
                                                   \/ \E w \in Worker : job[w] = c

\* A request that was admitted is executed and its connection resumed, the server
\* stopping or not ("finishes queued requests", docs/http-api.md).
AdmittedAnswered ==
  \A c \in Connection : at[c] = "suspended" ~> at[c] = "resumed"

\* wadb_server_stop returns, also after a start that failed half-way: no worker
\* sleeps through it and no connection stays suspended.
ShutdownReturns == stopping ~> phase = "stopped"
=============================================================================
