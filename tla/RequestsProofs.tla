--------------------------- MODULE RequestsProofs ---------------------------
(***************************************************************************)
(* Proofs about Requests, for any number of connections and workers and    *)
(* any limits.  A suspended request has one owner, and while it has one    *)
(* the longest reply of its route is charged; so the refund after the      *)
(* dispatch gives back room and never takes any, and the reply that the    *)
(* database made is never refused for want of it.                          *)
(***************************************************************************)
EXTENDS Requests, TLAPS

\* A worker has a job exactly while it dispatches or finishes one.
JobsHeld ==
  \A w \in Worker : job[w] \in Connection <=> worker[w] \in {"dispatching", "finishing"}

\* What is charged while a request is suspended, and after it was resumed.
ChargesFit ==
  /\ \A c \in Connection : at[c] = "suspended" => response_charge[c] = Limit(route[c])
  /\ \A c \in Connection : at[c] = "resumed" => response_charge[c] = reply[c]
  /\ \A w \in Worker : worker[w] = "finishing" => reply[job[w]] <= Limit(route[job[w]])

IInv == TypeOK /\ JobsHeld /\ SuspendedOwned /\ ChargesFit /\ BudgetsKept

-----------------------------------------------------------------------------
\* The limit of a route is a positive number of units.
LEMMA LimitType == \A x : Limit(x) \in Nat \ {0}
  BY RequestsAssumption DEF Limit

\* A step of the HTTP thread for a request that is not suspended, before and after,
\* disturbs no owner and no charge of another.
LEMMA OthersKept ==
  ASSUME IInv, NEW c \in Connection,
         at[c] # "suspended", at'[c] # "suspended", at'[c] # "resumed",
         UNCHANGED pool, UNCHANGED queue,
         \A d \in Connection \ {c} :
           /\ at'[d] = at[d] /\ response_charge'[d] = response_charge[d]
           /\ reply'[d] = reply[d] /\ route'[d] = route[d]
  PROVE  JobsHeld' /\ SuspendedOwned' /\ ChargesFit'
<1>1. JobsHeld'
  BY DEF IInv, JobsHeld, pool
<1>2. \A d \in Connection : at'[d] = "suspended" <=> at[d] = "suspended"
  OBVIOUS
<1>3. SuspendedOwned'
  BY <1>2 DEF IInv, SuspendedOwned, pool
<1>4. \A w \in Worker : worker[w] = "finishing" => job[w] \in Connection \ {c}
  BY DEF IInv, JobsHeld, SuspendedOwned
<1>5. ChargesFit'
  BY <1>4 DEF IInv, ChargesFit, Limit, pool
<1> QED
  BY <1>1, <1>3, <1>5

\* Sending a reply, or failing to, keeps the response budget.
LEMMA SendReplyKeeps ==
  ASSUME TypeOK, BudgetsKept, NEW c \in Connection, NEW n \in Nat, SendReply(c, n)
  PROVE  /\ at' \in [Connection -> {"none", "open", "suspended", "resumed", "sending",
                                    "closing"}]
         /\ at'[c] \in {"sending", "closing"}
         /\ response_charge' \in [Connection -> Nat] /\ held' \in [Connection -> Nat]
         /\ response_bytes' \in Int /\ response_bytes' <= ResponseBudget
         /\ \A d \in Connection \ {c} :
              at'[d] = at[d] /\ response_charge'[d] = response_charge[d]
<1> USE RequestsAssumption DEF TypeOK, BudgetsKept, Close, Set
<1>0. response_charge[c] \in Nat /\ response_bytes \in Int /\ Charge(c, n) \in Nat
  BY DEF Charge
<1>1. Room(c, n) => response_bytes + Charge(c, n) - response_charge[c] <= ResponseBudget
  BY <1>0 DEF Charge, Room
<1>2. CASE /\ Room(c, n) /\ ChargeNow(c, n)
           /\ Set(at, c, "sending") /\ Set(held, c, n) /\ Set(response_charge, c, 0)
  BY SMTT(30), <1>0, <1>1, <1>2 DEF ChargeNow
<1>3. CASE /\ Room(c, n) /\ ChargeNow(c, n)
           /\ Close(c) /\ Set(response_charge, c, Charge(c, n)) /\ UNCHANGED held
  BY SMTT(30), <1>0, <1>1, <1>3 DEF ChargeNow
<1>4. CASE /\ Room(c, n) /\ response_bytes' = response_bytes - response_charge[c]
           /\ Close(c) /\ Set(response_charge, c, 0) /\ UNCHANGED held
  BY SMTT(30), <1>0, <1>4
<1>5. CASE Close(c) /\ UNCHANGED <<response_bytes, response_charge, held>>
  BY <1>5
<1> QED
  BY Zenon, <1>2, <1>3, <1>4, <1>5 DEF SendReply

\* A buffer is a number of units.
LEMMA ReserveKeeps ==
  ASSUME TypeOK, NEW c \in Connection, NEW n \in Nat, Reservable(c, n), ReserveBody(c, n)
  PROVE  /\ capacity' \in [Connection -> Nat] /\ length' \in [Connection -> Nat]
         /\ upload_bytes' \in Int /\ upload_bytes' <= UploadBudget
<1>1. NewCapacity(c, n) \in Nat
  BY RequestsAssumption DEF TypeOK, NewCapacity, Larger, Atleast, Atmost
<1>2. NewCapacity(c, n) - capacity[c] <= UploadBudget - upload_bytes
  BY DEF Reservable
<1>3. capacity[c] \in Nat /\ upload_bytes \in Int
  BY DEF TypeOK
<1> QED
  BY SMTT(30), <1>1, <1>2, <1>3, RequestsAssumption DEF ReserveBody, Set, TypeOK

-----------------------------------------------------------------------------
(* The steps of the HTTP thread.                                            *)

\* A first call that is refused.
LEMMA RefuseKeeps ==
  ASSUME IInv, NEW c \in Connection, NEW x \in Route, Refuse(c, x)
  PROVE  IInv'
<1> USE DEF IInv
<1>1. SendReply(c, Small) /\ Small \in Nat /\ at[c] = "none"
  BY DEF Refuse, Arrives, Small
<1>2. TypeOK' /\ BudgetsKept'
  BY Zenon, <1>1, SendReplyKeeps
  DEF Refuse, Arrives, TypeOK, BudgetsKept, Set, body, pool
<1>3. JobsHeld' /\ SuspendedOwned' /\ ChargesFit'
  BY ZenonT(30), <1>1, SendReplyKeeps, OthersKept DEF Refuse, Arrives, Set, TypeOK
<1> QED
  BY <1>2, <1>3

\* A first call that is accepted.
LEMMA AcceptKeeps ==
  ASSUME IInv, NEW c \in Connection, NEW x \in Route, Accept(c, x)
  PROVE  IInv'
<1> USE DEF IInv
<1>1. CASE Post(x)
  <2>1. TypeOK' /\ BudgetsKept'
    BY SMTT(30), <1>1 DEF Accept, Arrives, TypeOK, BudgetsKept, Set, body, pool
  <2> QED
    BY SMTT(30), <2>1, <1>1, OthersKept DEF Accept, Arrives, Set, TypeOK
<1>2. CASE ~Post(x)
  <2>1. Reservable(c, 1) /\ ReserveBody(c, 1)
    BY <1>2 DEF Accept
  <2>2. TypeOK' /\ BudgetsKept'
    BY Zenon, <2>1, ReserveKeeps DEF Accept, Arrives, TypeOK, BudgetsKept, Set, pool
  <2> QED
    BY ZenonT(30), <2>2, OthersKept DEF Accept, Arrives, Set, TypeOK
<1> QED
  BY <1>1, <1>2

\* A part of a body.
LEMMA UploadKeeps ==
  ASSUME IInv, NEW c \in Connection, NEW n \in 1 .. BodyLimit, Upload(c, n)
  PROVE  IInv'
<1> USE DEF IInv
<1>1. PICK m \in Nat : m = length[c] + n
  BY RequestsAssumption DEF TypeOK
<1>2. CASE /\ Reservable(c, length[c] + n) /\ ReserveBody(c, length[c] + n)
           /\ UNCHANGED at
  <2>1. Reservable(c, m) /\ ReserveBody(c, m) /\ UNCHANGED at
    BY <1>1, <1>2 DEF Reservable, ReserveBody, NewCapacity, Set
  <2>2. /\ capacity' \in [Connection -> Nat] /\ length' \in [Connection -> Nat]
        /\ upload_bytes' \in Int /\ upload_bytes' <= UploadBudget
    BY <2>1, ReserveKeeps
  <2>3. TypeOK' /\ BudgetsKept'
    BY Zenon, <2>1, <2>2 DEF Upload, TypeOK, BudgetsKept, pool
  <2> QED
    BY ZenonT(30), <2>1, <2>3, OthersKept DEF Upload, TypeOK
<1>3. CASE Close(c) /\ UNCHANGED body
  <2>1. TypeOK' /\ BudgetsKept'
    BY ZenonT(30), <1>3 DEF Upload, TypeOK, BudgetsKept, Close, Set, body, pool
  <2> QED
    BY ZenonT(30), <1>3, <2>1, OthersKept DEF Upload, TypeOK, Close, Set
<1> QED
  BY Zenon, <1>2, <1>3 DEF Upload

\* A reply to a request that is not suspended.
LEMMA ReplyKeeps ==
  ASSUME IInv, NEW c \in Connection, NEW n \in Nat, SendReply(c, n),
         at[c] # "suspended", UNCHANGED <<phase, pool, queue, body, route, reply>>
  PROVE  IInv'
<1> USE DEF IInv
<1>1. /\ at' \in [Connection -> {"none", "open", "suspended", "resumed", "sending", "closing"}]
      /\ at'[c] \in {"sending", "closing"}
      /\ response_charge' \in [Connection -> Nat] /\ held' \in [Connection -> Nat]
      /\ response_bytes' \in Int /\ response_bytes' <= ResponseBudget
      /\ \A d \in Connection \ {c} :
           at'[d] = at[d] /\ response_charge'[d] = response_charge[d]
  BY SendReplyKeeps
<1>2. TypeOK' /\ BudgetsKept'
  BY ZenonT(30), <1>1 DEF TypeOK, BudgetsKept, body, pool
<1>3. JobsHeld' /\ SuspendedOwned' /\ ChargesFit'
  BY <1>1, OthersKept
<1> QED
  BY <1>2, <1>3

\* The answers that the HTTP thread gives by itself, and the one of the database.
LEMMA AnswersKeep ==
  ASSUME IInv, NEW c \in Connection, AnswerHere(c) \/ Overload(c) \/ Answer(c)
  PROVE  IInv'
<1>1. CASE AnswerHere(c)
  <2>1. PICK n \in Nat : n = IF route[c] = "asset" /\ ~stopping THEN 0 ELSE Small
    BY DEF Small
  <2>2. SendReply(c, n)
    BY <1>1, <2>1 DEF AnswerHere, SendReply, Room, Charge, ChargeNow, Close, Set
  <2> QED
    BY <1>1, <2>2, ReplyKeeps DEF AnswerHere
<1>2. CASE Overload(c)
  BY SMTT(30), <1>2, ReplyKeeps DEF Overload, ForDatabase, Small
<1>3. CASE Answer(c)
  <2>1. PICK n \in Nat : n = reply[c]
    BY DEF IInv, TypeOK
  <2>2. SendReply(c, n)
    BY <1>3, <2>1 DEF Answer, SendReply, Room, Charge, ChargeNow, Close, Set
  <2> QED
    BY <1>3, <2>2, ReplyKeeps DEF Answer
<1> QED
  BY <1>1, <1>2, <1>3

\* The end of a request, and of a reply.
LEMMA EndKeeps ==
  ASSUME IInv, NEW c \in Connection, Completed(c) \/ ReleaseResponse(c)
  PROVE  IInv'
<1> USE DEF IInv
<1>1. TypeOK' /\ BudgetsKept'
  <2>1. CASE Completed(c)
    <3>1. /\ upload_bytes' \in Int /\ upload_bytes' <= upload_bytes
          /\ response_bytes' \in Int /\ response_bytes' <= response_bytes
      BY <2>1 DEF Completed, TypeOK
    <3>2. /\ at' \in [Connection -> {"none", "open", "suspended", "resumed", "sending",
                                     "closing"}]
          /\ route' \in [Connection -> Route \cup {"none"}]
      BY Zenon, <2>1 DEF Completed, TypeOK, Set
    <3>3. /\ capacity' \in [Connection -> Nat] /\ length' \in [Connection -> Nat]
          /\ response_charge' \in [Connection -> Nat] /\ reply' \in [Connection -> Nat]
      BY SMTT(30), <2>1 DEF Completed, TypeOK, Set
    <3>4. TypeOK'
      BY ZenonT(30), <2>1, <3>1, <3>2, <3>3 DEF Completed, TypeOK, pool
    <3>5. upload_bytes \in Int /\ response_bytes \in Int
      BY DEF TypeOK
    <3>6. BudgetsKept'
      BY <3>1, <3>5, RequestsAssumption DEF BudgetsKept
    <3> QED
      BY <3>4, <3>6
  <2>2. CASE ReleaseResponse(c)
    BY SMTT(30), <2>2, RequestsAssumption
    DEF ReleaseResponse, TypeOK, BudgetsKept, Set, body, pool
  <2> QED
    BY <2>1, <2>2
<1>2. at[c] # "suspended" /\ at'[c] = "none"
  BY DEF Completed, ReleaseResponse, TypeOK, Set
<1>3. \A d \in Connection \ {c} :
        /\ at'[d] = at[d] /\ response_charge'[d] = response_charge[d]
        /\ reply'[d] = reply[d] /\ route'[d] = route[d]
  BY SMTT(30) DEF Completed, ReleaseResponse, TypeOK, Set
<1>4. UNCHANGED <<pool, queue>>
  BY DEF Completed, ReleaseResponse
<1> QED
  BY SMTT(30), <1>1, <1>2, <1>3, <1>4, OthersKept

-----------------------------------------------------------------------------
(* Admission, the workers, start and stop.                                  *)

\* An admitted request is not in the queue yet; it becomes its last entry.
LEMMA AdmitKeeps ==
  ASSUME IInv, NEW c \in Connection, Admit(c)
  PROVE  IInv'
<1> USE DEF IInv
<1>1. /\ at[c] = "open" /\ queue' = Append(queue, c) /\ job' = job
      /\ at' = [at EXCEPT ![c] = "suspended"]
      /\ response_charge' = [response_charge EXCEPT ![c] = Limit(route[c])]
      /\ UNCHANGED <<phase, body, route, reply, held>>
  BY DEF Admit, ForDatabase, Set
<1>2. Limit(route[c]) \in Nat \ {0}
  BY LimitType
<1>3. response_bytes' \in Int /\ response_bytes' <= ResponseBudget
  BY SMTT(30), <1>2, RequestsAssumption DEF Admit, Admissible, TypeOK
<1>4. /\ worker' \in [Worker -> {"absent", "running", "waiting", "dispatching", "finishing",
                                  "exited"}]
      /\ \A w \in Worker : /\ worker'[w] \in {"dispatching", "finishing"}
                              <=> worker[w] \in {"dispatching", "finishing"}
                           /\ worker'[w] = "finishing" => worker[w] = "finishing"
  BY DEF Admit, Broadcast, TypeOK
<1>5. queue \in Seq(Connection) /\ queue' \in Seq(Connection)
  BY <1>1 DEF TypeOK
<1>6. TypeOK'
  BY SMTT(30), <1>1, <1>2, <1>3, <1>4, <1>5 DEF TypeOK, body
<1>7. BudgetsKept'
  BY <1>1, <1>3 DEF BudgetsKept, body
<1>8. /\ Len(queue') = Len(queue) + 1 /\ queue'[Len(queue) + 1] = c /\ Len(queue) \in Nat
      /\ \A i \in 1 .. Len(queue) : queue'[i] = queue[i]
  BY <1>1, <1>5
<1>9. /\ \A i \in 1 .. Len(queue) : queue[i] # c
      /\ \A w \in Worker : job[w] # c
  BY <1>1 DEF SuspendedOwned
<1>10. JobsHeld'
  BY <1>1, <1>4 DEF JobsHeld
<1>11. SuspendedOwned'
  <2>1. \A i, j \in 1 .. Len(queue') : queue'[i] = queue'[j] => i = j
    BY <1>8, <1>9 DEF SuspendedOwned
  <2>2. \A i \in 1 .. Len(queue'), w \in Worker : queue'[i] # job'[w]
    BY SMTT(30), <1>1, <1>8, <1>9 DEF SuspendedOwned
  <2>3. ASSUME NEW d \in Connection
        PROVE  at'[d] = "suspended" <=> \/ \E i \in 1 .. Len(queue') : queue'[i] = d
                                        \/ \E w \in Worker : job'[w] = d
    <3>1. CASE d = c
      <4>1. at'[d] = "suspended"
        BY <1>1, <3>1 DEF TypeOK
      <4>2. Len(queue) + 1 \in 1 .. Len(queue') /\ queue'[Len(queue) + 1] = d
        BY <1>8, <3>1
      <4> QED
        BY <4>1, <4>2
    <3>2. CASE d # c
      <4>1. at'[d] = at[d]
        BY <1>1, <3>2 DEF TypeOK
      <4>2. (\E i \in 1 .. Len(queue') : queue'[i] = d)
              <=> \E i \in 1 .. Len(queue) : queue[i] = d
        BY <1>8, <3>2
      <4> QED
        BY <1>1, <4>1, <4>2 DEF SuspendedOwned
    <3> QED
      BY <3>1, <3>2
  <2> QED
    BY <1>1, <2>1, <2>2, <2>3 DEF SuspendedOwned
<1>12. ChargesFit'
  BY SMTT(30), <1>1, <1>4 DEF ChargesFit, TypeOK, Limit
<1> QED
  BY <1>6, <1>7, <1>10, <1>11, <1>12

\* A worker waits, leaves or takes the head of the queue.
LEMMA WorkerStepKeeps ==
  ASSUME IInv, NEW w \in Worker, WorkerStep(w)
  PROVE  IInv'
<1> USE DEF IInv
<1>1. /\ worker[w] = "running"
      /\ UNCHANGED <<phase, body, response_bytes, at, route, response_charge, reply, held>>
  BY DEF WorkerStep
<1>2. BudgetsKept'
  BY <1>1 DEF BudgetsKept, body
<1>3. job[w] = NoConnection
  BY ZenonT(30), <1>1 DEF JobsHeld, TypeOK
<1>4. CASE queue = << >>
  <2>1. UNCHANGED <<job, queue>> /\ worker' = [worker EXCEPT ![w] = worker'[w]]
        /\ worker'[w] \in {"exited", "waiting"}
    BY <1>1, <1>4 DEF WorkerStep, TypeOK
  <2>2. TypeOK'
    BY ZenonT(30), <1>1, <2>1 DEF TypeOK, body
  <2>3. JobsHeld' /\ ChargesFit'
    BY ZenonT(30), <1>1, <2>1 DEF JobsHeld, ChargesFit, TypeOK, Limit
  <2> QED
    BY <1>1, <1>2, <2>1, <2>2, <2>3 DEF SuspendedOwned
<1>5. CASE queue # << >>
  <2>1. /\ worker' = [worker EXCEPT ![w] = "dispatching"]
        /\ job' = [job EXCEPT ![w] = Head(queue)] /\ queue' = Tail(queue)
    BY <1>5 DEF WorkerStep, Set
  <2>2. /\ queue' \in Seq(Connection) /\ Len(queue) \in Nat \ {0}
        /\ Head(queue) = queue[1] /\ queue[1] \in Connection
        /\ Len(queue') = Len(queue) - 1
        /\ \A i \in 1 .. Len(queue') : queue'[i] = queue[i + 1]
    BY SMTT(30), <1>5, <2>1 DEF TypeOK
  <2>3. TypeOK'
    BY ZenonT(30), <1>1, <2>1, <2>2 DEF TypeOK, body
  <2>4. JobsHeld'
    BY SMTT(30), <2>1, <2>2 DEF JobsHeld, TypeOK
  <2>5. ChargesFit'
    BY <1>1, <2>1 DEF ChargesFit, TypeOK, Limit
  <2>6. SuspendedOwned'
    <3>1. \A i, j \in 1 .. Len(queue') : queue'[i] = queue'[j] => i = j
      BY SMTT(30), <2>2 DEF SuspendedOwned
    <3>2. \A i \in 1 .. Len(queue') : queue'[i] # queue[1]
      BY SMTT(30), <2>2 DEF SuspendedOwned
    <3>3. \A v \in Worker : v # w => job'[v] = job[v] /\ job[v] # queue[1]
      BY <2>1, <2>2 DEF SuspendedOwned, TypeOK
    <3>4. job'[w] = queue[1]
      BY <2>1, <2>2 DEF TypeOK
    <3>5. \A u, v \in Worker : job'[u] = job'[v] /\ job'[u] # NoConnection => u = v
      BY <3>3, <3>4 DEF SuspendedOwned
    <3>6. \A i \in 1 .. Len(queue'), v \in Worker : queue'[i] # job'[v]
      <4>1. SUFFICES ASSUME NEW i \in 1 .. Len(queue'), NEW v \in Worker
                     PROVE  queue'[i] # job'[v]
        OBVIOUS
      <4>2. CASE v = w
        BY <3>2, <3>4, <4>2
      <4>3. CASE v # w
        BY <2>2, <3>3, <4>3 DEF SuspendedOwned
      <4> QED
        BY <4>2, <4>3
    <3>7. ASSUME NEW d \in Connection
          PROVE  at[d] = "suspended" <=> \/ \E i \in 1 .. Len(queue') : queue'[i] = d
                                         \/ \E v \in Worker : job'[v] = d
      <4>0. at[d] = "suspended" <=> \/ \E i \in 1 .. Len(queue) : queue[i] = d
                                    \/ \E v \in Worker : job[v] = d
        BY DEF SuspendedOwned
      <4>1. CASE d = queue[1]
        BY <2>2, <3>4, <4>0, <4>1
      <4>2. CASE d # queue[1]
        <5>1. (\E i \in 1 .. Len(queue') : queue'[i] = d)
                <=> \E i \in 1 .. Len(queue) : queue[i] = d
          <6>1. ASSUME NEW i \in 1 .. Len(queue), queue[i] = d
                PROVE  i - 1 \in 1 .. Len(queue') /\ queue'[i - 1] = d
            BY <2>2, <4>2, <6>1
          <6> QED
            BY SMTT(30), <2>2, <6>1
        <5>2. (\E v \in Worker : job'[v] = d) <=> \E v \in Worker : job[v] = d
          BY <1>3, <3>3, <3>4, <4>2, RequestsAssumption
        <5> QED
          BY <4>0, <5>1, <5>2
      <4> QED
        BY <4>1, <4>2
    <3>8. at' = at
      BY <1>1
    <3> QED
      BY <3>1, <3>5, <3>6, <3>7, <3>8, Zenon DEF SuspendedOwned
  <2> QED
    BY <1>2, <2>3, <2>4, <2>5, <2>6
<1> QED
  BY <1>4, <1>5

\* A worker has the reply: it fits the limit of its route.
LEMMA DispatchKeeps ==
  ASSUME IInv, NEW w \in Worker, NEW n \in Nat, Dispatch(w, n)
  PROVE  IInv'
<1> USE DEF IInv
<1>1. /\ worker[w] = "dispatching" /\ worker' = [worker EXCEPT ![w] = "finishing"]
      /\ reply' = [reply EXCEPT ![job[w]] = FinishLength(job[w], n)]
      /\ UNCHANGED <<phase, job, queue, body, response_bytes, at, route, response_charge,
                     held>>
  BY DEF Dispatch, Set
<1>2. job[w] \in Connection
  BY <1>1 DEF JobsHeld
<1>3. /\ FinishLength(job[w], n) \in Nat
      /\ FinishLength(job[w], n) <= Limit(route[job[w]])
  BY LimitType DEF FinishLength, Small
<1>4. TypeOK' /\ BudgetsKept'
  BY SMTT(30), <1>1, <1>2, <1>3 DEF TypeOK, BudgetsKept, body
<1>5. JobsHeld'
  BY <1>1 DEF JobsHeld, TypeOK
<1>6. SuspendedOwned'
  BY <1>1 DEF SuspendedOwned
<1>7. at[job[w]] = "suspended"
  BY <1>2 DEF SuspendedOwned
<1>8. ChargesFit'
  <2>1. \A c \in Connection : at[c] = "resumed" => reply'[c] = reply[c]
    BY <1>1, <1>2, <1>7 DEF TypeOK
  <2>2. \A v \in Worker : v # w /\ worker[v] = "finishing" => job[v] # job[w]
    BY SMTT(30), <1>2, RequestsAssumption DEF SuspendedOwned
  <2>3. \A v \in Worker : worker[v] = "finishing" => job[v] \in Connection
    BY SMTT(30) DEF JobsHeld
  <2>4. ASSUME NEW v \in Worker, worker'[v] = "finishing"
        PROVE  reply'[job[v]] <= Limit(route[job[v]])
    <3>1. CASE v = w
      BY <1>1, <1>2, <1>3, <3>1 DEF TypeOK
    <3>2. CASE v # w
      <4>1. worker[v] = "finishing"
        BY <1>1, <2>4, <3>2 DEF TypeOK
      <4>2. reply'[job[v]] = reply[job[v]]
        BY <1>1, <2>2, <2>3, <3>2, <4>1 DEF TypeOK
      <4> QED
        BY SMTT(30), <4>1, <4>2 DEF ChargesFit
    <3> QED
      BY <3>1, <3>2
  <2> QED
    BY <1>1, <2>1, <2>4 DEF ChargesFit, Limit
<1> QED
  BY <1>4, <1>5, <1>6, <1>8

\* A worker refunds what the reply leaves and resumes the connection.
LEMMA FinishKeeps ==
  ASSUME IInv, NEW w \in Worker, Finish(w)
  PROVE  IInv'
<1> USE DEF IInv
<1>0. PICK c : c = job[w]
  OBVIOUS
<1>1. /\ worker[w] = "finishing" /\ worker' = [worker EXCEPT ![w] = "running"]
      /\ job' = [job EXCEPT ![w] = NoConnection]
      /\ response_bytes' = response_bytes - (response_charge[c] - reply[c])
      /\ response_charge' = [response_charge EXCEPT ![c] = reply[c]]
      /\ at' = [at EXCEPT ![c] = "resumed"]
      /\ UNCHANGED <<phase, queue, body, route, reply, held>>
  BY <1>0 DEF Finish, Set
<1>2. c \in Connection
  BY <1>0, <1>1 DEF JobsHeld
<1>3. at[c] = "suspended"
  BY SMTT(30), <1>0, <1>2 DEF SuspendedOwned
<1>4. reply[c] \in Nat /\ response_charge[c] \in Nat /\ reply[c] <= response_charge[c]
      /\ response_bytes \in Int
  BY <1>0, <1>1, <1>2, <1>3 DEF ChargesFit, TypeOK
<1>5. response_bytes' \in Int /\ response_bytes' <= response_bytes
  BY <1>1, <1>4
<1>6. TypeOK'
  BY SMTT(30), <1>1, <1>2, <1>4, <1>5 DEF TypeOK, body
<1>7. BudgetsKept'
  BY <1>1, <1>4, <1>5, RequestsAssumption DEF BudgetsKept, body
<1>8. \A v \in Worker : v # w => job'[v] = job[v] /\ job[v] # c
  BY <1>0, <1>1, <1>2, RequestsAssumption DEF SuspendedOwned, TypeOK
<1>9. job'[w] = NoConnection /\ NoConnection \notin Connection
  BY <1>1, RequestsAssumption DEF TypeOK
<1>10. JobsHeld'
  BY <1>1, <1>8, <1>9 DEF JobsHeld, TypeOK
<1>11. ChargesFit'
  <2>1. \A d \in Connection : at'[d] = "suspended" => d # c /\ at[d] = "suspended"
    BY <1>1, <1>2 DEF TypeOK
  <2>2. \A d \in Connection \ {c} : response_charge'[d] = response_charge[d] /\ at'[d] = at[d]
    BY <1>1 DEF TypeOK
  <2>3. response_charge'[c] = reply[c]
    BY <1>1, <1>2 DEF TypeOK
  <2>4. \A v \in Worker : worker'[v] = "finishing" => worker[v] = "finishing" /\ v # w
    BY <1>1 DEF TypeOK
  <2> QED
    BY <1>1, <1>8, <2>1, <2>2, <2>3, <2>4 DEF ChargesFit, Limit
<1>12. SuspendedOwned'
  <2>1. \A u, v \in Worker : job'[u] = job'[v] /\ job'[u] # NoConnection => u = v
    BY SMTT(30), <1>8, <1>9 DEF SuspendedOwned
  <2>2. \A i \in 1 .. Len(queue) : queue[i] \in Connection
    BY DEF TypeOK
  <2>3. \A i \in 1 .. Len(queue), v \in Worker : queue[i] # job'[v]
    BY <1>8, <1>9, <2>2 DEF SuspendedOwned
  <2>4. ASSUME NEW d \in Connection
        PROVE  at'[d] = "suspended" <=> \/ \E i \in 1 .. Len(queue) : queue[i] = d
                                        \/ \E v \in Worker : job'[v] = d
    <3>0. at[d] = "suspended" <=> \/ \E i \in 1 .. Len(queue) : queue[i] = d
                                  \/ \E v \in Worker : job[v] = d
      BY DEF SuspendedOwned
    <3>1. CASE d = c
      <4>1. at'[d] # "suspended"
        BY <1>1, <3>1 DEF TypeOK
      <4>2. \A i \in 1 .. Len(queue) : queue[i] # d
        BY SMTT(30), <1>0, <3>1 DEF SuspendedOwned
      <4>3. \A v \in Worker : job'[v] # d
        BY <1>8, <1>9, <3>1
      <4> QED
        BY <4>1, <4>2, <4>3
    <3>2. CASE d # c
      <4>1. at'[d] = at[d]
        BY <1>1, <3>2 DEF TypeOK
      <4>2. (\E v \in Worker : job'[v] = d) <=> \E v \in Worker : job[v] = d
        BY <1>0, <1>8, <1>9, <3>2
      <4> QED
        BY <3>0, <4>1, <4>2
    <3> QED
      BY <3>1, <3>2
  <2> QED
    BY <1>1, <2>1, <2>3, <2>4 DEF SuspendedOwned
<1> QED
  BY <1>6, <1>7, <1>10, <1>11, <1>12

\* Starting and stopping touch no request.
LEMMA StartStopKeeps ==
  ASSUME IInv,
         Ready \/ Stop \/ StopThread \/ \E w \in Worker : StartWorker(w)
  PROVE  IInv'
<1> USE DEF IInv
<1>1. /\ UNCHANGED <<job, requests>>
      /\ phase' \in {"starting", "ready", "joining", "closing", "stopped"}
  BY DEF Ready, Stop, StopThread, StopDaemon, Stopped, StartWorker, pool, TypeOK
<1>2. /\ worker' \in [Worker -> {"absent", "running", "waiting", "dispatching", "finishing",
                                  "exited"}]
      /\ \A w \in Worker : /\ worker'[w] \in {"dispatching", "finishing"}
                              <=> worker[w] \in {"dispatching", "finishing"}
                           /\ worker'[w] = "finishing" => worker[w] = "finishing"
  BY ZenonT(30)
  DEF Ready, Stop, StopThread, StopDaemon, Stopped, StartWorker, pool, Broadcast, Set, TypeOK
<1>3. TypeOK' /\ BudgetsKept'
  BY <1>1, <1>2 DEF TypeOK, BudgetsKept, requests, body
<1>4. JobsHeld' /\ SuspendedOwned' /\ ChargesFit'
  BY SMTT(30), <1>1, <1>2 DEF JobsHeld, SuspendedOwned, ChargesFit, requests, Limit
<1> QED
  BY <1>3, <1>4

-----------------------------------------------------------------------------
\* The invariant holds initially.
LEMMA InitHolds == Init => IInv
  BY RequestsAssumption
  DEF Init, IInv, TypeOK, JobsHeld, SuspendedOwned, ChargesFit, BudgetsKept

\* Every step keeps it.
LEMMA NextKeeps == IInv /\ [Next]_vars => IInv'
<1> SUFFICES ASSUME IInv, [Next]_vars PROVE IInv'
  OBVIOUS
<1>1. CASE UNCHANGED vars
  BY SMTT(30), <1>1 DEF vars, body, pool, IInv, TypeOK, JobsHeld, SuspendedOwned, ChargesFit,
              BudgetsKept, Limit
<1>2. ASSUME NEW c \in Connection, HttpThread(c) PROVE IInv'
  BY <1>2, RefuseKeeps, AcceptKeeps, UploadKeeps, AnswersKeep, AdmitKeeps, EndKeeps
  DEF HttpThread
<1>3. ASSUME NEW w \in Worker, WorkerThread(w) PROVE IInv'
  <2>1. \A n \in 0 .. ReplyLimit + 1 : n \in Nat
    BY RequestsAssumption
  <2> QED
    BY <1>3, <2>1, WorkerStepKeeps, DispatchKeeps, FinishKeeps DEF WorkerThread
<1>4. ASSUME Ready \/ Stop \/ StopThread \/ \E w \in Worker : StartWorker(w) PROVE IInv'
  BY <1>4, StartStopKeeps
<1> QED
  BY <1>1, <1>2, <1>3, <1>4 DEF Next

\* The inductive invariant, in every reachable state.
LEMMA Invariant == Spec => []IInv
  BY InitHolds, NextKeeps, PTL DEF Spec

\* A suspended request has one owner, for any number of clients and workers: the
\* queue or one worker, neither of which holds anything else (server.c, worker).
THEOREM OwnedAlways == Spec => []SuspendedOwned
<1>1. IInv => SuspendedOwned
  BY DEF IInv
<1> QED
  BY <1>1, Invariant, PTL

\* Neither budget is ever exceeded, whatever its size, the limits and the number of
\* clients (server.c, reserve_body, send_reply, access_request, worker).
THEOREM BudgetsAlwaysKept == Spec => []BudgetsKept
<1>1. IInv => BudgetsKept
  BY DEF IInv
<1> QED
  BY <1>1, Invariant, PTL

\* The reply of a request that was dispatched always has room (server.c, worker).
THEOREM AnswerAlwaysHasRoom == Spec => []AnswerHasRoom
<1>1. IInv => AnswerHasRoom
  BY RequestsAssumption DEF IInv, AnswerHasRoom, Room, ChargesFit, BudgetsKept, TypeOK
<1> QED
  BY <1>1, Invariant, PTL
=============================================================================
