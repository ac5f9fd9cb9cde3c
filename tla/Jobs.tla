-------------------------------- MODULE Jobs --------------------------------
(***************************************************************************)
(* Background jobs of the server: a table of slots, a thread for each job  *)
(* that runs, cancellation and shutdown.  Source: src/server/jobs.c.       *)
(*                                                                         *)
(* Callers are the HTTP workers.  A call that starts a job keeps the mutex *)
(* while it joins the slot's old thread, creates the table and the thread; *)
(* every other critical section is one action.  Threads are named by the   *)
(* job's ID, so that a thread outlives the record of its job if the code   *)
(* lets it.  Time is left out: a deadline may have passed at any moment,   *)
(* and late holds the running jobs whose whole duration has passed.        *)
(***************************************************************************)
EXTENDS Integers, FiniteSets

CONSTANTS
  Caller,          \* the threads that call the job functions
  History,         \* WADB_JOB_HISTORY
  Concurrency,     \* WADB_JOB_CONCURRENCY
  MaxId,           \* UINT64_MAX for job IDs
  Target,          \* bound: the batches a generator has to append
  None             \* not a caller

ASSUME JobsAssumption ==
  /\ History \in Nat \ {0} /\ Concurrency \in Nat \ {0} /\ MaxId \in Nat \ {0}
  /\ Concurrency <= History /\ Target \in Nat /\ None \notin Caller

VARIABLES
  slots,           \* the array of jobs
  next_id, stopping,
  holder,          \* the caller that keeps the mutex, or None
  call,            \* of each caller: where it is, and its slot and kind
  thread,          \* of each job ID: where its thread is, its slot and status
  late,            \* the jobs that have used up their time
  closing,         \* wadb_jobs_close: the next slot to look at; 0 before
  asked,           \* observation: the IDs given to wadb_job_stop
  appended         \* observation: the batches each job's appends committed

vars == <<slots, next_id, stopping, holder, call, thread, late, closing, asked,
          appended>>

-----------------------------------------------------------------------------
Slot == 1 .. History
Id == 1 .. MaxId
Kind == {"GENERATOR", "INTEGRITY"}
JobState == {"STARTING", "RUNNING", "COMPLETE", "STOPPED", "FAILED"}

\* A slot after memset: ID 0 is no job, and 0 is the state STARTING.
Empty == [id |-> 0, state |-> "STARTING", kind |-> "GENERATOR",
          joinable |-> FALSE, cancelled |-> FALSE, committed |-> 0]

NoCall == [pc |-> "idle", slot |-> 0, kind |-> "GENERATOR"]
NoThread == [pc |-> "none", slot |-> 0, status |-> "OK"]

Active(j) == j.id # 0 /\ j.state \in {"STARTING", "RUNNING"}
Free == holder = None
Closed == closing = History + 1
Cancelled(x) == stopping \/ slots[thread[x].slot].cancelled

-----------------------------------------------------------------------------
(* Starting a job: reserve, start and their callers.                       *)

Reusable == {i \in Slot : ~Active(slots[i])}

Running == {i \in Slot : Active(slots[i])}

\* The first slot with the lowest ID, 0 being a slot that was never used.
Oldest(s) ==
  CHOOSE i \in s : \A k \in s : \/ slots[i].id < slots[k].id
                                \/ slots[i].id = slots[k].id /\ i <= k

Full == Cardinality(Running) >= Concurrency

\* The call takes the mutex and looks for a slot.  A refusal
\* (WADB_BACKPRESSURE) changes nothing and is not a step.
Reserve(c, kind) ==
  /\ closing = 0 /\ Free /\ call[c].pc = "idle"
  /\ ~stopping /\ ~Full /\ Reusable # {} /\ next_id # 0
  /\ holder' = c
  /\ call' = [call EXCEPT ![c] = [pc |-> "join", slot |-> Oldest(Reusable),
                                  kind |-> kind]]
  /\ UNCHANGED <<slots, next_id, stopping, thread, late, closing, asked,
                 appended>>

Reset(old) == [Empty EXCEPT !.id = next_id]

\* Mutant: the old thread is not joined.
JoinOldSkipped(c) ==
  LET i == call[c].slot IN
  /\ call[c].pc = "join"
  /\ slots' = [slots EXCEPT ![i] = [Reset(slots[i]) EXCEPT !.kind = call[c].kind]]
  /\ next_id' = (next_id + 1) % (MaxId + 1)
  /\ call' = [call EXCEPT ![c].pc = "launch"]
  /\ UNCHANGED <<stopping, holder, thread, late, closing, asked, appended>>

\* The slot's last thread is joined, and the slot cleared for the new job.
JoinOld(c) ==
  LET i == call[c].slot
      old == slots[i].id IN
  /\ call[c].pc = "join"
  /\ \/ slots[i].joinable /\ thread[old].pc = "exited"
        /\ thread' = [thread EXCEPT ![old].pc = "joined"]
     \/ ~slots[i].joinable /\ UNCHANGED thread
  /\ slots' = [slots EXCEPT ![i] = [Reset(slots[i]) EXCEPT !.kind = call[c].kind]]
  /\ next_id' = (next_id + 1) % (MaxId + 1)
  /\ call' = [call EXCEPT ![c].pc = "launch"]
  /\ UNCHANGED <<stopping, holder, late, closing, asked, appended>>

\* pthread_create; the mutex is released with the return of the call.
Launch(c) ==
  LET i == call[c].slot
      x == slots[i].id IN
  /\ call[c].pc = "launch"
  /\ slots' = [slots EXCEPT ![i].joinable = TRUE]
  /\ thread' = [thread EXCEPT ![x] = [pc |-> "created", slot |-> i,
                                      status |-> "OK"]]
  /\ call' = [call EXCEPT ![c] = NoCall] /\ holder' = None
  /\ UNCHANGED <<next_id, stopping, late, closing, asked, appended>>

\* Mutant: the slot is marked joinable before the thread exists.
LaunchFailsJoinable(c) ==
  /\ call[c].pc = "launch"
  /\ slots' = [slots EXCEPT ![call[c].slot].state = "FAILED",
                            ![call[c].slot].joinable = TRUE]
  /\ call' = [call EXCEPT ![c] = NoCall] /\ holder' = None
  /\ UNCHANGED <<next_id, stopping, thread, late, closing, asked, appended>>

\* The table or the thread cannot be created: a failed job is recorded.
LaunchFails(c) ==
  /\ call[c].pc = "launch"
  /\ slots' = [slots EXCEPT ![call[c].slot].state = "FAILED"]
  /\ call' = [call EXCEPT ![c] = NoCall] /\ holder' = None
  /\ UNCHANGED <<next_id, stopping, thread, late, closing, asked, appended>>

\* wadb_job_stop, for a job that is still recorded.
StopJob(x) ==
  /\ closing = 0 /\ Free /\ \E c \in Caller : call[c].pc = "idle"
  /\ \E i \in Slot :
       slots[i].id = x /\ slots' = [slots EXCEPT ![i].cancelled = TRUE]
  /\ asked' = asked \cup {x}
  /\ UNCHANGED <<next_id, stopping, holder, call, thread, late, closing,
                 appended>>

-----------------------------------------------------------------------------
(* The thread of job x: run, generate, and the checks of an integrity job. *)

Goto(x, label) ==
  /\ thread' = [thread EXCEPT ![x].pc = label]
  /\ UNCHANGED <<next_id, stopping, holder, call, late, closing, asked>>

Finish(x, status) ==
  /\ thread' = [thread EXCEPT ![x].pc = "end", ![x].status = status]
  /\ UNCHANGED <<next_id, stopping, holder, call, late, closing, asked>>

IsKind(x, kind) == slots[thread[x].slot].kind = kind

RunBegin(x) ==
  /\ thread[x].pc = "created" /\ Free
  /\ slots' = [slots EXCEPT ![thread[x].slot].state = "RUNNING"]
  /\ Goto(x, "loop")
  /\ UNCHANGED appended

\* The head of the loop of generate.
GenerateLoop(x) ==
  /\ thread[x].pc = "loop" /\ IsKind(x, "GENERATOR") /\ Free
  /\ IF slots[thread[x].slot].committed < Target /\ ~Cancelled(x)
     THEN Goto(x, "wait") ELSE Finish(x, "OK")
  /\ UNCHANGED <<slots, appended>>

\* Mutant: a job that falls behind goes on until it reaches its target.
GenerateWaitOn(x) ==
  /\ thread[x].pc = "wait" /\ Free
  /\ IF Cancelled(x) THEN Finish(x, "OK") ELSE Goto(x, "append")
  /\ UNCHANGED <<slots, appended>>

\* wait_until returns when the batch is due or the job has to stop; a job
\* whose time is over appends no more.
GenerateWait(x) ==
  /\ thread[x].pc = "wait" /\ Free
  /\ IF Cancelled(x) \/ x \in late THEN Finish(x, "OK") ELSE Goto(x, "append")
  /\ UNCHANGED <<slots, appended>>

\* wadb_append_batch commits the batch.
GenerateAppend(x) ==
  /\ thread[x].pc = "append"
  /\ appended' = [appended EXCEPT ![x] = @ + 1]
  /\ Goto(x, "record")
  /\ UNCHANGED slots

\* Mutant: a cancelled job leaves without counting its last batch.
GenerateRecordSkipped(x) ==
  /\ thread[x].pc = "record" /\ Free
  /\ \/ ~Cancelled(x) /\ Goto(x, "loop")
        /\ slots' = [slots EXCEPT ![thread[x].slot].committed = @ + 1]
     \/ Cancelled(x) /\ Finish(x, "OK") /\ UNCHANGED slots
  /\ UNCHANGED appended

GenerateRecord(x) ==
  /\ thread[x].pc = "record" /\ Free
  /\ slots' = [slots EXCEPT ![thread[x].slot].committed = @ + 1]
  /\ Goto(x, "loop")
  /\ UNCHANGED appended

\* wadb_append_batch is refused, and tried again later, or fails.
GenerateRefused(x) ==
  /\ thread[x].pc = "append" /\ Free
  /\ Goto(x, "backoff") \/ Finish(x, "FAIL")
  /\ UNCHANGED <<slots, appended>>

GenerateBackoff(x) ==
  /\ thread[x].pc = "backoff" /\ Free
  /\ IF Cancelled(x) THEN Finish(x, "OK") ELSE Goto(x, "loop")
  /\ UNCHANGED <<slots, appended>>

\* wadb_integrity_check asks between frames whether to go on, and ends when
\* it is cancelled, late, done, or meets a failure.
Check(x) ==
  /\ thread[x].pc = "loop" /\ IsKind(x, "INTEGRITY") /\ Free
  /\ \/ Cancelled(x) /\ Finish(x, "CANCELLED")
     \/ ~Cancelled(x) /\ x \in late /\ Finish(x, "FAIL")
     \/ ~Cancelled(x) /\ x \notin late /\ \E s \in {"OK", "FAIL"} : Finish(x, s)
  /\ UNCHANGED <<slots, appended>>

\* The verdict on a job that ended with a status.
Verdict(x) ==
  CASE thread[x].status = "FAIL" -> "FAILED"
    [] thread[x].status = "CANCELLED" \/ Cancelled(x) -> "STOPPED"
    [] OTHER -> "COMPLETE"

RunEnd(x) ==
  /\ thread[x].pc = "end" /\ Free
  /\ slots' = [slots EXCEPT ![thread[x].slot].state = Verdict(x)]
  /\ thread' = [thread EXCEPT ![x].pc = "returning", ![x].status = "OK"]
  /\ late' = late \ {x}
  /\ UNCHANGED <<next_id, stopping, holder, call, closing, asked, appended>>

\* Mutant: the thread takes the mutex once more after it has recorded its end.
ThreadExitLocked(x) ==
  /\ thread[x].pc = "returning" /\ Free
  /\ Goto(x, "exited")
  /\ UNCHANGED <<slots, appended>>

ThreadExit(x) ==
  /\ thread[x].pc = "returning"
  /\ Goto(x, "exited")
  /\ UNCHANGED <<slots, appended>>

\* The job's duration, or its timeout, passes.
TimePasses(x) ==
  /\ thread[x].pc \in {"loop", "wait", "append", "record", "backoff"}
  /\ x \notin late
  /\ late' = late \cup {x}
  /\ UNCHANGED <<slots, next_id, stopping, holder, call, thread, closing, asked,
                 appended>>

-----------------------------------------------------------------------------
(* wadb_jobs_close.  Callers finish their calls before it.                 *)

Close ==
  /\ closing = 0 /\ \A c \in Caller : call[c].pc = "idle"
  /\ stopping' = TRUE /\ closing' = 1
  /\ UNCHANGED <<slots, next_id, holder, call, thread, late, asked, appended>>

CloseJoin ==
  /\ closing \in Slot
  /\ \/ /\ slots[closing].joinable /\ thread[slots[closing].id].pc = "exited"
        /\ thread' = [thread EXCEPT ![slots[closing].id].pc = "joined"]
     \/ ~slots[closing].joinable /\ UNCHANGED thread
  /\ closing' = closing + 1
  /\ UNCHANGED <<slots, next_id, stopping, holder, call, late, asked, appended>>

-----------------------------------------------------------------------------
Init ==
  /\ slots = [i \in Slot |-> Empty]
  /\ next_id = 1 /\ stopping = FALSE /\ holder = None
  /\ call = [c \in Caller |-> NoCall]
  /\ thread = [x \in Id |-> NoThread]
  /\ late = {} /\ closing = 0 /\ asked = {}
  /\ appended = [x \in Id |-> 0]

CallStep(c) == JoinOld(c) \/ Launch(c) \/ LaunchFails(c)

ThreadStep(x) ==
  \/ RunBegin(x) \/ GenerateLoop(x) \/ GenerateWait(x) \/ GenerateAppend(x)
  \/ GenerateRecord(x) \/ GenerateRefused(x) \/ GenerateBackoff(x)
  \/ Check(x) \/ RunEnd(x) \/ ThreadExit(x)

Next ==
  \/ \E c \in Caller, k \in Kind : Reserve(c, k)
  \/ \E c \in Caller : CallStep(c)
  \/ \E x \in Id : StopJob(x) \/ ThreadStep(x) \/ TimePasses(x)
  \/ Close \/ CloseJoin

Spec == Init /\ [][Next]_vars

\* Threads and calls that can run do, and time passes.  The mutex is kept by
\* calls that start jobs only, which are as many as there are IDs.
Fairness ==
  /\ \A c \in Caller : WF_vars(CallStep(c))
  /\ \A x \in Id : WF_vars(ThreadStep(x)) /\ WF_vars(TimePasses(x))
  /\ WF_vars(CloseJoin)

FairSpec == Spec /\ Fairness

-----------------------------------------------------------------------------
(* Properties.                                                             *)

\* Type invariant of the slots, the calls and the threads.
TypeOK ==
  /\ slots \in [Slot -> [id : 0 .. MaxId, state : JobState, kind : Kind,
                         joinable : BOOLEAN, cancelled : BOOLEAN,
                         committed : 0 .. Target]]
  /\ next_id \in 0 .. MaxId /\ stopping \in BOOLEAN
  /\ holder \in Caller \cup {None}
  /\ call \in [Caller -> [pc : {"idle", "join", "launch"}, slot : 0 .. History,
                          kind : Kind]]
  /\ thread \in [Id -> [pc : {"none", "created", "loop", "wait", "append",
                              "record", "backoff", "end", "returning", "exited",
                              "joined"},
                        slot : 0 .. History,
                        status : {"OK", "FAIL", "CANCELLED"}]]
  /\ late \subseteq Id /\ closing \in 0 .. History + 1 /\ asked \subseteq Id
  /\ appended \in [Id -> 0 .. Target]

\* A thread finds its own job in its slot for as long as it may touch it
\* (reserve joins before it clears the slot).
RecordOutlivesThread ==
  \A x \in Id : thread[x].pc \notin {"none", "exited", "joined"} =>
                  slots[thread[x].slot].id = x

\* What a finished job reports is what it did: the rows it counts are those its
\* appends committed, whatever refusals and cancellations came between, and it
\* reports that it was stopped only if somebody asked for it, not because of a
\* request that was meant for an earlier job of the slot (generate, reserve).
ReportsTrue ==
  \A i \in Slot : slots[i].id # 0 /\ ~Active(slots[i]) =>
    /\ slots[i].committed = appended[slots[i].id]
    /\ slots[i].state = "STOPPED" => slots[i].id \in asked \/ stopping

\* A call that starts a job returns although it joins a thread with the mutex
\* held: the thread it waits for needs the mutex no more (reserve).
StartReturns == \A c \in Caller : (call[c].pc # "idle") ~> (call[c].pc = "idle")

\* Every job ends, even if its appends are refused for ever (generate).
JobsEnd == \A x \in Id : (thread[x].pc = "created") ~> (thread[x].pc = "exited")

\* Shutdown ends, and then every thread has been joined: none uses the mutex that
\* is freed next, whichever slots were reused before (wadb_jobs_close, reserve).
CloseReturns ==
  (closing = 1) ~> (Closed /\ \A x \in Id : thread[x].pc \in {"none", "joined"})

\* Nobody waits for ever: not the call that starts a job, not the job, not the
\* shutdown (wadb_jobs_start, generate, wadb_jobs_close).
EverythingEnds == StartReturns /\ JobsEnd /\ CloseReturns
=============================================================================
