----------------------------- MODULE JobsProofs -----------------------------
(***************************************************************************)
(* Proofs about the job slots: a thread never loses its record, and what a *)
(* job reports is what it did, for any number of callers, slots and IDs.   *)
(***************************************************************************)
EXTENDS Jobs, TLAPS, WellFoundedInduction

Job == [id : 0 .. MaxId, state : JobState, kind : Kind, joinable : BOOLEAN,
        cancelled : BOOLEAN, committed : Nat]
Thread == [pc : {"none", "created", "loop", "wait", "append", "record", "backoff",
                 "end", "returning", "exited", "joined"},
           slot : 0 .. History, status : {"OK", "FAIL", "CANCELLED"}]

\* A thread that may still touch its slot, and a batch that is not yet recorded.
Live == {"created", "loop", "wait", "append", "record", "backoff", "end", "returning"}
Pending(t) == IF t.pc = "record" THEN 1 ELSE 0

Types ==
  /\ slots \in [Slot -> Job] /\ next_id \in 0 .. MaxId /\ stopping \in BOOLEAN
  /\ call \in [Caller -> [pc : {"idle", "join", "launch"}, slot : 0 .. History,
                          kind : Kind]]
  /\ thread \in [Id -> Thread] /\ appended \in [Id -> Nat]

\* A call that starts a job has the mutex; the slot it is about to clear is not
\* in use, and the one it has cleared has no thread yet.
CallsHold ==
  \A c \in Caller : call[c].pc # "idle" =>
    /\ holder = c /\ call[c].slot \in Slot
    /\ call[c].pc = "join" => ~Active(slots[call[c].slot]) /\ next_id # 0
    /\ call[c].pc = "launch" => /\ slots[call[c].slot].id # 0
                                /\ ~slots[call[c].slot].joinable
                                /\ slots[call[c].slot].state = "STARTING"

\* No two slots have the same job, and the next ID was never used.
IdsDiffer ==
  /\ \A i, k \in Slot : slots[i].id # 0 /\ slots[i].id = slots[k].id => i = k
  /\ next_id # 0 => /\ \A i \in Slot : slots[i].id < next_id
                    /\ \A x \in Id : x >= next_id => appended[x] = 0

\* The slot of a thread: its own, to be joined, and in use until the thread has
\* recorded its end.
Recorded(x) ==
  thread[x].pc \in Live =>
    /\ thread[x].slot \in Slot /\ slots[thread[x].slot].id = x
    /\ slots[thread[x].slot].joinable
    /\ thread[x].pc # "returning" => Active(slots[thread[x].slot])
    /\ thread[x].status = "CANCELLED" => x \in asked \/ stopping
ThreadsRecorded == \A x \in Id : Recorded(x)

\* A slot counts the batches of its job but one that is being recorded, and is
\* cancelled or stopped on request only.
Reports(i) ==
  slots[i].id # 0 =>
    /\ slots[i].committed + Pending(thread[slots[i].id]) = appended[slots[i].id]
    /\ slots[i].cancelled => slots[i].id \in asked
    /\ slots[i].state = "STOPPED" => slots[i].id \in asked \/ stopping
SlotsReport == \A i \in Slot : Reports(i)

IInv == Types /\ CallsHold /\ IdsDiffer /\ ThreadsRecorded /\ SlotsReport

-----------------------------------------------------------------------------
\* IDs go on by one, or have run out.
LEMMA NextIdIs ==
  ASSUME NEW n \in 1 .. MaxId
  PROVE  (n + 1) % (MaxId + 1) \in {0, n + 1}
<1> USE JobsAssumption
<1>1. PICK b \in Nat \ {0}, a \in Nat : b = MaxId + 1 /\ a = n + 1 /\ a <= b
  OBVIOUS
<1>2. PICK q \in Int, r \in Int : q = a \div b /\ r = a % b
  BY <1>1
<1>3. a = b * q + r /\ r >= 0 /\ r < b
  BY <1>1, <1>2
<1>4. q >= 0
  <2>1. q <= -1 => b * q <= -b
    BY <1>1, <1>2
  <2> QED
    BY <1>1, <1>2, <1>3, <2>1
<1>5. q <= 1
  <2>1. q >= 2 => b * q >= b + b
    BY <1>1, <1>2
  <2> QED
    BY <1>1, <1>2, <1>3, <2>1
<1>6. q = 0 => r = a
  BY <1>1, <1>2, <1>3
<1>7. q = 1 => r = 0
  BY <1>1, <1>2, <1>3
<1> QED
  BY <1>1, <1>2, <1>4, <1>5, <1>6, <1>7

\* A step of the thread of job x, which makes the thread t, its slot i the record r
\* and the number of its batches a.
OwnStep(x, i, r, t, a) ==
  /\ thread[x].pc \in Live /\ i = thread[x].slot
  /\ slots' = [slots EXCEPT ![i] = r] /\ thread' = [thread EXCEPT ![x] = t]
  /\ appended' = [appended EXCEPT ![x] = a]
  /\ UNCHANGED <<next_id, stopping, holder, call, asked>>
  /\ r.id = x /\ r.joinable = slots[i].joinable /\ r.cancelled = slots[i].cancelled
  /\ Active(r) => Active(slots[i])
  /\ t.slot = i
  /\ t.pc \in Live \ {"returning"} => Active(r)
  /\ t.status = "CANCELLED" => x \in asked \/ stopping
  /\ r.state = "STOPPED" => x \in asked \/ stopping
  /\ r.committed + Pending(t) = a

\* Such a step keeps the invariant: it is the thread's own slot that it changes.
LEMMA ThreadKeeps ==
  ASSUME IInv, NEW x \in Id, NEW i \in Slot, NEW r \in Job, NEW t \in Thread,
         NEW a \in Nat, OwnStep(x, i, r, t, a)
  PROVE  IInv'
<1> USE DEF OwnStep
<1>1. Types /\ CallsHold /\ IdsDiffer /\ ThreadsRecorded /\ SlotsReport
  BY DEF IInv
<1>2. slots[i].id = x /\ slots[i].joinable /\ x # 0
  BY <1>1, JobsAssumption DEF ThreadsRecorded, Recorded, Id
<1>3. Types'
  BY <1>1 DEF Types
<1>4. /\ slots'[i] = r /\ thread'[x] = t /\ appended'[x] = a
      /\ \A k \in Slot \ {i} : slots'[k] = slots[k]
      /\ \A y \in Id \ {x} : thread'[y] = thread[y] /\ appended'[y] = appended[y]
  BY <1>1 DEF Types
<1>5. \A k \in Slot : slots'[k].id = slots[k].id /\ slots'[k].joinable = slots[k].joinable
  BY ZenonT(30), <1>2, <1>4
<1>6. CallsHold'
  <2> SUFFICES ASSUME NEW c \in Caller, call[c].pc # "idle"
               PROVE  /\ holder = c /\ call[c].slot \in Slot
                      /\ call[c].pc = "join" => ~Active(slots'[call[c].slot]) /\ next_id # 0
                      /\ call[c].pc = "launch" => /\ slots'[call[c].slot].id # 0
                                                  /\ ~slots'[call[c].slot].joinable
                                                  /\ slots'[call[c].slot].state = "STARTING"
    BY Zenon DEF CallsHold, Active
  <2>1. CASE call[c].slot = i
    BY <1>1, <1>2, <1>4, <2>1 DEF CallsHold
  <2>2. CASE call[c].slot # i
    BY <1>1, <1>4, <2>2 DEF CallsHold
  <2> QED
    BY <2>1, <2>2
<1>7. IdsDiffer'
  <2>1. next_id # 0 => x < next_id
    BY <1>1, <1>2 DEF IdsDiffer
  <2>2. \A y \in Id : next_id # 0 /\ y >= next_id => y # x
    BY <1>1, <2>1 DEF Types, Id
  <2> QED
    BY <1>1, <1>4, <1>5, <2>2 DEF IdsDiffer
<1>8. ASSUME NEW y \in Id
      PROVE  Recorded(y)'
  <2>1. CASE y = x
    <3>1. slots'[i].id = x /\ slots'[i].joinable
      BY <1>2, <1>5
    <3>2. t.pc \in Live /\ t.pc # "returning" => Active(slots'[i])
      BY <1>4, Zenon
    <3>3. t.status = "CANCELLED" => x \in asked' \/ stopping'
      BY Zenon
    <3>4. thread'[x] = t /\ t.slot = i
      BY <1>4
    <3> QED
      BY <2>1, <3>1, <3>2, <3>3, <3>4 DEF Recorded
  <2>2. CASE y # x
    <3>1. thread[y].pc \in Live => thread[y].slot # i
      BY <1>1, <1>2, <2>2 DEF ThreadsRecorded, Recorded
    <3>2. Recorded(y)
      BY <1>1 DEF ThreadsRecorded
    <3> QED
      BY <1>4, <2>2, <3>1, <3>2 DEF Recorded, Active
  <2> QED
    BY <2>1, <2>2
<1>9. ASSUME NEW k \in Slot
      PROVE  Reports(k)'
  <2>1. CASE k = i
    BY <1>1, <1>2, <1>4, <2>1 DEF SlotsReport, Reports, Pending
  <2>2. CASE k # i
    <3>1. slots[k].id # 0 => slots[k].id \in Id /\ slots[k].id # x
      BY <1>1, <1>2, <2>2 DEF IdsDiffer, Types, Job, Id
    <3>2. Reports(k)
      BY <1>1 DEF SlotsReport
    <3> QED
      BY <1>4, <2>2, <3>1, <3>2 DEF Reports, Pending
  <2> QED
    BY <2>1, <2>2
<1> QED
  BY <1>3, <1>6, <1>7, <1>8, <1>9 DEF IInv, ThreadsRecorded, SlotsReport

\* A step of a thread that changes nothing but the thread.
LEMMA QuietKeeps ==
  ASSUME IInv, NEW x \in Id, NEW t \in Thread, thread[x].pc \in Live,
         thread' = [thread EXCEPT ![x] = t], t.slot = thread[x].slot,
         UNCHANGED <<slots, appended, next_id, stopping, holder, call, asked>>,
         t.pc \in Live \ {"returning"} => thread[x].pc # "returning",
         t.status = "CANCELLED" => x \in asked \/ stopping,
         Pending(t) = Pending(thread[x])
  PROVE  IInv'
<1>1. Types /\ Recorded(x) /\ SlotsReport /\ x # 0
  BY JobsAssumption DEF IInv, ThreadsRecorded, Id
<1>2. PICK i \in Slot : i = thread[x].slot /\ slots[i].id = x
  BY <1>1 DEF Recorded
<1>3. PICK r \in Job : r = slots[i]
  BY <1>1 DEF Types
<1>4. PICK a \in Nat : a = appended[x]
  BY <1>1 DEF Types
<1>5. slots' = [slots EXCEPT ![i] = r] /\ appended' = [appended EXCEPT ![x] = a]
  BY <1>1, <1>3, <1>4 DEF Types
<1>6. t.pc \in Live \ {"returning"} => Active(r)
  BY <1>1, <1>2, <1>3 DEF Recorded
<1>7. /\ r.committed + Pending(t) = a
      /\ r.state = "STOPPED" => x \in asked \/ stopping
  BY <1>1, <1>2, <1>3, <1>4 DEF SlotsReport, Reports
<1>8. OwnStep(x, i, r, t, a)
  BY ZenonT(30), <1>2, <1>3, <1>5, <1>6, <1>7 DEF OwnStep
<1> QED
  BY <1>8, ThreadKeeps, Zenon

\* Every step of a thread.
LEMMA ThreadStepKeeps ==
  ASSUME IInv, NEW x \in Id, ThreadStep(x)
  PROVE  IInv'
<1>1. Types /\ Recorded(x) /\ SlotsReport /\ x # 0 /\ thread[x] \in Thread
  BY JobsAssumption DEF IInv, ThreadsRecorded, Types, Id
<1>2. /\ thread[x].pc \in Live
      /\ UNCHANGED <<next_id, stopping, holder, call, asked>>
  BY DEF ThreadStep, RunBegin, GenerateLoop, GenerateWait, GenerateAppend, GenerateRecord,
         GenerateRefused, GenerateBackoff, Check, RunEnd, ThreadExit, Goto, Finish, Live
<1>3. PICK i \in Slot : i = thread[x].slot /\ slots[i].id = x
  BY <1>1, <1>2 DEF Recorded
<1>4. /\ slots[i] \in Job /\ appended[x] \in Nat
      /\ slots[i].committed + Pending(thread[x]) = appended[x]
      /\ slots[i].cancelled => x \in asked
      /\ slots[i].state = "STOPPED" => x \in asked \/ stopping
      /\ thread[x].status = "CANCELLED" => x \in asked \/ stopping
      /\ thread[x].pc # "returning" => Active(slots[i])
  BY <1>1, <1>2, <1>3 DEF Types, SlotsReport, Reports, Recorded
<1>5. CASE GenerateLoop(x) \/ GenerateWait(x) \/ GenerateRefused(x) \/ GenerateBackoff(x)
           \/ Check(x) \/ ThreadExit(x)
  <2> DEFINE MovesTo(t) ==
         /\ t \in Thread
         /\ thread' = [thread EXCEPT ![x] = t] /\ t.slot = thread[x].slot
         /\ t.pc \in {"wait", "append", "loop", "backoff", "end", "exited"}
         /\ thread[x].pc = "returning" => t.pc = "exited"
         /\ t.status = "CANCELLED" => thread[x].status = "CANCELLED" \/ Cancelled(x)
  <2> HIDE DEF MovesTo
  <2>1. \E t : MovesTo(t)
    <3>1. ASSUME NEW p \in {"wait", "append", "loop", "backoff", "exited"}, Goto(x, p),
                 thread[x].pc = "returning" => p = "exited"
          PROVE  MovesTo([thread[x] EXCEPT !.pc = p])
      BY <1>1, <3>1 DEF MovesTo, Goto, Thread, Types
    <3>2. ASSUME NEW s \in {"OK", "FAIL", "CANCELLED"}, Finish(x, s),
                 thread[x].pc # "returning", s = "CANCELLED" => Cancelled(x)
          PROVE  MovesTo([thread[x] EXCEPT !.pc = "end", !.status = s])
      BY ZenonT(30), <1>1, <3>2 DEF MovesTo, Finish, Thread, Types
    <3>3. CASE GenerateLoop(x)
      BY <3>1, <3>2, <3>3 DEF GenerateLoop
    <3>4. CASE GenerateWait(x)
      BY <3>1, <3>2, <3>4 DEF GenerateWait
    <3>5. CASE GenerateRefused(x)
      BY <3>1, <3>2, <3>5 DEF GenerateRefused
    <3>6. CASE GenerateBackoff(x)
      BY <3>1, <3>2, <3>6 DEF GenerateBackoff
    <3>7. CASE Check(x)
      BY <3>1, <3>2, <3>7 DEF Check
    <3>8. CASE ThreadExit(x)
      BY <3>1, <3>8 DEF ThreadExit
    <3> QED
      BY <1>5, <3>3, <3>4, <3>5, <3>6, <3>7, <3>8
  <2>a. PICK t \in Thread : MovesTo(t)
    BY <2>1, Zenon DEF MovesTo
  <2>2. UNCHANGED <<slots, appended>>
    BY <1>5 DEF GenerateLoop, GenerateWait, GenerateRefused, GenerateBackoff, Check,
                ThreadExit
  <2>3. thread[x].pc # "record"
    BY <1>5 DEF GenerateLoop, GenerateWait, GenerateRefused, GenerateBackoff, Check,
                ThreadExit
  <2>4. t.status = "CANCELLED" => x \in asked \/ stopping
    BY <1>3, <1>4, <2>a DEF Cancelled, MovesTo
  <2>5. /\ t.pc \in Live \ {"returning"} => thread[x].pc # "returning"
        /\ Pending(t) = Pending(thread[x])
    BY <2>a, <2>3 DEF Pending, Live, MovesTo
  <2> QED
    BY Zenon, <1>2, <2>a, <2>2, <2>4, <2>5, QuietKeeps DEF MovesTo
<1>6. CASE RunBegin(x)
  <2>1. PICK t \in Thread : t = [thread[x] EXCEPT !.pc = "loop"]
    BY Zenon, <1>1 DEF Thread
  <2>2. PICK r \in Job : r = [slots[i] EXCEPT !.state = "RUNNING"]
    BY Zenon, <1>4 DEF Job, JobState
  <2>3. /\ slots' = [slots EXCEPT ![i] = r] /\ thread' = [thread EXCEPT ![x] = t]
        /\ UNCHANGED appended /\ thread[x].pc = "created"
    BY <1>1, <1>3, <1>6, <2>1, <2>2 DEF RunBegin, Goto, Types
  <2>4. appended' = [appended EXCEPT ![x] = appended[x]]
    BY <1>1, <2>3 DEF Types
  <2>5. /\ r.id = x /\ r.joinable = slots[i].joinable /\ r.cancelled = slots[i].cancelled
        /\ r.committed = slots[i].committed /\ r.state = "RUNNING" /\ Active(r)
        /\ t.slot = i /\ t.status = thread[x].status /\ Pending(t) = Pending(thread[x])
    BY <1>1, <1>3, <1>4, <2>1, <2>2, <2>3 DEF Job, Thread, Active, Pending
  <2> QED
    <3>1. r.committed + Pending(t) = appended[x] /\ Active(slots[i])
      BY <1>4, <2>3, <2>5
    <3>2. OwnStep(x, i, r, t, appended[x])
      BY ZenonT(30), <1>2, <1>3, <1>4, <2>3, <2>4, <2>5, <3>1 DEF OwnStep
    <3> QED
      BY <1>4, <3>2, ThreadKeeps, Zenon
<1>7. CASE GenerateAppend(x)
  <2>1. PICK t \in Thread : t = [thread[x] EXCEPT !.pc = "record"]
    BY Zenon, <1>1 DEF Thread
  <2>2. PICK a \in Nat : a = appended[x] + 1
    BY <1>4
  <2>3. /\ UNCHANGED slots /\ thread' = [thread EXCEPT ![x] = t]
        /\ appended' = [appended EXCEPT ![x] = a] /\ thread[x].pc = "append"
    BY <1>1, <1>7, <2>1, <2>2 DEF GenerateAppend, Goto, Types
  <2>4. slots' = [slots EXCEPT ![i] = slots[i]]
    BY <1>1, <2>3 DEF Types
  <2>5. /\ t.slot = i /\ t.status = thread[x].status /\ Pending(t) = 1
        /\ Pending(thread[x]) = 0
    BY <1>1, <1>3, <2>1, <2>3 DEF Thread, Pending
  <2>6. slots[i].committed + Pending(t) = a
    BY <1>4, <2>2, <2>5 DEF Job
  <2> QED
    <3>1. OwnStep(x, i, slots[i], t, a)
      BY ZenonT(30), <1>2, <1>3, <1>4, <2>3, <2>4, <2>5, <2>6 DEF OwnStep
    <3> QED
      BY <1>4, <3>1, ThreadKeeps, Zenon
<1>8. CASE GenerateRecord(x)
  <2>1. PICK t \in Thread : t = [thread[x] EXCEPT !.pc = "loop"]
    BY Zenon, <1>1 DEF Thread
  <2>2. PICK r \in Job : r = [slots[i] EXCEPT !.committed = @ + 1]
    <3>1. PICK s \in Job, n \in Nat : s = slots[i] /\ n = slots[i].committed
      BY <1>4 DEF Job
    <3>2. [s EXCEPT !.committed = n + 1] \in Job
      BY DEF Job
    <3> QED
      BY <3>1, <3>2
  <2>3. /\ slots' = [slots EXCEPT ![i] = r] /\ thread' = [thread EXCEPT ![x] = t]
        /\ UNCHANGED appended /\ thread[x].pc = "record"
    BY <1>1, <1>3, <1>8, <2>1, <2>2 DEF GenerateRecord, Goto, Types
  <2>4. appended' = [appended EXCEPT ![x] = appended[x]]
    BY <1>1, <2>3 DEF Types
  <2>5. /\ r.id = x /\ r.joinable = slots[i].joinable /\ r.cancelled = slots[i].cancelled
        /\ r.committed = slots[i].committed + 1 /\ r.state = slots[i].state
        /\ t.slot = i /\ t.status = thread[x].status /\ Pending(t) = 0
        /\ Pending(thread[x]) = 1
    BY <1>1, <1>3, <1>4, <2>1, <2>2, <2>3 DEF Job, Thread, Pending
  <2>6. r.committed + Pending(t) = appended[x] /\ Active(r) /\ Active(slots[i])
    BY <1>3, <1>4, <2>3, <2>5 DEF Job, Active
  <2> QED
    <3>1. OwnStep(x, i, r, t, appended[x])
      BY ZenonT(30), <1>2, <1>3, <1>4, <2>3, <2>4, <2>5, <2>6 DEF OwnStep
    <3> QED
      BY <1>4, <3>1, ThreadKeeps, Zenon
<1>9. CASE RunEnd(x)
  <2>1. PICK t \in Thread : t = [thread[x] EXCEPT !.pc = "returning", !.status = "OK"]
    BY Zenon, <1>1 DEF Thread
  <2>2. PICK r \in Job : r = [slots[i] EXCEPT !.state = Verdict(x)]
    BY Zenon, <1>4 DEF Job, JobState, Verdict
  <2>3. /\ slots' = [slots EXCEPT ![i] = r] /\ thread' = [thread EXCEPT ![x] = t]
        /\ UNCHANGED appended /\ thread[x].pc = "end"
    BY ZenonT(30), <1>1, <1>3, <1>9, <2>1, <2>2 DEF RunEnd, Types
  <2>4. appended' = [appended EXCEPT ![x] = appended[x]]
    BY <1>1, <2>3 DEF Types
  <2>5. /\ r.id = x /\ r.joinable = slots[i].joinable /\ r.cancelled = slots[i].cancelled
        /\ r.committed = slots[i].committed /\ r.state = Verdict(x)
        /\ t.slot = i /\ t.status = "OK" /\ t.pc = "returning"
        /\ Pending(t) = 0 /\ Pending(thread[x]) = 0
    BY <1>1, <1>3, <1>4, <2>1, <2>2, <2>3 DEF Job, Thread, Pending
  <2>6. Verdict(x) = "STOPPED" => x \in asked \/ stopping
    BY <1>3, <1>4 DEF Verdict, Cancelled
  <2>7. r.committed + Pending(t) = appended[x]
    BY <1>4, <2>5
  <2>8. Active(slots[i])
    BY <1>4, <2>3
  <2> QED
    <3>1. t.pc \in Live \ {"returning"} => Active(r)
      BY <2>5
    <3>2. OwnStep(x, i, r, t, appended[x])
      BY ZenonT(30), <1>2, <1>3, <1>4, <2>3, <2>4, <2>5, <2>6, <2>7, <2>8, <3>1
         DEF OwnStep
    <3> QED
      BY <1>4, <3>2, ThreadKeeps, Zenon
<1> QED
  BY <1>5, <1>6, <1>7, <1>8, <1>9 DEF ThreadStep

-----------------------------------------------------------------------------
\* A set of natural numbers that is not empty has a least element.
LEMMA LeastExists ==
  ASSUME NEW S \in SUBSET Nat, S # {}
  PROVE  \E n \in S : \A m \in S : n <= m
<1>1. PICK n \in S : \A m \in S : ~(<<m, n>> \in OpToRel(<, Nat))
  BY Zenon, NatLessThanWellFounded, WFMin
<1>2. ASSUME NEW m \in S
      PROVE  n <= m
  <2>1. ~(m < n)
    BY Zenon, <1>1 DEF OpToRel
  <2> QED
    BY <2>1
<1> QED
  BY <1>2, Zenon

\* Oldest finds a slot of the set it is given: the search of reserve.
LEMMA OldestIsOne ==
  ASSUME Types, NEW S \in SUBSET Slot, S # {}
  PROVE  Oldest(S) \in S
<1>1. \A k \in S : slots[k].id \in Nat /\ k \in Nat
  BY JobsAssumption DEF Types, Job, Slot
<1> DEFINE Ids == {slots[k].id : k \in S}
<1>2. Ids \in SUBSET Nat /\ Ids # {}
  BY <1>1
<1> HIDE DEF Ids
<1>3. PICK n \in Ids : \A m \in Ids : n <= m
  BY <1>2, LeastExists
<1> DEFINE Lowest == {k \in S : slots[k].id = n}
<1>4. Lowest \in SUBSET Nat /\ Lowest # {}
  BY <1>1, <1>3 DEF Ids
<1> HIDE DEF Lowest
<1>5. PICK i \in Lowest : \A k \in Lowest : i <= k
  BY <1>4, LeastExists
<1>6. i \in S /\ slots[i].id = n
  BY <1>5 DEF Lowest
<1>7. ASSUME NEW k \in S
      PROVE  slots[i].id < slots[k].id \/ (slots[i].id = slots[k].id /\ i <= k)
  <2>1. n <= slots[k].id
    BY <1>3 DEF Ids
  <2>2. slots[k].id = n => i <= k
    BY <1>5 DEF Lowest
  <2> QED
    BY <1>1, <1>6, <2>1, <2>2
<1> QED
  BY <1>6, <1>7, Zenon DEF Oldest

\* The call that has the mutex is the only one.
LEMMA OneCall ==
  ASSUME IInv, NEW c \in Caller, call[c].pc # "idle"
  PROVE  \A d \in Caller \ {c} : call[d].pc = "idle"
BY DEF IInv, CallsHold

\* A slot without a thread to join has no live thread.
LEMMA NotJoinable ==
  ASSUME IInv, NEW i \in Slot, ~slots[i].joinable
  PROVE  \A x \in Id : thread[x].pc \in Live => thread[x].slot # i /\ slots[i].id # x
BY DEF IInv, ThreadsRecorded, Recorded, IdsDiffer, Id

\* A join changes threads that have exited only.
LEMMA JoinIs ==
  ASSUME Types, NEW o,
         \/ thread[o].pc = "exited" /\ thread' = [thread EXCEPT ![o].pc = "joined"]
         \/ UNCHANGED thread
  PROVE  /\ thread' \in [Id -> Thread]
         /\ \A y \in Id : /\ thread'[y].pc \in Live => thread'[y] = thread[y]
                          /\ Pending(thread'[y]) = Pending(thread[y])
<1>1. CASE UNCHANGED thread
  BY <1>1 DEF Types
<1>2. CASE thread[o].pc = "exited" /\ thread' = [thread EXCEPT ![o].pc = "joined"]
  <2>1. ASSUME NEW t \in Thread
        PROVE  [t EXCEPT !.pc = "joined"] \in Thread /\ [t EXCEPT !.pc = "joined"].pc = "joined"
    BY DEF Thread
  <2>2. thread' = [y \in Id |-> IF y = o THEN [thread[y] EXCEPT !.pc = "joined"]
                                         ELSE thread[y]]
    BY Zenon, <1>2 DEF Types
  <2>3. ASSUME NEW y \in Id
        PROVE  /\ thread'[y] \in Thread
               /\ \/ thread'[y] = thread[y]
                  \/ thread'[y].pc = "joined" /\ thread[y].pc = "exited"
    BY <1>2, <2>1, <2>2, <2>3 DEF Types
  <2>4. thread' \in [Id -> Thread]
    BY <2>2, <2>3
  <2> QED
    BY <2>3, <2>4 DEF Pending, Live
<1> QED
  BY <1>1, <1>2

\* reserve takes the mutex and finds a slot that is not in use.
LEMMA ReserveKeeps ==
  ASSUME IInv, NEW c \in Caller, NEW k \in Kind, Reserve(c, k)
  PROVE  IInv'
<1>1. Types /\ CallsHold /\ IdsDiffer /\ ThreadsRecorded /\ SlotsReport
  BY DEF IInv
<1>2. PICK i \in Slot : i = Oldest(Reusable) /\ ~Active(slots[i])
  <2>1. Reusable \in SUBSET Slot /\ Reusable # {}
    BY DEF Reserve, Reusable
  <2> QED
    BY <1>1, <2>1, OldestIsOne DEF Reusable
<1>3. /\ call' = [call EXCEPT ![c] = [pc |-> "join", slot |-> i, kind |-> k]]
      /\ holder' = c /\ next_id # 0
      /\ UNCHANGED <<slots, next_id, stopping, thread, asked, appended>>
  BY <1>2 DEF Reserve
<1>4. Types'
  BY <1>1, <1>3, JobsAssumption DEF Types, Slot
<1>5. ASSUME NEW d \in Caller \ {c}
      PROVE  call'[d].pc = "idle"
  <2>1. holder = None
    BY DEF Reserve, Free
  <2> QED
    BY <1>1, <1>3, <2>1, JobsAssumption DEF CallsHold, Types
<1>6. call'[c].pc = "join" /\ call'[c].slot = i
  BY <1>1, <1>3 DEF Types
<1>7. CallsHold'
  BY <1>2, <1>3, <1>5, <1>6 DEF CallsHold, Active
<1>8. IdsDiffer' /\ ThreadsRecorded' /\ SlotsReport'
  BY <1>1, <1>3, Zenon DEF IdsDiffer, ThreadsRecorded, SlotsReport, Recorded, Reports, Pending, Active
<1> QED
  BY <1>4, <1>7, <1>8 DEF IInv

\* The slot's thread is joined and the slot cleared for the next ID: no thread
\* that still runs used the slot, and no job has had the ID.
LEMMA JoinOldKeeps ==
  ASSUME IInv, NEW c \in Caller, JoinOld(c)
  PROVE  IInv'
<1>1. Types /\ CallsHold /\ IdsDiffer /\ ThreadsRecorded /\ SlotsReport
  BY DEF IInv
<1>2. call[c].pc = "join"
  BY Zenon DEF JoinOld
<1>3. PICK i \in Slot, n \in Id :
        i = call[c].slot /\ n = next_id /\ holder = c /\ ~Active(slots[i])
  BY <1>1, <1>2 DEF CallsHold, Types, Id
<1>4. PICK r \in Job : r = [Reset(slots[i]) EXCEPT !.kind = call[c].kind]
  BY Zenon, <1>1, <1>3 DEF Reset, Empty, Job, JobState, Types, Id, Kind
<1>5. /\ r.id = n /\ r.state = "STARTING" /\ ~r.joinable /\ ~r.cancelled
      /\ r.committed = 0
  BY <1>3, <1>4 DEF Reset, Empty
<1>6. /\ slots' = [slots EXCEPT ![i] = r] /\ next_id' = (n + 1) % (MaxId + 1)
      /\ call' = [call EXCEPT ![c].pc = "launch"]
      /\ UNCHANGED <<stopping, holder, asked, appended>>
  BY Zenon, <1>3, <1>4 DEF JoinOld
<1>7. next_id' \in {0, n + 1} /\ next_id' \in 0 .. MaxId
  <2>1. next_id' \in {0, n + 1}
    BY <1>6, NextIdIs DEF Id
  <2>2. (n + 1) % (MaxId + 1) < MaxId + 1
    BY JobsAssumption DEF Id
  <2> QED
    BY <1>6, <2>1, <2>2, JobsAssumption DEF Id
<1>8. /\ thread' \in [Id -> Thread]
      /\ \A y \in Id : /\ thread'[y].pc \in Live => thread'[y] = thread[y]
                       /\ Pending(thread'[y]) = Pending(thread[y])
  <2>1. \/ thread[slots[i].id].pc = "exited"
           /\ thread' = [thread EXCEPT ![slots[i].id].pc = "joined"]
        \/ UNCHANGED thread
    BY Zenon, <1>3 DEF JoinOld
  <2> QED
    BY <1>1, <2>1, JoinIs
<1>9. Types'
  <2>1. slots' \in [Slot -> Job]
    BY <1>1, <1>6 DEF Types
  <2>2. call' \in [Caller -> [pc : {"idle", "join", "launch"}, slot : 0 .. History,
                              kind : Kind]]
    BY <1>1, <1>6 DEF Types
  <2> QED
    BY <1>1, <1>6, <1>7, <1>8, <2>1, <2>2 DEF Types
<1>10. slots'[i] = r /\ \A k \in Slot \ {i} : slots'[k] = slots[k]
  BY <1>1, <1>6 DEF Types
<1>11. CallsHold'
  <2>1. call'[c].pc = "launch" /\ call'[c].slot = i
    BY <1>1, <1>3, <1>6 DEF Types
  <2>2. \A d \in Caller \ {c} : call'[d].pc = "idle"
    BY <1>1, <1>2, <1>6, OneCall DEF Types
  <2>3. slots'[i].id # 0
    BY <1>5, <1>10 DEF Id
  <2> QED
    BY <1>3, <1>5, <1>6, <1>10, <2>1, <2>2, <2>3 DEF CallsHold
<1>12. \A k \in Slot : slots[k].id < n
  BY <1>1, <1>3 DEF IdsDiffer, Id
<1>13. \A x \in Id : x >= n => appended[x] = 0
  BY <1>1, <1>3 DEF IdsDiffer, Id
<1>14. IdsDiffer'
  <2>1. \A k \in Slot \ {i} : slots'[k].id # n /\ slots'[k].id < n + 1
    BY <1>1, <1>10, <1>12 DEF Types, Job, Id
  <2>2. ASSUME NEW k \in Slot, NEW l \in Slot, slots'[k].id # 0,
               slots'[k].id = slots'[l].id
        PROVE  k = l
    BY <1>1, <1>5, <1>10, <2>1, <2>2 DEF IdsDiffer
  <2>3. \A k \in Slot : slots'[k].id < n + 1
    BY <1>5, <1>10, <2>1 DEF Id
  <2>4. \A x \in Id : x >= n + 1 => appended'[x] = 0
    BY <1>6, <1>13 DEF Id
  <2> QED
    BY <1>7, <2>2, <2>3, <2>4 DEF IdsDiffer
<1>15. ASSUME NEW x \in Id, thread[x].pc \in Live
       PROVE  thread[x].slot # i /\ x # n
  <2>1. Recorded(x)
    BY <1>1 DEF ThreadsRecorded
  <2>2. thread[x].slot = i => thread[x].pc = "exited"
    <3>1. slots[i].joinable => thread[slots[i].id].pc = "exited"
      BY Zenon, <1>3 DEF JoinOld
    <3> QED
      BY <1>15, <2>1, <3>1 DEF Recorded
  <2>3. x < n
    BY <1>12, <1>15, <2>1 DEF Recorded
  <2> QED
    BY <1>15, <2>2, <2>3 DEF Live, Id
<1>16. ASSUME NEW x \in Id
       PROVE  Recorded(x)'
  <2>1. Recorded(x)
    BY <1>1 DEF ThreadsRecorded
  <2> QED
    BY <1>6, <1>8, <1>10, <1>15, <2>1 DEF Recorded, Active
<1>17. ASSUME NEW k \in Slot
       PROVE  Reports(k)'
  <2>1. CASE k = i
    <3>1. Pending(thread'[n]) = 0
      BY <1>8, <1>15 DEF Pending, Live
    <3>2. appended'[n] = 0
      BY <1>6, <1>13 DEF Id
    <3> QED
      BY <1>5, <1>10, <2>1, <3>1, <3>2 DEF Reports
  <2>2. CASE k # i
    <3>1. slots[k].id # 0 => slots[k].id \in Id
      BY <1>1 DEF Types, Job, Id
    <3>2. Reports(k)
      BY <1>1 DEF SlotsReport
    <3> QED
      BY <1>6, <1>8, <1>10, <2>2, <3>1, <3>2 DEF Reports
  <2> QED
    BY <2>1, <2>2
<1> QED
  BY <1>9, <1>11, <1>14, <1>16, <1>17 DEF IInv, ThreadsRecorded, SlotsReport

\* The end of a call that has cleared slot i, with or without a thread.
LEMMA LaunchKeeps ==
  ASSUME IInv, NEW c \in Caller, Launch(c) \/ LaunchFails(c)
  PROVE  IInv'
<1>1. Types /\ CallsHold /\ IdsDiffer /\ ThreadsRecorded /\ SlotsReport
  BY DEF IInv
<1>2. call[c].pc = "launch"
  BY DEF Launch, LaunchFails
<1>3. PICK i \in Slot, x \in Id :
        /\ i = call[c].slot /\ x = slots[i].id /\ ~slots[i].joinable
        /\ slots[i].state = "STARTING"
  BY <1>1, <1>2 DEF CallsHold, Types, Job, Id
<1>4. slots[i] \in Job /\ thread[x].pc \notin Live
  BY <1>1, <1>3, NotJoinable DEF Types
<1>5. PICK r \in Job, t \in Thread :
        /\ slots' = [slots EXCEPT ![i] = r] /\ thread' = [thread EXCEPT ![x] = t]
        /\ r.id = x /\ r.committed = slots[i].committed /\ r.cancelled = slots[i].cancelled
        /\ r.state # "STOPPED" /\ t.pc # "record"
        /\ t.pc \in Live => /\ t.slot = i /\ t.status = "OK" /\ r.joinable
                            /\ r.state = "STARTING"
  <2>1. CASE Launch(c)
    <3>1. PICK r \in Job : r = [slots[i] EXCEPT !.joinable = TRUE]
      BY Zenon, <1>4 DEF Job
    <3>a. i \in 0 .. History
      BY JobsAssumption DEF Slot
    <3>2. PICK t \in Thread : t = [pc |-> "created", slot |-> i, status |-> "OK"]
      BY <3>a, Zenon DEF Thread
    <3>3. slots' = [slots EXCEPT ![i] = r] /\ thread' = [thread EXCEPT ![x] = t]
      BY <1>1, <1>3, <2>1, <3>1, <3>2 DEF Launch, Types
    <3>4. /\ r.id = x /\ r.committed = slots[i].committed
          /\ r.cancelled = slots[i].cancelled /\ r.state = "STARTING" /\ r.joinable
      BY <1>3, <1>4, <3>1 DEF Job
    <3>5. t.pc = "created" /\ t.slot = i /\ t.status = "OK"
      BY <3>2
    <3> QED
      BY <3>3, <3>4, <3>5, Zenon
  <2>2. CASE LaunchFails(c)
    <3>1. PICK r \in Job : r = [slots[i] EXCEPT !.state = "FAILED"]
      BY Zenon, <1>4 DEF Job, JobState
    <3>2. PICK t \in Thread : t = thread[x]
      BY <1>1 DEF Types
    <3>3. slots' = [slots EXCEPT ![i] = r] /\ thread' = [thread EXCEPT ![x] = t]
      BY <1>1, <1>3, <2>2, <3>1, <3>2 DEF LaunchFails, Types
    <3>4. /\ r.id = x /\ r.committed = slots[i].committed
          /\ r.cancelled = slots[i].cancelled /\ r.state = "FAILED"
      BY <1>3, <1>4, <3>1 DEF Job
    <3>5. t.pc \notin Live /\ t.pc # "record"
      BY <1>4, <3>2 DEF Live
    <3> QED
      BY <3>3, <3>4, <3>5, Zenon
  <2> QED
    BY <2>1, <2>2
<1>6. /\ call' = [call EXCEPT ![c] = NoCall]
      /\ UNCHANGED <<next_id, stopping, asked, appended>>
  BY DEF Launch, LaunchFails
<1>7. Types'
  <2>1. slots' \in [Slot -> Job] /\ thread' \in [Id -> Thread]
    BY <1>1, <1>5 DEF Types
  <2>2. NoCall \in [pc : {"idle", "join", "launch"}, slot : 0 .. History, kind : Kind]
    BY JobsAssumption DEF NoCall, Kind
  <2>3. call' \in [Caller -> [pc : {"idle", "join", "launch"}, slot : 0 .. History,
                              kind : Kind]]
    BY <1>1, <1>6, <2>2 DEF Types
  <2> QED
    BY <1>1, <1>6, <2>1, <2>3 DEF Types
<1>8. /\ slots'[i] = r /\ thread'[x] = t
      /\ \A k \in Slot \ {i} : slots'[k] = slots[k]
      /\ \A y \in Id \ {x} : thread'[y] = thread[y]
  BY <1>1, <1>5 DEF Types
<1>9. CallsHold'
  <2>1. \A d \in Caller : call'[d].pc = "idle"
    BY <1>1, <1>2, <1>6, OneCall DEF Types, NoCall
  <2> QED
    BY <2>1 DEF CallsHold
<1>10. \A k \in Slot : slots'[k].id = slots[k].id
  BY <1>3, <1>5, <1>8
<1>11. IdsDiffer'
  BY <1>1, <1>6, <1>10 DEF IdsDiffer
<1>12. ASSUME NEW y \in Id
       PROVE  Recorded(y)'
  <2>1. CASE y = x
    <3>1. thread'[x] = t /\ slots'[i] = r /\ r.id = x /\ x # 0
      BY <1>5, <1>8 DEF Id
    <3>2. t.pc \in Live => /\ t.slot = i /\ t.status # "CANCELLED" /\ r.joinable
                           /\ Active(r)
      BY <1>5, <3>1 DEF Active
    <3> QED
      BY <2>1, <3>1, <3>2 DEF Recorded, Active
  <2>2. CASE y # x
    <3>1. Recorded(y)
      BY <1>1 DEF ThreadsRecorded
    <3>2. thread[y].pc \in Live => thread[y].slot # i
      BY <1>3, NotJoinable
    <3> QED
      BY <1>6, <1>8, <2>2, <3>1, <3>2 DEF Recorded, Active
  <2> QED
    BY <2>1, <2>2
<1>13. ASSUME NEW k \in Slot
       PROVE  Reports(k)'
  <2>1. Reports(k) /\ Reports(i)
    BY <1>1 DEF SlotsReport
  <2>2. CASE k = i
    <3>1. Pending(thread'[x]) = Pending(thread[x])
      BY <1>4, <1>5, <1>8 DEF Pending, Live
    <3> QED
      <4>1. slots[i].id = x /\ x # 0 /\ slots'[i] = r
        BY <1>3, <1>8 DEF Id
      <4>2. /\ r.id = x /\ r.committed = slots[i].committed
            /\ r.cancelled = slots[i].cancelled /\ r.state # "STOPPED"
        BY Zenon, <1>5
      <4> QED
        BY <1>6, <2>1, <2>2, <3>1, <4>1, <4>2 DEF Reports
  <2>3. CASE k # i
    <3>1. slots[k].id # 0 => slots[k].id \in Id /\ slots[k].id # x
      BY <1>1, <1>3, <2>3 DEF IdsDiffer, Types, Job, Id
    <3> QED
      BY <1>6, <1>8, <2>1, <2>3, <3>1 DEF Reports
  <2> QED
    BY <2>2, <2>3
<1> QED
  BY <1>7, <1>9, <1>11, <1>12, <1>13 DEF IInv, ThreadsRecorded, SlotsReport

\* wadb_job_stop marks the job that has the ID, and no other.
LEMMA StopJobKeeps ==
  ASSUME IInv, NEW x \in Id, StopJob(x)
  PROVE  IInv'
<1>1. Types /\ CallsHold /\ IdsDiffer /\ ThreadsRecorded /\ SlotsReport
  BY DEF IInv
<1>2. PICK i \in Slot : slots[i].id = x /\ slots' = [slots EXCEPT ![i].cancelled = TRUE]
  BY Zenon DEF StopJob
<1>3. /\ asked' = asked \cup {x}
      /\ UNCHANGED <<next_id, stopping, holder, call, thread, appended>>
  BY DEF StopJob
<1>4. slots' \in [Slot -> Job]
  <2>1. ASSUME NEW j \in Job
        PROVE  [j EXCEPT !.cancelled = TRUE] \in Job
    BY Zenon DEF Job
  <2> QED
    BY <1>1, <1>2, <2>1 DEF Types
<1>5. \A k \in Slot :
        /\ slots'[k].id = slots[k].id /\ slots'[k].state = slots[k].state
        /\ slots'[k].joinable = slots[k].joinable
        /\ slots'[k].committed = slots[k].committed
        /\ slots'[k].cancelled => slots[k].cancelled \/ k = i
  BY <1>1, <1>2 DEF Types, Job
<1>6. \A k \in Slot : Active(slots'[k]) <=> Active(slots[k])
  BY <1>5 DEF Active
<1>7. Types'
  BY <1>1, <1>3, <1>4 DEF Types
<1>8. CallsHold'
  BY <1>1, <1>3, <1>5, <1>6 DEF CallsHold, Active
<1>9. IdsDiffer'
  BY <1>1, <1>3, <1>5 DEF IdsDiffer
<1>10. ThreadsRecorded'
  BY <1>1, <1>3, <1>5, <1>6 DEF ThreadsRecorded, Recorded, Active
<1>11. ASSUME NEW k \in Slot
       PROVE  Reports(k)'
  <2>1. Reports(k)
    BY <1>1 DEF SlotsReport
  <2> QED
    BY <1>2, <1>3, <1>5, <2>1 DEF Reports
<1> QED
  BY <1>7, <1>8, <1>9, <1>10, <1>11 DEF IInv, SlotsReport

\* wadb_jobs_close asks every job to stop.
LEMMA CloseKeeps ==
  ASSUME IInv, Close
  PROVE  IInv'
<1>1. stopping' = TRUE
      /\ UNCHANGED <<slots, next_id, holder, call, thread, asked, appended>>
  BY DEF Close
<1> QED
  BY <1>1, Zenon DEF IInv, Types, CallsHold, IdsDiffer, ThreadsRecorded, SlotsReport,
                     Recorded, Reports, Pending, Active

\* wadb_jobs_close joins a thread and leaves its record.
LEMMA CloseJoinKeeps ==
  ASSUME IInv, CloseJoin
  PROVE  IInv'
<1>1. Types /\ CallsHold /\ IdsDiffer /\ ThreadsRecorded /\ SlotsReport
  BY DEF IInv
<1>2. UNCHANGED <<slots, next_id, stopping, holder, call, asked, appended>>
  BY DEF CloseJoin
<1>3. /\ thread' \in [Id -> Thread]
      /\ \A y \in Id : /\ thread'[y].pc \in Live => thread'[y] = thread[y]
                       /\ Pending(thread'[y]) = Pending(thread[y])
  <2>1. \/ thread[slots[closing].id].pc = "exited"
           /\ thread' = [thread EXCEPT ![slots[closing].id].pc = "joined"]
        \/ UNCHANGED thread
    BY DEF CloseJoin
  <2> QED
    BY <1>1, <2>1, JoinIs
<1>4. Types' /\ CallsHold' /\ IdsDiffer'
  BY <1>1, <1>2, <1>3 DEF Types, CallsHold, IdsDiffer, Active
<1>5. ThreadsRecorded'
  BY <1>1, <1>2, <1>3 DEF ThreadsRecorded, Recorded, Active
<1>6. ASSUME NEW k \in Slot
      PROVE  Reports(k)'
  <2>1. Reports(k) /\ (slots[k].id # 0 => slots[k].id \in Id)
    BY <1>1 DEF SlotsReport, Types, Job, Id
  <2> QED
    BY <1>2, <1>3, <2>1 DEF Reports
<1> QED
  BY <1>4, <1>5, <1>6 DEF IInv, SlotsReport

\* A step that changes none of what the invariant speaks of.
LEMMA StutterKeeps ==
  ASSUME IInv,
         UNCHANGED <<slots, next_id, stopping, holder, call, thread, asked, appended>>
  PROVE  IInv'
BY Zenon DEF IInv, Types, CallsHold, IdsDiffer, ThreadsRecorded, SlotsReport, Recorded,
             Reports, Pending, Active

\* wadb_jobs_open: no job, no call, no thread.
LEMMA InitHolds == Init => IInv
<1> SUFFICES ASSUME Init
             PROVE  IInv
  OBVIOUS
<1>1. Empty \in Job /\ Empty.id = 0
  BY JobsAssumption DEF Empty, Job, JobState, Kind
<1>2. NoThread \in Thread /\ NoThread.pc = "none"
  BY JobsAssumption DEF NoThread, Thread
<1>3. /\ NoCall \in [pc : {"idle", "join", "launch"}, slot : 0 .. History, kind : Kind]
      /\ NoCall.pc = "idle"
  BY JobsAssumption DEF NoCall, Kind
<1>4. Types
  <2>1. next_id \in 0 .. MaxId
    BY JobsAssumption DEF Init
  <2>2. slots \in [Slot -> Job] /\ thread \in [Id -> Thread]
    BY <1>1, <1>2 DEF Init
  <2>3. appended \in [Id -> Nat]
    BY DEF Init
  <2>4. call \in [Caller -> [pc : {"idle", "join", "launch"}, slot : 0 .. History,
                             kind : Kind]]
    BY <1>3, Zenon DEF Init
  <2> QED
    BY <2>1, <2>2, <2>3, <2>4, Zenon DEF Init, Types
<1>5. CallsHold
  BY <1>3 DEF Init, CallsHold
<1>6. IdsDiffer
  BY <1>1 DEF Init, IdsDiffer
<1>7. ThreadsRecorded
  BY <1>2 DEF Init, ThreadsRecorded, Recorded, Live
<1>8. SlotsReport
  BY <1>1 DEF Init, SlotsReport, Reports
<1> QED
  BY <1>4, <1>5, <1>6, <1>7, <1>8 DEF IInv

\* Every step keeps the invariant.
LEMMA NextKeeps == IInv /\ [Next]_vars => IInv'
<1> SUFFICES ASSUME IInv, [Next]_vars
             PROVE  IInv'
  OBVIOUS
<1>1. ASSUME NEW c \in Caller, NEW k \in Kind, Reserve(c, k)
      PROVE  IInv'
  BY <1>1, ReserveKeeps
<1>2. ASSUME NEW c \in Caller, CallStep(c)
      PROVE  IInv'
  BY <1>2, JoinOldKeeps, LaunchKeeps DEF CallStep
<1>3. ASSUME NEW x \in Id, StopJob(x) \/ ThreadStep(x) \/ TimePasses(x)
      PROVE  IInv'
  BY <1>3, StopJobKeeps, ThreadStepKeeps, StutterKeeps DEF TimePasses
<1>4. CASE Close \/ CloseJoin
  BY <1>4, CloseKeeps, CloseJoinKeeps
<1>5. CASE UNCHANGED vars
  BY <1>5, StutterKeeps DEF vars
<1> QED
  BY <1>1, <1>2, <1>3, <1>4, <1>5 DEF Next

\* The invariant holds in every reachable state.
LEMMA Invariance == Spec => []IInv
BY InitHolds, NextKeeps, PTL DEF Spec

\* A thread finds its own job in its slot for as long as it may touch it, whichever
\* slots are reused meanwhile, for any number of callers, slots and jobs (reserve).
THEOREM RecordAlwaysOutlives == Spec => []RecordOutlivesThread
<1>1. IInv => RecordOutlivesThread
  <2> SUFFICES ASSUME IInv, NEW x \in Id, thread[x].pc \notin {"none", "exited", "joined"}
               PROVE  slots[thread[x].slot].id = x
    BY DEF RecordOutlivesThread
  <2>1. thread[x].pc \in Live
    BY DEF IInv, Types, Thread, Live
  <2> QED
    BY <2>1 DEF IInv, ThreadsRecorded, Recorded
<1> QED
  BY <1>1, Invariance, PTL

\* What a finished job reports is what it did, for any number of callers, slots,
\* jobs and batches, and for any target (generate, run, reserve).
THEOREM ReportsAlwaysTrue == Spec => []ReportsTrue
<1>1. IInv => ReportsTrue
  <2> SUFFICES ASSUME IInv, NEW i \in Slot, slots[i].id # 0, ~Active(slots[i])
               PROVE  /\ slots[i].committed = appended[slots[i].id]
                      /\ slots[i].state = "STOPPED" => slots[i].id \in asked \/ stopping
    BY DEF ReportsTrue
  <2>1. Types /\ IdsDiffer /\ ThreadsRecorded /\ Reports(i)
    BY DEF IInv, SlotsReport
  <2>2. PICK x \in Id : x = slots[i].id
    BY <2>1 DEF Types, Job, Id
  <2>3. Pending(thread[x]) = 0
    <3>1. Recorded(x)
      BY <2>1 DEF ThreadsRecorded
    <3>2. thread[x].pc = "record" => Active(slots[i])
      BY <2>1, <2>2, <3>1 DEF Recorded, Live, IdsDiffer
    <3> QED
      BY <3>2 DEF Pending
  <2>4. slots[i].committed \in Nat
    BY <2>1 DEF Types, Job
  <2> QED
    BY <2>1, <2>2, <2>3, <2>4 DEF Reports
<1> QED
  BY <1>1, Invariance, PTL

=============================================================================
