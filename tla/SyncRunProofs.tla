--------------------------- MODULE SyncRunProofs ---------------------------
(***************************************************************************)
(* Proofs about SyncRun, for every set of tasks and of requests, every TTL *)
(* and every interval: its type invariant, the mutual exclusion of the lock*)
(* and the spacing of the runs. The inductive invariant of the exclusion   *)
(* ties the time the key has left to the time left to the run it names,    *)
(* unless that run was robbed of its key, and says what a release about to *)
(* delete the key may rely on, unless it has strayed. A second invariant   *)
(* orders the ages of the checkpoint, of the run under way and of the last *)
(* run that was closed.                                                    *)
(***************************************************************************)
EXTENDS SyncRun, TLAPS

-----------------------------------------------------------------------------
(* A process is one of the processes. *)
LEMMA ProcessIsOne == \A w \in Worker : Process(w) \in Processes
  BY DEF Processes

(* What ages stays an age, what runs out stays within the limit. *)
LEMMA AgeStays == /\ \A a \in Age : Older(a) \in Age
                  /\ \A l \in 0..Ttl : Less(l) \in 0..Ttl
                  /\ 0 \in Age /\ Interval \in Age
                  /\ 0 \in 0..Ttl /\ Ttl \in 0..Ttl
  BY TimeAssumption DEF Age, Older, Less

(* The fields of a job. *)
LEMMA JobFields ==
  ASSUME NEW r \in Job
  PROVE  /\ r.pc \in PC /\ r.age \in Age /\ r.left \in 0..Ttl /\ r.guarded \in BOOLEAN
         /\ r.forced \in BOOLEAN /\ r.status \in RunStatus /\ r.marked \in BOOLEAN
  BY DEF Job

(* An idle job is a job. *)
LEMMA IdleIsAJob == IdleJob \in Job
  BY AgeStays DEF IdleJob, Job, PC, RunStatus

(* Changing the place, and possibly more, of one job keeps the jobs typed. *)
LEMMA JobStays ==
  ASSUME NEW w \in Worker, job \in [Worker -> Job], NEW r \in Job, job' = [job EXCEPT ![w] = r]
  PROVE  job' \in [Worker -> Job]
  OBVIOUS

(* Initially every variable has its type. *)
LEMMA InitTyped == Init => TypeOK
  <1> SUFFICES ASSUME Init PROVE TypeOK
    OBVIOUS
  <1>1. lock \in [holder : Worker \union {NoWorker}, left : 0..Ttl]
    BY AgeStays DEF Init
  <1> QED
    BY <1>1, AgeStays, IdleIsAJob DEF Init, TypeOK

(* GoTo keeps the jobs typed. *)
LEMMA GoToTyped ==
  ASSUME TypeOK, NEW w \in Worker, NEW pc \in PC, GoTo(w, pc)
  PROVE  job' \in [Worker -> Job]
  <1>1. job[w] \in Job
    BY DEF TypeOK
  <1>2. [job[w] EXCEPT !.pc = pc] \in Job
    BY <1>1 DEF Job
  <1> QED
    BY <1>2 DEF GoTo, TypeOK

(* Every step keeps every variable in its type. *)
LEMMA StepTyped == TypeOK /\ [Next]_vars => TypeOK'
  <1> SUFFICES ASSUME TypeOK, [Next]_vars PROVE TypeOK'
    OBVIOUS
  <1> USE DEF TypeOK, keyHistory
  <1>1. \A w \in Worker : job[w] \in Job
    OBVIOUS
  <1>2. ASSUME NEW w \in Worker, NEW force \in {Forcing, FALSE}, Begin(w, force) PROVE TypeOK'
    <2>1. force \in BOOLEAN
      BY SwitchAssumption
    <2>2. [IdleJob EXCEPT !.pc = "acquire", !.forced = force] \in Job
      BY <2>1, AgeStays DEF IdleJob, Job, PC, RunStatus
    <2> QED
      BY <1>2, <2>2 DEF Begin
  <1>3. ASSUME NEW w \in Worker, Acquire(w) PROVE TypeOK'
    <2>1. [job[w] EXCEPT !.pc = "record", !.left = Ttl, !.guarded = TRUE] \in Job
      BY <1>1, AgeStays DEF Job, PC
    <2>2. job' \in [Worker -> Job]
      BY <1>3, <2>1 DEF Acquire
    <2>3. lock' \in [holder : Worker \union {NoWorker}, left : 0..Ttl]
      BY <1>3, AgeStays DEF Acquire
    <2> QED
      BY <1>3, <2>2, <2>3, ProcessIsOne DEF Acquire
  <1>4. ASSUME NEW w \in Worker, Refused(w) PROVE TypeOK'
    BY <1>4, IdleIsAJob DEF Refused
  <1>5. ASSUME NEW w \in Worker, Run(w) PROVE TypeOK'
    <2>1. CASE RecordRun(w)
      <3>1. [job[w] EXCEPT !.pc = "fetch", !.status = "running"] \in Job
        BY <1>1 DEF Job, PC, RunStatus
      <3> QED
        BY <2>1, <3>1 DEF RecordRun
    <2>2. CASE Fetch(w)
      BY <2>2, GoToTyped DEF Fetch, PC
    <2>3. CASE ProcessRecords(w)
      <3>1. [job[w] EXCEPT !.pc = "release", !.guarded = FALSE] \in Job
        BY <1>1 DEF Job, PC
      <3>2. job' \in [Worker -> Job]
        BY <2>3, <3>1, GoToTyped DEF ProcessRecords, PC
      <3> QED
        BY <2>3, <3>2 DEF ProcessRecords
    <2>4. CASE Finish(w)
      <3>1. [job[w] EXCEPT !.pc = "mark", !.status = "succeeded"] \in Job
        BY <1>1 DEF Job, PC, RunStatus
      <3> QED
        BY <2>4, <3>1 DEF Finish, Close
    <2>5. CASE Mark(w)
      <3>1. [job[w] EXCEPT !.pc = "report", !.marked = TRUE] \in Job
        BY <1>1 DEF Job, PC
      <3>2. checkpoint' \in Age
        BY <2>5, <1>1, JobFields DEF Mark
      <3> QED
        BY <2>5, <3>1, <3>2 DEF Mark
    <2>6. CASE Report(w)
      <3>1. [job[w] EXCEPT !.pc = "release", !.guarded = FALSE] \in Job
        BY <1>1 DEF Job, PC
      <3> QED
        BY <2>6, <3>1 DEF Report
    <2> QED
      BY <1>5, <2>1, <2>2, <2>3, <2>4, <2>5, <2>6 DEF Run
  <1>6. ASSUME NEW w \in Worker, Bookkeep(w) PROVE TypeOK'
    <2>1. CASE Fail(w)
      <3>1. [job[w] EXCEPT !.pc = "mark", !.status = "failed"] \in Job
        BY <1>1 DEF Job, PC, RunStatus
      <3> QED
        BY <2>1, <3>1 DEF Fail, Close
    <2>2. CASE TimeOut(w)
      <3>1. [job[w] EXCEPT !.pc = "fail", !.guarded = FALSE, !.marked = FALSE] \in Job
        BY <1>1 DEF Job, PC
      <3> QED
        BY <2>2, <3>1 DEF TimeOut
    <2> QED
      BY <1>6, <2>1, <2>2 DEF Bookkeep
  <1>7. ASSUME NEW w \in Worker, Release(w) PROVE TypeOK'
    <2>1. {"delete", Leave(w)} \subseteq PC
      BY DEF Leave, PC
    <2>2. job[w].age \in Age
      BY <1>1, JobFields
    <2>3. CASE ReleaseGet(w)
      <3>1. job' \in [Worker -> Job]
        BY <2>3, <2>1, GoToTyped DEF ReleaseGet
      <3> QED
        BY <2>3, <2>2, <3>1, ProcessIsOne DEF ReleaseGet
    <2>4. CASE ReleaseDel(w)
      <3>1. job' \in [Worker -> Job]
        BY <2>4, <2>1, GoToTyped DEF ReleaseDel
      <3>2. lock' \in [holder : Worker \union {NoWorker}, left : 0..Ttl]
        BY <2>4, AgeStays DEF ReleaseDel
      <3> QED
        BY <2>4, <3>1, <3>2 DEF ReleaseDel
    <2>5. CASE Commit(w)
      BY <2>5, <2>2, IdleIsAJob DEF Commit
    <2> QED
      BY <1>7, <2>3, <2>4, <2>5 DEF Release
  <1>8. ASSUME NEW p \in Processes, Crash(p) PROVE TypeOK'
    BY <1>8, <1>1, IdleIsAJob DEF Crash
  <1>9. CASE Tick
    <2>1. \A w \in Worker : Aged(w) \in Job
      BY <1>1, AgeStays, JobFields DEF Aged, Job
    <2>2. job' \in [Worker -> Job]
      BY <1>9, <1>1, <2>1 DEF Tick
    <2>3. lock' \in [holder : Worker \union {NoWorker}, left : 0..Ttl]
      BY <1>9, AgeStays, TimeAssumption DEF Tick
    <2> QED
      BY <1>9, <2>2, <2>3, AgeStays DEF Tick
  <1>10. CASE UNCHANGED vars
    BY <1>10 DEF vars
  <1> QED
    BY <1>2, <1>3, <1>4, <1>5, <1>6, <1>7, <1>8, <1>9, <1>10 DEF Next

(* Every state of the sync has the types its code gives its data: a time   *)
(* left never exceeds the TTL, a token belongs to a worker.                *)
THEOREM TypeCorrect == Spec => []TypeOK
  BY InitTyped, StepTyped, PTL DEF Spec

-----------------------------------------------------------------------------
(* A run within its time limit that was not robbed is the one the key      *)
(* names, and the key lasts as long as the run may.                        *)
LockIsHeld ==
    \A w \in Worker : Working(w) /\ w \notin robbed => lock.holder = w /\ lock.left = job[w].left

(* A release about to delete the key deletes its own, unless it strayed.   *)
DeletesOwn ==
    \A w \in Worker : job[w].pc = "delete" /\ w \notin strayed => lock.holder = w /\ lock.left > 0

(* Only a release about to delete the key strays: nobody does for good.    *)
StraysAtDelete == \A w \in strayed : job[w].pc = "delete"

(* The time limit covers the run, and nothing of the release. *)
GuardIsTheRun ==
    \A w \in Worker : job[w].pc \in {"idle", "acquire", "release", "delete", "commit"} => ~job[w].guarded

IInv == TypeOK /\ LockIsHeld /\ DeletesOwn /\ StraysAtDelete /\ GuardIsTheRun

(* A step of one worker's run that neither touches the key nor lengthens   *)
(* the run nor takes it into the release unguarded.                        *)
LEMMA RunStep ==
  ASSUME IInv, NEW w \in Worker, NEW r \in Job, job' = [job EXCEPT ![w] = r],
         UNCHANGED <<lock, strayed, robbed>>, TypeOK', job[w].pc # "delete",
         r.guarded => job[w].guarded /\ r.left = job[w].left,
         r.pc # "delete",
         r.pc \in {"idle", "acquire", "release", "delete", "commit"} => ~r.guarded
  PROVE  IInv'
  <1>1. job'[w] = r /\ \A v \in Worker \ {w} : job'[v] = job[v]
    BY DEF IInv, TypeOK
  <1>2. LockIsHeld'
    BY <1>1 DEF IInv, LockIsHeld, Working
  <1>3. StraysAtDelete'
    BY <1>1 DEF IInv, StraysAtDelete, TypeOK
  <1>4. DeletesOwn'
    BY <1>1 DEF IInv, DeletesOwn
  <1>5. GuardIsTheRun'
    BY <1>1 DEF IInv, GuardIsTheRun
  <1> QED
    BY <1>2, <1>3, <1>4, <1>5 DEF IInv

(* It holds at the start. *)
LEMMA InitHolds == Init => IInv
  <1> SUFFICES ASSUME Init PROVE IInv
    OBVIOUS
  <1>1. \A w \in Worker : job[w] = IdleJob
    BY DEF Init
  <1>2. StraysAtDelete
    BY DEF Init, StraysAtDelete
  <1> QED
    BY InitTyped, <1>1, <1>2
    DEF IInv, LockIsHeld, DeletesOwn, GuardIsTheRun, Working, IdleJob

(* Every step keeps it. *)
LEMMA StepHolds ==
  ASSUME IInv, [Next]_vars
  PROVE  IInv'
  <1>1. TypeOK /\ TypeOK' /\ job \in [Worker -> Job]
    BY StepTyped DEF IInv, TypeOK
  <1>2. \A w \in Worker : job[w] \in Job
    BY <1>1
  <1>3. ASSUME NEW w \in Worker, NEW force \in {Forcing, FALSE}, Begin(w, force) PROVE IInv'
    <2> DEFINE r == [IdleJob EXCEPT !.pc = "acquire", !.forced = force]
    <2>1. r \in Job
      BY SwitchAssumption, AgeStays DEF IdleJob, Job, PC, RunStatus
    <2>2. ~r.guarded /\ r.pc = "acquire"
      BY DEF IdleJob
    <2>3. /\ job' = [job EXCEPT ![w] = r] /\ UNCHANGED <<lock, strayed, robbed>>
          /\ job[w].pc # "delete"
      BY <1>3 DEF Begin, keyHistory
    <2> HIDE DEF r
    <2> QED
      BY <1>1, <2>1, <2>2, <2>3, RunStep
  <1>4. ASSUME NEW w \in Worker, Acquire(w) PROVE IInv'
    <2> DEFINE r == [job[w] EXCEPT !.pc = "record", !.left = Ttl, !.guarded = TRUE]
    <2>1. r.pc = "record" /\ r.left = Ttl /\ r.guarded
      BY <1>2 DEF Job
    <2>2. /\ job' = [job EXCEPT ![w] = r] /\ lock' = [holder |-> w, left |-> Ttl]
          /\ robbed' = robbed \ {w} /\ strayed' = strayed
      BY <1>4, <1>1 DEF Acquire
    <2> HIDE DEF r
    <2>3. job'[w] = r /\ \A v \in Worker \ {w} : job'[v] = job[v]
      BY <1>1, <2>2
    <2>4. \A v \in Worker : /\ Working(v) => v \in robbed
                            /\ job[v].pc = "delete" => v \in strayed
      BY <1>4, <1>2, JobFields DEF IInv, LockIsHeld, DeletesOwn, Acquire, Working, TypeOK
    <2>5. LockIsHeld'
      BY <2>1, <2>2, <2>3, <2>4 DEF LockIsHeld, Working
    <2>6. StraysAtDelete'
      <3>1. w \notin strayed
        BY <1>4 DEF IInv, StraysAtDelete, Acquire
      <3> QED
        BY <1>1, <2>2, <2>3, <3>1 DEF IInv, StraysAtDelete, TypeOK
    <2>7. DeletesOwn'
      BY <2>1, <2>2, <2>3, <2>4 DEF DeletesOwn
    <2>8. GuardIsTheRun'
      BY <2>1, <2>3 DEF IInv, GuardIsTheRun
    <2> QED
      BY <1>1, <2>5, <2>6, <2>7, <2>8 DEF IInv
  <1>5. ASSUME NEW w \in Worker, Refused(w) PROVE IInv'
    <2>1. ~IdleJob.guarded /\ IdleJob.pc = "idle"
      BY DEF IdleJob
    <2> QED
      BY <1>1, <1>5, <2>1, IdleIsAJob, RunStep DEF Refused, keyHistory
  <1>6. ASSUME NEW w \in Worker, Run(w) \/ Bookkeep(w) PROVE IInv'
    <2> DEFINE r == job'[w]
    <2>1. r \in Job
      BY <1>1 DEF TypeOK
    <2>2. /\ job' = [job EXCEPT ![w] = r] /\ UNCHANGED <<lock, strayed, robbed>>
          /\ r.guarded => job[w].guarded /\ r.left = job[w].left
          /\ job[w].pc # "delete" /\ r.pc # "delete"
          /\ r.pc \in {"idle", "acquire", "release", "delete", "commit"} => ~r.guarded
      <3>0. job[w] \in Job
        BY <1>2
      <3>1. CASE RecordRun(w)
        BY <3>0, <1>1, <3>1 DEF RecordRun, keyHistory, At, Job
      <3>2. CASE Fetch(w)
        BY <3>0, <1>1, <3>2 DEF Fetch, keyHistory, GoTo, At, Job
      <3>3. CASE ProcessRecords(w)
        BY <3>0, <1>1, <3>3 DEF ProcessRecords, keyHistory, GoTo, At, Job
      <3>4. CASE Finish(w)
        BY <3>0, <1>1, <3>4 DEF Finish, keyHistory, Close, At, Job
      <3>5. CASE Mark(w)
        BY <3>0, <1>1, <3>5 DEF Mark, keyHistory, At, Job
      <3>6. CASE Report(w)
        BY <3>0, <1>1, <3>6 DEF Report, keyHistory, At, Job
      <3>7. CASE Fail(w)
        BY <3>0, <1>1, <3>7 DEF Fail, keyHistory, Close, At, Job
      <3>8. CASE TimeOut(w)
        BY <3>0, <1>1, <3>8 DEF TimeOut, keyHistory, Job, IInv, GuardIsTheRun
      <3> QED
        BY <1>6, <3>1, <3>2, <3>3, <3>4, <3>5, <3>6, <3>7, <3>8 DEF Run, Bookkeep
    <2> HIDE DEF r
    <2> QED
      BY <1>1, <2>1, <2>2, RunStep
  <1>7. ASSUME NEW w \in Worker, ReleaseGet(w) PROVE IInv'
    <2> DEFINE r == job'[w]
               token == tokens[Process(w)]
               passed == token # NoWorker /\ lock.left > 0 /\ lock.holder = token
    <2>1. /\ job' = [job EXCEPT ![w] = r] /\ UNCHANGED <<lock, robbed>>
          /\ strayed' = IF passed /\ token # w THEN strayed \union {w} ELSE strayed
          /\ r.guarded = job[w].guarded /\ r.left = job[w].left
          /\ r.pc \in {"delete", "idle", "commit"} /\ (passed <=> r.pc = "delete")
      BY <1>1, <1>2, <1>7 DEF ReleaseGet, GoTo, Leave, Job
    <2>2. ~job[w].guarded /\ w \notin strayed
      BY <1>7 DEF ReleaseGet, IInv, GuardIsTheRun, StraysAtDelete
    <2> HIDE DEF r
    <2>3. job'[w] = r /\ \A v \in Worker \ {w} : job'[v] = job[v]
      BY <1>1, <2>1
    <2>4. LockIsHeld'
      BY <2>1, <2>2, <2>3 DEF IInv, LockIsHeld, Working
    <2>5. StraysAtDelete'
      BY <1>1, <2>1, <2>2, <2>3 DEF IInv, StraysAtDelete, TypeOK
    <2>6. DeletesOwn'
      BY <2>1, <2>2, <2>3 DEF IInv, DeletesOwn
    <2>7. GuardIsTheRun'
      BY <2>1, <2>2, <2>3 DEF IInv, GuardIsTheRun
    <2> QED
      BY <1>1, <2>4, <2>5, <2>6, <2>7 DEF IInv
  <1>8. ASSUME NEW w \in Worker, ReleaseDel(w) PROVE IInv'
    <2> DEFINE r == job'[w]
    <2>1. /\ job' = [job EXCEPT ![w] = r]
          /\ r.guarded = job[w].guarded /\ r.pc \in {"idle", "commit"}
      BY <1>1, <1>2, <1>8 DEF ReleaseDel, GoTo, Leave, Job
    <2>2. /\ robbed' = IF w \in strayed THEN robbed \union ({lock.holder} \intersect Worker) ELSE robbed
          /\ strayed' = (strayed \union {v \in Worker : job[v].pc = "delete"}) \ {w}
      BY <1>8 DEF ReleaseDel
    <2>3. job[w].pc = "delete" /\ ~job[w].guarded
      BY <1>8 DEF ReleaseDel, IInv, GuardIsTheRun
    <2> HIDE DEF r
    <2>4. job'[w] = r /\ \A v \in Worker \ {w} : job'[v] = job[v]
      BY <1>1, <2>1
    <2>5. \A v \in Worker : Working(v) /\ v \notin robbed' => FALSE
      <3> SUFFICES ASSUME NEW v \in Worker, Working(v), v \notin robbed' PROVE FALSE
        OBVIOUS
      <3>1. lock.holder = v /\ v # w
        BY <2>2, <2>3 DEF IInv, LockIsHeld, Working
      <3>2. w \notin strayed
        BY <2>2, <3>1
      <3>3. lock.holder = w
        BY <2>3, <3>2 DEF IInv, DeletesOwn
      <3> QED
        BY <3>1, <3>3
    <2>6. LockIsHeld'
      BY <2>1, <2>3, <2>4, <2>5 DEF LockIsHeld, Working
    <2>7. StraysAtDelete'
      BY <1>1, <2>2, <2>4 DEF IInv, StraysAtDelete, TypeOK
    <2>8. DeletesOwn'
      BY <2>1, <2>2, <2>4 DEF DeletesOwn
    <2>9. GuardIsTheRun'
      BY <2>1, <2>3, <2>4 DEF IInv, GuardIsTheRun
    <2> QED
      BY <1>1, <2>6, <2>7, <2>8, <2>9 DEF IInv
  <1>9. ASSUME NEW w \in Worker, Commit(w) PROVE IInv'
    <2>1. ~IdleJob.guarded /\ IdleJob.pc = "idle"
      BY DEF IdleJob
    <2> QED
      BY <1>1, <1>9, <2>1, IdleIsAJob, RunStep DEF Commit, keyHistory
  <1>10. ASSUME NEW p \in Processes, Crash(p) PROVE IInv'
    <2>1. \A w \in Worker : job'[w] = IF w \in p THEN IdleJob ELSE job[w]
      BY <1>10 DEF Crash
    <2>2. ~IdleJob.guarded /\ IdleJob.pc = "idle"
      BY DEF IdleJob
    <2>3. LockIsHeld' /\ DeletesOwn' /\ GuardIsTheRun'
      BY <1>10, <2>1, <2>2 DEF Crash, IInv, LockIsHeld, DeletesOwn, GuardIsTheRun, Working
    <2>4. StraysAtDelete'
      BY <1>1, <1>10, <2>1 DEF Crash, IInv, StraysAtDelete, TypeOK
    <2> QED
      BY <1>1, <2>3, <2>4 DEF IInv
  <1>11. CASE Tick
    <2>1. /\ robbed' = robbed /\ lock.left \in 0..Ttl
          /\ strayed' = IF lock.left > 1 THEN strayed
                        ELSE strayed \union {w \in Worker : job[w].pc = "delete"}
          /\ lock' = IF lock.left > 1 THEN [lock EXCEPT !.left = lock.left - 1]
                     ELSE [holder |-> NoWorker, left |-> 0]
      BY <1>1, <1>11 DEF Tick, TypeOK
    <2>2. \A w \in Worker : /\ job'[w].pc = job[w].pc /\ job'[w].guarded = job[w].guarded
                            /\ job'[w].left \in {job[w].left, Less(job[w].left)}
                            /\ job[w].pc # "idle" => job'[w].left = Less(job[w].left)
      <3> SUFFICES ASSUME NEW w \in Worker
                   PROVE  /\ job'[w].pc = job[w].pc /\ job'[w].guarded = job[w].guarded
                          /\ job'[w].left \in {job[w].left, Less(job[w].left)}
                          /\ job[w].pc # "idle" => job'[w].left = Less(job[w].left)
        OBVIOUS
      <3>1. job'[w] = IF job[w].pc = "idle" THEN job[w] ELSE Aged(w)
        BY <1>11 DEF Tick
      <3> QED
        BY <3>1, <1>2 DEF Aged, Job
    <2>3. LockIsHeld'
      <3> SUFFICES ASSUME NEW w \in Worker, Working(w)', w \notin robbed'
                   PROVE  (lock.holder = w /\ lock.left = job[w].left)'
        BY DEF LockIsHeld
      <3>1. job[w].guarded /\ job[w].pc # "idle"
        BY <2>2 DEF Working, IInv, GuardIsTheRun
      <3>2. job[w].left \in 0..Ttl /\ Less(job[w].left) > 0 /\ job'[w].left = Less(job[w].left)
        BY <1>2, <2>2, <3>1, JobFields DEF Working
      <3>3. job[w].left \in Nat /\ job[w].left > 1 /\ Less(job[w].left) = job[w].left - 1
        BY <3>2, TimeAssumption DEF Less
      <3>4. lock.holder = w /\ lock.left = job[w].left
        BY <2>1, <3>1, <3>3 DEF IInv, LockIsHeld, Working
      <3>5. lock \in [holder : Worker \union {NoWorker}, left : 0..Ttl]
        BY <1>1 DEF TypeOK
      <3>6. lock'.holder = w /\ lock'.left = lock.left - 1
        BY <1>11, <3>3, <3>4, <3>5 DEF Tick
      <3> QED
        BY <3>2, <3>3, <3>4, <3>6
    <2>4. StraysAtDelete'
      BY <1>1, <2>1, <2>2 DEF IInv, StraysAtDelete, TypeOK
    <2>5. DeletesOwn' /\ GuardIsTheRun'
      <3>1. lock.left > 1 => lock'.holder = lock.holder /\ lock'.left > 0
        BY <1>1, <2>1, TimeAssumption DEF TypeOK
      <3> QED
        BY <2>1, <2>2, <3>1 DEF IInv, DeletesOwn, GuardIsTheRun
    <2> QED
      BY <1>1, <2>3, <2>4, <2>5 DEF IInv
  <1>12. CASE UNCHANGED vars
    BY <1>12 DEF vars, IInv, TypeOK, LockIsHeld, StraysAtDelete, DeletesOwn, GuardIsTheRun, Working
  <1> QED
    BY <1>3, <1>4, <1>5, <1>6, <1>7, <1>8, <1>9, <1>10, <1>11, <1>12 DEF Next, Release

(* The invariant that carries the exclusion, for every number of workers   *)
(* in every process and every TTL, with time passing inside a release.     *)
THEOREM InductiveInvariant == Spec => []IInv
  <1>1. Init => IInv
    BY InitHolds
  <1>2. IInv /\ [Next]_vars => IInv'
    BY StepHolds
  <1> QED
    BY <1>1, <1>2, PTL DEF Spec

(* The Redis lock excludes: whatever crashes, times out or releases late,  *)
(* two runs work on the scope together only if the key of one was deleted  *)
(* by a release that had strayed, in one of its two ways.                  *)
THEOREM WorkIsExclusive == Spec => []ExclusiveWork
  <1>1. IInv => ExclusiveWork
    BY DEF IInv, LockIsHeld, ExclusiveWork
  <1> QED
    BY <1>1, InductiveInvariant, PTL

-----------------------------------------------------------------------------
(* The spacing of the runs. A worker is busy from its trigger to its end.  *)
Busy(w) == job[w].pc # "idle"

(* Where a run may be, beside a checkpoint of one age and a last closed run*)
(* of another: the run is the younger of the two; until it turns to the    *)
(* provider the interval is over, unless it is forced; once it is closed   *)
(* and past its bookkeeping it has marked the checkpoint; and the mark of a*)
(* task is the checkpoint, never older than the run.                       *)
InPlace(w, r, synced, rest) ==
    /\ r.age <= rest
    /\ r.pc \in {"acquire", "record"} /\ ~r.forced => rest = Interval
    /\ r.pc \in {"fetch", "process", "finish"} => r.status = "running"
    /\ r.pc \in {"report", "release", "delete", "commit"} /\ r.status \in Closed => r.marked
    /\ w \in Task /\ r.marked => synced <= r.age

OneIsBusy == \A v, w \in Worker : Busy(v) /\ Busy(w) => v = w

(* As long as no two runs overlapped, the checkpoint is never older than   *)
(* the last closed run.                                                    *)
Spaced ==
    ~overlapped => /\ OneIsBusy
                   /\ checkpoint <= rested
                   /\ \A w \in Worker : Busy(w) => InPlace(w, job[w], checkpoint, rested)

SpacedInv == TypeOK /\ GuardIsTheRun /\ Spaced

(* Ages keep their order as time passes.                                   *)
LEMMA OlderIsMonotone ==
  /\ \A a, b \in Age : a <= b => Older(a) <= Older(b)
  /\ \A a \in Age : 0 <= a /\ a <= Interval
  /\ Older(Interval) = Interval
  BY TimeAssumption DEF Age, Older

(* A step of a busy worker that leaves its run in place and keeps the      *)
(* checkpoint no older than the last closed run keeps the invariant.       *)
LEMMA SpacedStep ==
  ASSUME SpacedInv, TypeOK', NEW w \in Worker, NEW r \in Job, Busy(w),
         job' = [job EXCEPT ![w] = r], overlapped' = overlapped,
         r.pc \in {"idle", "acquire", "release", "delete", "commit"} => ~r.guarded,
         ~overlapped => checkpoint' <= rested',
         ~overlapped /\ r.pc # "idle" => InPlace(w, r, checkpoint', rested')
  PROVE  SpacedInv'
  <1>1. job'[w] = r /\ \A v \in Worker \ {w} : job'[v] = job[v]
    BY DEF SpacedInv, TypeOK
  <1>2. GuardIsTheRun'
    BY <1>1 DEF SpacedInv, GuardIsTheRun
  <1>3. ASSUME ~overlapped'
        PROVE  /\ OneIsBusy'
               /\ \A v \in Worker : Busy(v)' => InPlace(v, job'[v], checkpoint', rested')
    <2>1. \A v \in Worker : Busy(v) => v = w
      BY <1>3 DEF SpacedInv, Spaced, OneIsBusy
    <2>2. \A v \in Worker : Busy(v)' => v = w
      BY <1>1, <2>1 DEF Busy
    <2>3. OneIsBusy'
      BY <2>2 DEF OneIsBusy
    <2>4. ASSUME NEW v \in Worker, Busy(v)' PROVE InPlace(v, job'[v], checkpoint', rested')
      <3>1. v = w
        BY <2>2, <2>4
      <3> QED
        BY <1>1, <1>3, <2>4, <3>1 DEF Busy
    <2> QED
      BY <2>3, <2>4
  <1>4. Spaced'
    BY <1>3 DEF Spaced
  <1> QED
    BY <1>2, <1>4 DEF SpacedInv

(* It holds at the start. *)
LEMMA InitSpaced == Init => SpacedInv
  <1> SUFFICES ASSUME Init PROVE SpacedInv
    OBVIOUS
  <1>1. \A w \in Worker : job[w] = IdleJob
    BY DEF Init
  <1>2. checkpoint <= rested
    BY TimeAssumption DEF Init
  <1> QED
    BY InitTyped, <1>1, <1>2 DEF SpacedInv, GuardIsTheRun, Spaced, OneIsBusy, Busy, IdleJob

(* Every step keeps it. *)
LEMMA StepSpaced == SpacedInv /\ [Next]_vars => SpacedInv'
  <1> SUFFICES ASSUME SpacedInv, [Next]_vars PROVE SpacedInv'
    OBVIOUS
  <1>1. TypeOK /\ TypeOK' /\ job \in [Worker -> Job] /\ checkpoint \in Age /\ rested \in Age
    BY StepTyped DEF SpacedInv, TypeOK
  <1>2. \A w \in Worker : job[w] \in Job
    BY <1>1
  <1>3. ASSUME NEW w \in Worker, NEW force \in {Forcing, FALSE}, Begin(w, force) PROVE SpacedInv'
    <2> DEFINE r == [IdleJob EXCEPT !.pc = "acquire", !.forced = force]
    <2>1. /\ r.pc = "acquire" /\ r.age = 0 /\ ~r.guarded /\ r.forced = force
          /\ r.status = "none" /\ ~r.marked
      BY DEF IdleJob
    <2>2. /\ job' = [job EXCEPT ![w] = r] /\ UNCHANGED <<checkpoint, rested>>
          /\ overlapped' = (overlapped \/ \E v \in Worker : job[v].pc # "idle")
          /\ force \/ checkpoint = Interval
      BY <1>3 DEF Begin
    <2> HIDE DEF r
    <2>3. job'[w] = r /\ \A v \in Worker \ {w} : job'[v] = job[v]
      BY <1>1, <2>2
    <2>4. GuardIsTheRun'
      BY <2>1, <2>3 DEF SpacedInv, GuardIsTheRun
    <2>5. ASSUME ~overlapped'
          PROVE  /\ OneIsBusy' /\ checkpoint' <= rested'
                 /\ \A v \in Worker : Busy(v)' => InPlace(v, job'[v], checkpoint', rested')
      <3>1. ~overlapped /\ \A v \in Worker : job[v].pc = "idle"
        BY <2>2, <2>5
      <3>2. checkpoint <= rested
        BY <3>1 DEF SpacedInv, Spaced
      <3>3. \A v \in Worker : Busy(v)' => v = w
        BY <2>3, <3>1 DEF Busy
      <3>4. r.age <= rested /\ (~r.forced => rested = Interval)
        BY <1>1, <2>1, <2>2, <3>2, OlderIsMonotone, TimeAssumption DEF Age
      <3>5. InPlace(w, r, checkpoint', rested')
        BY <2>1, <2>2, <3>4 DEF InPlace
      <3> QED
        BY <2>2, <2>3, <3>2, <3>3, <3>5 DEF OneIsBusy
    <2> QED
      BY <1>1, <2>4, <2>5 DEF SpacedInv, Spaced
  <1>4. ASSUME NEW w \in Worker, Busy(w),
               Acquire(w) \/ Refused(w) \/ Run(w) \/ Bookkeep(w) \/ Release(w)
        PROVE  SpacedInv'
    <2> DEFINE r == job'[w]
    <2>0. job[w] \in Job /\ r \in Job
      BY <1>1 DEF TypeOK
    <2>1. job[w].age \in Age
      BY <2>0, JobFields
    <2>2. ~overlapped => checkpoint <= rested /\ InPlace(w, job[w], checkpoint, rested)
      BY <1>4 DEF SpacedInv, Spaced
    <2>3. job[w].pc \in {"release", "delete", "commit"} => ~job[w].guarded
      BY DEF SpacedInv, GuardIsTheRun
    <2> DEFINE Kept == /\ job' = [job EXCEPT ![w] = r] /\ overlapped' = overlapped
                       /\ r.pc \in {"idle", "acquire", "release", "delete", "commit"} => ~r.guarded
                       /\ ~overlapped => checkpoint' <= rested'
                       /\ ~overlapped /\ r.pc # "idle" => InPlace(w, r, checkpoint', rested')
    <2>4. CASE Acquire(w)
      <3>1. r = [job[w] EXCEPT !.pc = "record", !.left = Ttl, !.guarded = TRUE]
        BY <1>1, <2>4 DEF Acquire
      <3>2. /\ r.pc = "record" /\ r.age = job[w].age /\ r.forced = job[w].forced
            /\ r.marked = job[w].marked /\ job[w].pc = "acquire"
        <4>1. job[w].pc = "acquire"
          BY <2>4 DEF Acquire
        <4> HIDE DEF r
        <4> QED
          BY <2>0, <3>1, <4>1 DEF Job
      <3>3. job' = [job EXCEPT ![w] = r] /\ UNCHANGED <<checkpoint, rested, overlapped>>
        BY <1>1, <2>4 DEF Acquire
      <3> HIDE DEF r
      <3>4. Kept
        BY <2>2, <3>2, <3>3 DEF InPlace
      <3> QED
        BY <1>1, <1>4, <2>0, <3>4, SpacedStep
    <2>5. CASE Refused(w)
      <3>1. r.pc = "idle" /\ ~r.guarded
        BY <1>1, <2>5 DEF Refused, IdleJob
      <3>2. job' = [job EXCEPT ![w] = r] /\ UNCHANGED <<checkpoint, rested, overlapped>>
        BY <1>1, <2>5 DEF Refused
      <3> HIDE DEF r
      <3>3. Kept
        BY <2>2, <3>1, <3>2
      <3> QED
        BY <1>1, <1>4, <2>0, <3>3, SpacedStep
    <2>6. CASE RecordRun(w) \/ Fetch(w) \/ ProcessRecords(w) \/ Finish(w) \/ Report(w)
      <3>1. job' = [job EXCEPT ![w] = r] /\ UNCHANGED <<checkpoint, rested, overlapped>>
        BY <1>1, <2>6 DEF RecordRun, Fetch, ProcessRecords, Finish, Report, GoTo, Close
      <3>2. r.age = job[w].age /\ r.marked = job[w].marked
        BY <1>1, <2>0, <2>6 DEF RecordRun, Fetch, ProcessRecords, Finish, Report, GoTo, Close, Job
      <3>3. \/ job[w].pc = "record" /\ r.pc = "fetch" /\ r.status = "running"
            \/ job[w].pc = "fetch" /\ r.pc \in {"process", "fail"} /\ r.status = job[w].status
            \/ job[w].pc = "process" /\ r.pc = "finish" /\ r.status = job[w].status
            \/ job[w].pc = "process" /\ r.pc = "release" /\ r.status = job[w].status /\ ~r.guarded
            \/ job[w].pc = "finish" /\ r.pc = "mark"
            \/ job[w].pc = "report" /\ r.pc = "release" /\ r.status = job[w].status /\ ~r.guarded
        BY <1>1, <2>0, <2>6 DEF RecordRun, Fetch, ProcessRecords, Finish, Report, GoTo, Close, At, Job
      <3> HIDE DEF r
      <3>4. ~overlapped => InPlace(w, r, checkpoint, rested)
        BY <2>2, <3>2, <3>3 DEF InPlace, Closed
      <3>5. Kept
        BY <2>2, <3>1, <3>3, <3>4
      <3> QED
        BY <1>1, <1>4, <2>0, <3>5, SpacedStep
    <2>7. CASE Mark(w)
      <3>1. job' = [job EXCEPT ![w] = r] /\ UNCHANGED <<rested, overlapped>>
        BY <1>1, <2>7 DEF Mark
      <3>2. r.age = job[w].age /\ r.marked /\ r.pc = "report"
        BY <1>1, <2>0, <2>7 DEF Mark, Job
      <3>3. checkpoint' = IF w \in Task THEN job[w].age ELSE checkpoint
        BY <2>7 DEF Mark
      <3> HIDE DEF r
      <3>4. ~overlapped => checkpoint' <= rested'
        BY <2>2, <3>1, <3>3 DEF InPlace
      <3>5. w \in Task => checkpoint' <= r.age
        BY <2>1, <3>2, <3>3, TimeAssumption DEF Age
      <3>6. Kept
        BY <2>2, <3>1, <3>2, <3>4, <3>5 DEF InPlace
      <3> QED
        BY <1>1, <1>4, <2>0, <3>6, SpacedStep
    <2>8. CASE Fail(w) \/ TimeOut(w)
      <3>1. job' = [job EXCEPT ![w] = r] /\ UNCHANGED <<checkpoint, rested, overlapped>>
        BY <1>1, <2>8 DEF Fail, TimeOut, Close
      <3>2. /\ r.age = job[w].age /\ r.pc \in {"mark", "fail"}
            /\ r.marked \in {job[w].marked, FALSE}
        <4>1. \/ r = [job[w] EXCEPT !.pc = "mark", !.status = "failed"]
              \/ r = [job[w] EXCEPT !.pc = "fail", !.guarded = FALSE, !.marked = FALSE]
          BY <1>1, <2>8 DEF Fail, TimeOut, Close
        <4> HIDE DEF r
        <4> QED
          BY <2>0, <4>1 DEF Job
      <3> HIDE DEF r
      <3>3. ~overlapped => InPlace(w, r, checkpoint, rested)
        BY <2>2, <3>2 DEF InPlace
      <3>4. Kept
        BY <2>2, <3>1, <3>2, <3>3
      <3> QED
        BY <1>1, <1>4, <2>0, <3>4, SpacedStep
    <2>9. CASE ReleaseGet(w)
      <3>1. job' = [job EXCEPT ![w] = r] /\ UNCHANGED <<checkpoint, overlapped>>
        BY <1>1, <2>9 DEF ReleaseGet, GoTo
      <3>2. /\ r.age = job[w].age /\ r.marked = job[w].marked /\ r.status = job[w].status
            /\ r.guarded = job[w].guarded /\ r.pc \in {"delete", "idle", "commit"}
            /\ job[w].pc = "release"
        BY <1>1, <2>0, <2>9 DEF ReleaseGet, GoTo, Leave, Job
      <3>3. rested' = IF w \in Task /\ job[w].status \in Closed THEN job[w].age ELSE rested
        BY <2>9 DEF ReleaseGet
      <3> HIDE DEF r
      <3>4. ~overlapped => checkpoint' <= rested'
        BY <2>2, <3>1, <3>2, <3>3 DEF InPlace
      <3>5. ~overlapped => r.age <= rested'
        BY <2>1, <2>2, <3>2, <3>3, TimeAssumption DEF InPlace, Age
      <3>6. Kept
        BY <2>2, <2>3, <3>1, <3>2, <3>4, <3>5 DEF InPlace
      <3> QED
        BY <1>1, <1>4, <2>0, <3>6, SpacedStep
    <2>10. CASE ReleaseDel(w)
      <3>1. job' = [job EXCEPT ![w] = r] /\ UNCHANGED <<checkpoint, rested, overlapped>>
        BY <1>1, <2>10 DEF ReleaseDel, GoTo
      <3>2. /\ r.age = job[w].age /\ r.marked = job[w].marked /\ r.status = job[w].status
            /\ r.guarded = job[w].guarded /\ r.pc \in {"idle", "commit"}
            /\ job[w].pc = "delete"
        BY <1>1, <2>0, <2>10 DEF ReleaseDel, GoTo, Leave, Job
      <3> HIDE DEF r
      <3>3. ~overlapped => InPlace(w, r, checkpoint, rested)
        BY <2>2, <3>2 DEF InPlace
      <3>4. Kept
        BY <2>2, <2>3, <3>1, <3>2, <3>3
      <3> QED
        BY <1>1, <1>4, <2>0, <3>4, SpacedStep
    <2>11. CASE Commit(w)
      <3>1. r.pc = "idle" /\ ~r.guarded
        BY <1>1, <2>11 DEF Commit, IdleJob
      <3>2. job' = [job EXCEPT ![w] = r] /\ UNCHANGED overlapped /\ job[w].pc = "commit"
        BY <1>1, <2>11 DEF Commit
      <3>3. /\ checkpoint' = IF job[w].marked THEN job[w].age ELSE checkpoint
            /\ rested' = IF job[w].status \in Closed THEN job[w].age ELSE rested
        BY <2>11 DEF Commit
      <3> HIDE DEF r
      <3>4. ~overlapped => checkpoint' <= rested'
        BY <1>1, <2>1, <2>2, <3>2, <3>3, TimeAssumption DEF InPlace, Age
      <3>5. Kept
        BY <3>1, <3>2, <3>4
      <3> QED
        BY <1>1, <1>4, <2>0, <3>5, SpacedStep
    <2> QED
      BY <1>4, <2>4, <2>5, <2>6, <2>7, <2>8, <2>9, <2>10, <2>11 DEF Run, Bookkeep, Release
  <1>5. ASSUME NEW w \in Worker,
               Acquire(w) \/ Refused(w) \/ Run(w) \/ Bookkeep(w) \/ Release(w)
        PROVE  Busy(w)
    <2>1. job[w].guarded => job[w].pc # "idle"
      BY DEF SpacedInv, GuardIsTheRun
    <2> QED
      BY <1>5, <2>1
      DEF Acquire, Refused, Run, RecordRun, Fetch, ProcessRecords, Finish, Mark, Report, At,
          Bookkeep, Fail, TimeOut, Release, ReleaseGet, ReleaseDel, Commit, Busy
  <1>6. ASSUME NEW p \in Processes, Crash(p) PROVE SpacedInv'
    <2>1. /\ \A w \in Worker : job'[w] \in {IdleJob, job[w]}
          /\ UNCHANGED <<checkpoint, rested, overlapped>>
      BY <1>6 DEF Crash
    <2>2. ~IdleJob.guarded /\ IdleJob.pc = "idle"
      BY DEF IdleJob
    <2>3. GuardIsTheRun'
      BY <2>1, <2>2 DEF SpacedInv, GuardIsTheRun
    <2>4. \A w \in Worker : Busy(w)' => Busy(w) /\ job'[w] = job[w]
      BY <2>1, <2>2 DEF Busy
    <2>5. Spaced'
      BY <2>1, <2>4 DEF SpacedInv, Spaced, OneIsBusy
    <2> QED
      BY <1>1, <2>3, <2>5 DEF SpacedInv
  <1>7. CASE Tick
    <2>1. ASSUME NEW w \in Worker
          PROVE  /\ job'[w].pc = job[w].pc /\ job'[w].guarded = job[w].guarded
                 /\ job'[w].forced = job[w].forced /\ job'[w].status = job[w].status
                 /\ job'[w].marked = job[w].marked
                 /\ Busy(w) => job'[w].age = Older(job[w].age)
      <3>1. job'[w] = IF job[w].pc = "idle" THEN job[w] ELSE Aged(w)
        BY <1>7 DEF Tick
      <3> QED
        BY <3>1, <1>2 DEF Aged, Job, Busy
    <2>2. checkpoint' = Older(checkpoint) /\ rested' = Older(rested) /\ UNCHANGED overlapped
      BY <1>7 DEF Tick
    <2>3. GuardIsTheRun'
      BY <2>1 DEF SpacedInv, GuardIsTheRun
    <2>4. ASSUME ~overlapped, NEW w \in Worker, Busy(w)
          PROVE  InPlace(w, job'[w], checkpoint', rested')
      <3>1. InPlace(w, job[w], checkpoint, rested)
        BY <2>4 DEF SpacedInv, Spaced
      <3>2. job[w].age \in Age
        BY <1>2, JobFields
      <3>3. job'[w].age <= rested'
        BY <1>1, <2>1, <2>2, <2>4, <3>1, <3>2, OlderIsMonotone DEF InPlace
      <3>4. w \in Task /\ job'[w].marked => checkpoint' <= job'[w].age
        BY <1>1, <2>1, <2>2, <2>4, <3>1, <3>2, OlderIsMonotone DEF InPlace
      <3>5. job'[w].pc \in {"acquire", "record"} /\ ~job'[w].forced => rested' = Interval
        BY <2>1, <2>2, <3>1, OlderIsMonotone DEF InPlace
      <3> QED
        BY <2>1, <3>1, <3>3, <3>4, <3>5 DEF InPlace
    <2>5. ~overlapped => OneIsBusy' /\ checkpoint' <= rested'
      BY <1>1, <2>1, <2>2, OlderIsMonotone DEF SpacedInv, Spaced, OneIsBusy, Busy
    <2>6. \A w \in Worker : Busy(w)' => Busy(w)
      BY <2>1 DEF Busy
    <2>7. Spaced'
      BY <2>2, <2>4, <2>5, <2>6 DEF Spaced
    <2> QED
      BY <1>1, <2>3, <2>7 DEF SpacedInv
  <1>8. CASE UNCHANGED vars
    BY <1>8 DEF vars, SpacedInv, TypeOK, GuardIsTheRun, Spaced, OneIsBusy, Busy
  <1> QED
    BY <1>3, <1>4, <1>5, <1>6, <1>7, <1>8 DEF Next

(* The invariant that spaces the runs, with any number of workers in any   *)
(* number of processes, and whatever time a release takes.                 *)
THEOREM SpacingInductiveInvariant == Spec => []SpacedInv
  BY InitSpaced, StepSpaced, PTL DEF Spec

(* The incremental skip holds over the whole life of a scope: as long as   *)
(* its runs never overlapped, no run that is not forced turns to the       *)
(* provider within the interval after the start of a run that was closed,  *)
(* whatever timed out, was rolled back, committed late or crashed between. *)
THEOREM RunsStayApart == Spec => RunsAreSpaced
  <1>1. SpacedInv /\ [Next]_vars
        => [\A w \in Worker :
              job[w].pc = "record" /\ job'[w].pc = "fetch" /\ ~job[w].forced /\ ~overlapped
                 => rested = Interval]_vars
    <2> SUFFICES ASSUME SpacedInv, NEW w \in Worker, job[w].pc = "record",
                        ~job[w].forced, ~overlapped
                 PROVE  rested = Interval
      OBVIOUS
    <2> QED
      BY DEF SpacedInv, Spaced, Busy, InPlace
  <1> QED
    BY <1>1, SpacingInductiveInvariant, PTL DEF Spec, RunsAreSpaced
=============================================================================
