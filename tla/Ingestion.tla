----------------------------- MODULE Ingestion -----------------------------
(***************************************************************************)
(* The ingestion pipeline: API handlers accept submissions, Redis carries  *)
(* job ids, workers claim the jobs in MySQL, run ProcessSubmission and     *)
(* record the outcome.  A submission, its job and the API handler that     *)
(* accepts it share one name, and a case is named by the submission that   *)
(* created it (cases.submission_id is unique).                             *)
(*                                                                         *)
(* One action is one call that leaves the process: a SQL statement, a      *)
(* Redis command or an object-store request.  Everything between two such  *)
(* calls is local and belongs to the action that precedes it.              *)
(***************************************************************************)
EXTENDS Naturals, Sequences, FiniteSets

CONSTANTS
    Subs,        \* submissions
    Workers,     \* worker processes
    Inline,      \* submissions the handler processes itself (forceSync)
    Hashes,      \* canonical hashes of redacted texts
    Canonical,   \* the canonical hash of each submission's text
    PurgeRaw,    \* config PurgeRawAfterProcessing
    MaxAttempts, \* job.MaxAttempts
    Faults,      \* kinds of failure the environment may inject
    MaxFaults,   \* bound on the failures of one behaviour
    None

(* crash: a process dies.  push: LPUSH fails, nothing delivered.  unacked:  *)
(* LPUSH delivers but its reply is lost.  twice: the Redis client retries   *)
(* a delivered LPUSH.  pop: BRPOP removes an id and its reply is lost.      *)
(* db: a statement fails and has no effect.  dbAck: a write takes effect    *)
(* and its reply is lost.  object: an object-store request fails.           *)
FaultKinds == {"crash", "push", "unacked", "twice", "pop", "db", "dbAck", "object"}

ASSUME IngestionAssumption ==
    /\ Inline \subseteq Subs
    /\ Subs \cap Workers = {}
    /\ None \notin Subs
    /\ Canonical \in [Subs -> Hashes]
    /\ PurgeRaw \in BOOLEAN
    /\ MaxAttempts \in Nat \ {0}
    /\ Faults \subseteq FaultKinds
    /\ MaxFaults \in Nat

VARIABLES
    raw,        \* the raw text in the object store: absent, stored, deleted
    rawDeleted, \* submissions.raw_deleted_at is set
    subStatus,  \* submissions.status, or absent
    dupOf,      \* submissions.duplicate_of_case_id
    cases,      \* the rows of cases
    jobStatus,  \* jobs.status, or absent
    attempts,   \* jobs.attempts
    queue,      \* the Redis list, oldest id first
    pc,         \* the next call of each handler and worker
    cur,        \* the job id a worker popped
    found,      \* existing case an actor looked up
    retry,      \* shouldRetry, decided by MarkJobFailed from a read
    faults      \* failures injected so far

submissions == <<raw, rawDeleted, subStatus, dupOf, cases>>
jobs == <<jobStatus, attempts>>
locals == <<cur, found, retry>>
vars == <<submissions, jobs, queue, pc, locals, faults>>

Actors == Workers \cup Subs

\* The calls between a claim and the write that ends the attempt.
ProcessingCalls == {"getSubmission", "getText", "find", "createCase", "findAgain",
                    "setFailed", "setProcessed", "setDuplicate", "delete",
                    "setRawDeleted", "getCase", "setDone"}
FailingCalls == {"getJob", "setRetry"}

Calls == ProcessingCalls \cup FailingCalls \cup
             {"idle", "claim", "repush",
              "start", "createSubmission", "createJob", "push", "end"}

SubmissionsOK ==
    /\ raw \in [Subs -> {"absent", "stored", "deleted"}]
    /\ rawDeleted \in [Subs -> BOOLEAN]
    /\ subStatus \in [Subs -> {"absent", "queued", "processed", "duplicate", "failed"}]
    /\ dupOf \in [Subs -> Subs \cup {None}]
    /\ cases \subseteq Subs

JobsOK ==
    /\ jobStatus \in [Subs -> {"absent", "queued", "running", "retry", "failed", "done"}]
    /\ attempts \in [Subs -> Nat]
    /\ queue \in Seq(Subs)

\* A worker holds a job id exactly while it is not waiting for one.
LocalsOK ==
    /\ pc \in [Actors -> Calls]
    /\ cur \in [Workers -> Subs \cup {None}]
    /\ \A w \in Workers : pc[w] = "idle" <=> cur[w] = None
    /\ found \in [Actors -> Subs \cup {None}]
    /\ retry \in [Actors -> BOOLEAN]

TypeOK == SubmissionsOK /\ JobsOK /\ LocalsOK /\ faults \in 0..MaxFaults

Init ==
    /\ raw = [s \in Subs |-> "absent"]
    /\ rawDeleted = [s \in Subs |-> FALSE]
    /\ subStatus = [s \in Subs |-> "absent"]
    /\ dupOf = [s \in Subs |-> None]
    /\ cases = {}
    /\ jobStatus = [s \in Subs |-> "absent"]
    /\ attempts = [s \in Subs |-> 0]
    /\ queue = <<>>
    /\ pc = [a \in Actors |-> IF a \in Workers THEN "idle" ELSE "start"]
    /\ cur = [w \in Workers |-> None]
    /\ found = [a \in Actors |-> None]
    /\ retry = [a \in Actors |-> FALSE]
    /\ faults = 0

-----------------------------------------------------------------------------
(* Failures and control flow shared by the actions.                         *)

Fail(kind) == kind \in Faults /\ faults < MaxFaults /\ faults' = faults + 1

\* The submission an actor works for.
Job(a) == IF a \in Workers THEN cur[a] ELSE a

\* Cases with the canonical hash of s; the unique key admits at most one.
SameHash(s) == {c \in cases : Canonical[c] = Canonical[s]}

At(a, call) == pc[a] = call
Goto(a, call) == pc' = [pc EXCEPT ![a] = call]

\* The handler returned its response, or the worker loops to its next BRPOP.
Return(a) ==
    /\ pc' = [pc EXCEPT ![a] = IF a \in Workers THEN "idle" ELSE "end"]
    /\ cur' = IF a \in Workers THEN [cur EXCEPT ![a] = None] ELSE cur
    /\ found' = [found EXCEPT ![a] = None]
    /\ retry' = [retry EXCEPT ![a] = FALSE]

\* Mutant of ProcessError: the error is dropped and the job marked done.
ProcessErrorDropped(a) == Goto(a, "setDone") /\ UNCHANGED locals

\* ProcessSubmission returned an error: handleJob goes on to MarkJobFailed,
\* the inline handler returns and leaves its job row as it is.
ProcessError(a) ==
    IF a \in Workers THEN Goto(a, "getJob") /\ UNCHANGED locals ELSE Return(a)

\* A write whose error the caller ignores: it takes effect, or it is lost.
Ignored(write, frame) ==
    \/ write /\ UNCHANGED faults
    \/ Fail("db") /\ UNCHANGED frame

\* A job id pushed n times.
Pushed(n, s) == queue \o [i \in 1..n |-> s]

-----------------------------------------------------------------------------
(* The API handler, createSubmissionFromText.                               *)

\* PutText.  An error returns before anything refers to the object.
PutText(s) ==
    /\ At(s, "start")
    /\ UNCHANGED <<rawDeleted, subStatus, dupOf, cases, jobs, queue>>
    /\ \/ /\ raw' = [raw EXCEPT ![s] = "stored"]
          /\ Goto(s, "createSubmission")
          /\ UNCHANGED <<locals, faults>>
       \/ /\ Fail("object")
          /\ raw' \in {raw, [raw EXCEPT ![s] = "stored"]}
          /\ Return(s)

CreateSubmission(s) ==
    LET Insert == subStatus' = [subStatus EXCEPT ![s] = "queued"]
    IN  /\ At(s, "createSubmission")
        /\ UNCHANGED <<raw, rawDeleted, dupOf, cases, jobs, queue>>
        /\ \/ Insert /\ Goto(s, "createJob") /\ UNCHANGED <<locals, faults>>
           \/ Fail("db") /\ UNCHANGED subStatus /\ Return(s)
           \/ Fail("dbAck") /\ Insert /\ Return(s)

CreateJob(s) ==
    LET Insert == jobStatus' = [jobStatus EXCEPT ![s] = "queued"]
        next == IF s \in Inline THEN "getSubmission" ELSE "push"
    IN  /\ At(s, "createJob")
        /\ UNCHANGED <<submissions, attempts, queue>>
        /\ \/ Insert /\ Goto(s, next) /\ UNCHANGED <<locals, faults>>
           \/ Fail("db") /\ UNCHANGED jobStatus /\ Return(s)
           \/ Fail("dbAck") /\ Insert /\ Return(s)

\* A push error sends the handler to MarkJobFailed, delivered or not.
PushJob(s) ==
    /\ At(s, "push")
    /\ UNCHANGED <<submissions, jobs>>
    /\ \/ queue' = Pushed(1, s) /\ Return(s) /\ UNCHANGED faults
       \/ Fail("twice") /\ queue' = Pushed(2, s) /\ Return(s)
       \/ Fail("push") /\ Goto(s, "getJob") /\ UNCHANGED <<queue, locals>>
       \/ /\ Fail("unacked")
          /\ \E n \in 1..2 : queue' = Pushed(n, s)
          /\ Goto(s, "getJob")
          /\ UNCHANGED locals

-----------------------------------------------------------------------------
(* The worker loop.                                                         *)

\* BRPOP takes the id out of Redis before anything else is known of it.
Pop(w) ==
    /\ At(w, "idle") /\ queue # <<>>
    /\ queue' = Tail(queue)
    /\ UNCHANGED <<submissions, jobs, found, retry>>
    /\ \/ cur' = [cur EXCEPT ![w] = Head(queue)] /\ Goto(w, "claim") /\ UNCHANGED faults
       \/ Fail("pop") /\ UNCHANGED <<cur, pc>>

\* Mutant of Claimable: the UPDATE excludes only finished jobs.
ClaimableUnlessFinished(s) == jobStatus[s] \notin {"done", "failed"}

Claimable(s) == jobStatus[s] \in {"queued", "retry"}

\* The guarded UPDATE of MarkJobRunning and the claim it wins.
SetRunning(s) ==
    /\ jobStatus' = [jobStatus EXCEPT ![s] = "running"]
    /\ attempts' = [attempts EXCEPT ![s] = @ + 1]

\* MarkJobRunning.  An error of the UPDATE, or of the GetJob after it, is
\* returned: the worker drops the id, claimed or not.
Claim(w) ==
    LET s == cur[w]
    IN  /\ At(w, "claim")
        /\ UNCHANGED <<submissions, queue>>
        /\ \/ /\ Claimable(s) /\ SetRunning(s)
              /\ Goto(w, "getSubmission") /\ UNCHANGED <<locals, faults>>
           \/ ~Claimable(s) /\ UNCHANGED <<jobs, faults>> /\ Return(w)
           \/ Fail("db") /\ UNCHANGED jobs /\ Return(w)
           \/ Fail("dbAck") /\ Claimable(s) /\ SetRunning(s) /\ Return(w)

\* The push of handleJob after a retryable failure; its error is dropped.
Repush(w) ==
    /\ At(w, "repush")
    /\ UNCHANGED <<submissions, jobs>>
    /\ Return(w)
    /\ \/ queue' = Pushed(1, cur[w]) /\ UNCHANGED faults
       \/ Fail("twice") /\ queue' = Pushed(2, cur[w])
       \/ Fail("push") /\ UNCHANGED queue

-----------------------------------------------------------------------------
(* ProcessSubmission, run by a worker or inline by a handler.               *)

GetSubmission(a) ==
    /\ At(a, "getSubmission")
    /\ UNCHANGED <<submissions, jobs, queue>>
    /\ \/ ~rawDeleted[Job(a)] /\ Goto(a, "getText") /\ UNCHANGED <<locals, faults>>
       \/ rawDeleted[Job(a)] /\ ProcessError(a) /\ UNCHANGED faults
       \/ Fail("db") /\ ProcessError(a)

GetText(a) ==
    /\ At(a, "getText")
    /\ UNCHANGED <<submissions, jobs, queue, locals>>
    /\ \/ raw[Job(a)] = "stored" /\ Goto(a, "find") /\ UNCHANGED faults
       \/ raw[Job(a)] # "stored" /\ Goto(a, "setFailed") /\ UNCHANGED faults
       \/ Fail("object") /\ Goto(a, "setFailed")

\* FindCaseByCanonicalHash; hit and miss name the next calls.  A failed
\* query is indistinguishable from a miss.
LookUp(a, hit, miss) ==
    /\ UNCHANGED <<submissions, jobs, queue, cur, retry>>
    /\ \/ \E c \in SameHash(Job(a)) : found' = [found EXCEPT ![a] = c]
          /\ Goto(a, hit) /\ UNCHANGED faults
       \/ SameHash(Job(a)) = {} /\ Goto(a, miss) /\ UNCHANGED <<found, faults>>
       \/ Fail("db") /\ Goto(a, miss) /\ UNCHANGED found

Find(a) == At(a, "find") /\ LookUp(a, "setDuplicate", "createCase")

\* Mutant of CreateCase: the error of the INSERT is not looked at.
CreateCaseUnchecked(a) ==
    /\ At(a, "createCase")
    /\ UNCHANGED <<raw, rawDeleted, subStatus, dupOf, jobs, queue, locals>>
    /\ \/ UNCHANGED faults
          /\ cases' = IF SameHash(Job(a)) = {} THEN cases \cup {Job(a)} ELSE cases
       \/ Fail("db") /\ UNCHANGED cases
    /\ Goto(a, "setProcessed")

\* INSERT IGNORE: a row with the same hash makes it a no-op, reported as
\* duplicate_case.
CreateCase(a) ==
    /\ At(a, "createCase")
    /\ UNCHANGED <<raw, rawDeleted, subStatus, dupOf, jobs, queue, locals>>
    /\ \/ /\ SameHash(Job(a)) = {}
          /\ cases' = cases \cup {Job(a)}
          /\ \/ Goto(a, "setProcessed") /\ UNCHANGED faults
             \/ Fail("dbAck") /\ Goto(a, "findAgain")
       \/ SameHash(Job(a)) # {} /\ UNCHANGED <<cases, faults>> /\ Goto(a, "findAgain")
       \/ Fail("db") /\ UNCHANGED cases /\ Goto(a, "findAgain")

FindAgain(a) == At(a, "findAgain") /\ LookUp(a, "setDuplicate", "setFailed")

\* Mutant of UpdateSubmissionStatus: the submission gets a job's status.
JobStatusInSubmission(s, status, duplicateOf) ==
    /\ subStatus' = [subStatus EXCEPT ![s] = "done"]
    /\ dupOf' = [dupOf EXCEPT ![s] = duplicateOf]

UpdateSubmissionStatus(s, status, duplicateOf) ==
    /\ subStatus' = [subStatus EXCEPT ![s] = status]
    /\ dupOf' = [dupOf EXCEPT ![s] = duplicateOf]

SetFailed(a) ==
    /\ At(a, "setFailed")
    /\ UNCHANGED <<raw, rawDeleted, cases, jobs, queue>>
    /\ Ignored(UpdateSubmissionStatus(Job(a), "failed", None), <<subStatus, dupOf>>)
    /\ ProcessError(a)

SetProcessed(a) ==
    /\ At(a, "setProcessed")
    /\ UNCHANGED <<raw, rawDeleted, cases, jobs, queue, locals>>
    /\ Ignored(UpdateSubmissionStatus(Job(a), "processed", None), <<subStatus, dupOf>>)
    /\ Goto(a, IF PurgeRaw THEN "delete" ELSE "getCase")

\* Mutant of SetDuplicate: the pointer names the new case id, not the existing.
SetDuplicateNewId(a) ==
    /\ At(a, "setDuplicate")
    /\ UNCHANGED <<raw, rawDeleted, cases, jobs, queue, locals>>
    /\ Ignored(UpdateSubmissionStatus(Job(a), "duplicate", Job(a)), <<subStatus, dupOf>>)
    /\ Goto(a, IF PurgeRaw THEN "delete" ELSE "setDone")

SetDuplicate(a) ==
    /\ At(a, "setDuplicate")
    /\ UNCHANGED <<raw, rawDeleted, cases, jobs, queue, locals>>
    /\ Ignored(UpdateSubmissionStatus(Job(a), "duplicate", found[a]), <<subStatus, dupOf>>)
    /\ Goto(a, IF PurgeRaw THEN "delete" ELSE "setDone")

\* A duplicate is returned as found; a new case is read back first.
Answer(a) == IF found[a] = None THEN "getCase" ELSE "setDone"

\* The Delete of purgeRaw; a missing object is no error.
Delete(a) ==
    LET gone == [raw EXCEPT ![Job(a)] = "deleted"]
    IN  /\ At(a, "delete")
        /\ UNCHANGED <<rawDeleted, subStatus, dupOf, cases, jobs, queue, locals>>
        /\ \/ raw' = gone /\ Goto(a, "setRawDeleted") /\ UNCHANGED faults
           \/ Fail("object") /\ raw' \in {raw, gone} /\ Goto(a, Answer(a))

SetRawDeleted(a) ==
    /\ At(a, "setRawDeleted")
    /\ UNCHANGED <<raw, subStatus, dupOf, cases, jobs, queue, locals>>
    /\ Ignored(rawDeleted' = [rawDeleted EXCEPT ![Job(a)] = TRUE], rawDeleted)
    /\ Goto(a, Answer(a))

GetCase(a) ==
    /\ At(a, "getCase")
    /\ UNCHANGED <<submissions, jobs, queue>>
    /\ \/ Goto(a, "setDone") /\ UNCHANGED <<locals, faults>>
       \/ Fail("db") /\ ProcessError(a)

-----------------------------------------------------------------------------
(* Recording the outcome of an attempt.                                     *)

\* MarkJobDone has no guard on the status it overwrites.
SetDone(a) ==
    /\ At(a, "setDone")
    /\ UNCHANGED <<submissions, attempts, queue>>
    /\ Ignored(jobStatus' = [jobStatus EXCEPT ![Job(a)] = "done"], jobStatus)
    /\ Return(a)

\* Mutants of MayRetry: no limit, and a limit that is off by one.
MayAlwaysRetry(s) == TRUE
MayRetryOnceMore(s) == attempts[s] <= MaxAttempts

MayRetry(s) == attempts[s] < MaxAttempts

\* MarkJobFailed, first half: the attempts are read ...
GetJob(a) ==
    /\ At(a, "getJob")
    /\ UNCHANGED <<submissions, jobs, queue>>
    /\ \/ /\ retry' = [retry EXCEPT ![a] = MayRetry(Job(a))]
          /\ Goto(a, "setRetry")
          /\ UNCHANGED <<cur, found, faults>>
       \/ Fail("db") /\ Return(a)

\* Mutant of SetRetry: the id of the retried job is not pushed again.
SetRetryOnly(a) ==
    LET Write == jobStatus' =
            [jobStatus EXCEPT ![Job(a)] = IF retry[a] THEN "retry" ELSE "failed"]
    IN  /\ At(a, "setRetry")
        /\ UNCHANGED <<submissions, attempts, queue>>
        /\ Write /\ Return(a) /\ UNCHANGED faults

\* ... second half: the status they imply is written, whatever it is now.
\* Only a worker whose write is acknowledged pushes the id again.
SetRetry(a) ==
    LET Write == jobStatus' =
            [jobStatus EXCEPT ![Job(a)] = IF retry[a] THEN "retry" ELSE "failed"]
        pushes == a \in Workers /\ retry[a]
    IN  /\ At(a, "setRetry")
        /\ UNCHANGED <<submissions, attempts, queue>>
        /\ \/ Write /\ pushes /\ Goto(a, "repush") /\ UNCHANGED <<locals, faults>>
           \/ Write /\ ~pushes /\ Return(a) /\ UNCHANGED faults
           \/ Fail("db") /\ UNCHANGED jobStatus /\ Return(a)
           \/ Fail("dbAck") /\ Write /\ Return(a)

-----------------------------------------------------------------------------

\* A process dies and is restarted; its open call leaves no effect, the
\* effect of the previous call stays.
Crash(a) ==
    /\ pc[a] \notin {"idle", "start", "end"}
    /\ Fail("crash")
    /\ Return(a)
    /\ UNCHANGED <<submissions, jobs, queue>>

Handler(s) == PutText(s) \/ CreateSubmission(s) \/ CreateJob(s) \/ PushJob(s)

Worker(w) == Pop(w) \/ Claim(w) \/ Repush(w)

Process(a) ==
    \/ GetSubmission(a) \/ GetText(a) \/ Find(a) \/ CreateCase(a) \/ FindAgain(a)
    \/ SetFailed(a) \/ SetProcessed(a) \/ SetDuplicate(a)
    \/ Delete(a) \/ SetRawDeleted(a) \/ GetCase(a)
    \/ SetDone(a) \/ GetJob(a) \/ SetRetry(a)

Next ==
    \/ \E s \in Subs : Handler(s)
    \/ \E w \in Workers : Worker(w)
    \/ \E a \in Actors : Process(a) \/ Crash(a)

Spec == Init /\ [][Next]_vars

\* A handler runs to its end once the request arrived; a worker loops for
\* ever.  Requests need not arrive and failures need not happen.
Fairness ==
    /\ \A s \in Subs : WF_vars(pc[s] # "start" /\ (Handler(s) \/ Process(s)))
    /\ \A w \in Workers : WF_vars(Worker(w) \/ Process(w))

FairSpec == Spec /\ Fairness

-----------------------------------------------------------------------------
(* Properties.                                                              *)

\* No contribution is lost: the raw text goes only after a case holds the
\* same redacted content (purgeRaw comes after CreateCase or a found twin),
\* whatever fails, crashes or runs twice.
NoContributionLost ==
    \A s \in Subs : raw[s] = "deleted" \/ rawDeleted[s] => SameHash(s) # {}

\* A duplicate points at an existing case with its own canonical hash, and a
\* processed submission has its case, also when two submissions with one
\* hash race between Find and CreateCase and when a retry overwrites.
OutcomeNamesItsCase ==
    \A s \in Subs :
        /\ subStatus[s] = "duplicate" => dupOf[s] \in SameHash(s)
        /\ subStatus[s] = "processed" => s \in cases
        /\ subStatus[s] # "duplicate" => dupOf[s] = None

\* A done job's content is in a case: no path reaches MarkJobDone before
\* the case exists.
DoneHasCase == \A s \in Subs : jobStatus[s] = "done" => SameHash(s) # {}

Running(w) == pc[w] \in ProcessingCalls \cup FailingCalls

\* Two workers never run one job at the same time, however often its id is
\* in the queue: the guarded UPDATE of MarkJobRunning admits one of them.
ExclusiveAttempt ==
    \A v, w \in Workers : Running(v) /\ Running(w) /\ v # w => cur[v] # cur[w]

\* An attempt is claimed at most MaxAttempts times, and once more if the
\* handler overwrites the status after a push that was delivered.
AttemptsOverrunByOne == \A s \in Subs : attempts[s] <= MaxAttempts + 1

\* Every job pushed by its handler comes to an end that agrees with the
\* submission its owner polls, if no process dies and Redis and MySQL answer.
JobsSettle ==
    \A s \in Subs \ Inline :
        jobStatus[s] = "queued" ~>
            \/ jobStatus[s] = "done" /\ subStatus[s] \in {"processed", "duplicate"}
            \/ jobStatus[s] = "failed" /\ subStatus[s] # "queued"

\* The jobs table keeps the promise of JobLifecycle although ids are
\* delivered twice and the handler and the workers write without guards:
\* the status an attempt overwrites is always the one the attempt set.
Lifecycle == INSTANCE JobLifecycle WITH
    Jobs <- Subs, status <- jobStatus, tries <- attempts

LifecycleKept == Lifecycle!Spec

\* What the alert "waiting for retry" and "all tasks can be retried" say of
\* a job in retry: it is attempted again.
RetryIsTaken ==
    \A s \in Subs : jobStatus[s] = "retry" ~> jobStatus[s] # "retry"

\* "All consumers are idempotent": running a job again whose first run made
\* the case finds the work done, so the job does not end as failed.
RetryIsIdempotent == \A s \in cases : jobStatus[s] # "failed"
=============================================================================
